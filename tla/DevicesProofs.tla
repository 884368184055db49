---------------------------- MODULE DevicesProofs ----------------------------
(* The devices' registers (Registers), the controllers behind WPAD and KPAD   *)
(* (Wpad) and the NAND's files (IosFiles), for any number of ports, channels, *)
(* threads and descriptors and any names.                                     *)
EXTENDS Registers, Wpad, IosFiles, SequenceTheorems, TLAPS

-----------------------------------------------------------------------------
(* The registers, for any number of SI ports and any set of devices: RegInv  *)
(* is inductive.  The step has one lemma per group of actions that go        *)
(* through the same path: Write (a register write, which raises), Signal (a  *)
(* device's own step), and those that do neither.                            *)

LEMMA InitHolds == RegInit => RegInv
<1> SUFFICES ASSUME RegInit PROVE RegInv
    OBVIOUS
<1>1. st = {} /\ used \in Device
    BY DEF RegInit
<1>2. en \subseteq Source(used)
    BY DEF RegInit
<1>3. RegTypeOK
  <2>1. di \in [cmd : DiCommand, tstart : BOOLEAN, busy : BOOLEAN,
                did : DiCommand \cup {"nothing"}]
    BY DEF RegInit, DiCommand
  <2>2. cursor \in 0 .. CommandBytes + 1
    BY DEF RegInit, CommandBytes
  <2>3. mask \in BOOLEAN /\ pending \in BOOLEAN /\ looking \in BOOLEAN
    BY DEF RegInit
  <2>4. arBusy \in BOOLEAN /\ selected \in BOOLEAN
    BY DEF RegInit
  <2>5. pads \subseteq Port /\ poll \subseteq Port /\ rdst \subseteq Port
    BY DEF RegInit
  <2> QED
    BY <1>1, <1>2, <2>1, <2>2, <2>3, <2>4, <2>5 DEF RegTypeOK
<1>4. PollHonest /\ LinesTold
    BY <1>1 DEF PollHonest, LinesTold, pi_cause, Irq
<1> QED
    BY <1>3, <1>4 DEF RegInv

(* A register write of a device with a place in the lists keeps the types of  *)
(* the line's variables and tells the polls of what it brings up.             *)
LEMMA WriteTells ==
    ASSUME RegTypeOK, LinesTold, NEW s, NEW e, Write(s, e),
           s \subseteq Source(used), e \subseteq Source(used)
    PROVE  /\ st' = s /\ en' = e /\ used' = used
           /\ st' \subseteq Source(used)' /\ en' \subseteq Source(used)'
           /\ used' \in Device
           /\ mask' \in BOOLEAN /\ pending' \in BOOLEAN /\ looking' \in BOOLEAN
           /\ LinesTold'
<1>1. st' = s /\ en' = e /\ used' = used /\ mask' = mask /\ looking' = looking
    BY DEF Write
<1>2. pending' = (pending \/ Raises)
    BY DEF Write
<1>3. Source(used)' = Source(used)
    BY <1>1 DEF Source
<1>4. Raises \in BOOLEAN /\ pending' \in BOOLEAN
    BY <1>2 DEF Raises, RegTypeOK
<1>5. used \notin {"VI", "PE"} => Raises
    BY RegistersAssumption DEF Raises, RegTypeOK
<1>6. LinesTold'
    BY <1>1, <1>2, <1>5 DEF LinesTold
<1> QED
    BY <1>1, <1>3, <1>4, <1>6 DEF RegTypeOK

(* A device that sets status bits of its own always raises.                   *)
LEMMA SignalTells ==
    ASSUME RegTypeOK, NEW s, Signal(s), s \subseteq Source(used)
    PROVE  /\ st' = st \cup s /\ en' = en /\ used' = used
           /\ st' \subseteq Source(used)' /\ en' \subseteq Source(used)'
           /\ used' \in Device
           /\ mask' \in BOOLEAN /\ pending' \in BOOLEAN /\ looking' \in BOOLEAN
           /\ LinesTold'
BY DEF Signal, RegTypeOK, LinesTold, Source

(* What a step keeps of RegInv when it leaves the SI's answers alone and adds *)
(* no poll interrupt.                                                         *)
LEMMA RestKept ==
    ASSUME RegInv, UNCHANGED rest, used' = used,
           st' \subseteq Source(used)', en' \subseteq Source(used)',
           mask' \in BOOLEAN /\ pending' \in BOOLEAN /\ looking' \in BOOLEAN,
           LinesTold', "RD" \in st' => "RD" \in st
    PROVE  RegInv'
<1>1. RegTypeOK'
    BY DEF RegInv, RegTypeOK, rest, si
<1>2. PollHonest'
    BY DEF RegInv, PollHonest, rest, si
<1> QED
    BY <1>1, <1>2 DEF RegInv
-----------------------------------------------------------------------------
(* Clearing status bits and setting enables: the part of a write all share.   *)
LEMMA ClearedTells ==
    ASSUME RegInv, NEW clear, Cleared(clear)
    PROVE  /\ st' \subseteq st /\ used' = used
           /\ st' \subseteq Source(used)' /\ en' \subseteq Source(used)'
           /\ used' \in Device
           /\ mask' \in BOOLEAN /\ pending' \in BOOLEAN /\ looking' \in BOOLEAN
           /\ LinesTold'
<1>1. PICK e \in SUBSET Source(used) : Write(st \ clear, e)
    BY DEF Cleared
<1>2. st \ clear \subseteq Source(used) /\ e \subseteq Source(used)
    BY <1>1 DEF RegInv, RegTypeOK
<1> QED
    BY <1>1, <1>2, WriteTells DEF RegInv

(* The steps of the guest's own making, but for the SI's.                     *)
LEMMA GuestStep ==
    ASSUME RegInv, WriteMask \/ WriteStatus \/ PollClears \/ PollLooks
    PROVE  RegInv'
<1>1. CASE WriteMask
  <2>1. LinesTold'
    BY <1>1 DEF WriteMask, LinesTold
  <2>2. st' = st /\ en' = en /\ used' = used /\ UNCHANGED rest
    BY <1>1 DEF WriteMask
  <2>3. mask' \in BOOLEAN /\ pending' \in BOOLEAN /\ looking' \in BOOLEAN
    BY <1>1 DEF WriteMask, RegInv, RegTypeOK
  <2> QED
    BY <2>1, <2>2, <2>3, RestKept DEF RegInv, RegTypeOK, Source
<1>2. CASE WriteStatus
  <2>1. PICK clear \in SUBSET st : Cleared(clear) /\ UNCHANGED rest
    BY <1>2 DEF WriteStatus
  <2> QED
    BY <2>1, ClearedTells, RestKept
<1>3. CASE PollClears
  <2>1. LinesTold'
    BY <1>3 DEF PollClears, LinesTold
  <2>2. st' = st /\ en' = en /\ used' = used /\ UNCHANGED rest
    BY <1>3 DEF PollClears
  <2>3. mask' \in BOOLEAN /\ pending' \in BOOLEAN /\ looking' \in BOOLEAN
    BY <1>3 DEF PollClears, RegInv, RegTypeOK
  <2> QED
    BY <2>1, <2>2, <2>3, RestKept DEF RegInv, RegTypeOK, Source
<1>4. CASE PollLooks
  <2>1. LinesTold'
    BY <1>4 DEF PollLooks, LinesTold, pi_cause, Irq
  <2>2. st' = st /\ en' = en /\ used' = used /\ UNCHANGED rest
    BY <1>4 DEF PollLooks
  <2>3. mask' \in BOOLEAN /\ looking' \in BOOLEAN
    BY <1>4 DEF PollLooks, RegInv, RegTypeOK
  <2>4. pending' \in BOOLEAN
    BY <1>4 DEF PollLooks, RegInv, RegTypeOK, pi_cause
  <2> QED
    BY <2>1, <2>2, <2>3, <2>4, RestKept DEF RegInv, RegTypeOK, Source
<1> QED
    BY <1>1, <1>2, <1>3, <1>4
-----------------------------------------------------------------------------
(* What is left to show of a step that moves a device's other registers, once *)
(* its line is known to be right, and the SI's answers are left alone.        *)
RestTyped ==
    /\ arBusy \in BOOLEAN /\ selected \in BOOLEAN
    /\ di \in [cmd : DiCommand, tstart : BOOLEAN, busy : BOOLEAN,
               did : DiCommand \cup {"nothing"}]
    /\ cursor \in 0 .. CommandBytes + 1
    /\ pads \subseteq Port /\ poll \subseteq Port

LEMMA DeviceMoves ==
    ASSUME RegInv, RestTyped', rdst' = rdst, used' = used,
           st' \subseteq Source(used)', en' \subseteq Source(used)',
           mask' \in BOOLEAN /\ pending' \in BOOLEAN /\ looking' \in BOOLEAN,
           LinesTold', "RD" \in st' => "RD" \in st
    PROVE  RegInv'
<1>1. RegTypeOK'
    BY DEF RegInv, RegTypeOK, RestTyped
<1>2. PollHonest'
    BY DEF RegInv, PollHonest
<1> QED
    BY <1>1, <1>2 DEF RegInv

(* A timed command runs only in the device this behaviour drives.             *)
OnlyItsOwn == (arBusy => used = "DSP") /\ (di.busy => used = "DI")

LEMMA OwnKept ==
    ASSUME OnlyItsOwn, RegTypeOK, [RegNext]_regVars
    PROVE  OnlyItsOwn'
<1> USE DEF OnlyItsOwn
<1>1. CASE UNCHANGED rest /\ used' = used
    BY <1>1 DEF rest
<1>2. CASE WriteMask \/ WriteStatus \/ PollClears \/ PollLooks \/ Event \/ Mail \/ SiTransfer
    BY <1>1, <1>2 DEF WriteMask, WriteStatus, Cleared, Write, PollClears, PollLooks,
                      Event, Mail, Signal, SiTransfer
<1>3. CASE hw_vi_retrace \/ WriteCsr \/ Transfer \/ SetPoll \/ ReadAnswer \/ PlugPad
    BY <1>3 DEF hw_vi_retrace, rest, si, WriteCsr, Cleared, Write, Transfer, SetPoll,
                ReadAnswer, PlugPad, line
<1>4. CASE StartAram \/ ar_tick
    BY <1>4 DEF StartAram, Write, ar_tick, Signal
<1>5. CASE WriteCommand
    BY <1>5 DEF WriteCommand, Write
<1>6. CASE di_tick
    BY <1>6 DEF di_tick, Signal, RegTypeOK
<1>7. CASE UNCHANGED regVars
    BY <1>7 DEF regVars, rest
<1> QED
    BY <1>2, <1>3, <1>4, <1>5, <1>6, <1>7 DEF RegNext, dsp_write, si_write

(* The DSP's and the other sources of plain events.                           *)
LEMMA DspStep ==
    ASSUME RegInv, OnlyItsOwn, Event \/ dsp_write \/ ar_tick
    PROVE  RegInv'
<1>1. RegTypeOK /\ LinesTold /\ RestTyped
    BY DEF RegInv, RegTypeOK, RestTyped
<1>2. CASE Event
  <2>1. PICK s \in {"token", "finish", "TC", "AID"} :
            Signal({s}) /\ {s} \subseteq Source(used) /\ UNCHANGED rest
    BY <1>2 DEF Event, Source
  <2>2. {s} \subseteq Source(used)
    BY <2>1
  <2> QED
    BY <1>1, <2>1, <2>2, SignalTells, RestKept
<1>3. CASE Mail
  <2>1. Write(st \cup {"DSP"}, en) /\ UNCHANGED rest /\ used = "DSP"
    BY <1>3 DEF Mail
  <2>2. st \cup {"DSP"} \subseteq Source(used) /\ en \subseteq Source(used)
    BY <1>1, <2>1 DEF RegTypeOK, Source
  <2> QED
    BY <1>1, <2>1, <2>2, WriteTells, RestKept
<1>4. CASE StartAram
  <2>1. Write(st, en) /\ rdst' = rdst
    BY <1>4 DEF StartAram, si
  <2>2. st \subseteq Source(used) /\ en \subseteq Source(used)
    BY <1>1 DEF RegTypeOK
  <2>3. RestTyped'
    BY <1>1, <1>4 DEF StartAram, RestTyped, si
  <2> QED
    BY <1>1, <2>1, <2>2, <2>3, WriteTells, DeviceMoves
<1>5. CASE ar_tick
  <2>1. Signal({"AR"}) /\ rdst' = rdst /\ arBusy
    BY <1>5 DEF ar_tick, si
  <2>2. RestTyped'
    BY <1>1, <1>5 DEF ar_tick, RestTyped, si
  <2>3. {"AR"} \subseteq Source(used)
    BY <2>1 DEF OnlyItsOwn, Source
  <2>4. used' = used /\ ("RD" \in st' => "RD" \in st)
    BY <2>1 DEF Signal
  <2> QED
    BY <1>1, <2>1, <2>2, <2>3, <2>4, SignalTells, DeviceMoves
<1> QED
    BY <1>2, <1>3, <1>4, <1>5 DEF dsp_write
(* EXI and DI.                                                                *)
LEMMA ChipStep ==
    ASSUME RegInv, OnlyItsOwn, WriteCsr \/ Transfer \/ WriteCommand \/ di_tick
    PROVE  RegInv'
<1>1. RegTypeOK /\ LinesTold /\ RestTyped
    BY DEF RegInv, RegTypeOK, RestTyped
<1>2. CASE WriteCsr
  <2>1. PICK clear \in SUBSET st : Cleared(clear)
    BY <1>2 DEF WriteCsr
  <2>2. RestTyped' /\ rdst' = rdst
    BY <1>1, <1>2 DEF WriteCsr, RestTyped, si, CommandBytes
  <2> QED
    BY <2>1, <2>2, ClearedTells, DeviceMoves
<1>3. CASE Transfer
  <2>1. Write(st \cup {"TC"}, en) /\ rdst' = rdst /\ used = "EXI"
    BY <1>3 DEF Transfer, si
  <2>2. st \cup {"TC"} \subseteq Source(used) /\ en \subseteq Source(used)
    BY <1>1, <2>1 DEF RegTypeOK, Source
  <2>3. cursor' \in 0 .. CommandBytes + 1
    BY <1>1, <1>3 DEF Transfer, RestTyped, CommandBytes
  <2>4. RestTyped'
    BY <1>1, <1>3, <2>3 DEF Transfer, RestTyped, si
  <2> QED
    BY <1>1, <2>1, <2>2, <2>4, WriteTells, DeviceMoves
<1>4. CASE WriteCommand
  <2>1. Write(st, en) /\ rdst' = rdst
    BY <1>4 DEF WriteCommand, si
  <2>2. st \subseteq Source(used) /\ en \subseteq Source(used)
    BY <1>1 DEF RegTypeOK
  <2>3. di' \in [cmd : DiCommand, tstart : BOOLEAN, busy : BOOLEAN,
                 did : DiCommand \cup {"nothing"}]
    BY <1>1, <1>4 DEF WriteCommand, RestTyped
  <2>4. RestTyped'
    BY <1>1, <1>4, <2>3 DEF WriteCommand, RestTyped, si
  <2> QED
    BY <1>1, <2>1, <2>2, <2>4, WriteTells, DeviceMoves
<1>5. CASE di_tick
  <2>1. Signal({"TC"}) /\ rdst' = rdst /\ di.busy
    BY <1>5 DEF di_tick, si
  <2>2. {"TC"} \subseteq Source(used)
    BY <2>1 DEF OnlyItsOwn, Source
  <2>3. di' \in [cmd : DiCommand, tstart : BOOLEAN, busy : BOOLEAN,
                 did : DiCommand \cup {"nothing"}]
    BY <1>1, <1>5 DEF di_tick, RestTyped
  <2>4. RestTyped'
    BY <1>1, <1>5, <2>3 DEF di_tick, RestTyped, si
  <2> QED
    BY <1>1, <2>1, <2>2, <2>4, SignalTells, DeviceMoves DEF Signal
<1> QED
    BY <1>2, <1>3, <1>4, <1>5
(* The SI, and the retrace, which polls it.                                   *)
LEMMA RetraceStep ==
    ASSUME RegInv, hw_vi_retrace
    PROVE  RegInv'
<1>1. used' = used /\ en' = en /\ mask' = mask /\ looking' = looking
    BY DEF hw_vi_retrace
<1>2. Irq' \in BOOLEAN
    BY DEF Irq
<1>3. pending' = (pending \/ (used = "VI" /\ en # {}) \/ Irq')
    BY DEF hw_vi_retrace
<1>4. pending' \in BOOLEAN
    BY <1>2, <1>3 DEF RegInv, RegTypeOK
<1>5. LinesTold'
    BY <1>3 DEF LinesTold, pi_cause
<1>6. st' \subseteq Source(used)
    BY DEF hw_vi_retrace, SiPolls, RegInv, RegTypeOK, Source
<1>7. st' \subseteq Source(used)' /\ en' \subseteq Source(used)'
    BY <1>1, <1>6 DEF RegInv, RegTypeOK, Source
<1>8. CASE used = "VI" /\ UNCHANGED rest
  <2>1. RegTypeOK'
    BY <1>1, <1>4, <1>7, <1>8 DEF RegInv, RegTypeOK, rest, si
  <2>2. PollHonest'
    BY <1>1, <1>8 DEF PollHonest
  <2> QED
    BY <1>5, <2>1, <2>2 DEF RegInv
<1>9. CASE used = "SI" /\ SiPolls /\ UNCHANGED <<arBusy, di, cursor, selected, pads, poll>>
  <2>1. rdst' \subseteq Port
    BY <1>9 DEF SiPolls, RegInv, RegTypeOK
  <2>2. RegTypeOK'
    BY <1>1, <1>4, <1>7, <1>9, <2>1 DEF RegInv, RegTypeOK
  <2>3. PollHonest'
    BY <1>1, <1>9 DEF SiPolls, RegInv, PollHonest
  <2> QED
    BY <1>5, <2>2, <2>3 DEF RegInv
<1> QED
    BY <1>8, <1>9 DEF hw_vi_retrace

LEMMA SiStep ==
    ASSUME RegInv, si_write \/ ReadAnswer \/ PlugPad
    PROVE  RegInv'
<1>1. RegTypeOK /\ LinesTold /\ RestTyped
    BY DEF RegInv, RegTypeOK, RestTyped
<1>2. CASE SiTransfer
  <2>1. PICK clear \in SUBSET st, e \in SUBSET Source("SI") :
            Write((st \ clear) \cup {"TC"}, e)
    BY <1>2 DEF SiTransfer
  <2>2. used = "SI" /\ UNCHANGED rest
    BY <1>2 DEF SiTransfer
  <2>3. (st \ clear) \cup {"TC"} \subseteq Source(used) /\ e \subseteq Source(used)
    BY <1>1, <2>2 DEF RegTypeOK, Source
  <2> QED
    BY <1>1, <2>1, <2>2, <2>3, WriteTells, RestKept
<1>3. CASE SetPoll
  <2>1. Write(st, en) /\ rdst' = rdst
    BY <1>3 DEF SetPoll
  <2>2. st \subseteq Source(used) /\ en \subseteq Source(used)
    BY <1>1 DEF RegTypeOK
  <2>3. RestTyped'
    BY <1>1, <1>3 DEF SetPoll, RestTyped
  <2> QED
    BY <1>1, <2>1, <2>2, <2>3, WriteTells, DeviceMoves
<1>4. CASE ReadAnswer
  <2>1. /\ used' = used /\ en' = en /\ mask' = mask /\ pending' = pending
        /\ looking' = looking /\ UNCHANGED <<arBusy, di, cursor, selected, pads, poll>>
    BY <1>4 DEF ReadAnswer
  <2>2. st' \subseteq st /\ rdst' \subseteq rdst
    BY <1>4 DEF ReadAnswer, AfterRead
  <2>3. RegTypeOK'
    BY <1>1, <2>1, <2>2 DEF RegTypeOK, Source
  <2>4. PollHonest'
    BY <1>4 DEF ReadAnswer, AfterRead, PollHonest
  <2>5. LinesTold'
    BY <1>1, <2>1, <2>2 DEF LinesTold, pi_cause, Irq
  <2> QED
    BY <2>3, <2>4, <2>5 DEF RegInv
<1>5. CASE PlugPad
  <2>1. UNCHANGED <<used, line, rdst>>
    BY <1>5 DEF PlugPad
  <2>2. RestTyped'
    BY <1>1, <1>5 DEF PlugPad, RestTyped
  <2>3. LinesTold'
    BY <1>1, <2>1 DEF line, LinesTold, pi_cause, Irq
  <2> QED
    BY <1>1, <2>1, <2>2, <2>3, DeviceMoves DEF line, RegTypeOK, Source
<1> QED
    BY <1>2, <1>3, <1>4, <1>5 DEF si_write

(* A stuttering step.                                                         *)
LEMMA Stutter ==
    ASSUME RegInv, UNCHANGED regVars
    PROVE  RegInv'
<1>1. UNCHANGED <<used, st, en, mask, pending, looking>> /\ UNCHANGED rest
    BY DEF regVars, line
<1>2. LinesTold'
    BY <1>1 DEF RegInv, LinesTold, pi_cause, Irq
<1> QED
    BY <1>1, <1>2, RestKept DEF RegInv, RegTypeOK, Source

-----------------------------------------------------------------------------
(* For any set of devices and SI ports: an unmasked interrupt line that comes *)
(* up, by whatever register write or device, is known to the guest's polls    *)
(* (but for VI's and PE's enables), and the SI's poll interrupt stays only    *)
(* while an answer waits (mmio_write, os_raise, si_read).                     *)
THEOREM RegistersInvariant == RegSpec => []RegInv
<1>1. RegInit => RegInv /\ OnlyItsOwn
    BY InitHolds DEF RegInit, OnlyItsOwn
<1>2. RegInv /\ OnlyItsOwn /\ [RegNext]_regVars => RegInv' /\ OnlyItsOwn'
  <2> SUFFICES ASSUME RegInv, OnlyItsOwn, [RegNext]_regVars
               PROVE  RegInv' /\ OnlyItsOwn'
    OBVIOUS
  <2>1. OnlyItsOwn'
    BY OwnKept DEF RegInv
  <2>2. RegInv'
    BY GuestStep, RetraceStep, DspStep, ChipStep, SiStep, Stutter DEF RegNext
  <2> QED
    BY <2>1, <2>2
<1> QED
    BY <1>1, <1>2, PTL DEF RegSpec
-----------------------------------------------------------------------------
(* WPAD: where the threads are in deliver().                               *)

Frame == [at : {"out", "done", "chan", "read"} \cup Kind, i : Nat,
          here : BOOLEAN, in : BOOLEAN, t0 : 0 .. Horizon, then : {"nothing", "read"}]
Entry == [chan : Chan, id : 1 .. MaxRequests]
Busy == {"done", "chan"} \cup Kind

PadType ==
  /\ mode \in {"remote", "nunchuk", "classic"}
  /\ plugged \in [Chan -> BOOLEAN] /\ pressed \subseteq Button /\ tb \in 0 .. Horizon
  /\ prev \subseteq Button /\ believed = prev
SlotType ==
  /\ cb \in [Chan -> [Kind -> Callback \cup {Null}]]
  /\ since \in [Chan -> 0 .. Horizon]
  /\ told \in [Chan -> BOOLEAN] /\ toldHere \in [Chan -> BOOLEAN]
  /\ heard \in [Chan -> [Connect -> {"nothing", "here", "gone"}]]
  /\ latest \in [Chan -> Connect] /\ within \subseteq Chan
TableType ==
  /\ done \in Seq(Entry) /\ Len(done) <= DoneMax
  /\ asked \in 0 .. MaxRequests /\ answered \in Seq(1 .. MaxRequests)

\* A thread's place in deliver(): at a completion that is there, or past the
\* last; at a channel, or past the last; inside a call at these only.
Sound(f, len) ==
  /\ f.at \in {"out", "chan", "read"} => ~f.in
  /\ f.at = "done" => f.i # 0 /\ f.i <= len + 1 /\ (f.in => f.i <= len)
  /\ f.at = "chan" => f.i \in 0 .. NChan
  /\ f.at \in Kind => f.i \in Chan

\* The flag is up while a thread is in deliver(), and one at most is.
Frames ==
  /\ delivering \in BOOLEAN /\ frame \in [Thread -> Frame]
  /\ \A t \in Thread : Sound(frame[t], Len(done)) /\ (frame[t].at \in Busy => delivering)
  /\ \A t, u \in Thread : frame[t].at \in Busy /\ frame[u].at \in Busy => t = u

\* The table's requests are the last that were made; those called back are all
\* before, and those deliver() has come past.
Called(f) == IF f.in THEN f.i ELSE f.i - 1
Answers ==
  /\ Len(done) <= asked
  /\ \A k \in DOMAIN done : done[k].id = (asked - Len(done)) + k
  /\ \A n \in DOMAIN answered : answered[n] = n
  /\ \A t \in Thread : frame[t].at = "done" =>
       Len(answered) = (asked - Len(done)) + Called(frame[t])
  /\ (\A t \in Thread : frame[t].at # "done") => Len(answered) = asked - Len(done)

PadIInv == PadType /\ SlotType /\ TableType /\ Frames /\ Answers

LEMMA TypeParts == TypeOK /\ EdgesAddUp <=>
  PadType /\ SlotType /\ TableType /\ delivering \in BOOLEAN /\ frame \in [Thread -> Frame]
<1>1. believed = prev => (believed \subseteq Button <=> prev \subseteq Button)
  OBVIOUS
<1>2. QED
  BY <1>1 DEF TypeOK, EdgesAddUp, PadType, SlotType, TableType, Frame, Entry

LEMMA Bounds ==
  /\ NChan \in Nat \ {0} /\ DoneMax \in Nat \ {0} /\ Settle \in Nat /\ Horizon \in Nat
  /\ MaxRequests \in Nat /\ Chan = 0 .. NChan - 1 /\ 0 \in Chan
  /\ \A c \in Chan : c \in Nat /\ c < NChan /\ c + 1 \in 0 .. NChan
BY WpadAssumption DEF Chan

-----------------------------------------------------------------------------
(* Steps of one thread.                                                    *)

Moves(t) == frame' \in [Thread -> Frame] /\ \A u \in Thread \ {t} : frame'[u] = frame[u]

LEMMA FramesMove ==
  ASSUME Frames, Len(done) \in Nat, Len(done') \in Nat, NEW t \in Thread, Moves(t),
         Sound(frame'[t], Len(done')), delivering' \in BOOLEAN,
         Len(done) <= Len(done') \/ frame[t].at \in Busy,
         frame'[t].at \in Busy => delivering' /\ (frame[t].at \in Busy \/ ~delivering),
         delivering' = delivering \/ frame'[t].at \in Busy \/ frame[t].at \in Busy
  PROVE  Frames'
<1>1. \A u \in Thread : u = t \/ frame'[u] = frame[u]
  BY DEF Moves
<1>2. ASSUME NEW u \in Thread, u # t
      PROVE  Sound(frame'[u], Len(done')) /\ (frame'[u].at \in Busy => delivering')
  <2>1. frame'[u] = frame[u] /\ Sound(frame[u], Len(done)) /\ (frame[u].at \in Busy => delivering)
    BY <1>1, <1>2 DEF Frames
  <2>2. Sound(frame[u], Len(done'))
    <3>1. CASE frame[u].at = "done"
      <4>1. frame[t].at \notin Busy
        BY <1>2, <3>1 DEF Frames, Busy
      <4>2. Len(done) <= Len(done')
        BY <4>1
      <4>3. frame[u].i \in Nat
        BY DEF Frames, Frame
      <4>4. QED BY <2>1, <4>2, <4>3 DEF Sound
    <3>2. CASE frame[u].at # "done"
      BY <2>1, <3>2 DEF Sound
    <3>3. QED BY <3>1, <3>2
  <2>3. frame[u].at \in Busy => delivering'
    BY <1>2, <2>1 DEF Frames
  <2>4. QED BY <2>1, <2>2, <2>3
<1>3. \A u \in Thread : Sound(frame'[u], Len(done')) /\ (frame'[u].at \in Busy => delivering')
  BY <1>2
<1>4. ASSUME NEW u \in Thread, NEW v \in Thread, frame'[u].at \in Busy, frame'[v].at \in Busy
      PROVE  u = v
  <2>1. CASE u = t /\ v # t
    <3>1. frame[v].at \in Busy /\ delivering
      BY <1>1, <1>4, <2>1 DEF Frames
    <3>2. frame[t].at \in Busy
      BY <1>4, <2>1, <3>1
    <3>3. QED BY <2>1, <3>1, <3>2 DEF Frames
  <2>2. CASE v = t /\ u # t
    <3>1. frame[u].at \in Busy /\ delivering
      BY <1>1, <1>4, <2>2 DEF Frames
    <3>2. frame[t].at \in Busy
      BY <1>4, <2>2, <3>1
    <3>3. QED BY <2>2, <3>1, <3>2 DEF Frames
  <2>3. CASE u # t /\ v # t
    BY <1>1, <1>4, <2>3 DEF Frames
  <2>4. QED BY <2>1, <2>2, <2>3
<1>5. QED BY <1>3, <1>4 DEF Frames, Moves

\* Of what the table says nothing changes when no thread comes to a completion
\* or leaves one.
LEMMA AnswersMove ==
  ASSUME Answers, UNCHANGED <<done, asked, answered>>, NEW t \in Thread, Moves(t),
         frame'[t].at = "done" <=> frame[t].at = "done",
         frame[t].at = "done" => Called(frame'[t]) = Called(frame[t])
  PROVE  Answers'
<1>1. \A u \in Thread : u = t \/ frame'[u] = frame[u]
  BY DEF Moves
<1>2. \A u \in Thread : /\ frame'[u].at = "done" <=> frame[u].at = "done"
                        /\ frame[u].at = "done" => Called(frame'[u]) = Called(frame[u])
  BY <1>1
<1>3. QED BY <1>2 DEF Answers

\* What the updates of a thread's frame make of it.
Places == {"out", "done", "chan", "read"} \cup Kind

LEMMA GoFacts ==
  ASSUME frame \in [Thread -> Frame], NEW t \in Thread, NEW a \in Places, NEW n \in Nat,
         frame' = [frame EXCEPT ![t].at = a, ![t].i = n]
  PROVE  /\ Moves(t) /\ frame'[t].at = a /\ frame'[t].i = n
         /\ frame'[t].in = frame[t].in /\ frame'[t].here = frame[t].here
         /\ frame'[t].t0 = frame[t].t0
BY DEF Moves, Frame, Places

LEMMA NextFacts ==
  ASSUME frame \in [Thread -> Frame], NEW t \in Thread, NEW n \in Nat,
         frame' = [frame EXCEPT ![t].at = "chan", ![t].i = n]
  PROVE  /\ Moves(t) /\ frame'[t].at = "chan" /\ frame'[t].i = n
         /\ frame'[t].in = frame[t].in /\ frame'[t].here = frame[t].here
         /\ frame'[t].t0 = frame[t].t0
BY DEF Moves, Frame

LEMMA InFacts ==
  ASSUME frame \in [Thread -> Frame], NEW t \in Thread,
         frame' = [frame EXCEPT ![t].in = TRUE]
  PROVE  /\ Moves(t) /\ frame'[t].at = frame[t].at /\ frame'[t].i = frame[t].i
         /\ frame'[t].in = TRUE /\ frame'[t].here = frame[t].here
         /\ frame'[t].t0 = frame[t].t0
BY DEF Moves, Frame

LEMMA BackFacts ==
  ASSUME frame \in [Thread -> Frame], NEW t \in Thread, Back(t)
  PROVE  Moves(t) /\ frame'[t].at \in {"out", "read"} /\ frame'[t].in = FALSE
<1>1. PICK a \in {"out", "read"} : frame' = [frame EXCEPT ![t] = [Out EXCEPT !.at = a]]
  BY DEF Back
<1>. DEFINE f == [Out EXCEPT !.at = a]
<1>2. Out \in Frame /\ Out.in = FALSE
  BY Bounds DEF Out, Frame
<1>3. f \in Frame /\ f.at = a /\ f.in = FALSE
  BY <1>2 DEF Frame
<1>. HIDE DEF f
<1>4. frame' = [frame EXCEPT ![t] = f]
  BY <1>1 DEF f
<1>5. QED BY <1>3, <1>4 DEF Moves

LEMMA LookFacts ==
  ASSUME frame \in [Thread -> Frame], NEW t \in Thread, tb \in 0 .. Horizon,
         frame' = [frame EXCEPT ![t].at = "chan", ![t].i = 0, ![t].t0 = tb]
  PROVE  /\ Moves(t) /\ frame'[t].at = "chan" /\ frame'[t].i = 0
         /\ frame'[t].in = frame[t].in /\ frame'[t].t0 = tb
BY DEF Moves, Frame

LEMMA ToldFacts ==
  ASSUME frame \in [Thread -> Frame], NEW t \in Thread, NEW h \in BOOLEAN,
         frame' = [frame EXCEPT ![t].at = "wpad", ![t].here = h]
  PROVE  /\ Moves(t) /\ frame'[t].at = "wpad" /\ frame'[t].i = frame[t].i
         /\ frame'[t].in = frame[t].in /\ frame'[t].here = h
         /\ frame'[t].t0 = frame[t].t0
BY DEF Moves, Frame, Kind, Connect

LEMMA EnterFacts ==
  ASSUME frame \in [Thread -> Frame], NEW t \in Thread, NEW then \in {"nothing", "read"},
         frame' = [frame EXCEPT ![t].at = "done", ![t].i = 1, ![t].then = then]
  PROVE  /\ Moves(t) /\ frame'[t].at = "done" /\ frame'[t].i = 1
         /\ frame'[t].in = frame[t].in
BY DEF Moves, Frame

LEMMA ReturnFacts ==
  ASSUME frame \in [Thread -> Frame], NEW t \in Thread, frame[t].at \in {"done"} \cup Kind,
         CallReturns(t)
  PROVE  /\ Moves(t) /\ frame'[t].in = FALSE /\ frame'[t].t0 = frame[t].t0
         /\ frame'[t].here = frame[t].here
         /\ frame'[t].at = IF frame[t].at = "done" THEN "done" ELSE After[frame[t].at]
         /\ frame'[t].i = IF frame[t].at \in {"done", "ext"} THEN frame[t].i + 1 ELSE frame[t].i
<1>. DEFINE a == IF frame[t].at = "done" THEN "done" ELSE After[frame[t].at]
            n == IF frame[t].at \in {"done", "ext"} THEN frame[t].i + 1 ELSE frame[t].i
<1>1. frame' = [frame EXCEPT ![t].in = FALSE, ![t].at = a, ![t].i = n]
  BY DEF CallReturns
<1>2. a \in Places
  BY DEF After, Kind, Connect, Places
<1>3. n \in Nat
  BY DEF Frame
<1>. HIDE DEF a, n
<1>4. QED BY <1>1, <1>2, <1>3 DEF Moves, Frame, Places, a, n

LEMMA PadFacts ==
  ASSUME PadIInv
  PROVE  /\ PadType /\ SlotType /\ TableType /\ Frames /\ Answers
         /\ frame \in [Thread -> Frame] /\ delivering \in BOOLEAN /\ tb \in 0 .. Horizon
         /\ done \in Seq(Entry) /\ Len(done) \in Nat /\ DOMAIN done = 1 .. Len(done)
         /\ asked \in Nat /\ Len(done) <= asked
         /\ answered \in Seq(1 .. MaxRequests) /\ Len(answered) \in Nat
         /\ \A t \in Thread : /\ frame[t] \in Frame /\ frame[t].i \in Nat /\ frame[t].in \in BOOLEAN
                              /\ frame[t].at \in Places /\ Sound(frame[t], Len(done))
<1>1. PadType /\ SlotType /\ TableType /\ Frames /\ Answers
  BY DEF PadIInv
<1>2. frame \in [Thread -> Frame] /\ delivering \in BOOLEAN /\ tb \in 0 .. Horizon
  BY <1>1 DEF Frames, PadType
<1>3. \A t \in Thread : /\ frame[t] \in Frame /\ frame[t].i \in Nat /\ frame[t].in \in BOOLEAN
                        /\ frame[t].at \in Places
  BY <1>2 DEF Frame, Places
<1>4. \A t \in Thread : Sound(frame[t], Len(done))
  BY <1>1 DEF Frames
<1>5. done \in Seq(Entry) /\ Len(done) \in Nat /\ DOMAIN done = 1 .. Len(done)
      /\ asked \in Nat /\ answered \in Seq(1 .. MaxRequests) /\ Len(answered) \in Nat
  BY <1>1 DEF TableType
<1>6. Len(done) <= asked
  BY <1>1 DEF Answers
<1>7. QED BY <1>1, <1>2, <1>3, <1>4, <1>5, <1>6

-----------------------------------------------------------------------------
(* WPAD: each step keeps the inductive invariant.                          *)

LEMMA RequestPad ==
  ASSUME PadIInv, NEW c \in Chan, Request(c)
  PROVE  PadIInv'
<1>1. CASE ~Room
  BY <1>1 DEF Request, finish_later, PadIInv, PadType, SlotType, TableType, Frames, Answers,
              dev, reg, pad
<1>2. CASE Room
  <2>. DEFINE e == [chan |-> c, id |-> asked + 1]
  <2>1. /\ done' = Append(done, e) /\ asked' = asked + 1 /\ asked < MaxRequests
        /\ Len(done) < DoneMax
        /\ UNCHANGED <<dev, reg, delivering, frame, pad, answered, heard, latest, within>>
    BY <1>2 DEF Request, finish_later, Room
  <2>2. e \in Entry /\ e.id = asked + 1 /\ asked + 1 \in 0 .. MaxRequests
    <3>1. asked + 1 \in 1 .. MaxRequests
      BY <2>1, PadFacts, Bounds
    <3>2. QED BY <3>1, Bounds DEF Entry
  <2>. HIDE DEF e
  <2>3. PICK z \in Nat : z = Len(done) /\ DOMAIN done = 1 .. z
    BY PadFacts
  <2>4. /\ done' \in Seq(Entry) /\ Len(done') = z + 1 /\ DOMAIN done' = 1 .. (z + 1)
        /\ \A k \in 1 .. z : done'[k] = done[k]
        /\ done'[z + 1] = e
    BY <2>1, <2>2, <2>3, PadFacts
  <2>5. PadType' /\ SlotType'
    BY <2>1, PadFacts DEF PadType, SlotType, dev, reg, pad
  <2>6. TableType'
    <3>1. Len(done') <= DoneMax
      BY <2>1, <2>3, <2>4, Bounds
    <3>2. QED BY <2>1, <2>2, <2>4, <3>1, PadFacts DEF TableType
  <2>7. Frames'
    <3>1. ASSUME NEW t \in Thread
          PROVE  Sound(frame[t], Len(done'))
      BY <2>3, <2>4, PadFacts DEF Sound
    <3>2. QED BY <2>1, <3>1, PadFacts DEF Frames
  <2>8. Answers'
    <3>1. z <= asked /\ asked \in Nat /\ asked' - Len(done') = asked - z /\ z + 1 <= asked'
      BY <2>1, <2>3, <2>4, PadFacts
    <3>2. ASSUME NEW k \in 1 .. (z + 1)
          PROVE  done'[k].id = (asked - z) + k
      <4>1. CASE k \in 1 .. z
        BY <2>3, <2>4, <4>1, PadFacts DEF Answers
      <4>2. CASE k = z + 1
        BY <2>2, <2>4, <3>1, <4>2
      <4>3. QED BY <2>3, <4>1, <4>2
    <3>3. QED BY <2>1, <2>3, <2>4, <3>1, <3>2, PadFacts DEF Answers
  <2>9. QED BY <2>5, <2>6, <2>7, <2>8 DEF PadIInv
<1>3. QED BY <1>1, <1>2

\* Steps that leave deliver() and its table alone.
LEMMA OtherPad ==
  ASSUME PadIInv, UNCHANGED <<done, asked, answered, delivering, frame>>, PadType', SlotType'
  PROVE  PadIInv'
BY DEF PadIInv, TableType, Frames, Answers

\* Steps of one thread that leave the table alone.
LEMMA MovePad ==
  ASSUME PadIInv, UNCHANGED <<done, asked, answered>>, PadType', SlotType',
         NEW t \in Thread, Moves(t), Sound(frame'[t], Len(done)), delivering' \in BOOLEAN,
         frame'[t].at \in Busy => delivering' /\ (frame[t].at \in Busy \/ ~delivering),
         delivering' = delivering \/ frame'[t].at \in Busy \/ frame[t].at \in Busy,
         frame'[t].at = "done" <=> frame[t].at = "done",
         frame[t].at = "done" => Called(frame'[t]) = Called(frame[t])
  PROVE  PadIInv'
<1>1. Len(done) \in Nat /\ Len(done') = Len(done) /\ Frames /\ Answers /\ TableType
  BY PadFacts
<1>2. Frames'
  BY <1>1, FramesMove
<1>3. Answers'
  BY <1>1, AnswersMove
<1>4. TableType'
  BY <1>1 DEF TableType
<1>5. QED BY <1>2, <1>3, <1>4 DEF PadIInv

LEMMA EnterPad ==
  ASSUME PadIInv, NEW t \in Thread, NEW then \in {"nothing", "read"}, Enter(t, then)
  PROVE  PadIInv'
<1>1. /\ frame' = [frame EXCEPT ![t].at = "done", ![t].i = 1, ![t].then = then]
      /\ frame[t].at = "out" /\ ~delivering /\ delivering' = TRUE
      /\ UNCHANGED <<dev, reg, done, pad, history>>
  BY DEF Enter, MayDeliver
<1>2. /\ Moves(t) /\ frame'[t].at = "done" /\ frame'[t].i = 1 /\ frame'[t].in = FALSE
  <2>1. frame[t].in = FALSE
    BY <1>1, PadFacts DEF Sound
  <2>2. QED BY <1>1, <2>1, EnterFacts, PadFacts
<1>3. PadType' /\ SlotType' /\ TableType' /\ done' = done /\ asked' = asked /\ answered' = answered
  BY <1>1, PadFacts DEF PadType, SlotType, TableType, dev, reg, pad, history
<1>4. Frames'
  <2>1. Sound(frame'[t], Len(done'))
    BY <1>2, <1>3, PadFacts DEF Sound, Kind, Connect
  <2>2. Len(done) \in Nat /\ Len(done') = Len(done) /\ Len(done) <= Len(done') /\ Frames
    BY <1>3, PadFacts
  <2>3. delivering' \in BOOLEAN /\ delivering' = TRUE /\ ~delivering /\ frame'[t].at \in Busy
    BY <1>1, <1>2 DEF Busy
  <2>4. QED BY <1>2, <2>1, <2>2, <2>3, FramesMove
<1>5. Answers'
  <2>1. \A u \in Thread : frame[u].at # "done"
    BY <1>1, PadFacts DEF Frames, Busy
  <2>2. Len(answered) = asked - Len(done)
    BY <2>1, PadFacts DEF Answers
  <2>3. Called(frame'[t]) = 0
    BY <1>2 DEF Called
  <2>4. \A u \in Thread : frame'[u].at = "done" => u = t
    BY <1>2, <2>1 DEF Moves
  <2>5. \A u \in Thread : frame'[u].at = "done" =>
          Len(answered) = (asked - Len(done)) + Called(frame'[u])
    BY <2>2, <2>3, <2>4, PadFacts
  <2>6. QED BY <1>2, <1>3, <2>5, PadFacts DEF Answers
<1>6. QED BY <1>3, <1>4, <1>5 DEF PadIInv

LEMMA CallDonePad ==
  ASSUME PadIInv, NEW t \in Thread, CallDone(t)
  PROVE  PadIInv'
<1>1. /\ frame' = [frame EXCEPT ![t].in = TRUE]
      /\ frame[t].at = "done" /\ ~frame[t].in /\ frame[t].i <= Len(done)
      /\ answered' = Append(answered, done[frame[t].i].id)
      /\ UNCHANGED <<dev, reg, done, delivering, pad, asked, heard, latest, within>>
  BY DEF CallDone, At
<1>2. Moves(t) /\ frame'[t].at = "done" /\ frame'[t].i = frame[t].i /\ frame'[t].in = TRUE
  BY <1>1, InFacts, PadFacts
<1>3. frame[t].i \in 1 .. Len(done) /\ frame[t].i \in Nat /\ frame[t].i # 0
  BY <1>1, PadFacts DEF Sound
<1>4. done[frame[t].i].id = Len(answered) + 1 /\ done[frame[t].i].id \in 1 .. MaxRequests
  <2>1. done[frame[t].i] \in Entry
    BY <1>3, PadFacts
  <2>2. done[frame[t].i].id = (asked - Len(done)) + frame[t].i
    BY <1>3, PadFacts DEF Answers
  <2>3. Len(answered) = (asked - Len(done)) + (frame[t].i - 1)
    BY <1>1, PadFacts DEF Answers, Called
  <2>4. QED BY <1>3, <2>1, <2>2, <2>3, PadFacts DEF Entry
<1>5. PICK z \in Nat :
        /\ z = Len(answered) /\ DOMAIN answered = 1 .. z /\ answered' \in Seq(1 .. MaxRequests)
        /\ Len(answered') = z + 1 /\ DOMAIN answered' = 1 .. (z + 1)
        /\ \A n \in 1 .. z : answered'[n] = answered[n]
        /\ answered'[z + 1] = z + 1
  <2>. DEFINE d == done[frame[t].i].id
  <2>1. d = Len(answered) + 1 /\ d \in 1 .. MaxRequests /\ answered' = Append(answered, d)
    BY <1>1, <1>4
  <2>. HIDE DEF d
  <2>2. answered \in Seq(1 .. MaxRequests)
    BY PadFacts
  <2>3. QED BY <2>1, <2>2
<1>6. PadType' /\ SlotType' /\ TableType'
  BY <1>1, <1>5, PadFacts DEF PadType, SlotType, TableType, dev, reg, pad
<1>7. Frames'
  <2>1. Sound(frame'[t], Len(done'))
    BY <1>1, <1>2, <1>3, PadFacts DEF Sound, Kind, Connect
  <2>2. frame[t].at \in Busy /\ delivering
    BY <1>1, PadFacts DEF Frames, Busy
  <2>3. QED BY <1>1, <1>2, <2>1, <2>2, FramesMove, PadFacts
<1>8. Answers'
  <2>1. \A n \in 1 .. (z + 1) : answered'[n] = n
    <3>1. \A n \in 1 .. (z + 1) : n \in 1 .. z \/ n = z + 1
      OBVIOUS
    <3>2. QED BY <1>5, <3>1, PadFacts DEF Answers
  <2>2. \A u \in Thread : frame'[u].at = "done" => u = t
    BY <1>1, <1>2, PadFacts DEF Moves, Frames, Busy
  <2>3. Len(answered') = (asked - Len(done)) + Called(frame'[t])
    <3>1. z = (asked - Len(done)) + (frame[t].i - 1)
      BY <1>1, <1>5, PadFacts DEF Answers, Called
    <3>2. QED BY <1>2, <1>3, <1>5, <3>1, PadFacts DEF Called
  <2>4. QED BY <1>1, <1>2, <1>5, <2>1, <2>2, <2>3, PadFacts DEF Answers
<1>9. QED BY <1>6, <1>7, <1>8 DEF PadIInv

LEMMA DoneEndsPad ==
  ASSUME PadIInv, NEW t \in Thread, DoneEnds(t)
  PROVE  PadIInv'
<1>1. /\ frame[t].at = "done" /\ ~frame[t].in /\ frame[t].i > Len(done)
      /\ done' = <<>> /\ UNCHANGED <<dev, reg, pad, history>>
  BY DEF DoneEnds, At
<1>2. /\ Moves(t) /\ frame'[t].in = FALSE
      /\ \/ frame'[t].at \in {"out", "read"} /\ delivering' = FALSE
         \/ frame'[t].at = "chan" /\ frame'[t].i = 0 /\ delivering' = delivering
  <2>1. CASE Leave(t)
    BY <2>1, BackFacts, PadFacts DEF Leave
  <2>2. CASE /\ frame' = [frame EXCEPT ![t].at = "chan", ![t].i = 0, ![t].t0 = tb]
             /\ UNCHANGED delivering
    BY <1>1, <2>2, LookFacts, PadFacts
  <2>3. QED BY <2>1, <2>2 DEF DoneEnds
<1>3. Len(done') = 0 /\ DOMAIN done' = {} /\ done' \in Seq(Entry)
  BY <1>1
<1>4. PadType' /\ SlotType' /\ TableType'
  <2>1. PadType' /\ SlotType'
    BY <1>1, PadFacts DEF PadType, SlotType, dev, reg, pad, history
  <2>2. TableType'
    BY <1>1, <1>3, Bounds, PadFacts DEF TableType, history
  <2>3. QED BY <2>1, <2>2
<1>5. frame[t].at \in Busy /\ delivering
  BY <1>1, PadFacts DEF Frames, Busy
<1>6. Frames'
  <2>1. Sound(frame'[t], Len(done'))
    BY <1>2, Bounds DEF Sound, Kind, Connect
  <2>2. delivering' \in BOOLEAN /\ (frame'[t].at \in Busy => delivering')
    BY <1>2, <1>5, PadFacts DEF Busy, Kind, Connect
  <2>3. Len(done) \in Nat /\ Len(done') \in Nat /\ Frames /\ delivering' \in BOOLEAN
    BY <1>3, <2>2, PadFacts
  <2>4. QED BY <1>2, <1>5, <2>1, <2>2, <2>3, FramesMove
<1>7. Answers'
  <2>1. Len(answered) = asked
    <3>1. frame[t].i = Len(done) + 1
      BY <1>1, PadFacts DEF Sound
    <3>2. Len(answered) = (asked - Len(done)) + (frame[t].i - 1)
      BY <1>1, PadFacts DEF Answers, Called
    <3>3. QED BY <3>1, <3>2, PadFacts
  <2>2. \A u \in Thread : frame'[u].at # "done"
    BY <1>1, <1>2, PadFacts DEF Moves, Frames, Busy
  <2>3. QED BY <1>1, <1>3, <2>1, <2>2, PadFacts DEF Answers, history
<1>8. QED BY <1>4, <1>6, <1>7 DEF PadIInv

LEMMA LookAtPad ==
  ASSUME PadIInv, NEW t \in Thread, LookAt(t)
  PROVE  PadIInv'
<1>. DEFINE c == frame[t].i
<1>1. /\ frame[t].at = "chan" /\ ~frame[t].in /\ c < NChan /\ c \in Chan /\ c \in Nat
      /\ UNCHANGED <<dev, cb, since, done, delivering, pad, history>>
      /\ SlotType /\ PadType
  <2>1. frame[t].at = "chan" /\ ~frame[t].in /\ c < NChan
        /\ UNCHANGED <<dev, cb, since, done, delivering, pad, history>>
    BY DEF LookAt, At
  <2>2. c \in 0 .. NChan
    BY <2>1, PadFacts DEF Sound
  <2>3. QED BY <2>1, <2>2, Bounds, PadFacts
<1>2. present(c) \in BOOLEAN
  BY <1>1 DEF present, PadType
<1>10. frame \in [Thread -> Frame]
  BY PadFacts
<1>11. PICK n \in Nat : n = c + 1
  BY <1>1
<1>3. /\ Moves(t) /\ frame'[t].in = FALSE
      /\ \/ frame'[t].at = "chan" /\ frame'[t].i = c + 1
         \/ frame'[t].at = "wpad" /\ frame'[t].i = c
  <2>1. CASE frame' = [frame EXCEPT ![t].i = c + 1]
    <3>1. frame' = [frame EXCEPT ![t].at = "chan", ![t].i = c + 1]
      BY <1>1, <2>1, PadFacts DEF Frame
    <3>2. frame' = [frame EXCEPT ![t].at = "chan", ![t].i = n]
      BY <1>11, <3>1
    <3>3. Moves(t) /\ frame'[t].at = "chan" /\ frame'[t].i = n /\ frame'[t].in = frame[t].in
      BY <1>10, <1>11, <3>2, NextFacts
    <3>4. QED BY <1>1, <1>11, <3>3
  <2>2. CASE frame' = [frame EXCEPT ![t].at = "wpad", ![t].here = present(c)]
    BY <1>1, <1>2, <2>2, ToldFacts, PadFacts
  <2>3. CASE GoTo(t, "chan", c + 1)
    <3>2. frame' = [frame EXCEPT ![t].at = "chan", ![t].i = n]
      BY <1>11, <2>3 DEF GoTo
    <3>3. Moves(t) /\ frame'[t].at = "chan" /\ frame'[t].i = n /\ frame'[t].in = frame[t].in
      BY <1>10, <1>11, <3>2, NextFacts
    <3>4. QED BY <1>1, <1>11, <3>3
  <2>4. QED BY <2>1, <2>2, <2>3 DEF LookAt
<1>4. SlotType'
  <2>1. /\ UNCHANGED <<cb, since, heard, latest, within>>
        /\ \/ told' = [told EXCEPT ![c] = TRUE] /\ toldHere' = [toldHere EXCEPT ![c] = present(c)]
           \/ UNCHANGED <<told, toldHere>>
    BY <1>1 DEF LookAt, history
  <2>. HIDE DEF c
  <2>2. QED BY <1>1, <1>2, <2>1 DEF SlotType
<1>5. PadType'
  BY <1>1 DEF PadType, dev, pad
<1>6. frame[t].at \in Busy /\ delivering /\ delivering' = delivering /\ frame'[t].at \in Busy
      /\ delivering' \in BOOLEAN
  BY <1>1, <1>3, PadFacts DEF Frames, Busy, Kind, Connect
<1>7. Sound(frame'[t], Len(done)) /\ frame'[t].at # "done"
  BY <1>1, <1>3, Bounds DEF Sound, Kind, Connect
<1>8. UNCHANGED <<done, asked, answered>>
  BY <1>1 DEF history
<1>9. QED BY <1>1, <1>3, <1>4, <1>5, <1>6, <1>7, <1>8, MovePad

LEMMA CallPad ==
  ASSUME PadIInv, NEW t \in Thread, NEW k \in Kind, Call(t, k)
  PROVE  PadIInv'
<1>. DEFINE c == frame[t].i
<1>1. /\ frame[t].at = k /\ ~frame[t].in /\ c \in Chan /\ c \in Nat /\ c + 1 \in 0 .. NChan
      /\ UNCHANGED <<dev, reg, done, delivering, pad, asked, answered, latest, within>>
      /\ SlotType /\ PadType
  <2>1. frame[t].at = k /\ ~frame[t].in
        /\ UNCHANGED <<dev, reg, done, delivering, pad, asked, answered, latest, within>>
    BY DEF Call, At
  <2>2. c \in Chan
    BY <2>1, PadFacts DEF Sound
  <2>3. QED BY <2>1, <2>2, Bounds, PadFacts
<1>2. \/ /\ Moves(t) /\ frame'[t].in = TRUE /\ frame'[t].at = k /\ frame'[t].i = c
         /\ \/ heard' = heard
            \/ k \in Connect /\ \E h \in {"here", "gone"} : heard' = [heard EXCEPT ![c][k] = h]
      \/ /\ Moves(t) /\ frame'[t].in = FALSE /\ frame'[t].at = After[k]
         /\ frame'[t].i = (IF k = "ext" THEN c + 1 ELSE c) /\ heard' = heard
  <2>1. CASE Due(t, k)
    <3>1. frame' = [frame EXCEPT ![t].in = TRUE]
      BY <2>1 DEF Call
    <3>2. Moves(t) /\ frame'[t].in = TRUE /\ frame'[t].at = k /\ frame'[t].i = c
      BY <1>1, <3>1, InFacts, PadFacts
    <3>3. \/ heard' = heard
          \/ k \in Connect /\ \E h \in {"here", "gone"} : heard' = [heard EXCEPT ![c][k] = h]
      <4>1. k # "ext" => k \in Connect
        BY DEF Kind
      <4>2. heard' = IF k = "ext" THEN heard
                     ELSE [heard EXCEPT ![c][k] = IF frame[t].here THEN "here" ELSE "gone"]
        BY <2>1 DEF Call
      <4>3. (IF frame[t].here THEN "here" ELSE "gone") \in {"here", "gone"}
        OBVIOUS
      <4>4. QED BY <4>1, <4>2, <4>3
    <3>4. QED BY <3>2, <3>3
  <2>2. CASE ~Due(t, k)
    <3>1. frame' = [frame EXCEPT ![t].at = After[k], ![t].i = IF k = "ext" THEN c + 1 ELSE c]
          /\ heard' = heard
      BY <2>2 DEF Call, Pass, GoTo
    <3>2. After[k] \in Places /\ (IF k = "ext" THEN c + 1 ELSE c) \in Nat
      BY <1>1 DEF After, Places, Kind, Connect
    <3>3. PICK n \in Nat : n = IF k = "ext" THEN c + 1 ELSE c
      BY <3>2
    <3>4. frame' = [frame EXCEPT ![t].at = After[k], ![t].i = n]
      BY <3>1, <3>3
    <3>5. /\ Moves(t) /\ frame'[t].at = After[k] /\ frame'[t].i = n
          /\ frame'[t].in = frame[t].in
      BY <3>2, <3>4, GoFacts, PadFacts
    <3>6. QED BY <1>1, <3>1, <3>3, <3>5
  <2>3. QED BY <2>1, <2>2
<1>. HIDE DEF c
<1>3. After[k] \in Busy /\ After[k] # "done" /\ k \in Busy /\ k # "done"
      /\ After[k] = IF k = "wpad" THEN "kpad" ELSE IF k = "kpad" THEN "ext" ELSE "chan"
  BY DEF After, Kind, Connect, Busy
<1>4. SlotType'
  <2>1. UNCHANGED <<cb, since, told, toldHere, latest, within>>
    BY <1>1 DEF reg
  <2>2. heard' \in [Chan -> [Connect -> {"nothing", "here", "gone"}]]
    BY <1>1, <1>2 DEF SlotType
  <2>3. QED BY <1>1, <2>1, <2>2 DEF SlotType
<1>5. PadType'
  BY <1>1 DEF PadType, dev, pad
<1>6. frame[t].at \in Busy /\ delivering /\ delivering' = delivering /\ frame'[t].at \in Busy
      /\ delivering' \in BOOLEAN
  BY <1>1, <1>2, <1>3, PadFacts DEF Frames
<1>7. Sound(frame'[t], Len(done)) /\ frame'[t].at # "done" /\ frame[t].at # "done"
  BY <1>1, <1>2, <1>3 DEF Sound, Kind, Connect
<1>8. UNCHANGED <<done, asked, answered>>
  BY <1>1
<1>9. QED BY <1>1, <1>2, <1>4, <1>5, <1>6, <1>7, <1>8, MovePad

LEMMA ReturnPad ==
  ASSUME PadIInv, NEW t \in Thread, CallReturns(t)
  PROVE  PadIInv'
<1>1. /\ frame[t].in /\ frame[t].i \in Nat
      /\ UNCHANGED <<dev, reg, done, delivering, pad, history>>
  BY PadFacts DEF CallReturns
<1>2. frame[t].at \in {"done"} \cup Kind
  BY <1>1, PadFacts DEF Sound, Places
<1>3. /\ Moves(t) /\ frame'[t].in = FALSE
      /\ frame'[t].at = IF frame[t].at = "done" THEN "done" ELSE After[frame[t].at]
      /\ frame'[t].i = IF frame[t].at \in {"done", "ext"} THEN frame[t].i + 1 ELSE frame[t].i
  BY <1>2, ReturnFacts, PadFacts
<1>4. \A k \in Kind :
        /\ After[k] \in Busy /\ After[k] # "done" /\ k \in Busy /\ k # "done"
        /\ After[k] = IF k = "wpad" THEN "kpad" ELSE IF k = "kpad" THEN "ext" ELSE "chan"
  BY DEF After, Kind, Connect, Busy
<1>5. frame'[t].at \in Busy /\ frame[t].at \in Busy /\ delivering /\ delivering' = delivering
      /\ delivering' \in BOOLEAN
  <2>1. frame'[t].at \in Busy /\ frame[t].at \in Busy
    BY <1>2, <1>3, <1>4 DEF Busy
  <2>2. QED BY <1>1, <2>1, PadFacts DEF Frames
<1>6. Sound(frame'[t], Len(done))
  <2>1. CASE frame[t].at = "done"
    <3>1. frame[t].i <= Len(done) /\ frame[t].i # 0
      BY <1>1, <2>1, PadFacts DEF Sound
    <3>2. QED BY <1>1, <1>3, <2>1, <3>1, PadFacts DEF Sound, Kind, Connect
  <2>2. CASE frame[t].at # "done"
    <3>1. frame[t].at \in Kind /\ frame[t].i \in Chan
      BY <1>2, <2>2, PadFacts DEF Sound
    <3>2. frame'[t].at \in {"kpad", "ext", "chan"}
          /\ (frame'[t].at = "chan" => frame'[t].i = frame[t].i + 1)
          /\ (frame'[t].at # "chan" => frame'[t].i = frame[t].i)
      BY <1>3, <1>4, <3>1 DEF Kind, Connect
    <3>3. QED BY <1>3, <3>1, <3>2, Bounds DEF Sound, Kind, Connect
  <2>3. QED BY <2>1, <2>2
<1>7. (frame'[t].at = "done" <=> frame[t].at = "done")
      /\ (frame[t].at = "done" => Called(frame'[t]) = Called(frame[t]))
  <2>1. frame'[t].at = "done" <=> frame[t].at = "done"
    BY <1>2, <1>3, <1>4
  <2>2. frame[t].at = "done" => Called(frame'[t]) = Called(frame[t])
    BY <1>1, <1>3 DEF Called
  <2>3. QED BY <2>1, <2>2
<1>8. UNCHANGED <<done, asked, answered>> /\ PadType' /\ SlotType'
  BY <1>1, PadFacts DEF history, PadType, SlotType, dev, reg, pad
<1>9. QED BY <1>3, <1>5, <1>6, <1>7, <1>8, MovePad

LEMMA EndsPad ==
  ASSUME PadIInv, NEW t \in Thread, DeliverEnds(t)
  PROVE  PadIInv'
<1>1. /\ frame[t].at = "chan" /\ delivering' = FALSE /\ Back(t)
      /\ UNCHANGED <<dev, reg, done, pad, history>>
  BY DEF DeliverEnds, At, Leave
<1>2. Moves(t) /\ frame'[t].at \in {"out", "read"} /\ frame'[t].in = FALSE
  BY <1>1, BackFacts, PadFacts
<1>3. frame[t].at \in Busy /\ frame'[t].at \notin Busy /\ frame[t].at # "done" /\ frame'[t].at # "done"
      /\ delivering' \in BOOLEAN /\ Sound(frame'[t], Len(done))
  BY <1>1, <1>2 DEF Busy, Sound, Kind, Connect
<1>4. UNCHANGED <<done, asked, answered>> /\ PadType' /\ SlotType'
  BY <1>1, PadFacts DEF history, PadType, SlotType, dev, reg, pad
<1>5. QED BY <1>2, <1>3, <1>4, MovePad

\* KPADRead's sample: the edges take the reader from what it held to what it
\* reads.
LEMMA SampleFacts ==
  ASSUME PadIInv, Sample
  PROVE  PadType' /\ UNCHANGED <<dev, reg, done, delivering, history>>
<1>1. PadType /\ UNCHANGED <<dev, reg, done, delivering, history>>
  BY PadFacts DEF Sample
<1>2. CASE ~present(0)
  BY <1>1, <1>2 DEF Sample, PadType, pad, dev
<1>3. CASE present(0)
  <2>1. PICK p \in {{}, pressed} :
          /\ believed' = (believed \ (prev \ p)) \cup (p \ prev)
          /\ prev' = p
    BY <1>3 DEF Sample, Edges
  <2>2. believed' = p /\ p \subseteq Button
    BY <1>1, <2>1 DEF PadType
  <2>3. QED BY <1>1, <2>1, <2>2 DEF PadType, dev
<1>4. QED BY <1>2, <1>3

LEMMA ReadPad ==
  ASSUME PadIInv, NEW t \in Thread, KPADRead(t) \/ ReadEnds(t)
  PROVE  PadIInv'
<1>1. CASE Enter(t, "read")
  BY <1>1, EnterPad
<1>2. CASE Sample /\ UNCHANGED frame
  <2>1. PadType' /\ UNCHANGED <<dev, reg, done, delivering, history>>
    BY <1>2, SampleFacts
  <2>2. SlotType' /\ UNCHANGED <<done, asked, answered, delivering, frame>>
    BY <1>2, <2>1, PadFacts DEF SlotType, reg, history
  <2>3. QED BY <2>1, <2>2, OtherPad
<1>3. CASE ReadEnds(t)
  <2>1. frame[t].at = "read" /\ Sample /\ frame' = [frame EXCEPT ![t] = Out]
    BY <1>3 DEF ReadEnds, At
  <2>2. PadType' /\ UNCHANGED <<dev, reg, done, delivering, history>>
    BY <2>1, SampleFacts
  <2>3. Moves(t) /\ frame'[t].at = "out" /\ frame'[t].in = FALSE
    <3>1. Out \in Frame /\ Out.at = "out" /\ Out.in = FALSE
      BY Bounds DEF Out, Frame
    <3>2. QED BY <2>1, <3>1, PadFacts DEF Moves
  <2>4. SlotType' /\ UNCHANGED <<done, asked, answered>> /\ delivering' = delivering
    BY <2>2, PadFacts DEF SlotType, reg, history
  <2>5. frame'[t].at \notin Busy /\ frame[t].at # "done" /\ frame'[t].at # "done"
        /\ delivering' \in BOOLEAN /\ Sound(frame'[t], Len(done))
    BY <2>1, <2>3, <2>4, PadFacts DEF Busy, Sound, Kind, Connect
  <2>6. QED BY <2>2, <2>3, <2>4, <2>5, MovePad
<1>4. QED BY <1>1, <1>2, <1>3 DEF KPADRead

LEMMA SetPad ==
  ASSUME PadIInv, NEW c \in Chan, NEW k \in Kind, NEW f \in Callback \cup {Null},
         SetCallback(c, k, f)
  PROVE  PadIInv'
<1>1. SlotType /\ PadType /\ tb \in 0 .. Horizon
  BY PadFacts
<1>. DEFINE anew == k \in Connect /\ f # Null /\ f # cb[c][k]
<1>2. /\ cb' = [cb EXCEPT ![c][k] = f]
      /\ since' = IF anew THEN [since EXCEPT ![c] = tb] ELSE since
      /\ told' = [told EXCEPT ![c] = told[c] /\ ~anew]
      /\ heard' = IF k \in Connect /\ f # cb[c][k]
                  THEN [heard EXCEPT ![c][k] = "nothing"] ELSE heard
      /\ latest' = IF anew THEN [latest EXCEPT ![c] = k] ELSE latest
      /\ within' = IF anew /\ k = "kpad"
                   THEN (within \ {c}) \cup {d \in {c} : InWpadCall(d)} ELSE within
      /\ UNCHANGED <<dev, toldHere, done, delivering, frame, pad, asked, answered>>
  BY DEF SetCallback
<1>3. anew => k \in Connect
  OBVIOUS
<1>4. anew \in BOOLEAN
  OBVIOUS
<1>. HIDE DEF anew
<1>5. cb' \in [Chan -> [Kind -> Callback \cup {Null}]]
  BY <1>1, <1>2 DEF SlotType
<1>6. since' \in [Chan -> 0 .. Horizon] /\ latest' \in [Chan -> Connect]
  BY <1>1, <1>2, <1>3 DEF SlotType
<1>7. told' \in [Chan -> BOOLEAN]
  BY <1>1, <1>2, <1>4 DEF SlotType
<1>8. heard' \in [Chan -> [Connect -> {"nothing", "here", "gone"}]]
  BY <1>1, <1>2 DEF SlotType
<1>11. within' \subseteq Chan
  BY <1>1, <1>2 DEF SlotType
<1>9. SlotType' /\ PadType'
  BY <1>1, <1>2, <1>5, <1>6, <1>7, <1>8, <1>11 DEF SlotType, PadType, dev, pad
<1>10. QED BY <1>2, <1>9, OtherPad

LEMMA HostPad ==
  ASSUME PadIInv, (\E c \in Chan : Plug(c)) \/ (\E b \in Button : Press(b)) \/ Tick
  PROVE  PadIInv'
<1>1. SlotType /\ PadType /\ UNCHANGED <<reg, done, delivering, frame, pad, history>>
  BY PadFacts DEF Plug, Press, Tick
<1>2. SlotType'
  BY <1>1 DEF SlotType, reg, history
<1>3. PadType'
  <2>1. CASE \E c \in Chan : Plug(c)
    BY <1>1, <2>1 DEF Plug, PadType, pad
  <2>2. CASE \E b \in Button : Press(b)
    BY <1>1, <2>2 DEF Press, PadType, pad
  <2>3. CASE Tick
    BY <1>1, <2>3, Bounds DEF Tick, PadType, pad
  <2>4. QED BY <2>1, <2>2, <2>3
<1>4. QED BY <1>1, <1>2, <1>3, OtherPad DEF history

LEMMA PadStart == Init => PadIInv
<1>. SUFFICES ASSUME Init
              PROVE  PadIInv
  OBVIOUS
<1>1. PadType
  BY Bounds DEF Init, PadType
<1>2. SlotType
  BY Bounds DEF Init, SlotType, Kind, Connect
<1>3. TableType
  BY Bounds DEF Init, TableType
<1>4. \A t \in Thread : frame[t] = Out /\ frame[t].at = "out" /\ frame[t].in = FALSE
  BY DEF Init, Out
<1>5. Out \in Frame
  BY Bounds DEF Out, Frame
<1>6. Frames
  BY <1>4, <1>5 DEF Init, Frames, Sound, Busy, Kind, Connect
<1>7. Answers
  <2>1. done = <<>> /\ answered = <<>> /\ asked = 0 /\ Len(done) = 0 /\ Len(answered) = 0
        /\ DOMAIN done = {} /\ DOMAIN answered = {}
    BY DEF Init
  <2>2. 0 - 0 = 0 /\ 0 <= 0
    OBVIOUS
  <2>3. Len(done) <= asked /\ Len(answered) = asked - Len(done)
    BY <2>1, <2>2, Zenon
  <2>4. DOMAIN done = {} /\ DOMAIN answered = {}
    BY <2>1
  <2>5. QED BY <1>4, <2>3, <2>4 DEF Answers
<1>8. QED BY <1>1, <1>2, <1>3, <1>6, <1>7 DEF PadIInv

LEMMA PadStep == PadIInv /\ [Next]_vars => PadIInv'
<1>. SUFFICES ASSUME PadIInv, [Next]_vars
              PROVE  PadIInv'
  OBVIOUS
<1>1. CASE \E c \in Chan : Request(c)
  BY <1>1, RequestPad
<1>2. CASE \E c \in Chan, k \in Kind, f \in Callback \cup {Null} : SetCallback(c, k, f)
  BY <1>2, SetPad
<1>3. ASSUME NEW t \in Thread, StartDeliver(t) \/ KPADRead(t) \/ CallReturns(t)
      PROVE  PadIInv'
  BY <1>3, EnterPad, ReadPad, ReturnPad DEF StartDeliver
<1>4. ASSUME NEW t \in Thread, DeliverStep(t)
      PROVE  PadIInv'
  BY <1>4, CallDonePad, DoneEndsPad, LookAtPad, EndsPad, ReadPad, CallPad DEF DeliverStep
<1>5. CASE (\E c \in Chan : Plug(c)) \/ (\E b \in Button : Press(b)) \/ Tick
  BY <1>5, HostPad
<1>6. CASE UNCHANGED vars
  BY <1>6, OtherPad, PadFacts DEF vars, dev, reg, pad, history, PadType, SlotType
<1>7. QED BY <1>1, <1>2, <1>3, <1>4, <1>5, <1>6 DEF Next

-----------------------------------------------------------------------------
(* WPAD: what it promises.                                                 *)

\* Of how many are called back, in the table, and how many were asked for.
LEMMA TableFacts ==
  ASSUME PadIInv
  PROVE  \E first \in Nat \ {0} :
           /\ first <= Len(done) + 1 /\ Len(answered) = (asked - Len(done)) + (first - 1)
           /\ Untold = SubSeq(done, first, Len(done))
<1>1. CASE \E t \in Thread : frame[t].at = "done"
  <2>. DEFINE w == CHOOSE t \in Thread : frame[t].at = "done"
  <2>1. w \in Thread /\ frame[w].at = "done"
    BY <1>1
  <2>2. Untold = SubSeq(done, IF frame[w].in THEN frame[w].i + 1 ELSE frame[w].i, Len(done))
    BY <1>1 DEF Untold
  <2>. HIDE DEF w
  <2>3. frame[w].i \in Nat \ {0} /\ frame[w].i <= Len(done) + 1
        /\ (frame[w].in => frame[w].i <= Len(done)) /\ frame[w].in \in BOOLEAN
    BY <2>1, PadFacts DEF Sound
  <2>4. Len(answered) = (asked - Len(done)) + Called(frame[w])
    BY <2>1, PadFacts DEF Answers
  <2>5. CASE frame[w].in
    <3>1. frame[w].i + 1 \in Nat \ {0} /\ frame[w].i + 1 <= Len(done) + 1
          /\ (frame[w].i + 1) - 1 = frame[w].i
      BY <2>3, <2>5, PadFacts
    <3>2. Len(answered) = (asked - Len(done)) + frame[w].i
      BY <2>4, <2>5 DEF Called
    <3>3. QED BY <2>2, <2>5, <3>1, <3>2
  <2>6. CASE ~frame[w].in
    BY <2>2, <2>3, <2>4, <2>6 DEF Called
  <2>7. QED BY <2>5, <2>6
<1>2. CASE ~ \E t \in Thread : frame[t].at = "done"
  <2>1. Untold = SubSeq(done, 1, Len(done))
    BY <1>2 DEF Untold
  <2>2. Len(answered) = asked - Len(done)
    BY <1>2, PadFacts DEF Answers
  <2>3. 1 <= Len(done) + 1 /\ asked - Len(done) = (asked - Len(done)) + (1 - 1)
    BY PadFacts
  <2>4. QED BY <2>1, <2>2, <2>3
<1>3. QED BY <1>1, <1>2

LEMMA AnswersOrdered == PadIInv => AnsweredInOrder
<1>. SUFFICES ASSUME PadIInv
              PROVE  AnsweredInOrder
  OBVIOUS
<1>1. PICK first \in Nat \ {0} :
        /\ first <= Len(done) + 1 /\ Len(answered) = (asked - Len(done)) + (first - 1)
        /\ Untold = SubSeq(done, first, Len(done))
  BY TableFacts
<1>. DEFINE u == Untold
            z == Len(done)
            s == [n \in DOMAIN u |-> u[n].id]
            m == Len(answered)
<1>2. z \in Nat /\ m \in Nat /\ asked \in Nat /\ m = (asked - z) + (first - 1) /\ first <= z + 1
      /\ z <= asked /\ done \in Seq(Entry) /\ DOMAIN done = 1 .. z /\ answered \in Seq(Nat)
  <2>1. answered \in Seq(Nat)
    <3>1. answered \in Seq(1 .. MaxRequests)
      BY PadFacts
    <3>2. QED BY <3>1, Bounds
  <2>2. QED BY <1>1, <2>1, PadFacts
<1>3. u = SubSeq(done, first, z)
  BY <1>1
<1>4. /\ Len(u) = (z - first) + 1 /\ (z - first) + 1 \in Nat /\ DOMAIN u = 1 .. ((z - first) + 1)
      /\ \A n \in 1 .. ((z - first) + 1) : u[n] = done[(first + n) - 1]
  BY <1>2, <1>3
<1>5. \A n \in 1 .. ((z - first) + 1) : s[n] = m + n
  <2>1. SUFFICES ASSUME NEW n \in 1 .. ((z - first) + 1)
                 PROVE  s[n] = m + n
    OBVIOUS
  <2>2. (first + n) - 1 \in 1 .. z
    BY <1>2
  <2>3. done[(first + n) - 1].id = (asked - z) + ((first + n) - 1)
    BY <1>2, <2>2, PadFacts DEF Answers
  <2>4. s[n] = done[(first + n) - 1].id
    BY <1>4
  <2>5. QED BY <1>2, <2>3, <2>4
<1>. DEFINE w == (z - first) + 1
<1>6. w \in Nat /\ m + w = asked
  BY <1>2
<1>7. s \in Seq(Nat) /\ Len(s) = w
  <2>1. s = [n \in 1 .. w |-> u[n].id]
    BY <1>4
  <2>2. \A n \in 1 .. w : u[n].id \in Nat
    BY <1>2, <1>4, <1>5
  <2>3. s \in [1 .. w -> Nat]
    BY <2>1, <2>2
  <2>4. QED BY <1>6, <2>1, <2>3
<1>8. \A n \in 1 .. m : answered[n] = n
  BY <1>2, PadFacts DEF Answers
<1>. HIDE DEF s, w, m, u, z
<1>9. \A n \in 1 .. w : s[n] = m + n
  BY <1>5 DEF w
<1>. DEFINE all == answered \o s
            want == [n \in 1 .. asked |-> n]
<1>10. all \in Seq(Nat) /\ Len(all) = asked
       /\ \A n \in 1 .. asked : all[n] = n
  <2>1. Len(answered) = m
    BY DEF m
  <2>2. all \in Seq(Nat) /\ Len(all) = m + w
        /\ \A n \in 1 .. (m + w) : all[n] = IF n <= m THEN answered[n] ELSE s[n - m]
    BY <1>2, <1>7, <2>1, ConcatProperties
  <2>3. \A n \in 1 .. (m + w) : IF n <= m THEN n \in 1 .. m ELSE n - m \in 1 .. w /\ m + (n - m) = n
    BY <1>2, <1>6
  <2>4. QED BY <1>6, <1>8, <1>9, <2>2, <2>3
<1>11. want \in Seq(Nat) /\ Len(want) = asked /\ \A n \in 1 .. asked : want[n] = n
  BY <1>2
<1>. HIDE DEF all, want
<1>12. all = want
  BY <1>2, <1>10, <1>11, SeqEqual
<1>13. QED BY <1>12 DEF all, want, s, u, AnsweredInOrder

\* The inductive invariant of the controllers: where threads are in deliver(),
\* and which of the table's requests are called back.
THEOREM PadInvariant == Spec => []PadIInv
BY PadStart, PadStep, PTL DEF Spec

\* For any number of threads and channels and a table of any size, every request
\* in it is called back once and in order, whoever asks for more meanwhile, and
\* the edges of KPADRead add up (deliver, finish_later, KPADRead).
THEOREM CalledBackInOrder == Spec => []PadInv
<1>1. PadIInv => PadInv
  BY TypeParts, AnswersOrdered, PadFacts DEF PadInv
<1>2. QED BY <1>1, PadInvariant, PTL

-----------------------------------------------------------------------------
(* WPAD: what a connect callback believes, and that none hears of a leaving  *)
(* before it has heard of a coming.                                          *)

\* The calls of channel c that a thread in deliver() has still to make: k's own,
\* and KPAD's while it is in WPAD's.
Upcoming(f, c, k) ==
  /\ f.i = c
  /\ \/ f.at = k /\ ~f.in
     \/ f.at = "wpad" /\ k = "kpad"
Coming(c, k) == \E t \in Thread : Upcoming(frame[t], c, k)

\* What each callback has heard, but for the calls to come: of one who is there;
\* of nobody, where nobody is or nothing was told since the registration; and one
\* who is about to hear of a leaving has heard of the coming.  A call to come
\* says what was put down, unless its callback was registered since.
HeardInv(c) ==
  /\ told[c] /\ toldHere[c] =>
       \A k \in Connect : cb[c][k] # Null /\ ~Coming(c, k) => heard[c][k] = "here"
  /\ ~(told[c] /\ toldHere[c]) =>
       \A k \in Connect : k = latest[c] /\ cb[c][k] # Null /\ ~SetWithin(c, k) /\ ~Coming(c, k)
         => heard[c][k] # "here"
  /\ \A t \in Thread, k \in Connect : Upcoming(frame[t], c, k) =>
       /\ ~frame[t].here /\ cb[c][k] # Null /\ ~SetWithin(c, k) => heard[c][k] = "here"
       /\ ~told[c] /\ latest[c] = k => SetWithin(c, k)
       /\ told[c] => frame[t].here = toldHere[c]

ConnectInv == \A c \in Chan : HeardInv(c)

LEMMA Alone ==
  ASSUME PadIInv, NEW t \in Thread, frame[t].at \in Busy, Moves(t)
  PROVE  \A u \in Thread \ {t} : frame'[u] = frame[u] /\ frame[u].at \notin Busy
                                 /\ frame[u].at \notin Connect /\ frame[u].at # "chan"
BY PadFacts DEF Frames, Moves, Busy, Kind

\* A channel of which nothing is put down, heard, set or still to be called.
LEMMA HeardStays ==
  ASSUME NEW c \in Chan, HeardInv(c),
         cb'[c] = cb[c], told'[c] = told[c], toldHere'[c] = toldHere[c],
         heard'[c] = heard[c], latest'[c] = latest[c], within' = within,
         \A u \in Thread, k \in Connect :
           /\ Upcoming(frame'[u], c, k) <=> Upcoming(frame[u], c, k)
           /\ Upcoming(frame[u], c, k) => frame'[u].here = frame[u].here
  PROVE  HeardInv(c)'
<1>1. \A k \in Connect : Coming(c, k)' <=> Coming(c, k)
  BY DEF Coming
<1>2. \A k : SetWithin(c, k)' <=> SetWithin(c, k)
  BY DEF SetWithin
<1>3. (told[c] /\ toldHere[c])' =>
        \A k \in Connect : cb'[c][k] # Null /\ ~Coming(c, k)' => heard'[c][k] = "here"
  BY <1>1 DEF HeardInv
<1>4. ~(told[c] /\ toldHere[c])' =>
        \A k \in Connect : k = latest'[c] /\ cb'[c][k] # Null /\ ~SetWithin(c, k)' /\ ~Coming(c, k)'
          => heard'[c][k] # "here"
  BY <1>1, <1>2 DEF HeardInv
<1>5. ASSUME NEW t \in Thread, NEW k \in Connect, Upcoming(frame'[t], c, k)
      PROVE  /\ ~frame'[t].here /\ cb'[c][k] # Null /\ ~SetWithin(c, k)' => heard'[c][k] = "here"
             /\ ~told'[c] /\ latest'[c] = k => SetWithin(c, k)'
             /\ told'[c] => frame'[t].here = toldHere'[c]
  <2>1. Upcoming(frame[t], c, k) /\ frame'[t].here = frame[t].here
    BY <1>5
  <2>2. QED BY <1>2, <2>1 DEF HeardInv
<1>6. QED BY <1>3, <1>4, <1>5 DEF HeardInv

\* A thread moves, and no call comes or goes by it.
LEMMA QuietConnect ==
  ASSUME PadIInv, ConnectInv, NEW t \in Thread, Moves(t),
         UNCHANGED <<cb, told, toldHere, heard, latest, within>>,
         \A c \in Chan, k \in Connect :
           /\ Upcoming(frame'[t], c, k) <=> Upcoming(frame[t], c, k)
           /\ Upcoming(frame[t], c, k) => frame'[t].here = frame[t].here
  PROVE  ConnectInv'
<1>1. \A u \in Thread : u = t \/ frame'[u] = frame[u]
  BY DEF Moves
<1>2. ASSUME NEW c \in Chan
      PROVE  HeardInv(c)'
  <2>1. \A u \in Thread, k \in Connect :
          /\ Upcoming(frame'[u], c, k) <=> Upcoming(frame[u], c, k)
          /\ Upcoming(frame[u], c, k) => frame'[u].here = frame[u].here
    BY <1>1
  <2>2. HeardInv(c)
    BY DEF ConnectInv
  <2>3. QED BY <2>1, <2>2, HeardStays
<1>3. QED BY <1>2 DEF ConnectInv

LEMMA Elsewhere ==
  ASSUME NEW f, f.at \notin Connect
  PROVE  \A c \in Chan, k \in Connect : ~Upcoming(f, c, k)
BY DEF Upcoming, Connect

\* Steps between places where no connect call is to come.
LEMMA QuietMove ==
  ASSUME PadIInv, ConnectInv, NEW t \in Thread, Moves(t),
         UNCHANGED <<cb, told, toldHere, heard, latest, within>>,
         frame[t].at \notin Connect, frame'[t].at \notin Connect
  PROVE  ConnectInv'
<1>1. \A c \in Chan, k \in Connect : ~Upcoming(frame[t], c, k)
  BY Elsewhere
<1>2. \A c \in Chan, k \in Connect : ~Upcoming(frame'[t], c, k)
  BY Elsewhere
<1>3. QED BY <1>1, <1>2, QuietConnect

LEMMA EnterConnect ==
  ASSUME PadIInv, ConnectInv, NEW t \in Thread, NEW then \in {"nothing", "read"}, Enter(t, then)
  PROVE  ConnectInv'
<1>1. /\ frame' = [frame EXCEPT ![t].at = "done", ![t].i = 1, ![t].then = then]
      /\ frame[t].at = "out" /\ UNCHANGED <<cb, told, toldHere, heard, latest, within>>
  BY DEF Enter, reg, history
<1>2. Moves(t) /\ frame'[t].at = "done"
  BY <1>1, EnterFacts, PadFacts
<1>3. frame[t].at \notin Connect /\ frame'[t].at \notin Connect
  BY <1>1, <1>2 DEF Connect
<1>4. QED BY <1>1, <1>2, <1>3, QuietMove

LEMMA CallDoneConnect ==
  ASSUME PadIInv, ConnectInv, NEW t \in Thread, CallDone(t)
  PROVE  ConnectInv'
<1>1. /\ frame' = [frame EXCEPT ![t].in = TRUE] /\ frame[t].at = "done"
      /\ UNCHANGED <<cb, told, toldHere, heard, latest, within>>
  BY DEF CallDone, At, reg
<1>2. Moves(t) /\ frame'[t].at = "done"
  BY <1>1, InFacts, PadFacts
<1>3. frame[t].at \notin Connect /\ frame'[t].at \notin Connect
  BY <1>1, <1>2 DEF Connect
<1>4. QED BY <1>1, <1>2, <1>3, QuietMove

LEMMA LeaveConnect ==
  ASSUME PadIInv, ConnectInv, NEW t \in Thread, DoneEnds(t) \/ DeliverEnds(t) \/ ReadEnds(t)
  PROVE  ConnectInv'
<1>1. /\ frame[t].at \in {"done", "chan", "read"}
      /\ UNCHANGED <<cb, told, toldHere, heard, latest, within>>
      /\ \/ Back(t)
         \/ frame' = [frame EXCEPT ![t].at = "chan", ![t].i = 0, ![t].t0 = tb]
         \/ frame' = [frame EXCEPT ![t] = Out]
  <2>1. CASE DoneEnds(t)
    BY <2>1 DEF DoneEnds, At, Leave, reg, history
  <2>2. CASE DeliverEnds(t)
    BY <2>2 DEF DeliverEnds, At, Leave, reg, history
  <2>3. CASE ReadEnds(t)
    <3>1. frame[t].at = "read" /\ Sample /\ frame' = [frame EXCEPT ![t] = Out]
      BY <2>3 DEF ReadEnds, At
    <3>2. QED BY <3>1, SampleFacts DEF reg, history
  <2>4. QED BY <2>1, <2>2, <2>3
<1>2. Moves(t) /\ frame'[t].at \in {"out", "read", "chan"}
  <2>1. CASE Back(t)
    BY <2>1, BackFacts, PadFacts
  <2>2. CASE frame' = [frame EXCEPT ![t].at = "chan", ![t].i = 0, ![t].t0 = tb]
    BY <2>2, LookFacts, PadFacts
  <2>3. CASE frame' = [frame EXCEPT ![t] = Out]
    <3>1. Out \in Frame /\ Out.at = "out"
      BY Bounds DEF Out, Frame
    <3>2. QED BY <2>3, <3>1, PadFacts DEF Moves
  <2>4. QED BY <1>1, <2>1, <2>2, <2>3
<1>3. frame[t].at \notin Connect /\ frame'[t].at \notin Connect
  BY <1>1, <1>2 DEF Connect
<1>4. QED BY <1>1, <1>2, <1>3, QuietMove

\* The look at a channel: nothing to say, or both calls are to come.
LEMMA LookConnect ==
  ASSUME PadIInv, ConnectInv, NEW t \in Thread, LookAt(t)
  PROVE  ConnectInv'
<1>1. PICK c \in Chan : c = frame[t].i
  <2>1. frame[t].i \in 0 .. NChan /\ frame[t].i < NChan
    BY PadFacts DEF LookAt, At, Sound
  <2>2. QED BY <2>1, Bounds
<1>2. PICK n \in Nat : n = c + 1
  BY Bounds
<1>3. /\ frame[t].at = "chan" /\ ~frame[t].in /\ frame[t].at \in Busy
      /\ UNCHANGED <<cb, latest, heard, within>>
  BY DEF LookAt, At, history, Busy
<1>4. frame \in [Thread -> Frame] /\ present(c) \in BOOLEAN
  BY PadFacts DEF present, PadType
<1>5. \A d \in Chan : HeardInv(d)
  BY DEF ConnectInv
<1>6. frame[t].at \notin Connect
  BY <1>3 DEF Connect
<1>7. \A d \in Chan, k \in Connect : ~Upcoming(frame[t], d, k)
  BY <1>6, Elsewhere
<1>8. CASE GoTo(t, "chan", c + 1) /\ UNCHANGED <<told, toldHere>>
  <2>1. frame' = [frame EXCEPT ![t].at = "chan", ![t].i = n]
    BY <1>2, <1>8 DEF GoTo
  <2>2. Moves(t) /\ frame'[t].at = "chan"
    BY <1>2, <1>4, <2>1, NextFacts
  <2>3. frame'[t].at \notin Connect
    BY <2>2 DEF Connect
  <2>4. QED BY <1>3, <1>6, <1>8, <2>2, <2>3, QuietMove
<1>9. CASE /\ ~told[c] /\ ~present(c) /\ frame' = [frame EXCEPT ![t].i = c + 1]
           /\ told' = [told EXCEPT ![c] = TRUE]
           /\ toldHere' = [toldHere EXCEPT ![c] = present(c)]
  <2>1. frame' = [frame EXCEPT ![t].at = "chan", ![t].i = n]
    BY <1>2, <1>3, <1>4, <1>9 DEF Frame
  <2>2. Moves(t) /\ frame'[t].at = "chan"
    BY <1>2, <1>4, <2>1, NextFacts
  <2>3. /\ \A d \in Chan \ {c} : told'[d] = told[d] /\ toldHere'[d] = toldHere[d]
        /\ told'[c] = TRUE /\ toldHere'[c] = FALSE
    BY <1>9, PadFacts DEF SlotType
  <2>4. frame'[t].at \notin Connect
    BY <2>2 DEF Connect
  <2>5. \A d \in Chan, k \in Connect : ~Upcoming(frame'[t], d, k)
    BY <2>4, Elsewhere
  <2>6. \A u \in Thread : u = t \/ frame'[u] = frame[u]
    BY <2>2 DEF Moves
  <2>7. \A u \in Thread, d \in Chan, k \in Connect :
          /\ Upcoming(frame'[u], d, k) <=> Upcoming(frame[u], d, k)
          /\ Upcoming(frame[u], d, k) => frame'[u].here = frame[u].here
    BY <1>7, <2>5, <2>6
  <2>8. ASSUME NEW d \in Chan \ {c}
        PROVE  HeardInv(d)'
    BY <1>3, <1>5, <2>3, <2>7, HeardStays
  <2>9. HeardInv(c)'
    <3>1. \A u \in Thread, k \in Connect : ~Upcoming(frame'[u], c, k)
      <4>1. \A u \in Thread \ {t} : frame'[u] = frame[u] /\ frame[u].at \notin Connect
        BY <1>3, <2>2, Alone
      <4>2. \A u \in Thread \ {t}, k \in Connect : ~Upcoming(frame'[u], c, k)
        BY <4>1, Elsewhere
      <4>3. QED BY <2>5, <4>2
    <3>2. \A k \in Connect : ~Coming(c, k)
      BY <2>7, <3>1 DEF Coming
    <3>3. \A k \in Connect : k = latest[c] /\ cb[c][k] # Null /\ ~SetWithin(c, k)
            => heard[c][k] # "here"
      BY <1>5, <1>9, <3>2 DEF HeardInv
    <3>4. \A k : SetWithin(c, k)' <=> SetWithin(c, k)
      BY <1>3 DEF SetWithin
    <3>5. QED BY <1>3, <2>3, <3>1, <3>3, <3>4 DEF HeardInv
  <2>10. QED BY <2>8, <2>9 DEF ConnectInv
<1>10. CASE /\ News(t, c) /\ ~NothingToSay(c)
            /\ frame' = [frame EXCEPT ![t].at = "wpad", ![t].here = present(c)]
            /\ told' = [told EXCEPT ![c] = TRUE]
            /\ toldHere' = [toldHere EXCEPT ![c] = present(c)]
  <2>1. PICK h \in BOOLEAN : h = present(c)
    BY <1>4
  <2>2. /\ Moves(t) /\ frame'[t].at = "wpad" /\ frame'[t].i = c /\ frame'[t].in = FALSE
        /\ frame'[t].here = h
    <3>1. frame' = [frame EXCEPT ![t].at = "wpad", ![t].here = h]
      BY <1>10, <2>1
    <3>2. frame[t].in = FALSE
      BY <1>3, PadFacts
    <3>3. QED BY <1>1, <1>4, <3>1, <3>2, ToldFacts
  <2>3. /\ \A d \in Chan \ {c} : told'[d] = told[d] /\ toldHere'[d] = toldHere[d]
        /\ told'[c] = TRUE /\ toldHere'[c] = h
    BY <1>10, <2>1, PadFacts DEF SlotType
  <2>4. \A u \in Thread \ {t} : frame'[u] = frame[u] /\ frame[u].at \notin Connect
    BY <1>3, <2>2, Alone
  <2>5. \A u \in Thread \ {t}, d \in Chan, k \in Connect : ~Upcoming(frame[u], d, k)
    BY <2>4, Elsewhere
  <2>6. ASSUME NEW d \in Chan \ {c}
        PROVE  HeardInv(d)'
    <3>1. \A k \in Connect : ~Upcoming(frame'[t], d, k)
      BY <2>2 DEF Upcoming
    <3>2. \A u \in Thread, k \in Connect :
            /\ Upcoming(frame'[u], d, k) <=> Upcoming(frame[u], d, k)
            /\ Upcoming(frame[u], d, k) => frame'[u].here = frame[u].here
      BY <1>7, <2>4, <3>1
    <3>3. QED BY <1>3, <1>5, <2>3, <3>2, HeardStays
  <2>7. \A k \in Connect : Upcoming(frame'[t], c, k)
    BY <2>2 DEF Upcoming, Connect
  <2>8. \A k \in Connect : Coming(c, k)'
    BY <2>7 DEF Coming
  <2>9. \A k \in Connect : ~h /\ cb[c][k] # Null => heard[c][k] = "here"
    <3>1. ~h => told[c] /\ toldHere[c]
      BY <1>10, <2>1, PadFacts DEF News, NothingToSay, SlotType
    <3>2. \A k \in Connect : ~Coming(c, k)
      BY <1>7, <2>5 DEF Coming
    <3>3. QED BY <1>5, <3>1, <3>2 DEF HeardInv
  <2>10. HeardInv(c)'
    <3>1. ASSUME NEW u \in Thread, NEW k \in Connect, Upcoming(frame'[u], c, k)
          PROVE  /\ ~frame'[u].here /\ cb'[c][k] # Null => heard'[c][k] = "here"
                 /\ told'[c] /\ frame'[u].here = toldHere'[c]
      <4>1. u = t
        BY <2>4, <2>5, <3>1
      <4>2. QED BY <1>3, <2>2, <2>3, <2>9, <4>1
    <3>2. QED BY <2>3, <2>8, <3>1 DEF HeardInv
  <2>11. QED BY <2>6, <2>10 DEF ConnectInv
<1>11. QED BY <1>1, <1>8, <1>9, <1>10 DEF LookAt, NothingToSay

\* A connect call, made or passed over, is no longer to come.
LEMMA CallConnect ==
  ASSUME PadIInv, ConnectInv, NEW t \in Thread, NEW k \in Kind, Call(t, k)
  PROVE  ConnectInv'
<1>1. PICK c \in Chan : c = frame[t].i
  BY PadFacts DEF Call, At, Sound
<1>2. /\ frame[t].at = k /\ frame[t].in = FALSE /\ frame[t].at \in Busy
      /\ UNCHANGED <<cb, told, toldHere, latest, within>>
      /\ frame \in [Thread -> Frame]
  BY PadFacts DEF Call, At, reg, Busy
<1>3. \/ /\ Due(t, k) /\ Moves(t) /\ frame'[t].in = TRUE /\ frame'[t].at = k
         /\ frame'[t].i = c /\ frame'[t].here = frame[t].here
         /\ k # "ext" => heard' = [heard EXCEPT ![c][k] = IF frame[t].here THEN "here" ELSE "gone"]
         /\ k = "ext" => heard' = heard
      \/ /\ ~Due(t, k) /\ Moves(t) /\ frame'[t].in = FALSE /\ frame'[t].at = After[k]
         /\ k # "ext" => frame'[t].i = c
         /\ frame'[t].here = frame[t].here
         /\ heard' = heard
  <2>1. CASE Due(t, k)
    <3>1. /\ frame' = [frame EXCEPT ![t].in = TRUE]
          /\ k # "ext" => heard' = [heard EXCEPT ![c][k] = IF frame[t].here THEN "here" ELSE "gone"]
          /\ k = "ext" => heard' = heard
      BY <1>1, <2>1 DEF Call
    <3>2. QED BY <1>1, <1>2, <2>1, <3>1, InFacts
  <2>2. CASE ~Due(t, k)
    <3>1. PICK n \in Nat : n = IF k = "ext" THEN c + 1 ELSE c
      BY Bounds
    <3>2. frame' = [frame EXCEPT ![t].at = After[k], ![t].i = n] /\ heard' = heard
      BY <1>1, <2>2, <3>1 DEF Call, Pass, GoTo
    <3>3. After[k] \in Places
      BY DEF After, Places, Kind, Connect
    <3>4. /\ Moves(t) /\ frame'[t].at = After[k] /\ frame'[t].i = n
          /\ frame'[t].in = frame[t].in /\ frame'[t].here = frame[t].here
      BY <3>2, <3>3, GoFacts, PadFacts
    <3>5. QED BY <1>2, <2>2, <3>1, <3>2, <3>4
  <2>3. QED BY <2>1, <2>2
<1>4. /\ After["wpad"] = "kpad" /\ After["kpad"] = "ext" /\ After["ext"] = "chan"
      /\ k \in {"wpad", "kpad", "ext"}
  BY DEF After, Kind, Connect
<1>5. CASE k = "ext"
  <2>1. Moves(t) /\ frame'[t].at \in {"ext", "chan"} /\ heard' = heard
    BY <1>3, <1>4, <1>5
  <2>2. frame[t].at \notin Connect /\ frame'[t].at \notin Connect
    BY <1>2, <1>5, <2>1 DEF Connect
  <2>3. QED BY <1>2, <2>1, <2>2, QuietMove
<1>6. CASE k # "ext"
  <2>1. k \in {"wpad", "kpad"} /\ k \in Connect /\ Moves(t) /\ frame'[t].here = frame[t].here
        /\ frame'[t].i = c
    BY <1>3, <1>4, <1>6 DEF Connect
  <2>2. \A u \in Thread \ {t} : frame'[u] = frame[u] /\ frame[u].at \notin Connect
    BY <1>2, <2>1, Alone
  <2>3. \A u \in Thread \ {t}, d \in Chan, l \in Connect : ~Upcoming(frame[u], d, l)
    BY <2>2, Elsewhere
  <2>4. \A l \in Connect : Upcoming(frame'[t], c, l) <=> Upcoming(frame[t], c, l) /\ l # k
    BY <1>1, <1>2, <1>3, <1>4, <2>1 DEF Upcoming, Connect
  <2>5. Upcoming(frame[t], c, k)
    BY <1>1, <1>2 DEF Upcoming
  <2>6. \A d \in Chan : HeardInv(d)
    BY DEF ConnectInv
  <2>7. heard \in [Chan -> [Connect -> {"nothing", "here", "gone"}]]
    BY PadFacts DEF SlotType
  <2>8. \A d \in Chan \ {c} : heard'[d] = heard[d]
    BY <1>3, <2>7
  <2>9. /\ \A l \in Connect : l # k => heard'[c][l] = heard[c][l]
        /\ cb[c][k] # Null => heard'[c][k] = IF frame[t].here THEN "here" ELSE "gone"
    BY <1>1, <1>3, <1>6, <2>1, <2>7 DEF Due
  <2>10. ASSUME NEW d \in Chan \ {c}
         PROVE  HeardInv(d)'
    <3>1. \A l \in Connect : ~Upcoming(frame'[t], d, l) /\ ~Upcoming(frame[t], d, l)
      BY <1>1, <2>1 DEF Upcoming
    <3>2. \A u \in Thread, l \in Connect :
            /\ Upcoming(frame'[u], d, l) <=> Upcoming(frame[u], d, l)
            /\ Upcoming(frame[u], d, l) => frame'[u].here = frame[u].here
      BY <2>2, <3>1
    <3>3. QED BY <1>2, <2>6, <2>8, <3>2, HeardStays
  <2>11. HeardInv(c)'
    <3>1. \A l : SetWithin(c, l)' <=> SetWithin(c, l)
      BY <1>2 DEF SetWithin
    <3>2. \A l \in Connect : l # k /\ ~Coming(c, l)' => ~Coming(c, l)
      BY <2>3, <2>4 DEF Coming
    <3>3. /\ ~told[c] /\ latest[c] = k => SetWithin(c, k)
          /\ told[c] => frame[t].here = toldHere[c]
      BY <2>1, <2>5, <2>6 DEF HeardInv
    <3>4. told'[c] /\ toldHere'[c] =>
            \A l \in Connect : cb'[c][l] # Null /\ ~Coming(c, l)' => heard'[c][l] = "here"
      <4>. SUFFICES ASSUME told[c], toldHere[c], NEW l \in Connect, cb[c][l] # Null, ~Coming(c, l)'
                    PROVE  heard'[c][l] = "here"
        BY <1>2
      <4>1. CASE l = k
        BY <2>9, <3>3, <4>1
      <4>2. CASE l # k
        BY <2>6, <2>9, <3>2, <4>2 DEF HeardInv
      <4>3. QED BY <4>1, <4>2
    <3>5. ~(told'[c] /\ toldHere'[c]) =>
            \A l \in Connect : l = latest'[c] /\ cb'[c][l] # Null /\ ~SetWithin(c, l)' /\ ~Coming(c, l)'
              => heard'[c][l] # "here"
      <4>. SUFFICES ASSUME ~(told[c] /\ toldHere[c]), NEW l \in Connect, l = latest[c],
                           cb[c][l] # Null, ~SetWithin(c, l), ~Coming(c, l)'
                    PROVE  heard'[c][l] # "here"
        BY <1>2, <3>1
      <4>1. CASE l = k
        <5>1. ~frame[t].here
          BY <3>3, <4>1, PadFacts DEF SlotType
        <5>2. QED BY <2>9, <4>1, <5>1
      <4>2. CASE l # k
        BY <2>6, <2>9, <3>2, <4>2 DEF HeardInv
      <4>3. QED BY <4>1, <4>2
    <3>6. ASSUME NEW u \in Thread, NEW l \in Connect, Upcoming(frame'[u], c, l)
          PROVE  /\ ~frame'[u].here /\ cb'[c][l] # Null /\ ~SetWithin(c, l)' => heard'[c][l] = "here"
                 /\ ~told'[c] /\ latest'[c] = l => SetWithin(c, l)'
                 /\ told'[c] => frame'[u].here = toldHere'[c]
      <4>1. u = t
        BY <2>2, <2>3, <3>6
      <4>2. Upcoming(frame[t], c, l) /\ l # k
        BY <2>4, <3>6, <4>1
      <4>3. /\ ~frame[t].here /\ cb[c][l] # Null /\ ~SetWithin(c, l) => heard[c][l] = "here"
            /\ ~told[c] /\ latest[c] = l => SetWithin(c, l)
            /\ told[c] => frame[t].here = toldHere[c]
        BY <2>6, <4>2 DEF HeardInv
      <4>4. QED BY <1>2, <2>1, <2>9, <3>1, <4>1, <4>2, <4>3
    <3>7. QED BY <3>4, <3>5, <3>6 DEF HeardInv
  <2>12. QED BY <2>10, <2>11 DEF ConnectInv
<1>7. QED BY <1>5, <1>6

\* A call that returns leaves the same calls to come.
LEMMA ReturnConnect ==
  ASSUME PadIInv, ConnectInv, NEW t \in Thread, CallReturns(t)
  PROVE  ConnectInv'
<1>1. /\ frame[t].in = TRUE
      /\ UNCHANGED <<cb, told, toldHere, heard, latest, within>>
  BY PadFacts DEF CallReturns, reg, history
<1>2. frame[t].at \in {"done"} \cup Kind
  BY <1>1, PadFacts DEF Sound, Places
<1>3. /\ Moves(t) /\ frame'[t].in = FALSE /\ frame'[t].here = frame[t].here
      /\ frame'[t].at = IF frame[t].at = "done" THEN "done" ELSE After[frame[t].at]
      /\ frame[t].at \notin {"done", "ext"} => frame'[t].i = frame[t].i
  BY <1>2, ReturnFacts, PadFacts
<1>4. After["wpad"] = "kpad" /\ After["kpad"] = "ext" /\ After["ext"] = "chan"
  BY DEF After
<1>5. ASSUME NEW c \in Chan, NEW k \in Connect
      PROVE  Upcoming(frame'[t], c, k) <=> Upcoming(frame[t], c, k)
  <2>1. CASE frame[t].at = "wpad"
    BY <1>1, <1>3, <1>4, <2>1 DEF Upcoming, Connect
  <2>2. CASE frame[t].at # "wpad"
    <3>1. frame'[t].at \in {"done", "ext", "chan"}
      BY <1>2, <1>3, <1>4, <2>2 DEF Kind, Connect
    <3>2. QED BY <1>1, <2>2, <3>1 DEF Upcoming, Connect
  <2>3. QED BY <2>1, <2>2
<1>6. QED BY <1>1, <1>3, <1>5, QuietConnect

\* Guest code runs outside deliver() or inside a call: then KPAD's call at most is
\* to come, and a registration of it there is noted in `within`.
LEMMA SetConnect ==
  ASSUME PadIInv, ConnectInv,
         NEW c \in Chan, NEW k \in Kind, NEW f \in Callback \cup {Null}, SetCallback(c, k, f)
  PROVE  ConnectInv'
<1>. DEFINE anew == k \in Connect /\ f # Null /\ f # cb[c][k]
<1>1. SlotType /\ k \in {"wpad", "kpad", "ext"}
  BY PadFacts DEF Kind, Connect
<1>2. /\ cb' = [cb EXCEPT ![c][k] = f]
      /\ told' = [told EXCEPT ![c] = told[c] /\ ~anew]
      /\ heard' = IF k \in Connect /\ f # cb[c][k]
                  THEN [heard EXCEPT ![c][k] = "nothing"] ELSE heard
      /\ latest' = IF anew THEN [latest EXCEPT ![c] = k] ELSE latest
      /\ within' = IF anew /\ k = "kpad"
                   THEN (within \ {c}) \cup {d \in {c} : InWpadCall(d)} ELSE within
      /\ UNCHANGED <<toldHere, frame>> /\ Guest
  BY DEF SetCallback
<1>3. \A d \in Chan : /\ cb[d] \in [Kind -> Callback \cup {Null}] /\ told[d] \in BOOLEAN
                      /\ heard[d] \in [Connect -> {"nothing", "here", "gone"}]
  BY <1>1 DEF SlotType
<1>4. \A d \in Chan \ {c} : /\ cb'[d] = cb[d] /\ told'[d] = told[d]
                            /\ heard'[d] = heard[d] /\ latest'[d] = latest[d]
  BY <1>1, <1>2 DEF SlotType
<1>5. \A d \in Chan : HeardInv(d)
  BY DEF ConnectInv
<1>6. \A t \in Thread, l \in Connect : Upcoming(frame[t], c, l) =>
        l = "kpad" /\ frame[t].at = "wpad" /\ frame[t].i = c
  BY <1>2 DEF Guest, Upcoming, Connect
<1>7. \A d \in Chan, l \in Connect : Coming(d, l)' <=> Coming(d, l)
  BY <1>2 DEF Coming
<1>8. ASSUME NEW d \in Chan \ {c}
      PROVE  HeardInv(d)'
  <2>1. \A l : SetWithin(d, l)' <=> SetWithin(d, l)
    BY <1>2 DEF SetWithin
  <2>2. QED BY <1>2, <1>4, <1>5, <1>7, <2>1 DEF HeardInv
<1>9. CASE anew
  <2>1. /\ told'[c] = FALSE /\ latest'[c] = k /\ heard'[c][k] = "nothing" /\ k \in Connect
        /\ \A l \in Connect : l # k => cb'[c][l] = cb[c][l] /\ heard'[c][l] = heard[c][l]
    BY <1>1, <1>2, <1>3, <1>9 DEF SlotType, Kind
  <2>2. k = "wpad" => \A l \in Connect : SetWithin(c, l)' <=> SetWithin(c, l)
    BY <1>2 DEF SetWithin
  <2>3. k = "kpad" => within' = (within \ {c}) \cup {d \in {c} : InWpadCall(d)}
    BY <1>2, <1>9
  <2>. HIDE DEF anew
  <2>4. ASSUME NEW t \in Thread, NEW l \in Connect, Upcoming(frame'[t], c, l)
        PROVE  /\ ~frame'[t].here /\ cb'[c][l] # Null /\ ~SetWithin(c, l)' => heard'[c][l] = "here"
               /\ ~told'[c] /\ latest'[c] = l => SetWithin(c, l)'
    <3>1. l = "kpad" /\ InWpadCall(c) /\ Upcoming(frame[t], c, l)
      BY <1>2, <1>6, <2>4 DEF InWpadCall
    <3>2. CASE k = "kpad"
      <4>1. c \in within'
        BY <2>3, <3>1, <3>2
      <4>2. SetWithin(c, l)'
        BY <3>1, <4>1 DEF SetWithin
      <4>3. QED BY <4>2
    <3>3. CASE k = "wpad"
      <4>1. l # k /\ (SetWithin(c, l)' <=> SetWithin(c, l))
        BY <2>2, <3>1, <3>3
      <4>2. ~frame[t].here /\ cb[c][l] # Null /\ ~SetWithin(c, l) => heard[c][l] = "here"
        BY <1>5, <3>1 DEF HeardInv
      <4>3. QED BY <1>2, <2>1, <4>1, <4>2
    <3>4. QED BY <1>1, <2>1, <3>2, <3>3 DEF Connect
  <2>5. HeardInv(c)'
    BY <2>1, <2>4 DEF HeardInv
  <2>6. QED BY <1>8, <2>5 DEF ConnectInv
<1>10. CASE ~anew
  <2>1. told'[c] = told[c] /\ UNCHANGED <<toldHere, latest, within, frame>>
    BY <1>1, <1>2, <1>3, <1>10 DEF SlotType
  <2>2. \A l \in Connect : cb'[c][l] # Null => cb'[c][l] = cb[c][l] /\ heard'[c][l] = heard[c][l]
    <3>1. CASE k \notin Connect
      BY <1>1, <1>2, <1>3, <3>1 DEF SlotType
    <3>2. CASE k \in Connect
      <4>1. f = Null \/ f = cb[c][k]
        BY <1>10, <3>2
      <4>2. \A l \in Connect : l # k => cb'[c][l] = cb[c][l] /\ heard'[c][l] = heard[c][l]
        BY <1>1, <1>2, <1>3 DEF SlotType, Kind
      <4>3. cb'[c][k] = f /\ (f = cb[c][k] => heard' = heard)
        BY <1>1, <1>2, <1>3 DEF SlotType
      <4>4. QED BY <4>1, <4>2, <4>3
    <3>3. QED BY <3>1, <3>2
  <2>. HIDE DEF anew
  <2>3. \A l : SetWithin(c, l)' <=> SetWithin(c, l)
    BY <2>1 DEF SetWithin
  <2>4. HeardInv(c)'
    BY <1>5, <1>7, <2>1, <2>2, <2>3 DEF HeardInv
  <2>5. QED BY <1>8, <2>4 DEF ConnectInv
<1>11. QED BY <1>9, <1>10

\* Steps that leave deliver() and the registrations alone.
LEMMA HostConnect ==
  ASSUME PadIInv, ConnectInv,
         \/ (\E c \in Chan : Request(c) \/ Plug(c)) \/ (\E b \in Button : Press(b)) \/ Tick
         \/ Sample /\ UNCHANGED frame
         \/ UNCHANGED vars
  PROVE  ConnectInv'
<1>1. UNCHANGED <<cb, told, toldHere, heard, latest, within, frame>>
  BY SampleFacts DEF Request, Plug, Press, Tick, vars, reg, history
<1>2. ASSUME NEW c \in Chan
      PROVE  HeardInv(c)'
  BY <1>1, HeardStays DEF ConnectInv
<1>3. QED BY <1>2 DEF ConnectInv

LEMMA ConnectStart == Init => ConnectInv
<1>. SUFFICES ASSUME Init
              PROVE  ConnectInv
  OBVIOUS
<1>1. \A t \in Thread : frame[t].at \notin Connect
  BY DEF Init, Out, Connect
<1>2. \A t \in Thread, c \in Chan, k \in Connect : ~Upcoming(frame[t], c, k)
  BY <1>1, Elsewhere
<1>3. \A c \in Chan : told[c] = FALSE /\ \A k \in Connect : heard[c][k] = "nothing"
  BY DEF Init
<1>4. QED BY <1>2, <1>3 DEF ConnectInv, HeardInv

LEMMA ConnectStep == PadIInv /\ ConnectInv /\ [Next]_vars => ConnectInv'
<1>. SUFFICES ASSUME PadIInv, ConnectInv, [Next]_vars
              PROVE  ConnectInv'
  OBVIOUS
<1>1. CASE \/ (\E c \in Chan : Request(c) \/ Plug(c)) \/ (\E b \in Button : Press(b)) \/ Tick
           \/ UNCHANGED vars
  BY <1>1, HostConnect
<1>2. CASE \E c \in Chan, k \in Kind, f \in Callback \cup {Null} : SetCallback(c, k, f)
  BY <1>2, SetConnect
<1>3. ASSUME NEW t \in Thread, StartDeliver(t) \/ KPADRead(t) \/ CallReturns(t)
      PROVE  ConnectInv'
  BY <1>3, EnterConnect, HostConnect, ReturnConnect DEF StartDeliver, KPADRead
<1>4. ASSUME NEW t \in Thread, DeliverStep(t)
      PROVE  ConnectInv'
  BY <1>4, CallDoneConnect, LeaveConnect, LookConnect, CallConnect DEF DeliverStep
<1>5. QED BY <1>1, <1>2, <1>3, <1>4 DEF Next

\* What each connect callback has heard agrees with what deliver() put down, for
\* any number of channels and threads, whoever registers, inside a callback too.
THEOREM ConnectInvariant == Spec => []ConnectInv
<1>1. Init => PadIInv /\ ConnectInv
  BY PadStart, ConnectStart
<1>2. (PadIInv /\ ConnectInv) /\ [Next]_vars => (PadIInv /\ ConnectInv)'
  BY PadStep, ConnectStep
<1>3. QED BY <1>1, <1>2, PTL DEF Spec

\* The game believes what was put down as told, but for a KPAD callback that was
\* registered inside its channel's WPAD call (set_callback, deliver).
THEOREM LatestHeard == Spec => []HeardLatest
<1>1. PadIInv /\ ConnectInv => HeardLatest
  <2>. SUFFICES ASSUME PadIInv, ConnectInv, NEW c \in Chan, told[c],
                       \A t \in Thread : frame[t].at \in Connect => frame[t].i # c
                PROVE  IF toldHere[c]
                       THEN \A k \in Connect : cb[c][k] # Null => heard[c][k] = "here"
                       ELSE cb[c][latest[c]] # Null /\ ~SetWithin(c, latest[c])
                              => heard[c][latest[c]] # "here"
    BY DEF HeardLatest
  <2>1. \A k \in Connect : ~Coming(c, k)
    BY DEF Coming, Upcoming, Connect
  <2>2. HeardInv(c) /\ latest[c] \in Connect
    BY PadFacts DEF ConnectInv, SlotType
  <2>3. QED BY <2>1, <2>2 DEF HeardInv
<1>2. QED BY <1>1, PadInvariant, ConnectInvariant, PTL

\* The one step that calls a connect callback.
LEMMA CallsOne ==
  ASSUME PadIInv, Next, NEW t \in Thread, NEW k \in Connect, At(t, k), frame'[t].in
  PROVE  Call(t, k)
<1>1. /\ frame[t].at = k /\ frame[t].in = FALSE /\ k \in Kind
      /\ frame[t].at \in Busy /\ k \in {"wpad", "kpad"}
  BY PadFacts DEF At, Kind, Busy, Connect
<1>2. ~Guest
  BY <1>1 DEF Guest
<1>3. frame' # frame
  BY <1>1
<1>4. PICK u \in Thread : DeliverStep(u)
  BY <1>2, <1>3 DEF Next, Request, Plug, SetCallback, StartDeliver, KPADRead, Enter, CallReturns,
                    Press, Tick
<1>5. CASE u # t
  <2>1. frame[u].at \notin Busy
    BY <1>1, <1>5, PadFacts DEF Frames
  <2>2. ReadEnds(u)
    BY <1>4, <2>1 DEF DeliverStep, CallDone, DoneEnds, LookAt, DeliverEnds, Call, At, Busy
  <2>3. frame'[t] = frame[t]
    BY <1>5, <2>2, PadFacts DEF ReadEnds
  <2>4. QED BY <1>1, <2>3
<1>6. CASE u = t
  <2>1. PICK l \in Kind : Call(t, l)
    BY <1>1, <1>4, <1>6 DEF DeliverStep, CallDone, DoneEnds, LookAt, DeliverEnds, ReadEnds, At
  <2>2. l = k
    BY <1>1, <2>1 DEF Call, At
  <2>3. QED BY <2>1, <2>2
<1>7. QED BY <1>5, <1>6

\* Nobody hears of a leaving who has not heard of the coming, but for the same
\* KPAD callback, for any number of channels and threads (deliver).
THEOREM NeverGoneUntold == Spec => GoneAfterHere
<1>1. PadIInv /\ ConnectInv /\ [Next]_vars =>
        [\A t \in Thread, k \in Connect : LET c == frame[t].i IN
           At(t, k) /\ frame'[t].in /\ ~frame[t].here /\ ~SetWithin(c, k)
           => heard[c][k] = "here"]_vars
  <2>. SUFFICES ASSUME PadIInv, ConnectInv, Next, NEW t \in Thread, NEW k \in Connect,
                       At(t, k), frame'[t].in, ~frame[t].here, ~SetWithin(frame[t].i, k)
                PROVE  heard[frame[t].i][k] = "here"
    BY Zenon
  <2>1. Call(t, k) /\ k \in Kind /\ frame[t].at = k /\ frame[t].in = FALSE
    BY CallsOne, PadFacts DEF At, Kind
  <2>2. PICK c \in Chan : c = frame[t].i
    BY <2>1, PadFacts DEF Sound
  <2>3. Due(t, k)
    <3>1. ~Due(t, k) => frame' = [frame EXCEPT ![t].at = After[k],
                                    ![t].i = IF k = "ext" THEN frame[t].i + 1 ELSE frame[t].i]
      BY <2>1 DEF Call, Pass, GoTo
    <3>2. ~Due(t, k) => frame'[t].in = frame[t].in
      BY <3>1, PadFacts DEF Frame
    <3>3. QED BY <2>1, <3>2
  <2>4. cb[c][k] # Null
    BY <2>2, <2>3 DEF Due
  <2>5. Upcoming(frame[t], c, k)
    BY <2>1, <2>2 DEF Upcoming
  <2>6. HeardInv(c)
    BY DEF ConnectInv
  <2>7. QED BY <2>2, <2>4, <2>5, <2>6 DEF HeardInv
<1>2. QED BY <1>1, PadInvariant, ConnectInvariant, PTL DEF Spec, GoneAfterHere

-----------------------------------------------------------------------------
(* The NAND's files: paths.  A path has a name at the top, or one below it;  *)
(* what lies at or below p is p and the paths whose folder p is.             *)

LEMMA Lengths ==
  ASSUME NEW p \in Path
  PROVE  /\ p \in Seq(Dir \cup Leaf) /\ Len(p) \in {1, 2} /\ p # << >>
         /\ Len(p) = 1 => p = <<p[1]>> /\ p[1] \in Dir
         /\ Len(p) = 2 => p = <<p[1], p[2]>> /\ p[1] \in Dir /\ p[2] \in Leaf
<1>1. CASE \E d \in Dir : p = <<d>>
  <2>1. PICK d \in Dir : p = <<d>>
    BY <1>1
  <2>2. Len(p) = 1 /\ p[1] = d /\ p \in Seq(Dir \cup Leaf)
    BY <2>1
  <2>3. QED BY <2>1, <2>2
<1>2. CASE \E d \in Dir, l \in Leaf : p = <<d, l>>
  <2>1. PICK d \in Dir, l \in Leaf : p = <<d, l>>
    BY <1>2
  <2>2. Len(p) = 2 /\ p[1] = d /\ p[2] = l /\ p \in Seq(Dir \cup Leaf)
    BY <2>1
  <2>3. QED BY <2>1, <2>2
<1>3. QED BY <1>1, <1>2 DEF Path

LEMMA FrontFacts ==
  ASSUME NEW p \in Path
  PROVE  /\ Len(p) = 1 => Front(p) = << >>
         /\ Len(p) = 2 => Front(p) = <<p[1]>> /\ Front(p) \in Path /\ Len(Front(p)) = 1
         /\ Front(p) \in Path \cup {<< >>} /\ Front(p) # p
<1>1. ASSUME Len(p) = 1
      PROVE  Front(p) = << >>
  <2>1. p \in Seq(Dir \cup Leaf)
    BY Lengths
  <2>2. Front(p) = SubSeq(p, 1, 0)
    BY <1>1 DEF Front
  <2>3. Front(p) \in Seq(Dir \cup Leaf) /\ Len(Front(p)) = 0
    BY <2>1, <2>2
  <2>4. QED BY <2>3
<1>2. ASSUME Len(p) = 2
      PROVE  Front(p) = <<p[1]>> /\ Front(p) \in Path /\ Len(Front(p)) = 1
  <2>1. p \in Seq(Dir \cup Leaf) /\ p[1] \in Dir
    BY <1>2, Lengths
  <2>2. Front(p) = SubSeq(p, 1, 1)
    BY <1>2 DEF Front
  <2>3. Front(p) \in Seq(Dir \cup Leaf) /\ Len(Front(p)) = 1 /\ Front(p)[1] = p[1]
    BY <1>2, <2>1, <2>2
  <2>4. Front(p) = <<p[1]>>
    BY <2>3
  <2>5. QED BY <2>1, <2>3, <2>4 DEF Path
<1>3. QED BY <1>1, <1>2, Lengths

LEMMA PrefixFacts ==
  ASSUME NEW p \in Path, NEW q \in Path
  PROVE  IsPrefix(p, q) <=> p = q \/ p = Front(q)
<1>1. p \in Seq(Dir \cup Leaf) /\ q \in Seq(Dir \cup Leaf) /\ Len(p) \in {1, 2} /\ Len(q) \in {1, 2}
  BY Lengths
<1>2. SubSeq(p, 1, Len(p)) = p /\ SubSeq(q, 1, Len(q)) = q
  BY <1>1
<1>3. CASE Len(p) = Len(q)
  <2>1. IsPrefix(p, q) <=> p = q
    BY <1>1, <1>2, <1>3 DEF IsPrefix
  <2>2. p # Front(q)
    BY <1>1, <1>3, FrontFacts, Lengths
  <2>3. QED BY <2>1, <2>2
<1>4. CASE Len(p) = 1 /\ Len(q) = 2
  <2>1. SubSeq(q, 1, 1) = Front(q)
    BY <1>4 DEF Front
  <2>2. IsPrefix(p, q) <=> p = Front(q)
    BY <1>2, <1>4, <2>1 DEF IsPrefix
  <2>3. QED BY <1>4, <2>2
<1>5. CASE Len(p) = 2 /\ Len(q) = 1
  <2>1. ~IsPrefix(p, q)
    BY <1>5 DEF IsPrefix
  <2>2. p # Front(q)
    BY <1>5, FrontFacts, Lengths
  <2>3. QED BY <1>5, <2>1, <2>2
<1>6. QED BY <1>1, <1>3, <1>4, <1>5

\* The folder of a path is at the top.
LEMMA TwoLevels ==
  ASSUME NEW p \in Path, NEW q \in Path, p = Front(q)
  PROVE  Front(p) = << >>
<1>1. Len(p) = 1
  BY FrontFacts, Lengths
<1>2. QED BY <1>1, FrontFacts

LEMMA RebasedFacts ==
  ASSUME NEW p \in Path, NEW q \in Path, NEW r \in Path
  PROVE  /\ q = p => Rebased(q, p, r) = r
         /\ p = Front(q) /\ Rebased(q, p, r) \in Path => Front(Rebased(q, p, r)) = r
<1>. DEFINE s == SubSeq(q, Len(p) + 1, Len(q))
<1>1. p \in Seq(Dir \cup Leaf) /\ q \in Seq(Dir \cup Leaf) /\ r \in Seq(Dir \cup Leaf)
      /\ Len(p) \in {1, 2} /\ Len(q) \in {1, 2} /\ Len(r) \in {1, 2}
  BY Lengths
<1>2. ASSUME q = p
      PROVE  Rebased(q, p, r) = r
  <2>1. s \in Seq(Dir \cup Leaf) /\ Len(s) = 0
    BY <1>1, <1>2
  <2>2. s = << >>
    BY <2>1
  <2>3. r \o << >> = r
    BY <1>1, ConcatEmptySeq
  <2>4. QED BY <2>2, <2>3 DEF Rebased
<1>3. ASSUME p = Front(q), Rebased(q, p, r) \in Path
      PROVE  Front(Rebased(q, p, r)) = r
  <2>1. Len(p) = 1 /\ Len(q) = 2
    BY <1>3, FrontFacts, Lengths
  <2>2. s \in Seq(Dir \cup Leaf) /\ Len(s) = 1
    BY <1>1, <2>1
  <2>. DEFINE b == r \o s
  <2>3. b \in Path /\ b = Rebased(q, p, r)
    BY <1>3 DEF Rebased
  <2>. HIDE DEF s
  <2>4. /\ Len(b) = Len(r) + Len(s) /\ b \in Seq(Dir \cup Leaf)
        /\ \A n \in 1 .. Len(r) + Len(s) : b[n] = IF n <= Len(r) THEN r[n] ELSE s[n - Len(r)]
    BY <1>1, <2>2, ConcatProperties
  <2>. HIDE DEF b
  <2>5. Len(b) = 2 /\ Len(r) = 1
    BY <1>1, <2>2, <2>3, <2>4, Lengths
  <2>6. b[1] = r[1] /\ r = <<r[1]>>
    BY <2>4, <2>5, Lengths
  <2>7. Front(b) = <<b[1]>>
    BY <2>3, <2>5, FrontFacts
  <2>8. QED BY <2>3, <2>6, <2>7
<1>4. QED BY <1>2, <1>3

-----------------------------------------------------------------------------
(* The NAND's files: the inductive invariant.                                *)

Node == {Nothing, Folder} \cup {File(c) : c \in Contents}
Slot == [dev : {"none", "file", "di"}, path : Path \cup {<< >>}, write : BOOLEAN,
         pos : 0 .. MaxLen, ahead : SUBSET Contents, behind : BOOLEAN,
         error : Error \cup {"none"}]

Rooted(tree) == \A p \in Path : tree[p].kind # "none" => IsFolder(tree, Front(p))

\* A file's descriptor, and the tree its file is in.
Backed(f, tree) == f.dev = "file" =>
  /\ f.path \in Path /\ tree[f.path].kind = "file"
  /\ f.behind \/ f.ahead \subseteq {tree[f.path].data}

FsIInv ==
  /\ nand \in [Path -> Node] /\ fds \in [Fd -> Slot]
  /\ Rooted(nand) /\ \A i \in Fd : Backed(fds[i], nand)

LEMMA FsFacts ==
  ASSUME FsIInv
  PROVE  /\ nand \in [Path -> Node] /\ fds \in [Fd -> Slot] /\ Rooted(nand)
         /\ \A i \in Fd : /\ Backed(fds[i], nand) /\ fds[i] \in Slot /\ fds[i].pos \in 0 .. MaxLen
                          /\ fds[i].pos \in Nat /\ fds[i].path \in Path \cup {<< >>}
                          /\ fds[i].behind \in BOOLEAN /\ fds[i].ahead \subseteq Contents
         /\ MaxLen \in Nat \ {0} /\ Tmp \in Dir /\ <<Tmp>> \in Path
<1>1. MaxLen \in Nat \ {0} /\ Tmp \in Dir /\ <<Tmp>> \in Path
  BY IosFilesAssumption DEF Path
<1>2. \A i \in Fd : /\ fds[i] \in Slot /\ fds[i].pos \in 0 .. MaxLen
                    /\ fds[i].pos \in Nat /\ fds[i].path \in Path \cup {<< >>}
                    /\ fds[i].behind \in BOOLEAN /\ fds[i].ahead \subseteq Contents
  BY <1>1 DEF FsIInv, Slot
<1>3. QED BY <1>1, <1>2 DEF FsIInv

\* What a block file holds.
LEMMA ContentsFacts ==
  /\ \A c \in Contents : Len(c) \in 0 .. MaxLen /\ c \in [1 .. Len(c) -> Value]
  /\ << >> \in Contents
<1>1. MaxLen \in Nat \ {0}
  BY IosFilesAssumption
<1>2. ASSUME NEW c \in Contents
      PROVE  Len(c) \in 0 .. MaxLen /\ c \in [1 .. Len(c) -> Value]
  <2>1. PICK n \in 0 .. MaxLen : c \in [1 .. n -> Value]
    BY DEF Contents
  <2>2. c \in Seq(Value) /\ Len(c) = n
    BY <1>1, <2>1
  <2>3. QED BY <2>1, <2>2
<1>3. << >> \in Contents
  <2>1. << >> \in [1 .. 0 -> Value]
    OBVIOUS
  <2>2. 0 \in 0 .. MaxLen
    BY <1>1
  <2>3. QED BY <2>1, <2>2 DEF Contents
<1>4. QED BY <1>2, <1>3

LEMMA NodeFacts ==
  /\ Nothing \in Node /\ Nothing.kind = "none" /\ Folder \in Node /\ Folder.kind = "folder"
  /\ \A c \in Contents : File(c) \in Node /\ File(c).kind = "file" /\ File(c).data = c
  /\ \A n \in Node : n.kind \in {"none", "folder", "file"}
                     /\ (n.kind = "none" => n = Nothing)
                     /\ (n.kind = "file" => n.data \in Contents /\ n = File(n.data))
<1>1. Nothing.kind = "none" /\ Folder.kind = "folder" /\ Nothing \in Node /\ Folder \in Node
  BY DEF Nothing, Folder, Node
<1>2. \A c \in Contents : File(c) \in Node /\ File(c).kind = "file" /\ File(c).data = c
  BY DEF File, Node
<1>3. ASSUME NEW n \in Node
      PROVE  /\ n.kind \in {"none", "folder", "file"} /\ (n.kind = "none" => n = Nothing)
             /\ (n.kind = "file" => n.data \in Contents /\ n = File(n.data))
  <2>1. n = Nothing \/ n = Folder \/ \E c \in Contents : n = File(c)
    BY DEF Node
  <2>2. QED BY <1>1, <1>2, <2>1
<1>4. QED BY <1>1, <1>2, <1>3

\* The inductive invariant has what the runs check.
LEMMA FsImplied == FsIInv => FsInv
<1>. SUFFICES ASSUME FsIInv
              PROVE  FsInv
  OBVIOUS
<1>1. FsTypeOK
  BY FsFacts DEF FsTypeOK, Node, Slot
<1>2. \A p \in Path : exists(p) => IsFolder(nand, Front(p))
  BY FsFacts DEF Rooted, exists
<1>3. \A i \in Fd : fds[i].dev = "file" =>
        /\ nand[fds[i].path].kind = "file"
        /\ fds[i].behind \/ fds[i].ahead \subseteq {Data(i)}
  BY FsFacts DEF Backed, Data
<1>4. QED BY <1>1, <1>2, <1>3 DEF FsInv

-----------------------------------------------------------------------------
(* The NAND's files: steps of a descriptor.                                  *)

LEMMA FdMoves ==
  ASSUME FsIInv, UNCHANGED nand, NEW x, NEW f \in Slot, Backed(f, nand),
         fds' = [fds EXCEPT ![x] = f]
  PROVE  FsIInv'
<1>1. fds' \in [Fd -> Slot] /\ \A i \in Fd : fds'[i] \in {fds[i], f}
  BY FsFacts
<1>2. \A i \in Fd : Backed(fds'[i], nand)
  BY <1>1, FsFacts
<1>3. \A i \in Fd : Backed(fds[i], nand)'
  BY <1>2 DEF Backed
<1>4. nand' \in [Path -> Node] /\ Rooted(nand)'
  BY FsFacts DEF Rooted, IsFolder
<1>5. QED BY <1>1, <1>3, <1>4 DEF FsIInv

LEMMA NoDeviceFacts == NoDevice \in Slot /\ NoDevice.dev = "none"
BY IosFilesAssumption DEF NoDevice, Slot, Error

LEMMA OpenFs ==
  ASSUME FsIInv, OpenDrive \/ \E p \in Path, w \in BOOLEAN : OpenFile(p, w)
  PROVE  FsIInv'
<1>1. CASE OpenDrive
  <2>. DEFINE f == [NoDevice EXCEPT !.dev = "di"]
  <2>1. fds' = [fds EXCEPT ![FirstFree] = f] /\ UNCHANGED nand
    BY <1>1 DEF OpenDrive, Open
  <2>2. f \in Slot /\ f.dev = "di"
    BY NoDeviceFacts DEF Slot
  <2>. HIDE DEF f
  <2>3. Backed(f, nand)
    BY <2>2 DEF Backed
  <2>4. QED BY <2>1, <2>2, <2>3, FdMoves
<1>2. ASSUME NEW p \in Path, NEW w \in BOOLEAN, OpenFile(p, w)
      PROVE  FsIInv'
  <2>. DEFINE f == [NoDevice EXCEPT !.dev = "file", !.path = p, !.write = w]
  <2>1. fds' = [fds EXCEPT ![FirstFree] = f] /\ UNCHANGED nand /\ nand[p].kind = "file"
    BY <1>2 DEF OpenFile, Open
  <2>2. /\ f \in Slot /\ f.dev = "file" /\ f.path = p /\ f.ahead = {}
    <3>1. f \in Slot
      BY NoDeviceFacts DEF Slot
    <3>2. NoDevice.ahead = {}
      BY DEF NoDevice
    <3>3. f.dev = "file" /\ f.path = p /\ f.ahead = NoDevice.ahead
      BY NoDeviceFacts DEF Slot
    <3>4. QED BY <3>1, <3>2, <3>3
  <2>. HIDE DEF f
  <2>3. Backed(f, nand)
    BY <2>1, <2>2 DEF Backed
  <2>4. QED BY <2>1, <2>2, <2>3, FdMoves
<1>3. QED BY <1>1, <1>2

LEMMA DriveFs ==
  ASSUME FsIInv, NEW i \in Fd, Close(i) \/ DriveFails(i) \/ RequestError(i)
  PROVE  FsIInv'
<1>1. CASE Close(i)
  BY <1>1, NoDeviceFacts, FdMoves DEF Close, Backed
<1>2. CASE DriveFails(i) \/ RequestError(i)
  <2>1. PICK e \in Error \cup {"none"} : fds' = [fds EXCEPT ![i].error = e]
    BY <1>2 DEF DriveFails, RequestError
  <2>. DEFINE f == [fds[i] EXCEPT !.error = e]
  <2>2. f \in Slot /\ f.dev = "di"
    BY <1>2, FsFacts DEF DriveFails, RequestError, Slot
  <2>3. fds' = [fds EXCEPT ![i] = f] /\ UNCHANGED nand
    BY <1>2, <2>1, FsFacts DEF DriveFails, RequestError
  <2>. HIDE DEF f
  <2>4. Backed(f, nand)
    BY <2>2 DEF Backed
  <2>5. QED BY <2>2, <2>3, <2>4, FdMoves
<1>3. QED BY <1>1, <1>2

LEMMA SlotUpdate ==
  ASSUME NEW s \in Slot, NEW a \in SUBSET Contents
  PROVE  /\ [s EXCEPT !.ahead = a, !.behind = FALSE] \in Slot
         /\ [s EXCEPT !.ahead = a, !.behind = FALSE].ahead = a
         /\ [s EXCEPT !.ahead = a, !.behind = FALSE].dev = s.dev
         /\ [s EXCEPT !.ahead = a, !.behind = FALSE].path = s.path
         /\ [s EXCEPT !.ahead = a, !.behind = FALSE].pos = s.pos
BY DEF Slot

\* The file behind a descriptor.
LEMMA DataFacts ==
  ASSUME FsIInv, NEW i \in Fd, fds[i].dev = "file"
  PROVE  /\ fds[i].path \in Path /\ nand[fds[i].path].kind = "file"
         /\ Data(i) = nand[fds[i].path].data
         /\ Data(i) \in Contents /\ Len(Data(i)) \in Nat /\ Len(Data(i)) <= MaxLen
         /\ fds[i].behind \/ fds[i].ahead \subseteq {Data(i)}
         /\ \A c \in fds[i].ahead : Len(c) \in Nat /\ Len(c) <= MaxLen
<1>1. /\ fds[i].path \in Path /\ nand[fds[i].path].kind = "file"
      /\ Data(i) = nand[fds[i].path].data
      /\ fds[i].behind \/ fds[i].ahead \subseteq {Data(i)}
  BY FsFacts DEF Backed, Data
<1>2. Data(i) \in Contents
  BY <1>1, FsFacts, NodeFacts
<1>3. QED BY <1>1, <1>2, FsFacts, ContentsFacts

LEMMA ReadFs ==
  ASSUME FsIInv, NEW i \in Fd, NandRead(i)
  PROVE  FsIInv'
<1>1. fds[i].dev = "file" /\ UNCHANGED nand /\ fds[i] \in Slot
  BY FsFacts DEF NandRead
<1>. DEFINE d == Data(i)
            had == \E c \in fds[i].ahead : fds[i].pos < Len(c)
            n == IF had \/ fds[i].pos < Len(d) THEN fds[i].pos + 1 ELSE fds[i].pos
            f == IF had THEN [fds[i] EXCEPT !.pos = n]
                 ELSE [fds[i] EXCEPT !.ahead = {d}, !.behind = FALSE, !.pos = n]
<1>2. fds' = [fds EXCEPT ![i] = f]
  <2>1. CASE had
    BY <2>1 DEF NandRead
  <2>2. CASE ~had
    BY <2>2 DEF NandRead
  <2>3. QED BY <2>1, <2>2
<1>3. n \in 0 .. MaxLen
  BY <1>1, DataFacts, FsFacts
<1>4. d \in Contents
  BY <1>1, DataFacts
<1>5. /\ d = nand[fds[i].path].data /\ nand[fds[i].path].kind = "file" /\ fds[i].path \in Path
      /\ fds[i].behind \/ fds[i].ahead \subseteq {d}
  BY <1>1, DataFacts
<1>6. f \in Slot /\ Backed(f, nand)
  <2>. HIDE DEF n, d
  <2>1. CASE had
    BY <1>1, <1>3, <1>5, <2>1 DEF Slot, Backed
  <2>2. CASE ~had
    <3>1. PICK a \in SUBSET Contents : a = {d}
      BY <1>4
    <3>. DEFINE g == [fds[i] EXCEPT !.ahead = a, !.behind = FALSE]
    <3>2. g \in Slot /\ g.ahead = a /\ g.dev = "file" /\ g.path = fds[i].path
      BY <1>1, SlotUpdate
    <3>3. f = [g EXCEPT !.pos = n]
      BY <1>1, <2>2, <3>1 DEF Slot
    <3>. HIDE DEF g, f
    <3>4. f \in Slot /\ f.ahead = {d} /\ f.dev = "file" /\ f.path = fds[i].path /\ f.pos = n
      BY <1>3, <3>1, <3>2, <3>3 DEF Slot
    <3>5. QED BY <1>3, <1>5, <3>4 DEF Backed
  <2>3. QED BY <2>1, <2>2
<1>. HIDE DEF f
<1>7. QED BY <1>1, <1>2, <1>6, FdMoves

LEMMA SeekFs ==
  ASSUME FsIInv, NEW i \in Fd, NEW to \in 0 .. MaxLen, NandSeek(i, to)
  PROVE  FsIInv'
<1>1. fds[i].dev = "file" /\ UNCHANGED nand /\ fds[i] \in Slot
  BY FsFacts DEF NandSeek
<1>2. PICK g \in {fds[i], [fds[i] EXCEPT !.ahead = {}, !.behind = FALSE]} :
        fds' = [fds EXCEPT ![i] = [g EXCEPT !.pos = to]]
  BY DEF NandSeek
<1>. DEFINE f == [g EXCEPT !.pos = to]
<1>3. /\ g \in Slot /\ g.dev = "file" /\ g.path = fds[i].path
      /\ \/ g.ahead = {}
         \/ g.ahead = fds[i].ahead /\ g.behind = fds[i].behind
  <2>1. CASE g = fds[i]
    BY <1>1, <2>1
  <2>2. CASE g = [fds[i] EXCEPT !.ahead = {}, !.behind = FALSE]
    <3>1. PICK a \in SUBSET Contents : a = {}
      OBVIOUS
    <3>. DEFINE h == [fds[i] EXCEPT !.ahead = a, !.behind = FALSE]
    <3>2. h \in Slot /\ h.ahead = a /\ h.dev = fds[i].dev /\ h.path = fds[i].path
      BY <1>1, SlotUpdate
    <3>3. g = h
      BY <2>2, <3>1
    <3>. HIDE DEF h
    <3>4. QED BY <1>1, <3>1, <3>2, <3>3
  <2>3. QED BY <1>2, <2>1, <2>2
<1>4. f \in Slot /\ f.dev = "file" /\ f.path = g.path /\ f.pos = to /\ f.ahead = g.ahead
      /\ f.behind = g.behind
  BY <1>3 DEF Slot
<1>. HIDE DEF f
<1>5. Backed(f, nand)
  BY <1>1, <1>3, <1>4, DataFacts DEF Backed
<1>6. fds' = [fds EXCEPT ![i] = f]
  BY <1>2 DEF f
<1>7. QED BY <1>1, <1>4, <1>5, <1>6, FdMoves

-----------------------------------------------------------------------------
(* The NAND's files: a write.                                                *)

LEMMA WrittenFacts ==
  ASSUME FsIInv, NEW i \in Fd, NEW v \in Value, fds[i].dev = "file", fds[i].pos < MaxLen
  PROVE  Written(i, v) \in Contents
<1>. DEFINE d == Data(i)
            n == fds[i].pos + 1
            m == IF n > Len(d) THEN n ELSE Len(d)
            w == [k \in 1 .. m |->
                    IF k = n THEN v ELSE IF k <= Len(d) THEN d[k] ELSE Zero]
<1>1. d \in Contents /\ Len(d) \in 0 .. MaxLen /\ d \in [1 .. Len(d) -> Value]
      /\ fds[i].pos \in Nat /\ MaxLen \in Nat /\ Zero \in Value
  BY DataFacts, ContentsFacts, FsFacts, IosFilesAssumption
<1>2. m \in 0 .. MaxLen
  BY <1>1
<1>3. w = Written(i, v)
  BY DEF Written
<1>. HIDE DEF d, n, m
<1>4. \A k \in 1 .. m : k <= Len(d) => d[k] \in Value
  BY <1>1, <1>2
<1>5. w \in [1 .. m -> Value]
  BY <1>1, <1>4
<1>. HIDE DEF w
<1>6. QED BY <1>2, <1>3, <1>5 DEF Contents

LEMMA WriteFs ==
  ASSUME FsIInv, NEW i \in Fd, NEW v \in Value, NandWrite(i, v)
  PROVE  FsIInv'
<1>. DEFINE p == fds[i].path
            w == Written(i, v)
<1>1. /\ fds[i].dev = "file" /\ fds[i].pos < MaxLen /\ fds[i] \in Slot
      /\ nand' = [nand EXCEPT ![p] = File(w)]
      /\ fds' = [j \in Fd |->
                  IF j = i THEN [fds[i] EXCEPT !.pos = @ + 1, !.ahead = {}, !.behind = FALSE]
                  ELSE [fds[j] EXCEPT !.behind = @ \/ (/\ fds[j].path = fds[i].path
                                                       /\ fds[j].ahead # {})]]
  BY FsFacts DEF NandWrite
<1>2. w \in Contents /\ fds[i].pos + 1 \in 0 .. MaxLen
  BY <1>1, WrittenFacts, FsFacts
<1>3. p \in Path /\ nand[p].kind = "file"
  BY <1>1, DataFacts
<1>. DEFINE node == File(w)
<1>4. node \in Node /\ node.kind = "file" /\ node.data = w
  BY <1>2, NodeFacts
<1>. HIDE DEF node, w, p
<1>5. nand' = [nand EXCEPT ![p] = node]
  BY <1>1 DEF node
<1>6. /\ nand' \in [Path -> Node] /\ nand'[p] = node
      /\ \A q \in Path : q # p => nand'[q] = nand[q]
      /\ \A q \in Path : nand'[q].kind = nand[q].kind
  BY <1>3, <1>4, <1>5, FsFacts
<1>7. Rooted(nand')
  BY <1>6, FsFacts, FrontFacts DEF Rooted, IsFolder
<1>8. ASSUME NEW j \in Fd
      PROVE  fds'[j] \in Slot /\ Backed(fds'[j], nand')
  <2>1. CASE j = i
    <3>1. PICK a \in SUBSET Contents : a = {}
      OBVIOUS
    <3>2. PICK n \in 0 .. MaxLen : n = fds[i].pos + 1
      BY <1>2
    <3>. DEFINE g == [fds[i] EXCEPT !.ahead = a, !.behind = FALSE]
    <3>3. g \in Slot /\ g.ahead = a /\ g.dev = "file" /\ g.path = p
      BY <1>1, SlotUpdate DEF p
    <3>4. fds'[j] = [g EXCEPT !.pos = n]
      BY <1>1, <2>1, <3>1, <3>2 DEF Slot
    <3>. HIDE DEF g
    <3>5. fds'[j] \in Slot /\ fds'[j].ahead = {} /\ fds'[j].path = p /\ fds'[j].pos = n
      BY <3>1, <3>3, <3>4 DEF Slot
    <3>6. QED BY <1>2, <1>3, <1>4, <1>6, <3>2, <3>5 DEF Backed
  <2>2. CASE j # i
    <3>1. PICK b \in BOOLEAN : b = (fds[j].behind \/ (fds[j].path = p /\ fds[j].ahead # {}))
      OBVIOUS
    <3>2. fds'[j] = [fds[j] EXCEPT !.behind = b]
      BY <1>1, <2>2, <3>1 DEF p
    <3>3. /\ fds'[j] \in Slot /\ fds'[j].dev = fds[j].dev /\ fds'[j].path = fds[j].path
          /\ fds'[j].pos = fds[j].pos /\ fds'[j].ahead = fds[j].ahead /\ fds'[j].behind = b
      BY <3>2, FsFacts DEF Slot
    <3>4. CASE fds[j].dev # "file"
      BY <3>3, <3>4 DEF Backed
    <3>5. CASE fds[j].dev = "file" /\ fds[j].path # p
      <4>1. nand'[fds[j].path] = nand[fds[j].path] /\ Backed(fds[j], nand)
        BY <1>6, <3>5, DataFacts, FsFacts
      <4>2. b = fds[j].behind
        BY <3>1, <3>5, FsFacts
      <4>3. QED BY <3>3, <4>1, <4>2 DEF Backed
    <3>6. CASE fds[j].dev = "file" /\ fds[j].path = p
      <4>1. b \/ fds[j].ahead = {}
        BY <3>1, <3>6
      <4>2. nand'[p] = node
        BY <1>6
      <4>3. QED BY <1>3, <1>4, <3>3, <3>6, <4>1, <4>2 DEF Backed
    <3>7. QED BY <3>4, <3>5, <3>6
  <2>3. QED BY <2>1, <2>2
<1>9. fds' \in [Fd -> Slot]
  BY <1>1, <1>8
<1>10. QED BY <1>6, <1>7, <1>8, <1>9 DEF FsIInv

-----------------------------------------------------------------------------
(* The NAND's files: steps of the tree.                                      *)

LEMMA TreeMoves ==
  ASSUME FsIInv, UNCHANGED fds, nand' \in [Path -> Node], Rooted(nand'),
         \A i \in Fd : fds[i].dev = "file" => nand'[fds[i].path] = nand[fds[i].path]
  PROVE  FsIInv'
<1>1. \A i \in Fd : Backed(fds[i], nand')
  BY FsFacts DEF Backed
<1>2. QED BY <1>1, FsFacts DEF FsIInv

LEMMA BelowFacts ==
  ASSUME NEW p \in Path
  PROVE  /\ \A q : q \in Below(p) <=>
              q \in Path /\ (q = p \/ Front(q) = p) /\ nand[q].kind # "none"
         /\ \A q \in Path : IsPrefix(p, q) <=> q = p \/ Front(q) = p
BY PrefixFacts DEF Below, exists

\* What remove_all takes away: what lies at or below p and is not open, and with a
\* folder what is in it.
LEMMA GoneFacts ==
  ASSUME FsIInv, NEW p \in Path, NEW gone \in RemoveAll(p)
  PROVE  /\ \A q \in gone : q \in Path /\ (q = p \/ Front(q) = p)
         /\ \A q \in gone, r \in Path : Front(r) = q /\ nand[r].kind # "none" => r \in gone
         /\ \A i \in Fd : fds[i].dev = "file" => fds[i].path \notin gone
<1>1. CASE ~InUse(p)
  <2>1. gone = Below(p)
    BY <1>1 DEF RemoveAll
  <2>2. \A q \in gone : q \in Path /\ (q = p \/ Front(q) = p) /\ ~Opened(q)
    BY <1>1, <2>1, BelowFacts DEF InUse
  <2>3. ASSUME NEW q \in gone, NEW r \in Path, Front(r) = q, nand[r].kind # "none"
        PROVE  r \in gone
    <3>1. Front(q) # p
      BY <2>2, <2>3, TwoLevels, Lengths
    <3>2. QED BY <2>1, <2>2, <2>3, <3>1, BelowFacts
  <2>4. QED BY <2>2, <2>3 DEF Opened
<1>2. CASE InUse(p)
  <2>1. /\ gone \subseteq {q \in Below(p) : ~Opened(q)}
        /\ \A q \in gone : Below(q) \subseteq gone
    BY <1>2 DEF RemoveAll
  <2>2. \A q \in gone : q \in Path /\ (q = p \/ Front(q) = p) /\ ~Opened(q)
    BY <2>1, BelowFacts
  <2>3. ASSUME NEW q \in gone, NEW r \in Path, Front(r) = q, nand[r].kind # "none"
        PROVE  r \in gone
    BY <2>1, <2>2, <2>3, BelowFacts
  <2>4. QED BY <2>2, <2>3 DEF Opened
<1>3. QED BY <1>1, <1>2

LEMMA WithoutFacts ==
  ASSUME FsIInv, NEW p \in Path, NEW gone \in RemoveAll(p)
  PROVE  /\ Without(gone) \in [Path -> Node] /\ Rooted(Without(gone))
         /\ \A q \in Path : Without(gone)[q] = IF q \in gone THEN Nothing ELSE nand[q]
         /\ \A i \in Fd : fds[i].dev = "file" =>
              Without(gone)[fds[i].path] = nand[fds[i].path]
<1>. DEFINE tree == Without(gone)
<1>1. tree \in [Path -> Node] /\ \A q \in Path : tree[q] = IF q \in gone THEN Nothing ELSE nand[q]
  BY FsFacts, NodeFacts DEF Without
<1>. HIDE DEF tree
<1>2. ASSUME NEW q \in Path, tree[q].kind # "none"
      PROVE  IsFolder(tree, Front(q))
  <2>1. q \notin gone /\ nand[q].kind # "none"
    BY <1>1, <1>2, NodeFacts
  <2>2. IsFolder(nand, Front(q))
    BY <2>1, FsFacts DEF Rooted
  <2>3. Front(q) \notin gone
    BY <2>1, GoneFacts
  <2>4. Front(q) \in Path \cup {<< >>}
    BY FrontFacts
  <2>5. QED BY <1>1, <2>2, <2>3, <2>4 DEF IsFolder
<1>3. \A i \in Fd : fds[i].dev = "file" => tree[fds[i].path] = nand[fds[i].path]
  BY <1>1, GoneFacts, DataFacts
<1>4. QED BY <1>1, <1>2, <1>3 DEF tree, Rooted

LEMMA DeleteFs ==
  ASSUME FsIInv, NEW p \in Path, Delete(p)
  PROVE  FsIInv'
<1>1. PICK gone \in RemoveAll(p) : nand' = Without(gone)
  BY DEF Delete
<1>2. UNCHANGED fds
  BY DEF Delete
<1>3. QED BY <1>1, <1>2, WithoutFacts, TreeMoves

LEMMA CreateFs ==
  ASSUME FsIInv, NEW p \in Path, Create(p, File(<< >>)) \/ Create(p, Folder)
  PROVE  FsIInv'
<1>1. PICK what \in Node : what.kind # "none" /\ Create(p, what)
  BY NodeFacts, ContentsFacts
<1>2. /\ nand[p].kind = "none" /\ IsFolder(nand, Front(p))
      /\ nand' = [nand EXCEPT ![p] = what] /\ UNCHANGED fds
  BY <1>1 DEF Create, exists
<1>3. /\ nand' \in [Path -> Node] /\ nand'[p] = what
      /\ \A q \in Path : q # p => nand'[q] = nand[q]
  BY <1>1, <1>2, FsFacts
<1>4. ASSUME NEW q \in Path, nand'[q].kind # "none"
      PROVE  IsFolder(nand', Front(q))
  <2>1. IsFolder(nand, Front(q))
    BY <1>2, <1>3, <1>4, FsFacts DEF Rooted
  <2>2. Front(q) # p
    BY <1>2, <2>1, Lengths DEF IsFolder
  <2>3. QED BY <1>3, <2>1, <2>2, FrontFacts DEF IsFolder
<1>5. \A i \in Fd : fds[i].dev = "file" => nand'[fds[i].path] = nand[fds[i].path]
  BY <1>2, <1>3, DataFacts
<1>6. QED BY <1>2, <1>3, <1>4, <1>5, TreeMoves DEF Rooted

LEMMA StartFs ==
  ASSUME FsIInv, ios_init
  PROVE  FsIInv'
<1>1. /\ nand' = [q \in Path |-> IF q = <<Tmp>> THEN Folder
                                 ELSE IF IsPrefix(<<Tmp>>, q) THEN Nothing ELSE nand[q]]
      /\ fds' = [i \in Fd |-> NoDevice]
  BY DEF ios_init
<1>2. PICK tmp \in Path : tmp = <<Tmp>>
  BY FsFacts
<1>3. Front(tmp) = << >>
  <2>1. Len(tmp) = 1
    BY <1>2
  <2>2. QED BY <2>1, FrontFacts
<1>4. /\ nand' \in [Path -> Node]
      /\ \A q \in Path : nand'[q] = IF q = tmp THEN Folder
                                    ELSE IF Front(q) = tmp THEN Nothing ELSE nand[q]
  BY <1>1, <1>2, FsFacts, NodeFacts, BelowFacts
<1>5. ASSUME NEW q \in Path, nand'[q].kind # "none"
      PROVE  IsFolder(nand', Front(q))
  <2>1. CASE q = tmp
    BY <1>3, <2>1 DEF IsFolder
  <2>2. CASE q # tmp
    <3>1. Front(q) # tmp /\ nand[q].kind # "none"
      BY <1>4, <1>5, <2>2, NodeFacts
    <3>2. IsFolder(nand, Front(q))
      BY <3>1, FsFacts DEF Rooted
    <3>3. ASSUME Front(q) # << >>
          PROVE  nand'[Front(q)] = nand[Front(q)]
      <4>1. Front(q) \in Path /\ Front(Front(q)) = << >>
        BY <3>3, FrontFacts, TwoLevels
      <4>2. Front(Front(q)) # tmp
        BY <4>1, Lengths
      <4>3. QED BY <1>4, <3>1, <4>1, <4>2
    <3>4. QED BY <3>2, <3>3 DEF IsFolder
  <2>3. QED BY <2>1, <2>2
<1>6. fds' \in [Fd -> Slot] /\ \A i \in Fd : Backed(fds'[i], nand')
  BY <1>1, NoDeviceFacts DEF Backed
<1>7. QED BY <1>4, <1>5, <1>6 DEF FsIInv, Rooted

\* The tree after a rename, where it can be made: what was at or below `from` is
\* at or below `to`, and everything else is where it was.
LEMMA MovedFacts ==
  ASSUME NEW tree \in [Path -> Node], Rooted(tree), NEW from \in Path, NEW to \in Path,
         tree[from].kind # "none", tree[to].kind = "none", IsFolder(tree, Front(to)),
         ~IsPrefix(from, to)
  PROVE  /\ Moved(tree, from, to) \in [Path -> Node] /\ Rooted(Moved(tree, from, to))
         /\ \A q \in Path : tree[q].kind # "none" /\ ~IsPrefix(from, q) =>
              Moved(tree, from, to)[q] = tree[q]
<1>. DEFINE m == Moved(tree, from, to)
<1>1. \A q \in Path : /\ IsPrefix(to, q) <=> q = to \/ Front(q) = to
                      /\ IsPrefix(from, q) <=> q = from \/ Front(q) = from
  BY BelowFacts
<1>2. from # to /\ Front(to) # from
  BY <1>1
<1>3. Front(from) # to
  BY Lengths DEF Rooted, IsFolder
<1>4. \A q \in Path : ~(IsPrefix(to, q) /\ IsPrefix(from, q))
  BY <1>1, <1>2, <1>3
<1>5. ASSUME NEW q \in Path
      PROVE  m[q] = IF IsPrefix(to, q)
                    THEN IF Rebased(q, to, from) \in Path THEN tree[Rebased(q, to, from)] ELSE Nothing
                    ELSE IF IsPrefix(from, q) THEN Nothing ELSE tree[q]
  <2>1. m[q] = CASE IsPrefix(to, q) -> (LET was == Rebased(q, to, from)
                                        IN IF was \in Path THEN tree[was] ELSE Nothing)
                 [] IsPrefix(from, q) -> Nothing
                 [] OTHER -> tree[q]
    BY DEF Moved
  <2>2. CASE IsPrefix(to, q)
    BY <1>4, <2>1, <2>2
  <2>3. CASE ~IsPrefix(to, q)
    BY <2>1, <2>3
  <2>4. QED BY <2>2, <2>3
<1>6. m = [q \in Path |-> m[q]]
  BY DEF Moved
<1>. HIDE DEF m
<1>7. \A q \in Path : m[q] \in Node
  BY <1>5, NodeFacts
<1>8. m \in [Path -> Node]
  BY <1>6, <1>7
<1>9. m[to] = tree[from]
  BY <1>1, <1>5, RebasedFacts
<1>10. \A q \in Path : ~IsPrefix(to, q) /\ ~IsPrefix(from, q) => m[q] = tree[q]
  BY <1>5
<1>11. ASSUME NEW q \in Path, m[q].kind # "none"
       PROVE  IsFolder(m, Front(q))
  <2>1. CASE q = to
    <3>1. ASSUME Front(to) # << >>
          PROVE  m[Front(to)] = tree[Front(to)]
      <4>1. Front(to) \in Path /\ Front(Front(to)) = << >> /\ Front(to) # to
        BY <3>1, FrontFacts, TwoLevels
      <4>2. ~IsPrefix(to, Front(to)) /\ ~IsPrefix(from, Front(to))
        BY <1>1, <1>2, <4>1, Lengths
      <4>3. QED BY <1>10, <4>1, <4>2
    <3>2. QED BY <2>1, <3>1 DEF IsFolder
  <2>2. CASE Front(q) = to
    <3>. DEFINE was == Rebased(q, to, from)
    <3>1. q # to
      BY <2>2, FrontFacts
    <3>2. IsPrefix(to, q)
      BY <1>1, <2>2
    <3>3. was \in Path /\ m[q] = tree[was]
      BY <1>5, <1>11, <3>2, NodeFacts
    <3>4. Front(was) = from
      BY <2>2, <3>3, RebasedFacts
    <3>. HIDE DEF was
    <3>5. IsFolder(tree, from)
      BY <1>11, <3>3, <3>4 DEF Rooted
    <3>6. QED BY <1>9, <2>2, <3>5, Lengths DEF IsFolder
  <2>3. CASE ~IsPrefix(to, q)
    <3>1. ~IsPrefix(from, q) /\ m[q] = tree[q]
      BY <1>5, <1>11, <2>3, NodeFacts
    <3>2. IsFolder(tree, Front(q))
      BY <1>11, <3>1 DEF Rooted
    <3>3. ASSUME Front(q) # << >>
          PROVE  m[Front(q)] = tree[Front(q)]
      <4>1. Front(q) \in Path /\ Front(Front(q)) = << >>
        BY <3>3, FrontFacts, TwoLevels
      <4>2. Front(q) # to /\ Front(q) # from
        BY <1>1, <2>3, <3>1
      <4>3. ~IsPrefix(to, Front(q)) /\ ~IsPrefix(from, Front(q))
        BY <1>1, <4>1, <4>2, Lengths
      <4>4. QED BY <1>10, <4>1, <4>3
    <3>4. QED BY <3>2, <3>3 DEF IsFolder
  <2>4. QED BY <1>1, <2>1, <2>2, <2>3
<1>12. ASSUME NEW q \in Path, tree[q].kind # "none", ~IsPrefix(from, q)
       PROVE  m[q] = tree[q]
  <2>1. Front(q) # to
    BY <1>12, Lengths DEF Rooted, IsFolder
  <2>2. ~IsPrefix(to, q)
    BY <1>1, <1>12, <2>1
  <2>3. QED BY <1>10, <1>12, <2>2
<1>13. QED BY <1>8, <1>11, <1>12 DEF m, Rooted

LEMMA RenameFs ==
  ASSUME FsIInv, NEW from \in Path, NEW to \in Path, Rename(from, to)
  PROVE  FsIInv'
<1>1. PICK gone \in RemoveAll(to) :
        nand' = IF CanMove(Without(gone), from, to)
                THEN Moved(Without(gone), from, to) ELSE Without(gone)
  BY DEF Rename, RenameUnchecked
<1>2. UNCHANGED fds
  BY DEF Rename, RenameUnchecked
<1>3. CASE ~CanMove(Without(gone), from, to)
  BY <1>1, <1>2, <1>3, WithoutFacts, TreeMoves
<1>4. CASE CanMove(Without(gone), from, to)
  <2>1. PICK tree \in [Path -> Node] :
          /\ tree = Without(gone) /\ Rooted(tree)
          /\ \A i \in Fd : fds[i].dev = "file" => tree[fds[i].path] = nand[fds[i].path]
    BY WithoutFacts
  <2>2. /\ tree[from].kind # "none" /\ tree[to].kind = "none" /\ IsFolder(tree, Front(to))
        /\ ~IsPrefix(from, to) /\ ~InUse(from) /\ nand' = Moved(tree, from, to)
    BY <1>1, <1>4, <2>1 DEF CanMove
  <2>3. /\ nand' \in [Path -> Node] /\ Rooted(nand')
        /\ \A q \in Path : tree[q].kind # "none" /\ ~IsPrefix(from, q) => nand'[q] = tree[q]
    BY <2>1, <2>2, MovedFacts
  <2>4. ASSUME NEW i \in Fd, fds[i].dev = "file"
        PROVE  nand'[fds[i].path] = nand[fds[i].path]
    <3>1. fds[i].path \in Path /\ nand[fds[i].path].kind = "file"
      BY <2>4, DataFacts
    <3>2. ~IsPrefix(from, fds[i].path)
      <4>1. Opened(fds[i].path)
        BY DEF Opened
      <4>2. fds[i].path \notin Below(from)
        BY <2>2, <4>1 DEF InUse
      <4>3. QED BY <3>1, <4>2, BelowFacts
    <3>3. QED BY <2>1, <2>3, <2>4, <3>1, <3>2
  <2>5. QED BY <1>2, <2>3, <2>4, TreeMoves
<1>5. QED BY <1>3, <1>4

LEMMA FsStart == FsInit => FsIInv
<1>. SUFFICES ASSUME FsInit
              PROVE  FsIInv
  OBVIOUS
<1>1. /\ nand = [q \in Path |-> IF q = <<Tmp>> THEN Folder ELSE Nothing]
      /\ fds = [i \in Fd |-> NoDevice]
  BY DEF FsInit
<1>2. nand \in [Path -> Node]
  BY <1>1, NodeFacts
<1>3. fds \in [Fd -> Slot] /\ \A i \in Fd : Backed(fds[i], nand)
  BY <1>1, NoDeviceFacts DEF Backed
<1>4. ASSUME NEW q \in Path, nand[q].kind # "none"
      PROVE  IsFolder(nand, Front(q))
  <2>1. q = <<Tmp>>
    BY <1>1, <1>4, NodeFacts
  <2>2. Len(q) = 1
    BY <2>1
  <2>3. QED BY <2>2, FrontFacts DEF IsFolder
<1>5. QED BY <1>2, <1>3, <1>4 DEF FsIInv, Rooted

LEMMA FsStep == FsIInv /\ [FsNext]_fsVars => FsIInv'
<1>. SUFFICES ASSUME FsIInv, [FsNext]_fsVars
              PROVE  FsIInv'
  OBVIOUS
<1>1. CASE OpenDrive \/ \E p \in Path, w \in BOOLEAN : OpenFile(p, w)
  BY <1>1, OpenFs
<1>2. ASSUME NEW p \in Path, Create(p, File(<< >>)) \/ Create(p, Folder) \/ Delete(p)
      PROVE  FsIInv'
  BY <1>2, CreateFs, DeleteFs
<1>3. ASSUME NEW p \in Path, NEW q \in Path, Rename(p, q)
      PROVE  FsIInv'
  BY <1>3, RenameFs
<1>4. ASSUME NEW i \in Fd,
             \/ Close(i) \/ NandRead(i) \/ DriveFails(i) \/ RequestError(i)
             \/ \E v \in Value : NandWrite(i, v)
             \/ \E to \in 0 .. MaxLen : NandSeek(i, to)
      PROVE  FsIInv'
  BY <1>4, DriveFs, ReadFs, WriteFs, SeekFs
<1>5. CASE ios_init
  BY <1>5, StartFs
<1>6. CASE UNCHANGED fsVars
  <2>1. UNCHANGED <<nand, fds>>
    BY <1>6 DEF fsVars
  <2>2. QED BY <2>1, FsFacts, TreeMoves
<1>7. QED BY <1>1, <1>2, <1>3, <1>4, <1>5, <1>6 DEF FsNext

\* For any names, sizes and number of descriptors: what there is lies in a folder
\* that is there, an open file is there whatever is deleted and renamed, and what
\* stdio read ahead is in the file unless another descriptor wrote it since.
THEOREM FilesInvariant == FsSpec => []FsInv
<1>1. FsSpec => []FsIInv
  BY FsStart, FsStep, PTL DEF FsSpec
<1>2. QED BY <1>1, FsImplied, PTL

\* Where a rename removes the target, it can also move the source: what makes it
\* fail after the removal is only an overlap of the two or an open file.
LEMMA RenameAll ==
  ASSUME FsIInv, NEW from \in Path, NEW to \in Path, Rename(from, to), nand' # nand,
         ~IsPrefix(from, to), ~IsPrefix(to, from), ~InUse(from), ~InUse(to)
  PROVE  nand' = Moved(nand, from, to)
<1>. DEFINE gone == Below(to)
<1>1. PICK tree \in [Path -> Node] :
        /\ tree = Without(gone)
        /\ \A q \in Path : tree[q] = IF q \in gone THEN Nothing ELSE nand[q]
        /\ nand' = IF CanMove(tree, from, to) THEN Moved(tree, from, to) ELSE tree
  <2>1. RemoveAll(to) = {gone}
    BY DEF RemoveAll
  <2>2. nand' = IF CanMove(Without(gone), from, to)
                THEN Moved(Without(gone), from, to) ELSE Without(gone)
    BY <2>1 DEF Rename, RenameUnchecked
  <2>. HIDE DEF gone
  <2>3. gone \in RemoveAll(to)
    BY <2>1
  <2>4. QED BY <2>2, <2>3, WithoutFacts
<1>2. \A q : q \in gone <=> q \in Path /\ (q = to \/ Front(q) = to) /\ nand[q].kind # "none"
  BY BelowFacts
<1>3. nand[from].kind # "none"
  BY DEF Rename, exists
<1>. HIDE DEF gone
<1>4. from # to /\ Front(to) # from /\ Front(from) # to
  BY BelowFacts
<1>5. CASE nand[to].kind = "none"
  <2>1. ASSUME NEW q \in Path
        PROVE  q \notin gone
    <3>1. Front(q) = to => nand[q].kind = "none"
      BY <1>5, FsFacts, Lengths DEF Rooted, IsFolder
    <3>2. QED BY <1>2, <1>5, <3>1
  <2>2. \A q \in Path : tree[q] = nand[q]
    BY <1>1, <2>1
  <2>3. tree = nand
    BY <2>2, FsFacts
  <2>4. QED BY <1>1, <2>3
<1>6. CASE nand[to].kind # "none"
  <2>1. CanMove(tree, from, to)
    <3>1. tree[from] = nand[from]
      BY <1>1, <1>2, <1>4
    <3>2. tree[to].kind = "none"
      BY <1>1, <1>2, <1>6, NodeFacts
    <3>3. IsFolder(nand, Front(to))
      BY <1>6, FsFacts DEF Rooted
    <3>4. ASSUME Front(to) # << >>
          PROVE  tree[Front(to)] = nand[Front(to)]
      <4>1. Front(to) \in Path /\ Front(Front(to)) = << >> /\ Front(to) # to
        BY <3>4, FrontFacts, TwoLevels
      <4>2. Front(to) \notin gone
        BY <1>2, <4>1, Lengths
      <4>3. QED BY <1>1, <4>1, <4>2
    <3>5. IsFolder(tree, Front(to))
      BY <3>3, <3>4 DEF IsFolder
    <3>6. QED BY <1>3, <3>1, <3>2, <3>5 DEF CanMove
  <2>. DEFINE a == Moved(tree, from, to)
              b == Moved(nand, from, to)
  <2>2. ASSUME NEW q \in Path
        PROVE  a[q] = b[q]
    <3>. DEFINE was == Rebased(q, to, from)
    <3>1. /\ a[q] = CASE IsPrefix(to, q) -> (IF was \in Path THEN tree[was] ELSE Nothing)
                      [] IsPrefix(from, q) -> Nothing
                      [] OTHER -> tree[q]
          /\ b[q] = CASE IsPrefix(to, q) -> (IF was \in Path THEN nand[was] ELSE Nothing)
                      [] IsPrefix(from, q) -> Nothing
                      [] OTHER -> nand[q]
      BY DEF Moved
    <3>2. IsPrefix(to, q) <=> q = to \/ Front(q) = to
      BY BelowFacts
    <3>3. IsPrefix(to, q) /\ was \in Path => was = from \/ Front(was) = from
      BY <3>2, RebasedFacts
    <3>. HIDE DEF was, a, b
    <3>4. IsPrefix(to, q) /\ was \in Path => was \notin gone
      BY <1>2, <1>4, <3>3
    <3>5. IsPrefix(to, q) /\ was \in Path => tree[was] = nand[was]
      BY <1>1, <3>4
    <3>6. ~IsPrefix(to, q) => tree[q] = nand[q]
      BY <1>1, <1>2, <3>2
    <3>7. IsPrefix(to, q) => ~IsPrefix(from, q)
      <4>1. IsPrefix(from, q) <=> q = from \/ Front(q) = from
        BY BelowFacts
      <4>2. QED BY <1>4, <3>2, <4>1
    <3>8. CASE IsPrefix(to, q)
      BY <3>1, <3>5, <3>7, <3>8
    <3>9. CASE ~IsPrefix(to, q)
      BY <3>1, <3>6, <3>9
    <3>10. QED BY <3>8, <3>9
  <2>3. a = [q \in Path |-> a[q]] /\ b = [q \in Path |-> b[q]]
    BY DEF Moved
  <2>. HIDE DEF a, b
  <2>4. a = b
    BY <2>2, <2>3
  <2>5. QED BY <1>1, <2>1, <2>4 DEF a, b
<1>7. QED BY <1>5, <1>6

\* A rename moves the whole of what it names or leaves everything as it was, for
\* any tree, unless the two overlap or a file below either is open.
THEOREM RenameAllOrNothing == FsSpec => AllOrNothing
<1>1. FsIInv /\ [FsNext]_fsVars =>
        [nand' # nand => \A from, to \in Path :
           /\ Rename(from, to)
           /\ ~IsPrefix(from, to) /\ ~IsPrefix(to, from) /\ ~InUse(from) /\ ~InUse(to)
           => exists(from) /\ nand' = Moved(nand, from, to)]_fsVars
  BY RenameAll DEF Rename
<1>2. FsSpec => []FsIInv
  BY FsStart, FsStep, PTL DEF FsSpec
<1>3. QED BY <1>1, <1>2, PTL DEF FsSpec, AllOrNothing
=============================================================================
