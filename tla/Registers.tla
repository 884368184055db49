------------------------------ MODULE Registers ------------------------------
(* The devices' registers (hw.cpp, PE's in gx.cpp) as far as their interrupts *)
(* go: status bits a device sets and the guest clears by writing 1, enable    *)
(* bits beside them, the PI's cause and mask above, and os_raise(), which     *)
(* tells the guest's next poll to look.  A line is a function of registers,   *)
(* so every step that may bring one up has to raise.                          *)
(*                                                                            *)
(* Widths, addresses and the bits with no part in an interrupt are left out;  *)
(* the CP's registers are CpFifo's, the IPC mailbox is IosIpc's.              *)
EXTENDS Naturals, FiniteSets

CONSTANTS
    Port,       \* the SI's ports (4)
    Device      \* bound: the devices a behaviour may drive, one of them each

ASSUME RegistersAssumption ==
    Device \subseteq {"VI", "PE", "DSP", "EXI", "DI", "SI", "IPC"}

VARIABLES
    used,       \* the device this behaviour drives
    st,         \* its interrupt status bits
    en,         \* its interrupt enable bits
    mask,       \* the PI's mask lets its line through
    pending,    \* g_ppc_pending
    looking,    \* ppc_poll has cleared it and not looked yet
    arBusy,     \* an ARAM DMA runs
    di,         \* the disc drive: command register, TSTART, busy, effect
    cursor,     \* the IPL chip's byte in its transaction; selected
    selected,
    pads,       \* ports the host has a pad for
    poll,       \* SIPOLL's ports
    rdst        \* SISR: answers not read

line == <<st, en, mask, pending, looking>>
si == <<pads, poll, rdst>>
rest == <<arBusy, di, cursor, selected, si>>
regVars == <<used, line, rest>>

(* The interrupts a device has in its registers.                             *)
Source(d) ==
    CASE d = "VI" -> {"DI0", "DI1"}
      [] d = "PE" -> {"token", "finish"}
      [] d = "DSP" -> {"AID", "AR", "DSP"}
      [] d = "SI" -> {"TC", "RD"}
      [] OTHER -> {"TC"}

DiCommand == {"read", "inquiry", "other"}
CommandBytes == 4

RegTypeOK ==
    /\ used \in Device
    /\ st \subseteq Source(used) /\ en \subseteq Source(used)
    /\ mask \in BOOLEAN /\ pending \in BOOLEAN /\ looking \in BOOLEAN
    /\ arBusy \in BOOLEAN /\ selected \in BOOLEAN
    /\ di \in [cmd : DiCommand, tstart : BOOLEAN, busy : BOOLEAN,
               did : DiCommand \cup {"nothing"}]
    /\ cursor \in 0 .. CommandBytes + 1
    /\ pads \subseteq Port /\ poll \subseteq Port /\ rdst \subseteq Port

(* hw_vi_preset: a PAL console's IPL leaves VI running, its interrupts on.   *)
RegInit ==
    /\ used \in Device /\ st = {}
    /\ en \in IF used = "VI" THEN {{}, Source("VI")} ELSE {{}}
    /\ mask = FALSE /\ pending = FALSE /\ looking = FALSE /\ arBusy = FALSE
    /\ di = [cmd |-> "other", tstart |-> FALSE, busy |-> FALSE, did |-> "nothing"]
    /\ cursor = 0 /\ selected = FALSE
    /\ pads \in SUBSET Port /\ poll = {} /\ rdst = {}

Irq == st \cap en # {}
pi_cause == Irq /\ mask

(* os_raise() after a register write: of these devices.                      *)
RaisesAllButDi == used \in {"DSP", "EXI", "SI", "IPC"}   \* mutant: DI forgotten
Raises == used \in {"DSP", "EXI", "DI", "SI", "IPC"}

Write(s, e) ==
    /\ st' = s /\ en' = e /\ pending' = (pending \/ Raises)
    /\ UNCHANGED <<used, mask, looking>>

Signal(s) ==                  \* a device's own step
    /\ st' = st \cup s /\ pending' = TRUE
    /\ UNCHANGED <<used, en, mask, looking>>

-----------------------------------------------------------------------------
(* What all of them have: the mask, status and enable bits, and the poll.    *)

WriteMask ==
    /\ mask' \in BOOLEAN /\ pending' = TRUE
    /\ UNCHANGED <<used, st, en, looking, rest>>

Cleared(clear) == \E e \in SUBSET Source(used) : Write(st \ clear, e)

WriteStatus == \E clear \in SUBSET st : Cleared(clear) /\ UNCHANGED rest

PollClears ==
    /\ ~looking /\ pending /\ looking' = TRUE /\ pending' = FALSE
    /\ UNCHANGED <<used, st, en, mask, rest>>
PollLooks ==
    /\ looking /\ looking' = FALSE /\ pending' = (pending \/ pi_cause)
    /\ UNCHANGED <<used, st, en, mask, rest>>

-----------------------------------------------------------------------------
(* VI, PE, IPC and the DSP: what sets their status.                          *)

(* An answer of each polled port, at a retrace of a GameCube game.           *)
SiPolls ==
    /\ rdst' = rdst \cup (poll \cap pads)
    /\ st' = IF poll \cap pads # {} THEN st \cup {"RD"} ELSE st

hw_vi_retrace ==
    /\ \/ used = "VI" /\ st' = st \cup en /\ UNCHANGED rest
       \/ used = "SI" /\ poll # {} /\ SiPolls
          /\ UNCHANGED <<arBusy, di, cursor, selected, pads, poll>>
    /\ UNCHANGED <<used, en, mask, looking>>
    /\ pending' = (pending \/ (used = "VI" /\ en # {}) \/ Irq')

Event ==
    /\ \/ used = "PE" /\ \E s \in Source("PE") : Signal({s})
       \/ used = "IPC" /\ Signal({"TC"})
       \/ used = "DSP" /\ Signal({"AID"})
    /\ UNCHANGED rest

(* A mail that the DSP answers with an interrupt, before the write returns.  *)
Mail == used = "DSP" /\ Write(st \cup {"DSP"}, en) /\ UNCHANGED rest

(* The count's low half starts an ARAM DMA; one that runs has its end moved. *)
StartAram ==
    /\ used = "DSP" /\ Write(st, en) /\ arBusy' = TRUE
    /\ UNCHANGED <<di, cursor, selected, si>>

dsp_write == Mail \/ StartAram

ar_tick ==
    /\ arBusy /\ arBusy' = FALSE /\ Signal({"AR"})
    /\ UNCHANGED <<di, cursor, selected, si>>

-----------------------------------------------------------------------------
(* EXI: the IPL chip takes a command's bytes, then data, until deselected; a *)
(* transfer is over before the write that starts it returns.                 *)

WriteCsr ==                   \* status, enable, and the chip's selection
    /\ used = "EXI" /\ \E clear \in SUBSET st : Cleared(clear)
    /\ selected' \in BOOLEAN
    /\ cursor' = IF selected /\ ~selected' THEN 0 ELSE cursor
    /\ UNCHANGED <<arBusy, di, si>>

Transfer ==
    /\ used = "EXI" /\ Write(st \cup {"TC"}, en)
    /\ \E n \in 1 .. CommandBytes :
        cursor' = IF ~selected THEN cursor
                  ELSE IF cursor + n <= CommandBytes THEN cursor + n
                  ELSE CommandBytes + 1
    /\ UNCHANGED <<arBusy, di, selected, si>>

-----------------------------------------------------------------------------
(* DI: a command takes its time, and reads its registers when it ends.       *)

WriteCommand ==
    /\ used = "DI" /\ Write(st, en)
    /\ \/ \E c \in DiCommand : di' = [di EXCEPT !.cmd = c]
       \/ \E start \in BOOLEAN :
            di' = [di EXCEPT !.tstart = start, !.busy = @ \/ start]
    /\ UNCHANGED <<arBusy, cursor, selected, si>>
di_tick ==
    /\ di.busy /\ Signal({"TC"})
    /\ di' = [di EXCEPT !.busy = FALSE, !.tstart = FALSE, !.did = di.cmd]
    /\ UNCHANGED <<arBusy, cursor, selected, si>>

-----------------------------------------------------------------------------
(* SI: a transfer to a port, the ports polled, and an answer's reading.      *)

SiTransfer ==                 \* with no pad there, it ends in an error
    /\ used = "SI"
    /\ \E clear \in SUBSET st, e \in SUBSET Source("SI") :
        Write((st \ clear) \cup {"TC"}, e)
    /\ UNCHANGED rest
SetPoll ==
    /\ used = "SI" /\ Write(st, en) /\ poll' \in SUBSET Port
    /\ UNCHANGED <<arBusy, di, cursor, selected, pads, rdst>>

si_write == SiTransfer \/ SetPoll

AfterRead(left) == IF left = {} THEN st \ {"RD"} ELSE st
ReadAnswer ==
    /\ used = "SI"
    /\ \E p \in Port : rdst' = rdst \ {p}
    /\ st' = AfterRead(rdst')
    /\ UNCHANGED <<used, en, mask, pending, looking, arBusy, di, cursor, selected,
                   pads, poll>>

(* The host's pads come and go.                                              *)
PlugPad ==
    /\ used = "SI" /\ pads' \in SUBSET Port
    /\ UNCHANGED <<used, line, arBusy, di, cursor, selected, poll, rdst>>

RegNext ==
    \/ WriteMask \/ WriteStatus \/ PollClears \/ PollLooks
    \/ hw_vi_retrace \/ Event \/ dsp_write \/ ar_tick
    \/ WriteCsr \/ Transfer \/ WriteCommand \/ di_tick
    \/ si_write \/ ReadAnswer \/ PlugPad

RegSpec == RegInit /\ [][RegNext]_regVars

-----------------------------------------------------------------------------
(* An interrupt line that is up and unmasked is known to the guest's polls:   *)
(* pending, or about to be looked at, whichever register write or device      *)
(* brought it up.  (VI and PE are left out: a write that enables one of their *)
(* interrupts with its status set raises nothing, so that the line is not     *)
(* seen until another device raises one.)                                     *)
LinesTold == pi_cause /\ used \notin {"VI", "PE"} => pending \/ looking

(* The SI's poll interrupt is up only while an answer waits to be read: a    *)
(* handler that has read every port is not called again for them.            *)
PollHonest == "RD" \in st /\ used = "SI" => rdst # {}

RegInv == RegTypeOK /\ PollHonest /\ LinesTold
=============================================================================
