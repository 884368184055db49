----------------------------- MODULE SoundProofs -----------------------------
(* The two halves of sound.                                                   *)
(*                                                                            *)
(* The audio's way out, for boot tasks, waits and queues of any length: its   *)
(* types with the host's queue in its bounds (AudioInv), and that no frame is *)
(* skipped unless a block was given up on (SkipsNoFrame).  Both follow from   *)
(* one inductive invariant, which says how far the guest, the DSP and the     *)
(* clock thread may be from each other.                                       *)
(*                                                                            *)
(* A voice of AX, for runs and frames of any length and any samples whose     *)
(* ends lie in sound: what it reads and where it ends (VoiceInv), and that a  *)
(* queued start takes effect in its millisecond (StartsOnTime).  The argument *)
(* goes from one sample to the next: what the accelerator reckons is what     *)
(* follows in the sample's passes; then the samples of an output, the outputs *)
(* of a run, the milliseconds of a frame and the lists of the program, each   *)
(* a fold whose steps keep what the one before it left.                       *)
EXTENDS AudioPath, Ax, FoldTheorems, SequenceTheorems, TLAPS


Mail == {"ready", "init", "AX up", "mixed"}

LEMMA OneMail ==
    ASSUME NEW x \in Mail
    PROVE  /\ Append(<< >>, x) \in Seq(Mail)
           /\ Len(Append(<< >>, x)) <= 1
           /\ << >> \in Seq(Mail) /\ Len(<< >>) <= 1
OBVIOUS

LEMMA LastMail ==
    ASSUME NEW s \in Seq(Mail), Len(s) <= 1, s # << >>
    PROVE  Tail(s) = << >>
<1>1. \A q \in Seq(Mail) : q # << >> => Len(q) \in Nat \ {0}
    BY EmptySeq
<1>2. Len(s) = 1
    BY <1>1
<1>3. Tail(s) \in Seq(Mail) /\ Len(Tail(s)) = 0
    BY <1>2, HeadTailProperties
<1> QED
    BY <1>1, <1>3

(* The DSP and the SDK's task for it: an answer of AX waits in the mailbox    *)
(* exactly while its interrupt does, and the task is busy until it is taken.  *)
TaskAgrees ==
    /\ task # "none" => ucode = "AX"
    /\ dspInt => ucode = "AX"
    /\ ucode = "AX" /\ ~dspInt => mails = << >>
    /\ task = "idle" => ~dspInt
    /\ task = "busy" => dspInt

(* The handler's place, and what holds as long as every block was waited for: *)
(* none starts inside the handler, nor while the task is busy.                *)
HandlerAgrees == at = "game" <=> ~inHandler
Waited ==
    ~gaveUp =>
        /\ ~skipped /\ at # "nested"
        /\ at \in {"callback", "mixed"} => ~aidInt
        /\ aidInt \/ at \in {"handler", "callback"} => task # "busy"

AudioIInv == AudioInv /\ TaskAgrees /\ HandlerAgrees /\ Waited

-----------------------------------------------------------------------------
LEMMA AudioInitHolds == AudioInit => AudioIInv
<1> SUFFICES ASSUME AudioInit PROVE AudioIInv
    OBVIOUS
<1>1. AudioTypeOK
  <2>1. mails \in Seq(Mail) /\ Len(mails) <= 1
    BY OneMail DEF AudioInit
  <2>2. late \in -Period .. LateMax + Period + 1 /\ waited \in -1 .. Patience
    BY AudioAssumption DEF AudioInit, Period
  <2>3. queued \in 0 .. MaxQueue + Period /\ bootMails \in 0 .. BootLen
    BY AudioAssumption DEF AudioInit, Period
  <2> QED
    BY <2>1, <2>2, <2>3 DEF AudioInit, AudioTypeOK, Mail
<1>2. QueueHeld
    BY AudioAssumption DEF AudioInit, QueueHeld
<1>3. TaskAgrees /\ HandlerAgrees /\ Waited
    BY DEF AudioInit, TaskAgrees, HandlerAgrees, Waited
<1> QED
    BY <1>1, <1>2, <1>3 DEF AudioIInv, AudioInv

(* A block's start, by the game or by the clock: the queue keeps its bounds,  *)
(* and sound queued to the target is heard.                                   *)
LEMMA QueueKept ==
    ASSUME AudioInv, audio_play \/ UNCHANGED host
    PROVE  QueueHeld' /\ queued' \in 0 .. MaxQueue + Period /\ playing' \in BOOLEAN
<1>1. queued \in 0 .. MaxQueue + Period /\ playing \in BOOLEAN /\ QueueHeld
    BY DEF AudioInv, AudioTypeOK
<1>2. CASE UNCHANGED host
    BY <1>1, <1>2 DEF host, QueueHeld
<1>3. CASE audio_play /\ Full
  <2>1. queued' = queued /\ queued > MaxQueue
    BY <1>3 DEF audio_play, Full
  <2>2. queued >= Target /\ queued # 0 /\ playing
    BY <1>1, <2>1, AudioAssumption DEF QueueHeld, Period
  <2>3. playing' = TRUE
    BY <1>3, <2>2 DEF audio_play
  <2> QED
    BY <1>1, <2>1, <2>3 DEF QueueHeld
<1>4. CASE audio_play /\ ~Full
  <2>1. queued' = queued + Period /\ playing' = ((playing /\ queued # 0) \/ Resumes)
    BY <1>4 DEF audio_play
  <2>2. queued' \in 0 .. MaxQueue + Period
    BY <1>1, <1>4, <2>1, AudioAssumption DEF Full, Period
  <2>3. ~Resumes => queued' < Target
    BY <1>1, <2>1, AudioAssumption DEF Resumes, Period
  <2>4. playing' \in BOOLEAN
    BY <2>1
  <2> QED
    BY <2>1, <2>2, <2>3, <2>4 DEF QueueHeld
<1> QED
    BY <1>2, <1>3, <1>4
-----------------------------------------------------------------------------
(* Each action keeps the invariant.  The types by their kind: the flags go to *)
(* a prover of their own.                                                     *)
FlagsTyped ==
    /\ halted \in BOOLEAN /\ listNext \in BOOLEAN /\ dspInt \in BOOLEAN
    /\ aidInt \in BOOLEAN /\ dmaOn \in BOOLEAN /\ mixed \in BOOLEAN
    /\ rest \in BOOLEAN /\ restAck \in BOOLEAN /\ playing \in BOOLEAN
    /\ inHandler \in BOOLEAN /\ skipped \in BOOLEAN /\ gaveUp \in BOOLEAN
NumbersTyped ==
    /\ bootMails \in 0 .. BootLen
    /\ late \in -Period .. LateMax + Period + 1 /\ waited \in -1 .. Patience
    /\ queued \in 0 .. MaxQueue + Period
PlacesTyped ==
    /\ ucode \in {"ROM", "INIT", "AX"} /\ task \in {"none", "idle", "busy"}
    /\ at \in {"game", "handler", "callback", "mixed", "nested"}
MailTyped == mails \in Seq(Mail) /\ Len(mails) <= 1

LEMMA TypeParts == AudioTypeOK <=> FlagsTyped /\ NumbersTyped /\ PlacesTyped /\ MailTyped
BY DEF AudioTypeOK, FlagsTyped, NumbersTyped, PlacesTyped, MailTyped, Mail

LEMMA TypeBack ==
    ASSUME FlagsTyped', NumbersTyped', PlacesTyped', MailTyped'
    PROVE  AudioTypeOK'
BY DEF AudioTypeOK, FlagsTyped, NumbersTyped, PlacesTyped, MailTyped, Mail

(* The device takes sound out of the stream.                                  *)
LEMMA DrainStep == ASSUME AudioIInv, Drain PROVE AudioIInv'
<1>1. AudioTypeOK /\ QueueHeld /\ TaskAgrees /\ HandlerAgrees /\ Waited
    BY DEF AudioIInv, AudioInv
<1>2. AudioTypeOK'
  <2>1. FlagsTyped'
    BY <1>1, TypeParts DEF FlagsTyped, Drain, dsp, clock, host, guest, history
  <2>2. NumbersTyped'
    BY <1>1, TypeParts, AudioAssumption DEF NumbersTyped, Drain, dsp, clock, host, Period
  <2>3. PlacesTyped'
    BY <1>1, TypeParts DEF PlacesTyped, Drain, dsp, guest
  <2>4. MailTyped'
    BY <1>1, TypeParts DEF MailTyped, TaskAgrees, Drain, dsp
  <2> QED
    BY <2>1, <2>2, <2>3, <2>4, TypeBack
<1>3. QueueHeld'
    BY <1>1 DEF QueueHeld, AudioTypeOK, Drain, host
<1>4. TaskAgrees'
    BY <1>1 DEF AudioTypeOK, TaskAgrees, Drain, dsp, guest
<1>5. HandlerAgrees'
    BY <1>1 DEF HandlerAgrees, Drain, guest
<1>6. Waited'
    BY <1>1 DEF AudioTypeOK, TaskAgrees, HandlerAgrees, Waited, Drain, guest, history
<1> QED
    BY <1>2, <1>3, <1>4, <1>5, <1>6 DEF AudioIInv, AudioInv

(* The game stops or starts the DSP.                                          *)
LEMMA SetDspStep == ASSUME AudioIInv, SetDsp PROVE AudioIInv'
<1>1. AudioTypeOK /\ QueueHeld /\ TaskAgrees /\ HandlerAgrees /\ Waited
    BY DEF AudioIInv, AudioInv
<1>2. AudioTypeOK'
  <2>1. FlagsTyped'
    BY <1>1, TypeParts DEF FlagsTyped, SetDsp, dsp_cr_write, dsp, clock, host, guest, history
  <2>2. NumbersTyped'
    BY <1>1, TypeParts, AudioAssumption DEF NumbersTyped, SetDsp, dsp_cr_write, dsp, clock, host, Period
  <2>3. PlacesTyped'
    BY <1>1, TypeParts DEF PlacesTyped, SetDsp, dsp_cr_write, dsp, guest
  <2>4. MailTyped'
    BY <1>1, OneMail, LastMail, TypeParts DEF MailTyped, TaskAgrees, SetDsp, dsp_cr_write, dsp, Mail
  <2> QED
    BY <2>1, <2>2, <2>3, <2>4, TypeBack
<1>3. QueueHeld'
    BY <1>1 DEF QueueHeld, AudioTypeOK, SetDsp, dsp_cr_write, host
<1>4. TaskAgrees'
    BY <1>1, OneMail, LastMail DEF AudioTypeOK, TaskAgrees, SetDsp, dsp_cr_write, dsp, guest, Mail
<1>5. HandlerAgrees'
    BY <1>1 DEF HandlerAgrees, SetDsp, dsp_cr_write, guest
<1>6. Waited'
    BY <1>1 DEF AudioTypeOK, TaskAgrees, HandlerAgrees, Waited, SetDsp, dsp_cr_write, guest, history
<1> QED
    BY <1>2, <1>3, <1>4, <1>5, <1>6 DEF AudioIInv, AudioInv

(* The boot code takes an announcement.                                       *)
LEMMA PollMailStep == ASSUME AudioIInv, PollMail PROVE AudioIInv'
<1>1. AudioTypeOK /\ QueueHeld /\ TaskAgrees /\ HandlerAgrees /\ Waited
    BY DEF AudioIInv, AudioInv
<1>2. AudioTypeOK'
  <2>1. FlagsTyped'
    BY <1>1, TypeParts DEF FlagsTyped, PollMail, dsp, clock, host, guest, history
  <2>2. NumbersTyped'
    BY <1>1, TypeParts DEF NumbersTyped, PollMail, dsp, clock, host, Period
  <2>3. PlacesTyped'
    BY <1>1, TypeParts DEF PlacesTyped, PollMail, dsp, guest
  <2>4. MailTyped'
    BY <1>1, OneMail, LastMail, TypeParts DEF MailTyped, TaskAgrees, PollMail, dsp, Mail
  <2> QED
    BY <2>1, <2>2, <2>3, <2>4, TypeBack
<1>3. QueueHeld'
    BY <1>1 DEF QueueHeld, AudioTypeOK, PollMail, host
<1>4. TaskAgrees'
    BY <1>1, OneMail, LastMail DEF AudioTypeOK, TaskAgrees, PollMail, dsp, guest, Mail
<1>5. HandlerAgrees'
    BY <1>1 DEF HandlerAgrees, PollMail, guest
<1>6. Waited'
    BY <1>1 DEF AudioTypeOK, TaskAgrees, HandlerAgrees, Waited, PollMail, guest, history
<1> QED
    BY <1>2, <1>3, <1>4, <1>5, <1>6 DEF AudioIInv, AudioInv

(* A mail of the boot task.                                                   *)
LEMMA BootMailStep == ASSUME AudioIInv, BootMail PROVE AudioIInv'
<1>1. AudioTypeOK /\ QueueHeld /\ TaskAgrees /\ HandlerAgrees /\ Waited
    BY DEF AudioIInv, AudioInv
<1>2. AudioTypeOK'
  <2>1. FlagsTyped'
    BY <1>1, TypeParts DEF FlagsTyped, BootMail, DspSend, dsp, clock, host, guest, history
  <2>2. NumbersTyped'
    <3>1. bootMails' = bootMails + 1 /\ bootMails < BootLen
      BY DEF BootMail
    <3>2. UNCHANGED <<late, waited, queued>>
      BY DEF BootMail, clock, host
    <3> QED
      BY <1>1, <3>1, <3>2, TypeParts, AudioAssumption DEF NumbersTyped
  <2>3. PlacesTyped'
    BY <1>1, TypeParts DEF PlacesTyped, BootMail, DspSend, dsp, guest
  <2>4. MailTyped'
    BY <1>1, OneMail, LastMail, TypeParts DEF MailTyped, TaskAgrees, BootMail, DspSend, dsp, Mail
  <2> QED
    BY <2>1, <2>2, <2>3, <2>4, TypeBack
<1>3. QueueHeld'
    BY <1>1 DEF QueueHeld, AudioTypeOK, BootMail, DspSend, host
<1>4. TaskAgrees'
    BY <1>1, OneMail, LastMail DEF AudioTypeOK, TaskAgrees, BootMail, DspSend, dsp, guest, Mail
<1>5. HandlerAgrees'
    BY <1>1 DEF HandlerAgrees, BootMail, DspSend, guest
<1>6. Waited'
    BY <1>1 DEF AudioTypeOK, TaskAgrees, HandlerAgrees, Waited, BootMail, DspSend, guest, history
<1> QED
    BY <1>2, <1>3, <1>4, <1>5, <1>6 DEF AudioIInv, AudioInv

(* The guest takes the DSP's interrupt.                                       *)
LEMMA DspHandlerStep == ASSUME AudioIInv, DspHandler PROVE AudioIInv'
<1>1. AudioTypeOK /\ QueueHeld /\ TaskAgrees /\ HandlerAgrees /\ Waited
    BY DEF AudioIInv, AudioInv
<1>2. AudioTypeOK'
  <2>1. FlagsTyped'
    BY <1>1, TypeParts DEF FlagsTyped, DspHandler, dsp, clock, host, guest, history
  <2>2. NumbersTyped'
    BY <1>1, TypeParts DEF NumbersTyped, DspHandler, dsp, clock, host, Period
  <2>3. PlacesTyped'
    BY <1>1, TypeParts DEF PlacesTyped, DspHandler, dsp, guest
  <2>4. MailTyped'
    BY <1>1, OneMail, LastMail, TypeParts DEF MailTyped, TaskAgrees, DspHandler, dsp, Mail
  <2> QED
    BY <2>1, <2>2, <2>3, <2>4, TypeBack
<1>3. QueueHeld'
    BY <1>1 DEF QueueHeld, AudioTypeOK, DspHandler, host
<1>4. TaskAgrees'
    BY <1>1, OneMail, LastMail DEF AudioTypeOK, TaskAgrees, DspHandler, dsp, guest, Mail
<1>5. HandlerAgrees'
    BY <1>1 DEF HandlerAgrees, DspHandler, guest
<1>6. Waited'
    BY <1>1 DEF AudioTypeOK, TaskAgrees, HandlerAgrees, Waited, DspHandler, guest, history
<1> QED
    BY <1>2, <1>3, <1>4, <1>5, <1>6 DEF AudioIInv, AudioInv

(* The game stops the AI DMA.                                                 *)
LEMMA StopDmaStep == ASSUME AudioIInv, StopDma PROVE AudioIInv'
<1>1. AudioTypeOK /\ QueueHeld /\ TaskAgrees /\ HandlerAgrees /\ Waited
    BY DEF AudioIInv, AudioInv
<1>2. AudioTypeOK'
  <2>1. FlagsTyped'
    BY <1>1, TypeParts DEF FlagsTyped, StopDma, dsp, clock, host, guest, history
  <2>2. NumbersTyped'
    BY <1>1, TypeParts DEF NumbersTyped, StopDma, dsp, clock, host, Period
  <2>3. PlacesTyped'
    BY <1>1, TypeParts DEF PlacesTyped, StopDma, dsp, guest
  <2>4. MailTyped'
    BY <1>1, TypeParts DEF MailTyped, TaskAgrees, StopDma, dsp
  <2> QED
    BY <2>1, <2>2, <2>3, <2>4, TypeBack
<1>3. QueueHeld'
    BY <1>1 DEF QueueHeld, AudioTypeOK, StopDma, host
<1>4. TaskAgrees'
    BY <1>1 DEF AudioTypeOK, TaskAgrees, StopDma, dsp, guest
<1>5. HandlerAgrees'
    BY <1>1 DEF HandlerAgrees, StopDma, guest
<1>6. Waited'
    BY <1>1 DEF AudioTypeOK, TaskAgrees, HandlerAgrees, Waited, StopDma, guest, history
<1> QED
    BY <1>2, <1>3, <1>4, <1>5, <1>6 DEF AudioIInv, AudioInv

(* A due block is put off.                                                    *)
LEMMA WaitStep == ASSUME AudioIInv, ai_tick_wait PROVE AudioIInv'
<1>1. AudioTypeOK /\ QueueHeld /\ TaskAgrees /\ HandlerAgrees /\ Waited
    BY DEF AudioIInv, AudioInv
<1>2. AudioTypeOK'
  <2>1. FlagsTyped'
    BY <1>1, TypeParts DEF FlagsTyped, ai_tick_wait, Waiting, Defer, Patient, dsp, clock, host, guest, history
  <2>2. NumbersTyped'
    BY <1>1, TypeParts, AudioAssumption DEF NumbersTyped, ai_tick_wait, Waiting, Defer, Patient, dsp, clock, host, Period
  <2>3. PlacesTyped'
    BY <1>1, TypeParts DEF PlacesTyped, ai_tick_wait, Waiting, Defer, Patient, dsp, guest
  <2>4. MailTyped'
    BY <1>1, TypeParts DEF MailTyped, TaskAgrees, ai_tick_wait, Waiting, Defer, Patient, dsp
  <2> QED
    BY <2>1, <2>2, <2>3, <2>4, TypeBack
<1>3. QueueHeld'
    BY <1>1 DEF QueueHeld, AudioTypeOK, ai_tick_wait, Waiting, Defer, Patient, host
<1>4. TaskAgrees'
    BY <1>1 DEF AudioTypeOK, TaskAgrees, ai_tick_wait, Waiting, Defer, Patient, dsp, guest
<1>5. HandlerAgrees'
    BY <1>1 DEF HandlerAgrees, ai_tick_wait, Waiting, Defer, Patient, guest
<1>6. Waited'
    BY <1>1 DEF AudioTypeOK, TaskAgrees, HandlerAgrees, Waited, ai_tick_wait, Waiting, Defer, Patient, guest, history
<1> QED
    BY <1>2, <1>3, <1>4, <1>5, <1>6 DEF AudioIInv, AudioInv

(* Time passes.                                                               *)
LEMMA PassStep == ASSUME AudioIInv, Pass PROVE AudioIInv'
<1>1. AudioTypeOK /\ QueueHeld /\ TaskAgrees /\ HandlerAgrees /\ Waited
    BY DEF AudioIInv, AudioInv
<1>2. AudioTypeOK'
  <2>1. FlagsTyped'
    BY <1>1, TypeParts DEF FlagsTyped, Pass, UpTo, dsp, clock, host, guest, history
  <2>2. NumbersTyped'
    BY <1>1, TypeParts, AudioAssumption DEF NumbersTyped, Pass, UpTo, dsp, clock, host, Period
  <2>3. PlacesTyped'
    BY <1>1, TypeParts DEF PlacesTyped, Pass, UpTo, dsp, guest
  <2>4. MailTyped'
    BY <1>1, TypeParts DEF MailTyped, TaskAgrees, Pass, UpTo, dsp
  <2> QED
    BY <2>1, <2>2, <2>3, <2>4, TypeBack
<1>3. QueueHeld'
    BY <1>1 DEF QueueHeld, AudioTypeOK, Pass, UpTo, host
<1>4. TaskAgrees'
    BY <1>1 DEF AudioTypeOK, TaskAgrees, Pass, UpTo, dsp, guest
<1>5. HandlerAgrees'
    BY <1>1 DEF HandlerAgrees, Pass, UpTo, guest
<1>6. Waited'
    BY <1>1 DEF AudioTypeOK, TaskAgrees, HandlerAgrees, Waited, Pass, UpTo, guest, history
<1> QED
    BY <1>2, <1>3, <1>4, <1>5, <1>6 DEF AudioIInv, AudioInv

(* The AI's interrupt is taken.                                               *)
LEMMA EnterStep == ASSUME AudioIInv, EnterHandler PROVE AudioIInv'
<1>1. AudioTypeOK /\ QueueHeld /\ TaskAgrees /\ HandlerAgrees /\ Waited
    BY DEF AudioIInv, AudioInv
<1>2. AudioTypeOK'
  <2>1. FlagsTyped'
    BY <1>1, TypeParts DEF FlagsTyped, EnterHandler, dsp, clock, host, guest, history
  <2>2. NumbersTyped'
    BY <1>1, TypeParts DEF NumbersTyped, EnterHandler, dsp, clock, host, Period
  <2>3. PlacesTyped'
    BY <1>1, TypeParts DEF PlacesTyped, EnterHandler, dsp, guest
  <2>4. MailTyped'
    BY <1>1, TypeParts DEF MailTyped, TaskAgrees, EnterHandler, dsp
  <2> QED
    BY <2>1, <2>2, <2>3, <2>4, TypeBack
<1>3. QueueHeld'
    BY <1>1 DEF QueueHeld, AudioTypeOK, EnterHandler, host
<1>4. TaskAgrees'
    BY <1>1 DEF AudioTypeOK, TaskAgrees, EnterHandler, dsp, guest
<1>5. HandlerAgrees'
    BY <1>1 DEF HandlerAgrees, EnterHandler, guest
<1>6. Waited'
    BY <1>1 DEF AudioTypeOK, TaskAgrees, HandlerAgrees, Waited, EnterHandler, guest, history
<1> QED
    BY <1>2, <1>3, <1>4, <1>5, <1>6 DEF AudioIInv, AudioInv

(* The handler acknowledges.                                                  *)
LEMMA AcknowledgeStep == ASSUME AudioIInv, Acknowledge PROVE AudioIInv'
<1>1. AudioTypeOK /\ QueueHeld /\ TaskAgrees /\ HandlerAgrees /\ Waited
    BY DEF AudioIInv, AudioInv
<1>2. AudioTypeOK'
  <2>1. FlagsTyped'
    BY <1>1, TypeParts DEF FlagsTyped, Acknowledge, dsp, clock, host, guest, history
  <2>2. NumbersTyped'
    BY <1>1, TypeParts DEF NumbersTyped, Acknowledge, dsp, clock, host, Period
  <2>3. PlacesTyped'
    BY <1>1, TypeParts DEF PlacesTyped, Acknowledge, dsp, guest
  <2>4. MailTyped'
    BY <1>1, TypeParts DEF MailTyped, TaskAgrees, Acknowledge, dsp
  <2> QED
    BY <2>1, <2>2, <2>3, <2>4, TypeBack
<1>3. QueueHeld'
    BY <1>1 DEF QueueHeld, AudioTypeOK, Acknowledge, host
<1>4. TaskAgrees'
    BY <1>1 DEF AudioTypeOK, TaskAgrees, Acknowledge, dsp, guest
<1>5. HandlerAgrees'
    BY <1>1 DEF HandlerAgrees, Acknowledge, guest
<1>6. Waited'
    BY <1>1 DEF AudioTypeOK, TaskAgrees, HandlerAgrees, Waited, Acknowledge, guest, history
<1> QED
    BY <1>2, <1>3, <1>4, <1>5, <1>6 DEF AudioIInv, AudioInv

(* AX's callback announces a command list.                                    *)
LEMMA AnnounceStep == ASSUME AudioIInv, Announce PROVE AudioIInv'
<1>1. AudioTypeOK /\ QueueHeld /\ TaskAgrees /\ HandlerAgrees /\ Waited
    BY DEF AudioIInv, AudioInv
<1>2. AudioTypeOK'
  <2>1. FlagsTyped'
    BY <1>1, TypeParts DEF FlagsTyped, Announce, dsp, clock, host, guest, history
  <2>2. NumbersTyped'
    BY <1>1, TypeParts DEF NumbersTyped, Announce, dsp, clock, host, Period
  <2>3. PlacesTyped'
    BY <1>1, TypeParts DEF PlacesTyped, Announce, dsp, guest
  <2>4. MailTyped'
    BY <1>1, TypeParts DEF MailTyped, TaskAgrees, Announce, dsp
  <2> QED
    BY <2>1, <2>2, <2>3, <2>4, TypeBack
<1>3. QueueHeld'
    BY <1>1 DEF QueueHeld, AudioTypeOK, Announce, host
<1>4. TaskAgrees'
    BY <1>1 DEF AudioTypeOK, TaskAgrees, Announce, dsp, guest
<1>5. HandlerAgrees'
    BY <1>1 DEF HandlerAgrees, Announce, guest
<1>6. Waited'
    BY <1>1 DEF AudioTypeOK, TaskAgrees, HandlerAgrees, Waited, Announce, guest, history
<1> QED
    BY <1>2, <1>3, <1>4, <1>5, <1>6 DEF AudioIInv, AudioInv

(* The DSP mixes, and answers.                                                *)
LEMMA MixStep == ASSUME AudioIInv, Mix PROVE AudioIInv'
<1>1. AudioTypeOK /\ QueueHeld /\ TaskAgrees /\ HandlerAgrees /\ Waited
    BY DEF AudioIInv, AudioInv
<1>2. AudioTypeOK'
  <2>1. FlagsTyped'
    BY <1>1, TypeParts DEF FlagsTyped, Mix, DspSend, dsp, clock, host, guest, history
  <2>2. NumbersTyped'
    BY <1>1, TypeParts DEF NumbersTyped, Mix, DspSend, dsp, clock, host, Period
  <2>3. PlacesTyped'
    BY <1>1, TypeParts DEF PlacesTyped, Mix, DspSend, dsp, guest
  <2>4. MailTyped'
    BY <1>1, OneMail, LastMail, TypeParts DEF MailTyped, TaskAgrees, Mix, DspSend, dsp, Mail
  <2> QED
    BY <2>1, <2>2, <2>3, <2>4, TypeBack
<1>3. QueueHeld'
    BY <1>1 DEF QueueHeld, AudioTypeOK, Mix, DspSend, host
<1>4. TaskAgrees'
    BY <1>1, OneMail, LastMail DEF AudioTypeOK, TaskAgrees, Mix, DspSend, dsp, guest, Mail
<1>5. HandlerAgrees'
    BY <1>1 DEF HandlerAgrees, Mix, DspSend, guest
<1>6. Waited'
    BY <1>1 DEF AudioTypeOK, TaskAgrees, HandlerAgrees, Waited, Mix, DspSend, guest, history
<1> QED
    BY <1>2, <1>3, <1>4, <1>5, <1>6 DEF AudioIInv, AudioInv

(* The callback does not mix.                                                 *)
LEMMA NoMixStep == ASSUME AudioIInv, NoMix PROVE AudioIInv'
<1>1. AudioTypeOK /\ QueueHeld /\ TaskAgrees /\ HandlerAgrees /\ Waited
    BY DEF AudioIInv, AudioInv
<1>2. AudioTypeOK'
  <2>1. FlagsTyped'
    BY <1>1, TypeParts DEF FlagsTyped, NoMix, dsp, clock, host, guest, history
  <2>2. NumbersTyped'
    BY <1>1, TypeParts DEF NumbersTyped, NoMix, dsp, clock, host, Period
  <2>3. PlacesTyped'
    BY <1>1, TypeParts DEF PlacesTyped, NoMix, dsp, guest
  <2>4. MailTyped'
    BY <1>1, TypeParts DEF MailTyped, TaskAgrees, NoMix, dsp
  <2> QED
    BY <2>1, <2>2, <2>3, <2>4, TypeBack
<1>3. QueueHeld'
    BY <1>1 DEF QueueHeld, AudioTypeOK, NoMix, host
<1>4. TaskAgrees'
    BY <1>1 DEF AudioTypeOK, TaskAgrees, NoMix, dsp, guest
<1>5. HandlerAgrees'
    BY <1>1 DEF HandlerAgrees, NoMix, guest
<1>6. Waited'
    BY <1>1 DEF AudioTypeOK, TaskAgrees, HandlerAgrees, Waited, NoMix, guest, history
<1> QED
    BY <1>2, <1>3, <1>4, <1>5, <1>6 DEF AudioIInv, AudioInv

(* The handler returns.                                                       *)
LEMMA LeaveStep == ASSUME AudioIInv, LeaveHandler PROVE AudioIInv'
<1>1. AudioTypeOK /\ QueueHeld /\ TaskAgrees /\ HandlerAgrees /\ Waited
    BY DEF AudioIInv, AudioInv
<1>2. AudioTypeOK'
  <2>1. FlagsTyped'
    BY <1>1, TypeParts DEF FlagsTyped, LeaveHandler, dsp, clock, host, guest, history
  <2>2. NumbersTyped'
    BY <1>1, TypeParts DEF NumbersTyped, LeaveHandler, dsp, clock, host, Period
  <2>3. PlacesTyped'
    BY <1>1, TypeParts DEF PlacesTyped, LeaveHandler, dsp, guest
  <2>4. MailTyped'
    BY <1>1, TypeParts DEF MailTyped, TaskAgrees, LeaveHandler, dsp
  <2> QED
    BY <2>1, <2>2, <2>3, <2>4, TypeBack
<1>3. QueueHeld'
    BY <1>1 DEF QueueHeld, AudioTypeOK, LeaveHandler, host
<1>4. TaskAgrees'
    BY <1>1 DEF AudioTypeOK, TaskAgrees, LeaveHandler, dsp, guest
<1>5. HandlerAgrees'
    BY <1>1 DEF HandlerAgrees, LeaveHandler, guest
<1>6. Waited'
    BY <1>1 DEF AudioTypeOK, TaskAgrees, HandlerAgrees, Waited, LeaveHandler, guest, history
<1> QED
    BY <1>2, <1>3, <1>4, <1>5, <1>6 DEF AudioIInv, AudioInv

-----------------------------------------------------------------------------
(* What a block's start takes and leaves, by the game or by the clock.        *)
LEMMA BlockTyped ==
    ASSUME AudioIInv, ai_dma_block
    PROVE  /\ QueueHeld' /\ queued' \in 0 .. MaxQueue + Period /\ playing' \in BOOLEAN
           /\ mixed' = FALSE /\ aidInt' = TRUE /\ rest' = FALSE /\ dmaOn' \in BOOLEAN
<1>1. audio_play \/ UNCHANGED host
    BY DEF ai_dma_block
<1> QED
    BY <1>1, QueueKept DEF ai_dma_block, AudioIInv

(* The game starts the AI DMA: outside the handler, and with the task idle.   *)
LEMMA StartDmaStep == ASSUME AudioIInv, StartDma PROVE AudioIInv'
<1>1. AudioTypeOK /\ TaskAgrees /\ HandlerAgrees /\ Waited
    BY DEF AudioIInv, AudioInv
<1>2. /\ QueueHeld' /\ queued' \in 0 .. MaxQueue + Period /\ playing' \in BOOLEAN
      /\ mixed' = FALSE /\ aidInt' = TRUE /\ rest' = FALSE /\ dmaOn' \in BOOLEAN
    BY BlockTyped DEF StartDma
<1>3. /\ UNCHANGED <<dsp, dspInt, restAck, waited, guest, history>>
      /\ late' = -Period /\ at = "game" /\ task # "busy"
    BY DEF StartDma
<1>4. AudioTypeOK'
  <2>1. FlagsTyped'
    BY <1>1, <1>2, <1>3, TypeParts DEF FlagsTyped, dsp, guest, history
  <2>2. NumbersTyped'
    <3>1. bootMails' = bootMails /\ waited' = waited
      BY <1>3 DEF dsp
    <3> QED
      BY <1>1, <1>2, <1>3, <3>1, TypeParts, AudioAssumption DEF NumbersTyped, Period
  <2>3. PlacesTyped' /\ MailTyped'
    BY <1>1, <1>3, TypeParts DEF PlacesTyped, MailTyped, dsp, guest
  <2> QED
    BY <2>1, <2>2, <2>3, TypeBack
<1>5. TaskAgrees' /\ HandlerAgrees'
    BY <1>1, <1>3 DEF TaskAgrees, HandlerAgrees, dsp, guest
<1>6. Waited'
    BY <1>1, <1>3 DEF Waited, guest, history
<1> QED
    BY <1>2, <1>4, <1>5, <1>6 DEF AudioIInv, AudioInv

(* The clock starts a block: one that was still waited for is started outside *)
(* the handler, with its frame mixed and the DSP's interrupt taken.           *)
LEMMA BlockStartStep == ASSUME AudioIInv, ai_tick_start PROVE AudioIInv'
<1>1. AudioTypeOK /\ TaskAgrees /\ HandlerAgrees /\ Waited
    BY DEF AudioIInv, AudioInv
<1>2. /\ QueueHeld' /\ queued' \in 0 .. MaxQueue + Period /\ playing' \in BOOLEAN
      /\ mixed' = FALSE /\ aidInt' = TRUE /\ rest' = FALSE /\ dmaOn' \in BOOLEAN
    BY BlockTyped DEF ai_tick_start
<1>3. /\ UNCHANGED <<dsp, dspInt, restAck, guest, skipped>>
      /\ waited' = -1 /\ gaveUp' = (gaveUp \/ ~Patient) /\ ~Defer
    BY DEF ai_tick_start
<1>4. Patient => ai_frame_ready /\ ~inHandler
    BY <1>3 DEF Defer
<1>5. AudioTypeOK'
  <2>1. FlagsTyped'
    <3>1. gaveUp' \in BOOLEAN
      BY <1>3
    <3> QED
      BY <1>1, <1>2, <1>3, <3>1, TypeParts DEF FlagsTyped, dsp, guest
  <2>2. NumbersTyped'
    <3>1. bootMails' = bootMails /\ waited' = -1
      BY <1>3 DEF dsp
    <3>2. late >= 0 /\ (late' = -Period \/ late' = late - Period)
      BY DEF ai_tick_start
    <3> QED
      BY <1>1, <1>2, <3>1, <3>2, TypeParts, AudioAssumption DEF NumbersTyped, Period
  <2>3. PlacesTyped' /\ MailTyped'
    BY <1>1, <1>3, TypeParts DEF PlacesTyped, MailTyped, dsp, guest
  <2> QED
    BY <2>1, <2>2, <2>3, TypeBack
<1>6. TaskAgrees' /\ HandlerAgrees'
    BY <1>1, <1>3 DEF TaskAgrees, HandlerAgrees, dsp, guest
<1>7. Waited'
  <2> SUFFICES ASSUME ~gaveUp'
               PROVE  /\ ~skipped' /\ at' # "nested"
                      /\ at' \in {"callback", "mixed"} => ~aidInt'
                      /\ aidInt' \/ at' \in {"handler", "callback"} => task' # "busy"
    BY DEF Waited
  <2>1. ~gaveUp /\ Patient
    BY <1>3
  <2>2. ai_frame_ready /\ at = "game"
    BY <1>1, <1>4, <2>1 DEF HandlerAgrees
  <2>3. task # "busy"
    BY <1>1, <2>2 DEF ai_frame_ready, TaskAgrees
  <2> QED
    BY <1>1, <1>3, <2>1, <2>2, <2>3 DEF Waited, guest
<1> QED
    BY <1>2, <1>5, <1>6, <1>7 DEF AudioIInv, AudioInv

-----------------------------------------------------------------------------
(* The invariant is inductive.                                                *)
LEMMA AudioStep == ASSUME AudioIInv, [AudioNext]_audioVars PROVE AudioIInv'
<1>1. CASE UNCHANGED audioVars
  <2>1. AudioTypeOK /\ QueueHeld /\ TaskAgrees /\ HandlerAgrees /\ Waited
    BY DEF AudioIInv, AudioInv
  <2>2. AudioTypeOK'
    <3>1. FlagsTyped'
      BY <1>1, <2>1, TypeParts DEF audioVars, dsp, clock, host, guest, history, FlagsTyped
    <3>2. NumbersTyped'
      BY <1>1, <2>1, TypeParts DEF audioVars, dsp, clock, host, NumbersTyped
    <3>3. PlacesTyped' /\ MailTyped'
      BY <1>1, <2>1, TypeParts DEF audioVars, dsp, guest, PlacesTyped, MailTyped
    <3> QED
      BY <3>1, <3>2, <3>3, TypeBack
  <2>3. QueueHeld'
    BY <1>1, <2>1 DEF audioVars, host, QueueHeld
  <2>4. TaskAgrees' /\ HandlerAgrees'
    BY <1>1, <2>1 DEF audioVars, dsp, guest, TaskAgrees, HandlerAgrees
  <2>5. Waited'
    BY <1>1, <2>1 DEF audioVars, guest, history, Waited
  <2> QED
    BY <2>2, <2>3, <2>4, <2>5 DEF AudioIInv, AudioInv
<1>2. CASE Drain \/ SetDsp \/ PollMail \/ BootMail \/ DspHandler
    BY <1>2, DrainStep, SetDspStep, PollMailStep, BootMailStep, DspHandlerStep
<1>3. CASE StartDma \/ StopDma \/ ai_tick \/ Pass
    BY <1>3, StartDmaStep, StopDmaStep, WaitStep, BlockStartStep, PassStep DEF ai_tick
<1>4. CASE EnterHandler \/ Acknowledge \/ Announce \/ Mix \/ NoMix \/ LeaveHandler
    BY <1>4, EnterStep, AcknowledgeStep, AnnounceStep, MixStep, NoMixStep, LeaveStep
<1> QED
    BY <1>1, <1>2, <1>3, <1>4 DEF AudioNext

(* For a boot task, waits and queue of any length: the queue of the host's    *)
(* stream stays within its limit and a block, one mail at most is on its way, *)
(* and sound queued to the target is heard (audio_play, dsp_send).            *)
THEOREM AudioInvariant == AudioSpec => []AudioInv
<1>1. AudioIInv /\ [AudioNext]_audioVars => AudioIInv'
    BY AudioStep
<1>2. AudioIInv => AudioInv
    BY DEF AudioIInv
<1> QED
    BY <1>1, <1>2, AudioInitHolds, PTL DEF AudioSpec

(* Whatever the periods and the patience, AX skips a frame only after a block *)
(* was started whose wait had run out (ai_tick, ai_frame_ready).              *)
THEOREM NoFrameSkipped == AudioSpec => []SkipsNoFrame
<1>1. AudioIInv /\ [AudioNext]_audioVars => AudioIInv'
    BY AudioStep
<1>2. AudioIInv => SkipsNoFrame
    BY DEF AudioIInv, Waited, SkipsNoFrame
<1> QED
    BY <1>1, <1>2, AudioInitHolds, PTL DEF AudioSpec

-----------------------------------------------------------------------------
(* A voice of AX: the addresses a pass over its sample reads.               *)

\* The address after one, and the last one in a block up to a place.
NextIn(w, a) == IF w.format = "adpcm" /\ (a + 1) % 16 = 0 THEN a + 3 ELSE a + 1
LastIn(w, x) == IF w.format = "adpcm" /\ x % 16 < 2 THEN x - (x % 16) - 1 ELSE x

LEMMA BlockFacts ==
  ASSUME NEW w, NEW from \in Nat, InBlock(w, from), NEW x \in Nat, from <= x
  PROVE  /\ LastIn(w, x) \in from..x /\ InBlock(w, LastIn(w, x)) /\ x + 1 \in Nat /\ from <= x + 1
         /\ InBlock(w, x + 1) => NextIn(w, LastIn(w, x)) = x + 1 /\ LastIn(w, x + 1) = x + 1
         /\ ~InBlock(w, x + 1) => LastIn(w, x + 1) = LastIn(w, x)
<1>1. CASE w.format = "adpcm"
  <2>1. from % 16 >= 2
    BY <1>1 DEF InBlock
  <2>0. \A y \in Nat : y % 16 \in 0..15 /\ (y + 1) % 16 = IF y % 16 = 15 THEN 0 ELSE (y % 16) + 1
    <3>1. ASSUME NEW y \in Nat
          PROVE  y % 16 \in 0..15 /\ (y + 1) % 16 = IF y % 16 = 15 THEN 0 ELSE (y % 16) + 1
      <4>1. /\ y % 16 \in 0..(16 - 1)
            /\ (y % 16) + 1 = 16 => (y + 1) % 16 = 0
            /\ (y % 16) + 1 # 16 => (y + 1) % 16 = (y % 16) + 1
        BY NextDiv
      <4>2. QED BY <4>1
    <3>2. QED BY <3>1
  <2>8. \A y \in Nat : /\ y % 16 = 0 => LastIn(w, y) = y - 1
                       /\ y % 16 = 1 => LastIn(w, y) = y - 2
                       /\ InBlock(w, y) <=> y % 16 >= 2
    <3>1. ASSUME NEW y \in Nat
          PROVE  /\ y % 16 = 0 => LastIn(w, y) = y - 1
                 /\ y % 16 = 1 => LastIn(w, y) = y - 2
                 /\ InBlock(w, y) <=> y % 16 >= 2
      <4>1. LastIn(w, y) = IF y % 16 < 2 THEN y - (y % 16) - 1 ELSE y
        BY <1>1 DEF LastIn
      <4>. DEFINE q == y % 16
      <4>0. LastIn(w, y) = IF q < 2 THEN y - q - 1 ELSE y
        BY <4>1
      <4>. HIDE DEF q
      <4>2. q = 0 => LastIn(w, y) = y - 1
        BY <4>0
      <4>3. q = 1 => LastIn(w, y) = y - 2
        BY <4>0
      <4>4. InBlock(w, y) <=> y % 16 >= 2
        BY <1>1 DEF InBlock
      <4>5. QED BY <4>2, <4>3, <4>4 DEF q
    <3>2. QED BY <3>1
  <2>. DEFINE m == x % 16
  <2>6. m \in 0..15 /\ (x + 1) % 16 = IF m = 15 THEN 0 ELSE m + 1
    BY <2>0
  <2>2. CASE m >= 2
    <3>1. LastIn(w, x) = x /\ InBlock(w, x)
      BY <1>1, <2>2 DEF InBlock, LastIn
    <3>2. InBlock(w, x + 1) => NextIn(w, x) = x + 1 /\ LastIn(w, x + 1) = x + 1
      BY <1>1 DEF InBlock, NextIn, LastIn
    <3>3. ~InBlock(w, x + 1) => (x + 1) % 16 = 0
      <4>1. ~InBlock(w, x + 1) => ~((x + 1) % 16 >= 2)
        BY <1>1 DEF InBlock
      <4>. HIDE DEF m
      <4>2. QED BY <2>2, <2>6, <4>1
    <3>4. ~InBlock(w, x + 1) => LastIn(w, x + 1) = x
      BY <2>8, <3>3
    <3>5. QED BY <3>1, <3>2, <3>4
  <2>3. CASE m = 0
    <3>1. x # from /\ x - 1 \in Nat /\ (x - 1) + 1 = x
      BY <2>1, <2>3
    <3>2. (x - 1) % 16 = 15
      <4>. DEFINE y == x - 1
      <4>1. y \in Nat /\ y % 16 \in 0..15 /\ (y + 1) % 16 = (IF y % 16 = 15 THEN 0 ELSE (y % 16) + 1) /\ (y + 1) % 16 = 0
        BY <2>0, <2>3, <3>1
      <4>. HIDE DEF y
      <4>2. y % 16 = 15
        BY <4>1
      <4>3. QED BY <4>2 DEF y
    <3>3. LastIn(w, x) = x - 1 /\ InBlock(w, x - 1)
      BY <2>3, <2>8, <3>1, <3>2
    <3>4. (x + 1) % 16 = 1
      BY <2>3, <2>6
    <3>5. ~InBlock(w, x + 1) /\ LastIn(w, x + 1) = x - 1
      BY <2>8, <3>4
    <3>6. QED BY <3>1, <3>3, <3>5
  <2>4. CASE m = 1
    <3>1. x # from /\ x - 1 \in Nat /\ (x - 1) + 1 = x
      BY <2>1, <2>4
    <3>2. (x - 1) % 16 = 0
      <4>. DEFINE y == x - 1
      <4>1. y \in Nat /\ y % 16 \in 0..15 /\ (y + 1) % 16 = (IF y % 16 = 15 THEN 0 ELSE (y % 16) + 1) /\ (y + 1) % 16 = 1
        BY <2>0, <2>4, <3>1
      <4>. HIDE DEF y
      <4>2. y % 16 = 0
        BY <4>1
      <4>3. QED BY <4>2 DEF y
    <3>3. from # x - 1 /\ x - 2 \in Nat /\ (x - 2) + 1 = x - 1
      BY <2>1, <3>1, <3>2
    <3>4. (x - 2) % 16 = 15
      <4>. DEFINE y == x - 2
      <4>1. y \in Nat /\ y % 16 \in 0..15 /\ (y + 1) % 16 = (IF y % 16 = 15 THEN 0 ELSE (y % 16) + 1) /\ (y + 1) % 16 = 0
        BY <2>0, <3>2, <3>3
      <4>. HIDE DEF y
      <4>2. y % 16 = 15
        BY <4>1
      <4>3. QED BY <4>2 DEF y
    <3>5. LastIn(w, x) = x - 2 /\ InBlock(w, x - 2)
      BY <2>4, <2>8, <3>3, <3>4
    <3>6. (x + 1) % 16 = 2
      BY <2>4, <2>6
    <3>7. InBlock(w, x + 1) /\ LastIn(w, x + 1) = x + 1
      BY <1>1, <3>6 DEF InBlock, LastIn
    <3>8. NextIn(w, x - 2) = x + 1
      BY <1>1, <3>2, <3>3 DEF NextIn
    <3>9. QED BY <3>1, <3>3, <3>5, <3>7, <3>8
  <2>5. m >= 2 \/ m = 0 \/ m = 1
    <3>. HIDE DEF m
    <3>1. QED BY <2>6
  <2>7. QED BY <2>2, <2>3, <2>4, <2>5
<1>2. CASE w.format # "adpcm"
  BY <1>2 DEF InBlock, NextIn, LastIn
<1>3. QED BY <1>1, <1>2

\* The sound addresses from one to another, in order.
PassTo(w, R, from, x) ==
  /\ R \in Seq(Nat) /\ Len(R) # 0 /\ R[1] = from /\ R[Len(R)] = x
  /\ \A i \in 1..Len(R) : R[i] \in from..x /\ InBlock(w, R[i]) /\ (R[i] = x => i = Len(R))
  /\ \A i \in 1..Len(R) - 1 : R[i + 1] = NextIn(w, R[i])

LEMMA PassGrows ==
  ASSUME NEW w, NEW from \in Nat, InBlock(w, from), NEW x \in Nat, from <= x, NEW R,
         PassTo(w, R, from, LastIn(w, x))
  PROVE  PassTo(w, IF InBlock(w, x + 1) THEN Append(R, x + 1) ELSE R, from, LastIn(w, x + 1))
<1>. DEFINE l == LastIn(w, x)
<1>1. /\ l \in from..x /\ x + 1 \in Nat /\ from <= x + 1
      /\ InBlock(w, x + 1) => NextIn(w, l) = x + 1 /\ LastIn(w, x + 1) = x + 1
      /\ ~InBlock(w, x + 1) => LastIn(w, x + 1) = l
  BY BlockFacts
<1>. HIDE DEF l
<1>2. /\ R \in Seq(Nat) /\ Len(R) # 0 /\ R[1] = from /\ R[Len(R)] = l
      /\ \A i \in 1..Len(R) : R[i] \in from..l /\ InBlock(w, R[i]) /\ (R[i] = l => i = Len(R))
      /\ \A i \in 1..Len(R) - 1 : R[i + 1] = NextIn(w, R[i])
  BY DEF PassTo, l
<1>3. CASE ~InBlock(w, x + 1)
  <2>1. LastIn(w, x + 1) = l
    BY <1>1, <1>3
  <2>2. QED BY <1>3, <2>1 DEF l
<1>4. CASE InBlock(w, x + 1)
  <2>. DEFINE y == x + 1
              Q == Append(R, y)
              n == Len(R)
  <2>1. n \in Nat /\ n # 0 /\ y \in Nat /\ NextIn(w, l) = y /\ LastIn(w, x + 1) = y /\ l < y /\ l \in Nat /\ InBlock(w, y) /\ from <= y
    BY <1>1, <1>2, <1>4
  <2>. HIDE DEF y
  <2>2. /\ Q \in Seq(Nat) /\ Len(Q) = n + 1 /\ Q[n + 1] = y
        /\ \A i \in 1..n : Q[i] = R[i]
    BY <1>2, <2>1
  <2>. HIDE DEF Q, n
  <2>3. Q[1] = from
    BY <1>2, <2>1, <2>2
  <2>4. ASSUME NEW i \in 1..(n + 1)
        PROVE  Q[i] \in from..y /\ InBlock(w, Q[i]) /\ (Q[i] = y => i = n + 1)
    <3>1. CASE i = n + 1
      BY <2>1, <2>2, <3>1
    <3>2. CASE i # n + 1
      <4>1. i \in 1..n /\ Q[i] = R[i]
        BY <2>1, <2>2, <3>2
      <4>2. R[i] \in from..l /\ InBlock(w, R[i])
        BY <1>2, <4>1 DEF n
      <4>3. QED BY <2>1, <4>1, <4>2
    <3>3. QED BY <3>1, <3>2
  <2>5. ASSUME NEW i \in 1..(n + 1) - 1
        PROVE  Q[i + 1] = NextIn(w, Q[i])
    <3>1. CASE i = n
      <4>1. Q[i] = l /\ Q[i + 1] = y
        BY <1>2, <2>1, <2>2, <3>1 DEF n
      <4>2. QED BY <2>1, <4>1
    <3>2. CASE i # n
      <4>1. i \in 1..n /\ i + 1 \in 1..n /\ i \in 1..n - 1
        BY <2>1, <3>2
      <4>2. Q[i] = R[i] /\ Q[i + 1] = R[i + 1]
        BY <2>2, <4>1
      <4>3. R[i + 1] = NextIn(w, R[i])
        BY <1>2, <4>1 DEF n
      <4>4. QED BY <4>2, <4>3
    <3>3. QED BY <3>1, <3>2
  <2>6. Len(Q) # 0 /\ Q[Len(Q)] = y
    BY <2>1, <2>2
  <2>7. PassTo(w, Q, from, y)
    BY <2>2, <2>3, <2>4, <2>5, <2>6 DEF PassTo
  <2>8. QED BY <1>4, <2>1, <2>7 DEF Q, y
<1>5. QED BY <1>3, <1>4

LEMMA ReadableFacts ==
  ASSUME NEW w, w.end \in Nat, InBlock(w, w.end), NEW from \in Nat, InBlock(w, from), from <= w.end
  PROVE  PassTo(w, Readable(w, from), from, w.end)
<1>. DEFINE n == w.end - from + 1
            X == [0..n -> Seq(Nat)]
            Step(s, k) == IF InBlock(w, from + k - 1) THEN Append(s, from + k - 1) ELSE s
            Eq(R) == R = [k \in 0..n |-> IF k = 0 THEN << >>
                           ELSE IF InBlock(w, from + k - 1) THEN Append(R[k - 1], from + k - 1)
                                ELSE R[k - 1]]
            R == CHOOSE R : Eq(R)
<1>1. n \in Nat /\ n # 0
  OBVIOUS
<1>2. \E Q : Eq(Q)
  <2>. DEFINE F == [k \in 1..n |-> [s \in Seq(Nat) |-> Step(s, k)]]
  <2>1. F \in [1..n -> [Seq(Nat) -> Seq(Nat)]]
    <3>1. \A k \in 1..n, s \in Seq(Nat) : Step(s, k) \in Seq(Nat)
      <4>1. ASSUME NEW k \in 1..n, NEW s \in Seq(Nat) PROVE Step(s, k) \in Seq(Nat)
        <5>1. from + k - 1 \in Nat
          OBVIOUS
        <5>2. QED BY <5>1
      <4>2. QED BY <4>1
    <3>. HIDE DEF Step, n
    <3>2. QED BY <3>1
  <2>2. \A k \in 1..n, s \in Seq(Nat) : F[k][s] = Step(s, k)
    OBVIOUS
  <2>. HIDE DEF F
  <2>3. PICK h : Steps(h, n, Seq(Nat), << >>, F)
    <3>1. << >> \in Seq(Nat) /\ n \in Nat
      BY <1>1
    <3>. HIDE DEF n
    <3>2. \E g \in [SUBSET (1..n) -> Seq(Nat)] : LeftFold(g, n, Seq(Nat), << >>, F)
      BY <2>1, <3>1, LeftFoldExists
    <3>3. QED BY <2>1, <3>1, <3>2, LeftFoldSteps
  <2>4. h \in [0..n -> Seq(Nat)] /\ h[0] = << >> /\ \A k \in 1..n : h[k] = F[k][h[k - 1]]
    <3>. HIDE DEF n
    <3>1. QED BY <2>3 DEF Steps
  <2>5. ASSUME NEW k \in 0..n, k # 0 PROVE h[k] = Step(h[k - 1], k)
    <3>1. k \in 1..n /\ k - 1 \in 0..n
      BY <1>1, <2>5
    <3>. HIDE DEF n, Step
    <3>2. QED BY <2>2, <2>4, <3>1
  <2>6. Eq(h)
    <3>. HIDE DEF n
    <3>1. QED BY <2>4, <2>5
  <2>7. QED BY <2>6
<1>3. Readable(w, from) = R[n]
  BY Zenon DEF Readable
<1>4. Eq(R)
  <2>. HIDE DEF Eq
  <2>1. QED BY <1>2, Zenon
<1>. HIDE DEF R
<1>5. R[0] = << >> /\ \A k \in 1..n : R[k] = Step(R[k - 1], k)
  <2>1. \A k \in 0..n : R[k] = IF k = 0 THEN << >> ELSE Step(R[k - 1], k)
    <3>. HIDE DEF n
    <3>1. QED BY <1>4
  <2>2. 0 \in 0..n /\ \A k \in 1..n : k \in 0..n /\ k # 0
    BY <1>1
  <2>. HIDE DEF n, Step
  <2>3. QED BY <2>1, <2>2
<1>. DEFINE S == {k \in 0..n : k # 0 => PassTo(w, R[k], from, LastIn(w, from + k - 1))}
<1>6. ASSUME NEW k \in Nat, k < n, k \in S PROVE k + 1 \in S
  <2>1. k + 1 \in 0..n /\ k + 1 \in 1..n /\ (k + 1) - 1 = k
    BY <1>6
  <2>2. R[k + 1] = Step(R[k], k + 1)
    BY <1>5, <2>1
  <2>3. CASE k = 0
    <3>1. R[1] = <<from>> /\ from + 1 - 1 = from /\ k + 1 = 1
      <4>1. R[0] = << >> /\ k + 1 = 1 /\ R[1] = Step(<< >>, 1)
        <5>. HIDE DEF Step
        <5>1. QED BY <1>5, <2>2, <2>3
      <4>2. from + 1 - 1 = from
        OBVIOUS
      <4>3. Step(<< >>, 1) = Append(<< >>, from)
        BY <4>2
      <4>4. Append(<< >>, from) = <<from>>
        OBVIOUS
      <4>5. QED BY <4>1, <4>2, <4>3, <4>4
    <3>2. LastIn(w, from) = from
      BY DEF LastIn, InBlock
    <3>3. <<from>> \in Seq(Nat) /\ Len(<<from>>) = 1 /\ <<from>>[1] = from
      OBVIOUS
    <3>4. PassTo(w, <<from>>, from, from)
      BY <3>3 DEF PassTo
    <3>5. QED BY <2>1, <3>1, <3>2, <3>4
  <2>4. CASE k # 0
    <3>. DEFINE x == from + k - 1
    <3>1. x \in Nat /\ from <= x /\ from + (k + 1) - 1 = x + 1
      BY <2>4
    <3>2. PassTo(w, R[k], from, LastIn(w, x))
      BY <1>6, <2>4
    <3>3. R[k + 1] = IF InBlock(w, x + 1) THEN Append(R[k], x + 1) ELSE R[k]
      BY <2>2, <3>1
    <3>. HIDE DEF x
    <3>4. PassTo(w, R[k + 1], from, LastIn(w, x + 1))
      BY <3>1, <3>2, <3>3, PassGrows
    <3>5. PassTo(w, R[k + 1], from, LastIn(w, from + (k + 1) - 1))
      BY <3>1, <3>4
    <3>6. QED BY <2>1, <3>5
  <2>5. QED BY <2>3, <2>4
<1>7. \A k \in 0..n : k \in S
  <2>1. 0 \in S
    BY <1>1
  <2>. HIDE DEF S, n
  <2>2. QED BY <1>1, <1>6, <2>1, Upto
<1>8. PassTo(w, R[n], from, LastIn(w, from + n - 1))
  <2>1. n \in 0..n
    BY <1>1
  <2>. HIDE DEF n
  <2>2. QED BY <1>1, <1>7, <2>1
<1>9. LastIn(w, from + n - 1) = w.end
  BY DEF LastIn, InBlock
<1>10. QED BY <1>3, <1>8, <1>9

-----------------------------------------------------------------------------
(* What the k-th sample of a note is, from the one before it.               *)

\* A sample's track, as the voice's PB holds it: its ends lie in sound.
Plays(w) ==
  /\ w.format \in {"adpcm", "pcm"} /\ w.first \in Nat /\ w.loop \in Nat /\ w.end \in Nat
  /\ w.first <= w.end /\ w.loop <= w.end /\ w.looping \in BOOLEAN /\ w.stream \in BOOLEAN
  /\ InBlock(w, w.first) /\ InBlock(w, w.loop) /\ InBlock(w, w.end)

\* The address after one, as the accelerator reckons it.
LEMMA FollowingFacts ==
  ASSUME NEW p, Plays(p), NEW a, a.cur \in Nat, a.cur <= p.end, InBlock(p, a.cur),
         a.scale = Header(p, a.cur)
  PROVE  /\ a.cur = p.end <=> Following(p, a).cur = p.end + Following(p, a).step - 1
         /\ a.cur # p.end => /\ Following(p, a).cur = NextIn(p, a.cur)
                             /\ Following(p, a).scale = Header(p, NextIn(p, a.cur))
<1>. DEFINE c == a.cur + 1
            n == Following(p, a)
<1>0. p.end \in Nat
  BY DEF Plays
<1>1. CASE p.format # "adpcm"
  <2>1. n.cur = c /\ n.scale = a.scale /\ n.step = 2
    <3>1. n = [cur |-> c, scale |-> a.scale, step |-> Beyond(FALSE)]
      BY <1>1, Zenon DEF Following
    <3>2. QED BY <3>1 DEF Beyond
  <2>2. NextIn(p, a.cur) = c /\ Header(p, c) = Header(p, a.cur)
    BY <1>1 DEF NextIn, Header
  <2>3. n.cur = p.end + n.step - 1 <=> a.cur = p.end
    BY <1>0, <2>1
  <2>4. a.cur # p.end => n.cur = NextIn(p, a.cur) /\ n.scale = Header(p, NextIn(p, a.cur))
    BY <2>1, <2>2
  <2>5. QED BY <2>3, <2>4
<1>2. CASE p.format = "adpcm"
  <2>1. p.end % 16 >= 2 /\ a.cur % 16 >= 2
    BY <1>2 DEF Plays, InBlock
  <2>0. \A y \in Nat :
           /\ y % 16 \in 0..(16 - 1) /\ y \div 16 \in Nat
           /\ (y % 16) + 1 = 16 => (y + 1) \div 16 = y \div 16 + 1 /\ (y + 1) % 16 = 0
           /\ (y % 16) + 1 # 16 => (y + 1) \div 16 = y \div 16 /\ (y + 1) % 16 = (y % 16) + 1
    BY NextDiv
  <2>2. /\ a.cur % 16 \in 0..(16 - 1) /\ a.cur \div 16 \in Nat
        /\ (a.cur % 16) + 1 = 16 => c \div 16 = a.cur \div 16 + 1 /\ c % 16 = 0
        /\ (a.cur % 16) + 1 # 16 => c \div 16 = a.cur \div 16 /\ c % 16 = (a.cur % 16) + 1
    BY <2>0
  <2>3. ~(p.end % 16 = 0 /\ c = p.end) /\ ~(p.end % 16 = 1 /\ c = p.end - 1)
    <3>. HIDE DEF c
    <3>1. p.end % 16 # 0 /\ p.end % 16 # 1
      BY <2>1
    <3>2. QED BY <3>1
  <2>4. CASE c % 16 = 0
    <3>1. n = [cur |-> c + 2, scale |-> Header(p, c), step |-> Beyond(TRUE)]
      BY <1>2, <2>3, <2>4 DEF Following
    <3>2. n.cur = c + 2 /\ n.step = 4 /\ n.scale = Header(p, c)
      BY <3>1 DEF Beyond
    <3>3. NextIn(p, a.cur) = c + 2
      BY <1>2, <2>4 DEF NextIn
    <3>4. (c + 2) \div 16 = c \div 16
      <4>1. c \in Nat /\ c + 1 \in Nat
        OBVIOUS
      <4>2. (c + 1) \div 16 = c \div 16 /\ (c + 1) % 16 = 1
        <5>1. (c % 16) + 1 # 16
          BY <2>4
        <5>2. (c + 1) \div 16 = c \div 16 /\ (c + 1) % 16 = (c % 16) + 1
          BY <2>0, <4>1, <5>1
        <5>3. QED BY <2>4, <5>2
      <4>3. ((c + 1) + 1) \div 16 = (c + 1) \div 16
        <5>1. ((c + 1) % 16) + 1 # 16
          BY <4>2
        <5>2. QED BY <2>0, <4>1, <5>1
      <4>. HIDE DEF c
      <4>4. (c + 1) + 1 = c + 2
        BY <4>1
      <4>5. QED BY <4>2, <4>3, <4>4
    <3>5. Header(p, c + 2) = Header(p, c)
      BY <1>2, <3>4 DEF Header
    <3>6. n.cur = p.end + n.step - 1 <=> a.cur = p.end
      BY <1>0, <3>2
    <3>7. QED BY <3>2, <3>3, <3>5, <3>6
  <2>5. CASE c % 16 # 0
    <3>1. n = [cur |-> c, scale |-> a.scale, step |-> Beyond(FALSE)]
      BY <1>2, <2>3, <2>5 DEF Following
    <3>2. n.cur = c /\ n.step = 2 /\ n.scale = a.scale
      BY <3>1 DEF Beyond
    <3>3. NextIn(p, a.cur) = c
      BY <1>2, <2>5 DEF NextIn
    <3>4. c \div 16 = a.cur \div 16
      BY <2>2, <2>5
    <3>5. Header(p, c) = Header(p, a.cur)
      BY <1>2, <3>4 DEF Header
    <3>6. n.cur = p.end + n.step - 1 <=> a.cur = p.end
      BY <1>0, <3>2
    <3>7. QED BY <3>2, <3>3, <3>5, <3>6
  <2>6. QED BY <2>4, <2>5
<1>3. QED BY <1>1, <1>2

\* The pass a sample belongs to.
Whole(w, k) == IF Place(w, k).pass = 0 THEN FirstPass(w) ELSE LoopPass(w)

LEMMA Passes ==
  ASSUME NEW w, Plays(w)
  PROVE  PassTo(w, FirstPass(w), w.first, w.end) /\ PassTo(w, LoopPass(w), w.loop, w.end)
<1>1. /\ w.first \in Nat /\ w.loop \in Nat /\ w.end \in Nat /\ w.first <= w.end /\ w.loop <= w.end
      /\ InBlock(w, w.first) /\ InBlock(w, w.loop) /\ InBlock(w, w.end)
  BY DEF Plays
<1>2. QED BY <1>1, ReadableFacts DEF FirstPass, LoopPass

LEMMA PlaceFacts ==
  ASSUME NEW w, Plays(w), NEW k \in Nat \ {0}
  PROVE  /\ Place(w, k).pass \in Nat /\ Place(w, k).at \in 1..Len(Whole(w, k))
         /\ At(w, k) = Whole(w, k)[Place(w, k).at]
         /\ Place(w, k).pass = 0 <=> k <= Len(FirstPass(w))
         /\ Place(w, k).pass = 0 => Place(w, k).at = k
         /\ Place(w, k).at # Len(Whole(w, k)) =>
              Place(w, k + 1) = [pass |-> Place(w, k).pass, at |-> Place(w, k).at + 1]
         /\ Place(w, k).at = Len(Whole(w, k)) =>
              Place(w, k + 1) = [pass |-> Place(w, k).pass + 1, at |-> 1]
<1>. DEFINE n == Len(FirstPass(w))
            m == Len(LoopPass(w))
            x == k - n - 1
            q == Place(w, k)
<1>1. n \in Nat \ {0} /\ m \in Nat \ {0}
  BY Passes DEF PassTo
<1>2. \A i \in Nat : Place(w, i) = IF i - n <= 0 THEN [pass |-> 0, at |-> i]
                       ELSE [pass |-> 1 + (i - n - 1) \div m, at |-> 1 + ((i - n - 1) % m)]
  BY DEF Place
<1>3. At(w, k) = Whole(w, k)[q.at]
  BY DEF At, Whole
<1>4. CASE k <= n
  <2>1. q = [pass |-> 0, at |-> k]
    <3>1. k - n <= 0
      BY <1>1, <1>4
    <3>2. QED BY <1>2, <3>1
  <2>2. Len(Whole(w, k)) = n
    BY <2>1 DEF Whole
  <2>3. k # n => Place(w, k + 1) = [pass |-> 0, at |-> k + 1]
    <3>. HIDE DEF n, m
    <3>1. k # n => (k + 1) - n <= 0
      BY <1>1, <1>4
    <3>2. QED BY <1>2, <3>1
  <2>4. k = n => Place(w, k + 1) = [pass |-> 1, at |-> 1]
    <3>. HIDE DEF n, m
    <3>1. k = n => ~((k + 1) - n <= 0) /\ (k + 1) - n - 1 = 0
      BY <1>1
    <3>2. 0 \div m = 0 /\ 0 % m = 0
      BY <1>1
    <3>3. k + 1 \in Nat /\ 1 + 0 = 1
      OBVIOUS
    <3>4. QED BY <1>2, <3>1, <3>2, <3>3
  <2>5. k \in 1..n
    BY <1>1, <1>4
  <2>. HIDE DEF n, m, q
  <2>6. q.pass = 0 /\ q.at = k /\ 0 + 1 = 1
    BY <2>1
  <2>7. QED BY <1>3, <1>4, <2>2, <2>3, <2>4, <2>5, <2>6 DEF q, n
<1>5. CASE ~(k <= n)
  <2>1. x \in Nat /\ ~(k - n <= 0) /\ ~((k + 1) - n <= 0) /\ (k + 1) - n - 1 = x + 1 /\ k + 1 \in Nat
    <3>. HIDE DEF m
    <3>1. QED BY <1>1, <1>5
  <2>2. q = [pass |-> 1 + x \div m, at |-> 1 + (x % m)]
    BY <1>2, <2>1
  <2>3. Place(w, k + 1) = [pass |-> 1 + (x + 1) \div m, at |-> 1 + ((x + 1) % m)]
    BY <1>2, <2>1
  <2>. HIDE DEF x, n
  <2>4. /\ x % m \in 0..(m - 1) /\ x \div m \in Nat
        /\ (x % m) + 1 = m => (x + 1) \div m = x \div m + 1 /\ (x + 1) % m = 0
        /\ (x % m) + 1 # m => (x + 1) \div m = x \div m /\ (x + 1) % m = (x % m) + 1
    BY <1>1, <2>1, NextDiv
  <2>. DEFINE d == x \div m
              e == x % m
              d1 == (x + 1) \div m
              e1 == (x + 1) % m
  <2>5. /\ e \in 0..(m - 1) /\ d \in Nat
        /\ e + 1 = m => d1 = d + 1 /\ e1 = 0
        /\ e + 1 # m => d1 = d /\ e1 = e + 1
    BY <2>4
  <2>6. q = [pass |-> 1 + d, at |-> 1 + e] /\ Place(w, k + 1) = [pass |-> 1 + d1, at |-> 1 + e1]
    BY <2>2, <2>3
  <2>. HIDE DEF d, e, d1, e1, q
  <2>7. q.pass = 1 + d /\ q.at = 1 + e /\ q.pass # 0 /\ q.pass \in Nat
    BY <2>5, <2>6
  <2>8. Len(Whole(w, k)) = m
    BY <2>7 DEF Whole, q
  <2>. HIDE DEF m
  <2>9. q.at \in 1..m
    BY <1>1, <2>5, <2>7
  <2>10. q.at # m => Place(w, k + 1) = [pass |-> q.pass, at |-> q.at + 1]
    <3>1. q.at # m => d1 = d /\ 1 + e1 = (1 + e) + 1
      BY <1>1, <2>5, <2>7
    <3>2. QED BY <2>6, <2>7, <3>1
  <2>11. q.at = m => Place(w, k + 1) = [pass |-> q.pass + 1, at |-> 1]
    <3>1. q.at = m => 1 + d1 = (1 + d) + 1 /\ 1 + e1 = 1
      BY <1>1, <2>5, <2>7
    <3>2. QED BY <2>6, <2>7, <3>1
  <2>12. QED BY <1>3, <1>5, <2>7, <2>8, <2>9, <2>10, <2>11 DEF q, n
<1>6. QED BY <1>4, <1>5

LEMMA AtFacts ==
  ASSUME NEW w, Plays(w), NEW k \in Nat \ {0}
  PROVE  /\ At(w, k) \in Nat /\ At(w, k) <= w.end /\ InBlock(w, At(w, k))
         /\ At(w, k) = w.end <=> Place(w, k).at = Len(Whole(w, k))
         /\ At(w, k) # w.end => At(w, k + 1) = NextIn(w, At(w, k))
         /\ At(w, k) = w.end => At(w, k + 1) = w.loop
<1>. DEFINE q == Place(w, k)
            r == Place(w, k + 1)
            R == Whole(w, k)
            from == IF q.pass = 0 THEN w.first ELSE w.loop
<1>1. PassTo(w, R, from, w.end) /\ from \in Nat /\ w.end \in Nat
  BY Passes DEF Whole, Plays
<1>2. /\ R \in Seq(Nat) /\ Len(R) \in Nat \ {0} /\ R[Len(R)] = w.end
      /\ \A i \in 1..Len(R) : R[i] \in from..w.end /\ InBlock(w, R[i]) /\ (R[i] = w.end => i = Len(R))
      /\ \A i \in 1..Len(R) - 1 : R[i + 1] = NextIn(w, R[i])
  BY <1>1 DEF PassTo
<1>3. /\ q.pass \in Nat /\ q.at \in 1..Len(R) /\ At(w, k) = R[q.at]
      /\ q.at # Len(R) => r = [pass |-> q.pass, at |-> q.at + 1]
      /\ q.at = Len(R) => r = [pass |-> q.pass + 1, at |-> 1]
  BY PlaceFacts
<1>4. At(w, k + 1) = Whole(w, k + 1)[r.at]
  <2>1. k + 1 \in Nat \ {0}
    OBVIOUS
  <2>2. QED BY <2>1, PlaceFacts
<1>. HIDE DEF R, from
<1>5. At(w, k) \in Nat /\ At(w, k) <= w.end /\ InBlock(w, At(w, k))
  BY <1>1, <1>2, <1>3
<1>6. At(w, k) = w.end <=> q.at = Len(R)
  BY <1>2, <1>3
<1>7. ASSUME q.at # Len(R) PROVE At(w, k + 1) = NextIn(w, At(w, k))
  <2>1. r.pass = q.pass /\ r.at = q.at + 1
    BY <1>3, <1>7
  <2>2. Whole(w, k + 1) = R
    BY <2>1 DEF Whole, R
  <2>3. q.at \in 1..Len(R) - 1
    BY <1>2, <1>3, <1>7
  <2>. HIDE DEF q, r
  <2>4. QED BY <1>2, <1>3, <1>4, <2>1, <2>2, <2>3
<1>8. ASSUME q.at = Len(R) PROVE At(w, k + 1) = w.loop
  <2>1. r.pass = q.pass + 1 /\ r.at = 1 /\ r.pass # 0
    BY <1>3, <1>8
  <2>2. Whole(w, k + 1) = LoopPass(w)
    BY <2>1 DEF Whole
  <2>3. LoopPass(w)[1] = w.loop
    BY Passes DEF PassTo
  <2>4. QED BY <1>4, <2>1, <2>2, <2>3
<1>9. QED BY <1>5, <1>6, <1>7, <1>8 DEF R

LEMMA BeforeTyped ==
  ASSUME NEW w, Plays(w), NEW k \in Nat \ {0}
  PROVE  Before(w, k, 1) \in Int
<1>1. k > 1 => k - 1 \in Nat \ {0}
  OBVIOUS
<1>2. k > 1 => At(w, k - 1) \in Int
  BY <1>1, AtFacts
<1>3. Before(w, k, 1) \in {At(w, k - 1), LoopYn1, LoopYn2, -1}
      /\ (Before(w, k, 1) = At(w, k - 1) => k > 1 \/ Before(w, k, 1) \in {LoopYn1, LoopYn2, -1})
  <2>1. CASE k > 1 /\ (Place(w, k).at > 1 \/ w.stream)
    BY <2>1 DEF Before
  <2>2. CASE ~(k > 1 /\ (Place(w, k).at > 1 \/ w.stream))
    <3>1. Before(w, k, 1) \in {LoopYn1, LoopYn2, -1}
      BY <2>2 DEF Before
    <3>2. QED BY <3>1
  <2>3. QED BY <2>1, <2>2
<1>4. QED BY <1>2, <1>3 DEF LoopYn1, LoopYn2

\* A note's first sample.
LEMMA FirstExpected ==
  ASSUME NEW w, Plays(w)
  PROVE  /\ Expected(w, 1) = [at |-> w.first, scale |-> Header(w, w.first), y1 |-> -1, y2 |-> -1]
         /\ Place(w, 1) = [pass |-> 0, at |-> 1]
<1>1. 1 \in Nat \ {0} /\ 1 <= Len(FirstPass(w)) /\ FirstPass(w)[1] = w.first
  BY Passes DEF PassTo
<1>2. Place(w, 1).pass = 0 /\ Place(w, 1) = [pass |-> 0, at |-> 1]
  <2>1. Len(FirstPass(w)) \in Nat
    BY Passes DEF PassTo
  <2>2. 1 - Len(FirstPass(w)) <= 0
    BY <1>1, <2>1
  <2>3. QED BY <2>2 DEF Place
<1>3. At(w, 1) = w.first
  BY <1>1, <1>2 DEF At
<1>4. Before(w, 1, 1) = -1 /\ Before(w, 1, 2) = -1
  BY <1>2 DEF Before
<1>5. QED BY <1>2, <1>3, <1>4 DEF Expected

\* What follows a sample: the next address with the values before it, or the
\* loop's start, with a stream's own values or the loop's.
LEMMA NextExpected ==
  ASSUME NEW w, Plays(w), NEW k \in Nat \ {0}
  PROVE  /\ Expected(w, k) = [at |-> At(w, k), scale |-> Header(w, At(w, k)),
                              y1 |-> Before(w, k, 1), y2 |-> Before(w, k, 2)]
         /\ At(w, k) # w.end =>
              Expected(w, k + 1) = [at |-> NextIn(w, At(w, k)), scale |-> Header(w, NextIn(w, At(w, k))),
                                    y1 |-> At(w, k), y2 |-> Before(w, k, 1)]
         /\ At(w, k) = w.end =>
              Expected(w, k + 1) = [at |-> w.loop, scale |-> Header(w, w.loop),
                                    y1 |-> IF w.stream THEN At(w, k) ELSE LoopYn1,
                                    y2 |-> IF w.stream THEN Before(w, k, 1) ELSE LoopYn2]
<1>. DEFINE q == Place(w, k)
            r == Place(w, k + 1)
            n == Len(Whole(w, k))
<1>1. /\ q.pass \in Nat /\ q.at \in 1..n
      /\ q.pass = 0 => q.at = k
      /\ q.at # n => r = [pass |-> q.pass, at |-> q.at + 1]
      /\ q.at = n => r = [pass |-> q.pass + 1, at |-> 1]
  BY PlaceFacts
<1>2. /\ At(w, k) = w.end <=> q.at = n
      /\ At(w, k) # w.end => At(w, k + 1) = NextIn(w, At(w, k))
      /\ At(w, k) = w.end => At(w, k + 1) = w.loop
  BY AtFacts
<1>3. w.stream \in BOOLEAN
  BY DEF Plays
<1>. HIDE DEF n
<1>4. ASSUME q.at # n
      PROVE  Before(w, k + 1, 1) = At(w, k) /\ Before(w, k + 1, 2) = Before(w, k, 1)
  <2>1. /\ r.pass = q.pass /\ r.at = q.at + 1 /\ r.at > 1 /\ k + 1 > 1 /\ (k + 1) - 1 = k
        /\ ~(r.at <= 1) /\ r.at \in Nat /\ q.at \in Nat
    BY <1>1, <1>4
  <2>2. Before(w, k + 1, 1) = At(w, k)
    <3>1. Before(w, k + 1, 1) = At(w, (k + 1) - 1)
      BY <2>1 DEF Before
    <3>2. QED BY <2>1, <3>1
  <2>3. /\ r.at > 2 <=> q.at > 1
        /\ r.at <= 2 <=> q.at <= 1
        /\ k + 1 > 2 <=> k > 1
        /\ r.at = 2 <=> q.at = 1
        /\ (k + 1) - 2 = k - 1
    BY <1>1, <2>1
  <2>4. Before(w, k + 1, 2) = Before(w, k, 1)
    <3>1. CASE k > 1 /\ (q.at > 1 \/ w.stream)
      <4>1. Before(w, k, 1) = At(w, k - 1)
        <5>1. ~(q.at <= 1 /\ ~w.stream)
          BY <2>1, <3>1
        <5>2. QED BY <3>1, <5>1 DEF Before
      <4>2. Before(w, k + 1, 2) = At(w, (k + 1) - 2)
        <5>1. k + 1 > 2 /\ (r.at > 2 \/ w.stream) /\ ~(r.at <= 2 /\ ~w.stream)
          BY <2>1, <2>3, <3>1
        <5>2. QED BY <5>1 DEF Before
      <4>3. QED BY <2>3, <4>1, <4>2
    <3>2. CASE ~(k > 1 /\ (q.at > 1 \/ w.stream)) /\ q.pass > 0 /\ q.at <= 1 /\ ~w.stream
      <4>1. Before(w, k, 1) = IF q.at = 1 THEN LoopYn1 ELSE LoopYn2
        BY <3>2 DEF Before
      <4>2. Before(w, k + 1, 2) = IF r.at = 2 THEN LoopYn1 ELSE LoopYn2
        BY <2>1, <2>3, <3>2 DEF Before
      <4>3. QED BY <2>3, <4>1, <4>2
    <3>3. CASE ~(k > 1 /\ (q.at > 1 \/ w.stream)) /\ ~(q.pass > 0 /\ q.at <= 1 /\ ~w.stream)
      <4>1. Before(w, k, 1) = -1
        BY <3>3 DEF Before
      <4>2. Before(w, k + 1, 2) = -1
        BY <2>1, <2>3, <3>3 DEF Before
      <4>3. QED BY <4>1, <4>2
    <3>4. QED BY <3>1, <3>2, <3>3
  <2>5. QED BY <2>2, <2>4
<1>5. ASSUME q.at = n, w.stream
      PROVE  Before(w, k + 1, 1) = At(w, k) /\ Before(w, k + 1, 2) = Before(w, k, 1)
  <2>1. k + 1 > 1 /\ (k + 1) - 1 = k /\ (k + 1 > 2 <=> k > 1) /\ (k + 1) - 2 = k - 1
    OBVIOUS
  <2>2. Before(w, k + 1, 1) = At(w, k)
    BY <1>5, <2>1 DEF Before
  <2>3. Before(w, k + 1, 2) = IF k > 1 THEN At(w, k - 1) ELSE -1
    BY <1>5, <2>1 DEF Before
  <2>4. Before(w, k, 1) = IF k > 1 THEN At(w, k - 1) ELSE -1
    BY <1>5 DEF Before
  <2>5. QED BY <2>2, <2>3, <2>4
<1>6. ASSUME q.at = n, ~w.stream
      PROVE  Before(w, k + 1, 1) = LoopYn1 /\ Before(w, k + 1, 2) = LoopYn2
  <2>1. r.pass > 0 /\ r.at = 1
    BY <1>1, <1>6
  <2>2. QED BY <1>6, <2>1 DEF Before
<1>7. Expected(w, k + 1) = [at |-> At(w, k + 1), scale |-> Header(w, At(w, k + 1)),
                            y1 |-> Before(w, k + 1, 1), y2 |-> Before(w, k + 1, 2)]
  <2>1. ~(k + 1 < 1)
    OBVIOUS
  <2>2. QED BY <2>1 DEF Expected
<1>8. Expected(w, k) = [at |-> At(w, k), scale |-> Header(w, At(w, k)),
                        y1 |-> Before(w, k, 1), y2 |-> Before(w, k, 2)]
  <2>1. ~(k < 1)
    OBVIOUS
  <2>2. QED BY <2>1 DEF Expected
<1>. HIDE DEF q, r
<1>9. CASE q.at # n
  BY <1>2, <1>4, <1>7, <1>8, <1>9
<1>10. CASE q.at = n
  BY <1>2, <1>3, <1>5, <1>6, <1>7, <1>8, <1>10
<1>11. QED BY <1>9, <1>10

\* All of this depends on the track alone.
Alike(v, w) ==
  /\ v.format = w.format /\ v.first = w.first /\ v.loop = w.loop /\ v.end = w.end
  /\ v.looping = w.looping /\ v.stream = w.stream

ReadBy(format, end, from) ==
  LET R[n \in 0..(end - from + 1)] ==
          IF n = 0 THEN << >>
          ELSE IF format = "adpcm" => (from + n - 1) % 16 >= 2 THEN Append(R[n - 1], from + n - 1)
               ELSE R[n - 1]
  IN  R[end - from + 1]

LEMMA SameTrack ==
  ASSUME NEW v, NEW w, Alike(v, w)
  PROVE  /\ \A k : Expected(v, k) = Expected(w, k) /\ Place(v, k) = Place(w, k) /\ At(v, k) = At(w, k)
         /\ \A k : Over(v, k) <=> Over(w, k)
         /\ FirstPass(v) = FirstPass(w) /\ LoopPass(v) = LoopPass(w)
         /\ \A a : Header(v, a) = Header(w, a)
         /\ Plays(v) <=> Plays(w)
<1>0. /\ v.format = w.format /\ v.first = w.first /\ v.loop = w.loop /\ v.end = w.end
      /\ v.looping = w.looping /\ v.stream = w.stream
  BY DEF Alike
<1>1. \A from : Readable(v, from) = Readable(w, from)
  <2>1. \A from : Readable(v, from) = ReadBy(v.format, v.end, from)
    BY Zenon DEF Readable, ReadBy, InBlock
  <2>2. \A from : Readable(w, from) = ReadBy(w.format, w.end, from)
    BY Zenon DEF Readable, ReadBy, InBlock
  <2>3. QED BY <1>0, <2>1, <2>2
<1>2. FirstPass(v) = FirstPass(w) /\ LoopPass(v) = LoopPass(w)
  BY <1>0, <1>1 DEF FirstPass, LoopPass
<1>3. \A k : Place(v, k) = Place(w, k)
  BY <1>2, Zenon DEF Place
<1>4. \A k : At(v, k) = At(w, k)
  BY <1>2, <1>3 DEF At
<1>5. \A a : Header(v, a) = Header(w, a)
  BY <1>0 DEF Header
<1>6. \A k, j : Before(v, k, j) = Before(w, k, j)
  <2>. SUFFICES ASSUME NEW k, NEW j PROVE Before(v, k, j) = Before(w, k, j)
    OBVIOUS
  <2>1. Place(v, k) = Place(w, k) /\ At(v, k - j) = At(w, k - j) /\ v.stream = w.stream
    BY <1>0, <1>3, <1>4
  <2>2. QED BY <2>1, Zenon DEF Before
<1>7. \A k : Expected(v, k) = Expected(w, k)
  BY <1>4, <1>5, <1>6 DEF Expected
<1>8. \A k : Over(v, k) <=> Over(w, k)
  BY <1>0, <1>2 DEF Over
<1>9. Plays(v) <=> Plays(w)
  <2>1. \A a : InBlock(v, a) <=> InBlock(w, a)
    BY <1>0 DEF InBlock
  <2>2. QED BY <1>0, <2>1 DEF Plays
<1>10. QED BY <1>2, <1>3, <1>4, <1>5, <1>7, <1>8, <1>9

-----------------------------------------------------------------------------
(* A run of the voice, sample by sample.                                    *)

Sounds == [at : Int, scale : Int, y1 : Int, y2 : Int]
Windows == [1..4 -> Sounds]
Tracked == [format : {"adpcm", "pcm"}, first : Nat, loop : Nat, end : Nat,
            looping : BOOLEAN, stream : BOOLEAN]
Queues == [1..MsPerFrame -> {"none", "run", "stop"}]
PBs == [format : {"adpcm", "pcm"}, first : Nat, loop : Nat, end : Nat,
        looping : BOOLEAN, stream : BOOLEAN, cur : Int, scale : Int, loopScale : Int,
        y1 : Int, y2 : Int, running : BOOLEAN, ratio : Nat, convert : BOOLEAN, frac : Int,
        last : Windows, loops : Int, updates : Queues]
Reads == [cur : Int, scale : Int, y1 : Int, y2 : Int, stopped : BOOLEAN]
Runs == [p : PBs, fed : Nat, a : Reads, last : Windows, pos : Int]

\* The window of four moved by one.
Moved(w, v) == Append(Tail(w), v)

LEMMA WindowMoves ==
  ASSUME NEW w \in Windows, NEW v \in Sounds
  PROVE  /\ Moved(w, v) \in Windows
         /\ \A i \in 1..3 : Moved(w, v)[i] = w[i + 1]
         /\ Moved(w, v)[4] = v
<1>1. w \in Seq(Sounds) /\ Len(w) = 4
  <2>1. w \in [1..4 -> Sounds] /\ 4 \in Nat
    BY DEF Windows
  <2>2. w \in Seq(Sounds)
    BY <2>1, SeqDef
  <2>3. DOMAIN w = 1..4
    BY <2>1
  <2>4. QED BY <2>2, <2>3, LenProperties
<1>. DEFINE t == Tail(w)
<1>2. t \in Seq(Sounds) /\ Len(t) = 3 /\ \A i \in 1..3 : t[i] = w[i + 1]
  <2>1. w # << >>
    BY <1>1
  <2>2. t \in Seq(Sounds) /\ Len(t) = Len(w) - 1 /\ \A i \in 1..Len(t) : t[i] = w[i + 1]
    BY <1>1, <2>1, HeadTailProperties
  <2>. HIDE DEF t
  <2>3. QED BY <1>1, <2>2
<1>. HIDE DEF t
<1>3. /\ Append(t, v) \in Seq(Sounds) /\ Len(Append(t, v)) = 4
      /\ \A i \in 1..3 : Append(t, v)[i] = t[i]
      /\ Append(t, v)[4] = v
  <2>. DEFINE u == Append(t, v)
  <2>1. u \in Seq(Sounds) /\ Len(u) = Len(t) + 1 /\ (\A i \in 1..Len(t) : u[i] = t[i])
        /\ u[Len(t) + 1] = v
    <3>1. \A s \in Seq(Sounds) :
            /\ Append(s, v) \in Seq(Sounds) /\ Len(Append(s, v)) = Len(s) + 1
            /\ \A i \in 1..Len(s) : Append(s, v)[i] = s[i]
            /\ Append(s, v)[Len(s) + 1] = v
      BY AppendProperties
    <3>2. QED BY <1>2, <3>1
  <2>. HIDE DEF u
  <2>2. Len(u) = 4 /\ (\A i \in 1..3 : u[i] = t[i]) /\ u[4] = v
    BY <1>2, <2>1
  <2>3. QED BY <2>1, <2>2 DEF u
<1>4. Moved(w, v) = Append(t, v)
  BY DEF Moved, t
<1>5. Moved(w, v) \in Windows
  <2>. DEFINE u == Moved(w, v)
  <2>1. u \in Seq(Sounds) /\ Len(u) = 4
    BY <1>3, <1>4
  <2>. HIDE DEF u
  <2>2. u \in [1..4 -> Sounds]
    BY <2>1, LenProperties
  <2>3. QED BY <2>2 DEF Windows, u
<1>6. QED BY <1>2, <1>3, <1>4, <1>5

\* What a sample is and does.
Read(a) == [at |-> a.cur, scale |-> a.scale, y1 |-> a.y1, y2 |-> a.y2]
Ends(x) == Following(x.p, x.a).cur = x.p.end + Following(x.p, x.a).step - 1
Run(p, fed1, a, last, pos) == [p |-> p, fed |-> fed1, a |-> a, last |-> last, pos |-> pos]
Reading(cur, scale, y1, y2, stopped) ==
  [cur |-> cur, scale |-> scale, y1 |-> y1, y2 |-> y2, stopped |-> stopped]

Read4(a, c, s, g1, g2) == [a EXCEPT !.cur = c, !.scale = s, !.y1 = g1, !.y2 = g2]
ReadStop(a, b) == [a EXCEPT !.stopped = b]
Read1(a, s) == [a EXCEPT !.scale = s]
Read3(a, s, g1, g2) == [a EXCEPT !.scale = s, !.y1 = g1, !.y2 = g2]
Run3(x, n, c, l) == [x EXCEPT !.a = c, !.last = l, !.fed = n]
RunLast(x, l) == [x EXCEPT !.last = l]
RunPos(x, l) == [x EXCEPT !.pos = l]
RunOver(x, b) == [x EXCEPT !.a = b, !.p.running = FALSE]
RunLoops(x, b) == [x EXCEPT !.a = b, !.p.loops = IF gc THEN @ + 1 ELSE @]
RunOn(x, b) == [x EXCEPT !.a = b]

LEMMA EditedRead ==
  ASSUME NEW a \in Reads, NEW c, NEW s, NEW g1, NEW g2
  PROVE  Read4(a, c, s, g1, g2) = Reading(c, s, g1, g2, a.stopped)
<1>1. [a EXCEPT !.cur = c, !.scale = s, !.y1 = g1, !.y2 = g2]
        = [[[[a EXCEPT !.cur = c] EXCEPT !.scale = s] EXCEPT !.y1 = g1] EXCEPT !.y2 = g2]
  OBVIOUS
<1>2. [a EXCEPT !.cur = c] = Reading(c, a.scale, a.y1, a.y2, a.stopped)
  BY DEF Reads, Reading
<1>3. [Reading(c, a.scale, a.y1, a.y2, a.stopped) EXCEPT !.scale = s]
        = Reading(c, s, a.y1, a.y2, a.stopped)
  BY DEF Reading
<1>4. [Reading(c, s, a.y1, a.y2, a.stopped) EXCEPT !.y1 = g1] = Reading(c, s, g1, a.y2, a.stopped)
  BY DEF Reading
<1>5. [Reading(c, s, g1, a.y2, a.stopped) EXCEPT !.y2 = g2] = Reading(c, s, g1, g2, a.stopped)
  BY DEF Reading
<1>6. QED BY <1>1, <1>2, <1>3, <1>4, <1>5 DEF Read4

LEMMA EditedLoop ==
  ASSUME NEW c, NEW s, NEW h1, NEW h2, NEW b, NEW s1, NEW g1, NEW g2
  PROVE  /\ ReadStop(Reading(c, s, h1, h2, b), s1) = Reading(c, s, h1, h2, s1)
         /\ Read1(Reading(c, s, h1, h2, b), s1) = Reading(c, s1, h1, h2, b)
         /\ Read3(Reading(c, s, h1, h2, b), s1, g1, g2) = Reading(c, s1, g1, g2, b)
<1>1. [Reading(c, s, h1, h2, b) EXCEPT !.scale = s1, !.y1 = g1, !.y2 = g2]
        = [[[Reading(c, s, h1, h2, b) EXCEPT !.scale = s1] EXCEPT !.y1 = g1] EXCEPT !.y2 = g2]
  OBVIOUS
<1>2. [Reading(c, s, h1, h2, b) EXCEPT !.scale = s1] = Reading(c, s1, h1, h2, b)
  BY DEF Reading
<1>3. [Reading(c, s1, h1, h2, b) EXCEPT !.y1 = g1] = Reading(c, s1, g1, h2, b)
  BY DEF Reading
<1>4. [Reading(c, s1, g1, h2, b) EXCEPT !.y2 = g2] = Reading(c, s1, g1, g2, b)
  BY DEF Reading
<1>6. [Reading(c, s, h1, h2, b) EXCEPT !.stopped = s1] = Reading(c, s, h1, h2, s1)
  BY DEF Reading
<1>5. QED BY <1>1, <1>2, <1>3, <1>4, <1>6 DEF Read1, Read3, ReadStop

LEMMA EditedRun ==
  ASSUME NEW x \in Runs, NEW n, NEW c, NEW l
  PROVE  /\ Run3(x, n, c, l) = Run(x.p, n, c, l, x.pos)
         /\ RunLast(x, l) = Run(x.p, x.fed, x.a, l, x.pos)
         /\ RunPos(x, l) = Run(x.p, x.fed, x.a, x.last, l)
<1>1. [x EXCEPT !.a = c, !.last = l, !.fed = n]
        = [[[x EXCEPT !.a = c] EXCEPT !.last = l] EXCEPT !.fed = n]
  OBVIOUS
<1>2. [x EXCEPT !.a = c] = Run(x.p, x.fed, c, x.last, x.pos)
  BY DEF Runs, Run
<1>3. [Run(x.p, x.fed, c, x.last, x.pos) EXCEPT !.last = l] = Run(x.p, x.fed, c, l, x.pos)
  BY DEF Run
<1>4. [Run(x.p, x.fed, c, l, x.pos) EXCEPT !.fed = n] = Run(x.p, n, c, l, x.pos)
  BY DEF Run
<1>5. [x EXCEPT !.last = l] = Run(x.p, x.fed, x.a, l, x.pos)
  BY DEF Runs, Run
<1>6. [x EXCEPT !.pos = l] = Run(x.p, x.fed, x.a, x.last, l)
  BY DEF Runs, Run
<1>7. QED BY <1>1, <1>2, <1>3, <1>4, <1>5, <1>6 DEF Run3, RunLast, RunPos

LEMMA EditedEnd ==
  ASSUME NEW p, NEW n, NEW c, NEW l, NEW pos, NEW b
  PROVE  /\ RunOver(Run(p, n, c, l, pos), b) = Run([p EXCEPT !.running = FALSE], n, b, l, pos)
         /\ RunLoops(Run(p, n, c, l, pos), b)
              = Run([p EXCEPT !.loops = IF gc THEN @ + 1 ELSE @], n, b, l, pos)
         /\ RunOn(Run(p, n, c, l, pos), b) = Run(p, n, b, l, pos)
<1>. DEFINE y == Run(p, n, c, l, pos)
            z == Run(p, n, b, l, pos)
<1>1. [y EXCEPT !.a = b] = z /\ z.p = p
  BY DEF Run
<1>2. /\ [y EXCEPT !.a = b, !.p.running = FALSE]
           = [[y EXCEPT !.a = b] EXCEPT !.p = [[y EXCEPT !.a = b].p EXCEPT !.running = FALSE]]
      /\ [y EXCEPT !.a = b, !.p.loops = IF gc THEN @ + 1 ELSE @]
           = [[y EXCEPT !.a = b] EXCEPT
                !.p = [[y EXCEPT !.a = b].p EXCEPT !.loops = IF gc THEN @ + 1 ELSE @]]
  <2>. HIDE DEF y
  <2>1. QED OBVIOUS
<1>3. \A v : [z EXCEPT !.p = v] = Run(v, n, b, l, pos)
  BY DEF Run
<1>. HIDE DEF y, z
<1>4. [y EXCEPT !.a = b, !.p.running = FALSE] = [z EXCEPT !.p = [p EXCEPT !.running = FALSE]]
  BY <1>1, <1>2
<1>5. [y EXCEPT !.a = b, !.p.loops = IF gc THEN @ + 1 ELSE @]
        = [z EXCEPT !.p = [p EXCEPT !.loops = IF gc THEN @ + 1 ELSE @]]
  BY <1>1, <1>2
<1>6. QED BY <1>1, <1>3, <1>4, <1>5 DEF y, z, RunOver, RunLoops, RunOn

LEMMA SampleIs ==
  ASSUME NEW x \in Runs
  PROVE  /\ x.a.stopped =>
              Sample(x) = Run(x.p, x.fed, x.a, Moved(x.last, Silence), x.pos)
         /\ ~x.a.stopped /\ ~Ends(x) =>
              Sample(x) = Run(x.p, x.fed + 1,
                              Reading(Following(x.p, x.a).cur, Following(x.p, x.a).scale,
                                      x.a.cur, x.a.y1, FALSE),
                              Moved(x.last, Read(x.a)), x.pos)
         /\ ~x.a.stopped /\ Ends(x) /\ ~x.p.looping =>
              Sample(x) = Run([x.p EXCEPT !.running = FALSE], x.fed + 1,
                              Reading(x.p.loop, Following(x.p, x.a).scale,
                                      x.a.cur, x.a.y1, TRUE),
                              Moved(x.last, Read(x.a)), x.pos)
         /\ ~x.a.stopped /\ Ends(x) /\ x.p.looping /\ x.p.stream =>
              Sample(x) = Run([x.p EXCEPT !.loops = IF gc THEN @ + 1 ELSE @], x.fed + 1,
                              Reading(x.p.loop, x.p.loopScale, x.a.cur, x.a.y1, FALSE),
                              Moved(x.last, Read(x.a)), x.pos)
         /\ ~x.a.stopped /\ Ends(x) /\ x.p.looping /\ ~x.p.stream =>
              Sample(x) = Run(x.p, x.fed + 1,
                              Reading(x.p.loop, x.p.loopScale, LoopYn1, LoopYn2, FALSE),
                              Moved(x.last, Read(x.a)), x.pos)
<1>. DEFINE n == Following(x.p, x.a)
            a1 == Reading(n.cur, n.scale, x.a.cur, x.a.y1, x.a.stopped)
            y == Run(x.p, x.fed + 1, a1, Moved(x.last, Read(x.a)), x.pos)
<1>1. x = Run(x.p, x.fed, x.a, x.last, x.pos)
      /\ x.a = Reading(x.a.cur, x.a.scale, x.a.y1, x.a.y2, x.a.stopped)
  BY DEF Runs, Reads, Run, Reading
<1>0. x.a \in Reads
  BY DEF Runs
<1>2. a1 = [x.a EXCEPT !.cur = n.cur, !.scale = n.scale, !.y1 = x.a.cur, !.y2 = x.a.y1]
  <2>. HIDE DEF n
  <2>1. Read4(x.a, n.cur, n.scale, x.a.cur, x.a.y1) = a1
    BY <1>0, EditedRead
  <2>. HIDE DEF a1
  <2>2. QED BY <2>1 DEF Read4
<1>3. y = [x EXCEPT !.a = a1, !.last = Moved(x.last, Read(x.a)), !.fed = x.fed + 1]
  <2>. HIDE DEF n, a1
  <2>1. Run3(x, x.fed + 1, a1, Moved(x.last, Read(x.a))) = y
    BY EditedRun
  <2>. HIDE DEF y
  <2>2. QED BY <2>1 DEF Run3
<1>4. Sample(x) = IF x.a.stopped THEN [x EXCEPT !.last = Moved(x.last, Silence)]
                  ELSE IF Ends(x) THEN EndReached(y) ELSE y
  <2>1. y = [x EXCEPT !.a = [x.a EXCEPT !.cur = n.cur, !.scale = n.scale, !.y1 = x.a.cur, !.y2 = x.a.y1],
                      !.last = Append(Tail(x.last), Read(x.a)), !.fed = x.fed + 1]
    BY <1>2, <1>3 DEF Moved
  <2>. HIDE DEF y
  <2>2. QED BY <2>1, Zenon DEF Sample, Ends, Moved, Read
<1>5. ASSUME x.a.stopped
      PROVE  Sample(x) = Run(x.p, x.fed, x.a, Moved(x.last, Silence), x.pos)
  <2>1. Sample(x) = [x EXCEPT !.last = Moved(x.last, Silence)]
    BY <1>4, <1>5
  <2>. DEFINE m == Moved(x.last, Silence)
  <2>. HIDE DEF m
  <2>2. [x EXCEPT !.last = m] = Run(x.p, x.fed, x.a, m, x.pos)
    <3>1. RunLast(x, m) = Run(x.p, x.fed, x.a, m, x.pos)
      BY EditedRun
    <3>2. QED BY <3>1 DEF RunLast
  <2>3. QED BY <2>1, <2>2 DEF m
<1>6. ASSUME ~x.a.stopped, ~Ends(x) PROVE Sample(x) = y /\ x.a.stopped = FALSE
  <2>1. x.a.stopped \in BOOLEAN
    BY DEF Runs, Reads
  <2>2. QED BY <1>4, <1>6, <2>1
<1>7. ASSUME ~x.a.stopped, Ends(x) PROVE Sample(x) = EndReached(y) /\ x.a.stopped = FALSE
  <2>1. x.a.stopped \in BOOLEAN
    BY DEF Runs, Reads
  <2>2. QED BY <1>4, <1>7, <2>1
<1>. DEFINE l == Moved(x.last, Read(x.a))
<1>8. y.p = x.p /\ y = Run(x.p, x.fed + 1, a1, l, x.pos)
  BY DEF Run
<1>9. y.a = a1
  BY DEF Run
<1>10. /\ [a1 EXCEPT !.cur = x.p.loop] = Reading(x.p.loop, n.scale, x.a.cur, x.a.y1, x.a.stopped)
       /\ [[a1 EXCEPT !.cur = x.p.loop] EXCEPT !.stopped = TRUE]
            = Reading(x.p.loop, n.scale, x.a.cur, x.a.y1, TRUE)
       /\ [[a1 EXCEPT !.cur = x.p.loop] EXCEPT !.scale = x.p.loopScale]
            = Reading(x.p.loop, x.p.loopScale, x.a.cur, x.a.y1, x.a.stopped)
       /\ [[a1 EXCEPT !.cur = x.p.loop] EXCEPT !.scale = x.p.loopScale, !.y1 = LoopYn1, !.y2 = LoopYn2]
            = Reading(x.p.loop, x.p.loopScale, LoopYn1, LoopYn2, x.a.stopped)
  <2>. HIDE DEF n
  <2>. DEFINE b == Reading(x.p.loop, n.scale, x.a.cur, x.a.y1, x.a.stopped)
  <2>2. [a1 EXCEPT !.cur = x.p.loop] = b
    BY DEF Reading
  <2>. HIDE DEF a1
  <2>3. [b EXCEPT !.stopped = TRUE] = Reading(x.p.loop, n.scale, x.a.cur, x.a.y1, TRUE)
    <3>. DEFINE v == TRUE
    <3>. HIDE DEF v
    <3>1. ReadStop(b, v) = Reading(x.p.loop, n.scale, x.a.cur, x.a.y1, v)
      BY EditedLoop
    <3>. HIDE DEF b
    <3>2. QED BY <3>1 DEF ReadStop, v
  <2>4. [b EXCEPT !.scale = x.p.loopScale]
          = Reading(x.p.loop, x.p.loopScale, x.a.cur, x.a.y1, x.a.stopped)
    <3>1. Read1(b, x.p.loopScale) = Reading(x.p.loop, x.p.loopScale, x.a.cur, x.a.y1, x.a.stopped)
      BY EditedLoop
    <3>. HIDE DEF b
    <3>2. QED BY <3>1 DEF Read1
  <2>5. [b EXCEPT !.scale = x.p.loopScale, !.y1 = LoopYn1, !.y2 = LoopYn2]
          = Reading(x.p.loop, x.p.loopScale, LoopYn1, LoopYn2, x.a.stopped)
    <3>1. Read3(b, x.p.loopScale, LoopYn1, LoopYn2)
            = Reading(x.p.loop, x.p.loopScale, LoopYn1, LoopYn2, x.a.stopped)
      BY EditedLoop
    <3>. HIDE DEF b
    <3>2. QED BY <3>1 DEF Read3
  <2>6. QED BY <2>2, <2>3, <2>4, <2>5
<1>. HIDE DEF a1, l, n
<1>11. ASSUME NEW b
       PROVE  /\ [y EXCEPT !.a = b, !.p.running = FALSE]
                   = Run([x.p EXCEPT !.running = FALSE], x.fed + 1, b, l, x.pos)
              /\ [y EXCEPT !.a = b, !.p.loops = IF gc THEN @ + 1 ELSE @]
                   = Run([x.p EXCEPT !.loops = IF gc THEN @ + 1 ELSE @], x.fed + 1, b, l, x.pos)
              /\ [y EXCEPT !.a = b] = Run(x.p, x.fed + 1, b, l, x.pos)
  <2>1. /\ RunOver(y, b) = Run([x.p EXCEPT !.running = FALSE], x.fed + 1, b, l, x.pos)
        /\ RunLoops(y, b) = Run([x.p EXCEPT !.loops = IF gc THEN @ + 1 ELSE @], x.fed + 1, b, l, x.pos)
        /\ RunOn(y, b) = Run(x.p, x.fed + 1, b, l, x.pos)
    BY <1>8, EditedEnd
  <2>. HIDE DEF y
  <2>2. QED BY <2>1 DEF RunOver, RunLoops, RunOn
<1>12. x.p.looping \in BOOLEAN /\ x.p.stream \in BOOLEAN
  BY DEF Runs, PBs
<1>. HIDE DEF y
<1>13. ASSUME ~x.p.looping
       PROVE  EndReached(y) = Run([x.p EXCEPT !.running = FALSE], x.fed + 1,
                Reading(x.p.loop, n.scale, x.a.cur, x.a.y1, TRUE), l, x.pos)
  <2>1. EndReached(y) = [y EXCEPT !.a = [[a1 EXCEPT !.cur = x.p.loop] EXCEPT !.stopped = TRUE],
                                  !.p.running = FALSE]
    BY <1>8, <1>9, <1>13 DEF EndReached
  <2>2. QED BY <1>10, <1>11, <2>1
<1>14. ASSUME x.p.looping, x.p.stream
       PROVE  EndReached(y) = Run([x.p EXCEPT !.loops = IF gc THEN @ + 1 ELSE @], x.fed + 1,
                Reading(x.p.loop, x.p.loopScale, x.a.cur, x.a.y1, x.a.stopped), l, x.pos)
  <2>1. EndReached(y) = [y EXCEPT !.a = [[a1 EXCEPT !.cur = x.p.loop] EXCEPT !.scale = x.p.loopScale],
                                  !.p.loops = IF gc THEN @ + 1 ELSE @]
    BY <1>8, <1>9, <1>14 DEF EndReached
  <2>2. QED BY <1>10, <1>11, <2>1
<1>15. ASSUME x.p.looping, ~x.p.stream
       PROVE  EndReached(y) = Run(x.p, x.fed + 1,
                Reading(x.p.loop, x.p.loopScale, LoopYn1, LoopYn2, x.a.stopped), l, x.pos)
  <2>1. EndReached(y) = [y EXCEPT !.a = [[a1 EXCEPT !.cur = x.p.loop] EXCEPT
                                           !.scale = x.p.loopScale, !.y1 = LoopYn1, !.y2 = LoopYn2]]
    BY <1>8, <1>9, <1>15 DEF EndReached
  <2>2. QED BY <1>10, <1>11, <2>1
<1>16. y = Run(x.p, x.fed + 1, Reading(n.cur, n.scale, x.a.cur, x.a.y1, x.a.stopped), l, x.pos)
  BY DEF y, a1, l
<1>17. ASSUME ~x.a.stopped, ~Ends(x)
       PROVE  Sample(x) = Run(x.p, x.fed + 1, Reading(n.cur, n.scale, x.a.cur, x.a.y1, FALSE), l, x.pos)
  BY <1>6, <1>16, <1>17
<1>18. ASSUME ~x.a.stopped, Ends(x), ~x.p.looping
       PROVE  Sample(x) = Run([x.p EXCEPT !.running = FALSE], x.fed + 1,
                Reading(x.p.loop, n.scale, x.a.cur, x.a.y1, TRUE), l, x.pos)
  BY <1>7, <1>13, <1>18
<1>19. ASSUME ~x.a.stopped, Ends(x), x.p.looping, x.p.stream
       PROVE  Sample(x) = Run([x.p EXCEPT !.loops = IF gc THEN @ + 1 ELSE @], x.fed + 1,
                Reading(x.p.loop, x.p.loopScale, x.a.cur, x.a.y1, FALSE), l, x.pos)
  BY <1>7, <1>14, <1>19
<1>20. ASSUME ~x.a.stopped, Ends(x), x.p.looping, ~x.p.stream
       PROVE  Sample(x) = Run(x.p, x.fed + 1,
                Reading(x.p.loop, x.p.loopScale, LoopYn1, LoopYn2, FALSE), l, x.pos)
  BY <1>7, <1>15, <1>20
<1>21. QED BY <1>5, <1>17, <1>18, <1>19, <1>20 DEF n, l

\* What a run leaves alone of the PB it started from.
Kin(p, p0) ==
  /\ Alike(p, p0) /\ p.loopScale = p0.loopScale /\ p.ratio = p0.ratio
  /\ p.convert = p0.convert /\ p.updates = p0.updates

\* A voice as far into its sample as it has read, or past a one-shot's end.
Heard(w, a, last, n) ==
  /\ Read(a) = Expected(w, n + 1)
  /\ \A i \in 1..4 : last[i] = Expected(w, n - 4 + i)
Lasts(w, n, on) == ~w.looping => n <= Len(FirstPass(w)) /\ (on => n < Len(FirstPass(w)))
Counted(w, p, n) == w.looping => p.loops = IF gc /\ w.stream THEN Place(w, n + 1).pass ELSE 0

RunInv(p0, x) ==
  /\ x \in Runs /\ Kin(x.p, p0)
  /\ ~x.a.stopped => x.p.running /\ Heard(p0, x.a, x.last, x.fed)
  /\ x.a.stopped => ~x.p.running /\ ~p0.looping
  /\ Lasts(p0, x.fed, ~x.a.stopped) /\ Counted(p0, x.p, x.fed)

Playable(p0) == p0 \in PBs /\ Plays(p0) /\ p0.loopScale = Header(p0, p0.loop)

LEMMA HeaderTyped ==
  ASSUME NEW w, NEW a \in Nat
  PROVE  Header(w, a) \in Int
<1>1. a \div 16 \in Nat
  BY NextDiv
<1>2. QED BY <1>1 DEF Header

LEMMA ScaleTyped ==
  ASSUME NEW p, NEW a, a.cur \in Nat, a.scale \in Int
  PROVE  Following(p, a).scale \in Int
<1>1. Header(p, a.cur + 1) \in Int
  BY HeaderTyped
<1>. DEFINE c == a.cur + 1
            f == Following(p, a)
<1>2. f.scale = a.scale \/ f.scale = Header(p, c)
  <2>. DEFINE next == [cur |-> c, scale |-> a.scale, step |-> Beyond(FALSE)]
              far == [cur |-> c + 2, scale |-> Header(p, c), step |-> Beyond(TRUE)]
  <2>1. \/ f = next
        \/ f = [next EXCEPT !.cur = p.loop + 1]
        \/ f = [next EXCEPT !.cur = p.loop]
        \/ f = far
    <3>. HIDE DEF next, far
    <3>1. f = IF p.format # "adpcm" THEN next
              ELSE IF p.end % 16 = 0 /\ c = p.end THEN [next EXCEPT !.cur = p.loop + 1]
              ELSE IF p.end % 16 = 1 /\ c = p.end - 1 THEN [next EXCEPT !.cur = p.loop]
              ELSE IF c % 16 = 0 THEN far
              ELSE next
      BY Zenon DEF Following, next, far
    <3>. HIDE DEF f, c
    <3>2. QED BY <3>1
  <2>2. next.scale = a.scale /\ far.scale = Header(p, c)
    OBVIOUS
  <2>3. \A v : [next EXCEPT !.cur = v].scale = next.scale
    OBVIOUS
  <2>. HIDE DEF f, c, next, far
  <2>4. QED BY <2>1, <2>2, <2>3
<1>3. QED BY <1>1, <1>2

LEMMA NextInTyped ==
  ASSUME NEW w, NEW a \in Nat
  PROVE  NextIn(w, a) \in Nat
BY DEF NextIn

\* The window after the next sample.
LEMMA HeardNext ==
  ASSUME NEW w, NEW a, NEW last \in Windows, NEW n \in Nat, Read(a) \in Sounds,
         Heard(w, a, last, n), NEW b, Read(b) = Expected(w, n + 2)
  PROVE  Heard(w, b, Moved(last, Read(a)), n + 1)
<1>. DEFINE l == Moved(last, Read(a))
<1>1. /\ \A i \in 1..3 : l[i] = last[i + 1]
      /\ l[4] = Read(a)
  BY WindowMoves
<1>2. Read(a) = Expected(w, n + 1) /\ \A i \in 1..4 : last[i] = Expected(w, n - 4 + i)
  BY DEF Heard
<1>. HIDE DEF l
<1>3. ASSUME NEW i \in 1..4 PROVE l[i] = Expected(w, (n + 1) - 4 + i)
  <2>1. CASE i = 4
    <3>1. (n + 1) - 4 + i = n + 1
      BY <2>1
    <3>2. QED BY <1>1, <1>2, <2>1, <3>1
  <2>2. CASE i # 4
    <3>1. i \in 1..3 /\ i + 1 \in 1..4 /\ (n + 1) - 4 + i = n - 4 + (i + 1)
      BY <2>2
    <3>2. QED BY <1>1, <1>2, <3>1
  <2>3. QED BY <2>1, <2>2
<1>4. (n + 1) + 1 = n + 2
  OBVIOUS
<1>5. QED BY <1>3, <1>4 DEF Heard, l

LEMMA SampleStep ==
  ASSUME NEW p0, Playable(p0), NEW x, RunInv(p0, x)
  PROVE  /\ RunInv(p0, Sample(x)) /\ Sample(x).pos = x.pos
         /\ Sample(x).p.running => x.p.running /\ Sample(x).fed = x.fed + 1
<1>. DEFINE k == x.fed + 1
            l == Moved(x.last, Read(x.a))
            f == Following(x.p, x.a)
<1>1. /\ x \in Runs /\ x.p \in PBs /\ x.fed \in Nat /\ x.a \in Reads /\ x.last \in Windows /\ x.pos \in Int
      /\ Kin(x.p, p0) /\ Alike(x.p, p0)
      /\ k \in Nat \ {0} /\ x.a.stopped \in BOOLEAN
  BY DEF RunInv, Runs, Reads, Kin
<1>2. /\ p0 \in PBs /\ Plays(p0) /\ p0.loopScale = Header(p0, p0.loop)
      /\ p0.loop \in Nat /\ p0.end \in Nat
  BY DEF Playable, Plays
<1>3. /\ Plays(x.p) /\ (\A a : Header(x.p, a) = Header(p0, a))
      /\ x.p.format = p0.format /\ x.p.loop = p0.loop /\ x.p.end = p0.end
      /\ x.p.looping = p0.looping /\ x.p.stream = p0.stream
      /\ x.p.loopScale = Header(p0, p0.loop)
  <2>1. Plays(x.p) /\ (\A a : Header(x.p, a) = Header(p0, a))
    BY <1>1, <1>2, SameTrack
  <2>2. QED BY <1>1, <1>2, <2>1 DEF Alike, Kin
<1>4. Silence \in Sounds /\ Read(x.a) \in Sounds
  BY <1>1 DEF Silence, Sounds, Read, Reads
<1>5. Moved(x.last, Silence) \in Windows /\ l \in Windows
  BY <1>1, <1>4, WindowMoves
<1>6. CASE x.a.stopped
  <2>. DEFINE m == Moved(x.last, Silence)
              y == Run(x.p, x.fed, x.a, m, x.pos)
  <2>1. Sample(x) = y
    BY <1>1, <1>6, SampleIs
  <2>. HIDE DEF m
  <2>2. m \in Windows
    BY <1>5 DEF m
  <2>3. y.p = x.p /\ y.fed = x.fed /\ y.a = x.a /\ y.pos = x.pos /\ y \in Runs
    BY <1>1, <2>2 DEF Run, Runs
  <2>. HIDE DEF y
  <2>4. RunInv(p0, y)
    BY <1>6, <2>3 DEF RunInv
  <2>5. ~y.p.running
    BY <1>6, <2>3 DEF RunInv
  <2>6. QED BY <2>1, <2>3, <2>4, <2>5
<1>7. CASE ~x.a.stopped
  <2>0. /\ x.p.running /\ Heard(p0, x.a, x.last, x.fed)
        /\ Lasts(p0, x.fed, TRUE) /\ Counted(p0, x.p, x.fed)
    BY <1>7 DEF RunInv
  <2>1. Read(x.a) = [at |-> At(p0, k), scale |-> Header(p0, At(p0, k)),
                     y1 |-> Before(p0, k, 1), y2 |-> Before(p0, k, 2)]
    <3>1. Read(x.a) = Expected(p0, k)
      BY <2>0 DEF Heard
    <3>2. Expected(p0, k) = [at |-> At(p0, k), scale |-> Header(p0, At(p0, k)),
                             y1 |-> Before(p0, k, 1), y2 |-> Before(p0, k, 2)]
      BY <1>1, <1>2, NextExpected
    <3>3. QED BY <3>1, <3>2
  <2>2. /\ x.a.cur = At(p0, k) /\ x.a.scale = Header(p0, x.a.cur) /\ x.a.y1 = Before(p0, k, 1)
    <3>. HIDE DEF k
    <3>1. QED BY <2>1 DEF Read
  <2>3. x.a.cur \in Nat /\ x.a.cur <= p0.end /\ InBlock(p0, x.a.cur) /\ x.a.y1 \in Int
    <3>1. At(p0, k) \in Nat /\ At(p0, k) <= p0.end /\ InBlock(p0, At(p0, k))
      BY <1>1, <1>2, AtFacts
    <3>2. Before(p0, k, 1) \in Int
      BY <1>1, <1>2, BeforeTyped
    <3>3. QED BY <2>2, <3>1, <3>2
  <2>4. /\ Ends(x) <=> x.a.cur = p0.end
        /\ x.a.cur # p0.end => f.cur = NextIn(p0, x.a.cur) /\ f.scale = Header(p0, f.cur)
    <3>1. InBlock(x.p, x.a.cur) /\ x.a.scale = Header(x.p, x.a.cur)
      BY <1>3, <2>2, <2>3 DEF InBlock
    <3>2. NextIn(x.p, x.a.cur) = NextIn(p0, x.a.cur)
      BY <1>3 DEF NextIn
    <3>3. /\ x.a.cur = x.p.end <=> f.cur = x.p.end + f.step - 1
          /\ x.a.cur # x.p.end => f.cur = NextIn(x.p, x.a.cur) /\ f.scale = Header(x.p, NextIn(x.p, x.a.cur))
      BY <1>3, <2>3, <3>1, FollowingFacts
    <3>. HIDE DEF f
    <3>4. QED BY <1>3, <3>2, <3>3 DEF Ends, f
  <2>5. f.scale \in Int /\ x.p.loopScale \in Int /\ x.p.loop \in Int /\ NextIn(p0, x.a.cur) \in Int
    <3>1. f.scale \in Int
      BY <1>1, <2>3, ScaleTyped DEF Reads
    <3>2. NextIn(p0, x.a.cur) \in Nat
      BY <2>3, NextInTyped
    <3>3. QED BY <1>1, <3>1, <3>2 DEF PBs
  <2>6. /\ Place(p0, k).pass \in Nat
        /\ Place(p0, k).pass = 0 <=> k <= Len(FirstPass(p0))
        /\ Place(p0, k).pass = 0 => Place(p0, k).at = k
        /\ x.a.cur # p0.end => Place(p0, k + 1).pass = Place(p0, k).pass
        /\ x.a.cur = p0.end => Place(p0, k + 1).pass = Place(p0, k).pass + 1
        /\ x.a.cur = p0.end <=> Place(p0, k).at = Len(Whole(p0, k))
    <3>1. x.a.cur = p0.end <=> Place(p0, k).at = Len(Whole(p0, k))
      BY <1>1, <1>2, <2>2, AtFacts
    <3>. HIDE DEF k
    <3>2. /\ Place(p0, k).pass \in Nat
          /\ Place(p0, k).pass = 0 <=> k <= Len(FirstPass(p0))
          /\ Place(p0, k).pass = 0 => Place(p0, k).at = k
          /\ Place(p0, k).at # Len(Whole(p0, k)) =>
               Place(p0, k + 1) = [pass |-> Place(p0, k).pass, at |-> Place(p0, k).at + 1]
          /\ Place(p0, k).at = Len(Whole(p0, k)) =>
               Place(p0, k + 1) = [pass |-> Place(p0, k).pass + 1, at |-> 1]
      BY <1>1, <1>2, PlaceFacts
    <3>3. QED BY <3>1, <3>2
  <2>7. x.fed + 1 = k /\ x.fed + 2 = k + 1
    BY <1>1
  <2>. HIDE DEF l, f, k
  <2>8. CASE x.a.cur # p0.end
    <3>. DEFINE b == Reading(f.cur, f.scale, x.a.cur, x.a.y1, FALSE)
                y == Run(x.p, k, b, l, x.pos)
    <3>1. Sample(x) = y
      <4>1. Sample(x) = Run(x.p, x.fed + 1, b, l, x.pos)
        BY <1>1, <1>7, <2>4, <2>8, SampleIs DEF l, f
      <4>2. QED BY <2>7, <4>1
    <3>2. b \in Reads /\ ~b.stopped
          /\ Read(b) = [at |-> NextIn(p0, x.a.cur), scale |-> Header(p0, NextIn(p0, x.a.cur)),
                        y1 |-> x.a.cur, y2 |-> x.a.y1]
      <4>1. f.cur = NextIn(p0, x.a.cur) /\ f.cur \in Int
        BY <2>4, <2>5, <2>8
      <4>2. b \in Reads
        BY <2>3, <2>5, <4>1 DEF Reads, Reading
      <4>3. ~b.stopped /\ Read(b) = [at |-> f.cur, scale |-> f.scale, y1 |-> x.a.cur, y2 |-> x.a.y1]
        BY DEF Reading, Read
      <4>. HIDE DEF b
      <4>4. QED BY <2>4, <2>8, <4>1, <4>2, <4>3
    <3>3. Read(b) = Expected(p0, x.fed + 2)
      <4>1. Expected(p0, k + 1) = [at |-> NextIn(p0, At(p0, k)), scale |-> Header(p0, NextIn(p0, At(p0, k))),
                                   y1 |-> At(p0, k), y2 |-> Before(p0, k, 1)]
        BY <1>1, <1>2, <2>2, <2>8, NextExpected
      <4>. HIDE DEF b
      <4>2. QED BY <2>2, <2>7, <3>2, <4>1
    <3>. HIDE DEF b
    <3>4. Heard(p0, b, l, k)
      <4>1. Heard(p0, b, Moved(x.last, Read(x.a)), x.fed + 1)
        BY <1>1, <1>4, <2>0, <3>3, HeardNext
      <4>2. QED BY <2>7, <4>1 DEF l
    <3>5. y.p = x.p /\ y.fed = k /\ y.a = b /\ y.last = l /\ y.pos = x.pos /\ y \in Runs
      BY <1>1, <1>5, <3>2 DEF Run, Runs
    <3>. HIDE DEF y
    <3>6. Lasts(p0, k, TRUE)
      <4>1. ~p0.looping => k <= Len(FirstPass(p0))
        <5>1. Len(FirstPass(p0)) \in Nat
          BY <1>2, Passes DEF PassTo
        <5>2. ~p0.looping => x.fed < Len(FirstPass(p0))
          BY <2>0 DEF Lasts
        <5>3. QED BY <1>1, <5>1, <5>2 DEF k
      <4>2. k <= Len(FirstPass(p0)) => k # Len(FirstPass(p0))
        BY <2>6, <2>8 DEF Whole
      <4>3. Len(FirstPass(p0)) \in Nat
        BY <1>2, Passes DEF PassTo
      <4>4. QED BY <1>1, <4>1, <4>2, <4>3 DEF Lasts
    <3>7. Counted(p0, y.p, k)
      BY <2>0, <2>6, <2>7, <2>8, <3>5 DEF Counted
    <3>8. RunInv(p0, y)
      BY <1>1, <2>0, <3>2, <3>4, <3>5, <3>6, <3>7 DEF RunInv, Lasts
    <3>9. QED BY <2>0, <2>7, <3>1, <3>5, <3>8
  <2>9. CASE x.a.cur = p0.end
    <3>1. Ends(x)
      BY <2>4, <2>9
    <3>2. CASE ~p0.looping
      <4>. DEFINE b == Reading(x.p.loop, f.scale, x.a.cur, x.a.y1, TRUE)
                  q == [x.p EXCEPT !.running = FALSE]
                  y == Run(q, k, b, l, x.pos)
      <4>1. Sample(x) = y
        <5>1. Sample(x) = Run(q, x.fed + 1, b, l, x.pos)
          BY <1>1, <1>3, <1>7, <3>1, <3>2, SampleIs DEF l, f
        <5>2. QED BY <2>7, <5>1
      <4>2. b \in Reads /\ b.stopped
        BY <2>3, <2>5 DEF Reads, Reading
      <4>3. q \in PBs /\ ~q.running /\ Kin(q, p0)
        BY <1>1 DEF PBs, Kin, Alike
      <4>. HIDE DEF b, q
      <4>4. y.p = q /\ y.fed = k /\ y.a = b /\ y.last = l /\ y.pos = x.pos /\ y \in Runs
        BY <1>1, <1>5, <4>2, <4>3 DEF Run, Runs
      <4>. HIDE DEF y
      <4>5. Lasts(p0, k, FALSE)
        <5>1. Len(FirstPass(p0)) \in Nat
          BY <1>2, Passes DEF PassTo
        <5>2. ~p0.looping => x.fed < Len(FirstPass(p0))
          BY <2>0 DEF Lasts
        <5>3. ~p0.looping => k <= Len(FirstPass(p0))
          BY <1>1, <5>1, <5>2 DEF k
        <5>4. QED BY <5>3 DEF Lasts
      <4>6. RunInv(p0, y)
        BY <3>2, <4>2, <4>3, <4>4, <4>5 DEF RunInv, Lasts, Counted
      <4>7. QED BY <4>1, <4>3, <4>4, <4>6
    <3>3. CASE p0.looping
      <4>. DEFINE b == Reading(x.p.loop, x.p.loopScale, IF p0.stream THEN x.a.cur ELSE LoopYn1,
                               IF p0.stream THEN x.a.y1 ELSE LoopYn2, FALSE)
                  q == IF p0.stream THEN [x.p EXCEPT !.loops = IF gc THEN @ + 1 ELSE @] ELSE x.p
                  y == Run(q, k, b, l, x.pos)
      <4>1. Sample(x) = y
        <5>1. p0.stream \in BOOLEAN
          BY <1>2 DEF Plays
        <5>2. CASE p0.stream
          <6>1. Sample(x) = Run([x.p EXCEPT !.loops = IF gc THEN @ + 1 ELSE @], x.fed + 1,
                              Reading(x.p.loop, x.p.loopScale, x.a.cur, x.a.y1, FALSE), l, x.pos)
            BY <1>1, <1>3, <1>7, <3>1, <3>3, <5>2, SampleIs DEF l
          <6>2. b = Reading(x.p.loop, x.p.loopScale, x.a.cur, x.a.y1, FALSE)
                /\ q = [x.p EXCEPT !.loops = IF gc THEN @ + 1 ELSE @]
            BY <5>2
          <6>. HIDE DEF b, q
          <6>3. QED BY <2>7, <6>1, <6>2
        <5>3. CASE ~p0.stream
          <6>1. Sample(x) = Run(x.p, x.fed + 1,
                              Reading(x.p.loop, x.p.loopScale, LoopYn1, LoopYn2, FALSE), l, x.pos)
            BY <1>1, <1>3, <1>7, <3>1, <3>3, <5>3, SampleIs DEF l
          <6>2. b = Reading(x.p.loop, x.p.loopScale, LoopYn1, LoopYn2, FALSE) /\ q = x.p
            BY <5>3
          <6>. HIDE DEF b, q
          <6>3. QED BY <2>7, <6>1, <6>2
        <5>4. QED BY <5>1, <5>2, <5>3
      <4>2. b \in Reads /\ ~b.stopped
            /\ Read(b) = [at |-> x.p.loop, scale |-> x.p.loopScale,
                          y1 |-> IF p0.stream THEN x.a.cur ELSE LoopYn1,
                          y2 |-> IF p0.stream THEN x.a.y1 ELSE LoopYn2]
        <5>. DEFINE g1 == IF p0.stream THEN x.a.cur ELSE LoopYn1
                    g2 == IF p0.stream THEN x.a.y1 ELSE LoopYn2
        <5>1. g1 \in Int /\ g2 \in Int
          BY <2>3 DEF LoopYn1, LoopYn2
        <5>5. b = Reading(x.p.loop, x.p.loopScale, g1, g2, FALSE)
          OBVIOUS
        <5>. HIDE DEF g1, g2, b
        <5>2. b \in Reads
          BY <2>5, <5>1, <5>5 DEF Reads, Reading
        <5>3. ~b.stopped /\ Read(b) = [at |-> x.p.loop, scale |-> x.p.loopScale, y1 |-> g1, y2 |-> g2]
          BY <5>5 DEF Read, Reading
        <5>4. QED BY <5>2, <5>3 DEF g1, g2
      <4>3. q \in PBs /\ q.running /\ Kin(q, p0)
            /\ q.loops = IF p0.stream /\ gc THEN x.p.loops + 1 ELSE x.p.loops
        <5>. DEFINE d == IF gc THEN x.p.loops + 1 ELSE x.p.loops
                    r == [x.p EXCEPT !.loops = d]
        <5>1. x.p.loops \in Int /\ d \in Int
          BY <1>1 DEF PBs
        <5>. HIDE DEF d
        <5>2. r \in PBs /\ r.running = x.p.running /\ r.loops = d
          BY <1>1, <5>1 DEF PBs
        <5>3. Kin(r, p0)
          BY <1>1 DEF PBs, Kin, Alike
        <5>4. q = IF p0.stream THEN r ELSE x.p
          BY DEF d
        <5>. HIDE DEF r, q
        <5>5. QED BY <1>1, <2>0, <5>2, <5>3, <5>4 DEF d
      <4>. HIDE DEF b, q
      <4>4. Read(b) = Expected(p0, x.fed + 2)
        <5>1. Expected(p0, k + 1) = [at |-> p0.loop, scale |-> Header(p0, p0.loop),
                                     y1 |-> IF p0.stream THEN At(p0, k) ELSE LoopYn1,
                                     y2 |-> IF p0.stream THEN Before(p0, k, 1) ELSE LoopYn2]
          BY <1>1, <1>2, <2>2, <2>9, NextExpected
        <5>2. QED BY <1>3, <2>2, <2>7, <4>2, <5>1
      <4>5. Heard(p0, b, l, k)
        <5>1. Heard(p0, b, Moved(x.last, Read(x.a)), x.fed + 1)
          BY <1>1, <1>4, <2>0, <4>4, HeardNext
        <5>2. QED BY <2>7, <5>1 DEF l
      <4>6. y.p = q /\ y.fed = k /\ y.a = b /\ y.last = l /\ y.pos = x.pos /\ y \in Runs
        BY <1>1, <1>5, <4>2, <4>3 DEF Run, Runs
      <4>. HIDE DEF y
      <4>7. Counted(p0, y.p, k)
        <5>1. x.p.loops = IF gc /\ p0.stream THEN Place(p0, k).pass ELSE 0
          BY <2>0, <2>7, <3>3 DEF Counted
        <5>2. QED BY <2>6, <2>9, <4>3, <4>6, <5>1 DEF Counted
      <4>8. RunInv(p0, y)
        BY <3>3, <4>2, <4>3, <4>5, <4>6, <4>7 DEF RunInv, Lasts
      <4>9. QED BY <2>0, <2>7, <4>1, <4>6, <4>8
    <3>4. QED BY <3>2, <3>3
  <2>10. QED BY <2>8, <2>9
<1>8. QED BY <1>6, <1>7

-----------------------------------------------------------------------------
(* Many samples, and a run of the voice.                                    *)

SampleRun(h, p0, x, n) ==
  /\ h[0] = x /\ h[n] = Times(Sample, x, n)
  /\ \A k \in 0..n : RunInv(p0, h[k])
  /\ \A k \in 1..n : h[k] = Sample(h[k - 1])

LEMMA RunsSample ==
  ASSUME NEW p0, Playable(p0), NEW x, RunInv(p0, x), NEW n \in Nat
  PROVE  \E h : SampleRun(h, p0, x, n)
<1>. DEFINE X == {y \in Runs : RunInv(p0, y)}
            F == [k \in 1..n |-> [y \in X |-> Sample(y)]]
            D == DOMAIN [i \in 1..n |-> i]
            Eq(it) == it = [t \in SUBSET D |-> IF t = {} THEN x
                                               ELSE LET m == Max(t) IN Sample(it[t \ {m}])]
            it == CHOOSE it : Eq(it)
<1>0. D = 1..n
  OBVIOUS
<1>1. x \in X
  BY DEF RunInv
<1>2. \A y \in X : Sample(y) \in X
  <2>1. ASSUME NEW y \in X PROVE Sample(y) \in X
    <3>1. RunInv(p0, Sample(y))
      BY <2>1, SampleStep
    <3>2. QED BY <3>1 DEF RunInv
  <2>2. QED BY <2>1
<1>. HIDE DEF X
<1>3. F \in [1..n -> [X -> X]] /\ \A k \in 1..n, y \in X : F[k][y] = Sample(y)
  BY <1>2
<1>. HIDE DEF F
<1>4. PICK g \in [SUBSET (1..n) -> X] : LeftFold(g, n, X, x, F)
  BY <1>1, <1>3, LeftFoldExists
<1>5. \A t \in SUBSET (1..n) : t # {} => Max(t) \in 1..n /\ t \ {Max(t)} \in SUBSET (1..n)
  BY MaxIn
<1>6. Eq(g)
  <2>1. /\ g[{}] = x
        /\ \A t \in SUBSET (1..n) : t # {} /\ g[t \ {Max(t)}] \in X => g[t] = F[Max(t)][g[t \ {Max(t)}]]
    BY <1>4 DEF LeftFold
  <2>2. ASSUME NEW t \in SUBSET (1..n), t # {} PROVE g[t] = Sample(g[t \ {Max(t)}])
    <3>1. Max(t) \in 1..n /\ g[t \ {Max(t)}] \in X
      BY <1>4, <1>5, <2>2
    <3>2. QED BY <1>3, <2>1, <2>2, <3>1
  <2>. HIDE DEF D
  <2>3. QED BY <1>0, <1>4, <2>1, <2>2
<1>7. Eq(it)
  <2>. HIDE DEF Eq
  <2>1. QED BY <1>6, Zenon
<1>8. Times(Sample, x, n) = it[D]
  BY Zenon DEF Times, FoldLeft, MapThenFoldSet
<1>. HIDE DEF it, D
<1>9. LeftFold(it, n, X, x, F)
  <2>1. \A t \in SUBSET (1..n) : it[t] = IF t = {} THEN x ELSE Sample(it[t \ {Max(t)}])
    BY <1>0, <1>7
  <2>2. it[{}] = x
    BY <2>1
  <2>3. ASSUME NEW t \in SUBSET (1..n), t # {}, it[t \ {Max(t)}] \in X
        PROVE  it[t] = F[Max(t)][it[t \ {Max(t)}]]
    <3>1. Max(t) \in 1..n
      BY <1>5, <2>3
    <3>2. QED BY <1>3, <2>1, <2>3, <3>1
  <2>4. QED BY <2>2, <2>3 DEF LeftFold
<1>10. PICK h : Steps(h, n, X, x, F) /\ h[n] = it[1..n]
  BY <1>1, <1>3, <1>9, LeftFoldSteps
<1>11. h \in [0..n -> X] /\ h[0] = x /\ \A k \in 1..n : h[k] = F[k][h[k - 1]]
  BY <1>10 DEF Steps
<1>12. \A k \in 0..n : RunInv(p0, h[k])
  BY <1>11 DEF X
<1>13. ASSUME NEW k \in 1..n PROVE h[k] = Sample(h[k - 1])
  <2>1. k - 1 \in 0..n
    OBVIOUS
  <2>2. h[k - 1] \in X
    BY <1>11, <2>1
  <2>3. QED BY <1>3, <1>11, <2>2
<1>14. QED BY <1>0, <1>8, <1>10, <1>11, <1>12, <1>13 DEF SampleRun

LEMMA TimesSample ==
  ASSUME NEW p0, Playable(p0), NEW x, RunInv(p0, x), NEW n \in Nat
  PROVE  /\ RunInv(p0, Times(Sample, x, n)) /\ Times(Sample, x, n).pos = x.pos
         /\ Times(Sample, x, n).p.running => x.p.running /\ Times(Sample, x, n).fed = x.fed + n
<1>0. PICK h : SampleRun(h, p0, x, n)
  BY RunsSample
<1>1. /\ h[0] = x /\ h[n] = Times(Sample, x, n)
      /\ \A k \in 0..n : RunInv(p0, h[k])
      /\ \A k \in 1..n : h[k] = Sample(h[k - 1])
  BY <1>0, Zenon DEF SampleRun
<1>. DEFINE S == {k \in 0..n : /\ h[k].pos = x.pos
                               /\ h[k].p.running => x.p.running /\ h[k].fed = x.fed + k}
<1>2. x.fed \in Nat
  BY DEF RunInv, Runs
<1>3. 0 \in S
  BY <1>1, <1>2
<1>4. ASSUME NEW k \in Nat, k < n, k \in S PROVE k + 1 \in S
  <2>1. k \in 0..n /\ k + 1 \in 1..n /\ k + 1 \in 0..n /\ (k + 1) - 1 = k
    BY <1>4
  <2>2. h[k + 1] = Sample(h[k]) /\ RunInv(p0, h[k])
    BY <1>1, <2>1
  <2>3. /\ Sample(h[k]).pos = h[k].pos
        /\ Sample(h[k]).p.running => h[k].p.running /\ Sample(h[k]).fed = h[k].fed + 1
    BY <2>2, SampleStep
  <2>4. h[k].pos = x.pos /\ (h[k].p.running => x.p.running /\ h[k].fed = x.fed + k)
    BY <1>4
  <2>5. h[k + 1].p.running => x.p.running /\ h[k + 1].fed = x.fed + (k + 1)
    BY <1>2, <2>2, <2>3, <2>4
  <2>6. h[k + 1].pos = x.pos
    BY <2>2, <2>3, <2>4
  <2>7. QED BY <2>1, <2>5, <2>6
<1>. HIDE DEF S
<1>5. n \in 0..n /\ \A k \in 0..n : k \in S
  BY <1>3, <1>4, Upto
<1>6. n \in S
  BY <1>5
<1>7. QED BY <1>1, <1>5, <1>6 DEF S

\* An output's samples, as many as its position passes.
OutInv(p0, x) == RunInv(p0, x) /\ x.pos \in 0..(One - 1)

LEMMA OutputStep ==
  ASSUME NEW p0, Playable(p0), NEW x, OutInv(p0, x)
  PROVE  OutInv(p0, Output(x))
<1>. DEFINE pos == x.pos + x.p.ratio
            y == Times(Sample, x, pos \div One)
            m == pos % One
<1>1. x \in Runs /\ x.p.ratio \in Nat /\ x.pos \in Nat /\ pos \in Nat /\ One \in Nat \ {0} /\ RunInv(p0, x)
  <2>1. x \in Runs /\ x.p.ratio \in Nat /\ RunInv(p0, x)
    BY DEF OutInv, RunInv, Runs, PBs
  <2>2. One \in Nat \ {0}
    BY AxAssumption
  <2>3. x.pos \in Nat
    BY <2>2 DEF OutInv
  <2>4. QED BY <2>1, <2>2, <2>3
<1>2. pos \div One \in Nat /\ m \in 0..(One - 1)
  <2>. HIDE DEF pos
  <2>1. QED BY <1>1, NextDiv
<1>3. Output(x) = RunPos(y, m)
  BY Zenon DEF Output, RunPos
<1>. HIDE DEF m
<1>4. RunInv(p0, y)
  <2>. DEFINE d == pos \div One
  <2>1. d \in Nat
    BY <1>2
  <2>. HIDE DEF d, pos
  <2>2. RunInv(p0, Times(Sample, x, d))
    BY <1>1, <2>1, TimesSample
  <2>3. QED BY <2>2 DEF d
<1>. HIDE DEF y
<1>5. y \in Runs
  BY <1>4 DEF RunInv
<1>. DEFINE z == Run(y.p, y.fed, y.a, y.last, m)
<1>6. RunPos(y, m) = z
  BY <1>5, EditedRun
<1>7. z.p = y.p /\ z.fed = y.fed /\ z.a = y.a /\ z.last = y.last /\ z.pos = m /\ z \in Runs
  <2>1. m \in Int /\ y.p \in PBs /\ y.fed \in Nat /\ y.a \in Reads /\ y.last \in Windows
    BY <1>1, <1>2, <1>5 DEF Runs
  <2>2. QED BY <2>1 DEF Run, Runs
<1>. HIDE DEF z
<1>8. RunInv(p0, z)
  BY <1>4, <1>7 DEF RunInv
<1>9. QED BY <1>2, <1>3, <1>6, <1>7, <1>8 DEF OutInv

LEMMA TimesOutput ==
  ASSUME NEW p0, Playable(p0), NEW x, OutInv(p0, x), NEW n \in Nat
  PROVE  OutInv(p0, Times(Output, x, n))
<1>. DEFINE X == {y \in Runs : OutInv(p0, y)}
            F == [k \in 1..n |-> [y \in X |-> Output(y)]]
            D == DOMAIN [i \in 1..n |-> i]
            Eq(it) == it = [t \in SUBSET D |-> IF t = {} THEN x
                                               ELSE LET m == Max(t) IN Output(it[t \ {m}])]
            it == CHOOSE it : Eq(it)
<1>0. D = 1..n
  OBVIOUS
<1>1. x \in X
  BY DEF OutInv, RunInv
<1>2. \A y \in X : Output(y) \in X
  <2>1. ASSUME NEW y \in X PROVE Output(y) \in X
    <3>1. OutInv(p0, Output(y))
      BY <2>1, OutputStep
    <3>2. QED BY <3>1 DEF OutInv, RunInv
  <2>2. QED BY <2>1
<1>. HIDE DEF X
<1>3. F \in [1..n -> [X -> X]] /\ \A k \in 1..n, y \in X : F[k][y] = Output(y)
  BY <1>2
<1>. HIDE DEF F
<1>4. PICK g \in [SUBSET (1..n) -> X] : LeftFold(g, n, X, x, F)
  BY <1>1, <1>3, LeftFoldExists
<1>5. \A t \in SUBSET (1..n) : t # {} => Max(t) \in 1..n /\ t \ {Max(t)} \in SUBSET (1..n)
  BY MaxIn
<1>6. Eq(g)
  <2>1. /\ g[{}] = x
        /\ \A t \in SUBSET (1..n) : t # {} /\ g[t \ {Max(t)}] \in X => g[t] = F[Max(t)][g[t \ {Max(t)}]]
    BY <1>4 DEF LeftFold
  <2>2. ASSUME NEW t \in SUBSET (1..n), t # {} PROVE g[t] = Output(g[t \ {Max(t)}])
    <3>1. Max(t) \in 1..n /\ g[t \ {Max(t)}] \in X
      BY <1>4, <1>5, <2>2
    <3>2. QED BY <1>3, <2>1, <2>2, <3>1
  <2>. HIDE DEF D
  <2>3. QED BY <1>0, <1>4, <2>1, <2>2
<1>7. Eq(it)
  <2>. HIDE DEF Eq
  <2>1. QED BY <1>6, Zenon
<1>8. Times(Output, x, n) = it[D]
  BY Zenon DEF Times, FoldLeft, MapThenFoldSet
<1>. HIDE DEF it, D
<1>9. LeftFold(it, n, X, x, F)
  <2>1. \A t \in SUBSET (1..n) : it[t] = IF t = {} THEN x ELSE Output(it[t \ {Max(t)}])
    BY <1>0, <1>7
  <2>2. it[{}] = x
    BY <2>1
  <2>3. ASSUME NEW t \in SUBSET (1..n), t # {}, it[t \ {Max(t)}] \in X
        PROVE  it[t] = F[Max(t)][it[t \ {Max(t)}]]
    <3>1. Max(t) \in 1..n
      BY <1>5, <2>3
    <3>2. QED BY <1>3, <2>1, <2>3, <3>1
  <2>4. QED BY <2>2, <2>3 DEF LeftFold
<1>10. PICK h : Steps(h, n, X, x, F) /\ h[n] = it[1..n]
  BY <1>1, <1>3, <1>9, LeftFoldSteps
<1>11. h[n] \in X
  <2>1. h \in [0..n -> X] /\ n \in 0..n
    BY <1>10 DEF Steps
  <2>2. QED BY <2>1
<1>12. QED BY <1>0, <1>8, <1>10, <1>11 DEF X

\* A PB between two runs.
PbInv(p, n) ==
  /\ Playable(p) /\ n \in Nat /\ p.frac \in 0..(One - 1)
  /\ p.running => Heard(p, p, p.last, n)
  /\ Lasts(p, n, p.running) /\ Counted(p, p, n)

Voices == [p : PBs, fed : Nat]

LEMMA ResampleKeeps ==
  ASSUME NEW p0, Playable(p0), NEW x, OutInv(p0, x)
  PROVE  /\ OutInv(p0, Resample(x))
         /\ ~p0.convert /\ Resample(x).p.running => Resample(x).fed = x.fed + N
<1>1. N \in Nat /\ x.p.convert = p0.convert /\ RunInv(p0, x)
  BY AxAssumption DEF OutInv, RunInv, Kin
<1>2. CASE p0.convert
  <2>1. Resample(x) = Times(Output, x, N)
    BY <1>1, <1>2, Zenon DEF Resample
  <2>2. QED BY <1>1, <1>2, <2>1, TimesOutput
<1>3. CASE ~p0.convert
  <2>. DEFINE y == Times(Sample, x, N)
  <2>1. Resample(x) = y
    BY <1>1, <1>3, Zenon DEF Resample
  <2>2. RunInv(p0, y) /\ y.pos = x.pos /\ (y.p.running => y.fed = x.fed + N)
    BY <1>1, TimesSample
  <2>. HIDE DEF y
  <2>3. OutInv(p0, y)
    BY <2>2 DEF OutInv
  <2>4. QED BY <2>1, <2>2, <2>3
<1>4. QED BY <1>2, <1>3

LEMMA AlikePb ==
  ASSUME NEW p, NEW q, Alike(q, p), Playable(p), q \in PBs, q.loopScale = p.loopScale
  PROVE  /\ Playable(q)
         /\ \A a, l, n : Heard(q, a, l, n) <=> Heard(p, a, l, n)
         /\ \A n, on : Lasts(q, n, on) <=> Lasts(p, n, on)
         /\ \A r, n : Counted(q, r, n) <=> Counted(p, r, n)
<1>1. /\ \A k : Expected(q, k) = Expected(p, k) /\ Place(q, k) = Place(p, k)
      /\ FirstPass(q) = FirstPass(p)
      /\ \A a : Header(q, a) = Header(p, a)
      /\ Plays(q) <=> Plays(p)
  BY SameTrack
<1>2. q.looping = p.looping /\ q.stream = p.stream /\ q.loop = p.loop
  BY DEF Alike
<1>3. Playable(q)
  BY <1>1, <1>2 DEF Playable
<1>4. ASSUME NEW a, NEW l, NEW n PROVE Heard(q, a, l, n) <=> Heard(p, a, l, n)
  BY <1>1 DEF Heard
<1>5. ASSUME NEW n, NEW on PROVE Lasts(q, n, on) <=> Lasts(p, n, on)
  BY <1>1, <1>2 DEF Lasts
<1>6. ASSUME NEW r, NEW n PROVE Counted(q, r, n) <=> Counted(p, r, n)
  BY <1>1, <1>2 DEF Counted
<1>7. QED BY <1>3, <1>4, <1>5, <1>6

Voice(p, n) == [p |-> p, fed |-> n]
Kept(p, x) == [Store(p, x.a) EXCEPT !.last = x.last, !.frac = x.pos]

\* What is written back of a run.
LEMMA KeptIs ==
  ASSUME NEW x \in Runs
  PROVE  /\ Kept(x.p, x) \in PBs /\ Kin(Kept(x.p, x), x.p)
         /\ Kept(x.p, x).running = x.p.running /\ Kept(x.p, x).loops = x.p.loops
         /\ Kept(x.p, x).last = x.last /\ Kept(x.p, x).frac = x.pos
         /\ Read(Kept(x.p, x)) = Read(x.a)
<1>. DEFINE p == x.p
            a == x.a
            s == Store(p, a)
            k == Kept(p, x)
<1>1. p \in PBs /\ a \in Reads /\ x.last \in Windows /\ x.pos \in Int
  BY DEF Runs
<1>. HIDE DEF p, a
<1>2. s = [p EXCEPT !.cur = a.cur, !.scale = a.scale, !.y1 = a.y1, !.y2 = a.y2]
  BY DEF Store
<1>3. a.cur \in Int /\ a.scale \in Int /\ a.y1 \in Int /\ a.y2 \in Int
  BY <1>1 DEF Reads
<1>. HIDE DEF s
<1>4. /\ s \in PBs /\ s.cur = a.cur /\ s.scale = a.scale /\ s.y1 = a.y1 /\ s.y2 = a.y2
      /\ s.running = p.running /\ s.loops = p.loops
  BY <1>1, <1>2, <1>3 DEF PBs
<1>5. Kin(s, p)
  BY <1>1, <1>2 DEF PBs, Kin, Alike
<1>6. k = [s EXCEPT !.last = x.last, !.frac = x.pos]
  BY DEF Kept, s, a
<1>. HIDE DEF k
<1>7. /\ k \in PBs /\ k.cur = s.cur /\ k.scale = s.scale /\ k.y1 = s.y1 /\ k.y2 = s.y2
      /\ k.running = s.running /\ k.loops = s.loops /\ k.last = x.last /\ k.frac = x.pos
  BY <1>1, <1>4, <1>6 DEF PBs
<1>8. Kin(k, s)
  BY <1>1, <1>4, <1>6 DEF PBs, Kin, Alike
<1>9. Kin(k, p)
  BY <1>5, <1>8 DEF Kin, Alike
<1>10. Read(k) = Read(a)
  BY <1>4, <1>7 DEF Read
<1>11. QED BY <1>4, <1>7, <1>9, <1>10 DEF k, p, a

\* A run of a voice that plays.
LEMMA RunVoiceStep ==
  ASSUME NEW p, NEW n, PbInv(p, n), p.running
  PROVE  /\ RunVoice(Voice(p, n)) \in Voices
         /\ PbInv(RunVoice(Voice(p, n)).p, RunVoice(Voice(p, n)).fed)
         /\ Kin(RunVoice(Voice(p, n)).p, p)
         /\ ~p.convert /\ RunVoice(Voice(p, n)).p.running => RunVoice(Voice(p, n)).fed = n + N
<1>. DEFINE v == Voice(p, n)
            x0 == Run(p, n, Load(p), p.last, p.frac)
            x == Resample(x0)
            k == Kept(x.p, x)
<1>0. /\ p \in PBs /\ n \in Nat /\ Playable(p) /\ p.frac \in 0..(One - 1)
      /\ Heard(p, p, p.last, n) /\ Lasts(p, n, TRUE) /\ Counted(p, p, n) /\ One \in Nat \ {0}
  BY AxAssumption DEF PbInv, Playable
<1>1. v.p = p /\ v.fed = n
  BY DEF Voice
<1>2. RunVoice(v) = Voice(k, x.fed)
  <2>. HIDE DEF v
  <2>1. RunVoice(v) = LET y == Resample([p |-> v.p, fed |-> v.fed, a |-> Load(v.p),
                                         last |-> v.p.last, pos |-> v.p.frac])
                      IN  [p |-> [Store(y.p, y.a) EXCEPT !.last = y.last, !.frac = y.pos], fed |-> y.fed]
    BY <1>1, Zenon DEF RunVoice, Window
  <2>2. x0 = [p |-> v.p, fed |-> v.fed, a |-> Load(v.p), last |-> v.p.last, pos |-> v.p.frac]
    BY <1>1 DEF Run
  <2>. HIDE DEF x0
  <2>3. RunVoice(v) = [p |-> [Store(x.p, x.a) EXCEPT !.last = x.last, !.frac = x.pos], fed |-> x.fed]
    BY <2>1, <2>2
  <2>. HIDE DEF x
  <2>4. QED BY <2>3, Zenon DEF Kept, Voice
<1>3. Load(p) \in Reads /\ ~Load(p).stopped /\ Read(Load(p)) = Read(p)
  <2>1. p.cur \in Int /\ p.scale \in Int /\ p.y1 \in Int /\ p.y2 \in Int
    BY <1>0 DEF PBs
  <2>2. Load(p) \in Reads
    BY <2>1 DEF Load, Reads
  <2>3. QED BY <2>2 DEF Load, Read
<1>4. x0.p = p /\ x0.fed = n /\ x0.a = Load(p) /\ x0.last = p.last /\ x0.pos = p.frac /\ x0 \in Runs
  <2>1. p.last \in Windows /\ p.frac \in Int
    BY <1>0 DEF PBs
  <2>. DEFINE a == Load(p)
  <2>2. a \in Reads
    BY <1>3
  <2>. HIDE DEF a
  <2>3. Run(p, n, a, p.last, p.frac) \in Runs
    BY <1>0, <2>1, <2>2 DEF Run, Runs
  <2>4. QED BY <2>3 DEF Run, a
<1>. HIDE DEF x0
<1>5. OutInv(p, x0)
  <2>1. Heard(p, Load(p), p.last, n)
    BY <1>0, <1>3 DEF Heard
  <2>2. Kin(p, p)
    BY DEF Kin, Alike
  <2>3. ~x0.a.stopped
    BY <1>3, <1>4
  <2>4. Lasts(p, x0.fed, ~x0.a.stopped)
    BY <1>0, <1>4 DEF Lasts
  <2>5. RunInv(p, x0)
    BY <1>0, <1>4, <2>1, <2>2, <2>3, <2>4 DEF RunInv
  <2>6. QED BY <1>0, <1>4, <2>5 DEF OutInv
<1>6. OutInv(p, x) /\ (~p.convert /\ x.p.running => x.fed = n + N)
  BY <1>0, <1>4, <1>5, ResampleKeeps
<1>. HIDE DEF x
<1>7. /\ RunInv(p, x) /\ x \in Runs /\ x.fed \in Nat /\ Kin(x.p, p) /\ x.pos \in 0..(One - 1)
      /\ Lasts(p, x.fed, ~x.a.stopped) /\ Counted(p, x.p, x.fed) /\ x.a.stopped \in BOOLEAN
  BY <1>6 DEF OutInv, RunInv, Runs, Reads
<1>8. /\ k \in PBs /\ Kin(k, x.p) /\ k.running = x.p.running /\ k.loops = x.p.loops
      /\ k.last = x.last /\ k.frac = x.pos /\ Read(k) = Read(x.a)
  BY <1>7, KeptIs
<1>. HIDE DEF k
<1>9. Kin(k, p) /\ Alike(k, p) /\ k.loopScale = p.loopScale
  BY <1>7, <1>8 DEF Kin, Alike
<1>10. /\ Playable(k)
       /\ \A a, l, m : Heard(k, a, l, m) <=> Heard(p, a, l, m)
       /\ \A m, on : Lasts(k, m, on) <=> Lasts(p, m, on)
       /\ \A r, m : Counted(k, r, m) <=> Counted(p, r, m)
  BY <1>0, <1>8, <1>9, AlikePb
<1>11. k.running => ~x.a.stopped /\ Heard(k, k, k.last, x.fed)
  <2>1. k.running => ~x.a.stopped
    BY <1>7, <1>8 DEF RunInv
  <2>2. ~x.a.stopped => Heard(p, x.a, x.last, x.fed)
    BY <1>7 DEF RunInv
  <2>3. Heard(p, x.a, x.last, x.fed) => Heard(p, k, k.last, x.fed)
    BY <1>8 DEF Heard
  <2>4. QED BY <1>10, <2>1, <2>2, <2>3
<1>12. Lasts(k, x.fed, k.running)
  <2>1. Lasts(p, x.fed, k.running)
    BY <1>7, <1>11 DEF Lasts
  <2>2. QED BY <1>10, <2>1
<1>13. Counted(k, k, x.fed)
  <2>1. Counted(p, k, x.fed)
    BY <1>7, <1>8 DEF Counted
  <2>2. QED BY <1>10, <2>1
<1>14. PbInv(k, x.fed)
  BY <1>7, <1>8, <1>10, <1>11, <1>12, <1>13 DEF PbInv
<1>. DEFINE w == RunVoice(v)
<1>15. w.p = k /\ w.fed = x.fed /\ w \in Voices
  BY <1>2, <1>7, <1>8 DEF Voice, Voices
<1>. HIDE DEF w
<1>16. w \in Voices /\ PbInv(w.p, w.fed) /\ Kin(w.p, p) /\ (~p.convert /\ w.p.running => w.fed = n + N)
  BY <1>6, <1>8, <1>9, <1>14, <1>15
<1>17. QED BY <1>16 DEF w

-----------------------------------------------------------------------------
(* A GameCube's frame, millisecond by millisecond.                          *)

Ms(w, ms) == RunVoice([w EXCEPT !.p = Update(w.p, ms)])
Starts(p, ms) == p.updates[ms] = "run"

\* A PB between two frames: a start that waits finds the note at its begin.
Queued(p) == p.updates \in {Idle} \cup {[Idle EXCEPT ![ms] = "run"] : ms \in 1..MsPerFrame}
                              \cup {[Idle EXCEPT ![ms] = "stop"] : ms \in 1..MsPerFrame}
FrameInv(p, n) ==
  /\ PbInv(p, n) /\ Queued(p)
  /\ (\E ms \in 1..MsPerFrame : Starts(p, ms)) =>
        ~p.running /\ n = 0 /\ Heard(p, p, p.last, n) /\ Lasts(p, n, TRUE)

LEMMA OneStart ==
  ASSUME NEW p, p \in PBs, Queued(p), NEW ms \in 1..MsPerFrame, Starts(p, ms)
  PROVE  \A m \in 1..MsPerFrame : m # ms => p.updates[m] = "none"
<1>1. \A m \in 1..MsPerFrame : Idle[m] = "none"
  BY DEF Idle
<1>2. Idle \in [1..MsPerFrame -> {"none"}]
  BY DEF Idle
<1>. HIDE DEF Idle
<1>3. p.updates # Idle
  BY <1>1 DEF Starts
<1>4. CASE \E m \in 1..MsPerFrame : p.updates = [Idle EXCEPT ![m] = "run"]
  <2>1. PICK m \in 1..MsPerFrame : p.updates = [Idle EXCEPT ![m] = "run"]
    BY <1>4
  <2>2. ms = m
    BY <1>1, <1>2, <2>1 DEF Starts
  <2>3. QED BY <1>1, <1>2, <2>1, <2>2
<1>5. CASE \E m \in 1..MsPerFrame : p.updates = [Idle EXCEPT ![m] = "stop"]
  <2>1. PICK m \in 1..MsPerFrame : p.updates = [Idle EXCEPT ![m] = "stop"]
    BY <1>5
  <2>2. FALSE
    BY <1>1, <1>2, <2>1 DEF Starts
  <2>3. QED BY <2>2
<1>6. QED BY <1>3, <1>4, <1>5 DEF Queued

\* Setting whether it runs changes nothing else.
LEMMA Switched ==
  ASSUME NEW p, Playable(p), NEW b \in BOOLEAN
  PROVE  /\ [p EXCEPT !.running = b] \in PBs /\ [p EXCEPT !.running = b].running = b
         /\ Kin([p EXCEPT !.running = b], p)
         /\ \A n : Counted([p EXCEPT !.running = b], [p EXCEPT !.running = b], n) <=> Counted(p, p, n)
         /\ \A n : Heard([p EXCEPT !.running = b], [p EXCEPT !.running = b], [p EXCEPT !.running = b].last, n)
                     <=> Heard(p, p, p.last, n)
         /\ \A n, on : Lasts([p EXCEPT !.running = b], n, on) <=> Lasts(p, n, on)
         /\ Playable([p EXCEPT !.running = b]) /\ [p EXCEPT !.running = b].frac = p.frac
<1>. DEFINE q == [p EXCEPT !.running = b]
<1>0. p \in PBs
  BY DEF Playable
<1>1. /\ q \in PBs /\ q.running = b /\ q.loops = p.loops /\ q.last = p.last /\ q.frac = p.frac
      /\ q.cur = p.cur /\ q.scale = p.scale /\ q.y1 = p.y1 /\ q.y2 = p.y2
  BY <1>0 DEF PBs
<1>2. Kin(q, p)
  BY <1>0 DEF PBs, Kin, Alike
<1>. HIDE DEF q
<1>3. /\ Playable(q)
      /\ \A a, l, n : Heard(q, a, l, n) <=> Heard(p, a, l, n)
      /\ \A n, on : Lasts(q, n, on) <=> Lasts(p, n, on)
      /\ \A r, n : Counted(q, r, n) <=> Counted(p, r, n)
  <2>1. Alike(q, p) /\ q.loopScale = p.loopScale
    BY <1>2 DEF Kin
  <2>2. QED BY <1>1, <2>1, AlikePb
<1>4. Read(q) = Read(p)
  BY <1>1 DEF Read
<1>5. ASSUME NEW n PROVE Heard(q, q, q.last, n) <=> Heard(p, p, p.last, n)
  <2>1. Heard(p, q, q.last, n) <=> Heard(p, p, p.last, n)
    BY <1>1, <1>4 DEF Heard
  <2>2. QED BY <1>3, <2>1
<1>6. ASSUME NEW n PROVE Counted(q, q, n) <=> Counted(p, p, n)
  <2>1. Counted(p, q, n) <=> Counted(p, p, n)
    BY <1>1 DEF Counted
  <2>2. QED BY <1>3, <2>1
<1>7. QED BY <1>1, <1>2, <1>3, <1>5, <1>6 DEF q

\* A millisecond, from where its update leaves the voice ready.
MsOk(p, n, w) ==
  /\ w \in Voices /\ PbInv(w.p, w.fed) /\ w.p.updates = p.updates /\ w.p.convert = p.convert
  /\ ~p.convert /\ w.p.running => w.fed = n + N

Off(w, n) == ~w.p.running /\ w.fed = n

LEMMA MsStep ==
  ASSUME NEW p, NEW n, PbInv(p, n), NEW ms \in 1..MsPerFrame,
         Starts(p, ms) => Heard(p, p, p.last, n) /\ Lasts(p, n, TRUE)
  PROVE  /\ MsOk(p, n, Ms(Voice(p, n), ms))
         /\ ~p.running /\ ~Starts(p, ms) => Off(Ms(Voice(p, n), ms), n)
         /\ ~p.running /\ p.updates[ms] = "none" => Ms(Voice(p, n), ms) = Voice(p, n)
<1>. DEFINE v == Voice(p, n)
            q == Update(p, ms)
<1>0. p \in PBs /\ Playable(p) /\ n \in Nat /\ p.running \in BOOLEAN
      /\ p.updates[ms] \in {"none", "run", "stop"} /\ p.frac \in 0..(One - 1)
  <2>1. p \in PBs /\ Playable(p) /\ n \in Nat /\ p.frac \in 0..(One - 1)
    BY DEF PbInv, Playable
  <2>2. p.running \in BOOLEAN /\ p.updates \in Queues
    BY <2>1 DEF PBs
  <2>3. QED BY <2>1, <2>2 DEF Queues
<1>1. Ms(v, ms) = RunVoice(Voice(q, n))
  <2>1. v.p = p /\ [v EXCEPT !.p = q] = Voice(q, n)
    <3>. HIDE DEF q
    <3>1. QED BY DEF Voice
  <2>. HIDE DEF v
  <2>2. QED BY <2>1, Zenon DEF Ms
<1>2. /\ p.updates[ms] = "run" => q = [p EXCEPT !.running = TRUE]
      /\ p.updates[ms] = "stop" => q = [p EXCEPT !.running = FALSE]
      /\ p.updates[ms] = "none" => q = p
  <2>1. "run" # "stop" /\ "run" # "none" /\ "stop" # "none"
    OBVIOUS
  <2>2. QED BY <2>1 DEF Update
<1>. HIDE DEF q
<1>3. PbInv(q, n) /\ q.updates = p.updates /\ q.convert = p.convert /\ q \in PBs
  <2>1. CASE p.updates[ms] = "run"
    <3>. DEFINE b == TRUE
                r == [p EXCEPT !.running = b]
    <3>1. q = r /\ b \in BOOLEAN
      BY <1>2, <2>1
    <3>. HIDE DEF b
    <3>2. /\ r \in PBs /\ r.running = b /\ Kin(r, p) /\ Playable(r) /\ r.frac = p.frac
          /\ Counted(r, r, n) <=> Counted(p, p, n)
          /\ Heard(r, r, r.last, n) <=> Heard(p, p, p.last, n)
          /\ \A on : Lasts(r, n, on) <=> Lasts(p, n, on)
      BY <1>0, <3>1, Switched
    <3>. HIDE DEF r
    <3>3. Heard(p, p, p.last, n) /\ Lasts(p, n, TRUE) /\ Counted(p, p, n)
      BY <2>1 DEF Starts, PbInv
    <3>4. PbInv(r, n)
      BY <1>0, <3>2, <3>3 DEF PbInv, b
    <3>5. QED BY <3>1, <3>2, <3>4 DEF Kin
  <2>2. CASE p.updates[ms] = "stop"
    <3>. DEFINE b == FALSE
                r == [p EXCEPT !.running = b]
    <3>1. q = r /\ b \in BOOLEAN
      BY <1>2, <2>2
    <3>. HIDE DEF b
    <3>2. /\ r \in PBs /\ r.running = b /\ Kin(r, p) /\ Playable(r) /\ r.frac = p.frac
          /\ Counted(r, r, n) <=> Counted(p, p, n)
          /\ \A on : Lasts(r, n, on) <=> Lasts(p, n, on)
      BY <1>0, <3>1, Switched
    <3>. HIDE DEF r
    <3>3. Lasts(p, n, FALSE) /\ Counted(p, p, n)
      BY DEF PbInv, Lasts
    <3>4. PbInv(r, n)
      BY <1>0, <3>2, <3>3 DEF PbInv, b
    <3>5. QED BY <3>1, <3>2, <3>4 DEF Kin
  <2>3. CASE p.updates[ms] = "none"
    BY <1>0, <1>2, <2>3
  <2>4. QED BY <1>0, <2>1, <2>2, <2>3
<1>. DEFINE u == Voice(q, n)
            w == RunVoice(u)
<1>4. u.p = q /\ u.fed = n /\ u \in Voices
  BY <1>0, <1>3 DEF Voice, Voices
<1>5. ~q.running => w = u
  <2>. HIDE DEF u
  <2>1. QED BY <1>4 DEF RunVoice
<1>6. MsOk(p, n, w)
  <2>1. CASE q.running
    <3>1. w \in Voices /\ PbInv(w.p, w.fed) /\ Kin(w.p, q) /\ (~q.convert /\ w.p.running => w.fed = n + N)
      BY <1>3, <2>1, RunVoiceStep
    <3>. HIDE DEF w
    <3>2. QED BY <1>3, <3>1 DEF MsOk, Kin
  <2>2. CASE ~q.running
    <3>1. w.p = q /\ w.fed = n /\ w \in Voices
      BY <1>4, <1>5, <2>2
    <3>. HIDE DEF w
    <3>2. QED BY <1>3, <2>2, <3>1 DEF MsOk
  <2>3. QED BY <2>1, <2>2
<1>7. ASSUME ~p.running, ~Starts(p, ms) PROVE Off(w, n)
  <2>1. p.updates[ms] = "none" \/ p.updates[ms] = "stop"
    BY <1>0, <1>7 DEF Starts
  <2>2. ~[p EXCEPT !.running = FALSE].running
    <3>. DEFINE b == FALSE
    <3>1. b \in BOOLEAN
      OBVIOUS
    <3>. HIDE DEF b
    <3>2. [p EXCEPT !.running = b].running = b
      BY <1>0, <3>1, Switched
    <3>3. QED BY <3>2 DEF b
  <2>3. ~q.running
    BY <1>2, <1>7, <2>1, <2>2
  <2>. HIDE DEF w, u
  <2>4. QED BY <1>4, <1>5, <2>3 DEF Off
<1>8. ASSUME ~p.running, p.updates[ms] = "none" PROVE w = v
  <2>1. q = p
    BY <1>2, <1>8
  <2>2. u = v
    BY <2>1
  <2>. HIDE DEF w, u, v
  <2>3. QED BY <1>5, <1>8, <2>1, <2>2
<1>9. QED BY <1>1, <1>6, <1>7, <1>8

\* The frame's milliseconds, one by one: the update that starts a note finds
\* the voice as the frame did.
Frame(h, p, n) ==
  /\ h[0] = Voice(p, n) /\ h[MsPerFrame] = GcVoice(Voice(p, n))
  /\ \A k \in 0..MsPerFrame : h[k] \in Voices /\ PbInv(h[k].p, h[k].fed)
                              /\ h[k].p.updates = p.updates /\ h[k].p.convert = p.convert
  /\ \A k \in 1..MsPerFrame : h[k] = IF Starts(p, k) THEN Ms(Voice(p, n), k) ELSE Ms(h[k - 1], k)

\* Before its start the note's voice stands still.
Still(g, p, n, s) ==
  /\ g[{}] = Voice(p, n)
  /\ \A t \in SUBSET (1..(s - 1)) : t # {} /\ g[t \ {Max(t)}] = Voice(p, n) =>
        g[t] = Ms(Voice(p, n), Max(t))

LEMMA StandsStill ==
  ASSUME NEW p, NEW n, FrameInv(p, n), NEW s \in 1..MsPerFrame, Starts(p, s), NEW g, Still(g, p, n, s)
  PROVE  \A t \in SUBSET (1..(s - 1)) : g[t] = Voice(p, n)
<1>. DEFINE v == Voice(p, n)
            E == 1..(s - 1)
            ch == [t \in SUBSET E |-> Max(t)]
<1>0. MsPerFrame \in Nat
  BY AxAssumption
<1>1. p \in PBs /\ Queued(p) /\ ~p.running /\ PbInv(p, n)
  BY DEF FrameInv, PbInv, Playable
<1>2. \A t \in SUBSET E : t # {} => Max(t) \in t
  <2>1. \A t \in SUBSET E : t \in SUBSET (1..MsPerFrame)
    BY <1>0
  <2>. HIDE DEF E
  <2>2. QED BY <1>0, <2>1, MaxIn
<1>3. g[{}] = v /\ \A t \in SUBSET E : t # {} /\ g[t \ {Max(t)}] = v => g[t] = Ms(v, Max(t))
  BY DEF Still
<1>. HIDE DEF v
<1>4. ASSUME NEW t \in SUBSET E, t # {}, g[t \ {Max(t)}] = v
      PROVE  g[t] = v
  <2>1. Max(t) \in 1..MsPerFrame /\ Max(t) # s
    <3>1. Max(t) \in E
      <4>. HIDE DEF E
      <4>1. QED BY <1>2, <1>4
    <3>2. \A m \in E : m \in 1..MsPerFrame /\ m # s
      BY <1>0
    <3>. HIDE DEF E
    <3>3. QED BY <3>1, <3>2
  <2>2. p.updates[Max(t)] = "none"
    BY <1>1, <2>1, OneStart
  <2>3. ~Starts(p, Max(t))
    BY <2>2 DEF Starts
  <2>4. Ms(v, Max(t)) = v
    BY <1>1, <2>1, <2>2, <2>3, MsStep DEF v
  <2>5. QED BY <1>3, <1>4, <2>4
<1>5. IsFiniteSet(E)
  BY FS_Interval
<1>6. \A t \in SUBSET E : t # {} => ch[t] \in t /\ (g[t \ {ch[t]}] \in {v} => g[t] \in {v})
  <2>1. \A t \in SUBSET E : ch[t] = Max(t)
    OBVIOUS
  <2>. HIDE DEF E, ch
  <2>2. QED BY <1>2, <1>4, <2>1
<1>7. g[{}] \in {v}
  BY <1>3
<1>. HIDE DEF E, ch
<1>8. \A t \in SUBSET E : g[t] \in {v}
  <2>. DEFINE Z == {v}
  <2>1. /\ g[{}] \in Z
        /\ \A t \in SUBSET E : t # {} => ch[t] \in t /\ (g[t \ {ch[t]}] \in Z => g[t] \in Z)
    BY <1>6, <1>7
  <2>. HIDE DEF Z
  <2>2. \A t \in SUBSET E : g[t] \in Z
    BY <1>5, <2>1, FoldStays
  <2>3. QED BY <2>2 DEF Z
<1>9. QED BY <1>8 DEF E, v

LEMMA FrameExists ==
  ASSUME NEW p, NEW n, FrameInv(p, n)
  PROVE  \E h : Frame(h, p, n)
<1>. DEFINE v == Voice(p, n)
            X == {w \in Voices : PbInv(w.p, w.fed) /\ w.p.updates = p.updates /\ w.p.convert = p.convert}
            M == MsPerFrame
            Act(w, k) == IF Starts(p, k) THEN Ms(v, k) ELSE Ms(w, k)
            F == [k \in 1..M |-> [w \in X |-> Act(w, k)]]
            D == DOMAIN [ms \in 1..M |-> ms]
            seq == [ms \in 1..M |-> ms]
            Eq(it) == it = [t \in SUBSET D |-> IF t = {} THEN v
                              ELSE LET m == Max(t)
                                   IN  RunVoice([it[t \ {m}] EXCEPT !.p = Update(it[t \ {m}].p, seq[m])])]
            it == CHOOSE it : Eq(it)
<1>0. D = 1..M /\ M \in Nat /\ \A k \in 1..M : seq[k] = k
  BY AxAssumption
<1>1. v \in X /\ v.p = p /\ v.fed = n
  <2>1. p \in PBs /\ n \in Nat /\ PbInv(p, n)
    BY DEF FrameInv, PbInv, Playable
  <2>2. v \in Voices /\ v.p = p /\ v.fed = n
    BY <2>1 DEF Voice, Voices
  <2>. HIDE DEF v
  <2>3. QED BY <2>1, <2>2
<1>2. \A w \in Voices : Voice(w.p, w.fed) = w
  BY DEF Voice, Voices
<1>. HIDE DEF v, seq
<1>3. ASSUME NEW k \in 1..M, NEW w \in X PROVE Act(w, k) \in X
  <2>1. CASE Starts(p, k)
    <3>1. PbInv(p, n) /\ Heard(p, p, p.last, n) /\ Lasts(p, n, TRUE)
      BY <2>1 DEF FrameInv
    <3>2. MsOk(p, n, Ms(Voice(p, n), k))
      BY <3>1, MsStep
    <3>3. QED BY <2>1, <3>2 DEF MsOk, v
  <2>2. CASE ~Starts(p, k)
    <3>1. PbInv(w.p, w.fed) /\ ~Starts(w.p, k) /\ Voice(w.p, w.fed) = w
          /\ w.p.updates = p.updates /\ w.p.convert = p.convert
      BY <1>2, <2>2, <1>3 DEF Starts
    <3>2. MsOk(w.p, w.fed, Ms(Voice(w.p, w.fed), k))
      BY <3>1, MsStep
    <3>3. QED BY <2>2, <3>1, <3>2 DEF MsOk
  <2>3. QED BY <2>1, <2>2
<1>. HIDE DEF X
<1>4. F \in [1..M -> [X -> X]] /\ \A k \in 1..M, w \in X : F[k][w] = Act(w, k)
  <2>. HIDE DEF Act
  <2>1. QED BY <1>3
<1>. HIDE DEF F
<1>5. PICK g \in [SUBSET (1..M) -> X] : LeftFold(g, M, X, v, F)
  BY <1>0, <1>1, <1>4, LeftFoldExists
<1>6. \A t \in SUBSET (1..M) : t # {} => Max(t) \in 1..M /\ Max(t) \in t /\ t \ {Max(t)} \in SUBSET (1..M)
                                         /\ \A i \in t : i <= Max(t)
  <2>1. ASSUME NEW t \in SUBSET (1..M), t # {} PROVE Max(t) \in t /\ \A i \in t : i <= Max(t)
    BY <1>0, <2>1, MaxGreatest
  <2>2. QED BY <2>1
<1>7. /\ g[{}] = v
      /\ \A t \in SUBSET (1..M) : t # {} => g[t] = Act(g[t \ {Max(t)}], Max(t)) /\ g[t \ {Max(t)}] \in X
  <2>1. /\ g[{}] = v
        /\ \A t \in SUBSET (1..M) : t # {} /\ g[t \ {Max(t)}] \in X => g[t] = F[Max(t)][g[t \ {Max(t)}]]
    BY <1>5 DEF LeftFold
  <2>2. ASSUME NEW t \in SUBSET (1..M), t # {}
        PROVE  g[t] = Act(g[t \ {Max(t)}], Max(t)) /\ g[t \ {Max(t)}] \in X
    <3>1. Max(t) \in 1..M /\ g[t \ {Max(t)}] \in X
      BY <1>5, <1>6, <2>2
    <3>. HIDE DEF Act
    <3>2. QED BY <1>4, <2>1, <2>2, <3>1
  <2>. HIDE DEF Act
  <2>3. QED BY <2>1, <2>2
<1>8. \A s \in 1..M : \A t \in SUBSET (1..(s - 1)) :
         t \in SUBSET (1..M) /\ (t # {} => Max(t) \in 1..M /\ Max(t) # s)
  <2>1. ASSUME NEW s \in 1..M, NEW t \in SUBSET (1..(s - 1))
        PROVE  t \in SUBSET (1..M) /\ (t # {} => Max(t) \in 1..M /\ Max(t) # s)
    <3>1. t \in SUBSET (1..M)
      BY <1>0
    <3>2. QED BY <1>0, <1>6, <3>1
  <2>2. QED BY <2>1
<1>81. \A s \in 1..M : Starts(p, s) => \A t \in SUBSET (1..(s - 1)) : t # {} => ~Starts(p, Max(t))
  <2>1. p \in PBs /\ Queued(p)
    BY DEF FrameInv, PbInv, Playable
  <2>2. "none" # "run"
    OBVIOUS
  <2>3. QED BY <1>8, <2>1, <2>2, OneStart DEF Starts
<1>82. ASSUME NEW s \in 1..M, Starts(p, s) PROVE \A t \in SUBSET (1..(s - 1)) : g[t] = v
  <2>1. Still(g, p, n, s)
    BY <1>7, <1>8, <1>81, <1>82 DEF Still, v
  <2>2. QED BY <1>82, <2>1, StandsStill DEF v
\* What is left of a set of milliseconds without its last.
<1>83. ASSUME NEW t \in SUBSET (1..M), t # {}
       PROVE  Max(t) \in 1..M /\ t \ {Max(t)} \in SUBSET (1..(Max(t) - 1))
  <2>1. \A i \in t : i \in Nat /\ 1 <= i /\ i <= Max(t)
    BY <1>6, <1>83
  <2>2. QED BY <1>6, <1>83, <2>1
<1>9. \A t \in SUBSET (1..M) : t # {} => g[t] = Ms(g[t \ {Max(t)}], Max(t))
  <2>1. ASSUME NEW t \in SUBSET (1..M), t # {} PROVE g[t] = Ms(g[t \ {Max(t)}], Max(t))
    <3>1. CASE ~Starts(p, Max(t))
      BY <1>7, <2>1, <3>1
    <3>2. CASE Starts(p, Max(t))
      <4>1. Max(t) \in 1..M /\ t \ {Max(t)} \in SUBSET (1..(Max(t) - 1))
        BY <1>83, <2>1
      <4>2. g[t \ {Max(t)}] = v
        BY <1>82, <3>2, <4>1
      <4>3. QED BY <1>7, <2>1, <3>2, <4>2
    <3>3. QED BY <3>1, <3>2
  <2>2. QED BY <2>1
<1>10. \A w, k : RunVoice([w EXCEPT !.p = Update(w.p, k)]) = Ms(w, k)
  BY Zenon DEF Ms
<1>11. Eq(g)
  <2>1. \A t \in SUBSET (1..M) : g[t] = IF t = {} THEN v
           ELSE RunVoice([g[t \ {Max(t)}] EXCEPT !.p = Update(g[t \ {Max(t)}].p, seq[Max(t)])])
    <3>1. ASSUME NEW t \in SUBSET (1..M), t # {}
          PROVE  g[t] = RunVoice([g[t \ {Max(t)}] EXCEPT !.p = Update(g[t \ {Max(t)}].p, seq[Max(t)])])
      <4>1. seq[Max(t)] = Max(t)
        BY <1>0, <1>6, <3>1
      <4>2. QED BY <1>9, <1>10, <3>1, <4>1
    <3>2. QED BY <1>7, <3>1
  <2>. HIDE DEF D
  <2>2. QED BY <1>0, <1>5, <2>1
<1>12. Eq(it)
  <2>. HIDE DEF Eq
  <2>1. QED BY <1>11, Zenon
<1>13. GcVoice(v) = it[D]
  BY Zenon DEF GcVoice, FoldLeft, MapThenFoldSet, seq
<1>. HIDE DEF it, D
<1>14. it[{}] = v /\ \A t \in SUBSET (1..M) : t # {} => it[t] = Ms(it[t \ {Max(t)}], Max(t))
  <2>1. \A t \in SUBSET (1..M) : it[t] = IF t = {} THEN v
           ELSE RunVoice([it[t \ {Max(t)}] EXCEPT !.p = Update(it[t \ {Max(t)}].p, seq[Max(t)])])
    BY <1>0, <1>12
  <2>2. ASSUME NEW t \in SUBSET (1..M), t # {} PROVE it[t] = Ms(it[t \ {Max(t)}], Max(t))
    <3>1. seq[Max(t)] = Max(t)
      BY <1>0, <1>6, <2>2
    <3>. DEFINE y == it[t \ {Max(t)}]
    <3>2. it[t] = RunVoice([y EXCEPT !.p = Update(y.p, Max(t))])
      BY <2>1, <2>2, <3>1
    <3>. HIDE DEF y
    <3>3. it[t] = Ms(y, Max(t))
      BY <1>10, <3>2
    <3>4. QED BY <3>3 DEF y
  <2>3. QED BY <2>1, <2>2
<1>15. ASSUME NEW s \in 1..M, Starts(p, s) PROVE \A t \in SUBSET (1..(s - 1)) : it[t] = v
  <2>1. Still(it, p, n, s)
    BY <1>8, <1>14 DEF Still, v
  <2>2. QED BY <1>15, <2>1, StandsStill DEF v
<1>16. LeftFold(it, M, X, v, F)
  <2>1. ASSUME NEW t \in SUBSET (1..M), t # {}, it[t \ {Max(t)}] \in X
        PROVE  it[t] = F[Max(t)][it[t \ {Max(t)}]]
    <3>1. F[Max(t)][it[t \ {Max(t)}]] = Act(it[t \ {Max(t)}], Max(t))
      BY <1>4, <1>83, <2>1
    <3>2. Starts(p, Max(t)) => it[t \ {Max(t)}] = v
      BY <1>15, <1>83, <2>1
    <3>3. QED BY <1>14, <2>1, <3>1, <3>2
  <2>2. QED BY <1>14, <2>1 DEF LeftFold
<1>17. PICK h : Steps(h, M, X, v, F) /\ h[M] = it[1..M]
  <2>1. M \in Nat /\ v \in X /\ F \in [1..M -> [X -> X]] /\ LeftFold(it, M, X, v, F)
    BY <1>0, <1>1, <1>4, <1>16
  <2>. HIDE DEF M
  <2>2. QED BY <2>1, LeftFoldSteps
<1>18. h \in [0..M -> X] /\ h[0] = v /\ \A k \in 1..M : h[k] = F[k][h[k - 1]]
  BY <1>17 DEF Steps
<1>19. ASSUME NEW k \in 1..M PROVE h[k] = Act(h[k - 1], k)
  <2>1. k - 1 \in 0..M
    BY <1>0
  <2>2. h[k - 1] \in X
    BY <1>18, <2>1
  <2>. HIDE DEF Act
  <2>3. QED BY <1>4, <1>18, <2>2
<1>20. h[M] = GcVoice(v)
  BY <1>0, <1>13, <1>17
<1>21. \A k \in 0..M : h[k] \in X
  BY <1>18
<1>22. Frame(h, p, n)
  BY <1>18, <1>19, <1>20, <1>21 DEF Frame, X, v
<1>23. QED BY <1>22

\* What a frame leaves, and what it does of a note that starts within it.
LEMMA GcVoiceStep ==
  ASSUME NEW p, NEW n, FrameInv(p, n)
  PROVE  /\ GcVoice(Voice(p, n)) \in Voices
         /\ PbInv(GcVoice(Voice(p, n)).p, GcVoice(Voice(p, n)).fed)
<1>1. PICK h : Frame(h, p, n)
  BY FrameExists
<1>2. MsPerFrame \in 0..MsPerFrame
  BY AxAssumption
<1>3. h[MsPerFrame] = GcVoice(Voice(p, n)) /\ h[MsPerFrame] \in Voices
      /\ PbInv(h[MsPerFrame].p, h[MsPerFrame].fed)
  BY <1>1, <1>2, Zenon DEF Frame
<1>4. QED BY <1>3

LEMMA MsOfFrame ==
  ASSUME NEW p, NEW n, FrameInv(p, n), ~p.convert, NEW h, Frame(h, p, n),
         NEW k \in 1..MsPerFrame, ~Starts(p, k)
  PROVE  /\ h[k - 1].fed \in Nat
         /\ h[k].p.running => h[k].fed = h[k - 1].fed + N
         /\ ~h[k - 1].p.running => ~h[k].p.running /\ h[k].fed = h[k - 1].fed
<1>1. k - 1 \in 0..MsPerFrame
  BY AxAssumption
<1>. DEFINE w == h[k - 1]
<1>2. w \in Voices /\ PbInv(w.p, w.fed) /\ w.p.updates = p.updates /\ w.p.convert = p.convert
      /\ h[k] = Ms(w, k)
  BY <1>1, Zenon DEF Frame
<1>. HIDE DEF w
<1>3. Voice(w.p, w.fed) = w /\ w.fed \in Nat /\ ~Starts(w.p, k)
  BY <1>2 DEF Voices, Voice, Starts
<1>4. MsOk(w.p, w.fed, Ms(Voice(w.p, w.fed), k))
  BY <1>2, <1>3, MsStep
<1>41. ~w.p.running => Off(Ms(Voice(w.p, w.fed), k), w.fed)
  BY <1>2, <1>3, MsStep
<1>5. MsOk(w.p, w.fed, h[k]) /\ (~w.p.running => ~h[k].p.running /\ h[k].fed = w.fed)
  BY <1>2, <1>3, <1>4, <1>41 DEF Off
<1>6. h[k].p.running => h[k].fed = w.fed + N
  BY <1>2, <1>5 DEF MsOk
<1>7. QED BY <1>3, <1>5, <1>6 DEF w

LEMMA GcStarts ==
  ASSUME NEW p, NEW n, FrameInv(p, n), ~p.running, ~p.convert,
         GcVoice(Voice(p, n)).p.running
  PROVE  \E ms \in 1..MsPerFrame :
            p.updates[ms] = "run" /\ GcVoice(Voice(p, n)).fed = (MsPerFrame - ms + 1) * N
<1>. DEFINE M == MsPerFrame
<1>0. M \in Nat \ {0} /\ N \in Nat
  BY AxAssumption
<1>1. PICK h : Frame(h, p, n)
  BY FrameExists
<1>2. h[0] = Voice(p, n) /\ h[M] = GcVoice(Voice(p, n)) /\ h[M].p.running
      /\ \A k \in 1..M : Starts(p, k) => h[k] = Ms(Voice(p, n), k)
  BY <1>1, Zenon DEF Frame
<1>3. \A k \in 1..M : ~Starts(p, k) =>
         /\ h[k - 1].fed \in Nat
         /\ h[k].p.running => h[k].fed = h[k - 1].fed + N
         /\ ~h[k - 1].p.running => ~h[k].p.running /\ h[k].fed = h[k - 1].fed
  BY <1>1, MsOfFrame
<1>4. \E ms \in 1..M : Starts(p, ms)
  <2>. SUFFICES ASSUME \A ms \in 1..M : ~Starts(p, ms) PROVE FALSE
    OBVIOUS
  <2>. DEFINE S == {k \in 0..M : ~h[k].p.running}
  <2>1. 0 \in S
    BY <1>0, <1>2 DEF Voice
  <2>2. ASSUME NEW k \in Nat, k < M, k \in S PROVE k + 1 \in S
    <3>1. k + 1 \in 1..M /\ (k + 1) - 1 = k
      BY <1>0, <2>2
    <3>2. ~h[k + 1].p.running
      BY <1>3, <2>2, <3>1
    <3>3. QED BY <3>1, <3>2
  <2>. HIDE DEF S
  <2>3. \A k \in 0..M : k \in S
    BY <1>0, <2>1, <2>2, Upto
  <2>4. M \in S
    BY <1>0, <2>3
  <2>5. QED BY <1>2, <2>4 DEF S
<1>5. PICK ms \in 1..M : Starts(p, ms)
  BY <1>4
<1>6. n = 0 /\ PbInv(p, n) /\ Heard(p, p, p.last, n) /\ Lasts(p, n, TRUE) /\ p \in PBs /\ Queued(p)
  BY <1>5 DEF FrameInv, PbInv, Playable
<1>7. h[ms].p.running => h[ms].fed = N
  <2>1. MsOk(p, n, Ms(Voice(p, n), ms))
    BY <1>5, <1>6, MsStep
  <2>2. MsOk(p, n, h[ms])
    BY <1>2, <1>5, <2>1
  <2>3. QED BY <1>0, <1>6, <2>2 DEF MsOk
<1>8. \A k \in 1..M : k # ms => ~Starts(p, k)
  BY <1>5, <1>6, OneStart DEF Starts
<1>. DEFINE d == M - ms
            S == {j \in 0..d : h[ms + j].p.running => h[ms + j].fed = (j + 1) * N}
<1>9. d \in Nat /\ ms \in Nat /\ ms + d = M
  BY <1>0
<1>10. 0 \in S
  <2>1. ms + 0 = ms /\ (0 + 1) * N = N
    BY <1>0
  <2>2. QED BY <1>7, <1>9, <2>1
<1>11. ASSUME NEW j \in Nat, j < d, j \in S PROVE j + 1 \in S
  <2>. DEFINE k == ms + (j + 1)
  <2>1. k \in 1..M /\ k # ms /\ k - 1 = ms + j /\ j + 1 \in 0..d
    BY <1>0, <1>9, <1>11
  <2>2. ~Starts(p, k)
    BY <1>8, <2>1
  <2>3. /\ h[k].p.running => h[k].fed = h[ms + j].fed + N
        /\ ~h[ms + j].p.running => ~h[k].p.running
    BY <1>3, <2>1, <2>2
  <2>4. h[ms + j].p.running => h[ms + j].fed = (j + 1) * N
    BY <1>11
  <2>5. ((j + 1) + 1) * N = (j + 1) * N + N
    <3>1. j + 1 \in Nat /\ j + 1 <= j + 1
      OBVIOUS
    <3>2. QED BY <1>0, <3>1, TimesFacts
  <2>6. h[k].p.running => h[k].fed = ((j + 1) + 1) * N
    BY <2>3, <2>4, <2>5
  <2>7. QED BY <2>1, <2>6
<1>. HIDE DEF S
<1>12. \A j \in 0..d : j \in S
  BY <1>9, <1>10, <1>11, Upto
<1>13. d \in S
  BY <1>9, <1>12
<1>14. h[M].fed = (d + 1) * N
  BY <1>2, <1>9, <1>13 DEF S
<1>15. QED BY <1>2, <1>5, <1>14 DEF Starts

-----------------------------------------------------------------------------
(* The voice's PB from command list to command list.                        *)

\* The samples begin, loop and end within a block's sound: the ones whose
\* marks lie on a header take ways of the accelerator no sound library asks for.
SoundTracks == \A t \in Tracks : InBlock(t, t.first) /\ InBlock(t, t.loop) /\ InBlock(t, t.end)

AxIInv == gc \in BOOLEAN /\ FrameInv(pb, fed)

LEMMA QueuesFacts ==
  /\ Idle \in Queues /\ \A ms \in 1..MsPerFrame : Idle[ms] # "run"
  /\ \A m \in 1..MsPerFrame : /\ [Idle EXCEPT ![m] = "run"] \in Queues
                              /\ [Idle EXCEPT ![m] = "run"] # Idle
                              /\ [Idle EXCEPT ![m] = "stop"] \in Queues
                              /\ \A ms \in 1..MsPerFrame : [Idle EXCEPT ![m] = "stop"][ms] # "run"
<1>1. Idle \in [1..MsPerFrame -> {"none"}] /\ \A m \in 1..MsPerFrame : Idle[m] = "none"
  BY DEF Idle
<1>. HIDE DEF Idle
<1>2. Idle \in Queues
  BY <1>1 DEF Queues
<1>3. ASSUME NEW m \in 1..MsPerFrame
      PROVE  /\ [Idle EXCEPT ![m] = "run"] \in Queues
             /\ [Idle EXCEPT ![m] = "stop"] \in Queues
             /\ [Idle EXCEPT ![m] = "run"] # Idle
             /\ \A ms \in 1..MsPerFrame : [Idle EXCEPT ![m] = "stop"][ms] # "run"
  <2>1. [Idle EXCEPT ![m] = "run"] \in Queues
    BY <1>2 DEF Queues
  <2>2. [Idle EXCEPT ![m] = "stop"] \in Queues
    BY <1>2 DEF Queues
  <2>3. [Idle EXCEPT ![m] = "run"][m] = "run"
    BY <1>1
  <2>4. ASSUME NEW ms \in 1..MsPerFrame PROVE [Idle EXCEPT ![m] = "stop"][ms] # "run"
    BY <1>1
  <2>5. QED BY <1>1, <2>1, <2>2, <2>3, <2>4
<1>4. QED BY <1>1, <1>2, <1>3

\* A PB the CPU changes between two frames: its place in the sample stays.
LEMMA SameVoice ==
  ASSUME NEW p, NEW n, PbInv(p, n), NEW q \in PBs, Alike(q, p), q.loopScale = p.loopScale,
         q.cur = p.cur, q.scale = p.scale, q.y1 = p.y1, q.y2 = p.y2, q.last = p.last,
         q.frac = p.frac, q.loops = p.loops, q.running => p.running
  PROVE  PbInv(q, n)
<1>1. Playable(p) /\ n \in Nat /\ p.frac \in 0..(One - 1) /\ (p.running => Heard(p, p, p.last, n))
      /\ Lasts(p, n, p.running) /\ Counted(p, p, n)
  BY DEF PbInv
<1>2. /\ Playable(q)
      /\ \A a, l, m : Heard(q, a, l, m) <=> Heard(p, a, l, m)
      /\ \A m, on : Lasts(q, m, on) <=> Lasts(p, m, on)
      /\ \A r, m : Counted(q, r, m) <=> Counted(p, r, m)
  BY <1>1, AlikePb
<1>3. Read(q) = Read(p)
  BY DEF Read
<1>4. q.running => Heard(q, q, q.last, n)
  <2>1. Heard(p, p, p.last, n) => Heard(p, q, q.last, n)
    BY <1>3 DEF Heard
  <2>2. QED BY <1>1, <1>2, <2>1
<1>5. Lasts(q, n, q.running)
  <2>1. Lasts(p, n, q.running)
    BY <1>1 DEF Lasts
  <2>2. QED BY <1>2, <2>1
<1>6. Counted(q, q, n)
  <2>1. Counted(p, q, n)
    BY <1>1 DEF Counted
  <2>2. QED BY <1>2, <2>1
<1>7. QED BY <1>1, <1>2, <1>4, <1>5, <1>6 DEF PbInv

\* A note as the CPU begins it.
LEMMA NoteFacts ==
  ASSUME SoundTracks, NEW t \in Tracks, NEW r \in Ratios, NEW convert \in BOOLEAN, NEW u \in Queues,
         NEW w, w = Note(t, r, convert, u)
  PROVE  /\ w \in PBs /\ Playable(w) /\ w.updates = u /\ w.frac = 0 /\ (w.running <=> u = Idle)
         /\ Heard(w, w, w.last, 0) /\ Lasts(w, 0, TRUE) /\ Counted(w, w, 0)
<1>0. /\ t.format \in {"adpcm", "pcm"} /\ t.first \in Nat /\ t.loop \in Nat /\ t.end \in Nat
      /\ t.looping \in BOOLEAN /\ t.stream \in BOOLEAN /\ t.first <= t.end /\ t.loop <= t.end
      /\ r \in Nat
  BY AxAssumption
<1>1. InBlock(t, t.first) /\ InBlock(t, t.loop) /\ InBlock(t, t.end)
  BY DEF SoundTracks
<1>. DEFINE on == u = Idle
            b == IF on THEN TRUE ELSE FALSE
            s1 == Header(t, t.first)
            s2 == Header(t, t.loop)
<1>2. s1 \in Int /\ s2 \in Int
  BY <1>0, HeaderTyped
<1>3. Quiet \in Windows /\ \A i \in 1..4 : Quiet[i] = Silence
  BY DEF Quiet, Windows, Silence, Sounds
<1>. HIDE DEF s1, s2
<1>4. w = [format |-> t.format, first |-> t.first, loop |-> t.loop, end |-> t.end,
           looping |-> t.looping, stream |-> t.stream, cur |-> t.first,
           scale |-> s1, loopScale |-> s2,
           y1 |-> -1, y2 |-> -1, running |-> b, ratio |-> r, convert |-> convert,
           frac |-> 0, last |-> Quiet, loops |-> 0, updates |-> u]
  <2>1. b = (u = Idle)
    OBVIOUS
  <2>. HIDE DEF b
  <2>2. QED BY <2>1 DEF Note, s1, s2
<1>. HIDE DEF Quiet
<1>5. b \in BOOLEAN /\ (b <=> u = Idle)
  OBVIOUS
<1>. HIDE DEF b
<1>6. /\ w.format = t.format /\ w.first = t.first /\ w.loop = t.loop /\ w.end = t.end
      /\ w.looping = t.looping /\ w.stream = t.stream /\ w.loopScale = s2
      /\ w.cur = t.first /\ w.scale = s1 /\ w.y1 = -1 /\ w.y2 = -1 /\ w.running = b
      /\ w.frac = 0 /\ w.last = Quiet /\ w.loops = 0 /\ w.updates = u
  BY <1>4
<1>7. w \in PBs
  BY <1>0, <1>2, <1>3, <1>4, <1>5 DEF PBs
<1>8. Alike(w, t)
  BY <1>6 DEF Alike
<1>9. Plays(t)
  BY <1>0, <1>1 DEF Plays
<1>10. Plays(w) /\ \A a : Header(w, a) = Header(t, a)
  BY <1>8, <1>9, SameTrack
<1>11. Playable(w)
  BY <1>6, <1>7, <1>10 DEF Playable, s2
<1>12. /\ Expected(w, 1) = [at |-> w.first, scale |-> Header(w, w.first), y1 |-> -1, y2 |-> -1]
       /\ Place(w, 1) = [pass |-> 0, at |-> 1]
  BY <1>10, FirstExpected
<1>13. Heard(w, w, w.last, 0)
  <2>1. Read(w) = Expected(w, 0 + 1)
    BY <1>6, <1>10, <1>12 DEF Read, s1
  <2>2. ASSUME NEW i \in 1..4 PROVE w.last[i] = Expected(w, 0 - 4 + i)
    <3>1. 0 - 4 + i < 1
      OBVIOUS
    <3>2. QED BY <1>3, <1>6, <3>1 DEF Expected
  <2>3. QED BY <2>1, <2>2 DEF Heard
<1>14. Lasts(w, 0, TRUE)
  <2>1. Len(FirstPass(w)) \in Nat \ {0}
    BY <1>10, Passes DEF PassTo
  <2>2. QED BY <2>1 DEF Lasts
<1>15. Counted(w, w, 0)
  <2>1. Place(w, 0 + 1).pass = 0
    BY <1>12
  <2>2. QED BY <1>6, <2>1 DEF Counted
<1>16. QED BY <1>5, <1>6, <1>7, <1>11, <1>13, <1>14, <1>15

LEMMA NoStart ==
  ASSUME NEW p, NEW n, PbInv(p, n), p.updates \in {Idle} \cup {[Idle EXCEPT ![ms] = "stop"] : ms \in 1..MsPerFrame}
  PROVE  FrameInv(p, n)
<1>1. \A ms \in 1..MsPerFrame : ~Starts(p, ms)
  BY QueuesFacts DEF Starts
<1>2. Queued(p)
  BY DEF Queued
<1>3. QED BY <1>1, <1>2 DEF FrameInv

LEMMA AxInitHolds == ASSUME SoundTracks PROVE AxInit => AxIInv
<1>. SUFFICES ASSUME AxInit PROVE AxIInv
  OBVIOUS
<1>1. PICK t \in Tracks, r \in Ratios : pb = [Note(t, r, TRUE, Idle) EXCEPT !.running = FALSE]
  BY DEF AxInit
<1>. DEFINE on == TRUE
            b == FALSE
            w == Note(t, r, on, Idle)
            q == [w EXCEPT !.running = b]
<1>2. on \in BOOLEAN /\ b \in BOOLEAN /\ pb = q /\ gc \in BOOLEAN /\ fed = 0
  BY <1>1 DEF AxInit
<1>. HIDE DEF on
<1>3. /\ w \in PBs /\ Playable(w) /\ w.updates = Idle /\ w.frac = 0
      /\ Heard(w, w, w.last, 0) /\ Lasts(w, 0, TRUE) /\ Counted(w, w, 0)
  <2>1. on \in BOOLEAN /\ Idle \in Queues
    BY <1>2, QueuesFacts
  <2>2. \A c \in BOOLEAN, u \in Queues :
          LET x == Note(t, r, c, u)
          IN  /\ x \in PBs /\ Playable(x) /\ x.updates = u /\ x.frac = 0 /\ (x.running <=> u = Idle)
              /\ Heard(x, x, x.last, 0) /\ Lasts(x, 0, TRUE) /\ Counted(x, x, 0)
    BY NoteFacts
  <2>3. QED BY <2>1, <2>2, Zenon
<1>. HIDE DEF w
<1>. HIDE DEF b
<1>4. /\ q \in PBs /\ q.running = b /\ Kin(q, w) /\ Playable(q) /\ q.frac = w.frac
      /\ Counted(q, q, 0) <=> Counted(w, w, 0)
      /\ \A on1 : Lasts(q, 0, on1) <=> Lasts(w, 0, on1)
  BY <1>2, <1>3, Switched
<1>. HIDE DEF q
<1>5. Lasts(w, 0, FALSE) /\ q.updates = Idle
  BY <1>3, <1>4 DEF Lasts, Kin
<1>6. PbInv(q, 0)
  <2>1. 0 \in Nat /\ 0 \in 0..(One - 1)
    BY AxAssumption
  <2>2. QED BY <1>3, <1>4, <1>5, <2>1 DEF PbInv, b
<1>7. FrameInv(q, 0)
  BY <1>5, <1>6, NoStart
<1>8. QED BY <1>2, <1>7 DEF AxIInv

\* The next PB, named as it is now: gc is the machine's and stays.
LEMMA NextFrame ==
  ASSUME gc \in BOOLEAN, gc' = gc, NEW p, NEW n, pb' = p, fed' = n, FrameInv(p, n)
  PROVE  AxIInv'
<1>1. Counted(pb, pb, fed)' <=> Counted(p, p, n)
  BY DEF Counted
<1>2. PbInv(pb, fed)'
  BY <1>1 DEF FrameInv, PbInv
<1>3. FrameInv(pb, fed)'
  BY <1>2 DEF FrameInv
<1>4. QED BY <1>3 DEF AxIInv

LEMMA ProcessPbKeeps ==
  ASSUME AxIInv, ProcessPb
  PROVE  /\ AxIInv'
         /\ ~pb.running /\ fed' > fed /\ pb'.running /\ ~pb.convert =>
              \E ms \in 1..MsPerFrame :
                /\ pb.updates[ms] = "run"
                /\ fed' = (MsPerFrame - ms + 1) * N
<1>. DEFINE v == Voice(pb, fed)
            w == IF gc THEN GcVoice(v) ELSE RunVoice(v)
            q == [w.p EXCEPT !.updates = Idle]
<1>0. FrameInv(pb, fed) /\ PbInv(pb, fed) /\ gc \in BOOLEAN /\ pb \in PBs /\ fed \in Nat
  BY DEF AxIInv, FrameInv, PbInv, Playable
<1>1. pb' = q /\ fed' = w.fed /\ gc' = gc
  BY Zenon DEF ProcessPb, Voice
<1>2. ~pb.running => RunVoice(v) = v
  <2>1. v.p = pb
    BY DEF Voice
  <2>. HIDE DEF v
  <2>2. QED BY <2>1 DEF RunVoice
<1>3. w \in Voices /\ PbInv(w.p, w.fed)
  <2>1. CASE gc
    <3>1. GcVoice(v) \in Voices /\ PbInv(GcVoice(v).p, GcVoice(v).fed)
      BY <1>0, GcVoiceStep
    <3>2. w = GcVoice(v)
      BY <2>1
    <3>. HIDE DEF w
    <3>3. QED BY <3>1, <3>2
  <2>2. CASE ~gc /\ pb.running
    <3>1. RunVoice(v) \in Voices /\ PbInv(RunVoice(v).p, RunVoice(v).fed)
      BY <1>0, <2>2, RunVoiceStep
    <3>2. w = RunVoice(v)
      BY <2>2
    <3>. HIDE DEF w
    <3>3. QED BY <3>1, <3>2
  <2>3. CASE ~gc /\ ~pb.running
    <3>1. w = v
      BY <1>2, <2>3
    <3>2. v \in Voices /\ v.p = pb /\ v.fed = fed
      BY <1>0 DEF Voice, Voices
    <3>. HIDE DEF w, v
    <3>3. QED BY <1>0, <3>1, <3>2
  <2>4. QED BY <2>1, <2>2, <2>3
<1>4. w.p.running /\ w.fed > fed /\ ~pb.running /\ ~pb.convert =>
        \E ms \in 1..MsPerFrame : pb.updates[ms] = "run" /\ w.fed = (MsPerFrame - ms + 1) * N
  <2>. SUFFICES ASSUME w.p.running, w.fed > fed, ~pb.running, ~pb.convert
                PROVE  \E ms \in 1..MsPerFrame : pb.updates[ms] = "run" /\ w.fed = (MsPerFrame - ms + 1) * N
    OBVIOUS
  <2>1. CASE gc
    <3>1. w = GcVoice(v)
      BY <2>1
    <3>. HIDE DEF w
    <3>2. GcVoice(Voice(pb, fed)).p.running
      BY <3>1
    <3>3. \E ms \in 1..MsPerFrame :
            pb.updates[ms] = "run" /\ GcVoice(Voice(pb, fed)).fed = (MsPerFrame - ms + 1) * N
      BY <1>0, <3>2, GcStarts
    <3>4. QED BY <3>1, <3>3
  <2>2. CASE ~gc
    <3>1. w.fed = fed
      BY <1>2, <2>2 DEF Voice
    <3>. HIDE DEF w
    <3>2. QED BY <1>0, <3>1
  <2>3. QED BY <1>0, <2>1, <2>2
<1>. HIDE DEF w
<1>5. w.p \in PBs /\ Idle \in Queues
  BY <1>3, QueuesFacts DEF Voices
<1>. DEFINE p == w.p
<1>6. /\ q \in PBs /\ q.updates = Idle /\ q.loopScale = p.loopScale /\ q.cur = p.cur
      /\ q.scale = p.scale /\ q.y1 = p.y1 /\ q.y2 = p.y2 /\ q.last = p.last /\ q.frac = p.frac
      /\ q.loops = p.loops /\ q.running = p.running /\ Alike(q, p)
  <2>. HIDE DEF p
  <2>. HIDE DEF Idle
  <2>1. q = [p EXCEPT !.updates = Idle] /\ p \in PBs
    BY <1>5 DEF p
  <2>2. QED BY <1>5, <2>1 DEF PBs, Alike
<1>. HIDE DEF q
<1>7. PbInv(q, w.fed)
  BY <1>3, <1>6, SameVoice
<1>8. FrameInv(q, w.fed)
  BY <1>6, <1>7, NoStart
<1>9. AxIInv'
  BY <1>0, <1>1, <1>8, NextFrame
<1>10. QED BY <1>1, <1>4, <1>6, <1>9

LEMMA KeyKeeps == ASSUME SoundTracks, AxIInv, Key PROVE AxIInv'
<1>1. PICK t \in Tracks, r \in Ratios, convert \in BOOLEAN :
        \E u \in {Idle} \cup (IF gc THEN {[Idle EXCEPT ![ms] = "run"] : ms \in 1..MsPerFrame} ELSE {}) :
            pb' = Note(t, r, convert, u) /\ fed' = 0 /\ UNCHANGED gc
  BY DEF Key
<1>2. PICK u \in {Idle} \cup (IF gc THEN {[Idle EXCEPT ![ms] = "run"] : ms \in 1..MsPerFrame} ELSE {}) :
            pb' = Note(t, r, convert, u) /\ fed' = 0 /\ UNCHANGED gc
  BY <1>1
<1>3. u \in {Idle} \cup {[Idle EXCEPT ![ms] = "run"] : ms \in 1..MsPerFrame}
  BY <1>2
<1>4. u \in Queues /\ (\A ms \in 1..MsPerFrame : u[ms] = "run" => u # Idle)
  BY <1>3, QueuesFacts
<1>. DEFINE w == Note(t, r, convert, u)
<1>5. pb' = w /\ fed' = 0 /\ gc' = gc
  BY <1>2
<1>6. /\ w \in PBs /\ Playable(w) /\ w.updates = u /\ w.frac = 0 /\ (w.running <=> u = Idle)
      /\ Heard(w, w, w.last, 0) /\ Lasts(w, 0, TRUE) /\ Counted(w, w, 0)
  BY <1>4, NoteFacts
<1>. HIDE DEF w
<1>7. PbInv(w, 0)
  <2>1. 0 \in Nat /\ 0 \in 0..(One - 1)
    BY AxAssumption
  <2>2. Lasts(w, 0, w.running)
    BY <1>6 DEF Lasts
  <2>3. QED BY <1>6, <2>1, <2>2 DEF PbInv
<1>8. FrameInv(w, 0)
  <2>1. Queued(w)
    BY <1>3, <1>6 DEF Queued
  <2>2. \A ms \in 1..MsPerFrame : Starts(w, ms) => ~w.running
    BY <1>4, <1>6 DEF Starts
  <2>3. QED BY <1>6, <1>7, <2>1, <2>2 DEF FrameInv
<1>9. gc \in BOOLEAN
  BY DEF AxIInv
<1>10. QED BY <1>5, <1>8, <1>9, NextFrame

LEMMA ChangeKeeps == ASSUME AxIInv, Change PROVE AxIInv'
<1>. DEFINE p == pb
<1>0. FrameInv(p, fed) /\ PbInv(p, fed) /\ gc \in BOOLEAN /\ p \in PBs /\ p.running /\ gc' = gc /\ fed' = fed
  BY DEF AxIInv, FrameInv, PbInv, Playable, Change
<1>1. p.updates \in {Idle} \cup {[Idle EXCEPT ![ms] = "stop"] : ms \in 1..MsPerFrame}
  <2>1. ASSUME NEW m \in 1..MsPerFrame, p.updates = [Idle EXCEPT ![m] = "run"] PROVE FALSE
    <3>1. Idle \in [1..MsPerFrame -> {"none"}]
      BY DEF Idle
    <3>2. Starts(p, m)
      BY <2>1, <3>1 DEF Starts
    <3>3. QED BY <1>0, <3>2 DEF FrameInv
  <2>2. Queued(p)
    BY <1>0 DEF FrameInv
  <2>3. QED BY <2>1, <2>2 DEF Queued
<1>2. CASE \E r \in Ratios \ {pb.ratio} : pb' = [pb EXCEPT !.ratio = r]
  <2>1. PICK r \in Ratios \ {pb.ratio} : pb' = [pb EXCEPT !.ratio = r]
    BY <1>2
  <2>. DEFINE q == [p EXCEPT !.ratio = r]
  <2>2. r \in Nat
    BY AxAssumption
  <2>. HIDE DEF p
  <2>3. /\ q \in PBs /\ q.updates = p.updates /\ q.loopScale = p.loopScale /\ q.cur = p.cur
        /\ q.scale = p.scale /\ q.y1 = p.y1 /\ q.y2 = p.y2 /\ q.last = p.last /\ q.frac = p.frac
        /\ q.loops = p.loops /\ q.running = p.running /\ Alike(q, p)
    BY <1>0, <2>2 DEF PBs, Alike
  <2>4. pb' = q
    BY <2>1 DEF p
  <2>. HIDE DEF q
  <2>5. PbInv(q, fed)
    BY <1>0, <2>3, SameVoice
  <2>6. FrameInv(q, fed)
    BY <1>1, <2>3, <2>5, NoStart
  <2>7. QED BY <1>0, <2>4, <2>6, NextFrame
<1>3. CASE pb' = [pb EXCEPT !.running = FALSE]
  <2>. DEFINE b == FALSE
              q == [p EXCEPT !.running = b]
  <2>1. b \in BOOLEAN /\ ~b /\ pb' = q
    BY <1>3
  <2>. HIDE DEF b
  <2>. HIDE DEF p
  <2>3. /\ q \in PBs /\ q.updates = p.updates /\ q.loopScale = p.loopScale /\ q.cur = p.cur
        /\ q.scale = p.scale /\ q.y1 = p.y1 /\ q.y2 = p.y2 /\ q.last = p.last /\ q.frac = p.frac
        /\ q.loops = p.loops /\ q.running = b /\ Alike(q, p)
    BY <1>0, <2>1 DEF PBs, Alike
  <2>. HIDE DEF q
  <2>5. PbInv(q, fed)
    BY <1>0, <2>1, <2>3, SameVoice
  <2>6. FrameInv(q, fed)
    BY <1>1, <2>3, <2>5, NoStart
  <2>7. QED BY <1>0, <2>1, <2>6, NextFrame
<1>4. CASE \E ms \in 1..MsPerFrame : pb' = [pb EXCEPT !.updates = [Idle EXCEPT ![ms] = "stop"]]
  <2>1. PICK ms \in 1..MsPerFrame : pb' = [pb EXCEPT !.updates = [Idle EXCEPT ![ms] = "stop"]]
    BY <1>4
  <2>. DEFINE u == [Idle EXCEPT ![ms] = "stop"]
              q == [p EXCEPT !.updates = u]
  <2>2. u \in Queues
    BY QueuesFacts
  <2>3. pb' = q /\ u \in {[Idle EXCEPT ![m] = "stop"] : m \in 1..MsPerFrame}
    BY <2>1
  <2>. HIDE DEF u
  <2>. HIDE DEF p
  <2>4. /\ q \in PBs /\ q.updates = u /\ q.loopScale = p.loopScale /\ q.cur = p.cur
        /\ q.scale = p.scale /\ q.y1 = p.y1 /\ q.y2 = p.y2 /\ q.last = p.last /\ q.frac = p.frac
        /\ q.loops = p.loops /\ q.running = p.running /\ Alike(q, p)
    BY <1>0, <2>2 DEF PBs, Alike
  <2>. HIDE DEF q
  <2>5. PbInv(q, fed)
    BY <1>0, <2>4, SameVoice
  <2>6. FrameInv(q, fed)
    BY <2>3, <2>4, <2>5, NoStart
  <2>7. QED BY <1>0, <2>3, <2>6, NextFrame
<1>5. QED BY <1>2, <1>3, <1>4 DEF Change

LEMMA AxStep == ASSUME SoundTracks, AxIInv, [AxNext]_axVars PROVE AxIInv'
<1>1. CASE ProcessPb
  BY <1>1, ProcessPbKeeps
<1>2. CASE Key
  BY <1>2, KeyKeeps
<1>3. CASE Change
  BY <1>3, ChangeKeeps
<1>4. CASE UNCHANGED axVars
  <2>1. gc' = gc /\ pb' = pb /\ fed' = fed
    BY <1>4 DEF axVars
  <2>2. gc \in BOOLEAN /\ FrameInv(pb, fed)
    BY DEF AxIInv
  <2>3. QED BY <2>1, <2>2, NextFrame
<1>5. QED BY <1>1, <1>2, <1>3, <1>4 DEF AxNext

LEMMA VoiceFollows == ASSUME AxIInv PROVE VoiceInv
<1>1. Playable(pb) /\ fed \in Nat /\ pb.frac \in 0..(One - 1)
      /\ (pb.running => Heard(pb, pb, pb.last, fed)) /\ Lasts(pb, fed, pb.running) /\ Counted(pb, pb, fed)
  BY DEF AxIInv, FrameInv, PbInv
<1>2. Continuous
  <2>1. pb.running => /\ Read(pb) = Expected(pb, fed + 1)
                      /\ \A i \in 1..4 : pb.last[i] = Expected(pb, fed - 4 + i)
    BY <1>1 DEF Heard
  <2>2. QED BY <1>1, <2>1 DEF Continuous, Read
<1>3. Len(FirstPass(pb)) \in Nat
  BY <1>1, Passes DEF Playable, PassTo
<1>4. ~pb.looping => fed <= Len(FirstPass(pb)) /\ (pb.running => ~Over(pb, fed + 1))
  BY <1>1, <1>3 DEF Lasts, Over
<1>5. pb.looping => pb.loops = IF gc /\ pb.stream THEN Place(pb, fed + 1).pass ELSE 0
  BY <1>1 DEF Counted
<1>6. QED BY <1>2, <1>4, <1>5 DEF VoiceInv, EndsItself

\* A PB between two frames is a voice as far into its sample as it has read.
THEOREM AxInductive == ASSUME SoundTracks PROVE AxSpec => []AxIInv
<1>1. AxInit => AxIInv
  BY AxInitHolds
<1>2. AxIInv /\ [AxNext]_axVars => AxIInv'
  BY AxStep
<1>3. QED BY <1>1, <1>2, PTL DEF AxSpec

\* A voice reads its sample to the end and from the loop's start again, each
\* nibble once and in order, decoded after what precedes it, and ends with it
\* (ax.cpp:149-180, 185-219, 447-487).
THEOREM VoiceInvariant == ASSUME SoundTracks PROVE AxSpec => []VoiceInv
<1>1. AxSpec => []AxIInv
  BY AxInductive
<1>2. AxIInv => VoiceInv
  BY VoiceFollows
<1>3. QED BY <1>1, <1>2, PTL

\* A start queued for a millisecond of the GameCube's frame takes effect in
\* it: the note has run for the rest of the frame (ax.cpp:469-472).
THEOREM StartedOnTime == ASSUME SoundTracks PROVE AxSpec => StartsOnTime
<1>1. AxSpec => []AxIInv
  BY AxInductive
<1>2. AxIInv /\ [AxNext]_axVars =>
        [(~pb.running /\ fed' > fed /\ pb'.running /\ ~pb.convert) =>
           \E ms \in 1..MsPerFrame :
              /\ pb.updates[ms] = "run"
              /\ fed' = (MsPerFrame - ms + 1) * N]_axVars
  <2>. SUFFICES ASSUME AxIInv, [AxNext]_axVars, ~pb.running, fed' > fed, pb'.running, ~pb.convert
                PROVE  \E ms \in 1..MsPerFrame :
                          pb.updates[ms] = "run" /\ fed' = (MsPerFrame - ms + 1) * N
    OBVIOUS
  <2>0. fed \in Nat
    BY DEF AxIInv, FrameInv, PbInv
  <2>1. CASE ProcessPb
    BY <2>1, ProcessPbKeeps
  <2>2. CASE Key
    BY <2>0, <2>2 DEF Key
  <2>3. CASE Change
    BY <2>3 DEF Change
  <2>4. CASE UNCHANGED axVars
    BY <2>0, <2>4 DEF axVars
  <2>5. QED BY <2>1, <2>2, <2>3, <2>4 DEF AxNext
<1>3. QED BY <1>1, <1>2, PTL DEF AxSpec, StartsOnTime
=============================================================================
