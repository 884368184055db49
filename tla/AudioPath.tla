------------------------------ MODULE AudioPath ------------------------------
(* The audio's way out (hw.cpp's DSP and AI, audio.cpp): the AI plays a block *)
(* each period and interrupts the guest, whose AI handler has AX mix the next *)
(* frame on the DSP; the DSP answers at once, with an interrupt of its own.   *)
(* The clock thread starts the blocks and waits, within bounds, for the       *)
(* guest.  Times count half blocks; those the code compares with a bound stop *)
(* just past it.  The guest's part is the SDK's, as hw.cpp relies on it.      *)
EXTENDS Integers, Sequences

CONSTANTS
    BootLen,    \* mails of a boot task (10 in the code)
    Patience,   \* how long a block waits for its frame (50 ms)
    LateMax,    \* how late the schedule may be and still be caught up (100 ms)
    Target,     \* kTarget: the sound queued when the stream starts
    MaxQueue    \* kMaxQueue: past it a block is dropped

ASSUME AudioAssumption ==
    /\ {BootLen, Patience, LateMax, Target, MaxQueue} \subseteq Nat \ {0}
    /\ Patience <= LateMax /\ Target <= MaxQueue

VARIABLES
    ucode,      \* what the DSP runs
    halted,     \* DSPCR's HALT
    bootMails,  \* mails of the boot task taken
    listNext,   \* the next mail is a command list's address
    mails,      \* mails to the CPU
    dspInt,     \* DSPCR's DSPINT and AIDINT
    aidInt,
    dmaOn,      \* the AI DMA plays: ai_dma_on, and its block has a length
    mixed,      \* a frame has been mixed since the last block started
    late,       \* now - ai_dma_next
    rest,       \* half a block has gone since the last block started ...
    restAck,    \* ... and since the guest acknowledged it
    waited,     \* now - ai_wait_from; -1 when no block waits
    queued,     \* sound in the host's stream
    playing,    \* the host's stream runs
    at,         \* where the guest is
    inHandler,  \* ai_in_handler
    task,       \* what the SDK takes the DSP's AX task for
    skipped,    \* history: the guest has skipped a frame
    gaveUp      \* history: a block has started without waiting any longer

dsp == <<ucode, halted, bootMails, listNext, mails>>
clock == <<dmaOn, mixed, late, rest, restAck, waited>>
host == <<queued, playing>>
guest == <<at, inHandler, task>>
history == <<skipped, gaveUp>>
audioVars == <<dsp, dspInt, aidInt, clock, host, guest, history>>

Period == 2

AudioTypeOK ==
    /\ ucode \in {"ROM", "INIT", "AX"} /\ bootMails \in 0 .. BootLen
    /\ mails \in Seq({"ready", "init", "AX up", "mixed"}) /\ Len(mails) <= 1
    /\ halted \in BOOLEAN /\ listNext \in BOOLEAN /\ dspInt \in BOOLEAN
    /\ aidInt \in BOOLEAN /\ dmaOn \in BOOLEAN /\ mixed \in BOOLEAN
    /\ rest \in BOOLEAN /\ restAck \in BOOLEAN /\ playing \in BOOLEAN
    /\ inHandler \in BOOLEAN /\ skipped \in BOOLEAN /\ gaveUp \in BOOLEAN
    /\ late \in -Period .. LateMax + Period + 1 /\ waited \in -1 .. Patience
    /\ queued \in 0 .. MaxQueue + Period
    /\ at \in {"game", "handler", "callback", "mixed", "nested"}
    /\ task \in {"none", "idle", "busy"}

AudioInit ==
    /\ ucode = "ROM" /\ bootMails = 0 /\ mails = << >>
    /\ halted = TRUE /\ listNext = FALSE /\ dspInt = FALSE /\ aidInt = FALSE
    /\ dmaOn = FALSE /\ mixed = TRUE /\ rest = TRUE /\ restAck = TRUE
    /\ late = -Period /\ waited = -1
    /\ queued = 0 /\ playing = FALSE
    /\ at = "game" /\ inHandler = FALSE /\ task = "none"
    /\ skipped = FALSE /\ gaveUp = FALSE

-----------------------------------------------------------------------------
(* The host's stream: a block of sound goes in, the device takes it out.     *)

ResumesLate == queued >= Target               \* mutant: the block left out
Resumes == queued + Period >= Target
Full == queued > MaxQueue

audio_play ==
    LET runs == playing /\ queued # 0 IN
    IF Full THEN playing' = runs /\ UNCHANGED queued
    ELSE queued' = queued + Period /\ playing' = (runs \/ Resumes)

Drain ==
    /\ playing /\ queued > 0 /\ queued' = queued - 1
    /\ UNCHANGED <<dsp, dspInt, aidInt, clock, playing, guest, history>>

-----------------------------------------------------------------------------
(* The DSP, in high-level emulation: it answers a mail before the write that *)
(* sends it returns.                                                         *)

DspSend(mail, irq) == mails' = Append(mails, mail) /\ dspInt' = (dspInt \/ irq)

(* A write to DSPCR, its interrupts apart. HALT's fall starts the micro-code.*)
dsp_cr_write(res, init, halt) ==
    LET code == IF ~init THEN "INIT" ELSE IF res THEN "ROM" ELSE ucode
        left == IF res THEN << >> ELSE mails
        starts == halted /\ ~halt
    IN  /\ ucode' = code /\ halted' = halt
        /\ mails' = IF starts /\ code # "AX"
                    THEN Append(left, IF code = "ROM" THEN "ready" ELSE "init")
                    ELSE left
        /\ bootMails' = IF starts /\ code = "ROM" THEN 0 ELSE bootMails

(* The game stops or starts the DSP when no answer of it is outstanding.     *)
SetDsp ==
    /\ at = "game" /\ ~dspInt /\ task # "busy"
    /\ \E res, init, halt \in BOOLEAN :
        /\ mails = << >> \/ res
        /\ res => halt
        /\ dsp_cr_write(res, init, halt)
        /\ task' = IF ucode' = "AX" THEN task ELSE "none"
    /\ UNCHANGED <<listNext, dspInt, aidInt, clock, host, at, inHandler, history>>

(* The boot code polls for the announcements, which come with no interrupt.  *)
PollMail ==
    /\ at = "game" /\ mails # << >> /\ Head(mails) \in {"ready", "init"}
    /\ mails' = Tail(mails)
    /\ UNCHANGED <<ucode, halted, bootMails, listNext, dspInt, aidInt, clock,
                   host, guest, history>>

(* A mail of the boot task; the last one starts AX.                          *)
BootMail ==
    /\ at = "game" /\ ucode = "ROM" /\ ~halted /\ mails = << >>
    /\ bootMails < BootLen /\ bootMails' = bootMails + 1
    /\ IF bootMails' = BootLen
       THEN ucode' = "AX" /\ listNext' = FALSE /\ DspSend("AX up", TRUE)
       ELSE UNCHANGED <<ucode, listNext, mails, dspInt>>
    /\ UNCHANGED <<halted, aidInt, clock, host, guest, history>>

(* The guest's DSP interrupt: acknowledged, its mail read, the task idle. AI *)
(* interrupts go first.                                                      *)
DspHandler ==
    /\ dspInt /\ ~aidInt /\ at \in {"game", "mixed"}
    /\ dspInt' = FALSE
    /\ mails' = IF mails = << >> THEN mails ELSE Tail(mails)
    /\ task' = "idle"
    /\ UNCHANGED <<ucode, halted, bootMails, listNext, aidInt, clock, host, at,
                   inHandler, history>>

-----------------------------------------------------------------------------
(* The AI's blocks, and the clock thread that starts them.                   *)

ReadyUntaken == ucode # "AX" \/ mixed         \* mutant: the interrupt not awaited
ai_frame_ready == ucode # "AX" \/ (mixed /\ ~dspInt)

(* A block starts. One whose length is zero queues nothing, and ai_tick      *)
(* starts none after it: the DMA no longer plays, until it is started anew.  *)
ai_dma_block ==
    \E empty \in BOOLEAN :
        /\ IF ai_frame_ready /\ ~empty THEN audio_play ELSE UNCHANGED host
        /\ dmaOn' = ~empty
        /\ mixed' = FALSE /\ aidInt' = TRUE /\ rest' = FALSE

StartDma ==
    /\ at = "game" /\ ~dmaOn /\ task # "busy"
    /\ ai_dma_block
    /\ late' = -Period
    /\ UNCHANGED <<dsp, dspInt, restAck, waited, guest, history>>

StopDma ==
    /\ at = "game" /\ dmaOn /\ dmaOn' = FALSE
    /\ UNCHANGED <<dsp, dspInt, aidInt, mixed, late, rest, restAck, waited, host,
                   guest, history>>

WaitsAnew == 0                                \* mutant: counted from each look
Waiting == IF waited = -1 THEN 0 ELSE waited
Patient == Waiting < Patience
Early == ~rest \/ ~restAck

(* The due block is put off: for its frame, for the handler, or to keep half *)
(* a block's distance from the last.                                         *)
Defer ==
    \/ ~ai_frame_ready /\ Patient
    \/ ai_frame_ready /\ inHandler /\ Patient
    \/ ai_frame_ready /\ Early

ai_tick_wait ==
    /\ dmaOn /\ late >= 0 /\ Defer
    /\ waited' = Waiting
    /\ UNCHANGED <<dsp, dspInt, aidInt, dmaOn, mixed, late, rest, restAck, host,
                   guest, history>>

ai_tick_start ==
    /\ dmaOn /\ late >= 0 /\ ~Defer
    /\ ai_dma_block
    /\ waited' = -1
    /\ late' = IF ~ai_frame_ready \/ late - Period > LateMax THEN -Period
               ELSE late - Period
    /\ gaveUp' = (gaveUp \/ ~Patient)
    /\ UNCHANGED <<dsp, dspInt, restAck, guest, skipped>>

ai_tick == ai_tick_wait \/ ai_tick_start

UpTo(n, bound) == IF n < bound THEN n + 1 ELSE bound

(* Half a block's time passes.                                               *)
Pass ==
    /\ late' = IF dmaOn THEN UpTo(late, LateMax + Period + 1) ELSE late
    /\ waited' = IF waited = -1 THEN -1 ELSE UpTo(waited, Patience)
    /\ rest' = TRUE /\ restAck' = TRUE
    /\ UNCHANGED <<dsp, dspInt, aidInt, dmaOn, mixed, host, guest, history>>

-----------------------------------------------------------------------------
(* The guest's AI handler, which hw.cpp hooks: it acknowledges, and has AX's *)
(* callback mix a frame, with interrupts enabled from then on.               *)

EnterHandler ==
    /\ aidInt /\ at \in {"game", "mixed"}
    /\ at' = IF at = "game" THEN "handler" ELSE "nested"
    /\ inHandler' = TRUE
    /\ UNCHANGED <<dsp, dspInt, aidInt, clock, host, task, history>>

Acknowledge ==
    /\ at \in {"handler", "nested"}
    /\ aidInt' = FALSE /\ restAck' = IF aidInt THEN FALSE ELSE restAck
    /\ at' = IF at = "handler" THEN "callback" ELSE "mixed"
    /\ skipped' = (skipped \/ (at = "nested" /\ task # "none"))
    /\ UNCHANGED <<dsp, dspInt, dmaOn, mixed, late, rest, waited, host, inHandler,
                   task, gaveUp>>

(* AX's callback: the mail that announces a command list, then its address,  *)
(* at which the DSP mixes; a frame is skipped while the task is busy.        *)
Announce ==
    /\ at = "callback" /\ task = "idle" /\ ~listNext /\ listNext' = TRUE
    /\ UNCHANGED <<ucode, halted, bootMails, mails, dspInt, aidInt, clock, host,
                   guest, history>>
Mix ==
    /\ at = "callback" /\ task = "idle" /\ listNext
    /\ listNext' = FALSE /\ mixed' = TRUE /\ DspSend("mixed", TRUE)
    /\ task' = "busy" /\ at' = "mixed"
    /\ UNCHANGED <<ucode, halted, bootMails, aidInt, dmaOn, late, rest, restAck,
                   waited, host, inHandler, history>>
NoMix ==
    /\ at = "callback" /\ task # "idle" /\ at' = "mixed"
    /\ skipped' = (skipped \/ task = "busy")
    /\ UNCHANGED <<dsp, dspInt, aidInt, clock, host, inHandler, task, gaveUp>>

LeaveHandler ==
    /\ at = "mixed" /\ at' = "game" /\ inHandler' = FALSE
    /\ UNCHANGED <<dsp, dspInt, aidInt, clock, host, task, history>>

AudioNext ==
    \/ Drain \/ SetDsp \/ PollMail \/ BootMail \/ DspHandler
    \/ StartDma \/ StopDma \/ ai_tick \/ Pass
    \/ EnterHandler \/ Acknowledge \/ Announce \/ Mix \/ NoMix \/ LeaveHandler

(* The clock thread comes round and time passes, whatever the guest does.    *)
AudioSpec == AudioInit /\ [][AudioNext]_audioVars
FairAudio == AudioSpec /\ WF_audioVars(ai_tick) /\ WF_audioVars(Pass)

-----------------------------------------------------------------------------
(* No frame of sound is lost to the schedule: AX skips a frame only after a  *)
(* block has been started whose wait had run out. (A block started inside    *)
(* the handler is taken inside the callback, which then does not mix; one    *)
(* started before the DSP's interrupt is taken finds the task busy.)         *)
SkipsNoFrame == skipped => gaveUp

(* The host's stream stands still only while the cushion is not there: sound *)
(* queued to the target is heard.  With the types, which bound the queue by  *)
(* its limit and one block.                                                  *)
QueueHeld == ~playing => queued < Target
AudioInv == AudioTypeOK /\ QueueHeld

(* A block given up on has been waited for: it started without its frame     *)
(* only once it was 50 ms past due (hw.cpp:928: "It waits at most 50 ms,     *)
(* counted from when it began to wait").                                     *)
GivesUpLate == [][ai_tick_start /\ ~ai_frame_ready => late >= Patience]_audioVars

(* The blocks keep coming: as long as the AI DMA stays on, a block is always *)
(* started again, whatever the guest does or leaves undone.                  *)
BlocksKeepComing == []<>(~dmaOn) \/ []<><<ai_tick_start>>_audioVars
=============================================================================
