-------------------------------- MODULE Clock --------------------------------
(***************************************************************************)
(* The clock thread, the decrementer, and how interrupts reach the guest   *)
(* (runtime/os.cpp; of hw.cpp the retrace and a timed device).             *)
(*                                                                         *)
(* The clock thread raises VI's line at each retrace, ends the devices'    *)
(* operations as they fall due, tells when the decrementer has run out,    *)
(* and sleeps until the next of these.  A guest thread that writes the     *)
(* decrementer kicks it.  Whoever raises a line sets g_ppc_pending; the    *)
(* guest looks at that at its polls, and in the SDK's idle loop its host   *)
(* thread sleeps until it is set.                                          *)
(*                                                                         *)
(* Times are what is left until then.  Host code takes none: time passes   *)
(* while the clock thread is blocked and the guest runs its own code.  One *)
(* timed device stands for them all: the ARAM's DMA.                       *)
(***************************************************************************)
EXTENDS Naturals

CONSTANTS
  Windows,  \* the host's events stay set until someone waits for them; with
            \* condition variables a notify that nobody waits for is lost
  Field,    \* the time between two retraces
  DmaTime,  \* what a DMA takes
  DecMax,   \* bound: the values the guest writes to the decrementer
  MaxWrites \* bound: its register writes in one tick

ASSUME ClockAssumption ==
  /\ Windows \in BOOLEAN
  /\ Field \in Nat \ {0} /\ DmaTime \in Nat \ {0}
  /\ DecMax \in Nat /\ MaxWrites \in Nat

VARIABLES
  \* the decrementer (g_clock_mx)
  dec_armed,     \* it is to raise its exception
  dec_left,      \* ticks until it turns negative, 0 from then on
  \* the clock thread
  clk,           \* where it is
  vi_left,       \* until the next retrace
  wake,          \* until the end of its sleep
  kick,          \* g_kick
  kick_event,    \* g_kick_event
  waking,        \* in os_raise, between g_ppc_pending and g_idle_waiting
  \* devices (g_hw)
  vi,            \* VI's line
  ar_busy,       \* a DMA runs
  ar_left,       \* until its end
  ar_int,        \* its line
  \* the guest's CPU
  cpu,           \* where it is
  ee,            \* its interrupts are on
  pending,       \* g_ppc_pending
  idle_waiting,  \* g_idle_waiting
  idle_event,    \* g_idle_event
  writes         \* the register writes in this tick

dec == <<dec_armed, dec_left>>
clock == <<clk, vi_left, wake, kick, kick_event, waking>>
devices == <<vi, ar_busy, ar_left, ar_int>>
guest == <<cpu, ee, idle_waiting, idle_event>>
clockVars == <<dec, clock, devices, guest, pending, writes>>

\* "look" retraces, "tick" the devices, "dec" the decrementer; "test" and
\* "block" in clock_sleep, "blocked" in the host's wait
Clk == {"look", "tick", "dec", "test", "block", "blocked"}
\* "run": guest code.  "poll_..." in ppc_poll, "idle_..." in ppc_idle, "ext" and
\* "decr" in a handler, with "_late" once a tick has passed there
External == {"ext", "ext_late"}
Decrementer == {"decr", "decr_late"}
Cpu == {"run", "poll", "poll_hw", "poll_dec",
        "idle_set", "idle_look", "idle_enter", "idle_block", "idle_out"} \cup External \cup Decrementer

Lesser(a, b) == IF a < b THEN a ELSE b

-----------------------------------------------------------------------------
(* The kick.                                                               *)

\* (Mutant: the flag is not set.)
KickEventOnly ==
  /\ UNCHANGED kick
  /\ IF Windows THEN kick_event' = TRUE /\ UNCHANGED clk
                ELSE /\ clk' = IF clk = "blocked" THEN "test" ELSE clk
                     /\ UNCHANGED kick_event
Kick ==
  /\ kick' = TRUE
  /\ IF Windows THEN kick_event' = TRUE /\ UNCHANGED clk
                ELSE /\ clk' = IF clk = "blocked" THEN "test" ELSE clk
                     /\ UNCHANGED kick_event

-----------------------------------------------------------------------------
(* The clock thread.                                                       *)

\* os_raise on the clock thread: g_ppc_pending first, then a look at
\* g_idle_waiting
Raise == pending' = TRUE /\ waking' = TRUE
Wake ==
  /\ waking /\ waking' = FALSE
  /\ CASE ~idle_waiting            -> UNCHANGED <<cpu, idle_event>>
       [] idle_waiting /\ Windows  -> idle_event' = TRUE /\ UNCHANGED cpu
       [] idle_waiting /\ ~Windows ->
            /\ cpu' = IF cpu = "idle_block" THEN "idle_out" ELSE cpu
            /\ UNCHANGED idle_event
  /\ UNCHANGED <<dec, clk, vi_left, wake, kick, kick_event, devices, ee, idle_waiting, pending, writes>>

\* a retrace
ClockLooks ==
  /\ clk = "look" /\ clk' = "tick"
  /\ IF vi_left = 0
     THEN vi' = TRUE /\ Raise /\ vi_left' = Field
     ELSE UNCHANGED <<vi, pending, waking, vi_left>>
  /\ UNCHANGED <<dec, wake, kick, kick_event, ar_busy, ar_left, ar_int, guest, writes>>

\* the DMA's end
\* (Mutant: without its interrupt.)
ArEndsQuietly == ar_busy' = FALSE /\ UNCHANGED <<ar_left, ar_int>>
ArEnds == ar_busy' = FALSE /\ ar_int' = TRUE /\ UNCHANGED ar_left
ArDue == ar_busy /\ ar_left = 0

\* hw_tick
ClockTicks ==
  /\ clk = "tick" /\ ~waking /\ clk' = "dec"
  /\ IF ArDue THEN ArEnds /\ Raise
              ELSE UNCHANGED <<ar_busy, ar_left, ar_int, pending, waking>>
  /\ wake' = IF ar_busy' THEN Lesser(vi_left, ar_left) ELSE vi_left
  /\ UNCHANGED <<dec, vi_left, kick, kick_event, vi, guest, writes>>

ClockDec ==
  /\ clk = "dec" /\ ~waking /\ clk' = "test"
  /\ IF dec_armed /\ dec_left = 0 THEN Raise ELSE UNCHANGED <<pending, waking>>
  /\ wake' = IF dec_armed /\ dec_left > 0 THEN Lesser(wake, dec_left) ELSE wake
  /\ UNCHANGED <<dec, vi_left, kick, kick_event, devices, guest, writes>>

\* clock_sleep: its time is up, it was kicked, or it blocks
ClockTests ==
  /\ clk = "test" /\ ~waking
  /\ CASE wake = 0           -> clk' = "look" /\ UNCHANGED kick
       [] wake > 0 /\ kick   -> clk' = "look" /\ kick' = FALSE
       [] wake > 0 /\ ~kick  -> clk' = "block" /\ UNCHANGED kick
  /\ UNCHANGED <<dec, vi_left, wake, kick_event, waking, devices, guest, pending, writes>>

ClockBlocks ==
  /\ clk = "block" /\ clk' = "blocked"
  /\ UNCHANGED <<dec, vi_left, wake, kick, kick_event, waking, devices, guest, pending, writes>>

Asleep == clk = "blocked" /\ wake > 0 /\ ~kick_event

ClockWakes ==
  /\ clk = "blocked" /\ ~Asleep
  /\ clk' = "test" /\ kick_event' = FALSE
  /\ UNCHANGED <<dec, vi_left, wake, kick, waking, devices, guest, pending, writes>>

-----------------------------------------------------------------------------
(* The guest's CPU.                                                        *)

InCode == cpu \in {"run"} \cup External \cup Decrementer
Writes == InCode /\ writes < MaxWrites /\ writes' = writes + 1

\* mtdec of a value that is not negative, and of one that is: that fires at
\* once over one that was not, and never over one that was
MtDec(v) ==
  /\ Writes
  /\ dec_armed' = TRUE /\ dec_left' = v + 1
  /\ Kick
  /\ UNCHANGED <<vi_left, wake, waking, devices, guest, pending>>

MtDecNegative ==
  /\ Writes
  /\ dec_armed' = (dec_left > 0) /\ dec_left' = 0
  /\ pending' = (pending \/ dec_armed')
  /\ Kick
  /\ UNCHANGED <<vi_left, wake, waking, devices, guest>>

\* mttb: the decrementer's deadline moves along with the time base
MtTb ==
  /\ Writes
  /\ Kick
  /\ UNCHANGED <<dec, vi_left, wake, waking, devices, guest, pending>>

\* a DMA starts (dsp_ar_dma; mmio_write raises after it); the SDK starts
\* the next one when it has taken the last one's interrupt
StartDma ==
  /\ Writes /\ ~ar_busy /\ ~ar_int
  /\ ar_busy' = TRUE /\ ar_left' = DmaTime
  /\ pending' = TRUE
  /\ UNCHANGED <<dec, clock, vi, ar_int, guest>>

Disable ==
  /\ cpu = "run" /\ ee /\ ee' = FALSE
  /\ UNCHANGED <<dec, clock, devices, cpu, idle_waiting, idle_event, pending, writes>>
\* mtmsr polls
Enable ==
  /\ cpu = "run" /\ ~ee /\ ee' = TRUE
  /\ cpu' = IF pending THEN "poll" ELSE "run"
  /\ UNCHANGED <<dec, clock, devices, idle_waiting, idle_event, pending, writes>>

\* ppc_poll, at a loop's back edge; then its loop
PollStarts ==
  /\ cpu = "run" /\ ee /\ pending /\ cpu' = "poll"
  /\ UNCHANGED <<dec, clock, devices, ee, idle_waiting, idle_event, pending, writes>>

PollClears ==
  /\ cpu = "poll" /\ cpu' = "poll_hw" /\ pending' = FALSE
  /\ UNCHANGED <<dec, clock, devices, ee, idle_waiting, idle_event, writes>>

\* hw_external_pending, which ticks the devices
PollHw ==
  /\ cpu = "poll_hw"
  /\ IF ArDue THEN ArEnds ELSE UNCHANGED <<ar_busy, ar_left, ar_int>>
  /\ IF vi \/ ar_int'
     THEN cpu' = "ext" /\ pending' = TRUE
     ELSE cpu' = "poll_dec" /\ UNCHANGED pending
  /\ UNCHANGED <<dec, clock, vi, ee, idle_waiting, idle_event, writes>>

\* dec_due: the exception is taken
PollDec ==
  /\ cpu = "poll_dec"
  /\ IF dec_armed /\ dec_left = 0
     THEN dec_armed' = FALSE /\ cpu' = "decr" /\ pending' = TRUE
     ELSE cpu' = "run" /\ UNCHANGED <<dec_armed, pending>>
  /\ UNCHANGED <<dec_left, clock, devices, ee, idle_waiting, idle_event, writes>>

\* the handler acknowledges what it was called for, and ppc_poll looks again
HandlerEnds ==
  \/ /\ cpu \in External /\ cpu' = "poll"
     /\ \/ vi /\ vi' = FALSE /\ UNCHANGED ar_int
        \/ ar_int /\ ar_int' = FALSE /\ UNCHANGED vi
     /\ UNCHANGED <<dec, clock, ar_busy, ar_left, ee, idle_waiting, idle_event, pending, writes>>
  \/ /\ cpu \in Decrementer /\ cpu' = "poll"
     /\ UNCHANGED <<dec, clock, devices, ee, idle_waiting, idle_event, pending, writes>>

\* ppc_idle
IdleStarts ==
  /\ cpu = "run" /\ ee /\ ~pending
  /\ cpu' = "idle_set"
  /\ UNCHANGED <<dec, clock, devices, ee, idle_waiting, idle_event, pending, writes>>

IdleWaits ==
  /\ cpu = "idle_set" /\ cpu' = "idle_look" /\ idle_waiting' = TRUE
  /\ UNCHANGED <<dec, clock, devices, ee, idle_event, pending, writes>>

IdleLooks ==
  /\ cpu = "idle_look"
  /\ cpu' = IF pending THEN "idle_out" ELSE "idle_enter"
  /\ UNCHANGED <<dec, clock, devices, ee, idle_waiting, idle_event, pending, writes>>

\* idle_wait: from here on a condition variable's notify is heard
IdleBlocks ==
  /\ cpu = "idle_enter" /\ cpu' = "idle_block"
  /\ UNCHANGED <<dec, clock, devices, ee, idle_waiting, idle_event, pending, writes>>

\* the event, or the end of the millisecond
IdleEnds ==
  /\ cpu = "idle_block" /\ cpu' = "idle_out" /\ idle_event' = FALSE
  /\ UNCHANGED <<dec, clock, devices, ee, idle_waiting, pending, writes>>

IdleLeaves ==
  /\ cpu = "idle_out" /\ idle_waiting' = FALSE
  /\ cpu' = IF pending THEN "poll" ELSE "run"
  /\ UNCHANGED <<dec, clock, devices, ee, idle_event, pending, writes>>

-----------------------------------------------------------------------------
Less(n) == IF n = 0 THEN 0 ELSE n - 1

\* A handler takes less than two ticks.
TimePasses ==
  /\ Asleep /\ ~waking
  /\ \/ cpu = "run" /\ UNCHANGED cpu
     \/ cpu = "idle_block" /\ ~idle_event /\ UNCHANGED cpu
     \/ cpu = "ext" /\ cpu' = "ext_late"
     \/ cpu = "decr" /\ cpu' = "decr_late"
  /\ dec_left' = Less(dec_left) /\ vi_left' = Less(vi_left)
  /\ wake' = Less(wake) /\ ar_left' = Less(ar_left)
  /\ writes' = 0
  /\ UNCHANGED <<dec_armed, clk, kick, kick_event, waking, vi, ar_busy, ar_int, ee, idle_waiting, idle_event, pending>>

ClockInit ==
  /\ dec_armed = FALSE /\ dec_left = 0
  /\ clk = "look" /\ vi_left = Field /\ wake = 0
  /\ kick = FALSE /\ kick_event = FALSE /\ waking = FALSE
  /\ vi = FALSE /\ ar_busy = FALSE /\ ar_left = 0 /\ ar_int = FALSE
  /\ cpu = "run" /\ ee = FALSE /\ pending = FALSE
  /\ writes = 0
  /\ idle_waiting = FALSE /\ idle_event = FALSE

ClockStep == Wake \/ ClockLooks \/ ClockTicks \/ ClockDec \/ ClockTests \/ ClockBlocks \/ ClockWakes
Program == (\E v \in 0..DecMax : MtDec(v)) \/ MtDecNegative \/ MtTb \/ StartDma
           \/ Disable \/ IdleStarts
Poll == PollClears \/ PollHw \/ PollDec
        \/ IdleWaits \/ IdleLooks \/ IdleBlocks \/ IdleEnds \/ IdleLeaves

ClockNext == ClockStep \/ Program \/ Enable \/ PollStarts \/ Poll \/ HandlerEnds \/ TimePasses

ClockSpec == ClockInit /\ [][ClockNext]_clockVars

\* Both threads run, and time passes, however often the guest kicks the clock.
\* The guest's critical sections and handlers end, and its loops poll; nothing
\* makes it write the decrementer or start a DMA.
ClockFairSpec ==
  /\ ClockSpec
  /\ WF_clockVars(ClockStep) /\ SF_clockVars(TimePasses)
  /\ WF_clockVars(Enable) /\ SF_clockVars(PollStarts) /\ WF_clockVars(Poll) /\ WF_clockVars(HandlerEnds)

-----------------------------------------------------------------------------
(* Properties.                                                             *)

ClockTypeOK ==
  /\ dec_armed \in BOOLEAN /\ dec_left \in 0..(DecMax + 1)
  /\ clk \in Clk /\ vi_left \in 0..Field /\ wake \in 0..Field
  /\ kick \in BOOLEAN /\ kick_event \in BOOLEAN /\ waking \in BOOLEAN
  /\ vi \in BOOLEAN /\ ar_busy \in BOOLEAN /\ ar_left \in 0..DmaTime /\ ar_int \in BOOLEAN
  /\ cpu \in Cpu /\ ee \in BOOLEAN /\ pending \in BOOLEAN
  /\ idle_waiting \in BOOLEAN /\ idle_event \in BOOLEAN /\ writes \in 0..MaxWrites

\* "The clock thread sleeps until the next event, or until kicked (a new
\* decrementer value)" (os.cpp 253): it does not sleep past the time at which
\* the decrementer runs out, however its write and its sleep interleave.
WakesInTime == Asleep /\ dec_armed /\ dec_left > 0 => wake <= dec_left

\* ... and when it has run out, the guest is told before time goes on, or is
\* about to look (clock_main, dec_due, ppc_mtdec).
DecTold ==
  Asleep /\ dec_armed /\ dec_left = 0 =>
    pending \/ cpu \in {"poll", "poll_hw", "poll_dec"}

\* A line that comes up is not missed: with interrupts on, guest code that
\* has a line up will poll (os_raise, ppc_poll, which clears g_ppc_pending
\* before it looks).
LineTold == cpu = "run" /\ ee /\ (vi \/ ar_int) => pending

\* The idle loop's host thread does not sleep on a raised line: either it sees
\* g_ppc_pending, or whoever sets that sees g_idle_waiting (os_raise, ppc_idle).
\* Events that stay set only: a notify between the look and the wait is lost,
\* and the raised line then waits for the end of the millisecond.
IdleIsWoken == cpu \in {"idle_enter", "idle_block"} /\ pending => idle_event \/ waking

\* The inductive invariant.  On every host, a line that is up is pending but in
\* ppc_poll, between its reset of g_ppc_pending and its look.  Where events stay
\* set, the idle loop is woken, and a sleep that ends after the decrementer runs
\* out is cut short by a kick that was not taken yet.
LinesTold == cpu # "poll_hw" /\ (vi \/ ar_int) => pending
IdleSeen ==
  /\ cpu \in {"idle_look", "idle_enter", "idle_block"} => idle_waiting
  /\ Windows => IdleIsWoken
Sleeping == clk \in {"test", "block", "blocked"}
KickSeen ==
  /\ Sleeping /\ dec_armed /\ dec_left > 0 /\ wake > dec_left =>
       kick /\ (clk # "test" => kick_event)
  /\ Sleeping /\ wake > 0 /\ dec_armed /\ dec_left = 0 =>
       pending \/ cpu \in {"poll", "poll_hw", "poll_dec"}
ClockInv == ClockTypeOK /\ LinesTold /\ IdleSeen /\ (Windows => KickSeen)

\* What falls due is taken: the decrementer's exception, unless the guest writes
\* it again; a retrace; and a DMA's end.
Taken ==
  /\ (dec_armed /\ dec_left = 0) ~> (~dec_armed \/ dec_left > 0)
  /\ vi ~> ~vi
  /\ ar_busy ~> ar_int
  /\ ar_int ~> ~ar_int
=============================================================================
