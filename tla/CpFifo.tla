------------------------------- MODULE CpFifo -------------------------------
(***************************************************************************)
(* The write FIFO between the guest's CPU and its GP (runtime/gx.cpp).     *)
(*                                                                         *)
(* The CPU's stores reach the FIFO as 32-byte bursts at the PI's write     *)
(* pointer.  wiikit's GP parses a burst inside the very store that         *)
(* completes it, except at a FIFO breakpoint: from the burst the           *)
(* breakpoint names on, bursts are held until a write of the CP's          *)
(* registers lets the GP go on (gp_run).                                   *)
(*                                                                         *)
(* The client is the SDK's GX library and a game that paces its frames on  *)
(* breakpoints, recompiled and not in the repository: a thread that        *)
(* writes, the CP's interrupt handler, and a VI callback that moves the    *)
(* breakpoint.  Each of their register writes is an action.                *)
(*                                                                         *)
(* A burst is its number in the order of writing; an address is a burst's  *)
(* place in the FIFO, whose two register halves are written one by one.    *)
(***************************************************************************)
EXTENDS Naturals, Sequences

CONSTANTS
  Size,       \* the FIFO's size in bursts
  HighMark,   \* the high watermark: more than that held is an overflow
  LowMark,    \* the low watermark: less than that held is an underflow
  Slack,      \* bursts the guest writes, at most, between two polls
  Half,       \* what the low half of an address counts to
  MaxBursts   \* bound: bursts ever written to the FIFO

\* The watermarks leave room for what is written before the interrupt is
\* taken, and the FIFO is never quite full
ASSUME CpFifoAssumption ==
  /\ Size \in Nat /\ HighMark \in Nat /\ Slack \in Nat
  /\ LowMark \in 1..HighMark
  /\ Half \in Nat \ {0}
  /\ HighMark + Slack + 1 < Size
  /\ MaxBursts \in Nat

VARIABLES
  ctrl,       \* CP control
  bp_lo,      \* CP 0x3C: the breakpoint's address, low half
  bp_hi,      \* CP 0x3E: high half
  pi_wptr,    \* the PI's write pointer
  held,       \* the bursts the GP has not read
  fed,        \* the bursts it has
  pending,    \* g_ppc_pending: the guest is to look for interrupts
  vi,         \* VI's interrupt line
  written,    \* bursts written to the FIFO
  unpolled,   \* of them, since a line was raised that no poll has seen
  mode,       \* what the guest's CPU runs
  status,     \* the CP handler: the status it read
  suspended,  \* GX's thread is suspended by the overflow
  goal,       \* the burst the breakpoint is meant for, 0 when there is none
  home        \* the FIFO's write pointer, kept while the pipe is redirected

fifo == <<ctrl, bp_lo, bp_hi, pi_wptr, held, fed, written>>
client == <<vi, unpolled, mode, status, suspended, goal, home>>
vars == <<fifo, pending, client>>

Off == Size + 1                        \* an address outside the FIFO
Address == 0..(Size - 1)
Burst == [addr : Address, n : Nat]
Control == [read : BOOLEAN, bp : BOOLEAN, link : BOOLEAN,
            bp_int : BOOLEAN, over_int : BOOLEAN, under_int : BOOLEAN]

\* "thread": guest threads run, interrupts on.  The rest run with them off:
\* "cp_..." the CP's handler, "vi" the VI callback, "move_..." moving the
\* breakpoint, "poll" the poll's loop between two handlers
Mode == {"thread", "poll", "cp_status", "cp_under", "cp_over", "cp_break",
         "vi", "move_lo", "move_hi", "move_bp", "move_on"}

\* the FIFO's write pointer, kept while the pipe is redirected
fifo_wptr == IF pi_wptr = Off THEN home ELSE pi_wptr

\* the pointer the client read before burst n, which the GP has not read
AddressOf(n) == IF n <= written THEN held[n - Len(fed)].addr ELSE fifo_wptr

\* an address as the CP's two registers hold it: high half, low half
Halves(a) == <<a \div Half, a % Half>>

-----------------------------------------------------------------------------
(* The CP's state as its readers see it.                                   *)

linked == ctrl.read /\ ctrl.link

BpEnabled(c) == c.read /\ c.bp
BpAddr == <<bp_hi, bp_lo>>

\* With none held, the GP is at the write pointer
gp_rptr(h) == IF h = <<>> THEN pi_wptr ELSE Head(h).addr
bp_reached(h) == BpEnabled(ctrl) /\ Halves(gp_rptr(h)) = BpAddr

\* (Mutant: an overflow only when the FIFO is full.)
OverflowWhenFull(h) == Len(h) > Size
Overflow(h) == Len(h) > HighMark
Underflow(h) == Len(h) < LowMark

gx_irq == \/ bp_reached(held) /\ ctrl.bp_int
          \/ ctrl.over_int /\ Overflow(held)
          \/ ctrl.under_int /\ Underflow(held)

-----------------------------------------------------------------------------
(* The GP.                                                                 *)

Numbers(s) == [i \in 1..Len(s) |-> s[i].n]

\* The GP stops at burst b under control c and breakpoint address a
Stops(b, c, a) == BpEnabled(c) /\ Halves(b.addr) = a

\* After a write of the control or of the breakpoint: c is the control, a
\* the breakpoint's address after it.  Nothing is read while reading is
\* disabled; otherwise all up to the breakpoint.
\* (Mutant: reading whatever the control says.)
GpRunAnyway(c, a) ==
  \E k \in 0..Len(held) :
    /\ \A i \in 1..k : ~(c.bp /\ Halves(held[i].addr) = a)
    /\ k < Len(held) => c.bp /\ Halves(held[k + 1].addr) = a
    /\ fed' = fed \o Numbers(SubSeq(held, 1, k))
    /\ held' = SubSeq(held, k + 1, Len(held))
GpRun(c, a) ==
  IF ~c.read THEN UNCHANGED <<fed, held>>
  ELSE \E k \in 0..Len(held) :
         /\ \A i \in 1..k : ~Stops(held[i], c, a)
         /\ k < Len(held) => Stops(held[k + 1], c, a)
         /\ fed' = fed \o Numbers(SubSeq(held, 1, k))
         /\ held' = SubSeq(held, k + 1, Len(held))

\* gx_cp_write of 0x02, of 0x3C, of 0x3E: the GP may go on, and the line may
\* have changed
\* (Mutant: the GP does not go on.)
WriteControlHolds(c) ==
  /\ ctrl' = c
  /\ pending' = TRUE
  /\ UNCHANGED <<fed, held, bp_lo, bp_hi, pi_wptr, written>>
WriteControl(c) ==
  /\ ctrl' = c
  /\ GpRun(c, BpAddr)
  /\ pending' = TRUE
  /\ UNCHANGED <<bp_lo, bp_hi, pi_wptr, written>>

WriteBpLo(v) ==
  /\ bp_lo' = v
  /\ GpRun(ctrl, <<bp_hi, v>>)
  /\ pending' = TRUE
  /\ UNCHANGED <<ctrl, bp_hi, pi_wptr, written>>

WriteBpHi(v) ==
  /\ bp_hi' = v
  /\ GpRun(ctrl, <<v, bp_lo>>)
  /\ pending' = TRUE
  /\ UNCHANGED <<ctrl, bp_lo, pi_wptr, written>>

\* gx_pipe_burst: the burst goes where the write pointer is, and that moves
\* on, round at the FIFO's end.  Linked, the GP gets it: at once when it is
\* at the write pointer and not at the breakpoint, else after what is held.
\* (Mutant: the line is raised for the first one held only.)
Advance == IF pi_wptr + 1 = Size THEN 0 ELSE pi_wptr + 1
AcceptFirst(n) ==
  LET b == [addr |-> pi_wptr, n |-> n] IN
  IF held = <<>> /\ ~Stops(b, ctrl, BpAddr)
  THEN fed' = Append(fed, n) /\ UNCHANGED <<held, pending>>
  ELSE /\ held' = Append(held, b)
       /\ pending' = (pending \/ held = <<>>)
       /\ UNCHANGED fed
Accept(n) ==
  LET b == [addr |-> pi_wptr, n |-> n] IN
  IF held = <<>> /\ ~Stops(b, ctrl, BpAddr)
  THEN fed' = Append(fed, n) /\ UNCHANGED <<held, pending>>
  ELSE /\ held' = Append(held, b)
       /\ pending' = (pending \/ bp_reached(held') \/ Overflow(held'))
       /\ UNCHANGED fed

-----------------------------------------------------------------------------
(* The guest's thread.                                                     *)

\* GX's thread completes a burst in the FIFO
Write ==
  /\ mode = "thread" /\ ~suspended /\ pi_wptr # Off
  /\ written < MaxBursts
  /\ pending => unpolled < Slack
  /\ unpolled' = IF pending THEN unpolled + 1 ELSE 0
  /\ written' = written + 1
  /\ pi_wptr' = Advance
  /\ IF linked THEN Accept(written + 1) ELSE UNCHANGED <<fed, held, pending>>
  /\ UNCHANGED <<ctrl, bp_lo, bp_hi, vi, mode, status, suspended, goal, home>>

\* GX's thread points the pipe at a buffer of its own, where a display list
\* is recorded: the FIFO's link and its interrupts off.  What it writes
\* there is not the GP's.
Redirect ==
  /\ mode = "thread" /\ ~suspended /\ pi_wptr # Off
  /\ ctrl' = [ctrl EXCEPT !.link = FALSE, !.over_int = FALSE, !.under_int = FALSE]
  /\ GpRun(ctrl', BpAddr)
  /\ pending' = TRUE
  /\ home' = pi_wptr /\ pi_wptr' = Off
  /\ unpolled' = Slack                \* interrupts were off: on, they poll
  /\ UNCHANGED <<bp_lo, bp_hi, written, vi, mode, status, suspended, goal>>

\* ... and back at the FIFO, its overflow interrupt on
Restore ==
  /\ mode = "thread" /\ ~suspended /\ pi_wptr = Off
  /\ ctrl' = [ctrl EXCEPT !.link = TRUE, !.over_int = TRUE]
  /\ GpRun(ctrl', BpAddr)
  /\ pending' = TRUE
  /\ pi_wptr' = home
  /\ unpolled' = Slack
  /\ UNCHANGED <<bp_lo, bp_hi, written, vi, mode, status, suspended, goal, home>>

\* ppc_poll: a poll that finds no line; one that delivers an interrupt looks
\* again after it
PollNothing ==
  /\ mode \in {"thread", "poll"} /\ pending /\ ~gx_irq /\ ~vi
  /\ pending' = FALSE /\ unpolled' = 0 /\ mode' = "thread"
  /\ UNCHANGED <<fifo, vi, status, suspended, goal, home>>

DeliverCp ==
  /\ mode \in {"thread", "poll"} /\ pending /\ gx_irq
  /\ mode' = "cp_status" /\ unpolled' = 0
  /\ UNCHANGED <<fifo, pending, vi, status, suspended, goal, home>>

DeliverVi ==
  /\ mode \in {"thread", "poll"} /\ pending /\ vi
  /\ mode' = "vi" /\ vi' = FALSE /\ unpolled' = 0
  /\ UNCHANGED <<fifo, pending, status, suspended, goal, home>>

\* the clock thread: a retrace raises VI's line
Retrace ==
  /\ ~vi /\ vi' = TRUE /\ pending' = TRUE
  /\ UNCHANGED <<fifo, unpolled, mode, status, suspended, goal, home>>

-----------------------------------------------------------------------------
(* The CP's interrupt handler.                                             *)

HandlerReads ==
  /\ mode = "cp_status" /\ mode' = "cp_under"
  /\ status' = [over |-> Overflow(held), under |-> Underflow(held),
                bp |-> bp_reached(held)]
  /\ UNCHANGED <<fifo, pending, vi, unpolled, suspended, goal, home>>

\* the underflow: the thread goes on
HandlerUnder ==
  /\ mode = "cp_under" /\ mode' = "cp_over"
  /\ IF ctrl.under_int /\ status.under
     THEN /\ suspended' = FALSE
          /\ WriteControl([ctrl EXCEPT !.under_int = FALSE, !.over_int = TRUE])
     ELSE UNCHANGED <<fifo, pending, suspended>>
  /\ UNCHANGED <<vi, unpolled, status, goal, home>>

\* the overflow: the thread is suspended until the underflow
HandlerOver ==
  /\ mode = "cp_over" /\ mode' = "cp_break"
  /\ IF ctrl.over_int /\ status.over
     THEN /\ suspended' = TRUE
          /\ WriteControl([ctrl EXCEPT !.under_int = TRUE, !.over_int = FALSE])
     ELSE UNCHANGED <<fifo, pending, suspended>>
  /\ UNCHANGED <<vi, unpolled, status, goal, home>>

\* the breakpoint: its interrupt off, and the game's callback told, which may
\* do what the VI callback does
HandlerBreak ==
  /\ mode = "cp_break"
  /\ IF ctrl.bp_int /\ status.bp
     THEN /\ WriteControl([ctrl EXCEPT !.bp_int = FALSE])
          /\ mode' \in {"poll", "vi"}
     ELSE mode' = "poll" /\ UNCHANGED <<fifo, pending>>
  /\ UNCHANGED <<vi, unpolled, status, suspended, goal, home>>

-----------------------------------------------------------------------------
(* The game's callback: it moves the breakpoint on, or clears it.          *)

\* A breakpoint is put where the GP has not been: at a burst that is held,
\* or at the next one.  The GP's reading is disabled first.
MoveStarts ==
  /\ mode = "vi" /\ mode' = "move_lo"
  /\ goal' \in (Len(fed) + 1)..(written + 1) /\ goal' # goal
  /\ WriteControl([ctrl EXCEPT !.read = FALSE])
  /\ UNCHANGED <<vi, unpolled, status, suspended, home>>

MoveLo ==
  /\ mode = "move_lo" /\ mode' = "move_hi"
  /\ WriteBpLo(Halves(AddressOf(goal))[2])
  /\ UNCHANGED <<vi, unpolled, status, suspended, goal, home>>

MoveHi ==
  /\ mode = "move_hi" /\ mode' = "move_bp"
  /\ WriteBpHi(Halves(AddressOf(goal))[1])
  /\ UNCHANGED <<vi, unpolled, status, suspended, goal, home>>

MoveBp ==
  /\ mode = "move_bp" /\ mode' = "move_on"
  /\ WriteControl([ctrl EXCEPT !.bp = TRUE, !.bp_int = TRUE])
  /\ UNCHANGED <<vi, unpolled, status, suspended, goal, home>>

MoveOn ==
  /\ mode = "move_on" /\ mode' = "poll"
  /\ WriteControl([ctrl EXCEPT !.read = TRUE])
  /\ UNCHANGED <<vi, unpolled, status, suspended, goal, home>>

Clear ==
  /\ mode = "vi" /\ mode' = "poll" /\ goal' = 0
  /\ WriteControl([ctrl EXCEPT !.bp = FALSE, !.bp_int = FALSE])
  /\ UNCHANGED <<vi, unpolled, status, suspended, home>>

\* a retrace at which the game leaves its breakpoint alone
LeaveAlone ==
  /\ mode = "vi" /\ mode' = "poll"
  /\ UNCHANGED <<fifo, pending, vi, unpolled, status, suspended, goal, home>>

-----------------------------------------------------------------------------
NoStatus == [over |-> FALSE, under |-> FALSE, bp |-> FALSE]

\* The FIFO as the SDK sets it up
Init ==
  /\ ctrl = [read |-> TRUE, bp |-> FALSE, link |-> TRUE,
             bp_int |-> FALSE, over_int |-> TRUE, under_int |-> FALSE]
  /\ bp_lo = 0 /\ bp_hi = 0 /\ pi_wptr = 0
  /\ held = <<>> /\ fed = <<>>
  /\ pending = FALSE /\ vi = FALSE
  /\ written = 0 /\ unpolled = 0
  /\ mode = "thread" /\ status = NoStatus
  /\ suspended = FALSE /\ goal = 0 /\ home = 0

ThreadStep == Write \/ Redirect \/ Restore
Handler == HandlerReads \/ HandlerUnder \/ HandlerOver \/ HandlerBreak
MoveGoesOn == MoveLo \/ MoveHi \/ MoveBp \/ MoveOn
Poll == PollNothing \/ DeliverCp \/ DeliverVi
Next == \/ ThreadStep \/ Poll \/ Retrace \/ Handler
        \/ MoveStarts \/ MoveGoesOn \/ Clear \/ LeaveAlone

Spec == Init /\ [][Next]_vars

\* The guest's code runs on and polls; retraces keep coming, and the VI
\* interrupt gets its turn; and the game's callback keeps moving its
\* breakpoint, or clearing it, over all the retraces that leave it alone.
FairSpec ==
  /\ Spec
  /\ WF_vars(Poll) /\ WF_vars(Handler) /\ WF_vars(MoveGoesOn)
  /\ WF_vars(Retrace) /\ SF_vars(DeliverVi) /\ SF_vars(DeliverCp)
  /\ WF_vars(MoveStarts \/ Clear \/ LeaveAlone)
  /\ SF_vars(MoveStarts \/ Clear)
  /\ WF_vars(Restore)

-----------------------------------------------------------------------------
(* Properties.                                                             *)

TypeOK ==
  /\ ctrl \in Control
  /\ bp_lo \in 0..(Half - 1) /\ bp_hi \in Nat
  /\ pi_wptr \in Address \union {Off} /\ home \in Address
  /\ held \in Seq(Burst) /\ fed \in Seq(Nat)
  /\ written \in 0..MaxBursts /\ goal \in Nat
  /\ unpolled \in 0..Slack
  /\ pending \in BOOLEAN /\ vi \in BOOLEAN /\ suspended \in BOOLEAN
  /\ mode \in Mode
  /\ status \in [over : BOOLEAN, under : BOOLEAN, bp : BOOLEAN]

\* The GP parses what the CPU wrote, all of it, once and in order: what it
\* has read and what is held for it are the bursts written, although a burst
\* goes to it either at once or by way of the held ones, and although the GP
\* is held, let go and redirected in between (gx_pipe_burst, gp_run).
StreamOrder == fed \o Numbers(held) = [i \in 1..written |-> i]

\* The GP never reads the burst a breakpoint is put at, nor any after it,
\* until the game moves or clears it: not while the two halves of the
\* address are written one after the other, not when the address comes round
\* again as the FIFO wraps (gp_run, bp_addr, the comment on the watermarks).
StopsThere == goal # 0 => Len(fed) < goal

\* The GP's reading is disabled exactly while the breakpoint is moved, and the
\* FIFO is linked unless the pipe is redirected: so a burst written to the FIFO
\* always goes to the GP (linked).
Moving == {"move_lo", "move_hi", "move_bp", "move_on"}
Connected ==
  /\ ctrl.read = (mode \notin Moving)
  /\ ctrl.link = (pi_wptr # Off)

\* How far the breakpoint's registers are set for the burst it is meant for.
BpSet ==
  /\ mode \in Moving => goal # 0
  /\ goal <= written + 1
  /\ mode = "move_hi" => bp_lo = Halves(AddressOf(goal))[2]
  /\ goal # 0 /\ mode \notin {"move_lo", "move_hi"} => BpAddr = Halves(AddressOf(goal))
  /\ goal # 0 /\ mode \notin {"move_lo", "move_hi", "move_bp"} => ctrl.bp

\* The inductive invariant behind StreamOrder and StopsThere.
FifoInv == TypeOK /\ StreamOrder /\ StopsThere /\ Connected /\ BpSet

\* The GP stops for nothing else: with the breakpoint in place, bursts are
\* held from the one it names on.
StopsOnlyThere ==
  held # <<>> /\ ctrl.read => ctrl.bp /\ Head(held).n = goal

\* The CPU never writes over what the GP has not read: the overflow is
\* raised early enough, and the suspended thread is not resumed too early
\* (cp_overflow, cp_underflow, gx_pipe_burst).
NotWrittenOver == \A i, j \in 1..Len(held) : i # j => held[i].addr # held[j].addr

\* Devices raise their lines through os_raise (os.cpp): whenever the CP's
\* line is up and guest code runs with interrupts on, a poll will look: the
\* GP's coming to the breakpoint, the overflow and the underflow are all
\* told, whichever write brings them about.
LineRaised == mode = "thread" /\ gx_irq => pending

\* GX's thread is not suspended for ever: what is held drains as the game
\* moves its breakpoint on, and the underflow resumes it.
Resumed == suspended ~> ~suspended

\* Every burst written reaches the GP.
AllRead == \A n \in 1..MaxBursts : written >= n ~> Len(fed) >= n
=============================================================================
