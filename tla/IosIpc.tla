------------------------------- MODULE IosIpc -------------------------------
(***************************************************************************)
(* The mailbox between the guest and IOS (runtime/ios.cpp).                *)
(*                                                                         *)
(* The guest's IPC client puts the address of a request block in PPCMSG    *)
(* and writes X1; IOS acknowledges (Y2), carries the request out, and      *)
(* replies (ARMMSG, Y1) no sooner than a latency later.  Y1 and Y2 raise   *)
(* the Hollywood interrupt.  IOS has no thread: it runs inside the guest's *)
(* own register writes and inside ios_tick, which the clock thread and     *)
(* every interrupt check call, one at a time under the hardware's lock.    *)
(*                                                                         *)
(* The client is the SDK's, recompiled and not in the repository: its      *)
(* register accesses are modelled one by one, since the clock thread can   *)
(* come in between.  What a request asks is abstracted to whether it is    *)
(* answered at once, stays pending (STM's event hook, HID's                *)
(* GetDeviceChange), or releases the pending one.                          *)
(***************************************************************************)
EXTENDS Naturals, Sequences, FiniteSets

CONSTANTS
  Block,      \* the guest's request blocks
  Null,       \* no block
  Latency     \* kReplyLatency, in ticks

\* what a request asks of a device
Ask == {"now", "wait", "release"}

ASSUME IosIpcAssumption ==
  /\ Null \notin Block \cup Ask
  /\ Latency \in Nat \ {0}

VARIABLES
  ios,      \* the registers and queues of IOS
  ask,      \* what each block in use asks; Null when the guest may reuse it
  outbox,   \* the client: blocks not sent yet
  credit,   \* the client: acknowledged, so another block may be sent
  cpu,      \* where the guest's code is
  got,      \* the handler: the block it read from ARMMSG
  caller,   \* the block whose asynchronous call has not returned yet
  elapsed   \* ticks since that call was made

vars == <<ios, ask, outbox, credit, cpu, got, caller, elapsed>>

\* "thread": guest threads run; "call_": in the client's call, interrupts off;
\* "irq_": in the client's interrupt handler
Cpu == {"thread", "call_msg", "call_x1",
        "irq_read", "irq_y1", "irq_flag1", "irq_x2",
        "irq_ack", "irq_y2", "irq_flag2", "irq_msg", "irq_x1"}

-----------------------------------------------------------------------------
(* IOS.  s is its state; the operators give the state after.               *)

\* the interrupt flag follows a Y that is set with its enable
UpdateIrq(s) ==
  [s EXCEPT !.irq = @ \/ (s.y1 /\ s.iy1) \/ (s.y2 /\ s.iy2)]

\* the result goes into the block at once; its address waits its latency out
\* (Mutant: no latency.)
ReplyNow(s, b) == [s EXCEPT !.replies = Append(@, [addr |-> b, left |-> 0])]
Reply(s, b) == [s EXCEPT !.replies = Append(@, [addr |-> b, left |-> Latency])]

\* the device's answer: at once, PENDING, or after the pending request's
\* (Mutant: the released request stays where it was.)
ExecuteKeeps(s, b) ==
  CASE ask[b] = "wait"                         -> [s EXCEPT !.waiting = b]
    [] ask[b] = "release" /\ s.waiting # Null  -> Reply(Reply(s, s.waiting), b)
    [] OTHER                                   -> Reply(s, b)
Execute(s, b) ==
  CASE ask[b] = "wait" -> [s EXCEPT !.waiting = b]
    [] ask[b] = "release" /\ s.waiting # Null ->
         Reply([Reply(s, s.waiting) EXCEPT !.waiting = Null], b)
    [] OTHER -> Reply(s, b)

\* the guest has taken the last acknowledgement or reply
\* (Mutant: the flag not looked at.)
ReadyByY(s) == ~s.y1 /\ ~s.y2
Ready(s) == ~s.y1 /\ ~s.y2 /\ ~s.irq

\* one request, or else one reply that is due
Update(s) ==
  IF s.requests # <<>> /\ Ready(s)
  THEN Execute(UpdateIrq([s EXCEPT !.requests = Tail(@), !.y2 = TRUE, !.x1 = FALSE]),
               Head(s.requests))
  ELSE IF s.replies # <<>> /\ Ready(s) /\ Head(s.replies).left = 0
       THEN UpdateIrq([s EXCEPT !.arm_msg = Head(s.replies).addr,
                                !.replies = Tail(@), !.y1 = TRUE])
       ELSE s

\* The guest writes PPCCTRL: v holds the bits it writes.  Y1 and Y2 are
\* cleared by writing them, and even that raises the interrupt.
WriteCtrl(s, v) ==
  LET t == [s EXCEPT !.x1 = "x1" \in v,
                     !.y1 = @ /\ "y1" \notin v, !.y2 = @ /\ "y2" \notin v,
                     !.iy1 = "iy1" \in v, !.iy2 = "iy2" \in v,
                     !.irq = @ \/ {"y1", "iy1"} \subseteq v \/ {"y2", "iy2"} \subseteq v]
  IN  Update(IF t.x1 THEN [t EXCEPT !.requests = Append(@, t.ppc_msg)] ELSE t)

\* The guest writes PPCMSG
WriteMsg(s, b) == [s EXCEPT !.ppc_msg = b]

\* The guest clears the Hollywood interrupt flag
IrqFlagClear(s) == Update([s EXCEPT !.irq = FALSE])

\* the processor idles: replies are due at once
Idle(s) ==
  Update([s EXCEPT !.replies = [i \in DOMAIN @ |-> [@[i] EXCEPT !.left = 0]]])

-----------------------------------------------------------------------------
(* The guest.                                                              *)

Enables == {"iy1", "iy2"}

\* a thread makes an asynchronous call; the client sends the block if the last
\* one was acknowledged.  It has no two requests of the kind that stays pending
\* outstanding: the device holds one.
Submit(b, a) ==
  /\ cpu = "thread" /\ caller = Null /\ ask[b] = Null
  /\ a = "wait" => \A c \in Block : ask[c] # "wait"
  /\ ask' = [ask EXCEPT ![b] = a]
  /\ outbox' = Append(outbox, b)
  /\ caller' = b /\ elapsed' = 0
  /\ cpu' = IF credit THEN "call_msg" ELSE "thread"
  /\ UNCHANGED <<ios, credit, got>>

\* it marks the operation pending, once the call has returned
CallReturns ==
  /\ cpu = "thread" /\ caller # Null
  /\ caller' = Null
  /\ UNCHANGED <<ios, ask, outbox, credit, cpu, got, elapsed>>

\* the client's call, or its handler, sends the next block: PPCMSG, then X1
SendMsg ==
  /\ cpu \in {"call_msg", "irq_msg"}
  /\ ios' = WriteMsg(ios, Head(outbox))
  /\ outbox' = Tail(outbox)
  /\ credit' = FALSE
  /\ cpu' = IF cpu = "call_msg" THEN "call_x1" ELSE "irq_x1"
  /\ UNCHANGED <<ask, got, caller, elapsed>>

SendX1 ==
  /\ cpu \in {"call_x1", "irq_x1"}
  /\ ios' = WriteCtrl(ios, Enables \cup {"x1"})
  /\ cpu' = "thread"
  /\ UNCHANGED <<ask, outbox, credit, got, caller, elapsed>>

\* the interrupt is taken
Interrupt ==
  /\ cpu = "thread" /\ ios.irq
  /\ cpu' = "irq_read"
  /\ UNCHANGED <<ios, ask, outbox, credit, got, caller, elapsed>>

\* the handler looks for a reply and reads ARMMSG
IrqRead ==
  /\ cpu = "irq_read"
  /\ IF ios.y1 THEN cpu' = "irq_y1" /\ got' = ios.arm_msg
               ELSE cpu' = "irq_ack" /\ UNCHANGED got
  /\ UNCHANGED <<ios, ask, outbox, credit, caller, elapsed>>

IrqClearY1 ==
  /\ cpu = "irq_y1"
  /\ ios' = WriteCtrl(ios, Enables \cup {"y1"})
  /\ cpu' = "irq_flag1"
  /\ UNCHANGED <<ask, outbox, credit, got, caller, elapsed>>

IrqClearFlag1 ==
  /\ cpu = "irq_flag1"
  /\ ios' = IrqFlagClear(ios)
  /\ cpu' = "irq_x2"
  /\ UNCHANGED <<ask, outbox, credit, got, caller, elapsed>>

\* the request's callback runs, then the client writes X2
IrqReply ==
  /\ cpu = "irq_x2"
  /\ ask' = [ask EXCEPT ![got] = Null]
  /\ got' = Null
  /\ ios' = WriteCtrl(ios, Enables)
  /\ cpu' = "irq_ack"
  /\ UNCHANGED <<outbox, credit, caller, elapsed>>

\* the handler looks for an acknowledgement
IrqAck ==
  /\ cpu = "irq_ack"
  /\ cpu' = IF ios.y2 THEN "irq_y2" ELSE "thread"
  /\ UNCHANGED <<ios, ask, outbox, credit, got, caller, elapsed>>

IrqClearY2 ==
  /\ cpu = "irq_y2"
  /\ ios' = WriteCtrl(ios, Enables \cup {"y2"})
  /\ cpu' = "irq_flag2"
  /\ UNCHANGED <<ask, outbox, credit, got, caller, elapsed>>

IrqClearFlag2 ==
  /\ cpu = "irq_flag2"
  /\ ios' = IrqFlagClear(ios)
  /\ credit' = TRUE
  /\ cpu' = IF outbox = <<>> THEN "thread" ELSE "irq_msg"
  /\ UNCHANGED <<ask, outbox, got, caller, elapsed>>

Handler == IrqRead \/ IrqClearY1 \/ IrqClearFlag1 \/ IrqReply \/ IrqAck \/ IrqClearY2 \/ IrqClearFlag2

\* every guest thread waits: no call is under way, and the idle loop runs
CpuIdle ==
  /\ cpu = "thread" /\ caller = Null
  /\ ios' = Idle(ios)
  /\ UNCHANGED <<ask, outbox, credit, cpu, got, caller, elapsed>>

-----------------------------------------------------------------------------
(* The clock.                                                              *)

\* ios_tick, from the clock thread or from an interrupt check
Tick ==
  /\ ios' = Update(ios)
  /\ UNCHANGED <<ask, outbox, credit, cpu, got, caller, elapsed>>

\* Time passes.  What the latency is chosen for: a call returns within it.
TimePasses ==
  /\ caller # Null => elapsed + 1 < Latency
  /\ elapsed' = IF caller # Null THEN elapsed + 1 ELSE elapsed
  /\ ios' = [ios EXCEPT !.replies = [i \in DOMAIN @ |->
               [addr |-> @[i].addr, left |-> IF @[i].left = 0 THEN 0 ELSE @[i].left - 1]]]
  /\ UNCHANGED <<ask, outbox, credit, cpu, got, caller>>

\* the client has enabled both interrupts
Init ==
  /\ ios = [x1 |-> FALSE, y1 |-> FALSE, y2 |-> FALSE, iy1 |-> TRUE, iy2 |-> TRUE,
            irq |-> FALSE, ppc_msg |-> Null, arm_msg |-> Null,
            requests |-> <<>>, replies |-> <<>>, waiting |-> Null]
  /\ ask = [b \in Block |-> Null]
  /\ outbox = <<>>
  /\ credit = TRUE
  /\ cpu = "thread"
  /\ got = Null /\ caller = Null /\ elapsed = 0

Next ==
  \/ \E b \in Block, a \in Ask : Submit(b, a)
  \/ CallReturns \/ SendMsg \/ SendX1 \/ Interrupt \/ Handler \/ CpuIdle
  \/ Tick \/ TimePasses

Spec == Init /\ [][Next]_vars

\* The clock thread ticks and time passes; the guest's code goes on.  Nothing
\* makes the guest submit or idle.
Fairness ==
  /\ WF_vars(Tick) /\ WF_vars(TimePasses)
  /\ WF_vars(CallReturns) /\ WF_vars(SendMsg) /\ WF_vars(SendX1)
  /\ WF_vars(Interrupt) /\ WF_vars(Handler)

FairSpec == Spec /\ Fairness

-----------------------------------------------------------------------------
(* Properties.                                                             *)

TypeOK ==
  /\ ios \in [x1 : BOOLEAN, y1 : BOOLEAN, y2 : BOOLEAN, iy1 : BOOLEAN, iy2 : BOOLEAN,
              irq : BOOLEAN, ppc_msg : Block \cup {Null}, arm_msg : Block \cup {Null},
              requests : Seq(Block), replies : Seq([addr : Block, left : 0..Latency]),
              waiting : Block \cup {Null}]
  /\ ask \in [Block -> Ask \cup {Null}]
  /\ outbox \in Seq(Block)
  /\ credit \in BOOLEAN
  /\ cpu \in Cpu
  /\ got \in Block \cup {Null}
  /\ caller \in Block \cup {Null}
  /\ elapsed \in 0..Latency

\* the places a block is at, one for each time it is there
Places(b) ==
  Cardinality({i \in DOMAIN outbox : outbox[i] = b})
  + (IF cpu \in {"call_x1", "irq_x1"} /\ ios.ppc_msg = b THEN 1 ELSE 0)
  + Cardinality({i \in DOMAIN ios.requests : ios.requests[i] = b})
  + (IF ios.waiting = b THEN 1 ELSE 0)
  + Cardinality({i \in DOMAIN ios.replies : ios.replies[i].addr = b})
  + (IF ios.y1 /\ ios.arm_msg = b THEN 1 ELSE 0)
  + (IF cpu \in {"irq_flag1", "irq_x2"} /\ got = b THEN 1 ELSE 0)

\* A request is neither lost nor answered twice: a block in use is at exactly
\* one place between the call and its callback, and a free one is nowhere
\* (ios.cpp 9-16: one reply for each request, through one mailbox).
OneReplyEach == \A b \in Block : Places(b) = IF ask[b] = Null THEN 0 ELSE 1

\* "A completion delivered inside the call" (ios.cpp 14-20) does not happen:
\* while a call has not returned its block is not in the mailbox, nor read.
NotInsideTheCall ==
  caller # Null => /\ ~(ios.y1 /\ ios.arm_msg = caller)
                   /\ got # caller

\* A Y the guest has not seen keeps the interrupt line up until the handler
\* that runs gets to it: otherwise both sides would wait for ever.
InterruptStays ==
  ios.y1 \/ ios.y2 => ios.irq \/ cpu \in {"irq_read", "irq_y1", "irq_ack", "irq_y2"}

\* The first reply in the queue is the first that is due: ios_tick tells the
\* clock thread to sleep until then (ios.cpp 527-530).
DueInOrder ==
  \A i, j \in DOMAIN ios.replies : i < j => ios.replies[i].left <= ios.replies[j].left

\* One reply for each request, in the order they fall due, and the line up
\* while there is something to see; with the types.
IpcInv == TypeOK /\ OneReplyEach /\ DueInOrder /\ InterruptStays

\* A request that does not stay pending is answered.
Answered == \A b \in Block : ask[b] \in {"now", "release"} ~> ask[b] = Null

\* One that stays pending is answered once another is made that releases it
\* (ios.cpp 12-13).
Released ==
  \A b, c \in Block :
    ios.waiting = b /\ ask[c] = "release" /\ (\E i \in DOMAIN outbox : outbox[i] = c)
      ~> ask[b] = Null

\* Every request the guest makes comes back to it.
AllReplied == Answered /\ Released
=============================================================================
