------------------------------ MODULE OsProofs ------------------------------
(***************************************************************************)
(* Proofs about the kernel's part of the runtime (os.cpp): GuestThreads,   *)
(* for any number of contexts, host threads and nested calls, and Clock,   *)
(* for any times and any number of register writes.                        *)
(***************************************************************************)
EXTENDS GuestThreads, Clock, TLAPS, SequenceTheorems


\* A stack of frames stays one when a call returns.
LEMMA PopType ==
  ASSUME NEW S, NEW s \in Seq(S)
  PROVE  Pop(s) \in Seq(S)
<1>1. CASE Len(s) = 0
  BY <1>1 DEF Pop
<1>2. CASE Len(s) # 0
  BY <1>2 DEF Pop
<1>. QED BY <1>1, <1>2

\* Leaving wait_baton changes the host thread's own stack only, and not that of
\* one that sits in its thread's code.
LEMMA LeaveFact ==
  ASSUME TypeOK, NEW h \in Host, Leave(h)
  PROVE  /\ stack' \in [Host -> Seq(Frame)]
         /\ died' \in BOOLEAN
         /\ \A g \in Host \ {h} : stack'[g] = stack[g]
         /\ pc'[h] # "gone" /\ stack[h] = <<"code">> => stack'[h] = stack[h]
         /\ pc'[h] \notin {"gone", "guest"} => UNCHANGED <<stack, died>>
<1>1. CASE pc'[h] = "gone"
  BY <1>1 DEF TypeOK, Leave
<1>2. CASE pc'[h] = "guest" /\ Top(stack[h]) = "select"
  <2>1. Pop(stack[h]) \in Seq(Frame)
    BY PopType DEF TypeOK
  <2>2. stack[h] # <<"code">>
    BY <1>2 DEF Top
  <2>3. QED
    BY <1>2, <2>1, <2>2 DEF TypeOK, Leave
<1>3. CASE pc'[h] # "gone" /\ ~(pc'[h] = "guest" /\ Top(stack[h]) = "select")
  BY <1>3 DEF TypeOK, Leave
<1>. QED BY <1>1, <1>2, <1>3

\* Waking a host thread moves at most that one, and only from its sleep.
LEMMA NotifyFact ==
  ASSUME NEW p \in [Host -> PC], NEW h \in Host
  PROVE  /\ Notify(p, h) \in [Host -> PC]
         /\ \A g \in Host : Notify(p, h)[g] = p[g] \/ (p[g] = "asleep" /\ Notify(p, h)[g] = "waiting")
BY DEF Notify, PC

\* The host thread taken for a fresh context is one that was not started yet.
LEMMA NewHostFact ==
  ASSUME \E m \in Host : pc[m] = "unborn"
  PROVE  NewHost \in Host /\ pc[NewHost] = "unborn"
BY DEF NewHost

\* Adopting a context leaves the tables agreeing with the host threads: h may
\* carry none only if it is the main host thread before its adoption.
LEMMA AdoptFact ==
  ASSUME TypeOK, OneHostPerContext, NEW h \in Host, NEW x \in Ctx, ~zombie[h],
         ctx[h] = Null => by_ctx[x] = Null,
         Adopt(h, x), UNCHANGED zombie
  PROVE  /\ ctx' \in [Host -> Ctx \cup {Null}]
         /\ by_ctx' \in [Ctx -> Host \cup {Null}]
         /\ died' \in BOOLEAN
         /\ OneHostPerContext'
         /\ ctx'[h] # Null
         /\ \A g \in Host \ {h} : ctx'[g] = ctx[g]
BY GuestThreadsAssumption DEF TypeOK, OneHostPerContext, Adopt, Carry, Register

THEOREM InitInv == Init => BatonInv
<1> USE GuestThreadsAssumption
<1> SUFFICES ASSUME Init PROVE BatonInv
  OBVIOUS
<1>1. TypeOK
  <2>1. stack \in [Host -> Seq(Frame)]
    BY DEF Init, Frame, Call
  <2>2. pc \in [Host -> PC] /\ tstate \in [Ctx -> TState]
    BY DEF Init, PC, TState
  <2>3. QED
    BY <2>1, <2>2 DEF Init, TypeOK
<1>2. QED
  BY <1>1 DEF Init, BatonInv, OneGuestThread, BatonIsTaken, OneHostPerContext, BeforeAdoption

-----------------------------------------------------------------------------
(* The steps of the baton.                                                 *)

LEMMA AcquireInv ==
  ASSUME BatonInv, NEW h \in Host, Acquire(h)
  PROVE  BatonInv'
<1> USE DEF BatonInv
<1>1. TypeOK'
  BY LeaveFact DEF TypeOK, Acquire, WaitBaton, PC, guestVars
<1>2. OneGuestThread'
  BY DEF TypeOK, OneGuestThread, Acquire, WaitBaton
<1>3. BatonIsTaken'
  BY DEF TypeOK, OneGuestThread, BatonIsTaken, Acquire, WaitBaton
<1>4. OneHostPerContext'
  BY DEF OneHostPerContext, Acquire
<1>5. BeforeAdoption'
  <2>1. ctx[MainHost] = Null => pc'[MainHost] # "gone"
    BY GuestThreadsAssumption DEF TypeOK, BatonIsTaken, BeforeAdoption, Acquire, WaitBaton
  <2>2. ctx[MainHost] = Null => stack'[MainHost] = <<"code">>
    BY <2>1, LeaveFact, GuestThreadsAssumption DEF BeforeAdoption, Acquire
  <2>3. QED
    BY <2>2, GuestThreadsAssumption
    DEF TypeOK, BatonIsTaken, BeforeAdoption, Acquire, WaitBaton, guestVars
<1>6. QED
  BY <1>1, <1>2, <1>3, <1>4, <1>5, GuestThreadsAssumption DEF TypeOK, Acquire, WaitBaton

LEMMA SpuriousWakeInv ==
  ASSUME BatonInv, NEW h \in Host, SpuriousWake(h)
  PROVE  BatonInv'
<1> USE DEF BatonInv
<1>1. pc' \in [Host -> PC]
  BY NotifyFact DEF TypeOK, SpuriousWake
<1>2. \A g \in Host : pc'[g] = pc[g] \/ (pc[g] = "asleep" /\ pc'[g] = "waiting")
  BY NotifyFact DEF TypeOK, SpuriousWake
<1>3. TypeOK'
  BY <1>1 DEF TypeOK, SpuriousWake, guestVars
<1>4. BatonIsTaken'
  BY <1>2 DEF TypeOK, BatonIsTaken, OneGuestThread, SpuriousWake
<1>5. OneGuestThread'
  BY <1>2 DEF OneGuestThread, SpuriousWake
<1>6. OneHostPerContext'
  BY DEF OneHostPerContext, SpuriousWake
<1>7. BeforeAdoption'
  BY <1>2, GuestThreadsAssumption DEF BeforeAdoption, SpuriousWake, guestVars
<1>8. QED
  BY <1>2, <1>3, <1>4, <1>5, <1>6, <1>7, GuestThreadsAssumption DEF SpuriousWake

LEMMA PassToInv ==
  ASSUME BatonInv, NEW h \in Host, PassTo(h)
  PROVE  BatonInv'
<1> USE DEF BatonInv
<1> DEFINE t == target[h]
<1>1. running = h /\ t \in Host \ {h} /\ ~zombie[t] /\ ~zombie[h] /\ pc[t] \in {"waiting", "asleep"}
  BY DEF TypeOK, PassTo, OneGuestThread, BatonIsTaken
<1> DEFINE woken == Notify(pc, t)
<1>a. /\ woken \in [Host -> PC]
      /\ \A g \in Host : woken[g] = pc[g] \/ (pc[g] = "asleep" /\ woken[g] = "waiting")
  BY <1>1, NotifyFact DEF TypeOK
<1>b. pc' = [woken EXCEPT ![h] = "asleep"] /\ running' = t
  BY <1>1 DEF PassTo, WaitBaton
<1> HIDE DEF woken
<1>2. \A g \in Host \ {h} : pc'[g] = pc[g] \/ (pc[g] = "asleep" /\ pc'[g] = "waiting")
  BY <1>a, <1>b
<1>3. pc'[h] = "asleep" /\ pc' \in [Host -> PC] /\ running' = t
  BY <1>a, <1>b DEF PC
<1>4. UNCHANGED <<stack, died>>
  BY <1>3, LeaveFact DEF PassTo
<1>5. TypeOK'
  BY <1>1, <1>3, <1>4 DEF TypeOK, PassTo, guestVars
<1>6. \A g \in Host : pc'[g] \notin {"guest", "handing"}
  BY <1>1, <1>2, <1>3 DEF OneGuestThread
<1>7. OneGuestThread' /\ BatonIsTaken'
  BY <1>1, <1>2, <1>3, <1>6 DEF OneGuestThread, BatonIsTaken, PassTo
<1>8. ctx[MainHost] # Null
  BY <1>1 DEF BeforeAdoption, PassTo
<1>9. QED
  BY <1>2, <1>3, <1>5, <1>7, <1>8, GuestThreadsAssumption
  DEF TypeOK, OneHostPerContext, BeforeAdoption, PassTo

-----------------------------------------------------------------------------
(* The steps of guest code.                                                *)

\* Only the main host thread may be executing before it has been adopted.
LEMMA ExecutingFact ==
  ASSUME BatonInv, NEW h \in Host, Executing(h)
  PROVE  /\ ~zombie[h]
         /\ \A g \in Host \ {h} : pc[g] \notin {"guest", "handing"}
         /\ ctx[MainHost] = Null => h = MainHost
         /\ ctx[h] = Null => h = MainHost
BY DEF BatonInv, TypeOK, Executing, OneGuestThread, BatonIsTaken, BeforeAdoption

\* A step that leaves the host threads and the tables alone.
LEMMA HostUnchanged ==
  ASSUME BatonInv, TypeOK', BeforeAdoption', Main \notin fresh',
         UNCHANGED <<running, by_ctx, ctx, zombie, pc, target>>
  PROVE  BatonInv'
BY DEF BatonInv, OneGuestThread, BatonIsTaken, OneHostPerContext

\* A step in which the host thread that executes may adopt the current context.
LEMMA AdoptInv ==
  ASSUME BatonInv, NEW h \in Host, Executing(h), NEW x \in Ctx,
         ctx[h] = Null => x = Main,
         Adopt(h, x), TypeOK',
         UNCHANGED <<running, zombie, pc, target, fresh>>
  PROVE  BatonInv'
<1>1. ~zombie[h] /\ (ctx[h] = Null => by_ctx[x] = Null) /\ (ctx[MainHost] = Null => h = MainHost)
  BY ExecutingFact DEF BatonInv, BeforeAdoption
<1>2. /\ OneHostPerContext'
      /\ ctx'[h] # Null
      /\ \A g \in Host \ {h} : ctx'[g] = ctx[g]
  BY <1>1, AdoptFact DEF BatonInv
<1>3. BeforeAdoption'
  BY <1>1, <1>2, GuestThreadsAssumption DEF BatonInv, BeforeAdoption
<1>4. pc[h] # "unborn"
  BY DEF Executing
<1>5. QED
  BY <1>2, <1>3, <1>4 DEF BatonInv, OneGuestThread, BatonIsTaken

\* The parts of Reschedule that are not about the adoption.
LEMMA RescheduleType ==
  ASSUME BatonInv, NEW h \in Host, current \in Ctx,
         NEW s \in [Ctx -> TState], NEW base \in Seq(Frame),
         Reschedule(h, s, base)
  PROVE  /\ tstate' \in [Ctx -> TState]
         /\ stack' \in [Host -> Seq(Frame)]
         /\ current' = Null
         /\ context' \in Ctx \cup {Idle}
         /\ UNCHANGED <<running, fresh, zombie, pc, target, exc>>
<1>1. Append(base, "select") \in Seq(Frame)
  BY DEF Frame, Call
<1>2. QED
  BY <1>1 DEF BatonInv, TypeOK, TState, Reschedule

\* SelectThread, up to its choice, keeps the invariant.
LEMMA RescheduleInv ==
  ASSUME BatonInv, NEW h \in Host, Executing(h), current \in Ctx,
         ctx[h] = Null => current = Main,
         NEW s \in [Ctx -> TState], NEW base \in Seq(Frame),
         Reschedule(h, s, base)
  PROVE  BatonInv'
<1>1. CASE current \in exc
  <2>1. UNCHANGED <<ctx, by_ctx, died>>
    BY <1>1 DEF Reschedule
  <2>2. TypeOK'
    BY <2>1, RescheduleType DEF BatonInv, TypeOK
  <2>3. ctx[MainHost] # Null
    BY <1>1, ExecutingFact DEF BatonInv, BeforeAdoption
  <2>4. BeforeAdoption'
    BY <2>1, <2>3, RescheduleType DEF BatonInv, BeforeAdoption
  <2>5. QED
    BY <2>1, <2>2, <2>4, RescheduleType, HostUnchanged DEF BatonInv
<1>2. CASE current \notin exc
  <2>1. Adopt(h, current)
    BY <1>2 DEF Reschedule
  <2>2. ~zombie[h] /\ (ctx[h] = Null => by_ctx[current] = Null)
    BY ExecutingFact DEF BatonInv, BeforeAdoption
  <2>3. TypeOK'
    BY <2>1, <2>2, RescheduleType, AdoptFact DEF BatonInv, TypeOK
  <2>4. QED
    BY <2>1, <2>3, RescheduleType, AdoptInv
<1>3. QED
  BY <1>1, <1>2

\* SelectThread does nothing unless the current context is a thread's.
LEMMA RescheduledFact ==
  ASSUME BatonInv, NEW h \in Host, Executing(h), NEW s, NEW base, Reschedule(h, s, base)
  PROVE  /\ current \in Ctx
         /\ ctx[h] = Null => current = Main
         /\ stack[h] \in Seq(Frame) /\ tstate \in [Ctx -> TState]
BY ExecutingFact, GuestThreadsAssumption DEF BatonInv, TypeOK, BeforeAdoption, Reschedule

LEMMA YieldInv ==
  ASSUME BatonInv, NEW h \in Host, Yield(h)
  PROVE  BatonInv'
<1>1. PICK s \in {"running", "suspended"} :
        Executing(h) /\ Reschedule(h, [tstate EXCEPT ![current] = s], stack[h])
  BY DEF Yield
<1>2. [tstate EXCEPT ![current] = s] \in [Ctx -> TState] /\ stack[h] \in Seq(Frame)
  BY <1>1, RescheduledFact DEF TState
<1>3. QED
  BY <1>1, <1>2, RescheduledFact, RescheduleInv

LEMMA ExitThreadInv ==
  ASSUME BatonInv, NEW h \in Host, ExitThread(h)
  PROVE  BatonInv'
<1> DEFINE s == [tstate EXCEPT ![current] = "dead"]
           base == Append(Pop(stack[h]), "exit")
<1>1. Executing(h) /\ Reschedule(h, s, base)
  BY DEF ExitThread
<1>2. s \in [Ctx -> TState]
  BY <1>1, RescheduledFact DEF TState
<1>3. base \in Seq(Frame)
  BY <1>1, RescheduledFact, PopType DEF Frame, Call
<1> HIDE DEF s, base
<1>4. QED
  BY <1>1, <1>2, <1>3, RescheduledFact, RescheduleInv

LEMMA HandlerReschedulesInv ==
  ASSUME BatonInv, NEW h \in Host, HandlerReschedules(h)
  PROVE  BatonInv'
<1>1. Executing(h) /\ Reschedule(h, tstate, stack[h])
  BY DEF HandlerReschedules
<1>2. QED
  BY <1>1, RescheduledFact, RescheduleInv

LEMMA CreateThreadInv ==
  ASSUME BatonInv, NEW h \in Host, NEW x \in Ctx, CreateThread(h, x)
  PROVE  BatonInv'
<1>1. TypeOK'
  BY DEF BatonInv, TypeOK, TState, CreateThread
<1>2. BeforeAdoption' /\ Main \notin fresh'
  BY DEF BatonInv, BeforeAdoption, CreateThread
<1>3. QED
  BY <1>1, <1>2, HostUnchanged DEF CreateThread

LEMMA WakeupInv ==
  ASSUME BatonInv, NEW h \in Host, NEW x \in Ctx, Wakeup(h, x)
  PROVE  BatonInv'
<1>1. TypeOK'
  BY DEF BatonInv, TypeOK, TState, Wakeup, hostVars
<1>2. BeforeAdoption' /\ Main \notin fresh'
  BY DEF BatonInv, BeforeAdoption, Wakeup, hostVars
<1>3. QED
  BY <1>1, <1>2, HostUnchanged DEF Wakeup, hostVars

LEMMA StopInv ==
  ASSUME BatonInv, NEW h \in Host, NEW x \in Ctx, Stop(h, x)
  PROVE  BatonInv'
<1>1. TypeOK'
  BY DEF BatonInv, TypeOK, TState, Stop, hostVars
<1>2. BeforeAdoption' /\ Main \notin fresh'
  BY DEF BatonInv, BeforeAdoption, Stop, hostVars
<1>3. QED
  BY <1>1, <1>2, HostUnchanged DEF Stop, hostVars

LEMMA DeliverInv ==
  ASSUME BatonInv, NEW h \in Host, Deliver(h)
  PROVE  BatonInv'
<1>1. Executing(h)
  BY DEF Deliver
<1>2. Append(stack[h], context) \in Seq(Frame)
  BY DEF BatonInv, TypeOK, Frame
<1>3. stack' \in [Host -> Seq(Frame)] /\ exc' \in SUBSET Ctx
  BY <1>2 DEF BatonInv, TypeOK, Deliver
<1>4. CASE DeliverAdopts(h)
  <2>1. ctx[h] = Null /\ h = MainHost /\ context = Main
    BY <1>1, <1>4, ExecutingFact DEF DeliverAdopts, BatonInv, BeforeAdoption
  <2>2. Adopt(h, context)
    BY <1>4 DEF Deliver
  <2>3. ~zombie[h] /\ by_ctx[context] = Null
    BY <1>1, <2>1, ExecutingFact DEF BatonInv, BeforeAdoption
  <2>4. TypeOK'
    BY <1>3, <2>1, <2>2, <2>3, AdoptFact, GuestThreadsAssumption DEF BatonInv, TypeOK, Deliver
  <2>5. QED
    BY <1>1, <2>1, <2>2, <2>4, AdoptInv, GuestThreadsAssumption DEF Deliver
<1>5. CASE ~DeliverAdopts(h)
  <2>1. ctx[MainHost] # Null
    BY <1>1, <1>5, ExecutingFact DEF DeliverAdopts, BatonInv, BeforeAdoption
  <2>2. TypeOK' /\ BeforeAdoption' /\ Main \notin fresh'
    BY <1>3, <1>5, <2>1 DEF BatonInv, TypeOK, BeforeAdoption, Deliver
  <2>3. QED
    BY <1>5, <2>2, HostUnchanged DEF Deliver
<1>6. QED
  BY <1>4, <1>5

LEMMA HandlerReturnsInv ==
  ASSUME BatonInv, NEW h \in Host, HandlerReturns(h)
  PROVE  BatonInv'
<1>1. Executing(h) /\ InHandler(h)
  BY DEF HandlerReturns
<1>2. ctx[MainHost] # Null
  <2>1. Top(<<"code">>) \notin Ctx \cup {Idle}
    BY GuestThreadsAssumption DEF Top, Call
  <2>2. QED
    BY <1>1, <2>1, ExecutingFact DEF InHandler, BatonInv, BeforeAdoption
<1>3. TypeOK'
  BY <1>1, PopType DEF BatonInv, TypeOK, HandlerReturns, Interrupted, InHandler
<1>4. BeforeAdoption' /\ Main \notin fresh'
  BY <1>2 DEF BatonInv, BeforeAdoption, HandlerReturns
<1>5. QED
  BY <1>3, <1>4, HostUnchanged DEF HandlerReturns

\* SelectThread runs on a host thread that has been adopted.
LEMMA SelectFact ==
  ASSUME BatonInv, NEW h \in Host, Executing(h), Top(stack[h]) = "select"
  PROVE  /\ ctx[h] # Null /\ ctx[MainHost] # Null
         /\ pc[h] = "guest" /\ running = h /\ ~zombie[h] /\ by_ctx[ctx[h]] = h
         /\ \A g \in Host \ {h} : pc[g] \notin {"guest", "handing"}
<1>1. Top(<<"code">>) # "select"
  BY DEF Top
<1>2. QED
  BY <1>1, ExecutingFact
  DEF BatonInv, TypeOK, BeforeAdoption, OneHostPerContext, Executing

\* Retiring a host thread, if there is one, at most wakes it.
LEMMA RetiredWakes ==
  ASSUME TypeOK, NEW o \in Host \cup {Null}, NEW p,
         p = IF o = Null THEN pc ELSE Notify(pc, o)
  PROVE  /\ p \in [Host -> PC]
         /\ \A g \in Host : p[g] = pc[g] \/ (pc[g] = "asleep" /\ p[g] = "waiting")
<1>1. CASE o = Null
  BY <1>1 DEF TypeOK
<1>2. CASE o # Null
  <2>1. o \in Host /\ p = Notify(pc, o) /\ pc \in [Host -> PC]
    BY <1>2 DEF TypeOK
  <2>2. QED
    BY <2>1, NotifyFact
<1>3. QED
  BY <1>1, <1>2

\* Starting a host thread for a fresh context keeps the invariant: the one it
\* replaces is parked, and is not the one that executes.
LEMMA LoadFreshInv ==
  ASSUME BatonInv, NEW h \in Host, NEW x \in Ctx, Executing(h), Top(stack[h]) = "select",
         x \in fresh, x # ctx[h], LoadFresh(h, x), TypeOK',
         UNCHANGED running
  PROVE  BatonInv'
<1> DEFINE n == NewHost
           o == by_ctx[x]
           p == IF o = Null THEN pc ELSE Notify(pc, o)
<1>1. n \in Host /\ pc[n] = "unborn" /\ ctx[n] = Null /\ ~zombie[n] /\ n # h
  BY NewHostFact, SelectFact DEF LoadFresh, BatonInv
<1>2. o # Null => o \in Host \ {h, n} /\ ctx[o] = x /\ pc[o] \in {"waiting", "asleep"}
  BY <1>1, SelectFact, GuestThreadsAssumption DEF BatonInv, TypeOK, PC, OneHostPerContext
<1>3. /\ p \in [Host -> PC]
      /\ \A g \in Host : p[g] = pc[g] \/ (pc[g] = "asleep" /\ p[g] = "waiting")
  <2>1. TypeOK /\ o \in Host \cup {Null}
    BY DEF BatonInv, TypeOK
  <2>2. QED
    BY <2>1, RetiredWakes
<1>4. pc' = [p EXCEPT ![h] = "handing", ![n] = "waiting"]
  BY DEF LoadFresh
<1> HIDE DEF p
<1>5. /\ pc'[h] = "handing" /\ pc'[n] = "waiting"
      /\ \A g \in Host \ {h, n} : pc'[g] = pc[g] \/ (pc[g] = "asleep" /\ pc'[g] = "waiting")
  BY <1>1, <1>3, <1>4
<1>6. /\ ctx' = [ctx EXCEPT ![n] = x]
      /\ by_ctx' = [by_ctx EXCEPT ![x] = n]
      /\ target' = [target EXCEPT ![h] = n]
      /\ zombie' = IF o = Null THEN zombie ELSE [zombie EXCEPT ![o] = TRUE]
      /\ fresh' = fresh \ {x}
  BY DEF LoadFresh, Carry, Register, Retire
<1> HIDE DEF n, o
<1>7. OneGuestThread'
  BY <1>5, SelectFact DEF OneGuestThread
<1>8. target'[h] = n /\ ~zombie'[n] /\ ~zombie'[h]
  BY <1>1, <1>2, <1>6, SelectFact DEF BatonInv, TypeOK
<1>9. BatonIsTaken'
  BY <1>1, <1>5, <1>8, SelectFact DEF BatonIsTaken
<1>10. OneHostPerContext'
  <2>1. ASSUME NEW y \in Ctx, by_ctx'[y] # Null
        PROVE  ctx'[by_ctx'[y]] = y /\ ~zombie'[by_ctx'[y]]
    <3>1. CASE y = x
      BY <1>1, <1>6, <1>8, <3>1 DEF BatonInv, TypeOK
    <3>2. CASE y # x
      <4>1. by_ctx'[y] = by_ctx[y] /\ by_ctx[y] \in Host /\ ctx[by_ctx[y]] = y /\ ~zombie[by_ctx[y]]
        BY <1>6, <2>1, <3>2 DEF BatonInv, TypeOK, OneHostPerContext
      <4>2. by_ctx[y] # n /\ by_ctx[y] # o
        BY <1>1, <1>2, <3>2, <4>1, GuestThreadsAssumption
      <4>3. QED
        BY <1>1, <1>2, <1>6, <4>1, <4>2 DEF BatonInv, TypeOK
    <3>3. QED
      BY <3>1, <3>2
  <2>2. ASSUME NEW g \in Host, ctx'[g] # Null
        PROVE  by_ctx'[ctx'[g]] = g \/ zombie'[g]
    BY <1>1, <1>2, <1>6, <2>2, GuestThreadsAssumption DEF BatonInv, TypeOK, OneHostPerContext, o
  <2>3. QED
    BY <2>1, <2>2 DEF OneHostPerContext
<1>11. ctx'[MainHost] # Null
  BY <1>1, <1>6, SelectFact, GuestThreadsAssumption DEF BatonInv, TypeOK
<1>12. BeforeAdoption'
  <2>1. ASSUME NEW g \in Host, ctx'[g] = Null, pc'[g] # "unborn"
        PROVE  g = MainHost
    <3>1. g # n /\ ctx[g] = Null
      BY <1>1, <1>6, <2>1, GuestThreadsAssumption DEF BatonInv, TypeOK
    <3>2. pc[g] # "unborn"
      BY <1>5, <2>1, <3>1 DEF Executing
    <3>3. QED
      BY <3>1, <3>2 DEF BatonInv, BeforeAdoption
  <2>2. QED
    BY <1>11, <2>1 DEF BeforeAdoption
<1>13. \A g \in Host : pc'[g] = "unborn" => ctx'[g] = Null /\ ~zombie'[g]
  BY <1>1, <1>2, <1>5, <1>6 DEF BatonInv, TypeOK
<1>14. \A g \in Host : pc'[g] = "gone" => zombie'[g]
  <2>1. ASSUME NEW g \in Host, pc'[g] = "gone"
        PROVE  zombie[g] /\ (zombie[g] => zombie'[g])
    BY <1>2, <1>5, <1>6, <2>1 DEF BatonInv, TypeOK
  <2>2. QED
    BY <2>1
<1>15. QED
  BY <1>5, <1>6, <1>7, <1>9, <1>10, <1>12, <1>13, <1>14, GuestThreadsAssumption DEF BatonInv

\* Handing the baton to the host thread found for x keeps the invariant.
LEMMA LoadCarriedInv ==
  ASSUME BatonInv, NEW h \in Host, NEW x \in Ctx, Executing(h), Top(stack[h]) = "select",
         x # ctx[h], LoadCarried(h, x), TypeOK',
         UNCHANGED running
  PROVE  BatonInv'
<1>1. CASE by_ctx[x] = Null
  <2>1. pc' = pc /\ UNCHANGED <<fresh, zombie, ctx, by_ctx>> /\ target' = [target EXCEPT ![h] = Null]
    BY <1>1 DEF LoadCarried
  <2>2. QED
    BY <2>1, SelectFact DEF BatonInv, TypeOK, OneGuestThread, BatonIsTaken, OneHostPerContext, BeforeAdoption
<1>2. CASE by_ctx[x] # Null
  <2> DEFINE t == by_ctx[x]
  <2>1. t \in Host \ {h} /\ ~zombie[t] /\ ctx[t] = x
    BY <1>2 DEF BatonInv, TypeOK, OneHostPerContext
  <2>2. pc[t] \in {"waiting", "asleep"}
    BY <2>1, SelectFact, GuestThreadsAssumption DEF BatonInv, TypeOK, PC
  <2>3. /\ pc' = [pc EXCEPT ![h] = "handing"]
        /\ target' = [target EXCEPT ![h] = t]
        /\ UNCHANGED <<fresh, zombie, ctx, by_ctx>>
    BY <1>2 DEF LoadCarried
  <2> HIDE DEF t
  <2>4. OneGuestThread' /\ BatonIsTaken'
    BY <2>1, <2>2, <2>3, SelectFact DEF BatonInv, TypeOK, OneGuestThread, BatonIsTaken
  <2>5. OneHostPerContext' /\ BeforeAdoption'
    BY <2>3, SelectFact DEF BatonInv, TypeOK, OneHostPerContext, BeforeAdoption
  <2>6. QED
    BY <2>3, <2>4, <2>5, SelectFact DEF BatonInv, TypeOK
<1>3. QED
  BY <1>1, <1>2

LEMMA SelectThreadInv ==
  ASSUME BatonInv, NEW h \in Host, NEW x \in Ctx, SelectThread(h, x)
  PROVE  BatonInv'
<1>1. Executing(h) /\ Top(stack[h]) = "select" /\ LoadContext(h, x) /\ UNCHANGED running
  BY DEF SelectThread, LoadContext
<1>2. /\ tstate' \in [Ctx -> TState] /\ exc' \in SUBSET Ctx
      /\ current' \in Ctx \cup {Null} /\ context' \in Ctx \cup {Idle}
  BY <1>1 DEF BatonInv, TypeOK, TState, SelectThread, LoadContext
<1>3. CASE LoadReturns(h, x)
  <2>1. /\ stack' = [stack EXCEPT ![h] = Pop(stack[h])]
        /\ died' \in BOOLEAN
        /\ UNCHANGED <<fresh, zombie, ctx, by_ctx, target, pc>>
    BY <1>1, <1>3 DEF LoadContext
  <2>2. TypeOK'
    BY <1>1, <1>2, <2>1, PopType DEF BatonInv, TypeOK
  <2>3. QED
    BY <1>1, <2>1, <2>2, SelectFact, HostUnchanged DEF BatonInv, BeforeAdoption
<1>4. CASE ~LoadReturns(h, x) /\ x \in fresh
  <2>1. LoadFresh(h, x) /\ x # ctx[h]
    BY <1>1, <1>4 DEF LoadContext, LoadOther, LoadReturns
  <2>2. NewHost \in Host
    BY <2>1, NewHostFact DEF LoadFresh
  <2>3. <<"code">> \in Seq(Frame)
    BY DEF Frame, Call
  <2>4. pc' \in [Host -> PC]
    <3> DEFINE p == IF by_ctx[x] = Null THEN pc ELSE Notify(pc, by_ctx[x])
    <3>1. TypeOK /\ by_ctx[x] \in Host \cup {Null}
      BY DEF BatonInv, TypeOK
    <3>2. p \in [Host -> PC]
      BY <3>1, RetiredWakes
    <3>3. pc' = [p EXCEPT ![h] = "handing", ![NewHost] = "waiting"]
      BY <2>1 DEF LoadFresh
    <3> HIDE DEF p
    <3>4. QED
      BY <3>2, <3>3 DEF PC
  <2>5. TypeOK'
    BY <1>1, <1>2, <2>1, <2>2, <2>3, <2>4 DEF BatonInv, TypeOK, LoadFresh, Carry, Register, Retire
  <2>6. QED
    BY <1>1, <1>4, <2>1, <2>5, LoadFreshInv
<1>5. CASE ~LoadReturns(h, x) /\ x \notin fresh
  <2>1. LoadCarried(h, x) /\ x # ctx[h]
    BY <1>1, <1>5 DEF LoadContext, LoadOther, LoadReturns
  <2>2. TypeOK'
    BY <1>1, <1>2, <2>1 DEF BatonInv, TypeOK, LoadCarried, PC
  <2>3. QED
    BY <1>1, <2>1, <2>2, LoadCarriedInv
<1>6. QED
  BY <1>3, <1>4, <1>5

-----------------------------------------------------------------------------
LEMMA NextInv == BatonInv /\ [Next]_vars => BatonInv'
<1> SUFFICES ASSUME BatonInv, [Next]_vars PROVE BatonInv'
  OBVIOUS
<1>1. CASE UNCHANGED vars
  BY <1>1 DEF vars, hostVars, guestVars, BatonInv, TypeOK, OneGuestThread, BatonIsTaken,
              OneHostPerContext, BeforeAdoption
<1>2. CASE Next
  BY <1>2, AcquireInv, SpuriousWakeInv, PassToInv, YieldInv, ExitThreadInv,
     HandlerReschedulesInv, DeliverInv, HandlerReturnsInv, SelectThreadInv,
     CreateThreadInv, WakeupInv, StopInv DEF Next
<1>3. QED
  BY <1>1, <1>2

\* Every reachable state satisfies the inductive invariant.
THEOREM BatonInvariant == Spec => []BatonInv
<1>1. QED
  BY InitInv, NextInv, PTL DEF Spec

\* Every variable keeps its type.
THEOREM TypeCorrect == Spec => []TypeOK
<1>1. BatonInv => TypeOK
  BY DEF BatonInv
<1>2. QED
  BY <1>1, BatonInvariant, PTL

\* One guest thread runs at a time, and the baton is never lost to a host
\* thread that will not take it (os.cpp 11, 80-91).
THEOREM MutualExclusion == Spec => [](OneGuestThread /\ BatonIsTaken)
<1>1. BatonInv => OneGuestThread /\ BatonIsTaken
  BY DEF BatonInv
<1>2. QED
  BY <1>1, BatonInvariant, PTL

\* A context is carried by one host thread that was not retired, the one the
\* table finds (os.cpp 161-168, 183-198).
THEOREM TablesAgree == Spec => []OneHostPerContext
<1>1. BatonInv => OneHostPerContext
  BY DEF BatonInv
<1>2. QED
  BY <1>1, BatonInvariant, PTL
-----------------------------------------------------------------------------
(* What is on the host threads' stacks.                                    *)

\* A push undone.
LEMMA PushPop ==
  ASSUME NEW S, NEW s \in Seq(S), NEW e
  PROVE  Top(Append(s, e)) = e /\ Pop(Append(s, e)) = s
<1> DEFINE a == Append(s, e)
           T == S \cup {e}
<1>1. a \in Seq(T) /\ Len(a) = Len(s) + 1 /\ a[Len(s) + 1] = e /\ s \in Seq(T)
  OBVIOUS
<1>2. \A i \in 1..Len(s) : a[i] = s[i]
  OBVIOUS
<1>3. Pop(a) \in Seq(T) /\ Len(Pop(a)) = Len(s) /\ \A i \in 1..Len(s) : Pop(a)[i] = a[i]
  BY <1>1 DEF Pop
<1>4. Pop(a) = s
  <2> HIDE DEF a
  <2>1. QED
    BY <1>1, <1>2, <1>3, SeqEqual
<1>5. QED
  BY <1>1, <1>4 DEF Top

\* A tuple is its first elements with the last one pushed.
LEMMA PushIs ==
  ASSUME NEW S, NEW s \in Seq(S), NEW t \in Seq(S), Len(t) = Len(s) + 1,
         \A i \in 1..Len(s) : t[i] = s[i]
  PROVE  t = Append(s, t[Len(t)])
<1> DEFINE a == Append(s, t[Len(t)])
<1>1. a \in Seq(S) /\ Len(a) = Len(t) /\ \A i \in 1..Len(t) : a[i] = t[i]
  OBVIOUS
<1> HIDE DEF a
<1>2. QED
  BY <1>1, SeqEqual

LEMMA Push2 ==
  ASSUME NEW d, NEW e
  PROVE  /\ Append(<<d>>, e) = <<d, e>>
         /\ Top(<<d, e>>) = e /\ Pop(<<d, e>>) = <<d>>
<1> DEFINE S == {d, e}
           t == <<d, e>>
           s == <<d>>
<1>1. t \in Seq(S) /\ s \in Seq(S) /\ Len(t) = 2 /\ Len(s) = 1 /\ t[2] = e
  OBVIOUS
<1>2. t[1] = s[1]
  OBVIOUS
<1>3. t = Append(s, e)
  <2> HIDE DEF t, s, S
  <2>1. \A i \in 1..Len(s) : t[i] = s[i]
    BY <1>1, <1>2
  <2>2. Len(t) = Len(s) + 1
    BY <1>1
  <2>3. t = Append(s, t[Len(t)])
    BY ONLY <1>1, <2>1, <2>2, PushIs
  <2>4. QED
    BY <1>1, <2>3
<1>4. Top(Append(s, e)) = e /\ Pop(Append(s, e)) = s
  <2> HIDE DEF t, s, S
  <2>1. QED
    BY <1>1, PushPop
<1>5. QED
  BY <1>3, <1>4

LEMMA Push3 ==
  ASSUME NEW c, NEW d, NEW e
  PROVE  /\ Append(<<c, d>>, e) = <<c, d, e>>
         /\ Top(<<c, d, e>>) = e /\ Pop(<<c, d, e>>) = <<c, d>>
<1> DEFINE S == {c, d, e}
           t == <<c, d, e>>
           s == <<c, d>>
<1>1. t \in Seq(S) /\ s \in Seq(S) /\ Len(t) = 3 /\ Len(s) = 2 /\ t[3] = e
  OBVIOUS
<1>2. t[1] = s[1] /\ t[2] = s[2]
  OBVIOUS
<1>3. t = Append(s, e)
  <2> HIDE DEF t, s, S
  <2>1. \A i \in 1..Len(s) : t[i] = s[i]
    BY <1>1, <1>2
  <2>2. Len(t) = Len(s) + 1
    BY <1>1
  <2>3. t = Append(s, t[Len(t)])
    BY ONLY <1>1, <2>1, <2>2, PushIs
  <2>4. QED
    BY <1>1, <2>3
<1>4. Top(Append(s, e)) = e /\ Pop(Append(s, e)) = s
  <2> HIDE DEF t, s, S
  <2>1. QED
    BY <1>1, PushPop
<1>5. QED
  BY <1>3, <1>4

LEMMA Push4 ==
  ASSUME NEW b, NEW c, NEW d, NEW e
  PROVE  /\ Append(<<b, c, d>>, e) = <<b, c, d, e>>
         /\ Top(<<b, c, d, e>>) = e /\ Pop(<<b, c, d, e>>) = <<b, c, d>>
<1> DEFINE S == {b, c, d, e}
           t == <<b, c, d, e>>
           s == <<b, c, d>>
<1>1. t \in Seq(S) /\ s \in Seq(S) /\ Len(t) = 4 /\ Len(s) = 3 /\ t[4] = e
  OBVIOUS
<1>2. t[1] = s[1] /\ t[2] = s[2] /\ t[3] = s[3]
  OBVIOUS
<1>3. t = Append(s, e)
  <2> HIDE DEF t, s, S
  <2>1. \A i \in 1..Len(s) : t[i] = s[i]
    BY <1>1, <1>2
  <2>2. Len(t) = Len(s) + 1
    BY <1>1
  <2>3. t = Append(s, t[Len(t)])
    BY ONLY <1>1, <2>1, <2>2, PushIs
  <2>4. QED
    BY <1>1, <2>3
<1>4. Top(Append(s, e)) = e /\ Pop(Append(s, e)) = s
  <2> HIDE DEF t, s, S
  <2>1. QED
    BY <1>1, PushPop
<1>5. QED
  BY <1>3, <1>4

\* The stack of a host thread that executes its thread's code,
LEMMA CodeFact ==
  /\ Top(<<"code">>) = "code" /\ <<"code">> # <<>> /\ <<"code">> \notin Exiting
  /\ Append(Append(Pop(<<"code">>), "exit"), "select") = <<"exit", "select">>
  /\ Append(<<"code">>, "select") = <<"code", "select">>
  /\ \A c : Append(<<"code">>, c) = <<"code", c>>
<1>1. Pop(<<"code">>) = <<>>
  <2>1. <<>> \in Seq({"code"}) /\ Append(<<>>, "code") = <<"code">>
    OBVIOUS
  <2>2. QED
    BY <2>1, PushPop
<1>2. Append(Pop(<<"code">>), "exit") = <<"exit">>
  BY <1>1
<1>3. Top(<<"code">>) = "code" /\ <<"code">> # <<>> /\ <<"code">> \notin Exiting
  BY DEF Top, Exiting
<1>4. QED
  BY <1>2, <1>3, Push2

\* ... a handler that interrupted it,
LEMMA HandlerFact ==
  ASSUME NEW c
  PROVE  /\ Top(<<"code", c>>) = c /\ Pop(<<"code", c>>) = <<"code">>
         /\ Append(<<"code", c>>, "select") \in Selecting(c)
         /\ <<"code", c>> # <<"code">> /\ <<"code", c>> \notin Exiting
         /\ Append(<<"code", c>>, "select") \notin Exiting
<1>1. Top(<<"code", c>>) = c /\ Pop(<<"code", c>>) = <<"code">>
  BY Push2
<1>2. Append(<<"code", c>>, "select") = <<"code", c, "select">>
  BY Push3
<1>3. <<"code", c>> # <<"code">> /\ <<"code", c>> \notin Exiting
  BY DEF Exiting
<1>4. <<"code", c, "select">> \notin Exiting /\ <<"code", c, "select">> \in Selecting(c)
  BY DEF Exiting, Selecting
<1>5. QED
  BY <1>1, <1>2, <1>3, <1>4

LEMMA DeepestFact ==
  ASSUME NEW c
  PROVE  /\ Append(<<"code", c, "select">>, Idle) = <<"code", c, "select", Idle>>
         /\ Top(<<"code", c, "select", Idle>>) = Idle
         /\ Pop(<<"code", c, "select", Idle>>) = <<"code", c, "select">>
BY ONLY Push4, Zenon

\* ... SelectThread,
LEMMA SelectingFact ==
  ASSUME NEW c, NEW s \in Selecting(c)
  PROVE  /\ Top(s) = "select"
         /\ Pop(s) \in {<<"code">>, <<"code", c>>, <<"exit">>}
         /\ s \in Exiting <=> Pop(s) = <<"exit">>
         /\ s # <<"code">> /\ (s = <<"code", c>> => c = "select")
         /\ Append(s, Idle) \in Idling(c)
         /\ Append(s, Idle) \in Exiting <=> s \in Exiting
<1>1. CASE s = <<"code", "select">>
  <2>1. Top(s) = "select" /\ Pop(s) = <<"code">>
    BY <1>1, Push2
  <2>2. Append(s, Idle) = <<"code", "select", Idle>>
    BY <1>1, Push3
  <2>3. s # <<"code">> /\ (s = <<"code", c>> => c = "select")
    BY <1>1
  <2>4. QED
    BY <1>1, <2>1, <2>2, <2>3 DEF Exiting, Idling
<1>2. CASE s = <<"code", c, "select">>
  <2>1. Top(s) = "select" /\ Pop(s) = <<"code", c>>
    BY <1>2, Push3
  <2>2. Append(s, Idle) = <<"code", c, "select", Idle>>
    BY <1>2, DeepestFact
  <2>3. s # <<"code">> /\ (s = <<"code", c>> => c = "select")
    BY <1>2
  <2>4. QED
    BY <1>2, <2>1, <2>2, <2>3 DEF Exiting, Idling
<1>3. CASE s = <<"exit", "select">>
  <2>1. Top(s) = "select" /\ Pop(s) = <<"exit">>
    BY <1>3, Push2
  <2>2. Append(s, Idle) = <<"exit", "select", Idle>>
    BY <1>3, Push3
  <2>3. s # <<"code">> /\ (s = <<"code", c>> => c = "select")
    BY <1>3
  <2>4. QED
    BY <1>3, <2>1, <2>2, <2>3 DEF Exiting, Idling
<1>4. QED
  BY <1>1, <1>2, <1>3 DEF Selecting

\* ... and a handler that interrupted SelectThread's idle loop.
LEMMA IdlingFact ==
  ASSUME NEW c, NEW s \in Idling(c)
  PROVE  /\ Top(s) = Idle
         /\ Pop(s) \in Selecting(c)
         /\ Pop(s) \in Exiting <=> s \in Exiting
         /\ s # <<"code">> /\ s # <<"code", c>>
<1>1. CASE s = <<"code", "select", Idle>>
  <2>1. Top(s) = Idle /\ Pop(s) = <<"code", "select">>
    BY <1>1, Push3
  <2>2. s # <<"code">> /\ s # <<"code", c>>
    BY <1>1
  <2>3. QED
    BY <1>1, <2>1, <2>2 DEF Exiting, Selecting
<1>2. CASE s = <<"code", c, "select", Idle>>
  <2>1. Top(s) = Idle /\ Pop(s) = <<"code", c, "select">>
    BY <1>2, DeepestFact
  <2>2. s # <<"code">> /\ s # <<"code", c>>
    BY <1>2
  <2>3. QED
    BY <1>2, <2>1, <2>2 DEF Exiting, Selecting
<1>3. CASE s = <<"exit", "select", Idle>>
  <2>1. Top(s) = Idle /\ Pop(s) = <<"exit", "select">>
    BY <1>3, Push3
  <2>2. s # <<"code">> /\ s # <<"code", c>>
    BY <1>3
  <2>3. QED
    BY <1>3, <2>1, <2>2 DEF Exiting, Selecting
<1>4. QED
  BY <1>1, <1>2, <1>3 DEF Idling

\* A host thread that was not retired is the only one that carries its thread.
LEMMA OnlyCarrier ==
  ASSUME BatonInv, NEW g \in Host, NEW h \in Host, h = running,
         ~zombie[g], ctx[g] = Carried(h)
  PROVE  g = h
<1>1. CASE ctx[h] = Null
  <2>1. h = MainHost /\ by_ctx[Main] = Null
    BY <1>1 DEF BatonInv, BatonIsTaken, BeforeAdoption
  <2>2. ctx[g] = Main /\ Main # Null
    BY <1>1, GuestThreadsAssumption DEF Carried
  <2>3. by_ctx[Main] = g
    BY <2>2 DEF BatonInv, OneHostPerContext
  <2>4. QED
    BY <2>1, <2>3, GuestThreadsAssumption
<1>2. CASE ctx[h] # Null
  <2>1. ctx[g] = ctx[h] /\ ~zombie[h]
    BY <1>2 DEF Carried, BatonInv, BatonIsTaken
  <2>2. by_ctx[ctx[g]] = g /\ by_ctx[ctx[h]] = h
    BY <1>2, <2>1 DEF BatonInv, OneHostPerContext
  <2>3. QED
    BY <2>1, <2>2
<1>3. QED
  BY <1>1, <1>2

\* A host thread in SelectThread or in a handler carries a thread.
LEMMA CarriesFact ==
  ASSUME BatonInv, Shapes, NEW g \in Host, stack[g] # <<"code">>, ~zombie[g]
  PROVE  ctx[g] \in Ctx
<1>1. pc[g] # "unborn" /\ pc[g] # "gone"
  BY DEF BatonInv, Shapes
<1>2. QED
  BY <1>1, GuestThreadsAssumption DEF BatonInv, TypeOK, BeforeAdoption

\* Where the host thread that executes is, by the innermost call on its stack.
LEMMA RunningFact ==
  ASSUME StackInv, NEW h \in Host, Executing(h)
  PROVE  /\ Top(stack[h]) = "code" => stack[h] = <<"code">>
         /\ Top(stack[h]) = "select" =>
              stack[h] \in Selecting(ctx[h]) /\ ctx[h] \in Ctx /\ current = Null
         /\ InHandler(h) =>
              /\ ctx[h] \in Ctx
              /\ \/ stack[h] = <<"code", ctx[h]>> /\ Interrupted(h) = ctx[h] /\ current = ctx[h]
                 \/ stack[h] \in Idling(ctx[h]) /\ Interrupted(h) = Idle /\ current = Null
<1> DEFINE c == ctx[h]
<1>1. pc[h] = "guest" /\ running = h /\ ~zombie[h]
  BY ExecutingFact DEF StackInv, Executing
<1>2. stack[h] \in {<<"code">>, <<"code", c>>} \cup Selecting(c) \cup Idling(c)
  BY <1>1 DEF StackInv, Shapes
<1>3. stack[h] # <<"code">> => c \in Ctx
  BY <1>1, CarriesFact DEF StackInv
<1>a. (Ctx \cup {Idle}) \cap {"code", "exit", "select"} = {} /\ Idle \notin Ctx
  BY GuestThreadsAssumption DEF Call
<1>4. CASE stack[h] = <<"code">>
  BY <1>4, <1>a, CodeFact DEF InHandler
<1>5. CASE stack[h] = <<"code", c>> /\ c \in Ctx
  <2>1. Top(stack[h]) = c
    BY <1>5, HandlerFact
  <2>2. current = c
    BY <1>1, <1>5 DEF StackInv, CurrentCarried
  <2>3. QED
    BY <1>5, <1>a, <2>1, <2>2 DEF Interrupted
<1>6. CASE stack[h] \in Selecting(c) /\ c \in Ctx
  <2>1. Top(stack[h]) = "select" /\ stack[h] # <<"code">> /\ stack[h] # <<"code", c>>
    BY <1>6, <1>a, SelectingFact
  <2>2. current = Null
    BY <1>1, <2>1 DEF StackInv, CurrentCarried
  <2>3. QED
    BY <1>6, <1>a, <2>1, <2>2 DEF InHandler
<1>7. CASE stack[h] \in Idling(c) /\ c \in Ctx
  <2>1. Top(stack[h]) = Idle /\ stack[h] # <<"code">> /\ stack[h] # <<"code", c>>
    BY <1>7, IdlingFact
  <2>2. current = Null
    BY <1>1, <2>1 DEF StackInv, CurrentCarried
  <2>3. QED
    BY <1>7, <1>a, <2>1, <2>2 DEF Interrupted
<1>8. stack[h] # <<"code">> \/ stack[h] = <<"code">>
  OBVIOUS
<1>9. QED
  BY <1>2, <1>3, <1>4, <1>5, <1>6, <1>7, <1>8

\* What the conjuncts of CurrentCarried ask of a step of guest code that leaves
\* the baton where it is, on h.
GuestStack(h) ==
  /\ stack[h] \in {<<"code">>, <<"code", ctx[h]>>} \cup Selecting(ctx[h]) \cup Idling(ctx[h])
  /\ stack[h] \in Exiting /\ ctx[h] \notin fresh => tstate[ctx[h]] = "dead"
  /\ stack[h] = <<"code">> =>
       current = Carried(h) /\ context = current /\ tstate[current] = "running"
  /\ stack[h] = <<"code", ctx[h]>> => current = ctx[h]
  /\ stack[h] \notin {<<"code">>, <<"code", ctx[h]>>} => current = Null

LEMMA GuestStackFact ==
  ASSUME StackInv, NEW h \in Host, Executing(h)
  PROVE  GuestStack(h)
<1>1. pc[h] = "guest" /\ running = h /\ ~zombie[h]
  BY ExecutingFact DEF StackInv, Executing
<1>2. QED
  BY <1>1 DEF StackInv, GuestStack, Shapes, ExitedDead, CurrentCarried

\* A step of guest code that leaves the baton where it is.
LEMMA GuestStepInv ==
  ASSUME StackInv, BatonInv', NEW h \in Host, Executing(h), ~died',
         UNCHANGED <<running, zombie, pc>>,
         \A g \in Host \ {h} : stack'[g] = stack[g] /\ ctx'[g] = ctx[g],
         GuestStack(h)',
         fresh \subseteq fresh', Carried(h)' \notin fresh',
         \A x \in Ctx : tstate[x] = "dead" /\ x # Carried(h) => tstate'[x] = "dead" \/ x \in fresh',
         \A x \in Ctx : tstate[x] = "none" => tstate'[x] = "none" \/ x \in fresh',
         \A x \in Ctx : by_ctx'[x] = Null => by_ctx[x] = Null,
         by_ctx'[Main] = Null => ctx'[MainHost] = Null
  PROVE  StackInv'
<1>1. pc[h] = "guest" /\ running = h /\ ~zombie[h]
  BY ExecutingFact DEF StackInv, Executing
<1>2. Shapes'
  BY <1>1 DEF StackInv, Shapes, GuestStack
<1>3. ExitedDead'
  <2> SUFFICES ASSUME NEW g \in Host, ~zombie[g], stack'[g] \in Exiting, ctx'[g] \notin fresh'
               PROVE  tstate'[ctx'[g]] = "dead"
    BY DEF ExitedDead, Exiting
  <2>1. CASE g = h
    BY <2>1 DEF GuestStack, Exiting
  <2>2. CASE g # h
    <3>1. stack[g] \in Exiting /\ ctx'[g] = ctx[g] /\ ctx[g] \notin fresh
      BY <2>2
    <3>2. ctx[g] \in Ctx
      BY <3>1, CarriesFact, CodeFact DEF StackInv
    <3>3. ctx[g] # Carried(h)
      BY <1>1, <2>2, OnlyCarrier DEF StackInv
    <3>4. tstate[ctx[g]] = "dead"
      BY <3>1 DEF StackInv, ExitedDead
    <3>5. QED
      BY <3>1, <3>2, <3>3, <3>4
  <2>3. QED
    BY <2>1, <2>2
<1>4. StartedCarried'
  BY GuestThreadsAssumption DEF StackInv, StartedCarried
<1>5. CurrentCarried'
  BY <1>1 DEF CurrentCarried, GuestStack
<1>6. QED
  BY <1>2, <1>3, <1>4, <1>5 DEF StackInv, NeverDies

\* Adopting the thread a host thread runs, of which it is the carrier.
LEMMA AdoptCarried ==
  ASSUME StackInv, NEW h \in Host, Executing(h), NEW x \in Ctx, x = Carried(h), Adopt(h, x)
  PROVE  /\ ctx'[h] = x /\ \A g \in Host \ {h} : ctx'[g] = ctx[g]
         /\ \A y \in Ctx : by_ctx'[y] = Null => by_ctx[y] = Null
         /\ \A y \in Ctx \ {x} : by_ctx'[y] = by_ctx[y]
         /\ by_ctx'[Main] = Null => ctx'[MainHost] = Null
         /\ ~died'
<1> USE GuestThreadsAssumption
<1>1. CASE ctx[h] = Null
  <2>1. h = MainHost /\ x = Main
    BY <1>1, ExecutingFact DEF StackInv, Carried
  <2>2. ctx' = [ctx EXCEPT ![h] = x] /\ by_ctx' = [by_ctx EXCEPT ![x] = h] /\ ~died'
    BY <1>1 DEF Adopt, Carry, Register
  <2>3. ctx \in [Host -> Ctx \cup {Null}] /\ by_ctx \in [Ctx -> Host \cup {Null}]
    BY DEF StackInv, BatonInv, TypeOK
  <2>4. QED
    BY <2>1, <2>2, <2>3
<1>2. CASE ctx[h] # Null
  <2>1. ctx' = ctx /\ by_ctx' = by_ctx /\ x = ctx[h] /\ ~died'
    BY <1>2 DEF Adopt, Carried
  <2>2. QED
    BY <2>1 DEF StackInv, StartedCarried
<1>3. QED
  BY <1>1, <1>2

\* SelectThread, up to its choice, of a thread that is current.
LEMMA RescheduleStack ==
  ASSUME StackInv, BatonInv', NEW h \in Host, Executing(h), current = Carried(h),
         NEW s \in [Ctx -> TState], NEW base \in Seq(Frame), Reschedule(h, s, base),
         \A x \in Ctx \ {current} : s[x] = tstate[x],
         tstate[current] = "none" => s[current] = "none",
         Append(base, "select") \in Selecting(current),
         Append(base, "select") \in Exiting => s[current] = "dead"
  PROVE  StackInv'
<1>1. running = h /\ pc[h] = "guest" /\ current \in Ctx
  BY RescheduledFact DEF StackInv, Executing
<1>2. /\ ctx'[h] = current /\ \A g \in Host \ {h} : ctx'[g] = ctx[g]
      /\ \A y \in Ctx : by_ctx'[y] = Null => by_ctx[y] = Null
      /\ by_ctx'[Main] = Null => ctx'[MainHost] = Null
      /\ ~died'
  <2>1. CASE current \in exc
    <3>1. UNCHANGED <<ctx, by_ctx, died>>
      BY <2>1 DEF Reschedule
    <3>2. ctx[h] # Null
      BY <1>1, <2>1, ExecutingFact DEF StackInv, BatonInv, BeforeAdoption
    <3>3. QED
      BY <3>1, <3>2 DEF StackInv, StartedCarried, NeverDies, Carried
  <2>2. CASE current \notin exc
    <3>1. Adopt(h, current)
      BY <2>2 DEF Reschedule
    <3>2. QED
      BY <1>1, <3>1, AdoptCarried
  <2>3. QED
    BY <2>1, <2>2
<1>3. /\ stack' = [stack EXCEPT ![h] = Append(base, "select")]
      /\ tstate' = IF s[current] = "running" THEN [s EXCEPT ![current] = "ready"] ELSE s
      /\ current' = Null /\ UNCHANGED <<running, fresh, zombie, pc>>
  BY DEF Reschedule
<1>4. stack'[h] = Append(base, "select") /\ \A g \in Host \ {h} : stack'[g] = stack[g]
  BY <1>3 DEF StackInv, BatonInv, TypeOK
<1>5. /\ \A x \in Ctx \ {current} : tstate'[x] = tstate[x]
      /\ s[current] = "dead" => tstate'[current] = "dead"
      /\ s[current] = "none" => tstate'[current] = "none"
  BY <1>1, <1>3
<1>6. Carried(h)' = Carried(h) /\ Carried(h) \notin fresh
  BY <1>1, <1>2, GuestThreadsAssumption DEF Carried, StackInv, CurrentCarried
<1>7. GuestStack(h)'
  <2>1. stack'[h] \in Selecting(current) /\ current # "select"
    BY <1>1, <1>4, GuestThreadsAssumption DEF Call
  <2>2. stack'[h] # <<"code">> /\ stack'[h] # <<"code", current>>
    BY <2>1, SelectingFact
  <2>3. QED
    BY <1>2, <1>3, <1>4, <1>5, <2>1, <2>2 DEF GuestStack, Exiting
<1>8. QED
  BY <1>2, <1>3, <1>4, <1>5, <1>6, <1>7, GuestStepInv

LEMMA YieldStack ==
  ASSUME StackInv, BatonInv', NEW h \in Host, Yield(h)
  PROVE  StackInv'
<1>1. PICK s \in {"running", "suspended"} :
        Reschedule(h, [tstate EXCEPT ![current] = s], stack[h])
  BY DEF Yield
<1> DEFINE t == [tstate EXCEPT ![current] = s]
<1>2. Executing(h) /\ stack[h] = <<"code">>
  BY RunningFact DEF Yield
<1>3. current = Carried(h) /\ tstate[current] # "none"
  BY <1>2, GuestStackFact DEF GuestStack
<1>4. /\ t \in [Ctx -> TState] /\ stack[h] \in Seq(Frame)
      /\ \A x \in Ctx \ {current} : t[x] = tstate[x]
  BY <1>1, <1>2, RescheduledFact DEF TState, StackInv
<1>5. Append(stack[h], "select") \in Selecting(current) /\ Append(stack[h], "select") \notin Exiting
  BY <1>2, CodeFact DEF Selecting, Exiting
<1>6. Reschedule(h, t, stack[h])
  BY <1>1
<1> HIDE DEF t
<1>7. QED
  BY <1>2, <1>3, <1>4, <1>5, <1>6, RescheduleStack

LEMMA ExitThreadStack ==
  ASSUME StackInv, BatonInv', NEW h \in Host, ExitThread(h)
  PROVE  StackInv'
<1> DEFINE t == [tstate EXCEPT ![current] = "dead"]
           base == Append(Pop(stack[h]), "exit")
<1>1. Reschedule(h, t, base)
  BY DEF ExitThread
<1>2. Executing(h) /\ stack[h] = <<"code">>
  BY RunningFact DEF ExitThread
<1>3. current = Carried(h) /\ tstate[current] # "none"
  BY <1>2, GuestStackFact DEF GuestStack
<1>4. /\ t \in [Ctx -> TState] /\ current \in Ctx /\ stack[h] \in Seq(Frame)
      /\ t[current] = "dead" /\ \A x \in Ctx \ {current} : t[x] = tstate[x]
  BY <1>1, <1>2, RescheduledFact DEF TState, StackInv
<1>5. base \in Seq(Frame)
  BY <1>4, PopType DEF Frame, Call
<1>6. Append(base, "select") = <<"exit", "select">>
  BY <1>2, CodeFact
<1>7. Append(base, "select") \in Selecting(current)
  BY <1>6 DEF Selecting
<1> HIDE DEF t, base
<1>8. QED
  BY <1>1, <1>2, <1>3, <1>4, <1>5, <1>7, RescheduleStack

LEMMA HandlerReschedulesStack ==
  ASSUME StackInv, BatonInv', NEW h \in Host, HandlerReschedules(h)
  PROVE  StackInv'
<1>1. Executing(h) /\ InHandler(h) /\ current # Null /\ Reschedule(h, tstate, stack[h])
  BY DEF HandlerReschedules
<1>2. stack[h] = <<"code", ctx[h]>> /\ current = ctx[h] /\ ctx[h] \in Ctx
  BY <1>1, RunningFact
<1>3. current = Carried(h)
  BY <1>2, GuestThreadsAssumption DEF Carried
<1>4. Append(stack[h], "select") \in Selecting(current) /\ Append(stack[h], "select") \notin Exiting
  BY <1>2, HandlerFact
<1>5. stack[h] \in Seq(Frame) /\ tstate \in [Ctx -> TState]
  BY <1>1, RescheduledFact DEF StackInv
<1>6. QED
  BY <1>1, <1>3, <1>4, <1>5, RescheduleStack

LEMMA CreateThreadStack ==
  ASSUME ~RecreateOwn, StackInv, BatonInv', NEW h \in Host, NEW x \in Ctx, CreateThread(h, x)
  PROVE  StackInv'
<1>1. Executing(h) /\ x # Carried(h)
  BY DEF CreateThread, GuestCode, Carried
<1>2. /\ tstate' = [tstate EXCEPT ![x] = "suspended"] /\ fresh' = fresh \cup {x}
      /\ UNCHANGED <<running, by_ctx, ctx, zombie, pc, stack, died, current, context>>
  BY DEF CreateThread
<1>3. /\ \A y \in Ctx \ {x} : tstate'[y] = tstate[y]
      /\ Carried(h)' = Carried(h) /\ Carried(h) \notin fresh /\ Carried(h) \in Ctx
  BY <1>1, <1>2, GuestThreadsAssumption
  DEF StackInv, BatonInv, TypeOK, CurrentCarried, Carried, Executing
<1>4. GuestStack(h)'
  <2>1. GuestStack(h)
    BY <1>1, GuestStackFact
  <2>2. stack[h] \in Exiting => ctx[h] \in Ctx \ {x}
    BY <1>1, CodeFact, CarriesFact, ExecutingFact, GuestThreadsAssumption DEF StackInv, Carried
  <2>3. QED
    BY <1>1, <1>2, <1>3, <2>1, <2>2 DEF GuestStack, Exiting
<1>5. QED
  BY <1>1, <1>2, <1>3, <1>4, GuestStepInv DEF StackInv, StartedCarried, NeverDies

LEMMA WakeupStack ==
  ASSUME StackInv, BatonInv', NEW h \in Host, NEW x \in Ctx, Wakeup(h, x)
  PROVE  StackInv'
<1>1. Executing(h) /\ tstate[x] = "suspended"
  BY DEF Wakeup, GuestCode
<1>2. /\ tstate' = [tstate EXCEPT ![x] = "ready"]
      /\ UNCHANGED <<running, by_ctx, fresh, ctx, zombie, pc, stack, died, current, context>>
  BY DEF Wakeup, hostVars
<1>3. /\ \A y \in Ctx : tstate[y] # "suspended" => tstate'[y] = tstate[y]
      /\ Carried(h)' = Carried(h) /\ Carried(h) \notin fresh /\ Carried(h) \in Ctx
  BY <1>1, <1>2, GuestThreadsAssumption
  DEF StackInv, BatonInv, TypeOK, CurrentCarried, Carried, Executing
<1>4. GuestStack(h)'
  <2>1. GuestStack(h)
    BY <1>1, GuestStackFact
  <2>2. stack[h] \in Exiting => ctx[h] \in Ctx
    BY <1>1, CodeFact, CarriesFact, ExecutingFact DEF StackInv
  <2>3. QED
    BY <1>2, <1>3, <2>1, <2>2 DEF GuestStack, Exiting
<1>5. QED
  BY <1>1, <1>2, <1>3, <1>4, GuestStepInv DEF StackInv, StartedCarried, NeverDies

LEMMA StopStack ==
  ASSUME StackInv, BatonInv', NEW h \in Host, NEW x \in Ctx, Stop(h, x)
  PROVE  StackInv'
<1>1. Executing(h) /\ tstate[x] \in {"ready", "suspended", "running"} /\ (x = current => InHandler(h))
  BY DEF Stop, GuestCode
<1>2. PICK s \in {"suspended", "dead"} : tstate' = [tstate EXCEPT ![x] = s]
  BY DEF Stop
<1>3. UNCHANGED <<running, by_ctx, fresh, ctx, zombie, pc, stack, died, current, context>>
  BY DEF Stop, hostVars
<1>4. /\ \A y \in Ctx \ {x} : tstate'[y] = tstate[y]
      /\ Carried(h)' = Carried(h) /\ Carried(h) \notin fresh /\ Carried(h) \in Ctx
  BY <1>1, <1>2, <1>3, GuestThreadsAssumption
  DEF StackInv, BatonInv, TypeOK, CurrentCarried, Carried, Executing
<1>5. GuestStack(h)'
  <2>1. GuestStack(h)
    BY <1>1, GuestStackFact
  <2>2. stack[h] \in Exiting => ctx[h] \in Ctx
    BY <1>1, CodeFact, CarriesFact, ExecutingFact DEF StackInv
  <2>3. stack[h] = <<"code">> => x # current
    BY <1>1, CodeFact, GuestThreadsAssumption DEF InHandler, Call
  <2>4. QED
    BY <1>1, <1>3, <1>4, <2>1, <2>2, <2>3 DEF GuestStack, Exiting
<1>6. QED
  BY <1>1, <1>3, <1>4, <1>5, GuestStepInv DEF StackInv, StartedCarried, NeverDies

LEMMA DeliverStack ==
  ASSUME StackInv, BatonInv', NEW h \in Host, Deliver(h)
  PROVE  StackInv'
<1>1. /\ Executing(h)
      /\ stack[h] = <<"code">> \/ (stack[h] \in Selecting(ctx[h]) /\ context = Idle /\ ctx[h] \in Ctx)
  BY RunningFact DEF Deliver
<1>2. stack' = [stack EXCEPT ![h] = Append(stack[h], context)]
  BY DEF Deliver
<1>3. stack'[h] = Append(stack[h], context) /\ \A g \in Host \ {h} : stack'[g] = stack[g]
  BY <1>2 DEF StackInv, BatonInv, TypeOK
<1>4. UNCHANGED <<running, fresh, zombie, pc, tstate, current, context>>
  BY DEF Deliver
<1>5. GuestStack(h)
  BY <1>1, GuestStackFact
<1>6. /\ ctx[h] # Null => ctx'[h] = ctx[h]
      /\ ctx[h] = Null => ctx'[h] = Main
      /\ \A g \in Host \ {h} : ctx'[g] = ctx[g]
      /\ \A y \in Ctx : by_ctx'[y] = Null => by_ctx[y] = Null
      /\ by_ctx'[Main] = Null => ctx'[MainHost] = Null
      /\ ~died'
  <2>1. CASE DeliverAdopts(h)
    <3>1. ctx[h] = Null /\ context = Main
      BY <1>1, <2>1, ExecutingFact DEF StackInv, BatonInv, BeforeAdoption, DeliverAdopts
    <3>2. Adopt(h, context) /\ context = Carried(h) /\ context \in Ctx
      BY <2>1, <3>1, GuestThreadsAssumption DEF Deliver, Carried
    <3>3. QED
      BY <1>1, <3>1, <3>2, AdoptCarried
  <2>2. CASE ~DeliverAdopts(h)
    <3>1. UNCHANGED <<ctx, by_ctx, died>>
      BY <2>2 DEF Deliver
    <3>2. ctx[h] # Null
      BY <1>1, <2>2, ExecutingFact DEF StackInv, BatonInv, BeforeAdoption, DeliverAdopts
    <3>3. QED
      BY <3>1, <3>2 DEF StackInv, StartedCarried, NeverDies
  <2>3. QED
    BY <2>1, <2>2
<1>7. /\ Carried(h)' = Carried(h) /\ Carried(h) \notin fresh
      /\ Carried(h) = ctx'[h] /\ ctx'[h] \in Ctx
  BY <1>1, <1>6, GuestThreadsAssumption
  DEF StackInv, BatonInv, TypeOK, CurrentCarried, Carried, Executing
<1>8. GuestStack(h)'
  <2>1. CASE stack[h] = <<"code">>
    <3>1. current = ctx'[h] /\ stack'[h] = <<"code", ctx'[h]>>
      BY <1>3, <1>5, <1>7, <2>1, CodeFact DEF GuestStack
    <3>2. QED
      BY <1>4, <3>1, HandlerFact DEF GuestStack, Exiting
  <2>2. CASE stack[h] \in Selecting(ctx[h]) /\ context = Idle /\ ctx[h] \in Ctx
    <3>1. ctx'[h] = ctx[h]
      BY <1>6, <2>2, GuestThreadsAssumption
    <3>2. stack'[h] \in Idling(ctx'[h]) /\ (stack'[h] \in Exiting => stack[h] \in Exiting)
      BY <1>3, <2>2, <3>1, SelectingFact
    <3>3. current = Null
      BY <1>1, <2>2, RunningFact, SelectingFact
    <3>4. stack'[h] # <<"code">> /\ stack'[h] # <<"code", ctx'[h]>>
      BY <3>2, IdlingFact
    <3>5. QED
      BY <1>4, <1>5, <3>1, <3>2, <3>3, <3>4 DEF GuestStack, Exiting
  <2>3. QED
    BY <1>1, <2>1, <2>2
<1>9. QED
  BY <1>1, <1>3, <1>4, <1>6, <1>7, <1>8, GuestStepInv

LEMMA HandlerReturnsStack ==
  ASSUME StackInv, BatonInv', NEW h \in Host, HandlerReturns(h)
  PROVE  StackInv'
<1> DEFINE x == Interrupted(h)
<1>1. Executing(h) /\ InHandler(h) /\ (x \in Ctx => x = current /\ tstate[x] = "running")
  BY DEF HandlerReturns
<1>2. stack' = [stack EXCEPT ![h] = Pop(stack[h])] /\ context' = x
  BY DEF HandlerReturns
<1>3. UNCHANGED <<running, by_ctx, fresh, ctx, zombie, pc, died, tstate, current>>
  BY DEF HandlerReturns
<1>4. stack'[h] = Pop(stack[h]) /\ \A g \in Host \ {h} : stack'[g] = stack[g]
  BY <1>2 DEF StackInv, BatonInv, TypeOK
<1>5. ctx[h] \in Ctx /\ ctx[h] = Carried(h) /\ Carried(h)' = Carried(h) /\ Carried(h) \notin fresh
  BY <1>1, <1>3, RunningFact, GuestThreadsAssumption
  DEF StackInv, CurrentCarried, Carried, Executing
<1>6. GuestStack(h)'
  <2>1. CASE stack[h] = <<"code", ctx[h]>> /\ x = ctx[h] /\ current = ctx[h]
    <3>1. stack'[h] = <<"code">>
      BY <1>4, <2>1, HandlerFact
    <3>2. context' = current /\ current = Carried(h) /\ tstate[current] = "running"
      BY <1>1, <1>2, <1>5, <2>1
    <3>3. <<"code">> # <<"code", ctx[h]>>
      BY HandlerFact
    <3>4. QED
      BY <1>3, <1>5, <3>1, <3>2, <3>3, CodeFact DEF GuestStack, Exiting
  <2>2. CASE stack[h] \in Idling(ctx[h]) /\ current = Null
    <3>1. stack'[h] \in Selecting(ctx[h]) /\ (stack'[h] \in Exiting => stack[h] \in Exiting)
      BY <1>4, <2>2, IdlingFact
    <3>2. stack'[h] # <<"code">> /\ stack'[h] # <<"code", ctx[h]>>
      BY <1>5, <3>1, SelectingFact, GuestThreadsAssumption DEF Call
    <3>3. GuestStack(h)
      BY <1>1, GuestStackFact
    <3>4. QED
      BY <1>3, <2>2, <3>1, <3>2, <3>3 DEF GuestStack, Exiting
  <2>3. QED
    BY <1>1, <2>1, <2>2, RunningFact
<1>7. QED
  BY <1>1, <1>3, <1>4, <1>5, <1>6, GuestStepInv DEF StackInv, StartedCarried, NeverDies

\* A host thread that has, or will have, the baton runs its thread's code or a
\* handler of it when it is through wait_baton: OSExitThread is never returned to.
LEMMA ReturnFact ==
  ASSUME StackInv, NEW h \in Host, ~zombie[h], NEW x \in Ctx, x = ctx[h], x \notin fresh,
         tstate[x] # "dead", stack[h] \in Selecting(x)
  PROVE  /\ Pop(stack[h]) \in {<<"code">>, <<"code", x>>}
         /\ Top(Pop(stack[h])) # "exit" /\ Top(stack[h]) = "select"
         /\ Pop(stack[h]) \notin Exiting
<1>1. stack[h] \notin Exiting
  BY DEF StackInv, ExitedDead
<1>2. Pop(stack[h]) \in {<<"code">>, <<"code", x>>} /\ Top(stack[h]) = "select"
  BY <1>1, SelectingFact
<1>3. x # "exit"
  BY GuestThreadsAssumption DEF Call
<1>4. QED
  BY <1>2, <1>3, CodeFact, HandlerFact

\* The host thread that has the baton and waits carries the current thread.
LEMMA WaitingFact ==
  ASSUME StackInv, pc[running] \in {"waiting", "asleep"}
  PROVE  /\ running \in Host /\ ~zombie[running]
         /\ current = Carried(running) /\ context = current /\ current \in Ctx
         /\ current \notin fresh /\ tstate[current] = "running"
         /\ stack[running] # <<"code">> => current = ctx[running]
         /\ stack[running] \in {<<"code">>} \cup Selecting(ctx[running])
<1>1. running \in Host /\ ~zombie[running]
  BY DEF StackInv, BatonInv, TypeOK, BatonIsTaken
<1>2. /\ current = Carried(running) /\ context = current
      /\ current \notin fresh /\ tstate[current] = "running"
  BY DEF StackInv, CurrentCarried, Taker
<1>3. stack[running] # <<"code">> => ctx[running] \in Ctx
  BY <1>1, CarriesFact DEF StackInv
<1>4. current \in Ctx
  BY <1>1, <1>2, GuestThreadsAssumption DEF StackInv, BatonInv, TypeOK, Carried
<1>5. QED
  BY <1>1, <1>2, <1>3, <1>4, GuestThreadsAssumption DEF StackInv, Shapes, Carried

LEMMA AcquireStack ==
  ASSUME StackInv, BatonInv', NEW h \in Host, Acquire(h)
  PROVE  StackInv'
<1>1. /\ pc[h] = "waiting" /\ pc' = [pc EXCEPT ![h] = WaitBaton(h, running, zombie)]
      /\ UNCHANGED <<running, by_ctx, fresh, ctx, zombie, target, tstate, exc, current, context>>
  BY DEF Acquire, guestVars
<1>2. /\ pc'[h] = WaitBaton(h, running, zombie) /\ \A g \in Host \ {h} : pc'[g] = pc[g]
      /\ \A g \in Host \ {h} : stack'[g] = stack[g]
  BY <1>1, LeaveFact DEF StackInv, BatonInv, TypeOK, Acquire
<1>3. pc[running] # "guest" => Taker \in Host
  BY DEF StackInv, BatonInv, TypeOK, BatonIsTaken, Taker
<1>4. StartedCarried' /\ (Carried(running) \notin fresh)'
  BY <1>1 DEF StackInv, StartedCarried, CurrentCarried, Carried
<1>5. stack[h] \in {<<"code">>} \cup Selecting(ctx[h])
  BY <1>1 DEF StackInv, Shapes
<1>6. CASE zombie[h]
  <2>1. pc'[h] = "gone" /\ h # running
    BY <1>2, <1>6 DEF WaitBaton, StackInv, BatonInv, BatonIsTaken
  <2>2. stack'[h] = <<>> /\ died' = died
    BY <2>1 DEF StackInv, BatonInv, TypeOK, Acquire, Leave
  <2>3. Shapes'
    BY <1>1, <1>2, <2>1, <2>2 DEF StackInv, Shapes
  <2>4. ExitedDead'
    BY <1>1, <1>2, <1>6 DEF StackInv, ExitedDead, Exiting
  <2>5. stack'[running] = stack[running] /\ pc'[running] = pc[running] /\ running' = running
    BY <1>1, <1>2, <2>1 DEF StackInv, BatonInv, TypeOK
  <2>6. CurrentCarried'
    BY <1>1, <2>5 DEF StackInv, CurrentCarried, Taker, Carried
  <2>7. QED
    BY <1>4, <2>2, <2>3, <2>4, <2>6 DEF StackInv, NeverDies
<1>7. CASE ~zombie[h] /\ running = h
  <2>1. pc'[h] = "guest"
    BY <1>2, <1>7 DEF WaitBaton
  <2>2. /\ current = Carried(h) /\ context = current /\ current \in Ctx
        /\ current \notin fresh /\ tstate[current] = "running"
        /\ stack[h] # <<"code">> => current = ctx[h]
    BY <1>1, <1>7, WaitingFact
  <2>3. /\ stack'[h] \in {<<"code">>, <<"code", ctx[h]>>}
        /\ stack'[h] \notin Exiting /\ ~died'
        /\ stack[h] = <<"code">> => stack'[h] = <<"code">>
    <3>1. CASE stack[h] = <<"code">>
      <4>1. Top(stack[h]) = "code"
        BY <3>1, CodeFact
      <4>2. stack' = stack
        BY <2>1, <4>1 DEF Acquire, Leave
      <4>3. stack'[h] = <<"code">> /\ Top(stack'[h]) = "code"
        BY <3>1, <4>1, <4>2
      <4>a. ~died'
        BY <4>3 DEF Acquire, Leave, StackInv, NeverDies
      <4>4. <<"code">> \notin Exiting
        BY CodeFact
      <4>5. QED
        BY <3>1, <4>a, <4>3, <4>4
    <3>2. CASE stack[h] \in Selecting(ctx[h]) /\ stack[h] # <<"code">>
      <4>1. /\ Pop(stack[h]) \in {<<"code">>, <<"code", ctx[h]>>}
            /\ Top(Pop(stack[h])) # "exit" /\ Top(stack[h]) = "select"
            /\ Pop(stack[h]) \notin Exiting
        BY <1>7, <2>2, <3>2, ReturnFact
      <4>2. /\ stack' = [stack EXCEPT ![h] = Pop(stack[h])]
            /\ died' = (died \/ Top(stack'[h]) = "exit")
        BY <2>1, <4>1 DEF Acquire, Leave
      <4>3. stack'[h] = Pop(stack[h])
        BY <4>2 DEF StackInv, BatonInv, TypeOK
      <4>4. QED
        BY <3>2, <4>1, <4>2, <4>3 DEF StackInv, NeverDies
    <3>3. QED
      BY <1>5, <3>1, <3>2
  <2>4. Shapes'
    BY <1>1, <1>2, <2>1, <2>3 DEF StackInv, Shapes
  <2>5. ExitedDead'
    BY <1>1, <1>2, <2>3 DEF StackInv, ExitedDead, Exiting
  <2>6. stack'[h] = <<"code">> \/ (stack'[h] = <<"code", ctx[h]>> /\ current = ctx[h])
    BY <2>2, <2>3
  <2>7. CurrentCarried'
    <3>1. <<"code", ctx[h]>> # <<"code">>
      BY HandlerFact
    <3>2. QED
      BY <1>1, <1>4, <1>7, <2>1, <2>2, <2>6, <3>1 DEF CurrentCarried, Carried
  <2>8. QED
    BY <1>4, <2>3, <2>4, <2>5, <2>7 DEF StackInv, NeverDies
<1>8. CASE ~zombie[h] /\ running # h
  <2>1. pc'[h] = "asleep"
    BY <1>2, <1>8 DEF WaitBaton
  <2>2. stack' = stack /\ died' = died
    BY <2>1, LeaveFact DEF StackInv, BatonInv, Acquire
  <2>3. Shapes' /\ ExitedDead'
    BY <1>1, <1>2, <2>1, <2>2 DEF StackInv, Shapes, ExitedDead, Exiting
  <2>4. CurrentCarried'
    BY <1>1, <1>2, <1>8, <2>2 DEF StackInv, BatonInv, TypeOK, CurrentCarried, Taker, Carried
  <2>5. QED
    BY <1>4, <2>2, <2>3, <2>4 DEF StackInv, NeverDies
<1>9. QED
  BY <1>6, <1>7, <1>8

LEMMA SpuriousWakeStack ==
  ASSUME StackInv, BatonInv', NEW h \in Host, SpuriousWake(h)
  PROVE  StackInv'
<1>1. UNCHANGED <<running, by_ctx, fresh, ctx, zombie, target, stack, died, tstate, exc, current, context>>
  BY DEF SpuriousWake, guestVars
<1>2. \A g \in Host : pc'[g] = pc[g] \/ (pc[g] = "asleep" /\ pc'[g] = "waiting")
  BY NotifyFact DEF SpuriousWake, StackInv, BatonInv, TypeOK
<1>3. Shapes' /\ ExitedDead' /\ StartedCarried'
  BY <1>1, <1>2 DEF StackInv, Shapes, ExitedDead, Exiting, StartedCarried
<1>4. running \in Host
  BY DEF StackInv, BatonInv, TypeOK
<1>5. CurrentCarried'
  BY <1>1, <1>2, <1>4 DEF StackInv, CurrentCarried, Taker, Carried
<1>6. QED
  BY <1>1, <1>3, <1>5 DEF StackInv, NeverDies

\* What PassTo does to a baton's holder and its taker.
LEMMA PassToFact ==
  ASSUME BatonInv, NEW h \in Host, PassTo(h)
  PROVE  /\ running = h /\ pc[h] = "handing" /\ target[h] \in Host \ {h}
         /\ running' = target[h] /\ pc'[h] = "asleep"
         /\ pc[target[h]] \in {"waiting", "asleep"} /\ pc'[target[h]] \in {"waiting", "asleep"}
         /\ \A g \in Host \ {h} : pc'[g] = pc[g] \/ (pc[g] = "asleep" /\ pc'[g] = "waiting")
         /\ UNCHANGED <<by_ctx, fresh, ctx, zombie, stack, died, tstate, exc, current, context>>
<1> DEFINE t == target[h]
           woken == Notify(pc, t)
<1>1. running = h /\ t \in Host \ {h} /\ ~zombie[h] /\ pc[t] \in {"waiting", "asleep"}
  BY DEF BatonInv, TypeOK, PassTo, OneGuestThread, BatonIsTaken
<1>2. /\ woken \in [Host -> PC]
      /\ \A g \in Host : woken[g] = pc[g] \/ (pc[g] = "asleep" /\ woken[g] = "waiting")
  BY <1>1, NotifyFact DEF BatonInv, TypeOK
<1>3. pc' = [woken EXCEPT ![h] = "asleep"] /\ running' = t
  BY <1>1 DEF PassTo, WaitBaton
<1> HIDE DEF woken
<1>4. pc'[h] = "asleep" /\ \A g \in Host \ {h} : pc'[g] = woken[g]
  BY <1>2, <1>3
<1>5. UNCHANGED <<stack, died>>
  BY <1>4, LeaveFact DEF PassTo, BatonInv
<1>6. QED
  BY <1>1, <1>2, <1>3, <1>4, <1>5 DEF PassTo, guestVars

LEMMA PassToStack ==
  ASSUME StackInv, BatonInv', NEW h \in Host, PassTo(h)
  PROVE  StackInv'
<1> DEFINE t == target[h]
<1>1. /\ running = h /\ pc[h] = "handing" /\ t \in Host \ {h}
      /\ running' = t /\ pc'[h] = "asleep" /\ pc'[t] \in {"waiting", "asleep"}
      /\ \A g \in Host \ {h} : pc'[g] = pc[g] \/ (pc[g] = "asleep" /\ pc'[g] = "waiting")
      /\ UNCHANGED <<by_ctx, fresh, ctx, zombie, stack, died, tstate, exc, current, context>>
  BY PassToFact DEF StackInv
<1> HIDE DEF t
<1>2. Shapes'
  BY <1>1 DEF StackInv, Shapes
<1>3. ExitedDead' /\ StartedCarried'
  BY <1>1 DEF StackInv, ExitedDead, Exiting, StartedCarried
<1>4. CurrentCarried'
  BY <1>1 DEF StackInv, CurrentCarried, Taker, Carried, t
<1>5. QED
  BY <1>1, <1>2, <1>3, <1>4 DEF StackInv, NeverDies

\* SelectThread goes back to where it was called from, in its own thread.
LEMMA LoadReturnsStack ==
  ASSUME StackInv, BatonInv', NEW h \in Host, NEW x \in Ctx,
         SelectThread(h, x), LoadReturns(h, x)
  PROVE  StackInv'
<1>1. Executing(h) /\ Top(stack[h]) = "select" /\ tstate[x] = "ready"
  BY DEF SelectThread
<1>2. running = h /\ ~zombie[h] /\ stack[h] \in Selecting(ctx[h]) /\ ctx[h] \in Ctx
  BY <1>1, RunningFact, ExecutingFact DEF StackInv, Executing
<1>3. /\ stack' = [stack EXCEPT ![h] = Pop(stack[h])] /\ died' = (Top(Pop(stack[h])) = "exit")
      /\ UNCHANGED <<running, fresh, zombie, ctx, by_ctx, target, pc>>
      /\ tstate' = [tstate EXCEPT ![x] = "running"] /\ current' = x /\ context' = x
  BY DEF SelectThread, LoadContext
<1>4. x = ctx[h]
  <2>1. Pop(stack[h]) \in {<<"code">>, <<"code", ctx[h]>>, <<"exit">>}
    BY <1>2, SelectingFact
  <2>2. Top(Pop(stack[h])) \in {"code", ctx[h], "exit"}
    <3>1. Top(<<"exit">>) = "exit"
      BY DEF Top
    <3>2. QED
      BY <2>1, <3>1, CodeFact, HandlerFact
  <2>3. x \notin {"code", "exit"}
    BY GuestThreadsAssumption DEF Call
  <2>4. QED
    BY <2>2, <2>3 DEF LoadReturns
<1>5. Carried(h) = x /\ Carried(h)' = x /\ x \notin fresh
  BY <1>2, <1>3, <1>4, GuestThreadsAssumption DEF StackInv, CurrentCarried, Carried
<1>6. /\ Pop(stack[h]) \in {<<"code">>, <<"code", x>>}
      /\ Top(Pop(stack[h])) # "exit" /\ Pop(stack[h]) \notin Exiting
  BY <1>1, <1>2, <1>4, <1>5, ReturnFact
<1>7. /\ stack'[h] = Pop(stack[h]) /\ \A g \in Host \ {h} : stack'[g] = stack[g]
      /\ tstate'[x] = "running" /\ \A y \in Ctx \ {x} : tstate'[y] = tstate[y]
  BY <1>3 DEF StackInv, BatonInv, TypeOK
<1>8. GuestStack(h)'
  BY <1>3, <1>4, <1>5, <1>6, <1>7 DEF GuestStack, Exiting
<1>9. QED
  BY <1>1, <1>3, <1>5, <1>6, <1>7, <1>8, GuestStepInv DEF StackInv, StartedCarried

\* SelectThread starts a host thread for a fresh context.
LEMMA LoadFreshStack ==
  ASSUME StackInv, BatonInv', NEW h \in Host, NEW x \in Ctx,
         SelectThread(h, x), x # ctx[h], x \in fresh, LoadFresh(h, x)
  PROVE  StackInv'
<1>1. Executing(h) /\ Top(stack[h]) = "select" /\ tstate[x] = "ready"
  BY DEF SelectThread
<1>2. /\ running = h /\ pc[h] = "guest" /\ ~zombie[h] /\ ctx[MainHost] # Null
      /\ stack[h] \in Selecting(ctx[h]) /\ ctx[h] \in Ctx
  BY <1>1, RunningFact, SelectFact DEF StackInv
<1>n. PICK n \in Host : n = NewHost /\ pc[n] = "unborn" /\ n # h
  BY <1>2, NewHostFact DEF LoadFresh
<1>3. n \in Host /\ pc[n] = "unborn" /\ n # h
  BY <1>n
<1>o. PICK o \in Host \cup {Null} : o = by_ctx[x]
  BY DEF StackInv, BatonInv, TypeOK
<1> DEFINE p == IF o = Null THEN pc ELSE Notify(pc, o)
<1>4. /\ tstate'[x] = "running" /\ \A y \in Ctx \ {x} : tstate'[y] = tstate[y]
      /\ current' = x /\ context' = x /\ UNCHANGED <<running, died>>
  BY DEF StackInv, BatonInv, TypeOK, SelectThread, LoadContext, LoadFresh
<1>5. /\ p \in [Host -> PC]
      /\ \A g \in Host : p[g] = pc[g] \/ (pc[g] = "asleep" /\ p[g] = "waiting")
  <2>1. TypeOK /\ o \in Host \cup {Null}
    BY DEF StackInv, BatonInv
  <2>2. QED
    BY <2>1, RetiredWakes
<1>6. pc' = [p EXCEPT ![h] = "handing", ![n] = "waiting"]
  BY <1>n, <1>o DEF LoadFresh
<1> HIDE DEF p
<1>7. /\ pc'[h] = "handing" /\ pc'[n] = "waiting"
      /\ \A g \in Host \ {h, n} : pc'[g] = pc[g] \/ (pc[g] = "asleep" /\ pc'[g] = "waiting")
  BY <1>3, <1>5, <1>6
<1>8. /\ ctx'[n] = x /\ \A g \in Host \ {n} : ctx'[g] = ctx[g]
      /\ by_ctx'[x] = n /\ \A y \in Ctx \ {x} : by_ctx'[y] = by_ctx[y]
      /\ stack'[n] = <<"code">> /\ \A g \in Host \ {n} : stack'[g] = stack[g]
      /\ target'[h] = n /\ fresh' = fresh \ {x}
  BY <1>n DEF LoadFresh, Carry, Register, StackInv, BatonInv, TypeOK
<1>z. \A g \in Host : ~zombie'[g] => ~zombie[g] /\ g # o
  <2>1. zombie' = IF o = Null THEN zombie ELSE [zombie EXCEPT ![o] = TRUE]
    BY <1>o DEF LoadFresh, Retire
  <2>2. QED
    BY <2>1, GuestThreadsAssumption DEF StackInv, BatonInv, TypeOK
<1>9. Shapes'
  <2> SUFFICES ASSUME NEW g \in Host
               PROVE  /\ pc'[g] = "gone" => stack'[g] = <<>>
                      /\ pc'[g] = "unborn" => stack'[g] = <<"code">>
                      /\ pc'[g] \in {"waiting", "asleep"} =>
                           stack'[g] \in {<<"code">>} \cup Selecting(ctx'[g])
                      /\ pc'[g] = "handing" => stack'[g] \in Selecting(ctx'[g])
                      /\ pc'[g] = "guest" =>
                           stack'[g] \in {<<"code">>, <<"code", ctx'[g]>>}
                                          \cup Selecting(ctx'[g]) \cup Idling(ctx'[g])
    BY DEF Shapes
  <2>1. CASE g = n
    BY <1>3, <1>7, <1>8, <2>1
  <2>2. CASE g = h
    BY <1>2, <1>3, <1>7, <1>8, <2>2
  <2>3. CASE g \notin {h, n}
    <3>1. stack'[g] = stack[g] /\ ctx'[g] = ctx[g]
      BY <1>8, <2>3
    <3>2. pc'[g] = pc[g] \/ (pc[g] = "asleep" /\ pc'[g] = "waiting")
      BY <1>7, <2>3
    <3>3. QED
      BY <3>1, <3>2 DEF StackInv, Shapes
  <2>4. QED
    BY <2>1, <2>2, <2>3
<1>10. ExitedDead'
  <2> SUFFICES ASSUME NEW g \in Host, ~zombie'[g], stack'[g] \in Exiting, ctx'[g] \notin fresh'
               PROVE  tstate'[ctx'[g]] = "dead"
    BY DEF ExitedDead, Exiting
  <2>1. g # n
    BY <1>8, CodeFact
  <2>2. stack[g] \in Exiting /\ ctx'[g] = ctx[g] /\ ~zombie[g] /\ g # o
    BY <1>8, <1>z, <2>1
  <2>3. ctx[g] \in Ctx
    BY <2>2, CodeFact, CarriesFact DEF StackInv
  <2>4. ctx[g] # x
    BY <1>o, <2>2, <2>3, GuestThreadsAssumption DEF StackInv, BatonInv, OneHostPerContext
  <2>5. QED
    BY <1>4, <1>8, <2>2, <2>3, <2>4 DEF StackInv, ExitedDead
<1>11. StartedCarried'
  <2>1. ctx'[MainHost] = Null => FALSE
    BY <1>2, <1>3, <1>8, GuestThreadsAssumption
  <2>2. \A y \in Ctx : y \notin fresh' /\ tstate'[y] # "none" /\ by_ctx'[y] = Null => y = Main
    BY <1>3, <1>4, <1>8, GuestThreadsAssumption DEF StackInv, StartedCarried
  <2>3. by_ctx'[Main] = Null => ctx'[MainHost] = Null
    BY <1>3, <1>8, GuestThreadsAssumption DEF StackInv, StartedCarried, BatonInv
  <2>4. QED
    BY <2>2, <2>3 DEF StartedCarried
<1>12. CurrentCarried'
  <2>1. Taker' = n /\ Carried(n)' = x /\ Carried(h)' = Carried(h)
    BY <1>2, <1>3, <1>4, <1>7, <1>8, GuestThreadsAssumption DEF Taker, Carried
  <2>2. Carried(h) \notin fresh
    BY <1>2 DEF StackInv, CurrentCarried
  <2>3. running' = h /\ pc'[h] # "guest"
    BY <1>2, <1>4, <1>7
  <2>4. /\ Carried(running)' \notin fresh'
        /\ current' = Carried(Taker)' /\ context' = current'
        /\ current' \notin fresh' /\ tstate'[current'] = "running"
    BY <1>2, <1>4, <1>8, <2>1, <2>2 DEF Carried, Taker
  <2>5. QED
    BY <2>3, <2>4 DEF CurrentCarried
<1>13. QED
  BY <1>4, <1>9, <1>10, <1>11, <1>12 DEF StackInv, NeverDies

\* SelectThread finds the host thread that carries a context, and there is one.
LEMMA LoadCarriedStack ==
  ASSUME StackInv, BatonInv', NEW h \in Host, NEW x \in Ctx,
         SelectThread(h, x), x # ctx[h], x \notin fresh, LoadCarried(h, x)
  PROVE  StackInv'
<1>1. Executing(h) /\ Top(stack[h]) = "select" /\ tstate[x] = "ready"
  BY DEF SelectThread
<1>2. /\ running = h /\ pc[h] = "guest" /\ ~zombie[h] /\ ctx[MainHost] # Null
      /\ stack[h] \in Selecting(ctx[h]) /\ ctx[h] \in Ctx
  BY <1>1, RunningFact, SelectFact DEF StackInv
<1>3. by_ctx[x] # Null
  BY <1>1, <1>2 DEF StackInv, StartedCarried
<1>4. PICK t \in Host : t = by_ctx[x] /\ ctx[t] = x
  BY <1>3 DEF StackInv, BatonInv, TypeOK, OneHostPerContext
<1>5. /\ ~died' /\ pc' = [pc EXCEPT ![h] = "handing"] /\ target' = [target EXCEPT ![h] = t]
      /\ UNCHANGED <<running, fresh, zombie, ctx, by_ctx, stack>>
      /\ tstate' = [tstate EXCEPT ![x] = "running"] /\ current' = x /\ context' = x
  BY <1>3, <1>4 DEF LoadCarried, SelectThread, LoadContext
<1>6. /\ tstate'[x] = "running" /\ \A y \in Ctx \ {x} : tstate'[y] = tstate[y]
      /\ pc'[h] = "handing" /\ \A g \in Host \ {h} : pc'[g] = pc[g]
      /\ target'[h] = t
  BY <1>5 DEF StackInv, BatonInv, TypeOK
<1>7. Shapes'
  BY <1>2, <1>5, <1>6 DEF StackInv, Shapes
<1>8. ExitedDead'
  <2> SUFFICES ASSUME NEW g \in Host, ~zombie[g], stack[g] \in Exiting, ctx[g] \notin fresh
               PROVE  tstate'[ctx[g]] = "dead"
    BY <1>5 DEF ExitedDead, Exiting
  <2>1. ctx[g] \in Ctx
    BY CodeFact, CarriesFact DEF StackInv
  <2>2. QED
    BY <1>1, <1>6, <2>1 DEF StackInv, ExitedDead
<1>9. StartedCarried'
  BY <1>3, <1>5, <1>6, GuestThreadsAssumption DEF StackInv, StartedCarried
<1>10. CurrentCarried'
  <2>1. Taker' = t /\ Carried(t)' = x /\ Carried(h)' = Carried(h) /\ Carried(h) \notin fresh
    BY <1>2, <1>4, <1>5, <1>6, GuestThreadsAssumption
    DEF Taker, Carried, StackInv, CurrentCarried
  <2>2. running' = h /\ pc'[h] # "guest"
    BY <1>2, <1>5, <1>6
  <2>3. /\ Carried(running)' \notin fresh'
        /\ current' = Carried(Taker)' /\ context' = current'
        /\ current' \notin fresh' /\ tstate'[current'] = "running"
    BY <1>2, <1>5, <1>6, <2>1 DEF Carried, Taker
  <2>4. QED
    BY <2>2, <2>3 DEF CurrentCarried
<1>11. QED
  BY <1>5, <1>7, <1>8, <1>9, <1>10 DEF StackInv, NeverDies

LEMMA SelectThreadStack ==
  ASSUME StackInv, BatonInv', NEW h \in Host, NEW x \in Ctx, SelectThread(h, x)
  PROVE  StackInv'
<1>1. LoadReturns(h, x) \/ (x # ctx[h] /\ LoadOther(h, x))
  BY DEF SelectThread, LoadContext, LoadReturns
<1>2. QED
  BY <1>1, LoadReturnsStack, LoadFreshStack, LoadCarriedStack DEF LoadOther

-----------------------------------------------------------------------------
LEMMA InitStack == Init => StackInv
<1> SUFFICES ASSUME Init PROVE StackInv
  OBVIOUS
<1>1. BatonInv
  BY InitInv
<1>2. /\ running = MainHost /\ MainHost \in Host /\ Main \in Ctx
      /\ pc[MainHost] = "waiting" /\ Carried(MainHost) = Main
      /\ \A g \in Host : stack[g] = <<"code">> /\ pc[g] \in {"waiting", "unborn"}
  BY GuestThreadsAssumption DEF Init, Carried
<1>3. Shapes
  BY <1>2 DEF Shapes
<1>4. ExitedDead
  BY <1>2, CodeFact DEF ExitedDead
<1>5. StartedCarried /\ NeverDies
  BY <1>2 DEF Init, StartedCarried, NeverDies
<1>6. Taker = MainHost
  BY <1>2 DEF Taker
<1>7. CurrentCarried
  BY <1>2, <1>6 DEF Init, CurrentCarried
<1>8. QED
  BY <1>1, <1>3, <1>4, <1>5, <1>7 DEF StackInv

LEMMA NextStack == ~RecreateOwn /\ StackInv /\ [Next]_vars => StackInv'
<1> SUFFICES ASSUME ~RecreateOwn, StackInv, [Next]_vars PROVE StackInv'
  OBVIOUS
<1>1. BatonInv'
  BY NextInv DEF StackInv
<1>2. CASE UNCHANGED vars
  BY <1>1, <1>2 DEF vars, hostVars, guestVars, StackInv, Shapes, ExitedDead, Exiting,
                    StartedCarried, CurrentCarried, Carried, Taker, NeverDies
<1>3. CASE Next
  BY <1>1, <1>3, AcquireStack, SpuriousWakeStack, PassToStack, YieldStack, ExitThreadStack,
     HandlerReschedulesStack, DeliverStack, HandlerReturnsStack, SelectThreadStack,
     CreateThreadStack, WakeupStack, StopStack DEF Next
<1>4. QED
  BY <1>2, <1>3

\* What is on the host threads' stacks and who carries the current thread, while
\* no handler makes the thread again whose idle loop it interrupted.
THEOREM StackInvariant ==
  ASSUME ~RecreateOwn
  PROVE  Spec => []StackInv
<1>1. Init => StackInv
  BY InitStack
<1>2. StackInv /\ [Next]_vars => StackInv'
  BY NextStack
<1>3. QED
  BY <1>1, <1>2, PTL DEF Spec

\* The runtime never stops the program (os.cpp 123, 165, 196): the thread that
\* runs is the one the SDK believes in, every context loaded is carried or
\* fresh, and no thread comes back from OSExitThread.
THEOREM ThreadsRun ==
  ASSUME ~RecreateOwn
  PROVE  Spec => []ThreadsInv
<1>1. StackInv => ThreadsInv
  <2> SUFFICES ASSUME StackInv, NEW h \in Host, Executing(h), Top(stack[h]) = "code"
               PROVE  /\ current = context
                      /\ ctx[h] = current \/ (h = MainHost /\ ctx[h] = Null /\ current = Main)
    BY DEF ThreadsInv, RightThread, StackInv
  <2>1. stack[h] = <<"code">>
    BY RunningFact
  <2>2. current = Carried(h) /\ context = current
    BY <2>1, GuestStackFact DEF GuestStack
  <2>3. ctx[h] = Null => h = MainHost
    BY ExecutingFact DEF StackInv
  <2>4. QED
    BY <2>2, <2>3 DEF Carried
<1>2. QED
  BY <1>1, StackInvariant, PTL

\* A handler finds the context it interrupted, however many threads ran since
\* (os.cpp 100-118, 176-181).
THEOREM HandlersReturn ==
  ASSUME ~RecreateOwn
  PROVE  Spec => []HandlerFindsItsContext
<1>1. StackInv => HandlerFindsItsContext
  <2> SUFFICES ASSUME StackInv, NEW h \in Host, Executing(h), InHandler(h)
               PROVE  /\ Interrupted(h) = IF current = Null THEN Idle ELSE current
                      /\ current \in {ctx[h], Null}
    BY DEF HandlerFindsItsContext
  <2>1. QED
    BY RunningFact, GuestThreadsAssumption
<1>2. QED
  BY <1>1, StackInvariant, PTL

-----------------------------------------------------------------------------
(* The refinement of SingleCore.                                           *)

\* A context other than the core's goes on where its own host thread is, which
\* is not the one that has the baton and was not retired.
LEMMA ElsewhereFact ==
  ASSUME StackInv, NEW x \in Ctx, x # Carried(running)
  PROVE  /\ ~(by_ctx[x] = Null /\ x = Main)
         /\ by_ctx[x] # Null => by_ctx[x] \in Host \ {running} /\ ~zombie[by_ctx[x]]
<1>1. CASE by_ctx[x] = Null
  <2>1. x = Main => ctx[MainHost] = Null /\ running = MainHost
    BY <1>1 DEF StackInv, StartedCarried, BatonInv, BeforeAdoption
  <2>2. QED
    BY <1>1, <2>1 DEF Carried
<1>2. CASE by_ctx[x] # Null
  <2>1. by_ctx[x] \in Host /\ ~zombie[by_ctx[x]] /\ ctx[by_ctx[x]] = x
    BY <1>2 DEF StackInv, BatonInv, TypeOK, OneHostPerContext
  <2>2. QED
    BY <1>2, <2>1, GuestThreadsAssumption DEF Carried
<1>3. QED
  BY <1>1, <1>2

\* The continuation of a context other than the core's.
LEMMA ContinuationFact ==
  ASSUME StackInv, NEW x \in Ctx, x # Carried(running)
  PROVE  Continuation(x) = IF x \in fresh \/ by_ctx[x] = Null THEN <<"code">> ELSE stack[by_ctx[x]]
BY ElsewhereFact DEF Continuation

\* A step moves no continuation but the core's if it touches no host thread but
\* the baton's holder and retired ones, and finds the others where they were.
LEMMA CoreRuns ==
  ASSUME StackInv, StackInv', Carried(running)' = Carried(running),
         \A x \in Ctx \ {Carried(running)} :
           (x \in fresh' <=> x \in fresh) /\ by_ctx'[x] = by_ctx[x],
         \A g \in Host \ {running} : ~zombie[g] => stack'[g] = stack[g]
  PROVE  Core!Run
<1>1. ASSUME NEW x \in Ctx, x # Carried(running)
      PROVE  Continuation(x)' = Continuation(x)
  <2>1. Continuation(x)' = IF x \in fresh' \/ by_ctx'[x] = Null THEN <<"code">> ELSE stack'[by_ctx'[x]]
    BY <1>1, ElsewhereFact DEF Continuation
  <2>2. QED
    BY <1>1, <2>1, ContinuationFact, ElsewhereFact
<1>2. QED
  BY <1>1 DEF Core!Run

\* SelectThread, up to its choice.
LEMMA RescheduleRuns ==
  ASSUME StackInv, StackInv', NEW h \in Host, Executing(h), current = Carried(h),
         NEW s, NEW base, Reschedule(h, s, base)
  PROVE  Core!Run
<1>1. running = h /\ current \in Ctx
  BY RescheduledFact DEF StackInv, Executing
<1>2. /\ stack' = [stack EXCEPT ![h] = Append(base, "select")]
      /\ UNCHANGED <<running, fresh, zombie>>
  BY DEF Reschedule
<1>3. Carried(h)' = Carried(h) /\ \A y \in Ctx \ {current} : by_ctx'[y] = by_ctx[y]
  <2>1. CASE current \in exc
    BY <2>1 DEF Reschedule, Carried
  <2>2. CASE current \notin exc
    <3>1. Adopt(h, current)
      BY <2>2 DEF Reschedule
    <3>2. QED
      BY <1>1, <3>1, AdoptCarried, GuestThreadsAssumption DEF Carried
  <2>3. QED
    BY <2>1, <2>2
<1>4. Carried(running)' = Carried(running)
  BY <1>1, <1>2, <1>3 DEF Carried
<1>5. \A g \in Host \ {h} : stack'[g] = stack[g]
  BY <1>2 DEF StackInv, BatonInv, TypeOK
<1>6. QED
  BY <1>1, <1>2, <1>3, <1>4, <1>5, CoreRuns

\* A step of guest code that leaves the tables alone.
LEMMA GuestCodeRuns ==
  ASSUME StackInv, StackInv', NEW h \in Host, h = running,
         UNCHANGED <<running, by_ctx, fresh, ctx>>,
         \A g \in Host \ {h} : ~zombie[g] => stack'[g] = stack[g]
  PROVE  Core!Run
<1>1. Carried(running)' = Carried(running)
  BY DEF Carried
<1>2. QED
  BY <1>1, CoreRuns

LEMMA YieldRuns ==
  ASSUME StackInv, StackInv', NEW h \in Host, Yield(h) \/ ExitThread(h) \/ HandlerReschedules(h)
  PROVE  Core!Run
<1>1. Executing(h) /\ \E s, base : Reschedule(h, s, base)
  BY DEF Yield, ExitThread, HandlerReschedules
<1>2. current = Carried(h)
  <2>1. CASE Top(stack[h]) = "code"
    BY <1>1, <2>1, RunningFact, GuestStackFact DEF GuestStack
  <2>2. CASE InHandler(h) /\ current # Null
    BY <1>1, <2>2, RunningFact, GuestThreadsAssumption DEF Carried
  <2>3. QED
    BY <2>1, <2>2 DEF Yield, ExitThread, HandlerReschedules
<1>3. QED
  BY <1>1, <1>2, RescheduleRuns

LEMMA DeliverRuns ==
  ASSUME StackInv, StackInv', NEW h \in Host, Deliver(h)
  PROVE  Core!Run
<1>1. Executing(h) /\ running = h
  BY DEF Deliver, Executing
<1>2. /\ stack' = [stack EXCEPT ![h] = Append(stack[h], context)]
      /\ UNCHANGED <<running, fresh>>
  BY DEF Deliver
<1>3. \A g \in Host \ {h} : stack'[g] = stack[g]
  BY <1>2 DEF StackInv, BatonInv, TypeOK
<1>4. CASE DeliverAdopts(h)
  <2>1. context = Carried(h) /\ context \in Ctx
    BY <1>1, <1>4, ExecutingFact, GuestThreadsAssumption
    DEF StackInv, BatonInv, BeforeAdoption, DeliverAdopts, Carried
  <2>2. Adopt(h, context)
    BY <1>4 DEF Deliver
  <2>3. ctx'[h] = context /\ \A y \in Ctx \ {context} : by_ctx'[y] = by_ctx[y]
    BY <1>1, <2>1, <2>2, AdoptCarried
  <2>4. Carried(running)' = Carried(running)
    BY <1>1, <1>2, <2>1, <2>3, GuestThreadsAssumption DEF Carried
  <2>5. QED
    BY <1>1, <1>2, <1>3, <2>1, <2>3, <2>4, CoreRuns
<1>5. CASE ~DeliverAdopts(h)
  <2>1. UNCHANGED <<ctx, by_ctx>>
    BY <1>5 DEF Deliver
  <2>2. QED
    BY <1>1, <1>2, <1>3, <2>1, GuestCodeRuns
<1>6. QED
  BY <1>4, <1>5

LEMMA AcquireRuns ==
  ASSUME StackInv, StackInv', NEW h \in Host, Acquire(h)
  PROVE  Core!Run
<1>1. UNCHANGED <<running, by_ctx, fresh, ctx, zombie>>
  BY DEF Acquire
<1>2. pc'[h] = WaitBaton(h, running, zombie)
  BY DEF Acquire, StackInv, BatonInv, TypeOK
<1>3. \A g \in Host \ {h} : stack'[g] = stack[g]
  BY LeaveFact DEF Acquire, StackInv, BatonInv
<1>4. h = running \/ zombie[h] \/ stack' = stack
  BY <1>2, LeaveFact DEF WaitBaton, Acquire, StackInv, BatonInv
<1>5. running \in Host /\ \A g \in Host \ {running} : ~zombie[g] => stack'[g] = stack[g]
  BY <1>3, <1>4 DEF StackInv, BatonInv, TypeOK
<1>6. QED
  BY <1>1, <1>5, GuestCodeRuns

LEMMA SelectThreadRuns ==
  ASSUME StackInv, StackInv', NEW h \in Host, NEW x \in Ctx, SelectThread(h, x)
  PROVE  Core!Run
<1>1. running = h /\ UNCHANGED running /\ Executing(h) /\ Top(stack[h]) = "select"
  BY DEF SelectThread, Executing, LoadContext
<1>2. CASE LoadReturns(h, x)
  <2>1. stack' = [stack EXCEPT ![h] = Pop(stack[h])] /\ UNCHANGED <<fresh, ctx, by_ctx>>
    BY <1>2 DEF SelectThread, LoadContext
  <2>2. \A g \in Host \ {h} : stack'[g] = stack[g]
    BY <2>1 DEF StackInv, BatonInv, TypeOK
  <2>3. QED
    BY <1>1, <2>1, <2>2, GuestCodeRuns
<1>3. CASE ~LoadReturns(h, x) /\ x \notin fresh
  <2>1. UNCHANGED <<fresh, ctx, by_ctx, stack>>
    BY <1>3 DEF SelectThread, LoadContext, LoadOther, LoadCarried
  <2>2. QED
    BY <1>1, <2>1, GuestCodeRuns
<1>4. CASE ~LoadReturns(h, x) /\ x \in fresh
  <2>1. LoadFresh(h, x)
    BY <1>4 DEF SelectThread, LoadContext, LoadOther
  <2>2. PICK n \in Host : n = NewHost /\ pc[n] = "unborn" /\ n # h
    BY <1>1, <2>1, NewHostFact DEF LoadFresh, Executing
  <2>3. /\ ctx'[h] = ctx[h] /\ fresh' = fresh \ {x}
        /\ by_ctx'[x] = n /\ \A y \in Ctx \ {x} : by_ctx'[y] = by_ctx[y]
        /\ stack'[n] = <<"code">> /\ \A g \in Host \ {n} : stack'[g] = stack[g]
    BY <2>1, <2>2 DEF LoadFresh, Carry, Register, StackInv, BatonInv, TypeOK
  <2>4. \A y \in Ctx : by_ctx[y] # n
    BY <2>2, GuestThreadsAssumption DEF StackInv, BatonInv, OneHostPerContext
  <2>5. Carried(running)' = Carried(running)
    BY <1>1, <2>3 DEF Carried
  <2>6. ASSUME NEW y \in Ctx, y # Carried(running)
        PROVE  Continuation(y)' = Continuation(y)
    <3>1. Continuation(y) = IF y \in fresh \/ by_ctx[y] = Null THEN <<"code">> ELSE stack[by_ctx[y]]
      BY <2>6, ContinuationFact
    <3>2. Continuation(y)' = IF y \in fresh' \/ by_ctx'[y] = Null THEN <<"code">> ELSE stack'[by_ctx'[y]]
      BY <2>2, <2>3, <2>6, ElsewhereFact, GuestThreadsAssumption DEF Continuation
    <3>3. CASE y = x
      BY <1>4, <2>2, <2>3, <3>1, <3>2, <3>3, GuestThreadsAssumption
    <3>4. CASE y # x
      <4>1. by_ctx'[y] = by_ctx[y] /\ (y \in fresh' <=> y \in fresh)
        BY <2>3, <3>4
      <4>2. by_ctx[y] # Null => by_ctx[y] \in Host /\ stack'[by_ctx[y]] = stack[by_ctx[y]]
        BY <2>3, <2>4, <2>6, ElsewhereFact
      <4>3. QED
        BY <3>1, <3>2, <4>1, <4>2
    <3>5. QED
      BY <3>3, <3>4
  <2>7. QED
    BY <2>5, <2>6 DEF Core!Run
<1>5. QED
  BY <1>2, <1>3, <1>4

\* The baton is passed: the core goes to the thread its taker carries.
LEMMA PassToSwitches ==
  ASSUME StackInv, StackInv', NEW h \in Host, PassTo(h)
  PROVE  \E x \in Ctx : Core!Switch(x)
<1>1. /\ running' = target[h] /\ target[h] \in Host
      /\ UNCHANGED <<by_ctx, fresh, ctx, stack>>
  BY PassToFact DEF StackInv
<1>2. Carried(running)' \in Ctx
  BY <1>1, GuestThreadsAssumption DEF StackInv, BatonInv, TypeOK, Carried
<1>3. \A x \in Ctx : Continuation(x)' = Continuation(x)
  BY <1>1 DEF Continuation
<1>4. QED
  BY <1>2, <1>3 DEF Core!Switch

\* A thread that is made, or made again, will start at its entry.
LEMMA CreateThreadCreates ==
  ASSUME ~RecreateOwn, StackInv, NEW h \in Host, NEW x \in Ctx, CreateThread(h, x)
  PROVE  Core!Create(x)
<1>1. running = h /\ x # Carried(h) /\ fresh' = fresh \cup {x}
      /\ UNCHANGED <<running, by_ctx, ctx, stack>>
  BY DEF CreateThread, GuestCode, Executing, Carried
<1>2. Carried(running)' = Carried(running) /\ x # Carried(running)
  BY <1>1 DEF Carried
<1>3. Continuation(x)' = <<"code">>
  BY <1>1 DEF Continuation
<1>4. \A y \in Ctx \ {x} : Continuation(y)' = Continuation(y)
  BY <1>1 DEF Continuation
<1>5. QED
  BY <1>2, <1>3, <1>4 DEF Core!Create

\* Every step of the host threads is a step of the single core, or none.
LEMMA StepRefines ==
  ~RecreateOwn /\ StackInv /\ StackInv' /\ [Next]_vars =>
    [Core!Next]_<<Carried(running), [x \in Ctx |-> Continuation(x)]>>
<1> SUFFICES ASSUME ~RecreateOwn, StackInv, StackInv', [Next]_vars
             PROVE  Core!Next \/ UNCHANGED <<Carried(running), [x \in Ctx |-> Continuation(x)]>>
  OBVIOUS
<1>1. CASE UNCHANGED vars
  BY <1>1 DEF vars, hostVars, guestVars, Carried, Continuation
<1>2. CASE Next
  <2> PICK h \in Host :
        \/ Acquire(h) \/ SpuriousWake(h) \/ PassTo(h) \/ Yield(h) \/ ExitThread(h)
        \/ HandlerReschedules(h) \/ Deliver(h) \/ HandlerReturns(h)
        \/ \E x \in Ctx :
             SelectThread(h, x) \/ CreateThread(h, x) \/ Wakeup(h, x) \/ Stop(h, x)
    BY <1>2 DEF Next
  <2>1. CASE Acquire(h)
    BY <2>1, AcquireRuns DEF Core!Next
  <2>2. CASE SpuriousWake(h)
    <3>1. UNCHANGED <<running, by_ctx, fresh, ctx, stack>>
      BY <2>2 DEF SpuriousWake
    <3>2. QED
      BY <3>1 DEF Carried, Continuation
  <2>3. CASE PassTo(h)
    BY <2>3, PassToSwitches DEF Core!Next
  <2>4. CASE Yield(h) \/ ExitThread(h) \/ HandlerReschedules(h)
    BY <2>4, YieldRuns DEF Core!Next
  <2>5. CASE Deliver(h)
    BY <2>5, DeliverRuns DEF Core!Next
  <2>6. CASE HandlerReturns(h)
    <3>1. h = running /\ UNCHANGED <<running, by_ctx, fresh, ctx>>
      BY <2>6 DEF HandlerReturns, Executing
    <3>2. \A g \in Host \ {h} : stack'[g] = stack[g]
      BY <2>6 DEF HandlerReturns, StackInv, BatonInv, TypeOK
    <3>3. QED
      BY <3>1, <3>2, GuestCodeRuns DEF Core!Next
  <2>7. ASSUME NEW x \in Ctx, SelectThread(h, x)
        PROVE  Core!Next
    BY <2>7, SelectThreadRuns DEF Core!Next
  <2>8. ASSUME NEW x \in Ctx, CreateThread(h, x)
        PROVE  Core!Next
    BY <2>8, CreateThreadCreates DEF Core!Next
  <2>9. ASSUME NEW x \in Ctx, Wakeup(h, x) \/ Stop(h, x)
        PROVE  UNCHANGED <<Carried(running), [y \in Ctx |-> Continuation(y)]>>
    <3>1. UNCHANGED <<running, by_ctx, fresh, ctx, stack>>
      BY <2>9 DEF Wakeup, Stop, hostVars
    <3>2. QED
      BY <3>1 DEF Carried, Continuation
  <2>10. QED
    BY <2>1, <2>2, <2>3, <2>4, <2>5, <2>6, <2>7, <2>8, <2>9
<1>3. QED
  BY <1>1, <1>2

LEMMA InitRefines == Init => Core!Init
<1> SUFFICES ASSUME Init PROVE Core!Init
  OBVIOUS
<1>1. Carried(running) = Main /\ \A x \in Ctx : Continuation(x) = <<"code">>
  BY GuestThreadsAssumption DEF Init, Carried, Continuation
<1>2. QED
  BY <1>1 DEF Core!Init

\* The host threads and their baton implement the console's single core: one
\* guest thread runs at a time, and a context that is loaded goes on exactly
\* where it was left (os.cpp 3-15).
THEOREM ImplementsCore ==
  ASSUME ~RecreateOwn
  PROVE  Spec => ImplementsSingleCore
<1>1. Init => Core!Init
  BY InitRefines
<1>2. StackInv /\ StackInv' /\ [Next]_vars =>
        [Core!Next]_<<Carried(running), [x \in Ctx |-> Continuation(x)]>>
  BY StepRefines
<1>3. Spec => []StackInv
  BY StackInvariant
<1>4. QED
  BY <1>1, <1>2, <1>3, PTL DEF Spec, ImplementsSingleCore, Core!Spec

-----------------------------------------------------------------------------
(***************************************************************************)
(* Clock: no raised line is missed, and where the host's events stay set   *)
(* the idle loop does not sleep on one and the clock thread never sleeps   *)
(* past the decrementer.                                                   *)
(***************************************************************************)
LEMMA ClockStarts == ClockInit => ClockInv
<1>. SUFFICES ASSUME ClockInit PROVE ClockInv
  OBVIOUS
<1>1. /\ vi_left \in 0..Field /\ dec_left \in 0..(DecMax + 1) /\ ar_left \in 0..DmaTime
      /\ wake \in 0..Field /\ writes \in 0..MaxWrites
  BY ClockAssumption DEF ClockInit
<1>2. ClockTypeOK
  BY <1>1 DEF ClockInit, ClockTypeOK, Clk, Cpu
<1>3. LinesTold /\ IdleSeen /\ KickSeen
  BY DEF ClockInit, LinesTold, IdleSeen, IdleIsWoken, KickSeen, Sleeping
<1>. QED
  BY <1>2, <1>3 DEF ClockInv

USE DEF External, Decrementer, InCode, dec, clock, devices, guest

-----------------------------------------------------------------------------
(* Types.                                                                  *)

LEMMA ClockTypes ==
  ASSUME ClockTypeOK, ClockStep
  PROVE  ClockTypeOK'
<1>1. CASE Wake
  <2>1. cpu' \in Cpu
    BY <1>1 DEF Wake, ClockTypeOK, Cpu
  <2>2. idle_event' \in BOOLEAN
    BY <1>1 DEF Wake, ClockTypeOK
  <2>3. /\ UNCHANGED <<dec, clk, vi_left, wake, kick, kick_event, devices>>
        /\ UNCHANGED <<ee, idle_waiting, pending, writes>>
        /\ waking' = FALSE
    BY <1>1 DEF Wake
  <2>. QED
    BY <2>1, <2>2, <2>3 DEF ClockTypeOK
<1>2. CASE ClockLooks
  <2>1. CASE vi_left = 0
    BY <1>2, <2>1, ClockAssumption DEF ClockLooks, Raise, ClockTypeOK, Clk
  <2>2. CASE vi_left # 0
    BY <1>2, <2>2 DEF ClockLooks, ClockTypeOK, Clk
  <2>. QED
    BY <2>1, <2>2
<1>3. CASE ClockTicks
  <2>1. wake' \in 0..Field
    BY <1>3, ClockAssumption DEF ClockTicks, Lesser, ClockTypeOK
  <2>2. CASE ArDue
    BY <1>3, <2>1, <2>2 DEF ClockTicks, ArEnds, Raise, ClockTypeOK, Clk
  <2>3. CASE ~ArDue
    BY <1>3, <2>1, <2>3 DEF ClockTicks, ClockTypeOK, Clk
  <2>. QED
    BY <2>2, <2>3
<1>4. CASE ClockDec
  <2>1. wake' \in 0..Field
    BY <1>4, ClockAssumption DEF ClockDec, Lesser, ClockTypeOK
  <2>2. CASE dec_armed /\ dec_left = 0
    BY <1>4, <2>1, <2>2 DEF ClockDec, Raise, ClockTypeOK, Clk
  <2>3. CASE ~(dec_armed /\ dec_left = 0)
    BY <1>4, <2>1, <2>3 DEF ClockDec, ClockTypeOK, Clk
  <2>. QED
    BY <2>2, <2>3
<1>5. CASE ClockTests
  <2>1. CASE wake = 0
    BY <1>5, <2>1 DEF ClockTests, ClockTypeOK, Clk
  <2>2. CASE wake > 0 /\ kick
    BY <1>5, <2>2 DEF ClockTests, ClockTypeOK, Clk
  <2>3. CASE wake > 0 /\ ~kick
    BY <1>5, <2>3 DEF ClockTests, ClockTypeOK, Clk
  <2>. QED
    BY <2>1, <2>2, <2>3 DEF ClockTypeOK
<1>6. CASE ClockBlocks
  BY <1>6 DEF ClockBlocks, ClockTypeOK, Clk
<1>7. CASE ClockWakes
  <2>1. clk' = "test" /\ kick_event' = FALSE
    BY <1>7 DEF ClockWakes
  <2>. QED
    BY <1>7, <2>1 DEF ClockWakes, ClockTypeOK, Clk
<1>. QED
  BY <1>1, <1>2, <1>3, <1>4, <1>5, <1>6, <1>7 DEF ClockStep

LEMMA ProgramTypes ==
  ASSUME ClockTypeOK, Program \/ Enable
  PROVE  ClockTypeOK'
<1>0. ASSUME Kick PROVE kick' \in BOOLEAN /\ kick_event' \in BOOLEAN /\ clk' \in Clk
  BY <1>0 DEF Kick, ClockTypeOK, Clk
<1>1. CASE \E v \in 0..DecMax : MtDec(v)
  BY <1>0, <1>1, ClockAssumption DEF MtDec, Writes, ClockTypeOK
<1>2. CASE MtDecNegative
  BY <1>0, <1>2, ClockAssumption DEF MtDecNegative, Writes, ClockTypeOK
<1>3. CASE MtTb
  BY <1>0, <1>3, ClockAssumption DEF MtTb, Writes, ClockTypeOK
<1>4. CASE StartDma
  BY <1>4, ClockAssumption DEF StartDma, Writes, ClockTypeOK
<1>5. CASE Disable
  BY <1>5 DEF Disable, ClockTypeOK
<1>6. CASE IdleStarts
  BY <1>6 DEF IdleStarts, ClockTypeOK, Cpu
<1>7. CASE Enable
  <2>1. cpu' \in Cpu
    BY <1>7 DEF Enable, Cpu
  <2>. QED
    BY <1>7, <2>1 DEF Enable, ClockTypeOK
<1>. QED
  BY <1>1, <1>2, <1>3, <1>4, <1>5, <1>6, <1>7 DEF Program

LEMMA PollTypes ==
  ASSUME ClockTypeOK, PollStarts \/ Poll \/ HandlerEnds \/ TimePasses
  PROVE  ClockTypeOK'
<1>1. CASE PollStarts \/ PollClears
  <2>1. CASE PollStarts
    BY <2>1 DEF PollStarts, ClockTypeOK, Cpu
  <2>2. CASE PollClears
    <3>1. cpu' \in Cpu
      BY <2>2 DEF PollClears, Cpu
    <3>. QED
      BY <2>2, <3>1 DEF PollClears, ClockTypeOK
  <2>. QED
    BY <1>1, <2>1, <2>2
<1>2. CASE PollHw
  <2>1. /\ cpu' \in Cpu
        /\ pending' \in BOOLEAN
        /\ UNCHANGED <<dec, clock, vi, ee, idle_waiting, idle_event, writes>>
    BY <1>2 DEF PollHw, ClockTypeOK, Cpu
  <2>2. ar_busy' \in BOOLEAN /\ ar_int' \in BOOLEAN /\ UNCHANGED ar_left
    BY <1>2 DEF PollHw, ArEnds, ClockTypeOK
  <2>. QED
    BY <2>1, <2>2 DEF ClockTypeOK
<1>3. CASE PollDec
  <2>1. /\ cpu' \in Cpu
        /\ dec_armed' \in BOOLEAN
        /\ pending' \in BOOLEAN
    BY <1>3 DEF PollDec, ClockTypeOK, Cpu
  <2>2. UNCHANGED <<dec_left, clock, devices, ee, idle_waiting, idle_event, writes>>
    BY <1>3 DEF PollDec
  <2>. QED
    BY <2>1, <2>2 DEF ClockTypeOK
<1>4. CASE IdleWaits \/ IdleLooks \/ IdleBlocks \/ IdleEnds \/ IdleLeaves
  <2>1. cpu' \in Cpu
    BY <1>4 DEF IdleWaits, IdleLooks, IdleBlocks, IdleEnds, IdleLeaves, Cpu
  <2>2. CASE IdleWaits
    BY <2>1, <2>2 DEF IdleWaits, ClockTypeOK
  <2>3. CASE IdleLooks
    BY <2>1, <2>3 DEF IdleLooks, ClockTypeOK
  <2>6. CASE IdleBlocks
    BY <2>1, <2>6 DEF IdleBlocks, ClockTypeOK
  <2>4. CASE IdleEnds
    BY <2>1, <2>4 DEF IdleEnds, ClockTypeOK
  <2>5. CASE IdleLeaves
    BY <2>1, <2>5 DEF IdleLeaves, ClockTypeOK
  <2>. QED
    BY <1>4, <2>2, <2>3, <2>4, <2>5, <2>6
<1>5. CASE HandlerEnds
  <2>1. cpu' \in Cpu /\ vi' \in BOOLEAN /\ ar_int' \in BOOLEAN
    BY <1>5 DEF HandlerEnds, Cpu, ClockTypeOK
  <2>2. /\ UNCHANGED <<dec, clock, ar_busy, ar_left, ee>>
        /\ UNCHANGED <<idle_waiting, idle_event, pending, writes>>
    BY <1>5 DEF HandlerEnds
  <2>. QED
    BY <2>1, <2>2 DEF ClockTypeOK
<1>6. CASE TimePasses
  BY <1>6, ClockAssumption DEF TimePasses, Less, ClockTypeOK, Cpu
<1>. QED
  BY <1>1, <1>2, <1>3, <1>4, <1>5, <1>6 DEF Poll

-----------------------------------------------------------------------------
(* Lines and the idle loop.                                                *)

LEMMA ClockTells ==
  ASSUME ClockTypeOK, LinesTold, IdleSeen, ClockStep
  PROVE  LinesTold' /\ IdleSeen'
<1>. USE DEF LinesTold, IdleSeen, IdleIsWoken, ClockTypeOK
<1>1. CASE Wake
  BY <1>1 DEF Wake, Cpu
<1>2. CASE ClockLooks
  BY <1>2 DEF ClockLooks, Raise
<1>3. CASE ClockTicks
  BY <1>3 DEF ClockTicks, ArEnds, Raise
<1>4. CASE ClockDec
  BY <1>4 DEF ClockDec, Raise
<1>5. CASE ClockTests
  BY <1>5 DEF ClockTests
<1>6. CASE ClockBlocks
  BY <1>6 DEF ClockBlocks
<1>7. CASE ClockWakes
  BY <1>7 DEF ClockWakes
<1>. QED
  BY <1>1, <1>2, <1>3, <1>4, <1>5, <1>6, <1>7 DEF ClockStep

LEMMA GuestTells ==
  ASSUME ClockTypeOK, LinesTold, IdleSeen,
         Program \/ Enable \/ PollStarts \/ Poll \/ HandlerEnds \/ TimePasses
  PROVE  LinesTold' /\ IdleSeen'
<1>. USE DEF LinesTold, IdleSeen, IdleIsWoken, ClockTypeOK
<1>1. CASE Program
  BY <1>1 DEF Program, MtDec, MtDecNegative, MtTb, StartDma, Disable, IdleStarts, Writes, Kick
<1>2. CASE Enable \/ PollStarts \/ PollClears \/ HandlerEnds
  BY <1>2 DEF Enable, PollStarts, PollClears, HandlerEnds
<1>3. CASE PollHw \/ PollDec
  BY <1>3 DEF PollHw, PollDec, ArEnds
<1>4. CASE IdleWaits \/ IdleLooks \/ IdleBlocks \/ IdleEnds \/ IdleLeaves
  BY <1>4 DEF IdleWaits, IdleLooks, IdleBlocks, IdleEnds, IdleLeaves
<1>5. CASE TimePasses
  BY <1>5 DEF TimePasses
<1>. QED
  BY <1>1, <1>2, <1>3, <1>4, <1>5 DEF Poll

-----------------------------------------------------------------------------
(* The kick, where it stays set.                                           *)

LEMMA ClockSeesKick ==
  ASSUME Windows, ClockTypeOK, KickSeen, ClockStep
  PROVE  KickSeen'
<1>. USE DEF KickSeen, Sleeping, ClockTypeOK
<1>1. CASE Wake
  BY <1>1 DEF Wake
<1>2. CASE ClockLooks \/ ClockTicks
  BY <1>2 DEF ClockLooks, ClockTicks
<1>3. CASE ClockDec
  BY <1>3, ClockAssumption DEF ClockDec, Raise, Lesser
<1>4. CASE ClockTests
  <2>1. CASE wake = 0
    BY <1>4, <2>1 DEF ClockTests
  <2>2. CASE wake > 0 /\ kick
    BY <1>4, <2>2 DEF ClockTests
  <2>3. CASE wake > 0 /\ ~kick
    BY <1>4, <2>3 DEF ClockTests
  <2>. QED
    BY <2>1, <2>2, <2>3
<1>5. CASE ClockBlocks \/ ClockWakes
  BY <1>5 DEF ClockBlocks, ClockWakes
<1>. QED
  BY <1>1, <1>2, <1>3, <1>4, <1>5 DEF ClockStep

LEMMA GuestKicks ==
  ASSUME Windows, ClockTypeOK, KickSeen,
         Program \/ Enable \/ PollStarts \/ Poll \/ HandlerEnds \/ TimePasses
  PROVE  KickSeen'
<1>. USE DEF KickSeen, Sleeping, ClockTypeOK
<1>1. CASE \E v \in 0..DecMax : MtDec(v)
  BY <1>1, ClockAssumption DEF MtDec, Kick
<1>2. CASE MtDecNegative
  BY <1>2 DEF MtDecNegative, Kick
<1>3. CASE MtTb
  BY <1>3 DEF MtTb, Kick, Writes
<1>4. CASE StartDma \/ Disable \/ IdleStarts
  BY <1>4 DEF StartDma, Disable, IdleStarts, Writes
<1>5. CASE Enable \/ PollStarts \/ PollClears \/ HandlerEnds
  BY <1>5 DEF Enable, PollStarts, PollClears, HandlerEnds
<1>6. CASE PollHw \/ PollDec
  BY <1>6 DEF PollHw, PollDec
<1>7. CASE IdleWaits \/ IdleLooks \/ IdleBlocks \/ IdleEnds \/ IdleLeaves
  BY <1>7 DEF IdleWaits, IdleLooks, IdleBlocks, IdleEnds, IdleLeaves
<1>8. CASE TimePasses
  BY <1>8, ClockAssumption DEF TimePasses, Less, Asleep
<1>. QED
  BY <1>1, <1>2, <1>3, <1>4, <1>5, <1>6, <1>7, <1>8 DEF Program, Poll

-----------------------------------------------------------------------------
(* The theorems.                                                           *)

THEOREM ClockInvariant == ClockSpec => []ClockInv
<1>1. ClockInv /\ [ClockNext]_clockVars => ClockInv'
  <2>. SUFFICES ASSUME ClockInv, [ClockNext]_clockVars PROVE ClockInv'
    OBVIOUS
  <2>1. CASE ClockStep
    BY <2>1, ClockTypes, ClockTells, ClockSeesKick DEF ClockInv
  <2>2. CASE Program \/ Enable \/ PollStarts \/ Poll \/ HandlerEnds \/ TimePasses
    BY <2>2, ProgramTypes, PollTypes, GuestTells, GuestKicks DEF ClockInv
  <2>3. CASE UNCHANGED clockVars
    BY <2>3 DEF clockVars, ClockInv, ClockTypeOK, LinesTold, IdleSeen, IdleIsWoken, KickSeen, Sleeping
  <2>. QED
    BY <2>1, <2>2, <2>3 DEF ClockNext
<1>. QED
  BY ClockStarts, <1>1, PTL DEF ClockSpec

\* The state stays within its types: no time is less than none.
THEOREM ClockTyped == ClockSpec => []ClockTypeOK
<1>1. ClockInv => ClockTypeOK
  BY DEF ClockInv
<1>. QED
  BY ClockInvariant, <1>1, PTL

\* Guest code with interrupts on and a line up will poll (os_raise, ppc_poll).
THEOREM LinesAreTold == ClockSpec => []LineTold
<1>1. ClockInv => LineTold
  BY DEF ClockInv, LinesTold, LineTold
<1>. QED
  BY ClockInvariant, <1>1, PTL

\* With events that stay set the idle loop does not sleep through a raise: one
\* between its look at g_ppc_pending and its wait is found there (os_raise,
\* ppc_idle, idle_wait).
THEOREM IdleWakes == ClockSpec => [](Windows => IdleIsWoken)
<1>1. ClockInv => (Windows => IdleIsWoken)
  BY DEF ClockInv, IdleSeen
<1>. QED
  BY ClockInvariant, <1>1, PTL

\* With events that stay set, the clock thread's sleep ends no later than the
\* decrementer runs out, and what has run out is told (clock_kick, clock_sleep,
\* clock_main, ppc_mtdec).
THEOREM NoLostKick == ClockSpec => [](Windows => WakesInTime /\ DecTold)
<1>1. ClockInv => (Windows => WakesInTime /\ DecTold)
  BY DEF ClockInv, ClockTypeOK, KickSeen, Sleeping, WakesInTime, DecTold, Asleep
<1>. QED
  BY ClockInvariant, <1>1, PTL
=============================================================================
