---------------------------- MODULE GuestThreads ----------------------------
(***************************************************************************)
(* Guest threads on host threads (runtime/os.cpp).                         *)
(*                                                                         *)
(* The SDK's scheduler runs recompiled.  Only its context switch is        *)
(* replaced: every guest thread lives on a host thread of its own, and     *)
(* OSLoadContext hands a baton (g_running) to the host thread that carries *)
(* the target context.  A host thread that runs guest code holds the       *)
(* baton; the others sit in wait_baton on their condition variables, and   *)
(* one whose guest thread was re-created is a zombie that has to unwind.   *)
(*                                                                         *)
(* What a host thread's C++ stack holds is abstracted to the calls the     *)
(* context switch can tell apart:                                          *)
(*   "code"    code of the guest thread (the bottom of every stack)        *)
(*   "exit"    OSExitThread, from which a thread never comes back          *)
(*   "select"  the SDK's SelectThread: in its idle loop, or inside         *)
(*             OSLoadContext                                               *)
(*   a context the exception handler deliver() called for it; these, from  *)
(*             the bottom up, are what HostThread::delivering holds        *)
(*                                                                         *)
(* The SDK itself is not in the repository: the operations it performs are *)
(* modelled from what os.cpp says of it.  Thread priorities are left out:  *)
(* the scheduler may pick any ready thread.                                *)
(***************************************************************************)
EXTENDS Naturals, Sequences, FiniteSets

CONSTANTS
  Ctx,         \* the guest's OSContexts, one per OSThread
  Main,        \* the context of the thread main() runs in
  Host,        \* the host threads the program may ever start
  MainHost,    \* the one os_start_main() starts
  Idle,        \* the SDK's IdleContext
  Null,        \* no host thread, no context
  MaxDepth,    \* bound: nested interrupts on one host thread
  RecreateOwn  \* whether an interrupt handler may re-create the dead thread
               \* whose host thread runs the idle loop it interrupted

Call == {"code", "exit", "select"}

ASSUME GuestThreadsAssumption ==
  /\ Main \in Ctx
  /\ MainHost \in Host
  /\ Null \notin Ctx \cup Host
  /\ Idle \notin Ctx \cup {Null}
  /\ (Ctx \cup {Idle}) \cap Call = {}
  /\ MaxDepth \in Nat
  /\ RecreateOwn \in BOOLEAN

VARIABLES
  \* the host side, os.cpp 60-76
  running,     \* g_running: the host thread that has the baton
  by_ctx,      \* g_by_ctx: which host thread carries a context
  fresh,       \* g_fresh: contexts made by OSCreateThread, not yet started
  ctx,         \* HostThread::ctx
  zombie,      \* HostThread::zombie
  pc,          \* where a host thread is in os.cpp
  target,      \* hle_OSLoadContext's local `to`
  stack,       \* the calls on a host thread's C++ stack, innermost last
  died,        \* rt_die was called
  \* the guest side, in guest memory
  tstate,      \* OSThread.state
  exc,         \* the contexts with CTX_STATE_EXC set
  current,     \* LOW_CURRENT_THREAD
  context      \* LOW_CURRENT_CONTEXT

hostVars  == <<running, by_ctx, fresh, ctx, zombie, pc, target, stack, died>>
guestVars == <<tstate, exc, current, context>>
vars      == <<hostVars, guestVars>>

Frame  == Call \cup Ctx \cup {Idle}
PC     == {"unborn", "waiting", "asleep", "guest", "handing", "gone"}
TState == {"none", "ready", "running", "suspended", "dead"}

Top(s) == s[Len(s)]
Pop(s) == SubSeq(s, 1, Len(s) - 1)

Ready == {x \in Ctx : tstate[x] = "ready"}

\* h executes recompiled code
Executing(h) == pc[h] = "guest" /\ running = h /\ ~died

-----------------------------------------------------------------------------
(* The baton.                                                              *)

\* What wait_baton does when it looks at its condition with g_mx held and
\* g_running = r: throw ThreadExit, return, or sleep on the condition variable.
\* The zombie test comes last, so it wins over the baton.
\* (Mutants: an if for the while; no zombie test.)
WaitBatonOnce(h, r, z) == IF z[h] THEN "gone" ELSE "guest"
WaitBatonOnly(h, r, z) == IF r = h THEN "guest" ELSE "asleep"
WaitBaton(h, r, z) == IF z[h] THEN "gone" ELSE IF r = h THEN "guest" ELSE "asleep"

\* cv.notify_one() on h's condition variable
\* (Mutant: the notify left out.)
NotifyLost(p, h) == p
Notify(p, h) == IF p[h] = "asleep" THEN [p EXCEPT ![h] = "waiting"] ELSE p

\* wait_baton is left: ThreadExit unwinds the host thread's stack, and with the
\* baton OSLoadContext returns to SelectThread, which returns; a thread that
\* starts is called in neither
Leave(h) ==
  /\ stack' = CASE pc'[h] = "gone" -> [stack EXCEPT ![h] = <<>>]
                [] pc'[h] = "guest" /\ Top(stack[h]) = "select" ->
                     [stack EXCEPT ![h] = Pop(@)]
                [] OTHER -> stack
  /\ died' = (died \/ (pc'[h] = "guest" /\ Top(stack'[h]) = "exit"))

\* a host thread that started, or woke up, looks at wait_baton's condition
Acquire(h) ==
  /\ pc[h] = "waiting"
  /\ pc' = [pc EXCEPT ![h] = WaitBaton(h, running, zombie)]
  /\ Leave(h)
  /\ UNCHANGED <<running, by_ctx, fresh, ctx, zombie, target, guestVars>>

\* a condition variable may wake without a notify
SpuriousWake(h) ==
  /\ pc[h] = "asleep"
  /\ pc' = Notify(pc, h)
  /\ UNCHANGED <<running, by_ctx, fresh, ctx, zombie, target, stack, died, guestVars>>

\* pass_to: g_mx was released since hle_OSLoadContext looked up the target
PassTo(h) ==
  /\ pc[h] = "handing"
  /\ running' = target[h]
  /\ target' = [target EXCEPT ![h] = Null]
  /\ pc' = LET woken == Notify(pc, target[h])
           IN  [woken EXCEPT ![h] = WaitBaton(h, target[h], zombie)]
  /\ Leave(h)
  /\ UNCHANGED <<by_ctx, fresh, ctx, zombie, guestVars>>

-----------------------------------------------------------------------------
(* The hooks.                                                              *)

\* g_by_ctx[x] = h, which replaces an entry that is there
\* (Mutant: insert() in its place, which does not.)
RegisterOnce(x, h) == IF by_ctx[x] = Null THEN [by_ctx EXCEPT ![x] = h] ELSE by_ctx
Register(x, h) == [by_ctx EXCEPT ![x] = h]

\* HostThread::ctx of h becomes x
\* (Mutant: the assignment left out.)
CarryNothing(h, x) == ctx
Carry(h, x) == [ctx EXCEPT ![h] = x]

\* the host thread o that carried a reused OSThread, if any, has to unwind
Retire(o) == IF o = Null THEN zombie ELSE [zombie EXCEPT ![o] = TRUE]

\* adopt: this host thread carries the guest thread whose context is x
Adopt(h, x) ==
  /\ ctx'    = IF ctx[h] = Null THEN Carry(h, x) ELSE ctx
  /\ by_ctx' = IF ctx[h] = Null THEN Register(x, h) ELSE by_ctx
  /\ died'   = (ctx[h] \notin {Null, x})

\* OSLoadContext, called from SelectThread, returns to it: the end of an
\* interrupt (delivering.back(): the handler SelectThread runs in), or this
\* thread goes on
\* (Mutant: any load inside an interrupt taken for its end.)
LoadReturnsInInterrupt(h, x) == Top(Pop(stack[h])) \in Ctx \/ x = ctx[h]
LoadReturns(h, x) == x \in {Top(Pop(stack[h])), ctx[h]}

NewHost == CHOOSE n \in Host : pc[n] = "unborn"

\* OSLoadContext(x) starts a host thread for a context fresh from
\* OSCreateThread, and retires the one that carried it before
LoadFresh(h, x) ==
  LET n == NewHost
      o == by_ctx[x]
      p == IF o = Null THEN pc ELSE Notify(pc, o)
  IN  /\ \E m \in Host : pc[m] = "unborn"
      /\ fresh' = fresh \ {x}
      /\ zombie' = Retire(o)
      /\ ctx' = Carry(n, x)
      /\ by_ctx' = Register(x, n)
      /\ stack' = [stack EXCEPT ![n] = <<"code">>]
      /\ target' = [target EXCEPT ![h] = n]
      /\ pc' = [p EXCEPT ![h] = "handing", ![n] = "waiting"]
      /\ UNCHANGED died

\* OSLoadContext(x) finds the host thread that carries x
LoadCarried(h, x) ==
  /\ died' = (by_ctx[x] = Null)
  /\ target' = [target EXCEPT ![h] = by_ctx[x]]
  /\ pc' = IF died' THEN pc ELSE [pc EXCEPT ![h] = "handing"]
  /\ UNCHANGED <<fresh, zombie, ctx, by_ctx, stack>>

\* the host thread that will have the baton
\* (Mutant: the tables looked up in the other order.)
LoadOtherKnownFirst(h, x) == IF by_ctx[x] # Null THEN LoadCarried(h, x) ELSE LoadFresh(h, x)
LoadOther(h, x) == IF x \in fresh THEN LoadFresh(h, x) ELSE LoadCarried(h, x)

\* hle_OSLoadContext on host thread h, called from SelectThread
LoadContext(h, x) ==
  /\ exc' = exc \ {x}
  /\ IF LoadReturns(h, x)
     THEN LET rest == Pop(stack[h])
          IN  /\ stack' = [stack EXCEPT ![h] = rest]
              /\ died' = (Top(rest) = "exit")
              /\ UNCHANGED <<fresh, zombie, ctx, by_ctx, target, pc>>
     ELSE LoadOther(h, x)
  /\ UNCHANGED running

-----------------------------------------------------------------------------
(* The SDK, as os.cpp describes it.                                        *)

\* the context deliver() gave the handler, which the dispatcher loads at its end
Interrupted(h) == Top(stack[h])

\* h is in an exception handler
InHandler(h) == Top(stack[h]) \in Ctx \cup {Idle}

\* SelectThread, up to the choice of the next thread: a running thread goes
\* back to the run queue; the context is saved unless an exception saved it;
\* with nothing to run the idle loop becomes the current context.
\* s is OSThread.state as SelectThread finds it, base the stack that calls it.
Reschedule(h, s, base) ==
  LET t == IF s[current] = "running" THEN [s EXCEPT ![current] = "ready"] ELSE s
  IN  /\ context = current
      /\ tstate' = t
      /\ IF current \in exc THEN UNCHANGED <<ctx, by_ctx, died>> ELSE Adopt(h, current)
      /\ stack' = [stack EXCEPT ![h] = Append(base, "select")]
      /\ current' = Null
      /\ context' = IF \E x \in Ctx : t[x] = "ready" THEN context ELSE Idle
      /\ UNCHANGED <<running, fresh, zombie, pc, target, exc>>

\* a thread yields, is preempted, or blocks
Yield(h) ==
  /\ Executing(h) /\ Top(stack[h]) = "code"
  /\ \E s \in {"running", "suspended"} :
       Reschedule(h, [tstate EXCEPT ![current] = s], stack[h])

\* OSExitThread, or OSCancelThread of the thread that runs
ExitThread(h) ==
  /\ Executing(h) /\ Top(stack[h]) = "code"
  /\ Reschedule(h, [tstate EXCEPT ![current] = "dead"], Append(Pop(stack[h]), "exit"))

\* the end of the SDK's interrupt dispatcher: __OSReschedule
HandlerReschedules(h) ==
  /\ Executing(h) /\ InHandler(h)
  /\ current # Null /\ Interrupted(h) = current
  /\ Reschedule(h, tstate, stack[h])

\* SelectThread takes a thread from the run queue and loads its context
SelectThread(h, x) ==
  /\ Executing(h) /\ Top(stack[h]) = "select"
  /\ tstate[x] = "ready"
  /\ tstate' = [tstate EXCEPT ![x] = "running"]
  /\ current' = x
  /\ context' = x
  /\ LoadContext(h, x)

\* how many exception handlers are on h's stack
Depth(h) == Cardinality({i \in DOMAIN stack[h] : stack[h][i] \in Ctx \cup {Idle}})

\* Guest code runs where the SDK lets it: in a thread, or in a handler
GuestCode(h) == Executing(h) /\ (Top(stack[h]) = "code" \/ InHandler(h))

\* OSCreateThread succeeds (hle_OSCreateThread): a new or reused OSThread,
\* suspended.  Bound: no more threads than there are host threads to come.
CreateThread(h, x) ==
  /\ GuestCode(h)
  /\ x # Main /\ tstate[x] \in {"none", "dead"}
  /\ x = ctx[h] => RecreateOwn /\ current = Null
  /\ Cardinality({n \in Host : pc[n] = "unborn"}) > Cardinality(fresh)
  /\ tstate' = [tstate EXCEPT ![x] = "suspended"]
  /\ exc' = exc \ {x}
  /\ fresh' = fresh \cup {x}
  /\ UNCHANGED <<running, by_ctx, ctx, zombie, pc, target, stack, died, current, context>>

\* OSResumeThread, OSWakeupThread: priorities decide whether the caller is
\* preempted, which is a Yield or HandlerReschedules that may follow
Wakeup(h, x) ==
  /\ GuestCode(h)
  /\ tstate[x] = "suspended"
  /\ tstate' = [tstate EXCEPT ![x] = "ready"]
  /\ UNCHANGED <<hostVars, exc, current, context>>

\* OSSuspendThread or OSCancelThread of a thread, from a handler also of the
\* one it interrupted; cancelling clears the context.
\* Bound: not at the last level, which could not take the interrupt that wakes it.
Stop(h, x) ==
  /\ GuestCode(h)
  /\ tstate[x] \in {"ready", "suspended", "running"}
  /\ x = current => InHandler(h) /\ Depth(h) < MaxDepth
  /\ \/ tstate' = [tstate EXCEPT ![x] = "suspended"] /\ UNCHANGED exc
     \/ tstate' = [tstate EXCEPT ![x] = "dead"] /\ exc' = exc \ {x}
  /\ UNCHANGED <<hostVars, current, context>>

-----------------------------------------------------------------------------
(* Interrupts.                                                             *)

\* an interrupt may be the first to meet the main thread's context
DeliverAdopts(h) == ctx[h] = Null /\ context = current

\* deliver() calls the handler: at a poll in guest code with EE set, or in
\* the idle loop
Deliver(h) ==
  /\ Executing(h)
  /\ \/ Top(stack[h]) = "code"
     \/ Top(stack[h]) = "select" /\ context = Idle
  /\ Depth(h) < MaxDepth
  /\ IF DeliverAdopts(h)
     THEN Adopt(h, context)
     ELSE UNCHANGED <<ctx, by_ctx, died>>
  /\ exc' = exc \cup ({context} \cap Ctx)
  /\ stack' = [stack EXCEPT ![h] = Append(@, context)]
  /\ UNCHANGED <<running, fresh, zombie, pc, target, tstate, current, context>>

\* The dispatcher loads the context it interrupted, which returns to deliver()
HandlerReturns(h) ==
  /\ Executing(h) /\ InHandler(h)
  /\ LET x == Interrupted(h)
     IN  /\ x \in Ctx => x = current /\ tstate[x] = "running"
         /\ exc' = exc \ {x}
         /\ context' = x
  /\ stack' = [stack EXCEPT ![h] = Pop(@)]
  /\ UNCHANGED <<running, by_ctx, fresh, ctx, zombie, pc, target, died, tstate, current>>

-----------------------------------------------------------------------------
\* os_start_main: the main thread's host thread has the baton and is not
\* known to carry a context before the SDK saves one
Init ==
  /\ running = MainHost
  /\ by_ctx = [x \in Ctx |-> Null]
  /\ fresh = {}
  /\ ctx = [h \in Host |-> Null]
  /\ zombie = [h \in Host |-> FALSE]
  /\ pc = [h \in Host |-> IF h = MainHost THEN "waiting" ELSE "unborn"]
  /\ target = [h \in Host |-> Null]
  /\ stack = [h \in Host |-> <<"code">>]
  /\ died = FALSE
  /\ tstate = [x \in Ctx |-> IF x = Main THEN "running" ELSE "none"]
  /\ exc = {}
  /\ current = Main
  /\ context = Main

\* what a host thread does whether or not the guest wants it to
Baton(h) == Acquire(h) \/ PassTo(h)

Next ==
  \E h \in Host :
    \/ Acquire(h)
    \/ SpuriousWake(h)
    \/ PassTo(h)
    \/ Yield(h)
    \/ ExitThread(h)
    \/ HandlerReschedules(h)
    \/ Deliver(h)
    \/ HandlerReturns(h)
    \/ \E x \in Ctx :
         \/ SelectThread(h, x)
         \/ CreateThread(h, x)
         \/ Wakeup(h, x)
         \/ Stop(h, x)

Spec == Init /\ [][Next]_vars

\* the host's scheduler runs every runnable thread
FairSpec == Spec /\ \A h \in Host : WF_vars(Baton(h))

-----------------------------------------------------------------------------
(* Properties.                                                             *)

TypeOK ==
  /\ running \in Host
  /\ by_ctx \in [Ctx -> Host \cup {Null}]
  /\ fresh \in SUBSET Ctx
  /\ ctx \in [Host -> Ctx \cup {Null}]
  /\ zombie \in [Host -> BOOLEAN]
  /\ pc \in [Host -> PC]
  /\ target \in [Host -> Host \cup {Null}]
  /\ stack \in [Host -> Seq(Frame)]
  /\ died \in BOOLEAN
  /\ tstate \in [Ctx -> TState]
  /\ exc \in SUBSET Ctx
  /\ current \in Ctx \cup {Null}
  /\ context \in Ctx \cup {Idle}

\* One guest thread runs at a time (os.cpp 8-9): a host thread past wait_baton
\* holds the baton, and it keeps it between looking a context up and passing
\* the baton on, when g_mx is released.
OneGuestThread ==
  \A h \in Host : pc[h] \in {"guest", "handing"} => running = h

\* The baton is never with, nor on its way to, a host thread that was retired
\* or that was never started: no one would take it and the program would hang.
BatonIsTaken ==
  /\ ~zombie[running] /\ pc[running] # "unborn"
  /\ \A h \in Host : pc[h] = "handing" =>
       /\ target[h] \in Host /\ ~zombie[target[h]]
       /\ pc[target[h]] \in {"waiting", "asleep"}

\* The tables agree with the host threads: a context is found on the host
\* thread that carries it, and a host thread that carries a context and is
\* not the one found was retired.
OneHostPerContext ==
  /\ \A x \in Ctx : by_ctx[x] # Null => ctx[by_ctx[x]] = x /\ ~zombie[by_ctx[x]]
  /\ \A h \in Host : ctx[h] # Null => by_ctx[ctx[h]] = h \/ zombie[h]

\* Until the SDK saves a context the main thread runs alone on a host thread
\* that carries none; all the others carry theirs from the start (os.cpp 162-168).
BeforeAdoption ==
  /\ \A h \in Host : ctx[h] = Null /\ pc[h] # "unborn" => h = MainHost
  /\ ctx[MainHost] = Null =>
       /\ running = MainHost /\ pc[MainHost] # "handing"
       /\ by_ctx[Main] = Null /\ Main \notin exc
       /\ current = Main /\ context = Main
       /\ stack[MainHost] = <<"code">>

\* The inductive invariant behind the properties of the baton.
BatonInv ==
  /\ TypeOK
  /\ OneGuestThread
  /\ BatonIsTaken
  /\ OneHostPerContext
  /\ BeforeAdoption
  /\ Main \notin fresh
  /\ \A h \in Host : pc[h] = "unborn" => ctx[h] = Null /\ ~zombie[h]
  /\ \A h \in Host : pc[h] = "gone" => zombie[h]
  /\ pc[MainHost] # "unborn"

\* The host thread that runs a thread's code carries the thread the SDK calls
\* current; only before the SDK first saved a context may it carry none.
RightThread ==
  \A h \in Host : Executing(h) /\ Top(stack[h]) = "code" =>
    /\ current = context
    /\ ctx[h] = current \/ (h = MainHost /\ ctx[h] = Null /\ current = Main)

\* A handler that has not returned finds the context it interrupted on top of
\* its own host thread, however many switches came in between.
HandlerFindsItsContext ==
  \A h \in Host : Executing(h) /\ InHandler(h) =>
    /\ Interrupted(h) = IF current = Null THEN Idle ELSE current
    /\ current \in {ctx[h], Null}

\* "the OSThread was reused: retire its host thread" (os.cpp 185): the thread
\* the scheduler runs was started since it was created.
StartsAnew ==
  pc[running] = "guest" /\ current # Null /\ tstate[current] = "running" =>
    current \notin fresh

\* None of the runtime's ways to stop the program can happen: a host thread
\* running a context it does not carry, a context nobody carries, a thread
\* coming back from OSExitThread (os.cpp 123, 165, 196).
NeverDies == ~died

\* The thread that runs is the one the SDK believes in, and the runtime never
\* finds it is not: RightThread and NeverDies.
ThreadsInv == RightThread /\ NeverDies

\* The context of the thread whose host thread h is.
Carried(h) == IF ctx[h] = Null THEN Main ELSE ctx[h]

\* The calls on the stack of a host thread that is in SelectThread: called by
\* its thread, by a handler that interrupted its thread, or by OSExitThread.
Selecting(c) == {<<"code", "select">>, <<"code", c, "select">>, <<"exit", "select">>}

\* ... and of one whose idle loop was interrupted
Idling(c) ==
  {<<"code", "select", Idle>>, <<"code", c, "select", Idle>>, <<"exit", "select", Idle>>}

\* What can be on a host thread's stack, by where it is in os.cpp.
Shapes ==
  \A g \in Host :
    /\ pc[g] = "gone" => stack[g] = <<>>
    /\ pc[g] = "unborn" => stack[g] = <<"code">>
    /\ pc[g] \in {"waiting", "asleep"} => stack[g] \in {<<"code">>} \cup Selecting(ctx[g])
    /\ pc[g] = "handing" => stack[g] \in Selecting(ctx[g])
    /\ pc[g] = "guest" =>
         stack[g] \in {<<"code">>, <<"code", ctx[g]>>} \cup Selecting(ctx[g]) \cup Idling(ctx[g])

\* A thread that is in OSExitThread is dead until it is made again.
Exiting == {<<"exit", "select">>, <<"exit", "select", Idle>>}
ExitedDead ==
  \A g \in Host :
    ~zombie[g] /\ stack[g] \in Exiting /\ ctx[g] \notin fresh => tstate[ctx[g]] = "dead"

\* A thread that has started is carried.
StartedCarried ==
  /\ \A x \in Ctx : x \notin fresh /\ tstate[x] # "none" /\ by_ctx[x] = Null => x = Main
  /\ by_ctx[Main] = Null => ctx[MainHost] = Null

\* The host thread that has the baton, or will have it when it is passed.
Taker == IF pc[running] = "handing" THEN target[running] ELSE running

\* The SDK's current thread is the one the baton's holder carries, or, from the
\* load of its context until it runs, the one its taker carries.
CurrentCarried ==
  /\ Carried(running) \notin fresh
  /\ pc[running] = "guest" =>
       /\ stack[running] = <<"code">> =>
            /\ current = Carried(running) /\ context = current
            /\ tstate[current] = "running"
       /\ stack[running] = <<"code", ctx[running]>> => current = ctx[running]
       /\ stack[running] \notin {<<"code">>, <<"code", ctx[running]>>} => current = Null
  /\ pc[running] # "guest" =>
       /\ current = Carried(Taker) /\ context = current
       /\ current \notin fresh /\ tstate[current] = "running"

\* The inductive invariant behind the properties of the threads, without
\* RecreateOwn.
StackInv ==
  BatonInv /\ Shapes /\ ExitedDead /\ StartedCarried /\ CurrentCarried /\ NeverDies

\* Refinement (os.cpp 3-15): the core executes the thread the baton's holder
\* carries, and a context's continuation is on the stack of the host thread it
\* is found on, or at its entry while it is fresh.
Continuation(x) ==
  LET h == IF by_ctx[x] = Null /\ x = Main THEN MainHost ELSE by_ctx[x]
  IN  IF x \in fresh \/ h = Null
      THEN <<"code">>
      ELSE stack[h]

Core == INSTANCE SingleCore WITH
          Boot  <- Main,
          Start <- <<"code">>,
          core  <- Carried(running),
          at    <- [x \in Ctx |-> Continuation(x)]

ImplementsSingleCore == Core!Spec

\* A thread handed the baton runs, whatever sleeps and wakes in between.
HandoffCompletes ==
  \A h \in Host : pc[h] = "handing" ~> \E g \in Host : Executing(g)

\* A retired host thread unwinds and ends.
RetiredEnds == \A h \in Host : zombie[h] ~> pc[h] = "gone"
=============================================================================
