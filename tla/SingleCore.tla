----------------------------- MODULE SingleCore -----------------------------
(***************************************************************************)
(* What the switch of guest threads promises (runtime/os.cpp 3-15): one    *)
(* guest thread runs at a time, as on the console's single core, and a     *)
(* thread that is loaded goes on exactly where it was when it was left.    *)
(***************************************************************************)
CONSTANTS
  Ctx,    \* the contexts
  Boot,   \* the one that runs at first
  Start   \* the continuation of a thread at its entry

VARIABLES
  core,   \* the context whose code the core executes
  at      \* where each context's code is: its continuation

Init ==
  /\ core = Boot
  /\ at = [x \in Ctx |-> Start]

\* the core executes: only its own thread's continuation moves
Run ==
  /\ \A x \in Ctx \ {core} : at'[x] = at[x]
  /\ UNCHANGED core

\* a thread is made, or made again: it will start at its entry
Create(x) ==
  /\ x # core
  /\ at' = [at EXCEPT ![x] = Start]
  /\ UNCHANGED core

\* a context is loaded: it goes on where it was
Switch(x) ==
  /\ core' = x
  /\ UNCHANGED at

Next == Run \/ \E x \in Ctx : Create(x) \/ Switch(x)

Spec == Init /\ [][Next]_<<core, at>>
=============================================================================
