---------------------------- MODULE RenderQueue ----------------------------
(***************************************************************************)
(* The GX record on its way to the renderer, and the picture on its way    *)
(* back (runtime/gx.cpp, runtime/video.cpp).                               *)
(*                                                                         *)
(* The GP records what the game draws inside the game's own stores, and    *)
(* hands the record over in chunks: a guest thread waits for the renderer  *)
(* when that is too far behind, taking its interrupts meanwhile; with      *)
(* interrupts off the record is kept.  A read-back (an EFB peek, a copy    *)
(* into RAM) goes through the same queue, and waits for its answer.        *)
(*                                                                         *)
(* Guest threads run one at a time (GuestThreads).  What a thread is in of *)
(* the runtime is its stack of calls: "hand" submit_record's loop, "poll"  *)
(* ppc_poll's, "lock" waiting for gx_efb_peek's mutex, "peek" and "copy" a *)
(* read-back before it is asked for, "peeking" and "copying" after.        *)
(*                                                                         *)
(* The record's commands are numbered.  Three kinds matter: the end of a   *)
(* frame, the draw-done point, and all the rest.                           *)
(***************************************************************************)
EXTENDS Naturals, Sequences, FiniteSets

CONSTANTS
  Thread,       \* the guest's threads
  Peekers,      \* those that read the EFB (GXPeekARGB, GXPeekZ)
  Copiers,      \* those that read a copy (gx_copy_to_ram)
  Null,         \* no thread, no chunk
  FramesAhead,  \* frames the queue takes before the guest waits
  QueueMax,     \* chunks it takes
  MaxCommands   \* bound: commands ever recorded

Chunks == [items : Seq(Nat), frames : Nat, read : {"", "efb", "copy"}]

ASSUME RenderQueueAssumption ==
  /\ Thread # {} /\ Null \notin Thread /\ Null \notin Nat /\ Null \notin Chunks
  /\ Peekers \subseteq Thread /\ Copiers \subseteq Thread
  /\ FramesAhead \in Nat \ {0} /\ QueueMax \in Nat \ {0}
  /\ MaxCommands \in Nat

VARIABLES
  \* gx.cpp: guest threads only
  recorded,        \* the kinds of all commands recorded so far
  rec,             \* the record that is not handed over yet
  rec_frames,      \* frames that end in it
  submit_pending,  \* it is to be handed over
  at,              \* rec_total when the EFB was last read back
  mx,              \* the thread that has gx_efb_peek's mutex
  \* video.cpp
  q,               \* the queue
  q_frames,        \* frames in it, the one being drawn included
  drawing,         \* the chunk the renderer is at
  drawn,           \* the commands it has carried out
  rb_ready,        \* the read-back's answer is there
  rb_rgba,         \* the thread a copy is read for
  argb,            \* how much had been drawn in the EFB last read back
  rgba,            \* the same for the copy each thread reads
  \* the guest's CPU
  cpu,             \* the thread that runs
  ee,              \* interrupts: on, off, or off in a handler
  stack,           \* each thread's calls into the runtime
  since,           \* what had been recorded when its read-back began
  pending,         \* g_ppc_pending
  pe, vi           \* lines: PE's finish interrupt, another device's

gx == <<recorded, rec, rec_frames, submit_pending>>
read == <<at, mx, rb_rgba, argb, rgba, since>>
renderer == <<drawing, drawn>>
lines == <<pe, vi>>
vars == <<gx, read, q, q_frames, renderer, rb_ready, cpu, ee, stack, pending, lines>>

Kind == {"draw", "frame", "done"}
Call == {"hand", "poll", "lock", "peek", "peeking", "copy", "copying"}
Chunk(i, f, r) == [items |-> i, frames |-> f, read |-> r]

rec_total == Len(recorded)
Unread == MaxCommands + 1       \* `at` before the first peek

Running(t) == cpu = t /\ ee # "irq"
Top(s) == IF s = <<>> THEN "game" ELSE s[Len(s)]
Below(s) == SubSeq(s, 1, Len(s) - 1)
Push(t, c) == stack' = [stack EXCEPT ![t] = Append(@, c)]
Return(t) == stack' = [stack EXCEPT ![t] = Below(@)]
Become(t, c) == stack' = [stack EXCEPT ![t] = Append(Below(@), c)]

-----------------------------------------------------------------------------
(* The hand-over.                                                          *)

\* video_submit's condition: the renderer is not too far behind
Room == q_frames < FramesAhead /\ Len(q) < QueueMax

\* video_submit takes the record r, in which f frames end
\* (Mutants: behind the chunk being drawn only; the frames not counted.)
SubmitFirst(r, f) ==
  /\ q' = <<Chunk(r, f, "")>> \o q
  /\ q_frames' = q_frames + f
  /\ rec' = <<>> /\ rec_frames' = 0
SubmitUncounted(r, f) ==
  /\ q' = Append(q, Chunk(r, f, ""))
  /\ rec' = <<>> /\ rec_frames' = 0
  /\ UNCHANGED q_frames
Submit(r, f) ==
  /\ q' = Append(q, Chunk(r, f, ""))
  /\ q_frames' = q_frames + f
  /\ rec' = <<>> /\ rec_frames' = 0

\* a burst's command: recorded, and if the record is then to be handed over,
\* submit_record(true): with interrupts on that waits, in a loop; with them
\* off it does not, and the record is kept
\* (Mutant: it is not kept to be handed over.)
BurstForgets(k, big) ==
  LET r    == Append(rec, rec_total + 1)
      f    == rec_frames + (IF k = "frame" THEN 1 ELSE 0)
      hand == submit_pending \/ k # "draw" \/ big
  IN  /\ recorded' = Append(recorded, k)
      /\ submit_pending' = FALSE
      /\ IF hand /\ ee # "on" /\ Room
         THEN Submit(r, f) /\ UNCHANGED <<stack, pending>>
         ELSE /\ rec' = r /\ rec_frames' = f
              /\ IF hand /\ ee = "on" THEN Push(cpu, "hand") ELSE UNCHANGED stack
              /\ UNCHANGED <<q, q_frames, pending>>
Burst(k, big) ==
  LET r    == Append(rec, rec_total + 1)
      f    == rec_frames + (IF k = "frame" THEN 1 ELSE 0)
      hand == submit_pending \/ k # "draw" \/ big
  IN  /\ recorded' = Append(recorded, k)
      /\ submit_pending' = (hand /\ ee # "on" /\ ~Room)
      /\ pending' = (pending \/ submit_pending')
      /\ IF hand /\ ee # "on" /\ Room
         THEN Submit(r, f) /\ UNCHANGED stack
         ELSE /\ rec' = r /\ rec_frames' = f
              /\ IF hand /\ ee = "on" THEN Push(cpu, "hand") ELSE UNCHANGED stack
              /\ UNCHANGED <<q, q_frames>>

\* The GP records a command: a thread draws, or a handler lets the GP go on
\* past a breakpoint.  big: the record has grown to a megabyte.
Record(k, big) ==
  /\ ee = "irq" \/ Top(stack[cpu]) = "game"
  /\ rec_total < MaxCommands
  /\ Burst(k, big)
  /\ UNCHANGED <<read, renderer, rb_ready, cpu, ee, lines>>

\* submit_record's loop: another thread, or a handler, may have handed the
\* record over in the meantime
Hand(t) ==
  /\ Running(t) /\ Top(stack[t]) = "hand"
  /\ IF rec = <<>> THEN UNCHANGED <<q, q_frames, rec, rec_frames>>
                   ELSE Room /\ Submit(rec, rec_frames)
  /\ Return(t)
  /\ UNCHANGED <<recorded, submit_pending, read, renderer, rb_ready, cpu, ee, pending, lines>>

-----------------------------------------------------------------------------
(* Read-backs.                                                             *)

\* gx_efb_peek, when it has the mutex and something was recorded since the
\* last time: the record is handed over first, whatever the interrupts
Read(t, s, c) ==
  LET hand == submit_pending \/ rec # <<>> IN
  /\ stack' = [stack EXCEPT ![t] = s \o (IF hand THEN <<c, "hand">> ELSE <<c>>)]
  /\ since' = [since EXCEPT ![t] = rec_total]
  /\ submit_pending' = FALSE

\* gx_efb_peek: the mutex comes first
Peek(t) ==
  /\ Running(t) /\ Top(stack[t]) = "game" /\ t \in Peekers
  /\ Push(t, "lock")
  /\ UNCHANGED <<gx, read, q, q_frames, renderer, rb_ready, cpu, ee, pending, lines>>

\* the mutex is free: a peek that the last read-back answers returns
Locked(t) ==
  /\ Running(t) /\ Top(stack[t]) = "lock" /\ mx = Null
  /\ IF at # rec_total
     THEN mx' = t /\ Read(t, Below(stack[t]), "peek")
     ELSE Return(t) /\ UNCHANGED <<mx, since, submit_pending>>
  /\ UNCHANGED <<recorded, rec, rec_frames, at, rb_rgba, argb, rgba, q, q_frames,
                 renderer, rb_ready, cpu, ee, pending, lines>>

\* gx_copy_to_ram of a copy the GP knows
Copy(t) ==
  /\ Running(t) /\ Top(stack[t]) = "game" /\ t \in Copiers
  /\ Read(t, stack[t], "copy")
  /\ UNCHANGED <<recorded, rec, rec_frames, at, mx, rb_rgba, argb, rgba, q, q_frames,
                 renderer, rb_ready, cpu, ee, pending, lines>>

\* video_efb_read and video_copy_read ask for the read-back, room or not
\* (Mutant: the last answer is left standing.)
AskAgain(t, c) ==
  /\ q' = Append(q, Chunk(<<>>, 0, c))
  /\ UNCHANGED rb_ready
Ask(t, c) ==
  /\ q' = Append(q, Chunk(<<>>, 0, c))
  /\ rb_ready' = FALSE

AskPeek(t) ==
  /\ Running(t) /\ Top(stack[t]) = "peek"
  /\ Ask(t, "efb") /\ Become(t, "peeking")
  /\ UNCHANGED <<gx, read, q_frames, renderer, cpu, ee, pending, lines>>

AskCopy(t) ==
  /\ Running(t) /\ Top(stack[t]) = "copy"
  /\ Ask(t, "copy") /\ Become(t, "copying")
  /\ rb_rgba' = t
  /\ UNCHANGED <<gx, at, mx, argb, rgba, since, q_frames, renderer, cpu, ee, pending, lines>>

\* the answer is there
PeekReturns(t) ==
  /\ Running(t) /\ Top(stack[t]) = "peeking" /\ rb_ready
  /\ Return(t)
  /\ at' = rec_total /\ mx' = Null
  /\ since' = [since EXCEPT ![t] = 0]
  /\ UNCHANGED <<gx, rb_rgba, argb, rgba, q, q_frames, renderer, rb_ready,
                 cpu, ee, pending, lines>>

CopyReturns(t) ==
  /\ Running(t) /\ Top(stack[t]) = "copying" /\ rb_ready
  /\ Return(t)
  /\ rgba' = [rgba EXCEPT ![t] = Null] /\ since' = [since EXCEPT ![t] = 0]
  /\ UNCHANGED <<gx, at, mx, rb_rgba, argb, q, q_frames, renderer, rb_ready, cpu, ee, pending, lines>>

-----------------------------------------------------------------------------
(* The guest's interrupts (os.cpp).                                        *)

\* ppc_poll begins: a record kept while interrupts were off
Poll(t) ==
  /\ Running(t) /\ ee = "on" /\ pending
  /\ Top(stack[t]) \in {"game", "hand", "peeking", "copying"}
  /\ stack' = [stack EXCEPT ![t] =
                 @ \o (IF submit_pending THEN <<"poll", "hand">> ELSE <<"poll">>)]
  /\ submit_pending' = FALSE
  /\ UNCHANGED <<recorded, rec, rec_frames, read, q, q_frames, renderer, rb_ready,
                 cpu, ee, pending, lines>>

\* ... and its loop: an interrupt is taken, which its handler acknowledges,
\* and after which it looks again
Deliver(t) ==
  /\ Running(t) /\ ee = "on" /\ Top(stack[t]) = "poll"
  /\ \/ pe /\ pe' = FALSE /\ UNCHANGED vi
     \/ vi /\ vi' = FALSE /\ UNCHANGED pe
  /\ ee' = "irq" /\ pending' = TRUE
  /\ UNCHANGED <<gx, read, q, q_frames, renderer, rb_ready, cpu, stack>>

PollEnds(t) ==
  /\ Running(t) /\ ee = "on" /\ Top(stack[t]) = "poll"
  /\ ~pe /\ ~vi
  /\ pending' = FALSE
  /\ Return(t)
  /\ UNCHANGED <<gx, read, q, q_frames, renderer, rb_ready, cpu, ee, lines>>

\* a handler ends; it may have woken a thread that goes first
HandlerEnds(t) ==
  /\ ee = "irq" /\ ee' = "on" /\ cpu' = t
  /\ UNCHANGED <<gx, read, q, q_frames, renderer, rb_ready, stack, pending, lines>>

\* a thread waits, and another runs
Yield(t) ==
  /\ ee = "on" /\ Top(stack[cpu]) = "game" /\ t # cpu /\ cpu' = t
  /\ UNCHANGED <<gx, read, q, q_frames, renderer, rb_ready, ee, stack, pending, lines>>

\* a thread turns its interrupts off and on
Disable ==
  /\ ee = "on" /\ Top(stack[cpu]) = "game" /\ ee' = "off"
  /\ UNCHANGED <<gx, read, q, q_frames, renderer, rb_ready, cpu, stack, pending, lines>>
Enable ==
  /\ ee = "off" /\ Top(stack[cpu]) = "game" /\ ee' = "on"
  /\ UNCHANGED <<gx, read, q, q_frames, renderer, rb_ready, cpu, stack, pending, lines>>

\* another device raises its line: a retrace
Retrace ==
  /\ ~vi /\ vi' = TRUE /\ pending' = TRUE
  /\ UNCHANGED <<gx, read, q, q_frames, renderer, rb_ready, cpu, ee, stack, pe>>

-----------------------------------------------------------------------------
(* The renderer, on the host's main thread.                                *)

TakeRecord ==
  /\ drawing = Null /\ q # <<>> /\ Head(q).read = ""
  /\ drawing' = Head(q) /\ q' = Tail(q)
  /\ UNCHANGED <<gx, read, q_frames, drawn, rb_ready, cpu, ee, stack, pending, lines>>

\* the EFB, or a copy, is read and its answer left for the guest
\* (Mutant: a copy's is left without a word.)
TakeReadBackEfbOnly ==
  /\ drawing = Null /\ q # <<>> /\ Head(q).read # ""
  /\ q' = Tail(q)
  /\ IF Head(q).read = "efb"
     THEN argb' = Len(drawn) /\ rb_ready' = TRUE /\ UNCHANGED rgba
     ELSE rgba' = [rgba EXCEPT ![rb_rgba] = Len(drawn)] /\ UNCHANGED <<argb, rb_ready>>
  /\ UNCHANGED <<gx, at, mx, rb_rgba, since, q_frames, renderer, cpu, ee, stack, pending, lines>>
TakeReadBack ==
  /\ drawing = Null /\ q # <<>> /\ Head(q).read # ""
  /\ q' = Tail(q)
  /\ IF Head(q).read = "efb"
     THEN argb' = Len(drawn) /\ UNCHANGED rgba
     ELSE rgba' = [rgba EXCEPT ![rb_rgba] = Len(drawn)] /\ UNCHANGED argb
  /\ rb_ready' = TRUE
  /\ UNCHANGED <<gx, at, mx, rb_rgba, since, q_frames, renderer, cpu, ee, stack, pending, lines>>

\* a command of the record; the draw-done point raises PE's interrupt
Exec ==
  /\ drawing # Null /\ drawing.items # <<>>
  /\ drawn' = Append(drawn, Head(drawing.items))
  /\ drawing' = [drawing EXCEPT !.items = Tail(@)]
  /\ IF recorded[Head(drawing.items)] = "done"
     THEN pe' = TRUE /\ pending' = TRUE
     ELSE UNCHANGED <<pe, pending>>
  /\ UNCHANGED <<gx, read, q, q_frames, rb_ready, cpu, ee, stack, vi>>

ChunkDone ==
  /\ drawing # Null /\ drawing.items = <<>>
  /\ q_frames' = q_frames - drawing.frames
  /\ drawing' = Null
  /\ UNCHANGED <<gx, read, q, drawn, rb_ready, cpu, ee, stack, pending, lines>>

-----------------------------------------------------------------------------
Init ==
  /\ recorded = <<>> /\ rec = <<>> /\ rec_frames = 0 /\ submit_pending = FALSE
  /\ at = Unread /\ mx = Null
  /\ q = <<>> /\ q_frames = 0 /\ drawing = Null /\ drawn = <<>>
  /\ rb_ready = FALSE /\ rb_rgba = Null /\ argb = 0
  /\ rgba = [t \in Thread |-> Null] /\ since = [t \in Thread |-> 0]
  /\ cpu \in Thread /\ ee = "on" /\ stack = [t \in Thread |-> <<>>]
  /\ pending = FALSE /\ pe = FALSE /\ vi = FALSE

Reads(t) == Peek(t) \/ Locked(t) \/ Copy(t)
ReadGoesOn(t) == AskPeek(t) \/ AskCopy(t) \/ PeekReturns(t) \/ CopyReturns(t)
Polls(t) == Poll(t) \/ Deliver(t) \/ PollEnds(t)
Renderer == TakeRecord \/ TakeReadBack \/ Exec \/ ChunkDone

Guest ==
  \/ \E k \in Kind, big \in BOOLEAN : Record(k, big)
  \/ \E t \in Thread : Hand(t) \/ Reads(t) \/ ReadGoesOn(t) \/ Polls(t) \/ HandlerEnds(t) \/ Yield(t)
  \/ Disable \/ Enable

Next == Guest \/ Retrace \/ Renderer

Spec == Init /\ [][Next]_vars

\* Retraces are 16 ms apart, and ppc_poll's loop with its handlers is over long
\* before the next one.
SeldomRetrace == Retrace /\ ee # "irq" /\ Top(stack[cpu]) # "poll"

\* a thread's turn, with no interrupt waiting
Turn(t) == (HandlerEnds(t) \/ Yield(t)) /\ ~pe /\ ~vi

\* The renderer runs, and so does the guest: its handlers end, its critical
\* sections too, it polls, every thread gets its turn, and retraces keep coming.
FairSpec ==
  /\ Init /\ [][Guest \/ SeldomRetrace \/ Renderer]_vars
  /\ WF_vars(Renderer) /\ WF_vars(SeldomRetrace) /\ WF_vars(Enable)
  /\ WF_vars(\E t \in Thread : HandlerEnds(t))
  /\ \A t \in Thread :
       /\ SF_vars(Hand(t) \/ Locked(t) \/ ReadGoesOn(t)) /\ SF_vars(Polls(t)) /\ SF_vars(Turn(t))

-----------------------------------------------------------------------------
(* Properties.                                                             *)

TypeOK ==
  /\ recorded \in Seq(Kind) /\ rec \in Seq(Nat)
  /\ rec_frames \in Nat /\ submit_pending \in BOOLEAN
  /\ at \in 0..Unread /\ mx \in Thread \cup {Null}
  /\ q \in Seq(Chunks) /\ drawing \in Chunks \cup {Null}
  /\ q_frames \in Nat /\ drawn \in Seq(Nat)
  /\ rb_ready \in BOOLEAN /\ rb_rgba \in Thread \cup {Null}
  /\ argb \in Nat /\ rgba \in [Thread -> Nat \cup {Null}] /\ since \in [Thread -> Nat]
  /\ cpu \in Thread /\ ee \in {"on", "off", "irq"}
  /\ stack \in [Thread -> Seq(Call)]
  /\ pending \in BOOLEAN /\ pe \in BOOLEAN /\ vi \in BOOLEAN

\* The commands of a record. What is left to draw: the rest of the chunk the
\* renderer is at, the chunks of the queue, the record not handed over yet.
Within(s) == {s[k] : k \in DOMAIN s}
AtHand == IF drawing = Null THEN <<>> ELSE drawing.items
Left == [i \in 0..(Len(q) + 1) |->
           IF i = 0 THEN AtHand ELSE IF i = Len(q) + 1 THEN rec ELSE q[i].items]

\* The renderer draws what the GP recorded, all of it, once and in order,
\* although a record is handed over by whichever thread or handler gets to it,
\* kept, and taken over while others wait (submit_record, video_submit).
InOrder(s) == \A k, l \in DOMAIN s : k < l => s[k] < s[l]
DrawnInOrder ==
  /\ drawn = [n \in 1..Len(drawn) |-> n] /\ Len(drawn) <= rec_total
  /\ \A i \in DOMAIN Left : InOrder(Left[i])
  /\ \A i, j \in DOMAIN Left : i < j => \A m \in Within(Left[i]), n \in Within(Left[j]) : m < n
  /\ UNION {Within(Left[i]) : i \in DOMAIN Left} = (Len(drawn) + 1)..rec_total

\* The guest waits for as many frames as are really in flight: the counters
\* agree with the frames in the queue, under the renderer, and in the record.
Frames(S) == Cardinality({n \in S : recorded[n] = "frame"})
Queued == UNION {Within(q[i].items) : i \in DOMAIN q}
FramesCounted ==
  /\ rec_frames = Frames(Within(rec))
  /\ \A i \in DOMAIN q : q[i].frames = Frames(Within(q[i].items))
  /\ q_frames = Frames(Queued) + (IF drawing = Null THEN 0 ELSE drawing.frames)

\* What the waiting for frames rests on, with the types.
QueueInv == TypeOK /\ FramesCounted

\* "Once everything submitted so far is drawn, the EFB read back" (video.h
\* 49-56), and likewise a copy: a read-back's answer shows all that was recorded
\* when it began, and is its own.
ReadBackShowsAll ==
  \A t \in Thread :
    /\ Top(stack[t]) = "peeking" /\ rb_ready => argb >= since[t]
    /\ Top(stack[t]) = "copying" /\ rb_ready => rgba[t] # Null /\ rgba[t] >= since[t]

\* "Peeks read that copy until anything more is recorded" (gx.cpp 632-635): the
\* copy of the EFB that the next peek would answer from shows all that was
\* recorded.  It does not hold of this code (README, findings), so no run has it.
PeekIsCurrent == mx = Null /\ at = rec_total => argb = rec_total

\* "The record is kept and handed over at the next point where interrupts are
\* on (ppc_poll, told by os_raise)" (gx.cpp 737-743): with interrupts on and
\* a record kept, the next poll looks.  It does not hold either (README, findings).
KeptRecordTold ==
  ee = "on" /\ submit_pending /\ Top(stack[cpu]) = "game" => pending

\* A game that waits for the draw-done point is told: the renderer gets there,
\* whoever kept the record, and PE's interrupt is up when it does
\* (bp_write, submit_record, gx_draw_done_reached).
Drawn(n) == \E i \in DOMAIN drawn : drawn[i] = n
DrawDoneTold ==
  \A n \in 1..MaxCommands :
    rec_total >= n /\ recorded[n] = "done" /\ ~Drawn(n) ~> Drawn(n) /\ pe

\* A read-back ends (gx_efb_peek, video_efb_read).
ReadBackEnds ==
  \A t \in Thread : Top(stack[t]) \in {"peek", "copy", "lock"} ~> Top(stack[t]) = "game"
=============================================================================
