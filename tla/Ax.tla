--------------------------------- MODULE Ax ---------------------------------
(***************************************************************************)
(* A voice of the AX micro-code (ax.cpp): the accelerator that reads and   *)
(* decodes its samples, the resampler behind it and the parameter block    *)
(* (PB) that carries both from one piece of sound to the next.  The Wii    *)
(* runs a PB once a frame, the GameCube once a millisecond, with the       *)
(* updates that the CPU queued for it written first.                       *)
(*                                                                         *)
(* A decoded sample is named by what it was computed from: the address it  *)
(* was read at, the predictor and scale in force, the two samples before   *)
(* it.  An ADPCM block is 16 nibbles, its first two the header.            *)
(***************************************************************************)
EXTENDS Integers, Sequences, SequencesExt

CONSTANTS
    N,          \* the output samples of one run of a voice (96, 32)
    MsPerFrame, \* the GameCube's runs in a frame (5)
    One,        \* 1.0 in the resampler's fixed point (0x10000)
    Ratios,     \* the ratios the guest plays at, in parts of One
    Tracks,     \* the samples it plays: records as assumed below
    MaxFed      \* a bound on the samples a note reads in the model

ASSUME AxAssumption ==
    /\ N \in Nat /\ N >= 4 /\ MsPerFrame \in Nat \ {0} /\ One \in Nat \ {0}
    /\ Ratios \subseteq Nat /\ MaxFed \in Nat
    /\ Tracks \subseteq [format : {"adpcm", "pcm"}, first : Nat, loop : Nat, end : Nat,
                         looping : BOOLEAN, stream : BOOLEAN]
    /\ \A t \in Tracks : t.first <= t.end /\ t.loop <= t.end

VARIABLES
    gc,     \* g_gamecube
    pb,     \* the voice's PB in main memory
    fed     \* ghost: the samples the accelerator has read since the note began

axVars == <<gc, pb, fed>>

Silence == [at |-> -1, scale |-> 0, y1 |-> -1, y2 |-> -1]
LoopYn1 == -2       \* LOOP_YN1 and LOOP_YN2, as the guest set them
LoopYn2 == -3
Quiet == [i \in 1..4 |-> Silence]

\* The header of the block an address lies in: its predictor and scale.
Header(p, a) == IF p.format = "adpcm" THEN 1 + a \div 16 ELSE 0

(***************************************************************************)
(* The accelerator                                                         *)
(***************************************************************************)

Load(p) == [cur |-> p.cur, scale |-> p.scale, y1 |-> p.y1, y2 |-> p.y2,
            stopped |-> FALSE]

Store(p, a) == [p EXCEPT !.cur = a.cur, !.scale = a.scale, !.y1 = a.y1, !.y2 = a.y2]

\* Past the end: back to the loop's start or, of a one-shot voice, over.
EndReached(x) ==
    LET p == x.p
        back == [x.a EXCEPT !.cur = p.loop]
    IN  CASE ~p.looping ->
               [x EXCEPT !.a = [back EXCEPT !.stopped = TRUE], !.p.running = FALSE]
          [] p.looping /\ p.stream ->
               [x EXCEPT !.a = [back EXCEPT !.scale = p.loopScale],
                         !.p.loops = IF gc THEN @ + 1 ELSE @]
          [] OTHER ->
               [x EXCEPT !.a = [back EXCEPT !.scale = p.loopScale,
                                            !.y1 = LoopYn1, !.y2 = LoopYn2]]

\* How far beyond the end, and the header read with it, the address stops.
Beyond(header) == IF header THEN 4 ELSE 2

\* The address after one is read, and the scale in force there.
Following(p, a) ==
    LET c == a.cur + 1
        next == [cur |-> c, scale |-> a.scale, step |-> Beyond(FALSE)]
    IN  IF p.format # "adpcm" THEN next
        ELSE IF p.end % 16 = 0 /\ c = p.end THEN [next EXCEPT !.cur = p.loop + 1]
        ELSE IF p.end % 16 = 1 /\ c = p.end - 1 THEN [next EXCEPT !.cur = p.loop]
        ELSE IF c % 16 = 0 THEN [cur |-> c + 2, scale |-> Header(p, c), step |-> Beyond(TRUE)]
        ELSE next

\* One sample into the resampler's window of four, the oldest out of it.
Sample(x) ==
    LET a == x.a
        val == [at |-> a.cur, scale |-> a.scale, y1 |-> a.y1, y2 |-> a.y2]
        n == Following(x.p, a)
        y == [x EXCEPT !.a = [a EXCEPT !.cur = n.cur, !.scale = n.scale,
                                       !.y1 = a.cur, !.y2 = a.y1],
                       !.last = Append(Tail(@), val), !.fed = @ + 1]
    IN  IF a.stopped THEN [x EXCEPT !.last = Append(Tail(@), Silence)]
        ELSE IF n.cur = x.p.end + n.step - 1 THEN EndReached(y)
        ELSE y

(***************************************************************************)
(* The resampler and a run of the voice                                    *)
(***************************************************************************)

Times(Op(_), x, n) == FoldLeft(LAMBDA y, i : Op(y), x, [i \in 1..n |-> i])

\* One output: as many samples in as the position passes.
Output(x) ==
    LET pos == x.pos + x.p.ratio
    IN  [Times(Sample, x, pos \div One) EXCEPT !.pos = pos % One]

Resample(x) == IF x.p.convert THEN Times(Output, x, N) ELSE Times(Sample, x, N)

\* A bug: the window of samples starts empty at each run.
WindowEmpty(p) == Quiet

Window(p) == p.last

\* What a run leaves in the PB for the next.
RunVoice(v) ==
    IF ~v.p.running THEN v
    ELSE LET x == Resample([p |-> v.p, fed |-> v.fed, a |-> Load(v.p),
                            last |-> Window(v.p), pos |-> v.p.frac])
         IN  [p |-> [Store(x.p, x.a) EXCEPT !.last = x.last, !.frac = x.pos],
              fed |-> x.fed]

\* A bug: all of them are written before the first one.
UpdateAll(p, ms) ==
    IF \E m \in 1..MsPerFrame : p.updates[m] = "run" THEN [p EXCEPT !.running = TRUE] ELSE p

\* The updates the CPU queued for a millisecond of the GameCube's frame.
Update(p, ms) ==
    CASE p.updates[ms] = "run"  -> [p EXCEPT !.running = TRUE]
      [] p.updates[ms] = "stop" -> [p EXCEPT !.running = FALSE]
      [] OTHER                  -> p

Idle == [ms \in 1..MsPerFrame |-> "none"]

GcVoice(v) ==
    FoldLeft(LAMBDA w, ms : RunVoice([w EXCEPT !.p = Update(w.p, ms)]),
             v, [ms \in 1..MsPerFrame |-> ms])

\* A command list's pass over the PBs: read, run, written back.  The sound
\* library takes the updates out of it again before the next list.
ProcessPb ==
    /\ fed < MaxFed
    /\ LET v == [p |-> pb, fed |-> fed]
           w == IF gc THEN GcVoice(v) ELSE RunVoice(v)
       IN  pb' = [w.p EXCEPT !.updates = Idle] /\ fed' = w.fed
    /\ UNCHANGED gc

(***************************************************************************)
(* The sound library on the CPU, between two command lists                 *)
(***************************************************************************)

Note(t, r, convert, u) ==
    [format |-> t.format, first |-> t.first, loop |-> t.loop, end |-> t.end,
     looping |-> t.looping, stream |-> t.stream, cur |-> t.first,
     scale |-> Header(t, t.first), loopScale |-> Header(t, t.loop),
     y1 |-> -1, y2 |-> -1, running |-> u = Idle, ratio |-> r, convert |-> convert,
     frac |-> 0, last |-> Quiet, loops |-> 0, updates |-> u]

\* A note begins on a voice that plays none: at once, or from a millisecond
\* of the GameCube's frame.
Key ==
    /\ ~pb.running
    /\ \E t \in Tracks, r \in Ratios, convert \in BOOLEAN :
        \E u \in {Idle} \cup (IF gc THEN {[Idle EXCEPT ![ms] = "run"] : ms \in 1..MsPerFrame}
                                    ELSE {}) :
            pb' = Note(t, r, convert, u) /\ fed' = 0 /\ UNCHANGED gc

\* It is bent, stopped, or told to stop within the next frame.
Change ==
    /\ pb.running
    /\ \/ \E r \in Ratios \ {pb.ratio} : pb' = [pb EXCEPT !.ratio = r]
       \/ pb' = [pb EXCEPT !.running = FALSE]
       \/ /\ gc
          /\ \E ms \in 1..MsPerFrame : pb' = [pb EXCEPT !.updates = [Idle EXCEPT ![ms] = "stop"]]
    /\ UNCHANGED <<gc, fed>>

AxInit ==
    /\ gc \in BOOLEAN
    /\ fed = 0
    /\ \E t \in Tracks, r \in Ratios : pb = [Note(t, r, TRUE, Idle) EXCEPT !.running = FALSE]

AxNext == ProcessPb \/ Key \/ Change

AxSpec == AxInit /\ [][AxNext]_axVars

-----------------------------------------------------------------------------
(***************************************************************************)
(* What a note should sound like                                           *)
(***************************************************************************)

InBlock(p, a) == p.format = "adpcm" => a % 16 >= 2

Readable(p, from) ==
    LET R[n \in 0..(p.end - from + 1)] ==
            IF n = 0 THEN << >>
            ELSE IF InBlock(p, from + n - 1) THEN Append(R[n - 1], from + n - 1) ELSE R[n - 1]
    IN  R[p.end - from + 1]

\* The addresses of the first pass over the sample, and of each later one.
FirstPass(p) == Readable(p, p.first)
LoopPass(p) == Readable(p, p.loop)

\* The pass the k-th sample of a note belongs to and its place in it.
Place(p, k) ==
    LET n == k - Len(FirstPass(p)) IN
    IF n <= 0 THEN [pass |-> 0, at |-> k]
    ELSE [pass |-> 1 + (n - 1) \div Len(LoopPass(p)), at |-> 1 + ((n - 1) % Len(LoopPass(p)))]

Over(p, k) == ~p.looping /\ k > Len(FirstPass(p))

At(p, k) == LET q == Place(p, k)
            IN  IF q.pass = 0 THEN FirstPass(p)[q.at] ELSE LoopPass(p)[q.at]

\* The sample j before the k-th, as its decoder should see it: a loop begins
\* from the values the guest gave for it, a stream goes on from its own.
Before(p, k, j) ==
    LET q == Place(p, k) IN
    CASE k > j /\ (q.at > j \/ p.stream) -> At(p, k - j)
      [] q.pass > 0 /\ q.at <= j /\ ~p.stream -> IF q.at = j THEN LoopYn1 ELSE LoopYn2
      [] OTHER                           -> -1

Expected(p, k) ==
    IF k < 1 THEN Silence
    ELSE [at |-> At(p, k), scale |-> Header(p, At(p, k)),
          y1 |-> Before(p, k, 1), y2 |-> Before(p, k, 2)]

\* A voice reads its sample from the first address to the end and then from
\* the loop's start to the end, each nibble once, in order, no header taken
\* for sound, each decoded with its own block's scale and after the samples
\* that precede it, however the runs, the ratio and the frames cut it: the
\* window kept in the PB is the last four of that stream, and the next sample
\* is the one the PB points at (ax.cpp:149-180, 185-219, 447-487).
Continuous ==
    /\ pb.running =>
         /\ \A i \in 1..4 : pb.last[i] = Expected(pb, fed - 4 + i)
         /\ [at |-> pb.cur, scale |-> pb.scale, y1 |-> pb.y1, y2 |-> pb.y2]
              = Expected(pb, fed + 1)
    /\ pb.frac \in 0..(One - 1)

\* A voice that does not loop is over with its last sample and reads none
\* past its end, the rest of its run silent; one that loops goes on, and a
\* GameCube's stream has counted its loops (ax.cpp:134-143, 172-176).
EndsItself ==
    /\ ~pb.looping => fed <= Len(FirstPass(pb)) /\ (pb.running => ~Over(pb, fed + 1))
    /\ pb.looping => pb.loops = IF gc /\ pb.stream THEN Place(pb, fed + 1).pass ELSE 0

\* What a voice reads, and where it ends.
VoiceInv == Continuous /\ EndsItself

\* A queued start takes effect in the millisecond it was queued for: by the
\* end of that frame the note has run for the rest of it (ax.cpp:469-472).
StartsOnTime ==
    [][(~pb.running /\ fed' > fed /\ pb'.running /\ ~pb.convert) =>
         \E ms \in 1..MsPerFrame :
            /\ pb.updates[ms] = "run"
            /\ fed' = (MsPerFrame - ms + 1) * N]_axVars

=============================================================================
