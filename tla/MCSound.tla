------------------------------- MODULE MCSound -------------------------------
(* The two halves of sound side by side: a voice of the micro-code, and the  *)
(* way of the mixed frames from the DSP to the host. They share no state, so *)
(* each behaviour moves one of them.                                         *)
EXTENDS AudioPath, Ax

VARIABLE part
soundVars == <<audioVars, axVars, part>>

Track(format, loop, end, looping, stream) ==
    [format |-> format, first |-> IF format = "pcm" THEN 1 ELSE 2, loop |-> loop,
     end |-> end, looping |-> looping, stream |-> stream]

(* Samples that end at a block's last nibble, at its first, in its middle;   *)
(* one-shot, looped to the middle of a block or to its start, streamed.      *)
MCTracks ==
    {Track("adpcm", loop, end, looping, stream) :
        loop \in {5, 18}, end \in {18, 31}, looping \in BOOLEAN, stream \in BOOLEAN}
    \cup {Track("pcm", 3, 8, looping, stream) : looping \in BOOLEAN, stream \in BOOLEAN}

Init ==
    /\ part \in {"voice", "path"}
    /\ AudioInit
    /\ IF part = "voice" THEN AxInit
       ELSE gc = FALSE /\ fed = 0 /\ pb = Note(CHOOSE t \in MCTracks : TRUE, 1, TRUE, Idle)

Ticks == part = "path" /\ ai_tick /\ UNCHANGED <<axVars, part>>
Passes == part = "path" /\ Pass /\ UNCHANGED <<axVars, part>>

Next ==
    \/ part = "path" /\ AudioNext /\ UNCHANGED <<axVars, part>>
    \/ part = "voice" /\ AxNext /\ UNCHANGED <<audioVars, part>>

Spec == Init /\ [][Next]_soundVars /\ WF_soundVars(Ticks) /\ WF_soundVars(Passes)
=============================================================================
