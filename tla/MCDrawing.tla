------------------------------ MODULE MCDrawing ------------------------------
(* The parts of drawing side by side. They share no state, so each behaviour *)
(* moves one of them: the command stream, textures, a vertex's decoding, or  *)
(* the ring.                                                                 *)
EXTENDS GxStream, GxTextures, Vertices

VARIABLE part
drawingVars == <<streamVars, gxVars, vtxVars, part>>

SomeFormat == [mtx |-> 0, pos |-> "none", posN |-> 2, posSize |-> 1,
               nrm |-> "none", nbt |-> FALSE, idx3 |-> FALSE, nrmSize |-> 1,
               col |-> [i \in 1 .. NColor |-> "none"],
               colSize |-> [i \in 1 .. NColor |-> 3],
               tc |-> [i \in 1 .. NTex |-> "none"], tcN |-> 1, tcSize |-> 1]
SomeMemory == [a \in Addr |-> CHOOSE v \in Value : TRUE]

Init ==
    /\ part \in {"stream", "textures", "decode", "ring"}
    /\ fmt \in IF part = "decode" THEN Format ELSE {SomeFormat}
    /\ VtxInit
    /\ mem \in IF part = "textures" THEN [Addr -> Value] ELSE {SomeMemory}
    /\ GxInit
    /\ IF part = "stream" THEN StreamInit
       ELSE listed = <<CallList, CallList>> /\ short = TRUE /\ StreamInitOf(CHOOSE v \in VSizes : TRUE)

Next ==
    \/ part = "textures" /\ GxNext /\ UNCHANGED <<streamVars, vtxVars, part>>
    \/ part = "stream" /\ StreamNext /\ UNCHANGED <<gxVars, vtxVars, part>>
    \/ part = "decode" /\ decode_vertices /\ UNCHANGED <<streamVars, gxVars, part>>
    \/ /\ part = "ring" /\ ((\E n \in 1 .. MaxVerts : draw(n)) \/ GpuDraws)
       /\ UNCHANGED <<streamVars, gxVars, part>>

Spec == Init /\ [][Next]_drawingVars
=============================================================================
