------------------------------- MODULE Vertices ------------------------------
(* The vertices of a draw: their decoding from the command stream (gx.cpp),   *)
(* which must take as many bytes as the parser counted for them, and the ring *)
(* of a mapped buffer from which the host's GPU reads them (video.cpp's       *)
(* draw), four quarters with a fence each.                                    *)
EXTENDS Integers, Sequences, Functions

CONSTANTS
    Size,       \* sizes of a component (1, 2 or 4 bytes)
    ColorSize,  \* sizes of a colour (2, 3 or 4)
    NColor,     \* colours and texture coordinates of a vertex (2 and 8)
    NTex,
    VtxBytes,   \* sizeof(GVtx): 132
    Quarter,    \* VBO_QUARTER
    MaxVerts,   \* bound: vertices of a draw
    MaxFlight   \* bound: draws the GPU is behind

Slots == 0 .. 3

(* A draw fits in any quarter, and none ends where a quarter does (132 has a *)
(* factor that no multiple of a quarter below the buffer's end has).         *)
ASSUME VerticesAssumption ==
    /\ {VtxBytes, Quarter, MaxVerts, MaxFlight, NColor, NTex} \subseteq Nat \ {0}
    /\ Size \subseteq Nat /\ ColorSize \subseteq Nat
    /\ (MaxVerts + 1) * VtxBytes <= Quarter
    /\ \A q \in 1 .. 4 : (q * Quarter) % VtxBytes # 0

VARIABLES
    fmt,        \* the vertex's format
    at,         \* the attribute that decode_vertices is at
    p,          \* bytes it has taken
    off,        \* vbo_off
    fence,      \* per quarter: draws the GPU has to finish first; -1: no fence
    gpu,        \* the draws the GPU has not finished: the first and the last
                \* byte each reads, and `late` when it was sent
    late        \* history: this quarter was entered with its fence given up

decoding == <<fmt, at, p>>
ring == <<off, fence, gpu, late>>
vtxVars == <<decoding, ring>>

(* An attribute is absent, in the stream, or an 8- or 16-bit index.          *)
Mode == {"none", "direct", "index8", "index16"}
Index(mode) == CASE mode = "index8" -> 1 [] mode = "index16" -> 2 [] OTHER -> 0

Format == [mtx : {0, 9},                            \* matrix indices, a byte each
           pos : Mode, posN : {2, 3}, posSize : Size,
           nrm : Mode, nbt : BOOLEAN, idx3 : BOOLEAN, nrmSize : Size,
           col : [1 .. NColor -> Mode], colSize : [1 .. NColor -> ColorSize],
           tc : [1 .. NTex -> Mode], tcN : {1, 2}, tcSize : Size]

-----------------------------------------------------------------------------
(* vertex_size: what the parser counts before it takes the command.          *)

NormalsOne(f) == 1                             \* mutant: one index always
Normals(f) == IF f.nbt /\ f.idx3 THEN 3 ELSE 1

vertex_size(f) ==
    f.mtx
    + (IF f.pos = "direct" THEN f.posN * f.posSize ELSE Index(f.pos))
    + (IF f.nrm = "direct" THEN (IF f.nbt THEN 9 ELSE 3) * f.nrmSize
       ELSE Index(f.nrm) * Normals(f))
    + SumFunction([i \in 1 .. NColor |->
        IF f.col[i] = "direct" THEN f.colSize[i] ELSE Index(f.col[i])])
    + SumFunction([i \in 1 .. NTex |->
        IF f.tc[i] = "direct" THEN f.tcN * f.tcSize ELSE Index(f.tc[i])])

(* decode_vertices: attribute after attribute, each fetched from the stream  *)
(* or through an index in it.                                                *)
fetch(mode, size) == IF mode = "direct" THEN size ELSE Index(mode)

Attribute(n) == \* 1: matrices, 2: position, 3: normals, then colours, textures
    CASE n = 1 -> fmt.mtx
      [] n = 2 -> fetch(fmt.pos, fmt.posN * fmt.posSize)
      [] n = 3 -> IF fmt.nbt /\ fmt.idx3 /\ fmt.nrm # "direct"
                  THEN 3 * fetch(fmt.nrm, 0)
                  ELSE fetch(fmt.nrm, 3 * (IF fmt.nbt THEN 3 ELSE 1) * fmt.nrmSize)
      [] n > 3 /\ n <= 3 + NColor -> fetch(fmt.col[n - 3], fmt.colSize[n - 3])
      [] OTHER -> fetch(fmt.tc[n - 3 - NColor], fmt.tcN * fmt.tcSize)
LastAttribute == 3 + NColor + NTex

decode_vertices ==
    /\ \/ at <= LastAttribute /\ at' = at + 1 /\ p' = p + Attribute(at)
       \/ at > LastAttribute /\ at' = 1 /\ p' = 0            \* the next vertex
    /\ UNCHANGED <<fmt, ring>>

-----------------------------------------------------------------------------
(* The ring: a draw that would leave its quarter goes to the next one. It    *)
(* waits until the readers of a lap before have finished, for a second: then *)
(* the fence is given up, and the quarter written all the same.              *)

NoWait == -1 .. MaxFlight                      \* mutant: the fence not waited for
Signalled == -1 .. 0

Start(q) == ((q * Quarter + VtxBytes - 1) \div VtxBytes) * VtxBytes

draw(n) ==
    LET bytes == n * VtxBytes
        q == off \div Quarter
        leaves == (off + bytes - 1) \div Quarter # q
        to == IF leaves THEN (q + 1) % 4 ELSE q
        from == IF leaves THEN Start(to) ELSE off
    IN  /\ Len(gpu) < MaxFlight
        /\ fence' = IF leaves THEN [fence EXCEPT ![q] = Len(gpu), ![to] = -1]
                    ELSE fence
        /\ late' = IF leaves THEN fence[to] \notin Signalled ELSE late
        /\ gpu' = Append(gpu, <<from, from + bytes - 1, late'>>)
        /\ off' = from + bytes
        /\ UNCHANGED decoding

GpuDraws ==
    /\ gpu # << >> /\ gpu' = Tail(gpu)
    /\ fence' = [q \in Slots |-> IF fence[q] > 0 THEN fence[q] - 1 ELSE fence[q]]
    /\ UNCHANGED <<off, late, decoding>>

VtxInit ==
    /\ fmt \in Format /\ at = 1 /\ p = 0
    /\ off = 0 /\ fence = [q \in Slots |-> -1] /\ gpu = << >> /\ late = FALSE

VtxNext == decode_vertices \/ (\E n \in 1 .. MaxVerts : draw(n)) \/ GpuDraws
VtxSpec == VtxInit /\ [][VtxNext]_vtxVars

-----------------------------------------------------------------------------
(* Decoding a vertex takes the bytes vertex_size counted, whatever its format *)
(* (else the stream is lost from there on).                                  *)
InStep == at > LastAttribute => p = vertex_size(fmt)

(* What the GPU has yet to read is not written over: each draw in flight reads*)
(* bytes inside one quarter, and was written over those of an older one only  *)
(* in a quarter whose fence was given up after a second (video.cpp 630). One  *)
(* fence given up spoils that quarter on that lap, and no other.              *)
NotOverwritten ==
    \A i \in 1 .. Len(gpu) :
        /\ gpu[i][1] \div Quarter = gpu[i][2] \div Quarter
        /\ gpu[i][2] < 4 * Quarter
        /\ \A j \in 1 .. i - 1 :
            gpu[i][3] \/ gpu[i][2] < gpu[j][1] \/ gpu[j][2] < gpu[i][1]
=============================================================================
