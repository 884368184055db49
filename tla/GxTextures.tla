------------------------------ MODULE GxTextures -----------------------------
(* Textures on their way from the guest's memory to the renderer's draws:    *)
(* the command parser's texture cache and bindings (gx.cpp), the record they *)
(* are written to with the draws, and its execution (video.cpp's exec).      *)
(* Decoding is the identity on the bytes' meaning, a hash is the bytes; a     *)
(* texture is named by its address alone, palettes are left out, and so are  *)
(* the vertices. How the record changes hands is RenderQueue's.              *)
EXTENDS Integers, Sequences, SequencesExt

CONSTANTS
    NMap,       \* texture maps 0 .. NMap-1 (8 in the code)
    Addr,       \* addresses of textures
    Outside,    \* an address outside memory
    Value,      \* what the CPU writes to a texture's memory
    Prim,       \* primitives, and vertex attributes
    Flags,
    MaxCopies,  \* bound: EFB copies to texture in a behaviour
    MaxRec,     \* bound: commands in the record
    MaxPieces   \* bound: draws recorded as one

None == 0       \* nothing uploaded, no copy

ASSUME TexturesAssumption ==
    /\ {NMap, MaxCopies, MaxRec, MaxPieces} \subseteq Nat \ {0}
    /\ Outside \notin Addr /\ None \notin Value

VARIABLES
    mem,        \* the memory at each address: what the CPU wrote
    held,       \* history: what a console's memory would hold, copies included
    since,      \* history: what it has held since the last invalidation
    named,      \* the address each map's registers name
    used,       \* the maps TEV samples
    dirty,      \* tex_dirty
    bound,      \* map_bound
    tcache,     \* per address: the bytes uploaded, looked at since then
    copies,     \* per address: the last EFB copy, and the bytes under it
    copyNo,     \* EFB copies made
    rec,        \* the record
    drawHdr,    \* its last draw, and its length after it
    drawEnd,
    texs,       \* the renderer's textures and copies, and each map's source
    efb,
    src,
    mistaken    \* history: maps on which a draw sampled what it should not have

guestVars == <<mem, held, since>>
parser == <<named, used, dirty, bound, tcache, copies, copyNo>>
record == <<rec, drawHdr, drawEnd>>
renderer == <<texs, efb, src, mistaken>>
gxVars == <<guestVars, parser, record, renderer>>

Map == 0 .. NMap - 1
CopyId == 1 .. MaxCopies
Content == Value \cup CopyId
Source == [kind : {"none", "tex", "efb"}, addr : Addr \cup {Outside}]
NoSource == [kind |-> "none", addr |-> Outside]

(* A command of the record; the bytes of one that is no draw may look like   *)
(* any primitive's.                                                          *)
Command(kind, m, a, c) == [kind |-> kind, map |-> m, addr |-> a, content |-> c,
                           prim |-> CHOOSE p \in Prim : TRUE,
                           flags |-> CHOOSE f \in Flags : TRUE, pieces |-> << >>]
Register == Command("bp", 0, Outside, None)
DrawOf(p) == [Register EXCEPT !.kind = "draw", !.prim = p.prim,
                              !.flags = p.flags, !.pieces = <<p>>]

GxTypeOK ==
    /\ mem \in [Addr -> Content] /\ held \in [Addr -> Content]
    /\ since \in [Addr -> SUBSET Content]
    /\ named \in [Map -> Addr \cup {Outside}]
    /\ used \subseteq Map /\ dirty \subseteq Map
    /\ bound \in [Map -> Source] /\ src \in [Map -> Source]
    /\ tcache \in [Addr -> [val : Content \cup {None}, looked : BOOLEAN]]
    /\ copies \in [Addr -> [hash : Content \cup {None}, no : CopyId \cup {None}]]
    /\ copyNo \in 0 .. MaxCopies
    /\ Len(rec) <= MaxRec
    /\ drawHdr \in 0 .. MaxRec /\ drawEnd \in -1 .. MaxRec
    /\ texs \in [Addr -> Content \cup {None}] /\ efb \in [Addr -> CopyId \cup {None}]

GxInit ==
    /\ mem \in [Addr -> Value] /\ held = mem /\ since = [a \in Addr |-> {mem[a]}]
    /\ named = [m \in Map |-> Outside] /\ used = {} /\ dirty = Map
    /\ bound = [m \in Map |-> NoSource] /\ src = bound
    /\ tcache = [a \in Addr |-> [val |-> None, looked |-> FALSE]]
    /\ copies = [a \in Addr |-> [hash |-> None, no |-> None]] /\ copyNo = 0
    /\ rec = << >> /\ drawHdr = 0 /\ drawEnd = -1 /\ mistaken = {}
    /\ texs = [a \in Addr |-> None] /\ efb = [a \in Addr |-> None]

-----------------------------------------------------------------------------
(* The guest's memory.  Assumed of the games: the CPU does not write back the *)
(* very bytes that were there when an EFB copy went over them (the copy would *)
(* be taken to stand again).                                                 *)

WriteMem(a, v) ==
    /\ v # mem[a] /\ v # copies[a].hash
    /\ mem' = [mem EXCEPT ![a] = v] /\ held' = [held EXCEPT ![a] = v]
    /\ since' = [since EXCEPT ![a] = @ \cup {v}]
    /\ UNCHANGED <<parser, record, renderer>>

-----------------------------------------------------------------------------
(* The command stream's registers.                                           *)

Put(c) == rec' = Append(rec, c) /\ Len(rec) < MaxRec

SetMap(m, a) ==
    /\ named' = [named EXCEPT ![m] = a] /\ dirty' = dirty \cup {m}
    /\ Put(Register)
    /\ UNCHANGED <<guestVars, used, bound, tcache, copies, copyNo, drawHdr,
                   drawEnd, renderer>>

SetTev(maps) ==
    /\ used' = maps /\ Put(Register)
    /\ UNCHANGED <<guestVars, named, dirty, bound, tcache, copies, copyNo,
                   drawHdr, drawEnd, renderer>>

DirtyOnly == dirty                            \* mutant: bindings kept
DirtyAll == Map

InvalidateTexAll ==
    /\ tcache' = [a \in Addr |-> [tcache[a] EXCEPT !.looked = FALSE]]
    /\ dirty' = DirtyAll
    /\ since' = [a \in Addr |-> {held[a]}]
    /\ UNCHANGED <<mem, held, named, used, bound, copies, copyNo, record, renderer>>

(* An EFB copy to texture stays with the renderer: the memory keeps the bytes *)
(* it had, and their hash says later whether the CPU has written there since.*)
efb_copy(a) ==
    /\ copyNo < MaxCopies /\ copyNo' = copyNo + 1
    /\ Put(Command("copy", 0, a, copyNo'))
    /\ copies' = [copies EXCEPT ![a] = [hash |-> mem[a], no |-> copyNo']]
    /\ dirty' = DirtyAll
    /\ held' = [held EXCEPT ![a] = copyNo']
    /\ since' = [since EXCEPT ![a] = @ \cup {copyNo'}]
    /\ UNCHANGED <<mem, named, used, bound, tcache, drawHdr, drawEnd, renderer>>

(* A copy the game reads with the CPU is written to memory after all, once   *)
(* all that was recorded has been drawn; the renderer's still stands for it. *)
gx_copy_to_ram(a) ==
    /\ copies[a].no # None /\ rec = << >>
    /\ mem' = [mem EXCEPT ![a] = efb[a]] /\ held' = [held EXCEPT ![a] = efb[a]]
    /\ since' = [since EXCEPT ![a] = @ \cup {efb[a]}]
    /\ copies' = [copies EXCEPT ![a].hash = efb[a]]
    /\ UNCHANGED <<named, used, dirty, bound, tcache, copyNo, record, renderer>>

-----------------------------------------------------------------------------
(* A draw: the maps it samples whose binding is in doubt are bound, in order,*)
(* on a state of the record, the bindings and the cache.                     *)

CopyStands(a) == copies[a].no # None /\ copies[a].hash = mem[a]

Bind(s, m, cmd, source) ==
    [s EXCEPT !.rec = Append(@, cmd), !.bound[m] = source]

bind_map(s, m) ==
    LET a == named[m]
        e == s.cache[a]
        looks == e.val = None \/ ~e.looked
        seen == [s EXCEPT !.cache[a] =
                    IF looks THEN [val |-> mem[a], looked |-> TRUE] ELSE e]
        copy == [kind |-> "efb", addr |-> a]
        tex == [kind |-> "tex", addr |-> a]
    IN  CASE a = Outside -> s
          [] a # Outside /\ CopyStands(a) ->
               IF s.bound[m] = copy THEN s
               ELSE Bind(s, m, Command("texefb", m, a, None), copy)
          [] a # Outside /\ ~CopyStands(a) /\ looks /\ mem[a] # e.val ->
               Bind(seen, m, Command("texup", m, a, mem[a]), tex)
          [] OTHER ->
               IF s.bound[m] = tex THEN seen
               ELSE Bind(seen, m, Command("texbind", m, a, None), tex)

sync_textures ==
    LET todo == used \cap dirty
        sync(s, m) == IF m \in todo THEN bind_map(s, m) ELSE s
    IN  FoldLeft(sync, [rec |-> rec, bound |-> bound, cache |-> tcache],
                 [i \in 1 .. NMap |-> i - 1])

(* What a draw may sample: what a console's texture memory could hold.       *)
Wanted == [m \in {n \in used : named[n] # Outside} |-> since[named[m]]]

(* The draw joins the one before it when nothing came between and primitive  *)
(* and attributes are the same.                                              *)
Record(r, piece) ==
    LET extends == /\ Len(r) = drawEnd /\ r[drawHdr].prim = piece.prim
                   /\ r[drawHdr].flags = piece.flags
    IN  IF extends THEN [r EXCEPT ![drawHdr].pieces = Append(@, piece)]
        ELSE Append(r, DrawOf(piece))

Draw(prim, flags) ==
    LET s == sync_textures
        r == Record(s.rec, [prim |-> prim, flags |-> flags, want |-> Wanted])
    IN  /\ Len(r) <= MaxRec /\ Len(r[Len(r)].pieces) <= MaxPieces
        /\ rec' = r /\ bound' = s.bound /\ tcache' = s.cache
        /\ dirty' = dirty \ used
        /\ drawHdr' = Len(r) /\ drawEnd' = Len(r)
        /\ UNCHANGED <<guestVars, named, used, copies, copyNo, renderer>>

-----------------------------------------------------------------------------
(* The record is handed over and executed.  The renderer's thread does so    *)
(* later, but shares nothing with the parser, so it is done here at once.    *)

bind_textures(r, m) ==
    CASE r.src[m].kind = "tex" -> r.texs[r.src[m].addr]
      [] r.src[m].kind = "efb" -> r.efb[r.src[m].addr]
      [] OTHER -> None

Copied(r, c) == [r EXCEPT !.efb[c.addr] = c.content]

exec(r, c) ==
    CASE c.kind = "texup" ->
           [r EXCEPT !.texs[c.addr] = c.content,
                     !.src[c.map] = [kind |-> "tex", addr |-> c.addr]]
      [] c.kind = "texbind" -> [r EXCEPT !.src[c.map] = [kind |-> "tex", addr |-> c.addr]]
      [] c.kind = "texefb" -> [r EXCEPT !.src[c.map] = [kind |-> "efb", addr |-> c.addr]]
      [] c.kind = "copy" -> Copied(r, c)
      [] c.kind = "draw" ->
           [r EXCEPT !.mistaken = @ \cup
               UNION {{m \in DOMAIN p.want : bind_textures(r, m) \notin p.want[m]} :
                      p \in ToSet(c.pieces)}]
      [] OTHER -> r

EndKept == drawEnd                            \* mutant: not forgotten
EndForgotten == -1

Submit ==
    /\ rec # << >>
    /\ LET r == FoldLeft(exec, [texs |-> texs, efb |-> efb, src |-> src,
                                mistaken |-> mistaken], rec)
       IN  /\ texs' = r.texs /\ efb' = r.efb /\ src' = r.src
           /\ mistaken' = r.mistaken
    /\ rec' = << >> /\ drawEnd' = EndForgotten
    /\ UNCHANGED <<guestVars, parser, drawHdr>>

GxNext ==
    \/ \E a \in Addr, v \in Value : WriteMem(a, v)
    \/ \E m \in Map, a \in Addr \cup {Outside} : SetMap(m, a)
    \/ \E maps \in SUBSET Map : SetTev(maps)
    \/ InvalidateTexAll
    \/ \E a \in Addr : efb_copy(a) \/ gx_copy_to_ram(a)
    \/ \E prim \in Prim, flags \in Flags : Draw(prim, flags)
    \/ Submit

GxSpec == GxInit /\ [][GxNext]_gxVars

-----------------------------------------------------------------------------
(* Every draw samples, on each map it uses, what the map's registers named   *)
(* when the draw was sent: bytes or an EFB copy that were in memory at some  *)
(* time since the game last invalidated its textures, through the cache, the *)
(* bindings skipped as already there, and the record's delay.                *)
TexturesRight == mistaken = {}

(* Draws recorded as one are of one primitive with the same attributes, and  *)
(* none is written into another command.                                     *)
PiecesRight ==
    \A i \in 1 .. Len(rec) :
        /\ rec[i].pieces # << >> <=> rec[i].kind = "draw"
        /\ \A p \in ToSet(rec[i].pieces) :
            p.prim = rec[i].prim /\ p.flags = rec[i].flags
GxInv == GxTypeOK /\ PiecesRight
=============================================================================
