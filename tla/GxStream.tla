------------------------------ MODULE GxStream ------------------------------
(* The GX command stream on its way into the parser (gx.cpp): the gather pipe *)
(* cuts it into bursts anywhere, a command is executed once it is whole, and  *)
(* a display list is parsed where it is called.  A command's length may hang  *)
(* on registers: a draw's, on the vertex format, which commands before it and *)
(* in the lists they call have set.  Bytes count scaled: an opcode, one for   *)
(* its arguments, one for each word or vertex component.                      *)
EXTENDS Naturals, Sequences, SequencesExt

CONSTANTS
    BurstLen,   \* bytes of a burst (32)
    VSizes,     \* bytes of a vertex
    MaxCount,   \* bound: vertices of a draw; words of an XF load
    MaxOwed     \* bound: commands on their way

ASSUME GxStreamAssumption ==
    BurstLen \in Nat \ {0} /\ VSizes \subseteq Nat \ {0} /\ MaxCount \in Nat

VARIABLES
    pipe,       \* what the guest has stored and no burst has taken
    stream,     \* bytes not yet parsed
    list,       \* what is left of the display list being run
    parsing,    \* feed()'s loop runs
    desync,
    vsize,      \* the vertex format in the CP's registers
    listed,     \* the commands of the display list in memory ...
    short,      \* ... and whether its last byte is missing
    sized,      \* the guest's view of the vertex format
    owed,       \* history: what the GP is still to execute
    spoilt,     \* history: a byte that is no command has been sent
    wrong       \* history: it has executed what it was not to

memory == <<listed, short>>
history == <<owed, spoilt, wrong>>
streamVars == <<pipe, stream, list, parsing, desync, vsize, memory, sized, history>>

(* A byte: an opcode with what its arguments say, or the rest of a command.   *)
Op(op, n) == [op |-> op, n |-> n]
Data == Op("data", 0)
Plain == {Op("nop", 0), Op("bp", 0), Op("xf", MaxCount)}
           \cup {Op("cp", s) : s \in VSizes}
           \cup {Op("draw", n) : n \in 0 .. MaxCount}
CallList == Op("list", 0)
Sent == Plain \cup {CallList, Data}

Header(c) == IF c.op \in {"nop", "data"} THEN 1 ELSE 2
length(c, size) == Header(c) + (CASE c.op = "xf" -> c.n
                                  [] c.op = "draw" -> c.n * size
                                  [] OTHER -> 0)
Bytes(c, size) == [i \in 1 .. length(c, size) |-> IF i = 1 THEN c ELSE Data]

Effect(c, size) == IF c.op = "draw" THEN <<"draw", c.n * size>> ELSE <<c.op, c.n>>
Loaded(c, size) == IF c.op = "cp" THEN c.n ELSE size

(* Commands after each other: their bytes, what they do, and the format after.*)
Together(cs, size) ==
    FoldLeft(LAMBDA all, c :
                [bytes |-> all.bytes \o Bytes(c, all.size),
                 does |-> IF c.op \in {"nop", "list"} THEN all.does
                          ELSE Append(all.does, Effect(c, all.size)),
                 size |-> Loaded(c, all.size)],
             [bytes |-> << >>, does |-> << >>, size |-> size], cs)

(* The list's bytes; of one that is short, the last command is not there.     *)
ListBytes == LET all == Together(listed, vsize).bytes
             IN IF short THEN Front(all) ELSE all
ListCalls == IF short THEN Front(listed) ELSE listed

StreamTypeOK ==
    /\ {pipe, stream, list} \subseteq Seq(Sent) /\ Len(pipe) < 2 * BurstLen
    /\ {parsing, desync, spoilt, wrong} \subseteq BOOLEAN
    /\ {vsize, sized} \subseteq VSizes

(* A display list whose draws rely on the format at its call is left out: the *)
(* guest sees to it that it is the one the list was recorded with.            *)
OfItsOwn(cs) == \A i \in DOMAIN cs : cs[i].op = "draw" =>
                    \E j \in 1 .. i - 1 : cs[j].op = "cp"

StreamInitOf(size) ==
    /\ pipe = << >> /\ stream = << >> /\ list = << >>
    /\ parsing = FALSE /\ desync = FALSE /\ spoilt = FALSE /\ wrong = FALSE
    /\ vsize = size /\ sized = size /\ owed = << >>
StreamInit ==
    /\ \E size \in VSizes : StreamInitOf(size)
    /\ listed \in {cs \in [1 .. 2 -> Plain \cup {CallList}] : OfItsOwn(cs)}
    /\ short \in BOOLEAN

-----------------------------------------------------------------------------
(* The guest, through the gather pipe, once the burst before is parsed: the   *)
(* store that completes one returns then. The SDK pads with NOPs.             *)

Send(c) ==
    /\ ~parsing /\ Len(pipe) < BurstLen /\ (c.op # "nop" => Len(owed) < MaxOwed)
    /\ LET all == Together(IF c = CallList THEN ListCalls ELSE <<c>>, sized) IN
       /\ pipe' = pipe \o Bytes(c, sized)
       /\ Len(pipe') < 2 * BurstLen
       /\ sized' = all.size
       /\ owed' = IF c = Data THEN owed ELSE owed \o all.does
    /\ spoilt' = (spoilt \/ c = Data)
    /\ UNCHANGED <<stream, list, parsing, desync, vsize, memory, wrong>>

(* A burst: feed() takes it up, unless the stream is lost.                    *)
feed ==
    /\ ~parsing /\ Len(pipe) >= BurstLen
    /\ pipe' = SubSeq(pipe, BurstLen + 1, Len(pipe))
    /\ IF desync THEN UNCHANGED <<stream, parsing>>
       ELSE stream' = stream \o SubSeq(pipe, 1, BurstLen) /\ parsing' = TRUE
    /\ UNCHANGED <<list, desync, vsize, memory, sized, history>>

-----------------------------------------------------------------------------
(* parse(): the command at the head of p, when all of it is there. A draw's   *)
(* count is read, and its length measured, once the header is.                *)

HeaderOnly(p) == p # << >> /\ Len(p) >= Header(Head(p))    \* mutant
Whole(p) ==
    p # << >> /\ Len(p) >= Header(Head(p)) /\ Len(p) >= length(Head(p), vsize)

(* What is left of p after its first command: nothing, if that is unknown.    *)
After1(p) == IF Head(p).op = "data" THEN << >>
             ELSE SubSeq(p, length(Head(p), vsize) + 1, Len(p))

(* What a command does; a list is called from the stream only.                *)
Execute(c) ==
    /\ vsize' = Loaded(c, vsize)
    /\ desync' = (desync \/ c.op = "data")
    /\ IF c.op \in {"nop", "data", "list"} THEN UNCHANGED <<owed, wrong>>
       ELSE IF owed # << >> /\ Head(owed) = Effect(c, vsize)
            THEN owed' = Tail(owed) /\ UNCHANGED wrong
            ELSE wrong' = TRUE /\ UNCHANGED owed
    /\ UNCHANGED <<pipe, parsing, memory, sized, spoilt>>

ParseStream ==
    /\ parsing /\ list = << >> /\ Whole(stream)
    /\ Execute(Head(stream))
    /\ stream' = After1(stream)
    /\ list' = IF Head(stream) = CallList THEN ListBytes ELSE << >>

(* call_dl()'s loop; what is left of a list and is no whole command is dropped*)
ParseList ==
    /\ list # << >> /\ Whole(list)
    /\ Execute(Head(list))
    /\ list' = After1(list) /\ UNCHANGED stream
ListEnds ==
    /\ list # << >> /\ ~Whole(list) /\ list' = << >>
    /\ UNCHANGED <<pipe, stream, parsing, desync, vsize, memory, sized, history>>

(* The rest waits for the next burst.                                         *)
feed_ends ==
    /\ parsing /\ list = << >> /\ ~Whole(stream) /\ parsing' = FALSE
    /\ UNCHANGED <<pipe, stream, list, desync, vsize, memory, sized, history>>

StreamNext ==
    \/ \E c \in Sent : Send(c)
    \/ feed \/ ParseStream \/ ParseList \/ ListEnds \/ feed_ends

StreamSpec == StreamInit /\ [][StreamNext]_streamVars

-----------------------------------------------------------------------------
(* However the stream is cut into bursts, the GP executes the commands sent,  *)
(* those of the lists called among them, each once, in order and with the     *)
(* length its format gives it there: nothing else is executed, the stream is  *)
(* never lost, and nothing is owed once all the bytes are through - unless a  *)
(* byte was sent that is no command.  With the types.                         *)
ParsedAsSent ==
    /\ StreamTypeOK
    /\ spoilt \/ (~wrong /\ ~desync)
    /\ ~spoilt /\ pipe = << >> /\ stream = << >> /\ list = << >>
         => owed = << >> /\ vsize = sized
=============================================================================
