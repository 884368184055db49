------------------------------ MODULE IosFiles ------------------------------
(* IOS's descriptors and what stands behind them (ios.cpp): the NAND's files, *)
(* kept in a host folder, and the disc drive. Each action is one IPC request  *)
(* that changes something, carried out whole; one that fails, and changes     *)
(* nothing, is no step. The host is Windows, where the program is built:      *)
(* a file that is open cannot be deleted or renamed, nor a folder above it.   *)
EXTENDS Naturals, SequencesExt

CONSTANTS
    Dir, Leaf,  \* names at the top and below
    Tmp,        \* the folder emptied at each start
    Value,      \* what a block of a file may hold
    Zero,       \* what one never written holds
    MaxLen,     \* bound: blocks of a file, and how far a seek goes
    MaxFd       \* descriptors (32 in the code)

ASSUME IosFilesAssumption ==
    Tmp \in Dir /\ Zero \in Value /\ MaxFd \in Nat \ {0} /\ MaxLen \in Nat \ {0}

VARIABLES
    nand,       \* the host folder
    fds         \* g_fds: the device behind each descriptor

fsVars == <<nand, fds>>

Path == {<<d>> : d \in Dir} \cup {<<d, l>> : d \in Dir, l \in Leaf}
Contents == UNION {[1 .. n -> Value] : n \in 0 .. MaxLen}
Nothing == [kind |-> "none", data |-> << >>]
Folder == [Nothing EXCEPT !.kind = "folder"]
File(data) == [kind |-> "file", data |-> data]

(* A descriptor's device. A file's: its position, and what stdio has read     *)
(* ahead, if anything; `behind` (history): the file was written by another    *)
(* descriptor since. The drive's: the error it holds.                         *)
Fd == 0 .. MaxFd - 1
NoDevice == [dev |-> "none", path |-> << >>, write |-> FALSE, pos |-> 0,
             ahead |-> {}, behind |-> FALSE, error |-> "none"]
Error == {"out of range", "not a DVD command"}

FsTypeOK ==
    /\ nand \in [Path -> {Nothing, Folder} \cup {File(c) : c \in Contents}]
    /\ fds \in [Fd -> [dev : {"none", "file", "di"}, path : Path \cup {<< >>},
                       write : BOOLEAN, pos : 0 .. MaxLen,
                       ahead : SUBSET Contents, behind : BOOLEAN,
                       error : Error \cup {"none"}]]

FsInit ==
    /\ nand = [p \in Path |-> IF p = <<Tmp>> THEN Folder ELSE Nothing]
    /\ fds = [i \in Fd |-> NoDevice]

-----------------------------------------------------------------------------
(* The host folder.                                                          *)

exists(p) == nand[p].kind # "none"
IsFolder(tree, p) == p # << >> => tree[p].kind = "folder"
Below(p) == {q \in Path : IsPrefix(p, q) /\ exists(q)}      \* p included
Opened(p) == \E i \in Fd : fds[i].path = p
InUse(p) == \E q \in Below(p) : Opened(q)

Without(gone) == [q \in Path |-> IF q \in gone THEN Nothing ELSE nand[q]]

(* remove_all, its error not looked at: with a file in use below, it goes as  *)
(* far as it goes.                                                            *)
RemoveAll(p) ==
    IF ~InUse(p) THEN {Below(p)}
    ELSE {gone \in SUBSET {q \in Below(p) : ~Opened(q)} :
            \A q \in gone : Below(q) \subseteq gone}

(* Where q, at or below p, goes when p becomes r.                             *)
Rebased(q, p, r) == r \o SubSeq(q, Len(p) + 1, Len(q))

(* Mutant: a folder's entry alone, as if it were a file.                      *)
MovedAlone(tree, from, to) ==
    [tree EXCEPT ![to] = tree[from], ![from] = Nothing]
Moved(tree, from, to) ==
    [q \in Path |->
        CASE IsPrefix(to, q) -> LET was == Rebased(q, to, from)
                                IN IF was \in Path THEN tree[was] ELSE Nothing
          [] IsPrefix(from, q) -> Nothing
          [] OTHER -> tree[q]]

-----------------------------------------------------------------------------
(* Descriptors: an open takes the first that is free, or fails. (The host's   *)
(* file of one that failed so stays open in the host: not modelled.)          *)

SlotFree == \E i \in Fd : fds[i] = NoDevice
FirstFree == CHOOSE i \in Fd : /\ fds[i] = NoDevice
                               /\ \A j \in Fd : fds[j] = NoDevice => i <= j
Open(device) == /\ SlotFree /\ fds' = [fds EXCEPT ![FirstFree] = device]
                /\ UNCHANGED nand

OpenFile(p, write) ==
    /\ nand[p].kind = "file"
    /\ Open([NoDevice EXCEPT !.dev = "file", !.path = p, !.write = write])
OpenDrive == Open([NoDevice EXCEPT !.dev = "di"])

Close(i) ==
    /\ fds[i] # NoDevice /\ fds' = [fds EXCEPT ![i] = NoDevice]
    /\ UNCHANGED nand

-----------------------------------------------------------------------------
(* A file's reads and writes, a block at a time, through stdio.               *)

Data(i) == nand[fds[i].path].data

(* Out of what was read ahead while that lasts, or the file read anew.        *)
NandRead(i) ==
    /\ fds[i].dev = "file"
    /\ LET f == fds[i]
           had == \E c \in f.ahead : f.pos < Len(c)
       IN  fds' = [fds EXCEPT ![i] =
                IF had THEN [f EXCEPT !.pos = @ + 1]
                ELSE [f EXCEPT !.ahead = {Data(i)}, !.behind = FALSE,
                               !.pos = IF @ < Len(Data(i)) THEN @ + 1 ELSE @]]
    /\ UNCHANGED nand

(* Flushed before it is answered; beyond the end of the file it leaves zeros  *)
(* in between. (After a read, with no seek between, stdio may also refuse it.)*)
Written(i, v) == LET d == Data(i)  n == fds[i].pos + 1
                 IN [k \in 1 .. IF n > Len(d) THEN n ELSE Len(d) |->
                        IF k = n THEN v ELSE IF k <= Len(d) THEN d[k] ELSE Zero]
NandWrite(i, v) ==
    /\ fds[i].dev = "file" /\ fds[i].write /\ fds[i].pos < MaxLen
    /\ nand' = [nand EXCEPT ![fds[i].path] = File(Written(i, v))]
    /\ fds' = [j \in Fd |->
                IF j = i THEN [fds[i] EXCEPT !.pos = @ + 1, !.ahead = {}, !.behind = FALSE]
                ELSE [fds[j] EXCEPT !.behind = @ \/ (/\ fds[j].path = fds[i].path
                                                     /\ fds[j].ahead # {})]]

(* Anywhere, beyond the end of the file too. What was read ahead may be kept. *)
(* GetFileStats goes to the end and back.                                     *)
NandSeek(i, to) ==
    /\ fds[i].dev = "file"
    /\ \E f \in {fds[i], [fds[i] EXCEPT !.ahead = {}, !.behind = FALSE]} :
        fds' = [fds EXCEPT ![i] = [f EXCEPT !.pos = to]]
    /\ UNCHANGED nand

-----------------------------------------------------------------------------
(* /dev/fs. Assumed of the games: they create nothing below a file (the host  *)
(* library's exception, or a null stream's close, would end the program).     *)
(* Bound: a rename keeps to the modelled paths.                               *)

Create(p, what) ==
    /\ ~exists(p) /\ IsFolder(nand, Front(p))
    /\ nand' = [nand EXCEPT ![p] = what] /\ UNCHANGED fds

Delete(p) ==
    /\ exists(p)
    /\ \E gone \in RemoveAll(p) : nand' = Without(gone)
    /\ UNCHANGED fds

CanMove(tree, from, to) ==
    /\ tree[from].kind # "none" /\ tree[to].kind = "none"
    /\ IsFolder(tree, Front(to)) /\ ~IsPrefix(from, to) /\ ~InUse(from)

(* Mutant: the target removed before it is known that there is a source.      *)
RenameUnchecked(from, to) ==
    /\ \A q \in Below(from) : Rebased(q, from, to) \in Path
    /\ \E gone \in RemoveAll(to) :
        nand' = IF CanMove(Without(gone), from, to)
                THEN Moved(Without(gone), from, to) ELSE Without(gone)
    /\ UNCHANGED fds
Rename(from, to) == exists(from) /\ RenameUnchecked(from, to)

-----------------------------------------------------------------------------
(* /dev/di: a command that fails leaves its error for RequestError. (One it   *)
(* does not know fails and leaves none.)                                      *)

DriveFails(i) ==
    /\ fds[i].dev = "di"
    /\ \E e \in Error : fds' = [fds EXCEPT ![i].error = e]
    /\ UNCHANGED nand
RequestError(i) ==
    /\ fds[i].dev = "di" /\ fds' = [fds EXCEPT ![i].error = "none"]
    /\ UNCHANGED nand

(* The program ends, and is started again.                                    *)
ios_init ==
    /\ nand' = [p \in Path |-> IF p = <<Tmp>> THEN Folder
                               ELSE IF IsPrefix(<<Tmp>>, p) THEN Nothing ELSE nand[p]]
    /\ fds' = [i \in Fd |-> NoDevice]

FsNext ==
    \/ \E p \in Path : \/ \E w \in BOOLEAN : OpenFile(p, w)
                       \/ Create(p, File(<< >>)) \/ Create(p, Folder) \/ Delete(p)
                       \/ \E q \in Path : Rename(p, q)
    \/ \E i \in Fd : \/ Close(i) \/ NandRead(i) \/ DriveFails(i) \/ RequestError(i)
                     \/ \E v \in Value : NandWrite(i, v)
                     \/ \E to \in 0 .. MaxLen : NandSeek(i, to)
    \/ OpenDrive \/ ios_init

FsSpec == FsInit /\ [][FsNext]_fsVars

-----------------------------------------------------------------------------
(* Whatever is deleted, renamed and restarted: what there is lies in a folder *)
(* that is there; an open descriptor's file is there; and what stdio has read *)
(* ahead for a descriptor is in the file, unless another descriptor has       *)
(* written it since. With the types.                                          *)
FsInv ==
    /\ FsTypeOK
    /\ \A p \in Path : exists(p) => IsFolder(nand, Front(p))
    /\ \A i \in Fd : fds[i].dev = "file" =>
        /\ nand[fds[i].path].kind = "file"
        /\ fds[i].behind \/ fds[i].ahead \subseteq {Data(i)}

(* A rename moves the whole of what it names, or leaves everything as it was  *)
(* (ios.cpp 236-243 removes the target before it knows that it can), unless   *)
(* one path lies in the other, or a file below either is open.                *)
AllOrNothing == [][nand' # nand => \A from, to \in Path :
    /\ Rename(from, to)
    /\ ~IsPrefix(from, to) /\ ~IsPrefix(to, from) /\ ~InUse(from) /\ ~InUse(to)
    => exists(from) /\ nand' = Moved(nand, from, to)]_fsVars
=============================================================================
