-------------------------------- MODULE Wpad --------------------------------
(* The Wii Remotes at the WPAD and KPAD layer (wpad.cpp): the callbacks the  *)
(* guest registers, the requests that finish later, and deliver(), which     *)
(* calls them from a retrace or from any call that reads a Remote.  A        *)
(* callback is guest code: it may call WPAD again, and other guest threads   *)
(* may run and call WPAD before it returns.                                  *)
(*                                                                           *)
(* A sample of KPADRead is reduced to its button edges, a WPADStatus to      *)
(* which channel and device it was taken from.                               *)
EXTENDS Naturals, Sequences, FiniteSets

CONSTANTS
    Thread,       \* the guest threads that call WPAD
    NChan,        \* channels 0 .. NChan-1 (4 in the code)
    Callback,     \* addresses of guest callbacks
    Null,         \* no callback: address 0
    DoneMax,      \* completions that fit the table (8 in the code)
    Settle,       \* kSettle: the 0.2 s between a registration and the first call
    Horizon,      \* bound: the time base stops here
    MaxRequests,  \* bound: requests with a callback in a behaviour
    Button        \* the buttons of a Remote

ASSUME WpadAssumption ==
    /\ NChan \in Nat \ {0} /\ DoneMax \in Nat \ {0}
    /\ Settle \in Nat /\ Horizon \in Nat /\ MaxRequests \in Nat
    /\ Settle <= Horizon

VARIABLES
    mode,        \* "remote", "nunchuk" or "classic": what the game plays with
    plugged,     \* plugged[c]: the host has a Classic Controller for channel c
    pressed,     \* the buttons the host holds down on channel 0's Remote
    tb,          \* the time base
    cb,          \* cb[c][k]: the callback of kind k registered for channel c
    since,       \* since[c]: when a connect callback was last registered
    told,        \* told[c], toldHere[c]: what the game was last told
    toldHere,
    done,        \* completions to tell: channel and number of the request
    delivering,  \* the flag that keeps deliver() from nesting
    frame,       \* frame[t]: where thread t is in deliver()
    prev,        \* the buttons KPADRead saw last on channel 0
    believed,    \* history: the buttons a reader of the edges takes for held
    asked,       \* history: requests that entered the table
    answered,    \* history: the requests called back, in order
    heard,       \* history: what each connect callback has heard since it was set
    latest,      \* history: the connect callback registered last on each channel
    within       \* history: channels whose KPAD connect callback was registered
                 \* inside a call of their WPAD one

dev == <<mode, plugged, pressed, tb>>
reg == <<cb, since, told, toldHere>>
pad == <<prev, believed>>
history == <<asked, answered, heard, latest, within>>
vars == <<dev, reg, done, delivering, frame, pad, history>>

Chan == 0 .. NChan - 1
Connect == {"wpad", "kpad"}
Kind == Connect \cup {"ext"}

(* A thread outside deliver(); one inside is at the completions ("done"), at *)
(* the look at channel i ("chan"), or before or in one of i's three calls.   *)
(* `then`: what the caller of deliver() goes on to do.                       *)
Out == [at |-> "out", i |-> 0, here |-> FALSE, in |-> FALSE, t0 |-> 0, then |-> "nothing"]

TypeOK ==
    /\ mode \in {"remote", "nunchuk", "classic"}
    /\ plugged \in [Chan -> BOOLEAN] /\ pressed \subseteq Button
    /\ tb \in 0 .. Horizon
    /\ cb \in [Chan -> [Kind -> Callback \cup {Null}]]
    /\ since \in [Chan -> 0 .. Horizon]
    /\ told \in [Chan -> BOOLEAN] /\ toldHere \in [Chan -> BOOLEAN]
    /\ done \in Seq([chan : Chan, id : 1 .. MaxRequests]) /\ Len(done) <= DoneMax
    /\ delivering \in BOOLEAN
    /\ frame \in [Thread -> [at : {"out", "done", "chan", "read"} \cup Kind, i : Nat,
                             here : BOOLEAN, in : BOOLEAN, t0 : 0 .. Horizon,
                             then : {"nothing", "read"}]]
    /\ prev \subseteq Button
    /\ believed \subseteq Button
    /\ asked \in 0 .. MaxRequests /\ answered \in Seq(1 .. MaxRequests)
    /\ heard \in [Chan -> [Connect -> {"nothing", "here", "gone"}]]
    /\ latest \in [Chan -> Connect] /\ within \subseteq Chan

Init ==
    /\ mode \in {"remote", "nunchuk", "classic"}
    /\ plugged = [c \in Chan |-> FALSE] /\ pressed = {} /\ tb = 0
    /\ cb = [c \in Chan |-> [k \in Kind |-> Null]]
    /\ since = [c \in Chan |-> 0]
    /\ told = [c \in Chan |-> FALSE] /\ toldHere = [c \in Chan |-> FALSE]
    /\ done = <<>> /\ delivering = FALSE /\ frame = [t \in Thread |-> Out]
    /\ prev = {} /\ believed = {}
    /\ asked = 0 /\ answered = <<>>
    /\ heard = [c \in Chan |-> [k \in Connect |-> "nothing"]]
    /\ latest = [c \in Chan |-> "kpad"] /\ within = {}

-----------------------------------------------------------------------------
(* What each channel holds. *)

device(c) == IF mode = "classic" THEN "classic"
             ELSE IF mode = "nunchuk" /\ c = 0 THEN "freestyle" ELSE "core"

present(c) == IF mode = "classic" THEN plugged[c] ELSE c = 0

(* Guest code has the CPU: no thread is in deliver()'s own code. *)
Guest == \A t \in Thread : frame[t].at = "out" \/ frame[t].in

At(t, where) == frame[t].at = where /\ ~frame[t].in
GoTo(t, where, i) == frame' = [frame EXCEPT ![t].at = where, ![t].i = i]

-----------------------------------------------------------------------------
(* Calls of the guest. *)

InWpadCall(c) == \E t \in Thread : frame[t].at = "wpad" /\ frame[t].i = c

(* The slot takes the callback; a connect callback that is new starts over.  *)
(* Bound: registrations end a settling time before the time base does.       *)
SetCallback(c, k, f) ==
    /\ Guest
    /\ tb + Settle <= Horizon
    /\ cb' = [cb EXCEPT ![c][k] = f]
    /\ LET anew == k \in Connect /\ f # Null /\ f # cb[c][k] IN
       /\ since' = IF anew THEN [since EXCEPT ![c] = tb] ELSE since
       /\ told' = [told EXCEPT ![c] = @ /\ ~anew]
       /\ heard' = IF k \in Connect /\ f # cb[c][k]
                   THEN [heard EXCEPT ![c][k] = "nothing"] ELSE heard
       /\ latest' = IF anew THEN [latest EXCEPT ![c] = k] ELSE latest
       /\ within' = IF anew /\ k = "kpad"
                    THEN (within \ {c}) \cup {d \in {c} : InWpadCall(d)} ELSE within
    /\ UNCHANGED <<dev, toldHere, done, delivering, frame, pad, asked, answered>>

(* WPADControlDpd and WPADGetInfoAsync with a callback: it is kept for the   *)
(* next delivery, unless the table is full.                                  *)
Room == Len(done) < DoneMax
finish_later(c) ==
    IF Room
    THEN /\ done' = Append(done, [chan |-> c, id |-> asked + 1])
         /\ asked' = asked + 1
    ELSE UNCHANGED <<done, asked>>

Request(c) ==
    /\ Guest /\ present(c)
    /\ asked < MaxRequests
    /\ finish_later(c)
    /\ UNCHANGED <<dev, reg, delivering, frame, pad, answered, heard, latest, within>>

-----------------------------------------------------------------------------
(* deliver(): from the retrace, a probe or a read; inside one it returns.    *)

NoFlag == TRUE
MayDeliver == ~delivering

Enter(t, then) ==
    /\ Guest /\ frame[t].at = "out"
    /\ MayDeliver
    /\ delivering' = TRUE
    /\ frame' = [frame EXCEPT ![t].at = "done", ![t].i = 1, ![t].then = then]
    /\ UNCHANGED <<dev, reg, done, pad, history>>

StartDeliver(t) == Enter(t, "nothing")

(* The length is read again after every call: a callback may have asked for *)
(* more.                                                                     *)
CallDone(t) ==
    /\ At(t, "done") /\ frame[t].i <= Len(done)
    /\ frame' = [frame EXCEPT ![t].in = TRUE]
    /\ answered' = Append(answered, done[frame[t].i].id)
    /\ UNCHANGED <<dev, reg, done, delivering, pad, asked, heard, latest, within>>

Back(t) == frame' = [frame EXCEPT ![t] =
                         [Out EXCEPT !.at = IF frame[t].then = "read" THEN "read" ELSE "out"]]
LeaveFlagged(t) == Back(t) /\ UNCHANGED delivering
Leave(t) == Back(t) /\ delivering' = FALSE

DoneEnds(t) ==
    /\ At(t, "done") /\ frame[t].i > Len(done)
    /\ done' = <<>>
    /\ IF mode = "remote" THEN Leave(t)
       ELSE /\ frame' = [frame EXCEPT ![t].at = "chan", ![t].i = 0, ![t].t0 = tb]
            /\ UNCHANGED delivering
    /\ UNCHANGED <<dev, reg, pad, history>>

(* A channel is told of when it has a connect callback, has settled, and     *)
(* differs from what was told; an empty one never told of is only noted.     *)
(* The difference of the times is unsigned: a registration later than the    *)
(* reading of the clock has settled at once.                                 *)
Settled(t, c) == frame[t].t0 < since[c] \/ frame[t].t0 - since[c] >= Settle
OnlyFirst(t, c) == /\ \E k \in Connect : cb[c][k] # Null
                   /\ Settled(t, c) /\ ~told[c]
News(t, c) == /\ \E k \in Connect : cb[c][k] # Null
              /\ Settled(t, c)
              /\ ~(told[c] /\ toldHere[c] = present(c))

AlwaysSaid(c) == FALSE
NothingToSay(c) == ~told[c] /\ ~present(c)

LookAt(t) ==
    LET c == frame[t].i  here == present(c) IN
    /\ At(t, "chan") /\ c < NChan
    /\ IF News(t, c)
       THEN /\ told' = [told EXCEPT ![c] = TRUE]
            /\ toldHere' = [toldHere EXCEPT ![c] = here]
            /\ frame' = IF NothingToSay(c)
                        THEN [frame EXCEPT ![t].i = c + 1]
                        ELSE [frame EXCEPT ![t].at = "wpad", ![t].here = here]
       ELSE GoTo(t, "chan", c + 1) /\ UNCHANGED <<told, toldHere>>
    /\ UNCHANGED <<dev, cb, since, done, delivering, pad, history>>

(* The calls of a channel with news, in this order; each slot is read just   *)
(* before its call.                                                          *)
After == [wpad |-> "kpad", kpad |-> "ext", ext |-> "chan"]
EitherCalled(t, k) == LET c == frame[t].i IN
    /\ cb[c][k] # Null
    /\ k = "ext" => frame[t].here /\ device(c) # "core"
    /\ k = "kpad" => cb[c]["wpad"] = Null
Due(t, k) == LET c == frame[t].i IN
    /\ cb[c][k] # Null
    /\ k = "ext" => frame[t].here /\ device(c) # "core"

Pass(t, k) == GoTo(t, After[k], IF k = "ext" THEN frame[t].i + 1 ELSE frame[t].i)

Call(t, k) ==
    LET c == frame[t].i IN
    /\ At(t, k)
    /\ IF Due(t, k)
       THEN /\ frame' = [frame EXCEPT ![t].in = TRUE]
            /\ heard' = IF k = "ext" THEN heard
                        ELSE [heard EXCEPT ![c][k] = IF frame[t].here THEN "here" ELSE "gone"]
       ELSE Pass(t, k) /\ UNCHANGED heard
    /\ UNCHANGED <<dev, reg, done, delivering, pad, asked, answered, latest, within>>

CallReturns(t) ==
    /\ Guest /\ frame[t].in
    /\ LET f == frame[t] IN
       frame' = [frame EXCEPT ![t].in = FALSE,
                              ![t].at = IF f.at = "done" THEN "done" ELSE After[f.at],
                              ![t].i = IF f.at \in {"done", "ext"} THEN f.i + 1 ELSE f.i]
    /\ UNCHANGED <<dev, reg, done, delivering, pad, history>>

DeliverEnds(t) ==
    /\ At(t, "chan") /\ frame[t].i = NChan
    /\ Leave(t)
    /\ UNCHANGED <<dev, reg, done, pad, history>>

(* KPADRead on channel 0, which delivers first: the edges against what was   *)
(* read last. A Remote that holds a Classic has no button pressed.           *)
Edges(p) == [trig |-> p \ prev, release |-> prev \ p]

Sample ==
    /\ IF present(0)
       THEN LET p == IF mode = "classic" THEN {} ELSE pressed IN
            /\ believed' = (believed \ Edges(p).release) \cup Edges(p).trig
            /\ prev' = p
       ELSE UNCHANGED pad
    /\ UNCHANGED <<dev, reg, done, delivering, history>>

KPADRead(t) ==
    \/ Enter(t, "read")
    \/ Guest /\ ~MayDeliver /\ Sample /\ UNCHANGED frame

ReadEnds(t) == At(t, "read") /\ Sample /\ frame' = [frame EXCEPT ![t] = Out]

-----------------------------------------------------------------------------
(* The host: controllers and buttons change, time passes.                    *)

Plug(c) ==
    /\ mode = "classic"
    /\ plugged' = [plugged EXCEPT ![c] = ~@]
    /\ UNCHANGED <<mode, pressed, tb, reg, done, delivering, frame, pad, history>>

Press(b) ==
    /\ mode # "classic"
    /\ pressed' = (pressed \ {b}) \cup ({b} \ pressed)
    /\ UNCHANGED <<mode, plugged, tb, reg, done, delivering, frame, pad, history>>

Tick ==
    /\ tb < Horizon
    /\ tb' = tb + 1
    /\ UNCHANGED <<mode, plugged, pressed, reg, done, delivering, frame, pad, history>>

DeliverStep(t) == \/ CallDone(t) \/ DoneEnds(t) \/ LookAt(t) \/ DeliverEnds(t)
                  \/ ReadEnds(t)
                  \/ \E k \in Kind : Call(t, k)

Next ==
    \/ \E c \in Chan : Request(c) \/ Plug(c)
    \/ \E c \in Chan, k \in Kind, f \in Callback \cup {Null} : SetCallback(c, k, f)
    \/ \E t \in Thread : StartDeliver(t) \/ KPADRead(t) \/ DeliverStep(t) \/ CallReturns(t)
    \/ \E b \in Button : Press(b)
    \/ Tick

Spec == Init /\ [][Next]_vars

(* Retraces keep coming and call deliver() on whichever thread runs; its own *)
(* code goes on; the guest's callbacks return; time passes.                  *)
FairSpec ==
    /\ Spec
    /\ WF_vars(\E t \in Thread : StartDeliver(t))
    /\ \A t \in Thread : WF_vars(DeliverStep(t)) /\ WF_vars(CallReturns(t))
    /\ WF_vars(Tick)

-----------------------------------------------------------------------------
(* The entries of the table whose callback has not been called yet.          *)
Untold ==
    LET first == IF \E t \in Thread : frame[t].at = "done"
                 THEN LET f == frame[CHOOSE t \in Thread : frame[t].at = "done"]
                      IN IF f.in THEN f.i + 1 ELSE f.i
                 ELSE 1
    IN SubSeq(done, first, Len(done))

(* Every request that entered the table is called back once and in order,    *)
(* also those made by a callback while deliver() goes through the table and  *)
(* those of other threads (deliver, finish_later).                           *)
AnsweredInOrder ==
    answered \o [n \in DOMAIN Untold |-> Untold[n].id] = [n \in 1 .. asked |-> n]

(* KPADRead's edges add up: a game that counts presses and releases never    *)
(* disagrees with what is held, whoever else read or probed in between.      *)
EdgesAddUp == believed = prev

PadInv == TypeOK /\ AnsweredInOrder /\ EdgesAddUp

(* The callback was registered inside the call that comes before its own.    *)
SetWithin(c, k) == k = "kpad" /\ c \in within

(* The game believes what deliver() has put down as told.  Of a controller   *)
(* that is there every connect callback has heard; of its leaving the one    *)
(* registered last has, when it had heard of it.  Not so a KPAD callback     *)
(* registered inside the channel's WPAD call: it hears "here" at once, as    *)
(* not told yet, and of a leaving that follows nothing (set_callback,        *)
(* deliver at wpad.cpp:118-125).                                             *)
HeardLatest ==
    \A c \in Chan :
        (told[c] /\ \A t \in Thread : frame[t].at \in Connect => frame[t].i # c) =>
        IF toldHere[c]
        THEN \A k \in Connect : cb[c][k] # Null => heard[c][k] = "here"
        ELSE LET k == latest[c] IN
             cb[c][k] # Null /\ ~SetWithin(c, k) => heard[c][k] # "here"

(* No connect callback is told that a controller left before it was told it  *)
(* was there, whatever is registered, plugged and unplugged between the look *)
(* and the calls (wpad.cpp:118: nothing to say): but for the same KPAD       *)
(* callback, registered inside the WPAD callback that hears of the leaving.  *)
GoneAfterHere ==
    [][\A t \in Thread, k \in Connect : LET c == frame[t].i IN
        At(t, k) /\ frame'[t].in /\ ~frame[t].here /\ ~SetWithin(c, k)
        => heard[c][k] = "here"]_vars

(* No connect callback is called before the channel's registration is        *)
(* Settle old (the comment at wpad.cpp:34-37): a game's tables may not be    *)
(* ready yet.  It fails for registrations made inside a delivery (README).   *)
SettledFirst ==
    [][\A t \in Thread, k \in Connect :
        At(t, k) /\ frame'[t].in => tb >= since[frame[t].i] + Settle]_vars

(* A controller that stays or stays away is told of, and the game is left    *)
(* believing the truth, once its registrations end.                          *)
TruthIsTold ==
    \A c \in Chan, p \in BOOLEAN :
        <>[](mode # "remote" /\ present(c) = p /\ \E k \in Connect : cb[c][k] # Null)
        => <>[](told[c] /\ toldHere[c] = p)

(* Every request in the table is called back in the end: again and again     *)
(* none is left to tell.  (Requests of a behaviour are bounded.)             *)
AllAnswered == []<>(Len(answered) = asked)
=============================================================================
