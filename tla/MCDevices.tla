------------------------------ MODULE MCDevices ------------------------------
(* What the guest sees of its devices, side by side: the registers with their *)
(* interrupt lines, the controllers behind WPAD and KPAD, and IOS's files.    *)
(* They share no state, so each behaviour moves one of them.                  *)
EXTENDS Wpad, Registers, IosFiles

VARIABLE part
devicesVars == <<vars, regVars, fsVars, part>>

DevicesInit ==
    /\ part \in {"registers", "controllers", "files"}
    /\ Init /\ RegInit /\ FsInit
    /\ part # "controllers" => mode = "remote"
    /\ part # "registers" => used = "VI" /\ en = {} /\ pads = {}

Only(A) == part = "controllers" /\ A /\ UNCHANGED <<regVars, fsVars, part>>

DevicesNext ==
    \/ part = "registers" /\ RegNext /\ UNCHANGED <<vars, fsVars, part>>
    \/ part = "files" /\ FsNext /\ UNCHANGED <<vars, regVars, part>>
    \/ Only(Next)

DevicesSpec ==
    /\ DevicesInit /\ [][DevicesNext]_devicesVars
    /\ WF_devicesVars(Only(\E t \in Thread : StartDeliver(t)))
    /\ \A t \in Thread :
        WF_devicesVars(Only(DeliverStep(t))) /\ WF_devicesVars(Only(CallReturns(t)))
    /\ WF_devicesVars(Only(Tick))
=============================================================================
