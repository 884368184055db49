--------------------------- MODULE MCGuestThreads ---------------------------
(* GuestThreads with three guest threads: main and two that the guest      *)
(* creates, cancels, and creates again.                                    *)
EXTENDS GuestThreads
=============================================================================
