------------------------------ MODULE MCIosIpc ------------------------------
(* IosIpc with a few blocks that the guest uses again and again.           *)
EXTENDS IosIpc
=============================================================================
