----------------------------- MODULE MCAudioPath -----------------------------
(* AudioPath with bounds of a few half blocks.                               *)
EXTENDS AudioPath
=============================================================================
