---------------------------- MODULE MCRenderQueue ----------------------------
(* RenderQueue with two guest threads that draw, one or both of which read   *)
(* pictures back.                                                            *)
EXTENDS RenderQueue
=============================================================================
