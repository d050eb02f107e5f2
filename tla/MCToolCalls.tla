---------------------------- MODULE MCToolCalls ----------------------------
(***************************************************************************)
(* Instance of ToolCalls for TLC.                                          *)
(***************************************************************************)
EXTENDS ToolCalls

CONSTANTS w1, w2
=============================================================================
