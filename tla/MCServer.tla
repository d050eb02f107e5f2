------------------------------ MODULE MCServer ------------------------------
(***************************************************************************)
(* Instances of Server for TLC.                                            *)
(***************************************************************************)
EXTENDS Server

CONSTANTS
    l1, l2,     \* labs
    d1, d2      \* requests to /api/done
=============================================================================
