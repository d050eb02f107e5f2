----------------------------- MODULE MCLabFlow -----------------------------
(***************************************************************************)
(* Instances of LabFlow for TLC.                                           *)
(***************************************************************************)
EXTENDS LabFlow, TLC

\* Assignment ids are only compared.
Symmetry == Permutations(Ids)
=============================================================================
