------------------------------ MODULE MCStores ------------------------------
(***************************************************************************)
(* Instance of module Stores for TLC.                                      *)
(***************************************************************************)
EXTENDS Stores, TLC

CONSTANTS
    x1, x2,         \* facts; texts of cards; rules
    g1, c1, c2, s1, i1, k1, k2, e1, e2

Op(f, what) == [file |-> f, action |-> what]
Write(f) == Op(f, "write")
Delete(f) == Op(f, "delete")

\* SKILL.md rewritten and a reference file dropped, a reference file rewritten,
\* and a batch whose second operation is not allowed.
ThreeBatches ==
    { <<Write("SKILL.md"), Delete("reference")>>, <<Write("reference")>>,
      <<Write("reference"), Delete("SKILL.md")>> }

\* One card_type.
AllPairs == Groups \X Groups

Symmetry == Permutations(Facts)
=============================================================================
