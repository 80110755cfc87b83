---------------------------- MODULE MCEvidenceGraph ----------------------------
(***************************************************************************)
(* Model checking of EvidenceGraph.                                        *)
(***************************************************************************)
EXTENDS EvidenceGraph, TLC

CONSTANTS b1, b2, s1, n1, k1, l1

(* Edges a user may ask for: against the direction of the edges the        *)
(* service adds, across branches, and to a record that may not be there.   *)
MCUserEdge ==
  {<<Item(s1), Result(b1)>>, <<Claim(b1), Claim(b2)>>, <<Claim(b1), Item(n1)>>}

=============================================================================
