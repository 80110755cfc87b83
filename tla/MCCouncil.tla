------------------------------- MODULE MCCouncil -------------------------------
(***************************************************************************)
(* Model checking of Council with two roles: one has the duties of the     *)
(* devil's advocate and of the two critics, the other those of the formal  *)
(* verifier.                                                               *)
(***************************************************************************)
EXTENDS Council

CONSTANTS lit, exp

(* Favourable contributions with any coverage, and unfavourable ones.      *)
MCVoice ==
  [actor : Actor, verdict : {"pass"}, objects : {FALSE},
   checked : {{}} \cup {{Claim} \cup N : N \in SUBSET {lit, exp}}]
  \cup [actor : Actor, verdict : {"fail", "revise"}, objects : {FALSE}, checked : {{Claim}}]
  \cup [actor : Actor, verdict : {"not_applicable"}, objects : BOOLEAN, checked : {{Claim}}]
=============================================================================
