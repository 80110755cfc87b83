----------------------------- MODULE CouncilOutcome -----------------------------
(***************************************************************************)
(* What the rest of the system may rely on about one council session: it   *)
(* is open until it has been heard in full, from then on every             *)
(* contribution may change the outcome, but never opens it again.  Council *)
(* implements it; ResearchGate uses it.                                    *)
(***************************************************************************)
VARIABLE status

Status == {"none", "open", "failed", "revision_required", "passed"}

(* What a contribution may make of the session.                            *)
Outcomes == IF status = "open" THEN Status \ {"none"} ELSE Status \ {"none", "open"}

Init == status = "none"

Open == status = "none" /\ status' = "open"

Contribute == status # "none" /\ status' \in Outcomes

Next == Open \/ Contribute

Spec == Init /\ [][Next]_status
=============================================================================
