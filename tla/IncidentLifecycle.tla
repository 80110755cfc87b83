------------------------- MODULE IncidentLifecycle -------------------------
(***************************************************************************)
(* What the maintenance workflow promises about each incident: a plan      *)
(* waits for a human decision, work is ordered only by an approval and at  *)
(* most once, an incident is closed only after ordered work, and at most   *)
(* twice, because each closing demands a health score a fifth above the    *)
(* one before.  Only a reset of the whole platform forgets an incident.    *)
(***************************************************************************)
EXTENDS Naturals

CONSTANT Incidents        \* numbers of the incidents

VARIABLE case             \* stage, orders and closings of each incident

Stages == {"unknown", "proposed", "refused", "ordered", "closed", "returned", "forgotten"}

Init == case = [i \in Incidents |-> [stage |-> "unknown", orders |-> 0, closings |-> 0]]

Moves(i, stage, orders, closings) ==
  case' = [case EXCEPT ![i] = [stage |-> stage, orders |-> orders, closings |-> closings]]

Propose(i) ==
  /\ case[i].stage = "unknown"
  /\ Moves(i, "proposed", 0, 0)

\* The approver rejects the plan, or asks for more evidence.
Refuse(i) ==
  /\ case[i].stage = "proposed"
  /\ Moves(i, "refused", 0, 0)

Order(i) ==
  /\ case[i].stage = "proposed"
  /\ Moves(i, "ordered", 1, 0)

Worked(i) == case[i].stage \in {"ordered", "closed", "returned"}

Close(i) ==
  /\ Worked(i) /\ case[i].closings < 2
  /\ Moves(i, "closed", 1, case[i].closings + 1)

Return(i) ==
  /\ Worked(i)
  /\ Moves(i, "returned", 1, case[i].closings)

\* /demo/reset deletes every record.
Reset ==
  case' = [i \in Incidents |->
             IF case[i].stage = "unknown" THEN case[i]
             ELSE [stage |-> "forgotten", orders |-> 0, closings |-> 0]]

Next == \/ Reset
        \/ \E i \in Incidents : Propose(i) \/ Refuse(i) \/ Order(i) \/ Close(i) \/ Return(i)

Spec == Init /\ [][Next]_case

=============================================================================
