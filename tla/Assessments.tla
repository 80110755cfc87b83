----------------------------- MODULE Assessments -----------------------------
(***************************************************************************)
(* What the human-safety agent and the resilience agent make of an         *)
(* observation and of the tools' answers.  People read these assessments;  *)
(* the planner reads only whether the parts are ready.                     *)
(*                                                                         *)
(* Numbers are integers: the safety score in points, readiness in          *)
(* thousandths, the resilience score in hundredths of a point, times in    *)
(* minutes.                                                                *)
(***************************************************************************)
EXTENDS MaintenanceAgents, Sequences

-----------------------------------------------------------------------------
(* Human safety; fast: the shaft makes 2500 turns a minute or more *)

SafetyHazards(o, fast) ==
  {h \in {"hot surface", "ejection", "secondary damage"} :
     \/ h = "hot surface" /\ o.temperature >= 70
     \/ h = "ejection" /\ fast
     \/ h = "secondary damage" /\ ContinuationRisk(o) \in {"high", "critical"}}

SafetyScore(o, fast) ==
  88 - 8 * Cardinality(SafetyHazards(o, fast) \cap {"hot surface", "ejection"})
     - (CASE ContinuationRisk(o) = "high" -> 10
          [] ContinuationRisk(o) = "critical" -> 18
          [] OTHER -> 0)
     - (IF NeedsMoreEvidence(o) THEN 5 ELSE 0)

SafetyRisk(o, fast) ==
  LET score == SafetyScore(o, fast)
  IN IF score < 55 THEN "critical"
     ELSE IF score < 70 THEN "high"
     ELSE IF score < 84 THEN "medium"
     ELSE "low"

Technicians(o) == IF ContinuationRisk(o) \in {"high", "critical"} THEN 2 ELSE 1

\* Maintenance that opens the machine has to wait for better evidence.
Withheld(o) == NeedsMoreEvidence(o)

-----------------------------------------------------------------------------
(* Resilience *)

\* What the tools have answered; stock: how many there are of each part asked for.
\* A tool that has not answered leaves the defaults of Unheard.
Sites == [stock: Seq(Nat), qualified: Nat, available: Nat, buffer: Nat, transition: Nat]

Unheard == [stock |-> <<>>, qualified |-> 1, available |-> 1, buffer |-> 0, transition |-> 30]

\* No answer, and nothing asked for, count as parts that are missing.
PartsReady(site) ==
  site.stock # <<>> /\ \A k \in DOMAIN site.stock : site.stock[k] > 0

Readiness(site) == Smaller(1000, 350 * site.qualified + 150 * Smaller(2, site.available))

ResilienceScore(site) ==
  LET points == 5200 + Smaller(1800, 35 * site.buffer) + 2 * Readiness(site)
                + (IF PartsReady(site) THEN 1000 ELSE -1500)
  IN Larger(0, Smaller(10000, points))

SpareRisk(site) == IF PartsReady(site) THEN "low" ELSE "high"

RecoveryTime(site) == Larger(20, site.transition + 55)

Constraints(site) ==
  {c \in {"parts", "workforce", "buffer"} :
     \/ c = "parts" /\ ~PartsReady(site)
     \/ c = "workforce" /\ Readiness(site) < 700
     \/ c = "buffer" /\ site.buffer < 20}

=============================================================================
