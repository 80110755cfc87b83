--------------------------- MODULE ResearchGateProofs ---------------------------
(***************************************************************************)
(* Proofs about ResearchGate, for all evidence, counterexamples,           *)
(* experiments and reviewers and any number of council sessions.           *)
(***************************************************************************)
EXTENDS ResearchGate, TLAPS

Outcome == {"open", "failed", "revision_required", "passed"}

(* StatusTells is inductive on its own: what a handler records, _touch     *)
(* puts into the status before the handler ends.                           *)
IInv == TypeOK /\ StatusTells

-----------------------------------------------------------------------------
(* The session heard last moves to the front of the others (contribute).   *)
LEMMA MovedToFront ==
  ASSUME NEW c \in Seq(Outcome), NEW i \in 1..Len(c), NEW o \in Outcome
  PROVE  LET d == <<o>> \o SubSeq(c, 1, i - 1) \o SubSeq(c, i + 1, Len(c))
         IN  d \in Seq(Outcome) /\ Len(d) = Len(c)
<1> DEFINE a == SubSeq(c, 1, i - 1)
           b == SubSeq(c, i + 1, Len(c))
<1>1. a \in Seq(Outcome) /\ Len(a) = i - 1
  OBVIOUS
<1>2. b \in Seq(Outcome) /\ Len(b) = Len(c) - i
  OBVIOUS
<1> HIDE DEF a, b
<1>3. <<o>> \in Seq(Outcome) /\ Len(<<o>>) = 1
  OBVIOUS
<1>4. <<o>> \o a \o b \in Seq(Outcome) /\ Len(<<o>> \o a \o b) = 1 + (i - 1) + (Len(c) - i)
  BY <1>1, <1>2, <1>3
<1>5. QED
  <2>1. Len(c) \in Nat /\ i \in Int
    OBVIOUS
  <2>2. Len(<<o>> \o a \o b) = Len(c)
    BY <1>4, <2>1
  <2>3. QED
    BY <1>4, <2>2 DEF a, b

(* A handler that ends in _touch and leaves the ledger alone keeps         *)
(* StatusTells, as no review is ever taken back.                           *)
LEMMA TouchTells ==
  ASSUME IInv, Touch, UNCHANGED item,
         critic # NoReview => critic' # NoReview,
         verifier # NoReview => verifier' # NoReview
  PROVE  StatusTells' /\ status' \in {"active", "blocked", "under_review", "verified", "archived"}
BY DEF IInv, TypeOK, StatusTells, Touch, Settled

(* The inductive invariant holds in every state of every execution.        *)
THEOREM Invariance == Spec => []IInv
<1>1. Init => IInv
  <2> SUFFICES ASSUME Init PROVE TypeOK /\ StatusTells
    BY DEF IInv
  <2>1. TypeOK
    <3>1. council \in Seq(Outcome) /\ Len(council) = 0
      BY DEF Init
    <3>2. /\ council \in Seq({"open", "failed", "revision_required", "passed"})
          /\ Len(council) <= MaxSessions
      BY <3>1, MaxSessionsAssumption DEF Outcome
    <3>3. /\ objection \in [Counterexample -> {"none", "open", "resolved"}]
          /\ experiment \in [Experiment -> {"none", "recorded", "reproduced"}]
      BY DEF Init
    <3>4. /\ evidence \subseteq Evidence /\ result \in BOOLEAN
          /\ critic \in Review \cup {NoReview} /\ verifier \in Review \cup {NoReview}
      BY DEF Init
    <3>5. QED
      BY <3>2, <3>3, <3>4 DEF Init, TypeOK
  <2>2. Unresolved = {}
    BY DEF Init, Unresolved
  <2>3. QED
    BY <2>1, <2>2 DEF Init, StatusTells
<1>2. IInv /\ [Next]_vars => IInv'
  <2> SUFFICES ASSUME IInv, [Next]_vars PROVE IInv'
    OBVIOUS
  <2> USE DEF IInv
  <2>1. ASSUME NEW e \in Evidence, AddEvidence(e) PROVE IInv'
    BY <2>1, TouchTells DEF AddEvidence, TypeOK
  <2>2. ASSUME NEW x \in Counterexample, AddCounterexample(x) PROVE IInv'
    BY <2>2, TouchTells DEF AddCounterexample, TypeOK
  <2>3. ASSUME NEW x \in Counterexample, ResolveCounterexample(x) PROVE IInv'
    BY <2>3, TouchTells DEF ResolveCounterexample, TypeOK
  <2>4. ASSUME NEW p \in Experiment, AddExperiment(p) PROVE IInv'
    BY <2>4, TouchTells DEF AddExperiment, TypeOK
  <2>5. ASSUME NEW p \in Experiment, NEW o \in {"recorded", "reproduced"}, UpdateExperiment(p, o)
        PROVE  IInv'
    BY <2>5, TouchTells DEF UpdateExperiment, TypeOK
  <2>6. ASSUME NEW b \in BOOLEAN, SetResult(b) PROVE IInv'
    <3>1. \A r \in Review : Outdated(r) \in Review
      BY NoReviewAssumption DEF Outdated, Review
    <3>2. /\ critic' \in Review \cup {NoReview} /\ verifier' \in Review \cup {NoReview}
          /\ critic # NoReview => critic' # NoReview
          /\ verifier # NoReview => verifier' # NoReview
      BY <2>6, <3>1, NoReviewAssumption DEF SetResult, TypeOK, Outdated
    <3>3. QED
      BY <2>6, <3>2, TouchTells DEF SetResult, TypeOK
  <2>7. ASSUME NEW a \in Reviewer, NEW b \in BOOLEAN, NEW C \in SUBSET evidence
        PROVE  NewReview(a, b, C) \in Review /\ NewReview(a, b, C) # NoReview
    BY NoReviewAssumption DEF NewReview, Review, TypeOK
  <2>8. ASSUME NEW a \in Reviewer, NEW b \in BOOLEAN, NEW C \in SUBSET evidence,
               AddCriticReview(a, b, C)
        PROVE  IInv'
    BY <2>7, <2>8, TouchTells DEF AddCriticReview, TypeOK
  <2>9. ASSUME NEW a \in Reviewer, NEW b \in BOOLEAN, NEW C \in SUBSET evidence,
               AddVerifierReview(a, b, C)
        PROVE  IInv'
    BY <2>7, <2>9, TouchTells DEF AddVerifierReview, TypeOK
  <2>10. ASSUME council' \in Seq(Outcome), Len(council') <= MaxSessions,
                UNCHANGED <<branch, status, item>>
         PROVE  IInv'
    BY <2>10 DEF branch, TypeOK, StatusTells, Unresolved, Outcome
  <2>11. CASE OpenCouncil
    <3>1. council \in Seq(Outcome) /\ "open" \in Outcome
      BY DEF TypeOK, Outcome
    <3>2. <<"open">> \o council \in Seq(Outcome) /\ Len(<<"open">> \o council) = 1 + Len(council)
      BY <3>1
    <3>3. QED
      BY <2>10, <2>11, <3>1, <3>2, MaxSessionsAssumption DEF OpenCouncil
  <2>12. ASSUME NEW i \in 1..Len(council), NEW o \in Outcome, ContributeToCouncil(i, o)
         PROVE  IInv'
    <3>1. council \in Seq(Outcome) /\ Len(council) <= MaxSessions
      BY DEF TypeOK, Outcome
    <3>2. QED
      BY <2>10, <2>12, <3>1, MovedToFront DEF ContributeToCouncil
  <2>13. CASE Archive
    BY <2>13 DEF Archive, branch, TypeOK, StatusTells
  <2>14. CASE Accept
    BY <2>14 DEF Accept, Promoted, branch, TypeOK, StatusTells, Unresolved
  <2>15. CASE UNCHANGED vars
    BY <2>15 DEF vars, branch, TypeOK, StatusTells, Unresolved
  <2>16. QED
    BY <2>1, <2>2, <2>3, <2>4, <2>5, <2>6, <2>8, <2>9, <2>11, <2>12, <2>13, <2>14, <2>15
    DEF Next, Outcome
<1>3. QED
  BY <1>1, <1>2, PTL DEF Spec

-----------------------------------------------------------------------------
(* Every variable has its type, however often a branch is changed.         *)
THEOREM TypeCorrect == Spec => []TypeOK
<1>1. IInv => TypeOK
  BY DEF IInv
<1>2. QED
  BY <1>1, Invariance, PTL

(* The status _touch leaves behind tells what stands in the way of a       *)
(* branch, and a branch in the ledger is verified or archived for good.    *)
THEOREM StatusAlwaysTells == Spec => []StatusTells
<1>1. IInv => StatusTells
  BY DEF IInv
<1>2. QED
  BY <1>1, Invariance, PTL

(* The stage and the checks of gate_report, two separate decisions, agree  *)
(* but for missing support.                                                *)
THEOREM StageAlwaysTells == Spec => []StageTells
<1>1. StageTells
  <2> DEFINE Failing == {check \in DOMAIN Checks : ~Checks[check]}
  <2>1. Failing \subseteq {"reproducibility_or_formal_support"} <=>
          /\ HasHypothesis /\ evidence # {} /\ Unresolved = {} /\ result
          /\ Passes(critic) /\ Passes(verifier) /\ Independent /\ Covered /\ CouncilPasses
    <3>1. Failing \subseteq {"reproducibility_or_formal_support"} <=>
            \A check \in DOMAIN Checks :
              check = "reproducibility_or_formal_support" \/ Checks[check]
      OBVIOUS
    <3>2. DOMAIN Checks =
            {"hypothesis_present", "evidence_present", "counterexamples_resolved",
             "result_recorded", "reproducibility_or_formal_support",
             "independent_critic_pass", "verifier_pass", "critic_verifier_independent",
             "verifier_evidence_coverage", "adversarial_research_council"}
      BY DEF Checks
    <3>3. /\ Checks["hypothesis_present"] <=> HasHypothesis
          /\ Checks["evidence_present"] <=> evidence # {}
          /\ Checks["counterexamples_resolved"] <=> Unresolved = {}
          /\ Checks["result_recorded"] <=> result
          /\ Checks["independent_critic_pass"] <=> Passes(critic)
          /\ Checks["verifier_pass"] <=> Passes(verifier)
          /\ Checks["critic_verifier_independent"] <=> Independent
          /\ Checks["verifier_evidence_coverage"] <=> Covered
          /\ Checks["adversarial_research_council"] <=> CouncilPasses
      BY DEF Checks
    <3>4. QED
      BY <3>1, <3>2, <3>3
  <2>2. Stage = "accepted_knowledge" <=>
          /\ HasHypothesis /\ evidence # {} /\ Unresolved = {} /\ result
          /\ Passes(critic) /\ ~AtVerifier
    BY DEF Stage
  <2>3. QED
    BY <2>1, <2>2 DEF StageTells, AtVerifier
<1>2. QED
  BY <1>1, PTL

(* accept gives a branch its item only when everything the documented      *)
(* acceptance invariant lists holds.                                       *)
THEOREM AlwaysAcceptedOnlyWhen == Spec => AcceptedOnlyWhen
<1> DEFINE Invariant == /\ result /\ evidence # {} /\ Supported
                        /\ \A x \in Counterexample : objection[x] # "open"
                        /\ critic.passes /\ critic.checked # {} /\ verifier.passes
                        /\ critic.reviewer # verifier.reviewer
                        /\ evidence \subseteq verifier.checked
                        /\ Head(council) = "passed"
<1>1. IInv /\ [Next]_vars => [item = "none" /\ item' # "none" => Invariant]_vars
  <2> SUFFICES ASSUME IInv, Next, item = "none", item' # "none"
               PROVE  Invariant
    BY DEF vars
  <2>1. Accept
    BY DEF Next, AddEvidence, AddCounterexample, ResolveCounterexample, AddExperiment,
           UpdateExperiment, SetResult, AddCriticReview, AddVerifierReview, OpenCouncil,
           ContributeToCouncil, Archive
  <2>2. /\ Checks.evidence_present /\ Checks.counterexamples_resolved /\ Checks.result_recorded
        /\ Checks.reproducibility_or_formal_support /\ Checks.independent_critic_pass
        /\ Checks.verifier_pass /\ Checks.critic_verifier_independent
        /\ Checks.verifier_evidence_coverage /\ Checks.adversarial_research_council
    BY <2>1 DEF Accept, GateAccepts, Checks
  <2>3. /\ evidence # {} /\ Unresolved = {} /\ result /\ Supported
        /\ Passes(critic) /\ Passes(verifier) /\ Independent /\ Covered /\ CouncilPasses
    BY <2>2 DEF Checks
  <2>4. Head(council) = "passed"
    BY <2>3 DEF CouncilPasses, IInv, TypeOK
  <2>5. QED
    BY <2>3, <2>4 DEF Unresolved, Passes, Independent, Covered
<1>2. QED
  BY <1>1, Invariance, PTL DEF Spec, AcceptedOnlyWhen

(* What accept has put into the ledger no later handler changes.           *)
THEOREM ItemAlwaysStays == Spec => ItemStays
<1>1. [Next]_vars => [item # "none" => item' = item]_vars
  BY DEF Next, vars, AddEvidence, AddCounterexample, ResolveCounterexample, AddExperiment,
         UpdateExperiment, SetResult, AddCriticReview, AddVerifierReview, OpenCouncil,
         ContributeToCouncil, Archive, Accept, Promoted
<1>2. QED
  BY <1>1, PTL DEF Spec, ItemStays

=============================================================================
