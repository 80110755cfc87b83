------------------------------ MODULE ResearchGate ------------------------------
(***************************************************************************)
(* One research branch and the gate it must pass                           *)
(* (research_orchestration/service.py: the handlers that record evidence,  *)
(* counterexamples, experiments, results and reviews, _touch, gate_report, *)
(* accept, archive_branch).  Council sessions are seen through their       *)
(* outcome (CouncilOutcome, which Council implements); that the evidence   *)
(* graph is acyclic, the gate's own check of it included, is shown in      *)
(* EvidenceGraph and MCEvidenceGraph.                                      *)
(*                                                                         *)
(* The gate reads nothing of other branches.  Texts are left out: a review *)
(* remembers instead whether the result it was made for still stands.      *)
(***************************************************************************)
EXTENDS Integers, Sequences

CONSTANTS
  Evidence,        \* ids of evidence records
  Formal,          \* reproducible evidence, and proofs and derivations
  Counterexample,  \* ids of counterexample records
  Experiment,      \* ids of experiment records
  Reviewer,        \* actor ids of critics and verifiers
  NoReview,
  HasHypothesis,   \* whether the branch was created with a hypothesis
  MaxSessions      \* bound: council sessions opened

ASSUME EvidenceAssumption == Formal \subseteq Evidence
ASSUME HypothesisAssumption == HasHypothesis \in BOOLEAN
ASSUME MaxSessionsAssumption == MaxSessions \in Nat

VARIABLES
  evidence,   \* recorded evidence
  objection,  \* of each counterexample: "none", "open" or "resolved"
  experiment, \* of each experiment: "none", "recorded", "reproduced"
  result,     \* a result is recorded
  critic,     \* the latest critic review
  verifier,   \* the latest verifier review
  council,    \* outcomes of the sessions, the latest updated one first
  status,     \* BranchStatus
  item        \* the accepted knowledge of the branch

branch == <<evidence, objection, experiment, result, critic, verifier>>
vars == <<branch, council, status, item>>

Review == [reviewer : Reviewer,
           passes   : BOOLEAN,          \* verdict PASS, no blocking objection
           checked  : SUBSET Evidence,
           current  : BOOLEAN]          \* made for the result as it is now

ASSUME NoReviewAssumption == NoReview \notin Review

Session(i) == INSTANCE CouncilOutcome WITH status <- council[i]

(***************************************************************************)
(* gate_report.                                                            *)
(***************************************************************************)
Unresolved == {x \in Counterexample : objection[x] = "open"}

Supported == \/ evidence \cap Formal # {}
             \/ \E p \in Experiment : experiment[p] = "reproduced"

Passes(review) ==
  review # NoReview /\ review.passes /\ review.checked # {}

Independent ==
  critic # NoReview /\ verifier # NoReview /\ critic.reviewer # verifier.reviewer

Covered == verifier # NoReview /\ evidence \subseteq verifier.checked

(* Mutant of CouncilPasses: an earlier session may have passed.            *)
SomeCouncilPassed == \E i \in 1..Len(council) : council[i] = "passed"

CouncilPasses == council # <<>> /\ council[1] = "passed"

(* The checks of a report; those that fail are its blockers.               *)
Checks ==
  [hypothesis_present                |-> HasHypothesis,
   evidence_present                  |-> evidence # {},
   counterexamples_resolved          |-> Unresolved = {},
   result_recorded                   |-> result,
   reproducibility_or_formal_support |-> Supported,
   independent_critic_pass           |-> Passes(critic),
   verifier_pass                     |-> Passes(verifier),
   critic_verifier_independent       |-> Independent,
   verifier_evidence_coverage        |-> Covered,
   adversarial_research_council      |-> CouncilPasses]

GateAccepts == \A check \in DOMAIN Checks : Checks[check]

(* Mutant of AtVerifier: coverage is not asked for.                        *)
AtVerifierUncovered == ~Passes(verifier) \/ ~Independent \/ ~CouncilPasses

AtVerifier == ~Passes(verifier) \/ ~Independent \/ ~Covered \/ ~CouncilPasses

(* The stage a report shows, decided apart from the checks.                *)
Stage == IF ~HasHypothesis THEN "hypothesis"
         ELSE IF evidence = {} \/ Unresolved # {} \/ ~result THEN "evidence"
         ELSE IF ~Passes(critic) THEN "independent_critic"
         ELSE IF AtVerifier THEN "verifier"
         ELSE "accepted_knowledge"

(***************************************************************************)
(* Handlers.                                                               *)
(***************************************************************************)
Init ==
  /\ evidence = {} /\ result = FALSE
  /\ objection = [x \in Counterexample |-> "none"]
  /\ experiment = [p \in Experiment |-> "none"]
  /\ critic = NoReview /\ verifier = NoReview
  /\ council = <<>>
  /\ status = "active" /\ item = "none"

(* Mutant of Settled: an accepted branch is looked at again.               *)
SettledUnlessArchived == {"archived"}

(* Statuses _touch leaves alone.                                           *)
Settled == {"verified", "rejected", "archived"}

(* Mutant of Touch: an open counterexample rejects the branch for good.    *)
TouchRejects ==
  status' = IF status \in Settled THEN status
            ELSE IF Unresolved' # {} THEN "rejected"
            ELSE IF critic' # NoReview \/ verifier' # NoReview THEN "under_review"
            ELSE "active"

(* _touch, the end of every handler that changes the branch.               *)
Touch ==
  status' = IF status \in Settled THEN status
            ELSE IF Unresolved' # {} THEN "blocked"
            ELSE IF critic' # NoReview \/ verifier' # NoReview THEN "under_review"
            ELSE "active"

AddEvidence(e) ==
  /\ e \notin evidence
  /\ evidence' = evidence \cup {e}
  /\ UNCHANGED <<objection, experiment, result, critic, verifier, council, item>>
  /\ Touch

AddCounterexample(x) ==
  /\ objection[x] = "none"
  /\ objection' = [objection EXCEPT ![x] = "open"]
  /\ UNCHANGED <<evidence, experiment, result, critic, verifier, council, item>>
  /\ Touch

ResolveCounterexample(x) ==
  /\ objection[x] # "none"
  /\ objection' = [objection EXCEPT ![x] = "resolved"]
  /\ UNCHANGED <<evidence, experiment, result, critic, verifier, council, item>>
  /\ Touch

AddExperiment(p) ==
  /\ experiment[p] = "none"
  /\ experiment' = [experiment EXCEPT ![p] = "recorded"]
  /\ UNCHANGED <<evidence, objection, result, critic, verifier, council, item>>
  /\ Touch

(* update_experiment: any status may follow any other.                     *)
UpdateExperiment(p, outcome) ==
  /\ experiment[p] # "none"
  /\ experiment' = [experiment EXCEPT ![p] = outcome]
  /\ UNCHANGED <<evidence, objection, result, critic, verifier, council, item>>
  /\ Touch

Outdated(review) ==
  IF review = NoReview THEN NoReview ELSE [review EXCEPT !.current = FALSE]

(* set_result: a new text, or a blank one.                                 *)
SetResult(recorded) ==
  /\ result' = recorded
  /\ critic' = Outdated(critic) /\ verifier' = Outdated(verifier)
  /\ UNCHANGED <<evidence, objection, experiment, council, item>>
  /\ Touch

NewReview(a, passes, checked) ==
  [reviewer |-> a, passes |-> passes, checked |-> checked, current |-> result]

(* _add_review: unknown evidence is refused.                               *)
AddCriticReview(a, passes, checked) ==
  /\ critic' = NewReview(a, passes, checked)
  /\ UNCHANGED <<evidence, objection, experiment, result, verifier, council, item>>
  /\ Touch

AddVerifierReview(a, passes, checked) ==
  /\ verifier' = NewReview(a, passes, checked)
  /\ UNCHANGED <<evidence, objection, experiment, result, critic, council, item>>
  /\ Touch

(* open_session: the new session is the latest.                            *)
OpenCouncil ==
  /\ Len(council) < MaxSessions
  /\ council' = <<"open">> \o council
  /\ UNCHANGED <<branch, status, item>>

(* contribute to any session: it becomes the latest.                       *)
ContributeToCouncil(i, outcome) ==
  /\ outcome \in Session(i)!Outcomes
  /\ council' = <<outcome>> \o SubSeq(council, 1, i - 1) \o SubSeq(council, i + 1, Len(council))
  /\ UNCHANGED <<branch, status, item>>

(* archive_branch, called by the scheduler in any status of the branch     *)
(* when the council session heard last has failed.  Which sessions the     *)
(* scheduler has acted on before is in a file of its own and left out.     *)
Archive ==
  /\ council # <<>> /\ council[1] = "failed"
  /\ status' = "archived"
  /\ UNCHANGED <<branch, council, item>>

(* Mutant of Promoted: the latest reviews are written into the ledger      *)
(* again.                                                                  *)
PromotedAgain == IF critic.current /\ verifier.current THEN "reviewed" ELSE "unreviewed"

(* An item that is there already is returned as it is.                     *)
Promoted ==
  IF item # "none" THEN item
  ELSE IF critic.current /\ verifier.current THEN "reviewed" ELSE "unreviewed"

(* accept.                                                                 *)
Accept ==
  /\ GateAccepts
  /\ item' = Promoted
  /\ status' = IF item = "none" THEN "verified" ELSE status
  /\ UNCHANGED <<branch, council>>

Next ==
  \/ \E e \in Evidence : AddEvidence(e)
  \/ \E x \in Counterexample : AddCounterexample(x) \/ ResolveCounterexample(x)
  \/ \E p \in Experiment : AddExperiment(p)
  \/ \E p \in Experiment, o \in {"recorded", "reproduced"} : UpdateExperiment(p, o)
  \/ \E b \in BOOLEAN : SetResult(b)
  \/ \E a \in Reviewer, b \in BOOLEAN, C \in SUBSET evidence :
       AddCriticReview(a, b, C) \/ AddVerifierReview(a, b, C)
  \/ OpenCouncil
  \/ \E i \in 1..Len(council), o \in {"open", "failed", "revision_required", "passed"} :
       ContributeToCouncil(i, o)
  \/ Archive
  \/ Accept

Spec == Init /\ [][Next]_vars

-----------------------------------------------------------------------------
(***************************************************************************)
(* Properties.                                                             *)
(***************************************************************************)

(* Every variable has its type.                                            *)
TypeOK ==
  /\ evidence \subseteq Evidence
  /\ objection \in [Counterexample -> {"none", "open", "resolved"}]
  /\ experiment \in [Experiment -> {"none", "recorded", "reproduced"}]
  /\ result \in BOOLEAN
  /\ critic \in Review \cup {NoReview} /\ verifier \in Review \cup {NoReview}
  /\ council \in Seq({"open", "failed", "revision_required", "passed"})
  /\ Len(council) <= MaxSessions
  /\ status \in {"active", "blocked", "under_review", "verified", "archived"}
  /\ item \in {"none", "reviewed", "unreviewed"}

(* The status of a branch that is still being worked on says what stands   *)
(* in its way; it is verified only with an item in the ledger, and with an *)
(* item it is verified or archived, whatever is recorded afterwards.       *)
StatusTells ==
  /\ status \in {"active", "blocked", "under_review"} =>
       /\ item = "none"
       /\ status = "blocked" <=> Unresolved # {}
       /\ status = "active" => critic = NoReview /\ verifier = NoReview
  /\ status = "verified" => item # "none"

(* The stage of a report, decided apart from its checks, agrees with their *)
(* verdict but for one case: all that is missing is reproducible or formal *)
(* support.                                                                *)
StageTells ==
  Stage = "accepted_knowledge" <=>
    {check \in DOMAIN Checks : ~Checks[check]} \subseteq {"reproducibility_or_formal_support"}

(* A branch gets its item when everything the documented acceptance        *)
(* invariant lists holds, after any number of changes of mind: no open     *)
(* counterexample, the latest critic and verifier passing independently,   *)
(* the verifier aware of all current evidence, and the council session     *)
(* heard last passed.                                                      *)
AcceptedOnlyWhen ==
  [][item = "none" /\ item' # "none" =>
       /\ result /\ evidence # {} /\ Supported
       /\ \A x \in Counterexample : objection[x] # "open"
       /\ critic.passes /\ critic.checked # {} /\ verifier.passes
       /\ critic.reviewer # verifier.reviewer
       /\ evidence \subseteq verifier.checked
       /\ Head(council) = "passed"]_vars

(* What is in the ledger stays there unchanged: accepting again after a    *)
(* new result and new reviews returns the old item.                        *)
ItemStays == [][item # "none" => item' = item]_vars

(* "A branch result must be recorded before review.": the statement that   *)
(* enters the ledger is one the critic and the verifier have seen.         *)
ResultReviewed == item # "unreviewed"
=============================================================================
