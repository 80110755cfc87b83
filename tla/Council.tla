-------------------------------- MODULE Council --------------------------------
(***************************************************************************)
(* One session of the adversarial research council                         *)
(* (research_orchestration/council.py): the snapshot of the branch's       *)
(* evidence graph it is opened with, the contributions of its roles, and   *)
(* the evaluation that decides whether the session has passed.  Sessions   *)
(* do not influence each other; which of them counts is up to the gate     *)
(* (ResearchGate).                                                         *)
(***************************************************************************)
EXTENDS FiniteSets

CONSTANTS
  Role,             \* CouncilRole, all of them required
  DevilsAdvocate, LiteratureCritic, ExperimentCritic, FormalVerifier,
  Actor,            \* actor ids of contributors
  Node,             \* ids of graph nodes of the branch
  Required,         \* claim, result, evidence, counterexample, experiment nodes
  Literature,       \* nodes of literature evidence
  Experiment,       \* nodes of experiments
  Claim,            \* the branch's claim, there since the branch was created
  Review,           \* stands for the nodes of all council contributions
  Voice,            \* contributions the roles may make
  NoContribution

(* The code has five roles, four of them with duties of their own; here    *)
(* one role may have several duties.                                       *)
ASSUME RolesAssumption ==
  {DevilsAdvocate, LiteratureCritic, ExperimentCritic, FormalVerifier} \subseteq Role
ASSUME NodesAssumption ==
  /\ Literature \cup Experiment \subseteq Required
  /\ Required \subseteq Node
  /\ Review \in Node \ Required
  /\ Claim \in Required \ (Literature \cup Experiment)

VARIABLES
  nodes,    \* the branch's nodes in the evidence graph
  opened,   \* whether the session exists
  session   \* CouncilSession

vars == <<nodes, opened, session>>

Verdict == {"pass", "fail", "revise", "not_applicable"}
Status == {"open", "failed", "revision_required", "passed"}

Contribution == [actor : Actor, verdict : Verdict, objects : BOOLEAN, checked : SUBSET Node]

ASSUME VoiceAssumption == Voice \subseteq Contribution /\ NoContribution \notin Contribution

Session == [required      : SUBSET Node,
            literature    : SUBSET Node,
            experiments   : SUBSET Node,
            contributions : [Role -> Contribution \cup {NoContribution}],
            status        : Status]

Heard(s) == {r \in Role : s.contributions[r] # NoContribution}

(***************************************************************************)
(* evaluate.                                                               *)
(***************************************************************************)

(* Two roles are spoken for by one actor id.                               *)
Collision(s) ==
  \E q, r \in Heard(s) : q # r /\ s.contributions[q].actor = s.contributions[r].actor

(* Mutant of Covers: it is enough to have looked at one of the nodes.      *)
Touches(s, r, N) == s.contributions[r].checked \cap N # {}

Covers(s, r, N) == r \in Heard(s) /\ N \subseteq s.contributions[r].checked

(* Something keeps the session from passing.                               *)
Blocked(s) ==
  \/ Collision(s)
  \/ \E r \in Heard(s) : \/ s.contributions[r].verdict \in {"fail", "revise"}
                         \/ s.contributions[r].objects
  \/ \E r \in Heard(s) \cap {DevilsAdvocate, FormalVerifier} : s.contributions[r].checked = {}
  \/ s.literature # {} /\ ~Covers(s, LiteratureCritic, s.literature)
  \/ s.experiments # {} /\ ~Covers(s, ExperimentCritic, s.experiments)
  \/ FormalVerifier \in Heard(s) /\ ~Covers(s, FormalVerifier, s.required)

(* Mutant of Evaluate: a branch's status in the place of a session's.      *)
EvaluateAsBranch(s) == IF Blocked(s) THEN "blocked" ELSE "passed"

Evaluate(s) ==
  IF Heard(s) # Role THEN "open"
  ELSE IF \E r \in Heard(s) : s.contributions[r].verdict = "fail" THEN "failed"
  ELSE IF Blocked(s) THEN "revision_required"
  ELSE "passed"

(***************************************************************************)
(* Handlers.                                                               *)
(***************************************************************************)
Snapshot(N) == [required      |-> N \cap Required,
                literature    |-> N \cap Literature,
                experiments   |-> N \cap Experiment,
                contributions |-> [r \in Role |-> NoContribution],
                status        |-> "open"]

Init == nodes = {Claim} /\ opened = FALSE /\ session = Snapshot({})

(* The branch gets a new node, before or after the session is opened.      *)
AddNode(n) ==
  /\ n \notin nodes
  /\ nodes' = nodes \cup {n}
  /\ UNCHANGED <<opened, session>>

OpenSession ==
  /\ ~opened
  /\ opened' = TRUE
  /\ session' = Snapshot(nodes)
  /\ UNCHANGED nodes

(* Mutant of Told: a role that has spoken keeps its first contribution.    *)
ToldOnce(s, r, c) ==
  IF r \in Heard(s) THEN s ELSE [s EXCEPT !.contributions[r] = c]

(* Mutant of Told: a role that speaks again starts the session anew.       *)
ToldAnew(s, r, c) ==
  [s EXCEPT !.contributions =
     [q \in Role |-> IF q = r THEN c ELSE IF r \in Heard(s) THEN NoContribution ELSE @[q]]]

(* The contribution takes the place of an earlier one of the same role.    *)
Told(s, r, c) == [s EXCEPT !.contributions[r] = c]

(* Mutant of Judged: the session is evaluated before the contribution.     *)
JudgedEarly(s, r, c) == [Told(s, r, c) EXCEPT !.status = Evaluate(s)]

Judged(s, r, c) == [Told(s, r, c) EXCEPT !.status = Evaluate(Told(s, r, c))]

(* contribute: checked nodes the branch does not have are refused.         *)
Contribute(r, c) ==
  /\ opened
  /\ c.checked \subseteq nodes
  /\ session' = Judged(session, r, c)
  /\ nodes' = nodes \cup {Review}
  /\ UNCHANGED opened

Next ==
  \/ \E n \in Node : AddNode(n)
  \/ OpenSession
  \/ \E r \in Role, c \in Voice : Contribute(r, c)

Spec == Init /\ [][Next]_vars

(***************************************************************************)
(* Good will: role r makes the best contribution it can, unless it has     *)
(* made it already.                                                        *)
(***************************************************************************)
OtherActors(r) == {session.contributions[q].actor : q \in Heard(session) \ {r}}

Content(r) ==
  /\ r \in Heard(session)
  /\ session.contributions[r].actor \notin OtherActors(r)
  /\ session.contributions[r].verdict = "pass" /\ ~session.contributions[r].objects
  /\ session.contributions[r].checked # {}
  /\ session.required \subseteq session.contributions[r].checked

GoodWill(r) ==
  /\ ~Content(r)
  /\ \E a \in Actor \ OtherActors(r) :
       Contribute(r, [actor |-> a, verdict |-> "pass", objects |-> FALSE,
                      checked |-> nodes \cap Required])

FairSpec == /\ Spec
            /\ WF_vars(OpenSession)
            /\ \A r \in Role : WF_vars(GoodWill(r))

-----------------------------------------------------------------------------
(***************************************************************************)
(* Properties.                                                             *)
(***************************************************************************)

(* Every variable has its type.                                            *)
TypeOK == nodes \subseteq Node /\ opened \in BOOLEAN /\ session \in Session

(* The stored status, which lists of sessions show, is what the gate will  *)
(* find when it evaluates the session anew.                                *)
StoredStatusCurrent == session.status = Evaluate(session)

(* The documented rule: a session has passed exactly when all roles are    *)
(* present under distinct actor ids, nobody fails, asks for a revision or  *)
(* objects, and the roles with a duty to look at nodes did so.             *)
Rule ==
  LET said == session.contributions
  IN  /\ \A r \in Role : said[r] # NoContribution
      /\ \A q, r \in Role : said[q].actor = said[r].actor => q = r
      /\ \A r \in Role : said[r].verdict \in {"pass", "not_applicable"} /\ ~said[r].objects
      /\ said[DevilsAdvocate].checked # {}
      /\ said[FormalVerifier].checked # {}
      /\ session.literature \subseteq said[LiteratureCritic].checked
      /\ session.experiments \subseteq said[ExperimentCritic].checked
      /\ session.required \subseteq said[FormalVerifier].checked

PassedByRule == session.status = "passed" <=> Rule

Outcome == INSTANCE CouncilOutcome WITH
             status <- IF opened THEN session.status ELSE "none"

(* No sequence of contributions wedges a session: when from some moment on *)
(* everybody acts with good will, it passes, whatever was said before and  *)
(* whatever the branch has gained since it was opened.                     *)
Passable ==
  <>[][OpenSession \/ \E r \in Role : GoodWill(r)]_vars => <>(session.status = "passed")

(* The session's outcome behaves as CouncilOutcome says.                   *)
ImplementsOutcome == Outcome!Spec
=============================================================================
