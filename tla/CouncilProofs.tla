----------------------------- MODULE CouncilProofs -----------------------------
(***************************************************************************)
(* Proofs about Council, for all roles, actors, nodes and contributions:   *)
(* in particular for the five roles the code requires, which are too many  *)
(* to enumerate.                                                           *)
(***************************************************************************)
EXTENDS Council, TLAPS

(* The stored status is part of the inductive invariant: only together     *)
(* with it does "has passed" say something about the contributions.        *)
IInv == TypeOK /\ StoredStatusCurrent

(* A session nobody has contributed to is open (open_session).             *)
LEMMA SnapshotIsOpen ==
  ASSUME NEW N \in SUBSET Node
  PROVE  /\ Snapshot(N) \in Session
         /\ Snapshot(N).status = Evaluate(Snapshot(N))
<1>1. Heard(Snapshot(N)) = {}
  BY DEF Heard, Snapshot
<1>2. Heard(Snapshot(N)) # Role
  BY <1>1, RolesAssumption
<1>3. QED
  BY <1>2 DEF Snapshot, Evaluate, Session, Status

(* A contribution is added to those of the other roles (contribute).       *)
LEMMA ToldHears ==
  ASSUME NEW s \in Session, NEW r \in Role, NEW c \in Contribution
  PROVE  /\ Told(s, r, c) \in Session
         /\ Heard(Told(s, r, c)) = Heard(s) \cup {r}
         /\ Judged(s, r, c) \in Session
         /\ Judged(s, r, c).status = Evaluate(Told(s, r, c))
         /\ Evaluate(Judged(s, r, c)) = Evaluate(Told(s, r, c))
<1> DEFINE t == Told(s, r, c)
           j == Judged(s, r, c)
<1>1. t \in Session
  BY DEF Told, Session
<1>2. /\ t.contributions = [s.contributions EXCEPT ![r] = c]
      /\ s.contributions \in [Role -> Contribution \cup {NoContribution}]
  BY DEF Told, Session
<1>3. Heard(t) = Heard(s) \cup {r}
  BY <1>2, VoiceAssumption DEF Heard
<1>4. Evaluate(t) \in Status
  BY DEF Evaluate, Status
<1>5. j \in Session /\ j.status = Evaluate(t)
  BY <1>1, <1>4 DEF Judged, Session
<1>6. /\ j.contributions = t.contributions /\ j.required = t.required
      /\ j.literature = t.literature /\ j.experiments = t.experiments
  BY <1>1 DEF Judged, Session
<1>7. Evaluate(j) = Evaluate(t)
  <2>1. Heard(j) = Heard(t)
    BY <1>6 DEF Heard
  <2>2. Blocked(j) = Blocked(t)
    BY <1>6, <2>1 DEF Blocked, Collision, Covers
  <2>3. QED
    BY <1>6, <2>1, <2>2 DEF Evaluate
<1>8. QED
  BY <1>1, <1>3, <1>5, <1>7

(* The inductive invariant holds in every state of every execution.        *)
THEOREM Invariance == Spec => []IInv
<1>1. Init => IInv
  BY SnapshotIsOpen, NodesAssumption DEF Init, IInv, TypeOK, StoredStatusCurrent
<1>2. IInv /\ [Next]_vars => IInv'
  <2> SUFFICES ASSUME IInv, [Next]_vars PROVE IInv'
    OBVIOUS
  <2>1. ASSUME NEW n \in Node, AddNode(n)
        PROVE  IInv'
    BY <2>1 DEF AddNode, IInv, TypeOK, StoredStatusCurrent
  <2>2. CASE OpenSession
    BY <2>2, SnapshotIsOpen DEF OpenSession, IInv, TypeOK, StoredStatusCurrent
  <2>3. ASSUME NEW r \in Role, NEW c \in Voice, Contribute(r, c)
        PROVE  IInv'
    <3>1. session \in Session /\ c \in Contribution
      BY VoiceAssumption DEF IInv, TypeOK
    <3>2. session' = Judged(session, r, c)
      BY <2>3 DEF Contribute
    <3>3. session' \in Session /\ session'.status = Evaluate(session')
      BY <3>1, <3>2, ToldHears
    <3>4. QED
      BY <2>3, <3>3, NodesAssumption DEF Contribute, IInv, TypeOK, StoredStatusCurrent
  <2>4. CASE UNCHANGED vars
    BY <2>4 DEF vars, IInv, TypeOK, StoredStatusCurrent
  <2>5. QED
    BY <2>1, <2>2, <2>3, <2>4 DEF Next
<1>3. QED
  BY <1>1, <1>2, PTL DEF Spec

(* Every variable has its type.                                            *)
THEOREM TypeCorrect == Spec => []TypeOK
<1>1. IInv => TypeOK
  BY DEF IInv
<1>2. QED
  BY <1>1, Invariance, PTL

(* The status a session is stored with is the one the gate computes        *)
(* (contribute, evaluate).                                                 *)
THEOREM StoredStatusAlwaysCurrent == Spec => []StoredStatusCurrent
<1>1. IInv => StoredStatusCurrent
  BY DEF IInv
<1>2. QED
  BY <1>1, Invariance, PTL

(* Passing needs everything the documented rule lists, for any number of   *)
(* roles, and nothing else (evaluate).                                     *)
THEOREM PassedAlwaysByRule == Spec => []PassedByRule
<1>1. IInv => PassedByRule
  <2>1. SUFFICES ASSUME IInv PROVE PassedByRule
    OBVIOUS
  <2> DEFINE said == session.contributions
  <2>2. /\ session.status = Evaluate(session)
        /\ said \in [Role -> Contribution \cup {NoContribution}]
    BY <2>1 DEF IInv, TypeOK, StoredStatusCurrent, Session
  <2>3. Heard(session) = Role <=> \A r \in Role : said[r] # NoContribution
    BY DEF Heard
  <2>4. CASE Heard(session) # Role
    BY <2>2, <2>3, <2>4 DEF Evaluate, PassedByRule, Rule
  <2>5. CASE Heard(session) = Role
    <3>1. \A r \in Role : said[r] # NoContribution /\ said[r] \in Contribution
      BY <2>2, <2>3, <2>5
    <3>2. session.status = "passed" <=>
            ~Blocked(session) /\ \A r \in Role : said[r].verdict # "fail"
      BY <2>2, <2>5 DEF Evaluate
    <3>3. \A r \in Role : /\ said[r].verdict \in Verdict
                          /\ said[r].objects \in BOOLEAN
      BY <3>1 DEF Contribution
    <3>4. /\ DevilsAdvocate \in Role /\ LiteratureCritic \in Role
          /\ ExperimentCritic \in Role /\ FormalVerifier \in Role
      BY RolesAssumption
    <3>5. Blocked(session) <=>
            \/ \E q, r \in Role : q # r /\ said[q].actor = said[r].actor
            \/ \E r \in Role : said[r].verdict \in {"fail", "revise"} \/ said[r].objects
            \/ said[DevilsAdvocate].checked = {}
            \/ said[FormalVerifier].checked = {}
            \/ ~(session.literature \subseteq said[LiteratureCritic].checked)
            \/ ~(session.experiments \subseteq said[ExperimentCritic].checked)
            \/ ~(session.required \subseteq said[FormalVerifier].checked)
      BY <2>5, <3>4 DEF Blocked, Collision, Covers
    <3>6. \A r \in Role : said[r].verdict \notin {"fail", "revise"}
                            <=> said[r].verdict \in {"pass", "not_applicable"}
      BY <3>3 DEF Verdict
    <3>7. QED
      BY <3>1, <3>2, <3>5, <3>6 DEF PassedByRule, Rule
  <2>6. QED
    BY <2>4, <2>5
<1>2. QED
  BY <1>1, Invariance, PTL

(* Seen from outside, a session is what CouncilOutcome says: an outcome    *)
(* may be revised by a contribution, but a session that has been heard in  *)
(* full never becomes open again.                                          *)
THEOREM Refinement == Spec => ImplementsOutcome
<1> DEFINE st == IF opened THEN session.status ELSE "none"
<1>1. Init => Outcome!Init
  BY DEF Init, Outcome!Init
<1>2. IInv /\ [Next]_vars => [Outcome!Next]_st
  <2> SUFFICES ASSUME IInv, [Next]_vars
               PROVE  Outcome!Next \/ st' = st
    OBVIOUS
  <2>1. ASSUME NEW n \in Node, AddNode(n)
        PROVE  st' = st
    BY <2>1 DEF AddNode
  <2>2. CASE OpenSession
    BY <2>2 DEF OpenSession, Snapshot, Outcome!Next, Outcome!Open
  <2>3. ASSUME NEW r \in Role, NEW c \in Voice, Contribute(r, c)
        PROVE  Outcome!Next
    <3>1. session \in Session /\ c \in Contribution /\ session.status = Evaluate(session)
      BY VoiceAssumption DEF IInv, TypeOK, StoredStatusCurrent
    <3>2. opened /\ opened' = opened /\ session' = Judged(session, r, c)
      BY <2>3 DEF Contribute
    <3>3. st' = Evaluate(Told(session, r, c)) /\ st = session.status
      BY <3>1, <3>2, ToldHears
    <3>4. st \in Status /\ st' \in Status
      BY <3>1, <3>3 DEF Evaluate, Status
    <3>5. ASSUME st # "open"
          PROVE  st' # "open"
      <4>1. Heard(session) = Role
        BY <3>1, <3>3, <3>5 DEF Evaluate
      <4>2. Heard(Told(session, r, c)) = Heard(session) \cup {r}
        BY <3>1, ToldHears
      <4>3. Heard(Told(session, r, c)) = Role
        BY <4>1, <4>2
      <4>4. QED
        BY <3>3, <4>3 DEF Evaluate
    <3>6. st # "none"
      BY <3>4 DEF Status
    <3>7. st' \in Outcome!Outcomes
      BY <3>4, <3>5 DEF Outcome!Outcomes, Outcome!Status, Status
    <3>8. QED
      BY <3>6, <3>7 DEF Outcome!Next, Outcome!Contribute
  <2>4. CASE UNCHANGED vars
    BY <2>4 DEF vars
  <2>5. QED
    BY <2>1, <2>2, <2>3, <2>4 DEF Next
<1>3. QED
  BY <1>1, <1>2, Invariance, PTL DEF Spec, ImplementsOutcome, Outcome!Spec
=============================================================================
