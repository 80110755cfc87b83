----------------------------- MODULE PlantProofs -----------------------------
(***************************************************************************)
(* Proofs about LivePlant: for every number of clients, requests,          *)
(* incidents and machines, whatever tools are spoiled and whenever the     *)
(* server dies.                                                            *)
(*                                                                         *)
(* The workflow's own properties follow from what each incident looks like *)
(* at rest (Lawful): an incident with an order has been approved, one that *)
(* waits for approval has none, and each closing has raised its baseline.  *)
(* An analysis that waits for a tool must know its machine when it goes    *)
(* on, which is a property of the requests (Prepared).                     *)
(*                                                                         *)
(* The gateway's counters and the sessions' numbers need to know who waits *)
(* for what: Books (no stored frame between a reservation and the number   *)
(* a rollback returns to), Lined (each waiting request has its reservation)*)
(* and Counting: a client that waits for a frame is among the senders of   *)
(* its node (Heard), and while a session is the only one of them (Sole), a *)
(* number it has not passed yet is that of one of its own requests, which  *)
(* will be counted or rolled back (Onward).                                *)
(***************************************************************************)
EXTENDS LivePlant, Assessments, CsvColumns, SequenceTheorems, WellFoundedInduction, FiniteSetTheorems, TLAPS

-----------------------------------------------------------------------------
(* Scores of the agents *)

LEMMA Halves ==
  ASSUME NEW x \in Nat, x <= 10000
  PROVE  Rounded(x, 10) \in Nat /\ Rounded(x, 10) <= 1000
BY SMT DEF Rounded

(* A health score is between 0 and 100 points, whatever the observation.    *)
LEMMA HealthRange ==
  ASSUME NEW o \in Observation
  PROVE  HealthScore(o) \in 0..1000
<1> DEFINE points == 10000 - 52 * o.probability - 35 * Larger(0, o.temperature - 55)
                       - 52 * o.vibration - 3 * Smaller(100, o.load)
           x == Larger(0, Smaller(10000, points))
<1>1. /\ o.probability \in Nat /\ o.temperature \in Int /\ o.vibration \in Nat /\ o.load \in Nat
  BY DEF Observation
<1>2. points \in Int
  BY <1>1, SMT DEF Larger, Smaller
<1> HIDE DEF points
<1>3. x \in Nat /\ x <= 10000
  BY <1>2, SMT DEF Larger, Smaller
<1> HIDE DEF x
<1>4. HealthScore(o) = Rounded(x, 10)
  BY SMT DEF HealthScore, x, points
<1>5. HealthScore(o) \in Nat /\ HealthScore(o) <= 1000
  BY <1>3, <1>4, Halves
<1>6. QED
  BY <1>5

LEMMA OverallIsNumber ==
  ASSUME NEW s, NEW r, NEW u, NEW c, NEW d, s \in Int, r \in Int, u \in Int, c \in Int, d \in Int
  PROVE  Overall(s, r, u, c, d) \in Int
<1> DEFINE x == 34000 * s + 24000 * r + 18000 * u + Larger(0, 1200000 - 15 * c)
                  + Larger(0, 1200000 - 10800 * d)
<1>1. x \in Int
  BY SMT DEF Larger
<1>2. Overall(s, r, u, c, d) = Rounded(x, 10000)
  BY SMT DEF Overall
<1> HIDE DEF x
<1>3. Rounded(x, 10000) \in Int
  BY <1>1, SMT DEF Rounded
<1>4. QED
  BY <1>2, <1>3

LEMMA ScoresAreNumbers ==
  ASSUME NEW o \in Observation, NEW ready \in BOOLEAN, NEW a \in Options
  PROVE  ScoreOf(a, o, ready) \in Int
<1>1. o.cost \in Int /\ o.downtime \in Int
  BY DEF Observation
<1>2. CASE a = "replace-now"
  <2> DEFINE r == IF Obtainable(o, ready) THEN 91 ELSE 58
             c == 100 * o.cost
  <2>1. ScoreOf(a, o, ready) = Overall(94, r, 88, c, o.downtime)
    BY <1>2 DEF ScoreOf
  <2>2. r \in Int /\ c \in Int /\ 94 \in Int /\ 88 \in Int
    BY <1>1, SMT
  <2> HIDE DEF r, c
  <2>3. QED
    BY <1>1, <2>1, <2>2, OverallIsNumber, Zenon
<1>3. CASE a = "constrained-operation"
  <2> DEFINE s == IF ContinuationRisk(o) = "critical" THEN 32 ELSE 58
             c == Larger(4000, 82 * o.cost)
             part == 7 * o.downtime
             d == Larger(10, Rounded(part, 10))
  <2>1. ScoreOf(a, o, ready) = Overall(s, 76, 46, c, d)
    BY <1>3 DEF ScoreOf
  <2>2. s \in Int /\ c \in Int /\ 76 \in Int /\ 46 \in Int /\ part \in Int
    BY <1>1, SMT DEF Larger
  <2> HIDE DEF s, c, part
  <2>3. d \in Int
    BY <2>2, SMT DEF Larger, Rounded
  <2> HIDE DEF d
  <2>4. QED
    BY <2>1, <2>2, <2>3, OverallIsNumber, Zenon
<1>4. CASE a = "acquire-more"
  <2> DEFINE urgent == ~NeedsMoreEvidence(o)
             s == IF ~urgent THEN 94
                  ELSE CASE ContinuationRisk(o) = "critical" -> 42
                         [] ContinuationRisk(o) = "high" -> 64
                         [] OTHER -> 80
             r == IF ~urgent THEN 90
                  ELSE CASE ContinuationRisk(o) = "critical" -> 38
                         [] ContinuationRisk(o) = "high" -> 58
                         [] OTHER -> 76
             c == 6000
  <2>1. ScoreOf(a, o, ready) = Overall(s, r, 96, c, 15)
    BY <1>4 DEF ScoreOf
  <2>2. s \in Int /\ r \in Int /\ 96 \in Int /\ c \in Int /\ 15 \in Int
    BY SMT
  <2> HIDE DEF s, r, c
  <2>3. QED
    BY <2>1, <2>2, OverallIsNumber, Zenon
<1>5. QED
  BY <1>2, <1>3, <1>4 DEF Options

\* Of any options the code offers, one is at least as good as all others.
LEMMA SomeBest ==
  ASSUME NEW o \in Observation, NEW ready \in BOOLEAN,
         NEW S \in SUBSET Options, S # {}
  PROVE  \E a \in S : \A b \in S : Better(a, b, o, ready)
<1> DEFINE f(a) == ScoreOf(a, o, ready)
           x == f("replace-now")
           y == f("constrained-operation")
           z == f("acquire-more")
<1>1. x \in Int /\ y \in Int /\ z \in Int
  BY ScoresAreNumbers DEF Options
<1>2. \A a, b : Better(a, b, o, ready) <=> \/ f(a) > f(b)
                                           \/ f(a) = f(b) /\ Rank(a) <= Rank(b)
  BY Zenon DEF Better
<1>3. Rank("replace-now") = 1 /\ Rank("constrained-operation") = 2 /\ Rank("acquire-more") = 3
  BY DEF Rank
<1> HIDE DEF f
<1>4. \A a \in Options : f(a) \in Int /\ Rank(a) \in 1..3
  BY <1>1, <1>3, SMT DEF Options
<1>5. PICK a \in S : TRUE
  OBVIOUS
<1>6. \A b \in Options : b = "replace-now" \/ b = "constrained-operation" \/ b = "acquire-more"
  BY DEF Options
<1>7. \A c, b : c \in Options /\ b \in Options =>
        (Better(c, b, o, ready) \/ Better(b, c, o, ready))
  BY <1>2, <1>4, SMT
<1>8. \A c, b, d : c \in Options /\ b \in Options /\ d \in Options
                   /\ Better(c, b, o, ready) /\ Better(b, d, o, ready) => Better(c, d, o, ready)
  BY <1>2, <1>4, SMT
<1>9. QED
  BY <1>5, <1>6, <1>7, <1>8, SMT

LEMMA RecommendedIsOption ==
  ASSUME NEW o \in Observation, NEW ready \in BOOLEAN
  PROVE  Recommended(o, ready) \in Options
<1> DEFINE S == IF Feasible(o, ready) # {} THEN Feasible(o, ready) ELSE Options
<1>1. S \in SUBSET Options /\ S # {}
  BY DEF Feasible, Options
<1>2. CASE NeedsMoreEvidence(o)
  BY <1>2 DEF Recommended, Options
<1>3. CASE ~NeedsMoreEvidence(o)
  <2>1. Recommended(o, ready) = CHOOSE a \in S : \A b \in S : Better(a, b, o, ready)
    BY <1>3 DEF Recommended
  <2> HIDE DEF S
  <2>2. \E a \in S : \A b \in S : Better(a, b, o, ready)
    BY <1>1, SomeBest
  <2>3. QED
    BY <1>1, <2>1, <2>2
<1>4. QED
  BY <1>2, <1>3

-----------------------------------------------------------------------------
(* What an incident looks like at rest *)

\* Each closing has demanded a fifth more than the baseline before it.
Raised(r) ==
  /\ r.closings <= 2
  /\ r.closings >= 1 => r.baseline >= 750
  /\ r.closings >= 2 => r.baseline >= 900

Lawful(r) ==
  \/ /\ r.order = "none" /\ r.closings = 0
     /\ r.status \in {"awaiting_approval", "escalated", "reopened", "deleted"}
  \/ r.order = "approved" /\ r.status = "in_progress" /\ r.closings = 0
  \/ r.order = "completed" /\ r.status = "resolved" /\ r.closings >= 1 /\ Raised(r)
  \/ r.order = "reopened" /\ r.status = "reopened" /\ Raised(r)

AllLawful == \A i \in DOMAIN incidents : Lawful(incidents[i])

WorkflowInv == WorkflowTypeOK /\ AllLawful /\ MaintenanceExplained

LEMMA Fields ==
  ASSUME NEW r \in Incident
  PROVE  r.baseline \in Nat /\ r.closings \in Nat /\ r.asset \in KnownAssets
<1>1. r.baseline \in 0..1000 /\ r.closings \in Nat /\ r.asset \in KnownAssets
  BY DEF Incident
<1>2. QED
  BY <1>1, SMT

(* A repair that passes has raised the baseline to at least 75 points, and  *)
(* to 90 if it was at 75 before; above 90 none passes.                      *)
LEMMA PassingRaises ==
  ASSUME NEW o \in Observation, NEW b \in Nat, Passes(b, o)
  PROVE  /\ HealthScore(o) \in Nat /\ HealthScore(o) <= 1000 /\ HealthScore(o) >= 750
         /\ b >= 750 => HealthScore(o) >= 900
         /\ b < 900
<1> DEFINE h == HealthScore(o)
<1>1. h \in Nat /\ h <= 1000
  BY HealthRange
<1>2. h >= 750 /\ Improved(b, h)
  BY DEF Passes
<1> HIDE DEF h
<1>3. 100 * (h - b) >= 20 * Larger(b, 10)
  BY <1>2 DEF Improved
<1>4. QED
  <2>1. h >= 750 /\ (b >= 750 => h >= 900) /\ b < 900
    BY <1>1, <1>2, <1>3, SMT DEF Larger
  <2>2. QED
    BY <1>1, <2>1 DEF h

(* What follows when one incident changes and stays lawful. *)
LEMMA OneChanged ==
  ASSUME incidents \in Seq(Incident), AllLawful,
         NEW i \in DOMAIN incidents, NEW r \in Incident, Lawful(r),
         incidents' = [incidents EXCEPT ![i] = r]
  PROVE  /\ incidents' \in Seq(Incident) /\ Len(incidents') = Len(incidents)
         /\ DOMAIN incidents' = DOMAIN incidents
         /\ incidents'[i] = r
         /\ \A j \in DOMAIN incidents : j # i => incidents'[j] = incidents[j]
         /\ AllLawful'
<1>1. DOMAIN incidents = 1..Len(incidents) /\ Len(incidents) \in Nat
  BY LenProperties
<1>2. /\ incidents' \in Seq(Incident) /\ Len(incidents') = Len(incidents)
      /\ \A j \in 1..Len(incidents) : incidents'[j] = IF j = i THEN r ELSE incidents[j]
  BY <1>1, ExceptSeq
<1>3. DOMAIN incidents' = 1..Len(incidents)
  BY <1>2, LenProperties
<1>4. QED
  BY <1>1, <1>2, <1>3 DEF AllLawful

(* A machine is only then new in maintenance, or an incident of one ceases  *)
(* to explain it, when the step says so.                                    *)
LEMMA StillExplained ==
  ASSUME MaintenanceExplained, DOMAIN incidents' = DOMAIN incidents,
         NEW i \in DOMAIN incidents,
         \A j \in DOMAIN incidents : j # i => incidents'[j] = incidents[j],
         incidents'[i].asset = incidents[i].asset,
         \A a \in KnownAssets : a # incidents[i].asset => assets'[a] = assets[a],
         assets'[incidents[i].asset] = "maintenance" =>
           \/ /\ assets[incidents[i].asset] = "maintenance"
              /\ incidents'[i].status # "deleted" /\ incidents'[i].order = incidents[i].order
           \/ incidents'[i].status # "deleted" /\ incidents'[i].order \in {"none", "approved"}
  PROVE  MaintenanceExplained'
BY DEF MaintenanceExplained

(* Approval, rejection, a request for evidence. *)
LEMMA ApprovalKeeps ==
  ASSUME WorkflowAssumption, WorkflowInv, NEW i \in DOMAIN incidents,
         Approve(i) \/ Reject(i) \/ RequestEvidence(i)
  PROVE  WorkflowInv'
<1>1. /\ incidents \in Seq(Incident) /\ AllLawful /\ MaintenanceExplained
      /\ assets \in [KnownAssets -> AssetStatus] /\ faults' = faults
  BY DEF WorkflowInv, WorkflowTypeOK, Approve, Reject, RequestEvidence
<1>2. incidents[i] \in Incident
  BY <1>1, LenProperties, ElementOfSeq
<1>u. PICK u \in Incident : u = incidents[i]
  BY <1>2
<1>3. incidents[i].order = "none" /\ incidents[i].closings = 0
  <2>1. Lawful(incidents[i]) /\ incidents[i].status = "awaiting_approval"
    BY <1>1 DEF AllLawful, Approve, Reject, RequestEvidence, Approvable
  <2>2. QED
    BY <2>1 DEF Lawful
<1>4. PICK r \in Incident : /\ incidents' = [incidents EXCEPT ![i] = r] /\ Lawful(r)
                            /\ r.asset = incidents[i].asset /\ r.status # "deleted"
                            /\ r.order \in {"none", "approved"}
  <2>1. CASE Approve(i)
    <3> DEFINE r == [u EXCEPT !.status = "in_progress", !.order = "approved"]
    <3>0. r \in Incident /\ r.order = "approved" /\ r.status = "in_progress"
          /\ r.asset = incidents[i].asset /\ r.closings = incidents[i].closings
      <4>1. "in_progress" \in IncidentStatus /\ "approved" \in OrderStatus
        BY DEF IncidentStatus, OrderStatus
      <4>2. /\ r \in Incident /\ r.status = "in_progress" /\ r.order = "approved" /\ r.asset = u.asset
            /\ r.baseline = u.baseline /\ r.closings = u.closings
        BY <4>1, ZenonT(60) DEF Incident
      <4> HIDE DEF r
      <4>3. QED
        BY <1>u, <4>2
    <3>1. r.order = "approved" /\ r.status = "in_progress" /\ r.closings = 0
      BY <1>3, <3>0
    <3>2. incidents' = [incidents EXCEPT ![i] = r]
      BY <1>u, <2>1 DEF Approve
    <3> HIDE DEF r
    <3>3. Lawful(r) /\ r.status # "deleted" /\ r.order \in {"none", "approved"}
      BY <3>1 DEF Lawful
    <3>4. QED
      BY <3>0, <3>1, <3>2, <3>3
  <2>2. CASE Reject(i) \/ RequestEvidence(i)
    <3>1. PICK s \in {"escalated", "reopened"} : incidents' = [incidents EXCEPT ![i].status = s]
      BY <2>2 DEF Reject, RequestEvidence
    <3> DEFINE r == [u EXCEPT !.status = s]
    <3>0. r \in Incident /\ r.status = s /\ r.order = incidents[i].order
          /\ r.asset = incidents[i].asset /\ r.closings = incidents[i].closings
      <4>1. s \in IncidentStatus
        BY DEF IncidentStatus
      <4>2. /\ r \in Incident /\ r.status = s /\ r.asset = u.asset
            /\ r.order = u.order /\ r.closings = u.closings
        BY <4>1, ZenonT(60) DEF Incident
      <4> HIDE DEF r
      <4>3. QED
        BY <1>u, <4>2
    <3>2. r.order = "none" /\ r.status = s /\ r.closings = 0
      BY <1>3, <3>0
    <3>3. incidents' = [incidents EXCEPT ![i] = r]
      BY <1>u, <3>1
    <3> HIDE DEF r
    <3>4. Lawful(r) /\ r.status # "deleted" /\ r.order \in {"none", "approved"}
      BY <3>2 DEF Lawful
    <3>5. QED
      BY <3>0, <3>2, <3>3, <3>4
  <2>3. QED
    BY <2>1, <2>2
<1>5. /\ incidents' \in Seq(Incident) /\ Len(incidents') = Len(incidents)
      /\ DOMAIN incidents' = DOMAIN incidents /\ incidents'[i] = r
      /\ \A j \in DOMAIN incidents : j # i => incidents'[j] = incidents[j]
      /\ AllLawful'
  BY <1>1, <1>4, OneChanged
<1>6. /\ assets' \in [KnownAssets -> AssetStatus]
      /\ \A a \in KnownAssets : a # incidents[i].asset => assets'[a] = assets[a]
  <2>1. PICK a \in AssetStatus : \/ assets' = [assets EXCEPT ![incidents[i].asset] = a]
                                  \/ assets' = assets
    BY <1>1, <1>2, SMTT(30)
       DEF Approve, Reject, RequestEvidence, AssetAfterApproval, AssetStatus
  <2>2. QED
    BY <1>1, <2>1, Zenon
<1>7. MaintenanceExplained'
  BY <1>1, <1>4, <1>5, <1>6, StillExplained
<1>8. QED
  BY <1>1, <1>5, <1>6, <1>7 DEF WorkflowInv, WorkflowTypeOK

Edited(u, s, o, b, c) == [u EXCEPT !.status = s, !.order = o, !.baseline = b, !.closings = c]

Looks(r, a, s, o, b, c) ==
  /\ r \in Incident /\ r.asset = a /\ r.status = s /\ r.order = o
  /\ r.baseline = b /\ r.closings = c

(* What verify_incident makes of an incident whose repair has passed.       *)
LEMMA ClosedIncident ==
  ASSUME NEW u \in Incident, NEW s \in IncidentStatus, NEW o \in OrderStatus,
         NEW b \in 0..1000, NEW c \in Nat
  PROVE  Looks(Edited(u, s, o, b, c), u.asset, s, o, b, c)
<1> DEFINE r == Edited(u, s, o, b, c)
<1>1. /\ DOMAIN u = {"asset", "status", "plan", "baseline", "order", "closings"}
      /\ u.asset \in KnownAssets /\ u.plan \in Options
  BY DEF Incident
<1>2. r = [f \in {"asset", "status", "plan", "baseline", "order", "closings"} |-> r[f]]
  BY <1>1, Zenon DEF Edited
<1>3. /\ r.status = s /\ r.order = o /\ r.asset = u.asset /\ r.plan = u.plan
      /\ r.baseline = b /\ r.closings = c
  BY <1>1 DEF Edited
<1> HIDE DEF r
<1>4. r = [asset |-> r.asset, status |-> r.status, plan |-> r.plan,
           baseline |-> r.baseline, order |-> r.order, closings |-> r.closings]
  BY <1>2
<1>5. r \in Incident
  BY <1>1, <1>3, <1>4 DEF Incident
<1>6. QED
  BY <1>3, <1>5, Zenon DEF r, Looks

(* Verification. *)
LEMMA VerifyKeeps ==
  ASSUME WorkflowAssumption, WorkflowInv, NEW i \in DOMAIN incidents,
         NEW o \in Observation, Verify(i, o)
  PROVE  WorkflowInv'
<1>1. /\ incidents \in Seq(Incident) /\ AllLawful /\ MaintenanceExplained
      /\ assets \in [KnownAssets -> AssetStatus] /\ faults' = faults
  BY DEF WorkflowInv, WorkflowTypeOK, Verify
<1>2. incidents[i] \in Incident
  BY <1>1, LenProperties, ElementOfSeq
<1>u. PICK u \in Incident : u = incidents[i]
  BY <1>2
<1>3. /\ incidents[i].baseline \in Nat /\ incidents[i].closings \in Nat
      /\ incidents[i].asset \in KnownAssets
  BY <1>2, Fields
<1>4. Raised(incidents[i])
  <2>1. Lawful(incidents[i]) /\ incidents[i].order # "none"
    BY <1>1 DEF AllLawful, Verify, Verifiable
  <2>2. QED
    BY <2>1, SMT DEF Lawful, Raised
<1>5. PICK r \in Incident : /\ incidents' = [incidents EXCEPT ![i] = r] /\ Lawful(r)
                            /\ r.asset = incidents[i].asset
  <2>1. CASE Passes(incidents[i].baseline, o)
    <3> DEFINE h == HealthScore(o)
               n == u.closings
               r == [u EXCEPT !.status = "resolved", !.order = "completed",
                                         !.baseline = h, !.closings = n + 1]
    <3>1. /\ h \in Nat /\ h <= 1000 /\ h >= 750
          /\ incidents[i].baseline >= 750 => h >= 900
          /\ incidents[i].baseline < 900
      BY <1>3, <2>1, PassingRaises
    <3>2. incidents' = [incidents EXCEPT ![i] = r]
      BY <1>u, <2>1 DEF Verify
    <3> HIDE DEF h
    <3>3. n + 1 \in Nat /\ n + 1 <= 2 /\ n + 1 >= 1 /\ (n + 1 >= 2 => h >= 900)
      BY <1>3, <1>4, <1>u, <3>1, SMT DEF Raised
    <3>4. h \in 0..1000
      BY <3>1, SMT
    <3>5. r \in Incident /\ r.order = "completed" /\ r.status = "resolved" /\ r.baseline = h
          /\ r.closings = n + 1 /\ r.asset = incidents[i].asset
      <4>1. "resolved" \in IncidentStatus /\ "completed" \in OrderStatus
        BY DEF IncidentStatus, OrderStatus
      <4>2. n + 1 \in Nat
        BY <3>3
      <4> HIDE DEF n
      <4>3. r = Edited(u, "resolved", "completed", h, n + 1)
        BY DEF Edited
      <4> HIDE DEF r
      <4>4. /\ r \in Incident /\ r.status = "resolved" /\ r.order = "completed"
            /\ r.asset = u.asset /\ r.baseline = h /\ r.closings = n + 1
        <5> HIDE DEF n, h
        <5>1. Looks(Edited(u, "resolved", "completed", h, n + 1), u.asset, "resolved",
                    "completed", h, n + 1)
          BY <3>4, <4>1, <4>2, ClosedIncident, ZenonT(60)
        <5>2. QED
          BY <4>3, <5>1 DEF Looks
      <4>5. QED
        BY <1>u, <4>4
    <3> HIDE DEF r, n
    <3>6. Lawful(r)
      BY <3>1, <3>3, <3>5, SMT DEF Lawful, Raised
    <3>7. QED
      BY <3>2, <3>5, <3>6
  <2>2. CASE ~Passes(incidents[i].baseline, o)
    <3> DEFINE r == [u EXCEPT !.status = "reopened", !.order = "reopened"]
    <3>1. r \in Incident /\ r.order = "reopened" /\ r.status = "reopened"
          /\ r.baseline = incidents[i].baseline
          /\ r.closings = incidents[i].closings /\ r.asset = incidents[i].asset
      <4>1. "reopened" \in IncidentStatus /\ "reopened" \in OrderStatus
        BY DEF IncidentStatus, OrderStatus
      <4>2. /\ r \in Incident /\ r.status = "reopened" /\ r.order = "reopened" /\ r.asset = u.asset
            /\ r.baseline = u.baseline /\ r.closings = u.closings
        BY <4>1, ZenonT(60) DEF Incident
      <4> HIDE DEF r
      <4>3. QED
        BY <1>u, <4>2
    <3>2. incidents' = [incidents EXCEPT ![i] = r]
      BY <1>u, <2>2 DEF Verify
    <3> HIDE DEF r
    <3>3. Lawful(r)
      BY <1>4, <3>1 DEF Lawful, Raised
    <3>4. QED
      BY <3>1, <3>2, <3>3
  <2>3. QED
    BY <2>1, <2>2
<1>6. /\ incidents' \in Seq(Incident) /\ Len(incidents') = Len(incidents)
      /\ DOMAIN incidents' = DOMAIN incidents /\ incidents'[i] = r
      /\ \A j \in DOMAIN incidents : j # i => incidents'[j] = incidents[j]
      /\ AllLawful'
  BY <1>1, <1>5, OneChanged
<1>7. /\ assets' \in [KnownAssets -> AssetStatus]
      /\ \A a \in KnownAssets : a # incidents[i].asset => assets'[a] = assets[a]
      /\ assets'[incidents[i].asset] # "maintenance"
  BY <1>1, <1>3 DEF Verify, AssetAfterVerification, AssetStatus
<1>8. MaintenanceExplained'
  BY <1>1, <1>5, <1>6, <1>7, StillExplained
<1>9. QED
  BY <1>1, <1>6, <1>7, <1>8 DEF WorkflowInv, WorkflowTypeOK

(* Nobody but an analysis appends an incident; its machine is not in        *)
(* maintenance then.                                                        *)
LEMMA SaveAnalysisKeeps ==
  ASSUME WorkflowAssumption, WorkflowInv, NEW a \in KnownAssets, NEW o \in Observation,
         NEW heard \in BOOLEAN, SaveAnalysis(a, o, heard), faults' \in [Tools -> Fault]
  PROVE  WorkflowInv'
<1> DEFINE r == Proposed(a, o, heard)
<1>1. /\ incidents \in Seq(Incident) /\ AllLawful /\ MaintenanceExplained
      /\ assets \in [KnownAssets -> AssetStatus]
      /\ Len(incidents) < MaxIncidents /\ MaxIncidents \in Nat
  BY DEF WorkflowInv, WorkflowTypeOK, SaveAnalysis, WorkflowAssumption
<1>2. DOMAIN incidents = 1..Len(incidents) /\ Len(incidents) \in Nat
  BY <1>1, LenProperties
<1>3. HealthScore(o) \in 0..1000
  BY HealthRange
<1>4. Recommended(o, heard /\ Stocked) \in Options
  <2> DEFINE ready == heard /\ Stocked
  <2>1. ready \in BOOLEAN
    BY DEF WorkflowAssumption
  <2> HIDE DEF ready
  <2>2. Recommended(o, ready) \in Options
    BY <2>1, RecommendedIsOption
  <2>3. QED
    BY <2>2 DEF ready
<1>5. r \in Incident
  <2> DEFINE p == Recommended(o, heard /\ Stocked)
             h == HealthScore(o)
  <2>1. r = [asset |-> a, status |-> "awaiting_approval", plan |-> p, baseline |-> h,
             order |-> "none", closings |-> 0]
    BY DEF Proposed
  <2>2. p \in Options /\ h \in 0..1000
    BY <1>3, <1>4
  <2> HIDE DEF p, h, r
  <2>3. QED
    BY <2>1, <2>2 DEF Incident, IncidentStatus, OrderStatus
<1>6. Lawful(r)
  BY DEF Lawful, Proposed
<1>7. incidents' = Append(incidents, r)
  BY DEF SaveAnalysis
<1> HIDE DEF r
<1>8. /\ incidents' \in Seq(Incident) /\ Len(incidents') = Len(incidents) + 1
      /\ DOMAIN incidents' = 1..(Len(incidents) + 1)
      /\ \A i \in 1..Len(incidents) : incidents'[i] = incidents[i]
      /\ incidents'[Len(incidents) + 1] = r
  BY <1>1, <1>2, <1>5, <1>7, AppendProperties, LenProperties
<1>9. AllLawful'
  BY <1>1, <1>2, <1>6, <1>8 DEF AllLawful
<1>10. /\ assets' \in [KnownAssets -> AssetStatus] /\ assets'[a] # "maintenance"
       /\ \A b \in KnownAssets : b # a => assets'[b] = assets[b]
  BY <1>1 DEF SaveAnalysis, AssetAfterAnalysis, AssetStatus
<1>11. MaintenanceExplained'
  <2> SUFFICES ASSUME NEW b \in KnownAssets, assets'[b] = "maintenance"
               PROVE  \E i \in DOMAIN incidents' :
                        /\ incidents'[i].asset = b /\ incidents'[i].status # "deleted"
                        /\ incidents'[i].order \in {"none", "approved"}
    BY DEF MaintenanceExplained
  <2>1. PICK i \in DOMAIN incidents :
               /\ incidents[i].asset = b /\ incidents[i].status # "deleted"
               /\ incidents[i].order \in {"none", "approved"}
    BY <1>1, <1>10 DEF MaintenanceExplained
  <2>2. i \in DOMAIN incidents' /\ incidents'[i] = incidents[i]
    BY <1>2, <1>8, <2>1
  <2>3. QED
    BY <2>1, <2>2
<1>12. Len(incidents') <= MaxIncidents
  BY <1>1, <1>2, <1>8
<1>13. QED
  BY <1>8, <1>9, <1>10, <1>11, <1>12 DEF WorkflowInv, WorkflowTypeOK

(* The reset of the demonstration. *)
LEMMA ResetKeeps ==
  ASSUME WorkflowAssumption, WorkflowInv, ResetDemo
  PROVE  /\ WorkflowInv' /\ Len(incidents') = Len(incidents)
         /\ \A i \in DOMAIN incidents : /\ incidents'[i].status = "deleted"
                                        /\ incidents'[i].order = "none"
                                        /\ incidents'[i].closings = 0
<1>1. /\ incidents \in Seq(Incident) /\ faults' = faults /\ assets' = SeededStatus
      /\ SeededStatus \in [KnownAssets -> {"healthy", "watch"}]
  BY DEF WorkflowInv, WorkflowTypeOK, ResetDemo, WorkflowAssumption
<1>2. DOMAIN incidents = 1..Len(incidents) /\ Len(incidents) \in Nat
  BY <1>1, LenProperties
<1> DEFINE after(i) == [incidents[i] EXCEPT !.status = "deleted", !.order = "none", !.closings = 0]
<1>3. ASSUME NEW i \in DOMAIN incidents
      PROVE  /\ after(i) \in Incident /\ after(i).status = "deleted"
             /\ after(i).order = "none" /\ after(i).closings = 0
  <2>1. incidents[i] \in Incident
    BY <1>1, <1>2, ElementOfSeq
  <2>2. QED
    BY <2>1, ZenonT(60) DEF Incident, IncidentStatus, OrderStatus
<1>4. incidents' = [i \in 1..Len(incidents) |-> after(i)]
  BY <1>2 DEF ResetDemo
<1> HIDE DEF after
<1>5. incidents' \in [1..Len(incidents) -> Incident]
  BY <1>2, <1>3, <1>4
<1>6. incidents' \in Seq(Incident)
  BY <1>2, <1>5, SeqDef
<1>7. DOMAIN incidents' = 1..Len(incidents)
  BY <1>5
<1>8. Len(incidents') = Len(incidents)
  BY <1>2, <1>6, <1>7, LenProperties
<1>9. \A i \in DOMAIN incidents : /\ incidents'[i].status = "deleted"
                                  /\ incidents'[i].order = "none"
                                  /\ incidents'[i].closings = 0
  BY <1>2, <1>3, <1>4
<1>10. AllLawful'
  BY <1>2, <1>7, <1>9 DEF AllLawful, Lawful
<1>11. MaintenanceExplained' /\ assets' \in [KnownAssets -> AssetStatus]
  BY <1>1 DEF MaintenanceExplained, AssetStatus
<1>12. QED
  BY <1>1, <1>6, <1>8, <1>9, <1>10, <1>11 DEF WorkflowInv, WorkflowTypeOK

(* A crash between the two saves of a handler: an approval has put the      *)
(* machine in maintenance, and its incident still waits for the approval.   *)
LEMMA RestartKeeps ==
  ASSUME WorkflowAssumption, WorkflowInv, WorkflowRestart
  PROVE  WorkflowInv'
<1>1. /\ incidents \in Seq(Incident) /\ AllLawful /\ MaintenanceExplained
      /\ assets \in [KnownAssets -> AssetStatus]
      /\ Len(incidents) <= MaxIncidents /\ incidents' = incidents
  BY DEF WorkflowInv, WorkflowTypeOK, WorkflowRestart
<1>2. \A i \in DOMAIN incidents : incidents[i].asset \in KnownAssets
  <2> SUFFICES ASSUME NEW i \in DOMAIN incidents PROVE incidents[i].asset \in KnownAssets
    OBVIOUS
  <2>1. incidents[i] \in Incident
    BY <1>1, LenProperties, ElementOfSeq
  <2>2. QED
    BY <2>1, Fields
<1>3. faults' \in [Tools -> Fault]
  BY DEF WorkflowRestart, WorkflowAssumption, Fault, NoFault
<1>4. \/ assets' = assets
      \/ \E a \in KnownAssets, s \in AssetStatus \ {"maintenance"} : assets' = [assets EXCEPT ![a] = s]
      \/ \E i \in DOMAIN incidents : Approvable(i) /\ assets' = AssetAfterApproval(i)
  <2>1. CASE assets' = assets
    BY <2>1
  <2>2. CASE \E a \in KnownAssets, o \in Observations : assets' = AssetAfterAnalysis(a, o)
    <3>1. PICK a \in KnownAssets, o \in Observations : assets' = AssetAfterAnalysis(a, o)
      BY <2>2
    <3>2. \E s \in {"critical", "warning"} : assets' = [assets EXCEPT ![a] = s]
      BY <3>1 DEF AssetAfterAnalysis
    <3>3. QED
      BY <3>2 DEF AssetStatus
  <2>3. CASE \E i \in DOMAIN incidents : Approvable(i) /\ assets' = AssetAfterApproval(i)
    BY <2>3
  <2>4. CASE \E i \in DOMAIN incidents, o \in Observations : assets' = AssetAfterVerification(i, o)
    <3>1. PICK i \in DOMAIN incidents, o \in Observations : assets' = AssetAfterVerification(i, o)
      BY <2>4
    <3>2. \E s \in {"healthy", "warning"} : assets' = [assets EXCEPT ![incidents[i].asset] = s]
      BY <3>1 DEF AssetAfterVerification
    <3>3. QED
      BY <1>2, <3>2 DEF AssetStatus
  <2>5. QED
    BY <2>1, <2>2, <2>3, <2>4 DEF WorkflowRestart, HalfSaved
<1>5. assets' \in [KnownAssets -> AssetStatus] /\ MaintenanceExplained'
  <2>1. CASE assets' = assets
    BY <1>1, <2>1 DEF MaintenanceExplained
  <2>2. CASE \E a \in KnownAssets, s \in AssetStatus \ {"maintenance"} :
               assets' = [assets EXCEPT ![a] = s]
    BY <1>1, <2>2 DEF MaintenanceExplained
  <2>3. CASE \E i \in DOMAIN incidents : Approvable(i) /\ assets' = AssetAfterApproval(i)
    <3>1. PICK i \in DOMAIN incidents : Approvable(i) /\ assets' = AssetAfterApproval(i)
      BY <2>3
    <3>2. incidents[i].status = "awaiting_approval" /\ incidents[i].order = "none"
      BY <1>1, <3>1 DEF AllLawful, Lawful, Approvable
    <3>3. /\ assets' \in [KnownAssets -> AssetStatus]
          /\ \A a \in KnownAssets : a # incidents[i].asset => assets'[a] = assets[a]
      BY <1>1, <1>2, <3>1 DEF AssetAfterApproval, AssetStatus
    <3>4. incidents'[i].status = "awaiting_approval" /\ incidents'[i].order = "none"
          /\ incidents'[i].asset = incidents[i].asset /\ DOMAIN incidents' = DOMAIN incidents
          /\ \A j \in DOMAIN incidents : incidents'[j] = incidents[j]
      BY <1>1, <3>2
    <3>5. QED
      BY <1>1, <3>1, <3>3, <3>4, StillExplained
  <2>4. QED
    BY <1>4, <2>1, <2>2, <2>3
<1>6. AllLawful'
  BY <1>1 DEF AllLawful
<1>7. QED
  BY <1>1, <1>3, <1>5, <1>6 DEF WorkflowInv, WorkflowTypeOK

(* Steps that leave machines and incidents alone. *)
LEMMA OnlyFaults ==
  ASSUME WorkflowInv, UNCHANGED <<assets, incidents>>, faults' \in [Tools -> Fault]
  PROVE  WorkflowInv'
<1>1. MaintenanceExplained' /\ AllLawful'
  BY DEF WorkflowInv, MaintenanceExplained, AllLawful
<1>2. QED
  BY <1>1 DEF WorkflowInv, WorkflowTypeOK

LEMMA FaultsAfterType ==
  ASSUME faults \in [Tools -> Fault], WorkflowAssumption, NEW S
  PROVE  FaultsAfter(S) \in [Tools -> Fault]
<1>1. ASSUME NEW t \in Tools, Spoiled(t)
      PROVE  [faults[t] EXCEPT !.calls = @ - 1] \in Fault
  <2>1. faults[t] \in Fault /\ MaxFaultCalls \in Nat
    BY DEF WorkflowAssumption
  <2>2. faults[t].calls \in Nat /\ faults[t].calls <= MaxFaultCalls /\ faults[t].calls > 0
    BY <1>1, <2>1 DEF Fault, Spoiled
  <2>3. faults[t].calls - 1 \in 0..MaxFaultCalls
    BY <2>1, <2>2
  <2>4. QED
    BY <2>1, <2>3 DEF Fault
<1>2. QED
  BY <1>1 DEF FaultsAfter

-----------------------------------------------------------------------------
(* Requests and sessions *)

LEMMA FirstOf ==
  ASSUME NEW T, T \subseteq Nat, T # {}
  PROVE  \E j \in T : \A i \in T : j <= i
<1> DEFINE R == {ss \in Nat \X Nat : ss[1] < ss[2]}
<1>1. R = OpToRel(<, Nat)
  BY DEF OpToRel
<1>2. IsWellFoundedOn(R, Nat)
  BY <1>1, NatLessThanWellFounded
<1> HIDE DEF R
<1>3. PICK j \in T : \A i \in T : ~ (<<i, j>> \in R)
  BY <1>2, WFMin
<1>4. \A i \in T : ~ (i < j)
  BY <1>3 DEF R
<1>5. QED
  BY <1>4

LEMMA SuspensionType ==
  ASSUME WorkflowAssumption, NEW k \in Nat
  PROVE  Suspension(k) \in Nat
<1> DEFINE waits == {j \in k..Len(AnalysisTools) :
                       Spoiled(AnalysisTools[j]) /\ faults[AnalysisTools[j]].suspends}
<1>1. Len(AnalysisTools) \in Nat
  BY LenProperties DEF WorkflowAssumption
<1>2. Suspension(k) = IF waits = {} THEN Len(AnalysisTools) + 1
                      ELSE CHOOSE j \in waits : \A i \in waits : j <= i
  BY DEF Suspension
<1>3. waits \subseteq Nat
  BY <1>1
<1> HIDE DEF waits
<1>4. CASE waits # {}
  <2>1. \E j \in waits : \A i \in waits : j <= i
    BY <1>3, <1>4, FirstOf
  <2>2. (CHOOSE j \in waits : \A i \in waits : j <= i) \in waits
    BY <2>1
  <2>3. QED
    BY <1>2, <1>3, <1>4, <2>2
<1>5. QED
  BY <1>1, <1>2, <1>4

(* What the gateway tells of any signal is an observation of the agents.    *)
LEMMA InputIsObservation ==
  ASSUME NEW x \in Signals
  PROVE  IncidentInput(x) \in Observation
<1> DEFINE q == Score(x) \div 1000
           temperature == IF x.measured THEN x.temperature ELSE 25
           load == Smaller(150, x.load)
<1>1. /\ x.clipping \in Shares /\ x.dropout \in Shares /\ x.dc \in Shares /\ x.bits \in Nat
      /\ x.entropy \in Shares /\ x.highBand \in Shares /\ x.vibration \in Nat
      /\ x.kurtosis \in Nat /\ x.crest \in Nat /\ x.temperature \in Int /\ x.load \in Nat
      /\ x.probability \in 0..100 /\ x.hours \in Nat /\ x.parts \in BOOLEAN
      /\ x.cost \in Nat /\ x.downtime \in Nat
  BY DEF Signals
<1>2. Penalty(x) \in Nat
  <2>1. \A n : n \in Shares => n \in Nat
    BY SMT DEF Shares
  <2>2. /\ x.clipping \in Nat /\ x.dropout \in Nat /\ x.dc \in Nat
        /\ x.entropy \in Nat /\ x.highBand \in Nat
    BY <1>1, <2>1, Zenon
  <2> DEFINE n1 == x.clipping
             n2 == x.dropout
             n3 == x.dc
             n4 == x.bits
             n5 == x.entropy
             n6 == x.highBand
             p1 == Smaller(45000, 400 * n1) + Smaller(45000, 220 * n2) + Smaller(25000, 30 * n3)
             p2 == IF n4 < 80 THEN Smaller(30000, 1000 * (80 - n4)) ELSE 0
             p3 == IF Noisy(x) THEN Smaller(25000, 120 * (n5 - 400) + 25 * n6) ELSE 0
             p4 == IF Impulsive(x) THEN 22000 ELSE 0
             p5 == IF OrderMismatch(x) THEN 12000 ELSE 0
  <2>3. Penalty(x) = p1 + p2 + p3 + p4 + p5
    BY SMT DEF Penalty
  <2>4. n1 \in Nat /\ n2 \in Nat /\ n3 \in Nat /\ n4 \in Nat /\ n5 \in Nat /\ n6 \in Nat
        /\ (Noisy(x) => n5 > 440)
    BY <1>1, <2>2 DEF Noisy
  <2> HIDE DEF n1, n2, n3, n4, n5, n6
  <2>5. p1 \in Nat /\ p2 \in Nat /\ p3 \in Nat /\ p4 \in Nat /\ p5 \in Nat
    BY <2>4, SMT DEF Smaller
  <2> HIDE DEF p1, p2, p3, p4, p5
  <2>6. QED
    BY <2>3, <2>5
<1>3. Score(x) \in Nat /\ Score(x) <= 100000
  BY <1>2, SMT DEF Score, Larger
<1>4. q \in 0..100
  BY <1>3, SMT
<1>5. temperature \in Int /\ load \in Nat
  BY <1>1, SMT DEF Smaller
<1>6. IncidentInput(x) =
        [quality |-> q, vibration |-> x.vibration, kurtosis |-> x.kurtosis, crest |-> x.crest,
         temperature |-> temperature, load |-> load,
         seen |-> FALSE, visual |-> 0, certainty |-> 0, spalled |-> FALSE, scenario |-> "none",
         probability |-> x.probability, hours |-> x.hours,
         parts |-> x.parts, cost |-> x.cost, downtime |-> x.downtime]
  BY DEF IncidentInput
<1> HIDE DEF q, temperature, load
<1>7. QED
  BY <1>1, <1>4, <1>5, <1>6 DEF Observation

LEMMA ReadingType ==
  ASSUME PlantAssumption, NEW c \in Contents
  PROVE  Reading[c].observation \in Observation
<1>1. Measurement[c] \in Signals
  BY DEF PlantAssumption
<1>2. IncidentInput(Measurement[c]) \in Observation
  BY <1>1, InputIsObservation
<1>3. QED
  BY <1>2 DEF Reading

SessionsOK ==
  /\ sessions \in [Sessions -> Session \cup {None}]
  /\ \A s \in Sessions :
       sessions[s] # None => sessions[s].total = sessions[s].accepted + sessions[s].rejected

\* A request for an incident knows its machine, one of a session knows its session.
Prepared(r) ==
  /\ r.tool > 0 /\ r.by # "campaign" => r.frame.asset \in KnownAssets
  /\ r.by \in Sessions => sessions[r.by] # None

RequestsOK ==
  /\ requests \in [Slots -> Request \cup {None}]
  /\ \A q \in Slots : ~Free(q) => Prepared(requests[q])

PlantInv == WorkflowInv /\ SessionsOK /\ RequestsOK

LEMMA CountedType ==
  ASSUME NEW x \in Session, x.total = x.accepted + x.rejected,
         NEW c, NEW opened \in BOOLEAN
  PROVE  /\ Counted(x, c, opened) \in Session
         /\ Counted(x, c, opened).total
              = Counted(x, c, opened).accepted + Counted(x, c, opened).rejected
<1>1. x.total \in Nat /\ x.accepted \in Nat /\ x.rejected \in Nat /\ x.incident \in BOOLEAN
  BY DEF Session
<1> DEFINE opens == x.incident \/ opened
<1>0. opens \in BOOLEAN
  OBVIOUS
<1>2. CASE Reading[c].accepted
  <2> DEFINE n == x.total + 1
             m == x.accepted + 1
             y == [x EXCEPT !.total = n, !.accepted = m, !.incident = opens]
  <2>1. Counted(x, c, opened) = y
    BY <1>2 DEF Counted
  <2>2. n \in Nat /\ m \in Nat /\ n = m + x.rejected
    BY <1>1
  <2> HIDE DEF n, m, opens
  <2>3. y \in Session /\ y.total = n /\ y.accepted = m /\ y.rejected = x.rejected
    BY <1>0, <2>2 DEF Session
  <2>4. QED
    BY <2>1, <2>2, <2>3
<1>3. CASE ~Reading[c].accepted
  <2> DEFINE n == x.total + 1
             m == x.rejected + 1
             y == [x EXCEPT !.total = n, !.rejected = m, !.status = "degraded",
                            !.incident = opens]
  <2>1. Counted(x, c, opened) = y
    BY <1>3 DEF Counted
  <2>2. n \in Nat /\ m \in Nat /\ n = x.accepted + m
    BY <1>1
  <2> HIDE DEF n, m, opens
  <2>3. y \in Session /\ y.total = n /\ y.accepted = x.accepted /\ y.rejected = m
    BY <1>0, <2>2 DEF Session, SessionStatus
  <2>4. QED
    BY <2>1, <2>2, <2>3
<1>4. QED
  BY <1>2, <1>3

(* A slot that gets another request. *)
LEMMA NewInSlot ==
  ASSUME RequestsOK, sessions' = sessions, NEW q \in Slots, NEW r \in Request, Prepared(r),
         requests' = [requests EXCEPT ![q] = r]
  PROVE  RequestsOK'
<1>1. requests' \in [Slots -> Request \cup {None}]
  BY DEF RequestsOK
<1>2. \A p \in Slots : requests'[p] = IF p = q THEN r ELSE requests[p]
  BY DEF RequestsOK
<1>3. ASSUME NEW p \in Slots, requests'[p] # None
      PROVE  /\ requests'[p].tool > 0 /\ requests'[p].by # "campaign"
                  => requests'[p].frame.asset \in KnownAssets
             /\ requests'[p].by \in Sessions => sessions[requests'[p].by] # None
  <2>1. CASE p = q
    BY <1>2, <2>1 DEF Prepared
  <2>2. CASE p # q
    BY <1>2, <1>3, <2>2 DEF RequestsOK, Prepared, Free
  <2>3. QED
    BY <2>1, <2>2
<1>4. QED
  BY <1>1, <1>3 DEF RequestsOK, Free, Prepared

LEMMA EndedKeeps ==
  ASSUME RequestsOK, sessions' = sessions, NEW q \in Slots, Ended(q)
  PROVE  RequestsOK'
BY DEF RequestsOK, Prepared, Free, Ended

LEMMA RespondKeeps ==
  ASSUME SessionsOK, RequestsOK, SessionAssumption, NEW q \in Slots, NEW r \in Request, Prepared(r),
         NEW opened \in BOOLEAN, Respond(q, r, opened)
  PROVE  SessionsOK' /\ RequestsOK'
<1>1. CASE r.by \notin Sessions
  <2>1. sessions' = sessions /\ Ended(q)
    BY <1>1 DEF Respond
  <2>2. QED
    BY <2>1, EndedKeeps DEF SessionsOK
<1>2. CASE r.by \in Sessions
  <2> DEFINE s == r.by
             x == Counted(sessions[s], r.frame.content, opened)
  <2>1. sessions' = [sessions EXCEPT ![s] = x] /\ requests' = [requests EXCEPT ![q] = None]
    BY <1>2 DEF Respond, Ended
  <2>2. sessions[s] # None /\ sessions[s] \in Session
    BY <1>2 DEF Prepared, SessionsOK
  <2>3. sessions[s].total = sessions[s].accepted + sessions[s].rejected
    BY <1>2, <2>2 DEF SessionsOK
  <2>4. x \in Session /\ x.total = x.accepted + x.rejected
    BY <2>2, <2>3, CountedType
  <2>5. x # None
    BY <2>4 DEF SessionAssumption
  <2> HIDE DEF x, s
  <2>6. SessionsOK'
    BY <1>2, <2>1, <2>4 DEF SessionsOK
  <2>7. \A t \in Sessions : sessions[t] # None => sessions'[t] # None
    BY <2>1, <2>5 DEF SessionsOK
  <2>8. RequestsOK'
    BY <2>1, <2>7 DEF RequestsOK, Prepared, Free
  <2>9. QED
    BY <2>6, <2>8
<1>3. QED
  BY <1>1, <1>2

LEMMA NewRequestType ==
  ASSUME PlantAssumption, NEW f \in Frame,
         NEW by \in Requesters
  PROVE  /\ NewRequest(by, f) \in Request /\ NewRequest(by, f).tool = 0
         /\ NewRequest(by, f).by = by /\ NewRequest(by, f).frame = f
<1> DEFINE o == Reading[f.content].observation
<1>1. o \in Observation
  <2>1. f.content \in Contents
    BY DEF Frame
  <2>2. QED
    BY <2>1, ReadingType
<1>2. NewRequest(by, f) = [by |-> by, frame |-> f, tool |-> 0, observation |-> o,
                           heard |-> FALSE, starts |-> {}, worst |-> {}]
  BY DEF NewRequest
<1> HIDE DEF o
<1>3. QED
  BY <1>1, <1>2 DEF Request

(* create_and_analyze, from any of its tools on. *)
LEMMA AnalyseKeeps ==
  ASSUME WorkflowAssumption, SessionAssumption, PlantInv,
         NEW q \in Slots, NEW r \in Request, Prepared(r), NEW k \in Nat,
         r.frame.asset \in KnownAssets, Analyse(q, r, k)
  PROVE  PlantInv'
<1> DEFINE heard == r.heard \/ InventoryHeard(k)
<1>1. heard \in BOOLEAN
  BY DEF InventoryHeard, Request
<1>2. faults' \in [Tools -> Fault]
  <2>1. faults \in [Tools -> Fault]
    BY DEF PlantInv, WorkflowInv, WorkflowTypeOK
  <2>2. FaultsAfter(Called(k)) \in [Tools -> Fault]
    BY <2>1, FaultsAfterType
  <2>3. QED
    BY <2>2 DEF Analyse
<1>3. CASE Suspension(k) <= Len(AnalysisTools)
  <2> DEFINE j == Suspension(k)
             x == [r EXCEPT !.tool = j, !.heard = heard]
  <2>1. j \in Nat
    BY SuspensionType
  <2>2. UNCHANGED <<assets, incidents, sessions>> /\ requests' = [requests EXCEPT ![q] = x]
    BY <1>3 DEF Analyse
  <2> HIDE DEF j, heard
  <2>3. x \in Request /\ x.frame = r.frame /\ x.by = r.by
    BY <1>1, <2>1 DEF Request
  <2>4. Prepared(x)
    BY <2>3 DEF Prepared
  <2> HIDE DEF x
  <2>5. RequestsOK /\ RequestsOK'
    BY <2>2, <2>3, <2>4, NewInSlot DEF PlantInv
  <2>6. WorkflowInv'
    BY <1>2, <2>2, OnlyFaults DEF PlantInv
  <2>7. QED
    BY <2>2, <2>5, <2>6 DEF PlantInv, SessionsOK
<1>4. CASE ~(Suspension(k) <= Len(AnalysisTools))
  <2>1. SaveAnalysis(r.frame.asset, r.observation, heard) /\ Respond(q, r, TRUE)
    BY <1>4 DEF Analyse
  <2>2. r.observation \in Observation
    BY DEF Request
  <2> HIDE DEF heard
  <2>3. WorkflowInv'
    BY <1>1, <1>2, <2>1, <2>2, SaveAnalysisKeeps DEF PlantInv
  <2>4. SessionsOK' /\ RequestsOK'
    BY <2>1, RespondKeeps DEF PlantInv
  <2>5. QED
    BY <2>3, <2>4 DEF PlantInv
<1>5. QED
  BY <1>3, <1>4

LEMMA WorkflowUntouched ==
  ASSUME WorkflowInv, UNCHANGED workflowVars
  PROVE  WorkflowInv'
<1>1. UNCHANGED <<assets, incidents>> /\ faults' \in [Tools -> Fault]
  BY DEF WorkflowInv, WorkflowTypeOK, workflowVars
<1>2. QED
  BY <1>1, OnlyFaults

LEMMA OpenIncidentKeeps ==
  ASSUME WorkflowAssumption, SessionAssumption, PlantInv,
         NEW q \in Slots, NEW r \in Request, Prepared(r), OpenIncident(q, r)
  PROVE  PlantInv'
<1>1. CASE r.frame.asset \in KnownAssets
  <2>1. Analyse(q, r, 1) /\ 1 \in Nat
    BY <1>1 DEF OpenIncident
  <2>2. QED
    BY <1>1, <2>1, AnalyseKeeps
<1>2. CASE r.frame.asset \notin KnownAssets
  <2>1. Ended(q) /\ UNCHANGED workflowVars /\ sessions' = sessions
    BY <1>2 DEF OpenIncident
  <2>2. WorkflowInv' /\ RequestsOK'
    BY <2>1, WorkflowUntouched, EndedKeeps DEF PlantInv
  <2>3. QED
    BY <2>1, <2>2 DEF PlantInv, SessionsOK
<1>3. QED
  BY <1>1, <1>2

LEMMA ContinueKeeps ==
  ASSUME WorkflowAssumption, SessionAssumption, PlantInv,
         NEW q \in Slots, NEW r \in Request, Prepared(r), Continue(q, r)
  PROVE  PlantInv'
<1>1. CASE Opens(r)
  BY <1>1, OpenIncidentKeeps DEF Continue
<1>2. CASE ~Opens(r)
  <2>1. Respond(q, r, FALSE) /\ UNCHANGED workflowVars /\ FALSE \in BOOLEAN
    BY <1>2 DEF Continue
  <2>2. WorkflowInv'
    BY <2>1, WorkflowUntouched DEF PlantInv
  <2>3. SessionsOK' /\ RequestsOK'
    BY <2>1, RespondKeeps DEF PlantInv
  <2>4. QED
    BY <2>2, <2>3 DEF PlantInv
<1>3. QED
  BY <1>1, <1>2

LEMMA ArrivesKeeps ==
  ASSUME WorkflowAssumption, SessionAssumption, PlantAssumption, PlantInv,
         NEW q \in Slots, NEW f \in Frame,
         NEW by \in Requesters,
         by \in Sessions => sessions[by] # None, Arrives(q, by, f)
  PROVE  PlantInv'
<1> DEFINE r == NewRequest(by, f)
<1>1. r \in Request /\ r.tool = 0 /\ r.by = by /\ r.frame = f
  BY NewRequestType
<1>2. Prepared(r)
  BY <1>1 DEF Prepared
<1>3. CASE /\ requests' = [requests EXCEPT ![q] = r]
           /\ UNCHANGED <<workflowVars, sessions>>
  <2> HIDE DEF r
  <2>1. WorkflowInv' /\ RequestsOK'
    BY <1>1, <1>2, <1>3, WorkflowUntouched, NewInSlot DEF PlantInv
  <2>2. QED
    BY <1>3, <2>1 DEF PlantInv, SessionsOK
<1>4. CASE Continue(q, r)
  BY <1>1, <1>2, <1>4, ContinueKeeps
<1>5. QED
  BY <1>3, <1>4 DEF Arrives

-----------------------------------------------------------------------------
(* The gateway *)

LEMMA FrameFields ==
  ASSUME NEW f \in Frame
  PROVE  /\ f.node \in Nodes /\ f.asset \in Assets /\ f.sequence \in Sequences
         /\ f.content \in Contents
BY DEF Frame

LEMMA ReservationType ==
  ASSUME NEW f \in Frame, NEW p \in Sequences \cup {None}
  PROVE  [frame |-> f, previous |-> p] \in Reservation
BY DEF Reservation

LEMMA RegisterType ==
  ASSUME GatewayTypeOK, NEW n \in Nodes, NEW a \in Assets, Register(n, a)
  PROVE  GatewayTypeOK'
BY DEF GatewayTypeOK, Register

LEMMA ReserveType ==
  ASSUME GatewayTypeOK, NEW f \in Frame,
         last' = [last EXCEPT ![f.node] = f.sequence],
         received' = [received EXCEPT ![f.node] = @ + 1],
         ingesting' = ingesting \cup {[frame |-> f, previous |-> last[f.node]]},
         UNCHANGED <<campaigns, answered, archive>>,
         registered' \in [Nodes -> Assets \cup {None}]
  PROVE  GatewayTypeOK'
<1>1. f.node \in Nodes /\ f.sequence \in Sequences
  BY FrameFields
<1>2. last[f.node] \in Sequences \cup {None} /\ received[f.node] \in Nat
  BY <1>1 DEF GatewayTypeOK
<1>3. [frame |-> f, previous |-> last[f.node]] \in Reservation
  BY <1>2, ReservationType
<1>4. last' \in [Nodes -> Sequences \cup {None}] /\ received' \in [Nodes -> Nat]
  BY <1>1, <1>2 DEF GatewayTypeOK
<1>5. ingesting' \subseteq Reservation
  BY <1>3 DEF GatewayTypeOK
<1>6. QED
  BY <1>4, <1>5 DEF GatewayTypeOK

LEMMA CommitType ==
  ASSUME GatewayTypeOK, NEW r, Commit(r)
  PROVE  GatewayTypeOK'
<1>1. r.frame \in Frame
  BY DEF GatewayTypeOK, Commit, Reservation
<1>2. QED
  BY <1>1 DEF GatewayTypeOK, Commit

LEMMA FailType ==
  ASSUME GatewayTypeOK, NEW r, Fail(r)
  PROVE  GatewayTypeOK'
<1>1. r.frame \in Frame /\ r.previous \in Sequences \cup {None}
  BY DEF GatewayTypeOK, Fail, Reservation
<1>2. r.frame.node \in Nodes
  BY <1>1, FrameFields
<1>3. NumberAfterFailure(r) \in Sequences \cup {None} /\ CountAfterFailure(r.frame.node) \in Nat
  BY <1>1, <1>2 DEF GatewayTypeOK, NumberAfterFailure, CountAfterFailure
<1>4. QED
  BY <1>2, <1>3 DEF GatewayTypeOK, Fail

LEMMA RegisterAndReserveType ==
  ASSUME GatewayTypeOK, NEW f \in Frame, RegisterAndReserve(f)
  PROVE  GatewayTypeOK'
<1>1. f.node \in Nodes /\ f.asset \in Assets
  BY FrameFields
<1>2. registered' \in [Nodes -> Assets \cup {None}]
  BY <1>1 DEF GatewayTypeOK, RegisterAndReserve
<1>3. QED
  BY <1>2, ReserveType DEF RegisterAndReserve

LEMMA CommitAndReserveType ==
  ASSUME GatewayTypeOK, NEW q, requests[q].frame \in Frame, NEW f \in Frame, CommitAndReserve(q, f)
  PROVE  GatewayTypeOK'
<1>1. f.node \in Nodes /\ f.sequence \in Sequences /\ requests[q].frame.sequence \in Sequences
  BY FrameFields
<1>2. [frame |-> f, previous |-> requests[q].frame.sequence] \in Reservation
  BY <1>1, ReservationType
<1>3. received[f.node] \in Nat
  BY <1>1 DEF GatewayTypeOK
<1>4. QED
  BY <1>1, <1>2, <1>3 DEF GatewayTypeOK, CommitAndReserve

LEMMA GatewayUntouched ==
  ASSUME GatewayTypeOK, UNCHANGED gatewayVars
  PROVE  GatewayTypeOK'
BY DEF GatewayTypeOK, gatewayVars, gatewayMemory

-----------------------------------------------------------------------------
(* The steps of the server *)

Assumptions ==
  GatewayAssumption /\ WorkflowAssumption /\ PlantAssumption /\ SessionAssumption

IInv ==
  /\ GatewayTypeOK /\ PlantInv
  /\ clients \in Mixes /\ senders \in [Nodes -> SUBSET Requesters]

LEMMA AssumptionsHold == Assumptions
BY GatewayAssumption, WorkflowAssumption, PlantAssumption, SessionAssumption DEF Assumptions

LEMMA RequesterKinds ==
  ASSUME Assumptions
  PROVE  /\ Requesters \subseteq Origins /\ Sessions \subseteq Requesters
         /\ {"bench", "csv", "campaign", "report"} \subseteq Requesters
         /\ Sessions \cap {"bench", "csv", "campaign", "report"} = {}
BY DEF Assumptions, PlantAssumption, Requesters

LEMMA FrameOfType ==
  ASSUME Assumptions, NEW by \in Requesters,
         NEW n \in Nodes, NEW a \in Assets, NEW number \in Sequences, NEW c \in Contents
  PROVE  FrameOf(by, n, a, number, c) \in Frame
<1>1. by \in Origins
  BY RequesterKinds
<1>2. QED
  BY <1>1 DEF FrameOf, Frame

\* The frame a file begins with, or a report is made with.
LEMMA NumberZeroType ==
  ASSUME Assumptions, NEW by \in Requesters, NEW a \in Assets, NEW c \in Contents
  PROVE  FrameOf(by, CsvNode, a, 0, c) \in Frame
<1>1. CsvNode \in Nodes
  BY DEF Assumptions, PlantAssumption
<1>2. 0 \in Sequences
  BY DEF Assumptions, GatewayAssumption, Sequences
<1>3. QED
  BY <1>1, <1>2, FrameOfType

LEMMA RequestFields ==
  ASSUME NEW r \in Request
  PROVE  r.frame \in Frame /\ r.tool \in Nat /\ r.worst \subseteq Contents
BY DEF Request

\* A client's request: it is in the invariant and prepared.
LEMMA InSlot ==
  ASSUME PlantInv, NEW q \in Slots, ~Free(q)
  PROVE  requests[q] \in Request /\ Prepared(requests[q])
BY DEF PlantInv, RequestsOK, Free

(* A step that changes nothing but the gateway and one slot. *)
LEMMA SlotStep ==
  ASSUME PlantInv, UNCHANGED <<workflowVars, sessions>>, NEW q \in Slots,
         \/ Ended(q)
         \/ \E r \in Request : Prepared(r) /\ requests' = [requests EXCEPT ![q] = r]
  PROVE  PlantInv'
<1>1. WorkflowInv'
  BY WorkflowUntouched DEF PlantInv
<1>2. RequestsOK'
  <2>1. CASE Ended(q)
    BY <2>1, EndedKeeps DEF PlantInv
  <2>2. CASE \E r \in Request : Prepared(r) /\ requests' = [requests EXCEPT ![q] = r]
    BY <2>2, NewInSlot DEF PlantInv
  <2>3. QED
    BY <2>1, <2>2
<1>3. QED
  BY <1>1, <1>2 DEF PlantInv, SessionsOK

LEMMA SessionSteps ==
  ASSUME Assumptions, GatewayTypeOK, PlantInv, FromSessions
  PROVE  GatewayTypeOK' /\ PlantInv'
<1>1. ASSUME NEW s \in Sessions, NEW n \in LiveNodes, NEW a \in Assets, NEW open \in BOOLEAN,
             StartSession(s, n, a, open)
      PROVE  GatewayTypeOK' /\ PlantInv'
  <2> DEFINE x == [node |-> n, asset |-> a, open |-> open, status |-> "running",
                   total |-> 0, accepted |-> 0, rejected |-> 0, incident |-> FALSE]
  <2>1. n \in Nodes
    BY DEF Assumptions, PlantAssumption
  <2>2. GatewayTypeOK'
    BY <1>1, <2>1, RegisterType DEF StartSession
  <2>0. a \in KnownAssets
    BY <1>1 DEF StartSession
  <2>3. x \in Session /\ x.total = x.accepted + x.rejected
    BY <2>0 DEF Session, SessionStatus
  <2>4. x # None
    BY <2>3 DEF Assumptions, SessionAssumption
  <2>5. sessions' = [sessions EXCEPT ![s] = x] /\ UNCHANGED <<workflowVars, requests>>
    BY <1>1 DEF StartSession
  <2> HIDE DEF x
  <2>6. SessionsOK'
    BY <2>3, <2>5 DEF PlantInv, SessionsOK
  <2>7. RequestsOK'
    BY <2>4, <2>5 DEF PlantInv, SessionsOK, RequestsOK, Prepared, Free
  <2>8. QED
    BY <2>2, <2>5, <2>6, <2>7, WorkflowUntouched DEF PlantInv
<1>2. ASSUME NEW s \in Sessions, StopSession(s)
      PROVE  GatewayTypeOK' /\ PlantInv'
  <2> DEFINE x == [sessions[s] EXCEPT !.status = "stopped"]
  <2>1. sessions[s] \in Session /\ sessions[s].total = sessions[s].accepted + sessions[s].rejected
    BY <1>2 DEF StopSession, PlantInv, SessionsOK
  <2>2. /\ x \in Session /\ x.total = sessions[s].total
        /\ x.accepted = sessions[s].accepted /\ x.rejected = sessions[s].rejected
    BY <2>1 DEF Session, SessionStatus
  <2>3. x # None
    BY <2>2 DEF Assumptions, SessionAssumption
  <2>4. sessions' = [sessions EXCEPT ![s] = x] /\ UNCHANGED <<gatewayVars, workflowVars, requests>>
    BY <1>2 DEF StopSession
  <2> HIDE DEF x
  <2>5. SessionsOK'
    BY <2>1, <2>2, <2>4 DEF PlantInv, SessionsOK
  <2>6. RequestsOK'
    BY <2>3, <2>4 DEF PlantInv, SessionsOK, RequestsOK, Prepared, Free
  <2>7. QED
    BY <2>4, <2>5, <2>6, WorkflowUntouched, GatewayUntouched DEF PlantInv
<1>3. ASSUME NEW q \in Slots, NEW s \in Sessions, NEW c \in Contents, LiveFrame(q, s, c)
      PROVE  GatewayTypeOK' /\ PlantInv'
  <2> DEFINE f == FrameOf(s, sessions[s].node, sessions[s].asset, sessions[s].total, c)
  <2>1. sessions[s] # None /\ sessions[s].total <= MaxSequence /\ Arrives(q, s, f)
    BY <1>3 DEF LiveFrame
  <2>2. sessions[s] \in Session
    BY <2>1 DEF PlantInv, SessionsOK
  <2>3. sessions[s].node \in Nodes /\ sessions[s].asset \in Assets /\ sessions[s].total \in Nat
    BY <2>2 DEF Session, Assumptions, PlantAssumption
  <2>4. sessions[s].total \in Sequences
    BY <2>1, <2>3 DEF Sequences, Assumptions, GatewayAssumption
  <2>5. s \in Requesters /\ f \in Frame
    <3>1. s \in Requesters
      BY RequesterKinds
    <3>2. QED
      BY <2>3, <2>4, <3>1, FrameOfType
  <2> HIDE DEF f
  <2>6. PlantInv'
    BY <2>1, <2>5, ArrivesKeeps DEF Assumptions
  <2>7. GatewayTypeOK'
    <3>1. CASE Reserve(f)
      BY <2>5, <3>1, ReserveType DEF Reserve, GatewayTypeOK
    <3>2. CASE UNCHANGED gatewayVars
      BY <3>2, GatewayUntouched
    <3>3. QED
      BY <2>1, <3>1, <3>2 DEF Arrives
  <2>8. QED
    BY <2>6, <2>7
<1>4. QED
  BY <1>1, <1>2, <1>3 DEF FromSessions

LEMMA NodeSteps ==
  ASSUME Assumptions, GatewayTypeOK, PlantInv, FromNodes
  PROVE  GatewayTypeOK' /\ PlantInv'
<1>0. BenchNodes \subseteq Nodes
  BY DEF Assumptions, PlantAssumption
<1>1. ASSUME NEW n \in BenchNodes, NEW a \in Assets, RegisterBench(n, a)
      PROVE  GatewayTypeOK' /\ PlantInv'
  <2>1. GatewayTypeOK'
    BY <1>0, <1>1, RegisterType DEF RegisterBench
  <2>2. UNCHANGED <<workflowVars, sessions, requests>>
    BY <1>1 DEF RegisterBench
  <2>3. QED
    BY <2>1, <2>2, WorkflowUntouched DEF PlantInv, SessionsOK, RequestsOK, Prepared, Free
<1>2. ASSUME NEW q \in Slots, NEW n \in BenchNodes, NEW number \in Sequences, NEW c \in Contents,
             BenchFrame(q, n, number, c)
      PROVE  GatewayTypeOK' /\ PlantInv'
  <2> DEFINE f == FrameOf("bench", n, registered[n], number, c)
  <2>1. registered[n] # None /\ Arrives(q, "bench", f)
    BY <1>2 DEF BenchFrame
  <2>2. n \in Nodes /\ registered[n] \in Assets
    BY <1>0, <2>1 DEF GatewayTypeOK
  <2>4. "bench" \notin Sessions /\ "bench" \in Requesters
    BY RequesterKinds
  <2>3. f \in Frame
    BY <2>2, <2>4, FrameOfType
  <2> HIDE DEF f
  <2>5. PlantInv'
    BY <2>1, <2>3, <2>4, ArrivesKeeps DEF Assumptions
  <2>6. GatewayTypeOK'
    <3>1. CASE Reserve(f)
      BY <2>3, <3>1, ReserveType DEF Reserve, GatewayTypeOK
    <3>2. CASE UNCHANGED gatewayVars
      BY <3>2, GatewayUntouched
    <3>3. QED
      BY <2>1, <3>1, <3>2 DEF Arrives
  <2>7. QED
    BY <2>5, <2>6
<1>3. QED
  BY <1>1, <1>2 DEF FromNodes

LEMMA FileSteps ==
  ASSUME Assumptions, GatewayTypeOK, PlantInv, FromFiles
  PROVE  GatewayTypeOK' /\ PlantInv'
<1>1. ASSUME NEW q \in Slots, NEW file \in CsvFiles, NEW a \in Assets, NEW c \in Contents,
             UploadCsv(q, file, a, c)
      PROVE  GatewayTypeOK' /\ PlantInv'
  <2> DEFINE f == FrameOf("csv", CsvNode, a, 0, c)
             r == NewRequest("csv", f)
             starts == Starts(file.length, file.window, file.hop) \ {0}
             x == [r EXCEPT !.starts = starts]
  <2>0. "csv" \in Requesters
    BY RequesterKinds
  <2>1. f \in Frame
    BY <2>0, NumberZeroType
  <2>2. r \in Request /\ r.tool = 0 /\ r.by = "csv" /\ r.frame = f
    BY <2>0, <2>1, NewRequestType DEF Assumptions
  <2>3. starts \subseteq Nat
    <3>1. file.length \in Nat /\ file.window \in Nat /\ file.hop \in Nat /\ file.hop > 0
      BY DEF Assumptions, PlantAssumption
    <3>2. LastStart(file.length, file.window) \in Nat
      BY <3>1 DEF LastStart
    <3>3. QED
      BY <3>1, <3>2, SMT DEF Starts, RegularStarts
  <2>4. RegisterAndReserve(f) /\ requests' = [requests EXCEPT ![q] = x]
        /\ UNCHANGED <<workflowVars, sessions>>
    BY <1>1 DEF UploadCsv
  <2> HIDE DEF f, r, starts
  <2>5. x \in Request /\ x.tool = 0 /\ x.by = "csv"
    BY <2>2, <2>3 DEF Request
  <2> HIDE DEF x
  <2>6. Prepared(x)
    BY <2>5 DEF Prepared, Assumptions, PlantAssumption
  <2>7. QED
    BY <2>1, <2>4, <2>5, <2>6, RegisterAndReserveType, SlotStep
<1>2. ASSUME NEW r \in Request, r.frame.content \in Contents, r.tool = 0, r.by = "csv"
      PROVE  /\ WithWindow(r) \in Request /\ WithWindow(r).tool = 0 /\ WithWindow(r).by = "csv"
             /\ WithWindow(r).frame = r.frame
  <2> DEFINE w == r.worst \cup (IF Reading[r.frame.content].accepted
                                   /\ Reading[r.frame.content].faulty
                                 THEN {r.frame.content} ELSE {})
  <2>1. w \subseteq Contents
    BY <1>2, RequestFields
  <2>2. WithWindow(r) = [r EXCEPT !.worst = w]
    BY DEF WithWindow
  <2> HIDE DEF w
  <2>3. QED
    BY <1>2, <2>1, <2>2 DEF Request
<1>3. ASSUME NEW q \in Slots, NEW c \in Contents, NextWindow(q, c)
      PROVE  GatewayTypeOK' /\ PlantInv'
  <2> DEFINE r == requests[q]
             n == r.frame.sequence + 1
             f == [r.frame EXCEPT !.sequence = n, !.content = c]
             v == WithWindow(r)
             starts == v.starts \ {Least(v.starts)}
             x == [v EXCEPT !.frame = f, !.starts = starts]
  <2>1. r \in Request /\ r.tool = 0 /\ r.by = "csv"
    BY <1>3, InSlot DEF NextWindow, Waiting
  <2>2. r.frame \in Frame /\ r.frame.content \in Contents /\ r.frame.sequence \in Nat
    BY <2>1, RequestFields, FrameFields DEF Sequences
  <2>3. f.sequence <= MaxSequence /\ CommitAndReserve(q, f)
        /\ requests' = [requests EXCEPT ![q] = x] /\ UNCHANGED <<workflowVars, sessions>>
    BY <1>3 DEF NextWindow
  <2>4. f.sequence = n
    BY <2>2 DEF Frame
  <2>5. n \in Sequences
    BY <2>2, <2>3, <2>4, SMTT(30) DEF Sequences, Assumptions, GatewayAssumption
  <2> HIDE DEF n
  <2>6. f \in Frame
    BY <2>2, <2>5 DEF Frame
  <2>7. v \in Request /\ v.tool = 0 /\ v.by = "csv"
    BY <1>2, <2>1, <2>2
  <2> HIDE DEF r, f, v
  <2>8. starts \subseteq Nat
    BY <2>7 DEF Request
  <2> HIDE DEF starts
  <2>9. x \in Request /\ x.tool = 0 /\ x.by = "csv"
    BY <2>6, <2>7, <2>8 DEF Request
  <2> HIDE DEF x
  <2>10. Prepared(x)
    BY <2>9 DEF Prepared, Assumptions, PlantAssumption
  <2>11. GatewayTypeOK'
    BY <2>2, <2>3, <2>6, CommitAndReserveType DEF r
  <2>12. QED
    BY <2>3, <2>9, <2>10, <2>11, SlotStep
<1>4. ASSUME NEW q \in Slots, LastWindow(q)
      PROVE  GatewayTypeOK' /\ PlantInv'
  <2> DEFINE r == WithWindow(requests[q])
  <2>1. requests[q] \in Request /\ requests[q].tool = 0 /\ requests[q].by = "csv"
    BY <1>4, InSlot DEF LastWindow, Waiting
  <2>2. requests[q].frame.content \in Contents
    BY <2>1, RequestFields, FrameFields
  <2>3. r \in Request /\ r.tool = 0 /\ r.by = "csv"
    BY <1>2, <2>1, <2>2
  <2>4. Commit(ReservationOf(q))
        /\ IF r.worst = {} THEN Ended(q) /\ UNCHANGED <<workflowVars, sessions>>
           ELSE \E c \in r.worst : OpenIncident(q, [r EXCEPT !.observation = Reading[c].observation])
    BY <1>4 DEF LastWindow
  <2> HIDE DEF r
  <2>5. PlantInv'
    <3>1. CASE r.worst = {}
      BY <2>4, <3>1, SlotStep
    <3>2. CASE r.worst # {}
      <4>1. PICK c \in r.worst : OpenIncident(q, [r EXCEPT !.observation = Reading[c].observation])
        BY <2>4, <3>2
      <4> DEFINE o == Reading[c].observation
                 x == [r EXCEPT !.observation = o]
      <4>2. o \in Observation
        BY <2>3, RequestFields, ReadingType DEF Assumptions
      <4> HIDE DEF o
      <4>3. x \in Request /\ x.tool = 0 /\ x.by = "csv"
        BY <2>3, <4>2 DEF Request
      <4>4. Prepared(x)
        BY <4>3 DEF Prepared, Assumptions, PlantAssumption
      <4>5. OpenIncident(q, x)
        BY <4>1 DEF o
      <4> HIDE DEF x
      <4>6. QED
        BY <4>3, <4>4, <4>5, OpenIncidentKeeps DEF Assumptions
    <3>3. QED
      BY <3>1, <3>2
  <2>6. QED
    BY <2>4, <2>5, CommitType
<1>5. QED
  BY <1>1, <1>3, <1>4 DEF FromFiles

LEMMA CampaignSteps ==
  ASSUME Assumptions, GatewayTypeOK, PlantInv, FromCampaigns
  PROVE  GatewayTypeOK' /\ PlantInv'
<1>1. ASSUME NEW k \in Nat, k >= 1, k <= Len(CampaignSignals)
      PROVE  Signal(k) \in Frame
  <2>1. CampaignSignals \in Seq(Contents) /\ Len(CampaignSignals) <= MaxSequence + 1
        /\ MaxSequence \in Nat /\ CampaignNode \in Nodes /\ CampaignAsset \in Assets
    BY DEF Assumptions, PlantAssumption, GatewayAssumption
  <2>2. CampaignSignals[k] \in Contents /\ Len(CampaignSignals) \in Nat
    BY <1>1, <2>1, LenProperties, ElementOfSeq
  <2>3. k - 1 \in Sequences
    BY <1>1, <2>1, <2>2 DEF Sequences
  <2>4. "campaign" \in Requesters
    BY RequesterKinds
  <2>5. QED
    BY <2>1, <2>2, <2>3, <2>4, FrameOfType DEF Signal
<1>2. ASSUME NEW q \in Slots, StartCampaign(q)
      PROVE  GatewayTypeOK' /\ PlantInv'
  <2> DEFINE f == Signal(1)
             r == NewRequest("campaign", f)
  <2>1. f \in Frame
    <3>1. Len(CampaignSignals) \in Nat /\ Len(CampaignSignals) >= 1
      BY LenProperties DEF Assumptions, PlantAssumption
    <3>2. QED
      BY <1>1, <3>1
  <2>0. "campaign" \in Requesters
    BY RequesterKinds
  <2>2. r \in Request /\ r.by = "campaign" /\ "campaign" \notin Sessions
    BY <2>0, <2>1, NewRequestType DEF Assumptions, PlantAssumption
  <2>3. Prepared(r)
    BY <2>2 DEF Prepared
  <2>4. UNCHANGED <<workflowVars, sessions>>
    BY <1>2 DEF StartCampaign
  <2>5. CASE RegisterAndReserve(f) /\ requests' = [requests EXCEPT ![q] = r]
    <3> HIDE DEF f, r
    <3>1. QED
      BY <2>1, <2>2, <2>3, <2>4, <2>5, RegisterAndReserveType, SlotStep
  <2>6. CASE Register(CampaignNode, CampaignAsset) /\ UNCHANGED requests
    <3>1. GatewayTypeOK'
      BY <2>6, RegisterType DEF Assumptions, PlantAssumption
    <3>2. QED
      BY <2>4, <2>6, <3>1, WorkflowUntouched DEF PlantInv, SessionsOK, RequestsOK, Prepared, Free
  <2>7. QED
    BY <1>2, <2>5, <2>6 DEF StartCampaign
<1>3. ASSUME NEW q \in Slots, NextSignal(q)
      PROVE  GatewayTypeOK' /\ PlantInv'
  <2> DEFINE r == requests[q]
             k == SignalsSent(q) + 1
             f == Signal(k)
             x == [r EXCEPT !.frame = f]
  <2>1. r \in Request /\ r.tool = 0 /\ r.by = "campaign" /\ "campaign" \notin Sessions
    BY <1>3, InSlot DEF NextSignal, Waiting, Assumptions, PlantAssumption
  <2>2. r.frame \in Frame /\ r.frame.sequence \in Nat
    BY <2>1, RequestFields, FrameFields DEF Sequences
  <2>3. k \in Nat /\ k >= 1
    BY <2>2 DEF SignalsSent
  <2>4. k <= Len(CampaignSignals) /\ CommitAndReserve(q, f) /\ requests' = [requests EXCEPT ![q] = x]
        /\ UNCHANGED <<workflowVars, sessions>>
    BY <1>3 DEF NextSignal
  <2>5. f \in Frame
    BY <1>1, <2>3, <2>4
  <2>6. GatewayTypeOK'
    BY <2>2, <2>4, <2>5, CommitAndReserveType
  <2> HIDE DEF f, r
  <2>7. x \in Request /\ x.by = "campaign"
    BY <2>1, <2>5 DEF Request
  <2> HIDE DEF x
  <2>8. Prepared(x)
    BY <2>1, <2>7 DEF Prepared
  <2>9. QED
    BY <2>4, <2>6, <2>7, <2>8, SlotStep
<1>4. ASSUME NEW q \in Slots, SpoilInventory(q)
      PROVE  GatewayTypeOK' /\ PlantInv'
  <2> DEFINE x == [requests[q] EXCEPT !.tool = 1]
  <2>1. requests[q] \in Request /\ requests[q].by = "campaign" /\ "campaign" \notin Sessions
    BY <1>4, InSlot DEF SpoilInventory, Waiting, Assumptions, PlantAssumption
  <2>2. x \in Request /\ x.by = "campaign"
    BY <2>1 DEF Request
  <2>3. Commit(ReservationOf(q)) /\ requests' = [requests EXCEPT ![q] = x]
        /\ faults' = [faults EXCEPT ![PartsTool] = [suspends |-> TRUE, calls |-> 0]]
        /\ UNCHANGED <<assets, incidents, sessions>>
    BY <1>4 DEF SpoilInventory
  <2> HIDE DEF x
  <2>4. Prepared(x)
    BY <2>1, <2>2 DEF Prepared
  <2>5. RequestsOK'
    BY <2>2, <2>3, <2>4, NewInSlot DEF PlantInv
  <2>6. faults' \in [Tools -> Fault]
    <3>1. [suspends |-> TRUE, calls |-> 0] \in Fault
      BY DEF Fault, Assumptions, WorkflowAssumption
    <3>2. faults \in [Tools -> Fault]
      BY DEF PlantInv, WorkflowInv, WorkflowTypeOK
    <3>3. QED
      BY <2>3, <3>1, <3>2
  <2>7. WorkflowInv'
    BY <2>3, <2>6, OnlyFaults DEF PlantInv
  <2>8. QED
    BY <2>3, <2>5, <2>7, CommitType DEF PlantInv, SessionsOK
<1>5. ASSUME NEW q \in Slots, EndCampaign(q)
      PROVE  GatewayTypeOK' /\ PlantInv'
  <2>1. ClearFaults /\ Ended(q) /\ UNCHANGED <<gatewayVars, sessions>>
    BY <1>5 DEF EndCampaign
  <2>2. faults' \in [Tools -> Fault]
    BY <2>1 DEF ClearFaults, NoFault, Fault, Assumptions, WorkflowAssumption
  <2>3. WorkflowInv'
    BY <2>1, <2>2, OnlyFaults DEF PlantInv, ClearFaults
  <2>4. RequestsOK'
    BY <2>1, EndedKeeps DEF PlantInv
  <2>5. QED
    BY <2>1, <2>3, <2>4, GatewayUntouched DEF PlantInv, SessionsOK
<1>6. QED
  BY <1>2, <1>3, <1>4, <1>5 DEF FromCampaigns

(* Steps of the workflow alone. *)
LEMMA WorkflowStep ==
  ASSUME GatewayTypeOK, PlantInv, UNCHANGED <<gatewayVars, sessions, requests>>, WorkflowInv'
  PROVE  GatewayTypeOK' /\ PlantInv'
BY GatewayUntouched DEF PlantInv, SessionsOK, RequestsOK, Prepared, Free

LEMMA ReportSteps ==
  ASSUME Assumptions, GatewayTypeOK, PlantInv, FromReports
  PROVE  GatewayTypeOK' /\ PlantInv'
<1>1. PICK q \in Slots, a \in Assets, o \in Reported : Report(q, a, o)
  BY DEF FromReports
<1> DEFINE c == CHOOSE x \in Contents : TRUE
           f == FrameOf("report", CsvNode, a, 0, c)
           r == NewRequest("report", f)
           x == [r EXCEPT !.observation = o]
<1>2. c \in Contents
  BY DEF Reported
<1>3. o \in Observation
  BY ReadingType DEF Reported, Assumptions
<1>4. OpenIncident(q, x) /\ UNCHANGED gatewayVars
  BY <1>1 DEF Report
<1>0. "report" \in Requesters
  BY RequesterKinds
<1>5. f \in Frame
  <2> HIDE DEF c
  <2>1. QED
    BY <1>0, <1>2, NumberZeroType
<1> HIDE DEF f
<1>6. r \in Request /\ r.tool = 0 /\ r.by = "report"
  BY <1>0, <1>5, NewRequestType DEF Assumptions
<1> HIDE DEF r
<1>7. x \in Request /\ x.tool = 0 /\ x.by = "report"
  BY <1>3, <1>6 DEF Request
<1> HIDE DEF x
<1>8. Prepared(x)
  BY <1>7 DEF Prepared, Assumptions, PlantAssumption
<1>9. PlantInv'
  BY <1>4, <1>7, <1>8, OpenIncidentKeeps DEF Assumptions
<1>10. QED
  BY <1>4, <1>9, GatewayUntouched

LEMMA PeopleSteps ==
  ASSUME Assumptions, GatewayTypeOK, PlantInv, Decide \/ Reset \/ Disturb
  PROVE  GatewayTypeOK' /\ PlantInv'
<1>1. /\ WorkflowAssumption /\ WorkflowInv /\ faults \in [Tools -> Fault]
      /\ UNCHANGED <<gatewayVars, sessions, requests>>
  BY DEF Assumptions, PlantInv, WorkflowInv, WorkflowTypeOK, Decide, Reset, Disturb
<1>2. CASE Decide
  <2>1. PICK i \in DOMAIN incidents :
               \/ Approve(i) \/ ApproveFails(i) \/ Reject(i) \/ RequestEvidence(i)
               \/ \E o \in Observations : Verify(i, o)
    BY <1>2 DEF Decide
  <2>2. CASE Approve(i) \/ Reject(i) \/ RequestEvidence(i)
    BY <1>1, <2>2, ApprovalKeeps, WorkflowStep
  <2>3. CASE ApproveFails(i)
    <3>1. UNCHANGED <<assets, incidents>> /\ faults' \in [Tools -> Fault]
      BY <1>1, <2>3, FaultsAfterType DEF ApproveFails
    <3>2. QED
      BY <1>1, <3>1, OnlyFaults, WorkflowStep
  <2>4. CASE \E o \in Observations : Verify(i, o)
    <3>1. PICK o \in Observation : Verify(i, o)
      BY <2>4 DEF Assumptions, WorkflowAssumption
    <3>2. QED
      BY <1>1, <3>1, VerifyKeeps, WorkflowStep
  <2>5. QED
    BY <2>1, <2>2, <2>3, <2>4
<1>3. CASE Reset
  BY <1>1, <1>3, ResetKeeps, WorkflowStep DEF Reset
<1>4. CASE Disturb
  <2>1. UNCHANGED <<assets, incidents>> /\ faults' \in [Tools -> Fault]
    <3>1. ASSUME NEW t \in Tools, NEW suspends \in BOOLEAN, NEW calls \in 1..MaxFaultCalls,
                 InjectFault(t, suspends, calls)
          PROVE  UNCHANGED <<assets, incidents>> /\ faults' \in [Tools -> Fault]
      <4>1. [suspends |-> suspends, calls |-> calls] \in Fault
        BY <1>1 DEF Fault, WorkflowAssumption
      <4>2. QED
        BY <1>1, <3>1, <4>1 DEF InjectFault
    <3>2. ASSUME ClearFaults
          PROVE  UNCHANGED <<assets, incidents>> /\ faults' \in [Tools -> Fault]
      BY <1>1, <3>2 DEF ClearFaults, NoFault, Fault, WorkflowAssumption
    <3>3. QED
      BY <1>4, <3>1, <3>2 DEF Disturb
  <2>2. QED
    BY <1>1, <2>1, OnlyFaults, WorkflowStep
<1>5. QED
  BY <1>2, <1>3, <1>4

LEMMA ProceedSteps ==
  ASSUME Assumptions, GatewayTypeOK, PlantInv, Proceed
  PROVE  GatewayTypeOK' /\ PlantInv'
<1>1. PICK q \in Slots : Infer(q) \/ InferFails(q) \/ ToolTimesOut(q)
  BY DEF Proceed
<1>2. ~Free(q)
  BY <1>1 DEF Infer, InferFails, ToolTimesOut, Waiting
<1>3. requests[q] \in Request /\ Prepared(requests[q])
  BY <1>2, InSlot
<1>4. CASE Infer(q)
  <2>1. Commit(ReservationOf(q)) /\ Continue(q, requests[q])
    BY <1>4 DEF Infer
  <2>2. PlantInv'
    BY <1>3, <2>1, ContinueKeeps DEF Assumptions
  <2>3. QED
    BY <2>1, <2>2, CommitType
<1>5. CASE InferFails(q)
  <2>1. Fail(ReservationOf(q)) /\ Ended(q) /\ UNCHANGED <<workflowVars, sessions>>
    BY <1>5 DEF InferFails
  <2>2. QED
    BY <2>1, FailType, SlotStep
<1>6. CASE ToolTimesOut(q)
  <2> DEFINE k == requests[q].tool + 1
  <2>1. Analyse(q, requests[q], k) /\ UNCHANGED gatewayVars
        /\ requests[q].tool > 0 /\ requests[q].by # "campaign"
    BY <1>6 DEF ToolTimesOut
  <2>2. k \in Nat /\ requests[q].frame.asset \in KnownAssets
    BY <1>3, <2>1, RequestFields DEF Prepared
  <2> HIDE DEF k
  <2>3. PlantInv'
    BY <1>3, <2>1, <2>2, AnalyseKeeps DEF Assumptions
  <2>4. QED
    BY <2>1, <2>3, GatewayUntouched
<1>7. QED
  BY <1>1, <1>4, <1>5, <1>6

LEMMA RestartStep ==
  ASSUME Assumptions, GatewayTypeOK, PlantInv, Restart
  PROVE  GatewayTypeOK' /\ PlantInv'
<1>1. GatewayTypeOK'
  BY DEF GatewayTypeOK, Restart, ForgetMemory
<1>2. WorkflowInv'
  BY RestartKeeps DEF Assumptions, PlantInv, Restart
<1>3. SessionsOK'
  BY DEF SessionsOK, Restart
<1>4. RequestsOK'
  BY DEF RequestsOK, Restart, Free
<1>5. QED
  BY <1>1, <1>2, <1>3, <1>4 DEF PlantInv

LEMMA Initially ==
  ASSUME Assumptions, Init
  PROVE  IInv
<1>1. GatewayTypeOK
  BY DEF Init, GatewayInit, EmptyMemory, GatewayTypeOK
<1>2. WorkflowInv
  <2>1. incidents = <<>> /\ assets \in [KnownAssets -> {"healthy", "watch"}]
        /\ faults = [t \in Tools |-> NoFault] /\ MaxIncidents \in Nat /\ MaxFaultCalls \in Nat
    BY DEF Init, WorkflowInit, Assumptions, WorkflowAssumption
  <2>2. incidents \in Seq(Incident) /\ Len(incidents) = 0 /\ DOMAIN incidents = {}
    BY <2>1, EmptySeq
  <2>3. faults \in [Tools -> Fault]
    BY <2>1 DEF NoFault, Fault
  <2>4. assets \in [KnownAssets -> AssetStatus] /\ MaintenanceExplained
    BY <2>1 DEF AssetStatus, MaintenanceExplained
  <2>5. QED
    BY <2>1, <2>2, <2>3, <2>4 DEF WorkflowInv, WorkflowTypeOK, AllLawful
<1>3. SessionsOK /\ RequestsOK
  BY DEF Init, SessionsOK, RequestsOK, Free
<1>4. clients \in Mixes /\ senders \in [Nodes -> SUBSET Requesters]
  BY DEF Init
<1>5. QED
  BY <1>1, <1>2, <1>3, <1>4 DEF IInv, PlantInv

LEMMA StepKeeps ==
  ASSUME Assumptions, IInv, [Next]_vars
  PROVE  IInv'
<1>1. GatewayTypeOK /\ PlantInv
  BY DEF IInv
<1>2. CASE Next
  <2>1. clients' = clients
    BY <1>2 DEF Next
  <2>2. GatewayTypeOK' /\ PlantInv'
    BY <1>1, <1>2, SessionSteps, NodeSteps, FileSteps, CampaignSteps, ReportSteps, PeopleSteps,
       ProceedSteps, RestartStep DEF Next, Serve, FromPeople
  <2>3. senders' \in [Nodes -> SUBSET Requesters]
    <3>1. CASE Serve
      <4>1. senders' = [n \in Nodes |-> senders[n] \cup Awaiting(n)']
        BY <3>1 DEF Serve
      <4>2. \A n \in Nodes : Awaiting(n)' \subseteq Requesters
        <5>1. \A q \in Slots : Waiting(q)' => requests'[q].by \in Requesters
          BY <2>2 DEF PlantInv, RequestsOK, Waiting, Free, Request
        <5>2. QED
          BY <5>1 DEF Awaiting
      <4>3. QED
        BY <4>1, <4>2 DEF IInv
    <3>2. CASE Restart
      BY <3>2 DEF Restart
    <3>3. QED
      BY <1>2, <3>1, <3>2 DEF Next
  <2>4. QED
    BY <2>1, <2>2, <2>3 DEF IInv
<1>3. CASE UNCHANGED vars
  <2>1. UNCHANGED <<gatewayVars, workflowVars, clients, sessions, requests, senders>>
    BY <1>3 DEF vars, plantVars
  <2>2. GatewayTypeOK' /\ WorkflowInv'
    BY <1>1, <2>1, GatewayUntouched, WorkflowUntouched DEF PlantInv
  <2>3. QED
    BY <2>1, <2>2 DEF IInv, PlantInv, SessionsOK, RequestsOK, Prepared, Free
<1>4. QED
  BY <1>2, <1>3

(* What is on the machines, in the incidents and in the requests stays as   *)
(* the invariant says, whatever the clients send and whatever fails.        *)
THEOREM Invariance == Spec => []IInv
<1>1. Assumptions
  BY AssumptionsHold
<1>2. Init => IInv
  BY <1>1, Initially
<1>3. IInv /\ [Next]_vars => IInv'
  BY <1>1, StepKeeps
<1>4. QED
  BY <1>2, <1>3, PTL DEF Spec

(* Every variable keeps its type, and the counters of a session add up      *)
(* (analysis/service.py:177-186).                                           *)
THEOREM TypesKept == Spec => []TypeOK
<1>1. IInv => TypeOK
  BY DEF IInv, PlantInv, WorkflowInv, SessionsOK, RequestsOK, TypeOK
<1>2. QED
  BY <1>1, Invariance, PTL

(* A machine in maintenance always has an incident that is not yet verified *)
(* (orchestrator.py:318-322, 367-379).                                      *)
THEOREM MaintenanceAlwaysExplained == Spec => []MaintenanceExplained
<1>1. IInv => MaintenanceExplained
  BY DEF IInv, PlantInv, WorkflowInv
<1>2. QED
  BY <1>1, Invariance, PTL

-----------------------------------------------------------------------------
(* The workflow implements IncidentLifecycle                               *)

\* What the lifecycle sees of an incident's record, and of one not yet made.
CaseOfRecord(r) ==
  [stage |-> CASE r.status = "awaiting_approval" -> "proposed"
               [] r.status = "in_progress" /\ r.order = "approved" -> "ordered"
               [] r.status = "resolved" /\ r.order = "completed" -> "closed"
               [] r.status = "reopened" /\ r.order = "reopened" -> "returned"
               [] r.status = "deleted" -> "forgotten"
               [] OTHER -> "refused",
   orders |-> IF r.order # "none" THEN 1 ELSE 0,
   closings |-> r.closings]

Unmade == [stage |-> "unknown", orders |-> 0, closings |-> 0]

Cases == [i \in 1..MaxIncidents |-> CaseOf(i)]

CasesMean ==
  \A i \in 1..MaxIncidents :
    Cases[i] = IF i \in DOMAIN incidents THEN CaseOfRecord(incidents[i]) ELSE Unmade

LEMMA CaseMeaning == WorkflowInv => CasesMean
<1> SUFFICES ASSUME WorkflowInv, NEW i \in 1..MaxIncidents
             PROVE  Cases[i] = IF i \in DOMAIN incidents THEN CaseOfRecord(incidents[i]) ELSE Unmade
  BY DEF CasesMean
<1>1. DOMAIN incidents = 1..Len(incidents) /\ Len(incidents) \in Nat /\ i \in Nat /\ i >= 1
  BY WorkflowAssumption, LenProperties DEF WorkflowInv, WorkflowTypeOK, WorkflowAssumption
<1>2. CASE i \in DOMAIN incidents
  <2>1. i <= Len(incidents) /\ ~(i > Len(incidents))
    BY <1>1, <1>2
  <2>2. QED
    BY <1>2, <2>1 DEF CaseOf, Stage, CaseOfRecord, Cases
<1>3. CASE i \notin DOMAIN incidents
  <2>1. ~(i <= Len(incidents)) /\ i > Len(incidents)
    BY <1>1, <1>3
  <2>2. QED
    BY <1>3, <2>1 DEF CaseOf, Stage, Unmade, Cases
<1>4. QED
  BY <1>2, <1>3

\* One incident changes, or is added.
LEMMA OneCase ==
  ASSUME WorkflowInv, WorkflowInv', NEW i \in 1..MaxIncidents,
         i \in DOMAIN incidents', DOMAIN incidents' = DOMAIN incidents \cup {i},
         \A j \in DOMAIN incidents : j # i => incidents'[j] = incidents[j]
  PROVE  Cases' = [Cases EXCEPT ![i] = CaseOfRecord(incidents'[i])]
<1>1. CasesMean /\ CasesMean'
  BY CaseMeaning, PTL
<1>2. \A j \in 1..MaxIncidents :
        /\ Cases[j] = IF j \in DOMAIN incidents THEN CaseOfRecord(incidents[j]) ELSE Unmade
        /\ Cases'[j] = IF j \in DOMAIN incidents' THEN CaseOfRecord(incidents'[j]) ELSE Unmade
  BY <1>1 DEF CasesMean, CaseOfRecord, Unmade
<1>4. DOMAIN Cases = 1..MaxIncidents /\ Cases' = [j \in 1..MaxIncidents |-> Cases'[j]]
  BY DEF Cases
<1>5. \A j \in 1..MaxIncidents :
        Cases'[j] = IF j = i THEN CaseOfRecord(incidents'[i]) ELSE Cases[j]
  BY <1>2
<1> DEFINE new == CaseOfRecord(incidents'[i])
           now == Cases
           then == Cases'
<1>6. /\ DOMAIN now = 1..MaxIncidents /\ then = [j \in 1..MaxIncidents |-> then[j]]
      /\ \A j \in 1..MaxIncidents : then[j] = IF j = i THEN new ELSE now[j]
  BY <1>4, <1>5
<1> HIDE DEF new, now, then
<1>7. then = [now EXCEPT ![i] = new]
  BY <1>6
<1>8. QED
  BY <1>7 DEF new, now, then

\* What a step of the server does to the incidents.
Grows == \E a, o, heard : SaveAnalysis(a, o, heard)

LEMMA OpeningGrows ==
  ASSUME NEW q, NEW r, OpenIncident(q, r) \/ Continue(q, r) \/ \E k : Analyse(q, r, k)
  PROVE  incidents' = incidents \/ Grows
<1>1. ASSUME NEW k, Analyse(q, r, k)
      PROVE  incidents' = incidents \/ Grows
  BY <1>1, Zenon DEF Analyse, Grows
<1>2. ASSUME OpenIncident(q, r)
      PROVE  incidents' = incidents \/ Grows
  BY <1>1, <1>2 DEF OpenIncident, workflowVars
<1>3. ASSUME Continue(q, r)
      PROVE  incidents' = incidents \/ Grows
  BY <1>2, <1>3 DEF Continue, workflowVars
<1>4. QED
  BY <1>1, <1>2, <1>3

LEMMA StepsOfIncidents ==
  ASSUME [Next]_vars
  PROVE  incidents' = incidents \/ Grows \/ Decide \/ ResetDemo
<1>1. ASSUME NEW q, NEW by, NEW f, Arrives(q, by, f)
      PROVE  incidents' = incidents \/ Grows
  BY <1>1, OpeningGrows DEF Arrives, workflowVars
<1>2. CASE FromSessions
  BY <1>1, <1>2 DEF FromSessions, StartSession, StopSession, LiveFrame, workflowVars
<1>3. CASE FromNodes
  <2>1. CASE \E n \in BenchNodes, a \in Assets : RegisterBench(n, a)
    BY <2>1 DEF RegisterBench, workflowVars
  <2>2. CASE \E q \in Slots, n \in BenchNodes, number \in Sequences, c \in Contents :
               BenchFrame(q, n, number, c)
    <3>1. PICK q \in Slots, n \in BenchNodes, number \in Sequences, c \in Contents :
                 BenchFrame(q, n, number, c)
      BY <2>2, ZenonT(60)
    <3>2. QED
      BY <1>1, <3>1, Zenon DEF BenchFrame
  <2>3. QED
    BY <1>3, <2>1, <2>2 DEF FromNodes
<1>4. CASE FromFiles
  <2>1. ASSUME NEW q, LastWindow(q)
        PROVE  incidents' = incidents \/ Grows
    BY <2>1, OpeningGrows DEF LastWindow, workflowVars
  <2>2. QED
    BY <1>4, <2>1 DEF FromFiles, UploadCsv, NextWindow, workflowVars
<1>5. CASE FromCampaigns
  BY <1>5 DEF FromCampaigns, StartCampaign, NextSignal, SpoilInventory, EndCampaign, ClearFaults,
              workflowVars
<1>6. CASE FromReports
  BY <1>6, OpeningGrows DEF FromReports, Report
<1>7. CASE Proceed
  BY <1>7, OpeningGrows DEF Proceed, Infer, InferFails, ToolTimesOut, workflowVars
<1>8. CASE Disturb \/ Restart
  BY <1>8 DEF Disturb, InjectFault, ClearFaults, Restart, WorkflowRestart
<1>9. CASE UNCHANGED vars
  BY <1>9 DEF vars, workflowVars
<1>10. QED
  BY <1>2, <1>3, <1>4, <1>5, <1>6, <1>7, <1>8, <1>9 DEF Next, Serve, FromPeople, Reset

LEMMA OneMove ==
  ASSUME WorkflowInv, WorkflowInv', NEW i \in 1..MaxIncidents,
         i \in DOMAIN incidents', DOMAIN incidents' = DOMAIN incidents \cup {i},
         \A j \in DOMAIN incidents : j # i => incidents'[j] = incidents[j],
         NEW stage, NEW orders, NEW closings,
         CaseOfRecord(incidents'[i]) = [stage |-> stage, orders |-> orders, closings |-> closings]
  PROVE  Promised!Moves(i, stage, orders, closings)
<1>1. Cases' = [Cases EXCEPT ![i] = [stage |-> stage, orders |-> orders, closings |-> closings]]
  BY OneCase
<1>2. QED
  BY <1>1 DEF Promised!Moves, Cases

LEMMA GrowthRefines ==
  ASSUME WorkflowInv, WorkflowInv', Grows
  PROVE  Promised!Next
<1>1. PICK a, o, heard : SaveAnalysis(a, o, heard)
  BY DEF Grows
<1> DEFINE i == Len(incidents) + 1
           r == Proposed(a, o, heard)
<1>2. incidents \in Seq(Incident) /\ incidents' \in Seq(Incident) /\ MaxIncidents \in Nat
  BY WorkflowAssumption DEF WorkflowInv, WorkflowTypeOK, WorkflowAssumption
<1>3. DOMAIN incidents = 1..Len(incidents) /\ Len(incidents) \in Nat
      /\ DOMAIN incidents' = 1..Len(incidents')
  BY <1>2, LenProperties
<1>4. Len(incidents) < MaxIncidents /\ incidents' = Append(incidents, r)
  BY <1>1 DEF SaveAnalysis
<1>5. /\ DOMAIN incidents' = 1..i /\ incidents'[i] = r
      /\ \A j \in 1..Len(incidents) : incidents'[j] = incidents[j]
  <2> HIDE DEF r
  <2>1. QED
    BY <1>2, <1>3, <1>4
<1>6. i \in 1..MaxIncidents /\ i \notin DOMAIN incidents
      /\ DOMAIN incidents' = DOMAIN incidents \cup {i} /\ i \in DOMAIN incidents'
  BY <1>2, <1>3, <1>4, <1>5
<1>7. CaseOfRecord(r) = [stage |-> "proposed", orders |-> 0, closings |-> 0]
  BY DEF CaseOfRecord, Proposed
<1>8. Cases[i] = Unmade
  BY <1>6, CaseMeaning DEF CasesMean
<1> HIDE DEF i, r
<1>9. Promised!Moves(i, "proposed", 0, 0)
  BY <1>3, <1>5, <1>6, <1>7, OneMove
<1>10. Promised!Propose(i)
  BY <1>8, <1>9 DEF Promised!Propose, Cases, Unmade
<1>11. QED
  BY <1>6, <1>10 DEF Promised!Next

LEMMA DecisionRefines ==
  ASSUME WorkflowInv, WorkflowInv', Decide
  PROVE  Promised!Next \/ incidents' = incidents
<1>1. PICK i \in DOMAIN incidents :
             \/ Approve(i) \/ ApproveFails(i) \/ Reject(i) \/ RequestEvidence(i)
             \/ \E o \in Observations : Verify(i, o)
  BY DEF Decide
<1>2. incidents \in Seq(Incident) /\ incidents' \in Seq(Incident) /\ MaxIncidents \in Nat
      /\ Len(incidents) <= MaxIncidents
  BY WorkflowAssumption DEF WorkflowInv, WorkflowTypeOK, WorkflowAssumption
<1>3. DOMAIN incidents = 1..Len(incidents) /\ Len(incidents) \in Nat
  BY <1>2, LenProperties
<1>4. i \in 1..MaxIncidents /\ Cases[i] = CaseOfRecord(incidents[i])
  BY <1>2, <1>3, CaseMeaning DEF CasesMean
<1>5. incidents[i] \in Incident /\ Lawful(incidents[i])
  BY <1>2, <1>3, ElementOfSeq DEF WorkflowInv, AllLawful
<1>6. ASSUME NEW r, incidents' = [incidents EXCEPT ![i] = r],
             NEW stage, NEW orders, NEW closings,
             CaseOfRecord(r) = [stage |-> stage, orders |-> orders, closings |-> closings]
      PROVE  Promised!Moves(i, stage, orders, closings)
  <2>1. /\ incidents'[i] = r /\ DOMAIN incidents' = DOMAIN incidents
        /\ \A j \in DOMAIN incidents : j # i => incidents'[j] = incidents[j]
    BY <1>2, <1>3, <1>6
  <2>2. QED
    BY <1>4, <1>6, <2>1, OneMove
<1>7. CASE Approvable(i)
  <2>1. /\ incidents[i].status = "awaiting_approval" /\ incidents[i].order = "none"
        /\ incidents[i].closings = 0
    BY <1>5, <1>7 DEF Approvable, Lawful
  <2>2. Cases[i].stage = "proposed"
    BY <1>4, <2>1 DEF CaseOfRecord
  <2>3. CASE Approve(i)
    <3> DEFINE r == [incidents[i] EXCEPT !.status = "in_progress", !.order = "approved"]
    <3>1. incidents' = [incidents EXCEPT ![i] = r]
      BY <2>3 DEF Approve
    <3>2. CaseOfRecord(r) = [stage |-> "ordered", orders |-> 1, closings |-> 0]
      <4>1. r.status = "in_progress" /\ r.order = "approved" /\ r.closings = 0
        BY <1>5, <2>1 DEF Incident
      <4> HIDE DEF r
      <4>2. QED
        BY <4>1 DEF CaseOfRecord
    <3> HIDE DEF r
    <3>3. Promised!Moves(i, "ordered", 1, 0)
      BY <1>6, <3>1, <3>2
    <3>4. Promised!Order(i)
      BY <2>2, <3>3 DEF Promised!Order, Cases
    <3>5. QED
      BY <1>4, <3>4 DEF Promised!Next
  <2>4. CASE Reject(i) \/ RequestEvidence(i)
    <3>1. PICK s \in {"escalated", "reopened"} : incidents' = [incidents EXCEPT ![i].status = s]
      BY <2>4 DEF Reject, RequestEvidence
    <3> DEFINE r == [incidents[i] EXCEPT !.status = s]
    <3>2. incidents' = [incidents EXCEPT ![i] = r]
      BY <3>1
    <3>3. CaseOfRecord(r) = [stage |-> "refused", orders |-> 0, closings |-> 0]
      <4>1. r.status = s /\ r.order = "none" /\ r.closings = 0
        BY <1>5, <2>1 DEF Incident
      <4> HIDE DEF r
      <4>2. QED
        BY <4>1 DEF CaseOfRecord
    <3> HIDE DEF r
    <3>4. Promised!Moves(i, "refused", 0, 0)
      BY <1>6, <3>2, <3>3
    <3>5. Promised!Refuse(i)
      BY <2>2, <3>4 DEF Promised!Refuse, Cases
    <3>6. QED
      BY <1>4, <3>5 DEF Promised!Next
  <2>5. CASE ApproveFails(i)
    BY <2>5 DEF ApproveFails
  <2>6. CASE \E o \in Observations : Verify(i, o)
    BY <2>1, <2>6 DEF Verify, Verifiable
  <2>7. QED
    BY <1>1, <2>3, <2>4, <2>5, <2>6
<1>8. CASE ~Approvable(i)
  <2>1. PICK o \in Observation : Verify(i, o)
    BY <1>1, <1>8, WorkflowAssumption
    DEF Approve, Reject, RequestEvidence, ApproveFails, WorkflowAssumption
  <2> DEFINE n == incidents[i].closings
  <2>2. /\ Cases[i].stage \in {"ordered", "closed", "returned"} /\ Cases[i].closings = n
        /\ Raised(incidents[i])
    <3>1. incidents[i].order # "none"
      BY <2>1 DEF Verify, Verifiable
    <3>2. /\ Raised(incidents[i])
          /\ \/ incidents[i].order = "approved" /\ incidents[i].status = "in_progress"
             \/ incidents[i].order = "completed" /\ incidents[i].status = "resolved"
             \/ incidents[i].order = "reopened" /\ incidents[i].status = "reopened"
      BY <1>5, <3>1, SMT DEF Lawful, Raised
    <3>3. QED
      BY <1>4, <3>2 DEF CaseOfRecord
  <2>3. n \in Nat /\ incidents[i].baseline \in Nat
    BY <1>5, Fields
  <2>4. CASE Passes(incidents[i].baseline, o)
    <3> DEFINE h == HealthScore(o)
               r == [incidents[i] EXCEPT !.status = "resolved", !.order = "completed",
                                         !.baseline = h, !.closings = n + 1]
    <3>1. incidents' = [incidents EXCEPT ![i] = r]
      BY <2>1, <2>4 DEF Verify
    <3>2. CaseOfRecord(r) = [stage |-> "closed", orders |-> 1, closings |-> n + 1]
      <4> HIDE DEF h, n
      <4>1. r.status = "resolved" /\ r.order = "completed" /\ r.closings = n + 1
        BY <1>5 DEF Incident
      <4> HIDE DEF r
      <4>2. QED
        BY <4>1 DEF CaseOfRecord
    <3>3. incidents[i].baseline < 900
      BY <2>3, <2>4, PassingRaises
    <3>4. n < 2
      BY <2>2, <2>3, <3>3, SMT DEF Raised
    <3> HIDE DEF r, h
    <3>5. Promised!Moves(i, "closed", 1, n + 1)
      BY <1>6, <3>1, <3>2
    <3>6. Promised!Close(i)
      BY <2>2, <3>4, <3>5 DEF Promised!Close, Promised!Worked, Cases
    <3>7. QED
      BY <1>4, <3>6 DEF Promised!Next
  <2>5. CASE ~Passes(incidents[i].baseline, o)
    <3> DEFINE r == [incidents[i] EXCEPT !.status = "reopened", !.order = "reopened"]
    <3>1. incidents' = [incidents EXCEPT ![i] = r]
      BY <2>1, <2>5 DEF Verify
    <3>2. CaseOfRecord(r) = [stage |-> "returned", orders |-> 1, closings |-> n]
      <4>1. r.status = "reopened" /\ r.order = "reopened" /\ r.closings = n
        BY <1>5 DEF Incident
      <4> HIDE DEF r, n
      <4>2. QED
        BY <4>1 DEF CaseOfRecord
    <3> HIDE DEF r
    <3>3. Promised!Moves(i, "returned", 1, n)
      BY <1>6, <3>1, <3>2
    <3>4. Promised!Return(i)
      BY <2>2, <3>3 DEF Promised!Return, Promised!Worked, Cases
    <3>5. QED
      BY <1>4, <3>4 DEF Promised!Next
  <2>6. QED
    BY <2>4, <2>5
<1>9. QED
  BY <1>7, <1>8

LEMMA ResetRefines ==
  ASSUME WorkflowInv, WorkflowInv', ResetDemo
  PROVE  Promised!Next
<1>1. /\ Len(incidents') = Len(incidents)
      /\ \A i \in DOMAIN incidents : /\ incidents'[i].status = "deleted"
                                     /\ incidents'[i].order = "none"
                                     /\ incidents'[i].closings = 0
  BY WorkflowAssumption, ResetKeeps
<1>2. DOMAIN incidents' = DOMAIN incidents
  BY DEF ResetDemo
<1>3. CasesMean /\ CasesMean'
  BY CaseMeaning, PTL
<1> DEFINE forgotten == [stage |-> "forgotten", orders |-> 0, closings |-> 0]
<1>4. \A i \in DOMAIN incidents : CaseOfRecord(incidents'[i]) = forgotten
  BY <1>1 DEF CaseOfRecord
<1>5. \A i \in DOMAIN incidents : CaseOfRecord(incidents[i]).stage # "unknown"
  BY DEF CaseOfRecord
<1> HIDE DEF forgotten
<1>6. \A i \in 1..MaxIncidents :
        Cases'[i] = IF Cases[i].stage = "unknown" THEN Cases[i] ELSE forgotten
  <2> SUFFICES ASSUME NEW i \in 1..MaxIncidents
               PROVE  Cases'[i] = IF Cases[i].stage = "unknown" THEN Cases[i] ELSE forgotten
    OBVIOUS
  <2>1. CASE i \in DOMAIN incidents
    BY <1>2, <1>3, <1>4, <1>5, <2>1 DEF CasesMean, CaseOfRecord
  <2>2. CASE i \notin DOMAIN incidents
    BY <1>2, <1>3, <2>2 DEF CasesMean, Unmade
  <2>3. QED
    BY <2>1, <2>2
<1>7. Cases' = [i \in 1..MaxIncidents |-> IF Cases[i].stage = "unknown" THEN Cases[i] ELSE forgotten]
  <2>1. Cases' = [i \in 1..MaxIncidents |-> Cases'[i]]
    BY DEF Cases
  <2>2. QED
    BY <1>6, <2>1
<1>8. Promised!Reset
  BY <1>7 DEF Promised!Reset, Cases, forgotten
<1>9. QED
  BY <1>8 DEF Promised!Next

(* Whatever people decide and whatever fails, every incident keeps to       *)
(* IncidentLifecycle: one order, only after an approval, and at most two    *)
(* closings (orchestrator.py:226-390, verification.py:11-28).               *)
THEOREM WorkflowRefinement == Spec => ImplementsLifecycle
<1>1. Init => Promised!Init
  <2> SUFFICES ASSUME Init PROVE Promised!Init
    OBVIOUS
  <2>1. WorkflowInv /\ incidents = <<>>
    BY AssumptionsHold, Initially DEF IInv, PlantInv, Init, WorkflowInit
  <2>2. \A i \in 1..MaxIncidents : Cases[i] = Unmade
    BY <2>1, CaseMeaning DEF CasesMean
  <2>3. Cases = [i \in 1..MaxIncidents |-> Cases[i]]
    BY DEF Cases
  <2>4. Cases = [i \in 1..MaxIncidents |-> Unmade]
    BY <2>2, <2>3
  <2>5. QED
    BY <2>4 DEF Promised!Init, Cases, Unmade
<1>2. IInv /\ IInv' /\ [Next]_vars => [Promised!Next]_Cases
  <2> SUFFICES ASSUME IInv, IInv', [Next]_vars
               PROVE  Promised!Next \/ Cases' = Cases
    OBVIOUS
  <2>1. WorkflowInv /\ WorkflowInv'
    BY DEF IInv, PlantInv
  <2>2. CASE incidents' = incidents
    <3>1. CasesMean /\ CasesMean'
      BY <2>1, CaseMeaning, PTL
    <3>2. \A i \in 1..MaxIncidents : Cases'[i] = Cases[i]
      BY <2>2, <3>1 DEF CasesMean, CaseOfRecord, Unmade
    <3>3. /\ Cases = [i \in 1..MaxIncidents |-> Cases[i]]
          /\ Cases' = [i \in 1..MaxIncidents |-> Cases'[i]]
      BY DEF Cases
    <3>4. QED
      BY <3>2, <3>3
  <2>3. CASE Grows
    BY <2>1, <2>3, GrowthRefines
  <2>4. CASE Decide
    BY <2>1, <2>2, <2>4, DecisionRefines
  <2>5. CASE ResetDemo
    BY <2>1, <2>5, ResetRefines
  <2>6. QED
    BY <2>2, <2>3, <2>4, <2>5, StepsOfIncidents
<1>3. [Promised!Next]_Cases => [Promised!Next]_([i \in 1..MaxIncidents |-> CaseOf(i)])
  BY DEF Cases
<1>4. QED
  BY <1>1, <1>2, <1>3, Invariance, PTL DEF Spec, ImplementsLifecycle, Promised!Spec

-----------------------------------------------------------------------------
(* What the agents and the cutting of a file promise for every input       *)

(* A machine is called unsafe to people only when running on is critical:   *)
(* heat, a fast shaft and poor evidence together do not suffice             *)
(* (agents/safety.py:13-61).                                                *)
THEOREM UnsafeOnlyIfCritical ==
  ASSUME NEW o, NEW fast \in BOOLEAN, SafetyRisk(o, fast) = "critical"
  PROVE  ContinuationRisk(o) = "critical"
<1> DEFINE S == SafetyHazards(o, fast) \cap {"hot surface", "ejection"}
           n == Cardinality(S)
           wear == CASE ContinuationRisk(o) = "high" -> 10
                     [] ContinuationRisk(o) = "critical" -> 18
                     [] OTHER -> 0
           doubt == IF NeedsMoreEvidence(o) THEN 5 ELSE 0
<1>1. n \in Nat /\ n <= 2
  <2> DEFINE A == {"ejection"}
             B == A \cup {"hot surface"}
  <2>1. IsFiniteSet(A) /\ Cardinality(A) = 1 /\ "hot surface" \notin A
    BY FS_Singleton
  <2>2. S \in SUBSET B
    OBVIOUS
  <2> HIDE DEF A, S
  <2>3. IsFiniteSet(B) /\ Cardinality(B) = Cardinality(A) + 1
    BY <2>1, FS_AddElement
  <2> HIDE DEF B
  <2>4. IsFiniteSet(S) /\ Cardinality(S) <= Cardinality(B)
    BY <2>2, <2>3, FS_Subset
  <2>5. Cardinality(S) \in Nat
    BY <2>4, FS_CardinalityType
  <2>6. Cardinality(B) = 1 + 1
    BY <2>1, <2>3, Zenon
  <2> HIDE DEF n
  <2>7. n = Cardinality(S)
    BY DEF n
  <2>8. Cardinality(B) \in Nat /\ Cardinality(B) <= 2
    BY <2>6
  <2>9. QED
    BY <2>4, <2>5, <2>7, <2>8
<1>2. SafetyScore(o, fast) = 88 - 8 * n - wear - doubt
  BY DEF SafetyScore
<1>3. SafetyScore(o, fast) < 55
  BY DEF SafetyRisk
<1>4. doubt \in {0, 5} /\ wear \in {0, 10, 18}
      /\ (ContinuationRisk(o) # "critical" => wear \in {0, 10})
  OBVIOUS
<1> HIDE DEF n, wear, doubt
<1>5. QED
  BY <1>1, <1>2, <1>3, <1>4

(* A frame that is refused says why: one of its warnings is set             *)
(* (analysis/quality.py:13-120).                                            *)
THEOREM RefusalIsExplained ==
  ASSUME NEW x \in Signals, ~Accepted(x)
  PROVE  Warnings(x) # {}
<1> SUFFICES ASSUME Warnings(x) = {} PROVE FALSE
  OBVIOUS
<1> DEFINE n1 == x.clipping
           n2 == x.dropout
           n3 == x.dc
           n4 == x.bits
<1>1. /\ n1 \in Shares /\ n2 \in Shares /\ n3 \in Shares /\ n4 \in Nat
  BY DEF Signals
<1>2. n1 \in Nat /\ n2 \in Nat /\ n3 \in Nat
  <2>1. \A n : n \in Shares => n \in Nat
    BY SMT DEF Shares
  <2> HIDE DEF n1, n2, n3, n4
  <2>2. QED
    BY <1>1, <2>1, Zenon
<1>3. /\ ~(n1 > 10) /\ ~(n2 > 80) /\ ~(n3 > 400) /\ ~(n4 < 80)
      /\ ~Noisy(x) /\ ~Impulsive(x) /\ ~OrderMismatch(x)
  BY Zenon DEF Warnings
<1>4. Penalty(x) = Smaller(45000, 400 * n1) + Smaller(45000, 220 * n2) + Smaller(25000, 30 * n3)
                   + 0 + 0 + 0 + 0
  BY <1>3, SMT DEF Penalty
<1> HIDE DEF n1, n2, n3, n4
<1>5. Penalty(x) \in Nat /\ Penalty(x) <= 33600
  BY <1>1, <1>2, <1>3, <1>4, SMT DEF Smaller
<1>6. Score(x) >= 45000
  BY <1>5, SMT DEF Score, Larger
<1>7. QED
  BY <1>6 DEF Accepted

(* A file is analysed whole: with a hop not longer than the window, every   *)
(* sample is in one of the windows (analysis/service.py:267-269).           *)
THEOREM EverySampleAnalysed ==
  ASSUME NEW length \in Nat, NEW window \in Nat, NEW hop \in Nat, hop > 0, hop <= window,
         NEW n \in Nat, n < length
  PROVE  \E s \in Starts(length, window, hop) : s <= n /\ n < s + window
<1> DEFINE L == LastStart(length, window)
           top == L \div hop
           k == n \div hop
<1>1. L \in Nat /\ length <= L + window
  BY DEF LastStart
<1> HIDE DEF L
<1>2. \A m \in Nat : /\ m \div hop \in Nat
                     /\ (m \div hop) * hop <= m
                     /\ m < (m \div hop) * hop + hop
  BY SMT
<1>3. top \in Nat /\ top * hop <= L /\ L < top * hop + hop
  BY <1>1, <1>2
<1>4. k \in Nat /\ k * hop <= n /\ n < k * hop + hop
  BY <1>2
<1> HIDE DEF top, k
<1>5. RegularStarts(length, window, hop) = {j * hop : j \in 0..top}
  BY DEF RegularStarts, top, L
<1>6. CASE k <= top
  <2>1. k \in 0..top
    BY <1>3, <1>4, <1>6
  <2>2. k * hop \in Starts(length, window, hop)
    BY <1>5, <2>1, Zenon DEF Starts
  <2>3. k * hop \in Int /\ hop \in Int /\ window \in Int
    BY <1>4, SMT
  <2>4. k * hop <= n /\ n < k * hop + window
    BY <1>4, <2>3, SMT
  <2>5. QED
    BY <2>2, <2>4
<1>7. CASE k > top
  <2>1. top * hop + hop <= k * hop
    BY <1>3, <1>4, <1>7, SMT
  <2>2. top * hop + hop <= n
    BY <1>3, <1>4, <2>1
  <2>3. CASE ReachesEnd(length, window, hop)
    <3>1. PICK j \in 0..top : j * hop + window >= length
      BY <1>5, <2>3 DEF ReachesEnd
    <3>2. j * hop <= top * hop /\ j * hop \in Nat /\ top * hop \in Nat
      BY <1>3, SMT
    <3>3. top * hop + window > n
      BY <3>1, <3>2
    <3>4. top * hop \in Starts(length, window, hop)
      BY <1>3, <1>5 DEF Starts
    <3>5. QED
      BY <1>3, <2>2, <3>2, <3>3, <3>4
  <2>4. CASE ~ReachesEnd(length, window, hop)
    <3>1. L \in Starts(length, window, hop)
      BY <2>4 DEF Starts, L
    <3>2. L <= n /\ n < L + window
      BY <1>1, <1>3, <2>2, SMT
    <3>3. QED
      BY <3>1, <3>2
  <2>5. QED
    BY <2>3, <2>4
<1>8. QED
  BY <1>3, <1>4, <1>6, <1>7

-----------------------------------------------------------------------------
(* Which column of a recording is its signal *)

(* Where neither a similar name competes with a position, the edge node     *)
(* reads the samples the server reads of the same file, if the server       *)
(* accepts it (analysis/service.py:393-532, csv_adapter.py:66-183).         *)
THEOREM ReadersAgree ==
  ASSUME NEW file, NEW request,
         ServerSamples(file, request) # {},
         Blank(request) \/ ~Competing(Headers(Rows(file)), request)
  PROVE  EdgeSamples(file, request) = ServerSamples(file, request)
<1> DEFINE rows == Rows(file)
           headers == Headers(rows)
<1>1. EdgeColumn(rows, request) = ServerColumn(rows, request)
  <2>1. CASE Blank(request)
    BY <2>1 DEF EdgeColumn, ServerColumn
  <2>2. CASE ~Blank(request)
    <3>1. \/ Exact(headers, request) # {}
          \/ Folded(headers, request) = {}
          \/ Indexed(headers, request) = {}
      BY <2>2 DEF Competing
    <3> HIDE DEF headers
    <3>2. EdgeRequested(headers, request) = ServerRequested(headers, request)
      BY <3>1 DEF EdgeRequested, ServerRequested
    <3>3. QED
      BY <2>2, <3>2 DEF EdgeColumn, ServerColumn, headers
  <2>3. QED
    BY <2>1, <2>2
<1> DEFINE column == ServerColumn(rows, request)
<1> HIDE DEF headers, rows, column
<1>2. /\ ~Unreadable(rows) /\ column # 0
      /\ ServerSamples(file, request) = Numbers(rows, column)
  BY DEF ServerSamples, rows, column
<1>3. EdgeSamples(file, request) = Numbers(rows, column)
  BY <1>1, <1>2 DEF EdgeSamples, rows, column
<1>4. QED
  BY <1>2, <1>3

LEMMA CountIsNumber ==
  ASSUME NEW T, NEW rows \in Seq(T), rows # <<>>, NEW column
  PROVE  Count(rows, column) \in Nat /\ Count(rows, column) <= Len(Data(rows))
         /\ Len(Data(rows)) \in Nat
<1>1. Data(rows) \in Seq(T)
  BY HeadTailProperties DEF Data
<1>2. Len(Data(rows)) \in Nat /\ DOMAIN Data(rows) = 1..Len(Data(rows))
  BY <1>1, LenProperties
<1> DEFINE n == Len(Data(rows))
<1>3. IsFiniteSet(1..n) /\ Cardinality(1..n) = n
  <2> HIDE DEF n
  <2>1. 1 \in Int /\ n \in Int /\ n \in Nat
    BY <1>2 DEF n
  <2>2. IsFiniteSet(1..n) /\ Cardinality(1..n) = IF 1 > n THEN 0 ELSE n - 1 + 1
    BY <2>1, FS_Interval
  <2>3. QED
    BY <2>1, <2>2
<1>4. Numbers(rows, column) \subseteq 1..Len(Data(rows))
  BY <1>2 DEF Numbers
<1>5. /\ IsFiniteSet(Numbers(rows, column))
      /\ Cardinality(Numbers(rows, column)) <= Cardinality(1..Len(Data(rows)))
  BY <1>3, <1>4, FS_Subset
<1>6. QED
  BY <1>2, <1>3, <1>5, FS_CardinalityType DEF Count

(* Among finitely many numbers there is a largest, and a last of these.     *)
LEMMA LastLargest ==
  ASSUME NEW width \in Nat, width # 0, NEW most \in Nat, NEW c,
         \A j \in 1..width : c[j] \in Nat /\ c[j] <= most
  PROVE  \E i \in 1..width : \A j \in 1..width : c[j] < c[i] \/ (c[j] = c[i] /\ j <= i)
<1> DEFINE Lack == {most - c[j] : j \in 1..width}
<1>1. Lack \subseteq Nat
  OBVIOUS
<1>2. most - c[1] \in Lack
  OBVIOUS
<1>3. PICK least \in Lack : \A x \in Lack : least <= x
  BY <1>1, <1>2, FirstOf
<1>4. PICK first \in 1..width : least = most - c[first]
  BY <1>3
<1>5. \A j \in 1..width : c[j] <= c[first]
  <2> SUFFICES ASSUME NEW j \in 1..width PROVE c[j] <= c[first]
    OBVIOUS
  <2>1. most - c[j] \in Lack
    OBVIOUS
  <2>2. most - c[first] <= most - c[j]
    BY <1>3, <1>4, <2>1
  <2>3. QED
    BY <2>2
<1> DEFINE Right == {width - i : i \in {k \in 1..width : c[k] = c[first]}}
<1>6. Right \subseteq Nat /\ width - first \in Right
  OBVIOUS
<1>7. PICK right \in Right : \A x \in Right : right <= x
  BY <1>6, FirstOf
<1>8. PICK top \in 1..width : c[top] = c[first] /\ right = width - top
  BY <1>7
<1>9. ASSUME NEW j \in 1..width
      PROVE  c[j] < c[top] \/ (c[j] = c[top] /\ j <= top)
  <2>1. CASE c[j] = c[first]
    <3>1. width - j \in Right
      BY <2>1
    <3>2. width - top <= width - j
      BY <1>7, <1>8, <3>1
    <3>3. QED
      BY <1>8, <2>1, <3>2
  <2>2. CASE c[j] # c[first]
    BY <1>5, <1>8, <2>2
  <2>3. QED
    BY <2>1, <2>2
<1>10. QED
  BY <1>9

LEMMA FullestIsFullest ==
  ASSUME NEW T, NEW rows \in Seq(Seq(T)), rows # <<>>, rows[1] # <<>>
  PROVE  Fullest(rows) \in DOMAIN rows[1]
         /\ \A j \in DOMAIN rows[1] : Count(rows, j) <= Count(rows, Fullest(rows))
<1> DEFINE width == Len(rows[1])
           most == Len(Data(rows))
           c == [j \in 1..width |-> Count(rows, j)]
<1>1. width \in Nat /\ width # 0 /\ DOMAIN rows[1] = 1..width
  <2>1. rows[1] \in Seq(T)
    BY ElementOfSeq, LenProperties, EmptySeq
  <2>2. QED
    BY <2>1, LenProperties, EmptySeq
<1>2. most \in Nat /\ \A j : Count(rows, j) \in Nat /\ Count(rows, j) <= most
  BY CountIsNumber
<1> HIDE DEF width, most
<1>3. \A j \in 1..width : c[j] = Count(rows, j)
  OBVIOUS
<1> HIDE DEF c
<1>4. \E i \in 1..width : \A j \in 1..width : c[j] < c[i] \/ (c[j] = c[i] /\ j <= i)
  <2>1. \A j \in 1..width : c[j] \in Nat /\ c[j] <= most
    BY <1>2, <1>3
  <2>2. QED
    BY <1>1, <1>2, <2>1, LastLargest
<1>5. \E i \in DOMAIN rows[1] : \A j \in DOMAIN rows[1] :
         \/ Count(rows, j) < Count(rows, i)
         \/ Count(rows, j) = Count(rows, i) /\ j <= i
  BY <1>1, <1>3, <1>4
<1> DEFINE full == Fullest(rows)
<1>6. full \in DOMAIN rows[1]
      /\ \A j \in DOMAIN rows[1] : \/ Count(rows, j) < Count(rows, full)
                                   \/ Count(rows, j) = Count(rows, full) /\ j <= full
  BY <1>5 DEF Fullest
<1> HIDE DEF full
<1>7. ASSUME NEW j \in DOMAIN rows[1]
      PROVE  Count(rows, j) <= Count(rows, full)
  <2>1. Count(rows, j) \in Nat /\ Count(rows, full) \in Nat
    BY <1>2
  <2>2. Count(rows, j) < Count(rows, full) \/ Count(rows, j) = Count(rows, full)
    BY <1>6
  <2>3. QED
    BY <2>1, <2>2
<1>8. QED
  BY <1>6, <1>7 DEF full

(* The column chosen when none is asked for has a number, for any file with *)
(* a row (analysis/service.py:476-506, csv_adapter.py:131-155): a preferred *)
(* name over an empty column does not win.                                  *)
THEOREM AutomaticHasNumbers ==
  ASSUME NEW T, NEW rows \in Seq(Seq(T)), rows # <<>>, rows[1] # <<>>,
         Automatic(rows) # 0
  PROVE  Automatic(rows) \in DOMAIN rows[1] /\ Count(rows, Automatic(rows)) > 0
<1>1. CASE Usable(rows) # {}
  <2> DEFINE k == Leftmost(Usable(rows))
             named == Named(rows, Preferred[k])
  <2>1. Usable(rows) \subseteq Nat
    BY DEF Usable, Preferred
  <2>2. k \in Usable(rows)
    BY <1>1, <2>1, FirstOf DEF Leftmost
  <2>3. named # {} /\ Count(rows, Leftmost(named)) > 0
    BY <2>2 DEF Usable
  <2>4. named \subseteq DOMAIN rows[1] /\ named \subseteq Nat
    <3>1. rows[1] \in Seq(T)
      BY ElementOfSeq, LenProperties, EmptySeq
    <3>2. QED
      BY <3>1, LenProperties DEF Named
  <2> HIDE DEF named, k
  <2>5. Leftmost(named) \in named
    BY <2>3, <2>4, FirstOf DEF Leftmost
  <2>6. Automatic(rows) = Leftmost(named)
    BY <1>1 DEF Automatic, named, k
  <2>7. QED
    BY <2>3, <2>4, <2>5, <2>6
<1>2. CASE Usable(rows) = {}
  <2>1. PICK i \in DOMAIN rows[1] : Count(rows, i) # 0
    BY <1>2 DEF Automatic
  <2>2. Automatic(rows) = Fullest(rows)
    BY <1>2, <2>1 DEF Automatic
  <2>3. /\ Fullest(rows) \in DOMAIN rows[1]
        /\ Count(rows, i) <= Count(rows, Fullest(rows))
    BY <2>1, FullestIsFullest
  <2>4. Count(rows, i) \in Nat /\ Count(rows, Fullest(rows)) \in Nat
    BY CountIsNumber
  <2>5. QED
    BY <2>1, <2>2, <2>3, <2>4
<1>3. QED
  BY <1>1, <1>2

(* The edge node leaves out less than a hop at the end of a recording       *)
(* (bench_client.py:160-180).                                               *)
THEOREM EdgeLeavesOutATail ==
  ASSUME NEW length \in Nat, NEW window \in Nat, NEW hop \in Nat, hop > 0, hop <= window,
         NEW n \in Nat, n < length, n + hop <= length
  PROVE  \E s \in EdgeStarts(length, window, hop) : s <= n /\ n < s + window
<1> DEFINE L == LastStart(length, window)
           top == L \div hop
           k == n \div hop
<1>1. L \in Nat /\ length <= L + window
  BY DEF LastStart
<1> HIDE DEF L
<1>2. \A m \in Nat : /\ m \div hop \in Nat
                     /\ (m \div hop) * hop <= m
                     /\ m < (m \div hop) * hop + hop
  BY SMT
<1>3. top \in Nat /\ top * hop <= L /\ L < top * hop + hop
  BY <1>1, <1>2
<1>4. k \in Nat /\ k * hop <= n /\ n < k * hop + hop
  BY <1>2
<1> HIDE DEF top, k
<1>5. EdgeStarts(length, window, hop) = {j * hop : j \in 0..top}
  BY DEF EdgeStarts, RegularStarts, top, L
<1>6. CASE k <= top
  <2>1. k * hop \in EdgeStarts(length, window, hop)
    BY <1>3, <1>4, <1>5, <1>6
  <2>2. k * hop \in Int /\ hop \in Int /\ window \in Int
    BY <1>4, SMT
  <2>3. k * hop <= n /\ n < k * hop + window
    BY <1>4, <2>2, SMT
  <2>4. QED
    BY <2>1, <2>3
<1>7. CASE k > top
  <2>1. top * hop + hop <= k * hop
    BY <1>3, <1>4, <1>7, SMT
  <2>2. top * hop \in Nat /\ k * hop \in Nat
    BY <1>3, <1>4, SMT
  <2>3. top * hop <= n
    BY <1>4, <2>1, <2>2
  <2>4. n < top * hop + window
    BY <1>1, <1>3, <2>2
  <2>5. top * hop \in EdgeStarts(length, window, hop)
    BY <1>3, <1>5
  <2>6. QED
    BY <2>3, <2>4, <2>5
<1>8. QED
  BY <1>3, <1>4, <1>6, <1>7

-----------------------------------------------------------------------------
(* The gateway's counters: with several requests of one node in the await,   *)
(* a rollback may return to a number that a failed frame had.  No stored     *)
(* frame and no other reservation lies between a reservation and the number  *)
(* before it, so the rollback stays above all of them.                       *)

Reached(l, f) == l[f.node] # None /\ f.sequence <= l[f.node]

Apart(r, g) ==
  g.node = r.frame.node =>
    \/ g.sequence > r.frame.sequence
    \/ r.previous # None /\ g.sequence <= r.previous /\ g.sequence < r.frame.sequence

Counts(n, a, i, c) ==
  c[n] = Cardinality(FramesOf(n, a)) + Cardinality({r \in i : r.frame.node = n})

\* What holds of numbers l, answers a, reservations i and counters c.
Books(l, a, i, c) ==
  /\ l \in [Nodes -> Sequences \cup {None}] /\ c \in [Nodes -> Nat]
  /\ a \subseteq Frame /\ i \subseteq Reservation /\ IsFiniteSet(a) /\ IsFiniteSet(i)
  /\ \A g \in a : Reached(l, g)
  /\ \A r \in i :
       /\ Reached(l, r.frame)
       /\ \A p \in i : p # r => Apart(r, p.frame)
       /\ \A g \in a : Apart(r, g)
  /\ \A n \in Nodes : Counts(n, a, i, c)

LEMMA FrameNumbers ==
  ASSUME NEW f \in Frame
  PROVE  f.node \in Nodes /\ f.sequence \in Nat /\ f.sequence \in Sequences
BY GatewayAssumption DEF Frame, Sequences

LEMMA LastNumbers ==
  ASSUME NEW l \in [Nodes -> Sequences \cup {None}], NEW n \in Nodes
  PROVE  l[n] \in Sequences \cup {None} /\ (l[n] # None => l[n] \in Nat)
BY GatewayAssumption DEF Sequences

LEMMA ReservationFields ==
  ASSUME NEW r \in Reservation
  PROVE  r.frame \in Frame /\ r.previous \in Sequences \cup {None}
         /\ (r.previous # None => r.previous \in Nat)
BY GatewayAssumption DEF Reservation, Sequences

\* One more reservation, of a frame above the last number of its node.
LEMMA ReservingKeepsBooks ==
  ASSUME NEW l, NEW a, NEW i, NEW c, Books(l, a, i, c), NEW f \in Frame,
         l[f.node] # None => f.sequence > l[f.node]
  PROVE  Books([l EXCEPT ![f.node] = f.sequence], a,
               i \cup {[frame |-> f, previous |-> l[f.node]]}, [c EXCEPT ![f.node] = @ + 1])
<1> DEFINE n == f.node
           m == f.sequence
           x == [frame |-> f, previous |-> l[n]]
           k == [l EXCEPT ![n] = m]
           j == i \cup {x}
           d == [c EXCEPT ![n] = @ + 1]
<1>1. /\ l \in [Nodes -> Sequences \cup {None}] /\ c \in [Nodes -> Nat]
      /\ a \subseteq Frame /\ i \subseteq Reservation /\ IsFiniteSet(a) /\ IsFiniteSet(i)
      /\ \A g \in a : Reached(l, g)
      /\ \A r \in i : Reached(l, r.frame)
      /\ \A r \in i, p \in i : p # r => Apart(r, p.frame)
      /\ \A r \in i, g \in a : Apart(r, g)
  BY DEF Books
<1>2. n \in Nodes /\ m \in Nat /\ m \in Sequences /\ (l[n] # None => l[n] \in Nat /\ m > l[n])
      /\ l[n] \in Sequences \cup {None}
  BY <1>1, FrameNumbers, LastNumbers
<1>3. x.frame = f /\ x.previous = l[n] /\ x \in Reservation
  BY <1>2, ReservationType
<1>4. k \in [Nodes -> Sequences \cup {None}] /\ d \in [Nodes -> Nat] /\ j \subseteq Reservation
  BY <1>1, <1>2, <1>3
<1>5. k[n] = m /\ \A o \in Nodes : o # n => k[o] = l[o]
  BY <1>1, <1>2
<1> HIDE DEF x, k, n, m
<1>6. m # None
  BY <1>2, GatewayAssumption
<1>7. ASSUME NEW g \in Frame, Reached(l, g)
      PROVE  Reached(k, g) /\ Apart(x, g) /\ (g.node = n => g.sequence < m)
  <2>1. g.node \in Nodes /\ g.sequence \in Nat
    BY FrameNumbers
  <2>2. CASE g.node # n
    BY <1>3, <1>5, <1>7, <2>1, <2>2 DEF Reached, Apart, n
  <2>3. CASE g.node = n
    <3>1. l[n] # None /\ g.sequence <= l[n] /\ l[n] \in Nat /\ m > l[n]
      BY <1>2, <1>7, <2>3 DEF Reached
    <3>2. g.sequence < m
      BY <1>2, <2>1, <3>1
    <3>3. QED
      BY <1>2, <1>3, <1>5, <1>6, <2>1, <2>3, <3>1, <3>2 DEF Reached, Apart, n, m
  <2>4. QED
    BY <2>2, <2>3
<1>8. Reached(k, f)
  BY <1>2, <1>5, <1>6 DEF Reached, n, m
<1>9. ASSUME NEW r \in i
      PROVE  Reached(k, r.frame) /\ Apart(x, r.frame) /\ Apart(r, f)
  <2>1. r.frame \in Frame /\ Reached(l, r.frame)
    BY <1>1, ReservationFields
  <2>2. r.frame.sequence \in Nat
    BY <2>1, FrameNumbers
  <2>3. Apart(r, f)
    BY <1>2, <1>7, <2>1, <2>2 DEF Apart, n, m
  <2>4. QED
    BY <1>7, <2>1, <2>3
<1>10. x \notin i
  <2> SUFFICES ASSUME x \in i PROVE FALSE
    OBVIOUS
  <2>1. f.sequence < m
    BY <1>1, <1>3, <1>7 DEF n
  <2>2. QED
    BY <1>2, <2>1 DEF m
<1>11. IsFiniteSet(j)
  BY <1>1, FS_AddElement
<1>12. ASSUME NEW o \in Nodes PROVE Counts(o, a, j, d)
  <2> DEFINE S == {r \in i : r.frame.node = o}
             T == {r \in j : r.frame.node = o}
  <2>1. c[o] = Cardinality(FramesOf(o, a)) + Cardinality(S)
    BY <1>12 DEF Books, Counts
  <2>2. IsFiniteSet(S) /\ IsFiniteSet(FramesOf(o, a))
    BY <1>1, FS_Subset DEF FramesOf
  <2>3. Cardinality(S) \in Nat /\ Cardinality(FramesOf(o, a)) \in Nat
    BY <2>2, FS_CardinalityType
  <2>4. CASE o # n
    <3>1. T = S
      BY <1>3, <2>4 DEF n
    <3>2. d[o] = c[o]
      BY <1>1, <1>2, <2>4
    <3>3. QED
      BY <2>1, <3>1, <3>2 DEF Counts
  <2>5. CASE o = n
    <3>1. T = S \cup {x} /\ x \notin S
      BY <1>3, <1>10, <2>5 DEF n
    <3>2. Cardinality(T) = Cardinality(S) + 1
      BY <2>2, <3>1, FS_AddElement
    <3>3. d[o] = c[o] + 1
      BY <1>1, <1>2, <2>5
    <3> DEFINE cs == Cardinality(S)
               ct == Cardinality(T)
               ca == Cardinality(FramesOf(o, a))
    <3>4. cs \in Nat /\ ca \in Nat /\ ct = cs + 1 /\ c[o] = ca + cs
      BY <2>1, <2>3, <3>2
    <3> HIDE DEF cs, ct, ca
    <3>5. d[o] = ca + ct
      BY <3>3, <3>4
    <3>6. QED
      BY <3>5 DEF Counts, ca, ct
  <2>6. QED
    BY <2>4, <2>5
<1>13. Books(k, a, j, d)
  <2> HIDE DEF d
  <2>1. \A g \in a : Reached(k, g) /\ Apart(x, g)
    BY <1>1, <1>7
  <2>2. \A r \in j : Reached(k, r.frame)
    BY <1>3, <1>8, <1>9
  <2>3. \A r \in j, p \in j : p # r => Apart(r, p.frame)
    BY <1>1, <1>3, <1>9
  <2>4. \A r \in j, g \in a : Apart(r, g)
    BY <1>1, <2>1
  <2> HIDE DEF j
  <2>5. QED
    BY <1>1, <1>4, <1>11, <1>12, <2>1, <2>2, <2>3, <2>4 DEF Books
<1>14. QED
  BY <1>13 DEF k, j, d, x, n, m

\* A reservation that becomes an answer.
LEMMA AnsweringKeepsBooks ==
  ASSUME NEW l, NEW a, NEW i, NEW c, Books(l, a, i, c), NEW r \in i
  PROVE  /\ Books(l, a \cup {r.frame}, i \ {r}, c)
         /\ {g \in a : ~SameKey(g, r.frame)} = a
<1> DEFINE f == r.frame
           b == a \cup {f}
           j == i \ {r}
<1>1. /\ l \in [Nodes -> Sequences \cup {None}] /\ c \in [Nodes -> Nat]
      /\ a \subseteq Frame /\ i \subseteq Reservation /\ IsFiniteSet(a) /\ IsFiniteSet(i)
      /\ \A g \in a : Reached(l, g)
      /\ \A q \in i : Reached(l, q.frame)
      /\ \A q \in i, p \in i : p # q => Apart(q, p.frame)
      /\ \A q \in i, g \in a : Apart(q, g)
  BY DEF Books
<1>2. f \in Frame /\ f.node \in Nodes /\ f.sequence \in Nat
  BY <1>1, ReservationFields, FrameNumbers
<1>3. ASSUME NEW g \in a PROVE ~SameKey(g, f) /\ g # f
  <2>1. Apart(r, g) /\ g.sequence \in Nat
    BY <1>1, FrameNumbers
  <2>2. QED
    BY <1>2, <2>1 DEF Apart, SameKey
<1>4. {g \in a : ~SameKey(g, f)} = a
  BY <1>3
<1>5. IsFiniteSet(b) /\ IsFiniteSet(j)
  BY <1>1, FS_AddElement, FS_RemoveElement
<1>6. ASSUME NEW o \in Nodes PROVE Counts(o, b, j, c)
  <2> DEFINE S == {q \in i : q.frame.node = o}
             T == {q \in j : q.frame.node = o}
             A == FramesOf(o, a)
             B == FramesOf(o, b)
  <2>1. c[o] = Cardinality(A) + Cardinality(S)
    BY <1>6 DEF Books, Counts
  <2>2. IsFiniteSet(S) /\ IsFiniteSet(A)
    BY <1>1, FS_Subset DEF FramesOf
  <2>3. Cardinality(S) \in Nat /\ Cardinality(A) \in Nat
    BY <2>2, FS_CardinalityType
  <2>4. CASE o # f.node
    <3>1. T = S /\ A = B
      BY <2>4 DEF FramesOf
    <3>2. QED
      BY <2>1, <3>1 DEF Counts
  <2>5. CASE o = f.node
    <3>1. T = S \ {r} /\ r \in S /\ B = A \cup {f} /\ f \notin A
      BY <1>3, <2>5 DEF FramesOf
    <3>2. Cardinality(T) = Cardinality(S) - 1
      BY <2>2, <3>1, FS_RemoveElement
    <3>3. Cardinality(B) = Cardinality(A) + 1
      BY <2>2, <3>1, FS_AddElement
    <3> DEFINE cs == Cardinality(S)
               ct == Cardinality(T)
               ca == Cardinality(A)
               cb == Cardinality(B)
    <3>4. cs \in Nat /\ ca \in Nat /\ ct = cs - 1 /\ cb = ca + 1 /\ c[o] = ca + cs
      BY <2>1, <2>3, <3>2, <3>3
    <3> HIDE DEF cs, ct, ca, cb
    <3>5. c[o] = cb + ct
      BY <3>4
    <3>6. QED
      BY <3>5 DEF Counts, cb, ct
  <2>6. QED
    BY <2>4, <2>5
<1>7. Books(l, b, j, c)
  <2>1. \A g \in b : Reached(l, g)
    BY <1>1
  <2>2. \A q \in j : Reached(l, q.frame)
    BY <1>1
  <2>3. \A q \in j, p \in j : p # q => Apart(q, p.frame)
    BY <1>1
  <2>4. \A q \in j, g \in b : Apart(q, g)
    BY <1>1
  <2>5. b \subseteq Frame /\ j \subseteq Reservation
    BY <1>1, <1>2
  <2> HIDE DEF b, j
  <2>6. QED
    BY <1>1, <1>5, <1>6, <2>1, <2>2, <2>3, <2>4, <2>5 DEF Books
<1>8. QED
  BY <1>4, <1>7

\* A reservation that is rolled back.
LEMMA FailingKeepsBooks ==
  ASSUME NEW l, NEW a, NEW i, NEW c, Books(l, a, i, c), NEW r \in i, NEW n, n = r.frame.node
  PROVE  Books([l EXCEPT ![n] = IF l[n] = r.frame.sequence THEN r.previous ELSE l[n]], a, i \ {r},
               [c EXCEPT ![n] = IF c[n] > 0 THEN c[n] - 1 ELSE 0])
<1> DEFINE f == r.frame
           z == IF l[n] = f.sequence THEN r.previous ELSE l[n]
           k == [l EXCEPT ![n] = z]
           y == IF c[n] > 0 THEN c[n] - 1 ELSE 0
           d == [c EXCEPT ![n] = y]
           j == i \ {r}
<1>1. /\ l \in [Nodes -> Sequences \cup {None}] /\ c \in [Nodes -> Nat]
      /\ a \subseteq Frame /\ i \subseteq Reservation /\ IsFiniteSet(a) /\ IsFiniteSet(i)
      /\ \A g \in a : Reached(l, g)
      /\ \A q \in i : Reached(l, q.frame)
      /\ \A q \in i, p \in i : p # q => Apart(q, p.frame)
      /\ \A q \in i, g \in a : Apart(q, g)
  BY DEF Books
<1>2. f \in Frame /\ n \in Nodes /\ f.sequence \in Nat
      /\ r.previous \in Sequences \cup {None} /\ (r.previous # None => r.previous \in Nat)
  BY <1>1, ReservationFields, FrameNumbers
<1>3. z \in Sequences \cup {None} /\ c[n] \in Nat /\ y \in Nat
  BY <1>1, <1>2
<1>4. /\ k \in [Nodes -> Sequences \cup {None}] /\ d \in [Nodes -> Nat]
      /\ k[n] = z /\ d[n] = y
      /\ \A o \in Nodes : o # n => k[o] = l[o] /\ d[o] = c[o]
  <2> HIDE DEF z, y
  <2>1. QED
    BY <1>1, <1>2, <1>3
<1>5. ASSUME NEW g \in Frame, Reached(l, g), Apart(r, g) PROVE Reached(k, g)
  <2>1. g.node \in Nodes /\ g.sequence \in Nat
    BY FrameNumbers
  <2> HIDE DEF k, d
  <2>2. CASE g.node # n
    BY <1>4, <1>5, <2>1, <2>2 DEF Reached
  <2>3. CASE g.node = n /\ l[n] # f.sequence
    BY <1>4, <1>5, <2>1, <2>3 DEF Reached
  <2>4. CASE g.node = n /\ l[n] = f.sequence
    <3>1. g.sequence <= f.sequence
      BY <1>5, <2>4 DEF Reached
    <3>2. r.previous # None /\ g.sequence <= r.previous
      BY <1>2, <1>5, <2>1, <2>4, <3>1 DEF Apart
    <3>3. QED
      BY <1>4, <2>4, <3>2 DEF Reached
  <2>5. QED
    BY <2>2, <2>3, <2>4
<1>6. IsFiniteSet(j)
  BY <1>1, FS_RemoveElement
<1>7. ASSUME NEW o \in Nodes PROVE Counts(o, a, j, d)
  <2> DEFINE S == {q \in i : q.frame.node = o}
             T == {q \in j : q.frame.node = o}
             A == FramesOf(o, a)
  <2>1. c[o] = Cardinality(A) + Cardinality(S)
    BY <1>7 DEF Books, Counts
  <2>2. IsFiniteSet(S) /\ IsFiniteSet(A)
    BY <1>1, FS_Subset DEF FramesOf
  <2>3. Cardinality(S) \in Nat /\ Cardinality(A) \in Nat
    BY <2>2, FS_CardinalityType
  <2>4. CASE o # n
    <3>1. T = S
      BY <2>4
    <3>2. d[o] = c[o]
      BY <1>4, <2>4
    <3>3. QED
      BY <2>1, <3>1, <3>2 DEF Counts
  <2>5. CASE o = n
    <3>1. T = S \ {r} /\ r \in S
      BY <2>5
    <3>2. Cardinality(T) = Cardinality(S) - 1 /\ Cardinality(S) # 0
      BY <2>2, <3>1, FS_RemoveElement, FS_EmptySet
    <3>3. d[o] = y /\ y = IF c[o] > 0 THEN c[o] - 1 ELSE 0
      BY <1>4, <2>5
    <3> DEFINE cs == Cardinality(S)
               ct == Cardinality(T)
               ca == Cardinality(A)
    <3>4. cs \in Nat /\ ca \in Nat /\ ct = cs - 1 /\ cs # 0 /\ c[o] = ca + cs
      BY <2>1, <2>3, <3>2
    <3> HIDE DEF cs, ct, ca, d, y
    <3>5. d[o] = ca + ct
      BY <3>3, <3>4
    <3>6. QED
      BY <3>5 DEF Counts, ca, ct
  <2>6. QED
    BY <2>4, <2>5
<1>8. Books(k, a, j, d)
  <2> HIDE DEF k, d
  <2>1. \A g \in a : Reached(k, g)
    BY <1>1, <1>5
  <2>2. ASSUME NEW q \in j PROVE Reached(k, q.frame)
    <3>1. q \in i /\ q # r /\ q.frame \in Frame
      BY <1>1, <2>2, ReservationFields
    <3>2. QED
      BY <1>1, <1>5, <3>1
  <2>3. \A q \in j, p \in j : p # q => Apart(q, p.frame)
    BY <1>1
  <2>4. \A q \in j, g \in a : Apart(q, g)
    BY <1>1
  <2>5. j \subseteq Reservation
    BY <1>1
  <2> HIDE DEF j
  <2>6. QED
    BY <1>1, <1>4, <1>6, <1>7, <2>1, <2>2, <2>3, <2>4, <2>5 DEF Books
<1>9. QED
  BY <1>8

-----------------------------------------------------------------------------
(* The requests that wait for an inference, with what the gateway knows.     *)

Waits(x, q) == x[q] # None /\ x[q].tool = 0

Alone(l, f, n) == f.node = n /\ l[n] = f.sequence

\* What holds of requests x, numbers l, reservations i and registrations g: who
\* waits has a reservation, no two wait for one number, who sends one frame after the
\* other has the latest number of its node, and a node with a number is registered.
Lined(x, l, i, g) ==
  /\ \A q \in Slots : Waits(x, q) => \E r \in i : r.frame = x[q].frame
  /\ \A q \in Slots, p \in Slots :
       Waits(x, q) /\ Waits(x, p) /\ p # q => ~SameKey(x[q].frame, x[p].frame)
  /\ \A q \in Slots : Waits(x, q) =>
       /\ x[q].by = "csv" => Alone(l, x[q].frame, CsvNode)
       /\ x[q].by = "campaign" => Alone(l, x[q].frame, CampaignNode)
  /\ \A n \in Nodes : l[n] # None => g[n] # None

\* From requests x to y nobody begins to wait but, perhaps, q.
FewerBut(x, y, q) == \A p \in Slots \ {q} : Waits(y, p) => Waits(x, p) /\ y[p] = x[p]

Settles(x, y, q) == FewerBut(x, y, q) /\ ~Waits(y, q)

\* From requests x to y, q begins to wait for the frame f.
Awaits(x, y, q, f) ==
  /\ FewerBut(x, y, q) /\ y[q].frame = f
  /\ y[q].by = "csv" => f.node = CsvNode
  /\ y[q].by = "campaign" => f.node = CampaignNode
  /\ \A p \in Slots \ {q} :
       Waits(x, p) /\ x[p].by \in {"csv", "campaign"} => x[p].frame.node # f.node

LEMMA ReservingKeepsLine ==
  ASSUME NEW x, NEW y, NEW l, NEW a, NEW i, NEW c, NEW g, NEW h, NEW q \in Slots, NEW f \in Frame,
         Lined(x, l, i, g), Books(l, a, i, c), Awaits(x, y, q, f),
         l[f.node] # None => f.sequence > l[f.node],
         h[f.node] # None, \A n \in Nodes : g[n] # None => h[n] # None
  PROVE  Lined(y, [l EXCEPT ![f.node] = f.sequence],
               i \cup {[frame |-> f, previous |-> l[f.node]]}, h)
<1> DEFINE k == [l EXCEPT ![f.node] = f.sequence]
           z == [frame |-> f, previous |-> l[f.node]]
           j == i \cup {z}
<1>1. l \in [Nodes -> Sequences \cup {None}] /\ i \subseteq Reservation
      /\ \A r \in i : Reached(l, r.frame)
  BY DEF Books
<1>2. f.node \in Nodes /\ f.sequence \in Nat
  BY FrameNumbers
<1>3. k[f.node] = f.sequence /\ \A n \in Nodes : n # f.node => k[n] = l[n]
  BY <1>1, <1>2
<1>4. z.frame = f
  OBVIOUS
<1> HIDE DEF k, z
<1>5. ASSUME NEW p \in Slots \ {q}, Waits(y, p)
      PROVE  /\ Waits(x, p) /\ y[p] = x[p] /\ \E r \in j : r.frame = y[p].frame
             /\ ~SameKey(f, y[p].frame) /\ ~SameKey(y[p].frame, f)
             /\ y[p].by \in {"csv", "campaign"} => y[p].frame.node # f.node
  <2>1. Waits(x, p) /\ y[p] = x[p]
    BY <1>5 DEF Awaits, FewerBut
  <2>2. PICK r \in i : r.frame = x[p].frame
    BY <2>1 DEF Lined
  <2>3. Reached(l, r.frame) /\ r.frame \in Frame
    BY <1>1, ReservationFields
  <2>4. r.frame.node = f.node => r.frame.sequence # f.sequence
    <3>1. SUFFICES ASSUME r.frame.node = f.node PROVE r.frame.sequence < f.sequence
      BY <1>2, <2>3, FrameNumbers
    <3>2. l[f.node] # None /\ r.frame.sequence <= l[f.node] /\ f.sequence > l[f.node]
      BY <2>3, <3>1 DEF Reached
    <3>3. l[f.node] \in Nat /\ r.frame.sequence \in Nat
      BY <1>1, <1>2, <2>3, <3>2, LastNumbers, FrameNumbers
    <3>4. QED
      BY <1>2, <3>2, <3>3
  <2>5. y[p].by \in {"csv", "campaign"} => y[p].frame.node # f.node
    BY <2>1 DEF Awaits
  <2>6. QED
    BY <2>1, <2>2, <2>4, <2>5 DEF SameKey
<1>6. y[q].frame = f /\ (y[q].by = "csv" => f.node = CsvNode)
      /\ (y[q].by = "campaign" => f.node = CampaignNode)
  BY DEF Awaits
<1>7. \A p \in Slots : Waits(y, p) => \E r \in j : r.frame = y[p].frame
  BY <1>4, <1>5, <1>6
<1>8. \A o \in Slots, p \in Slots :
        Waits(y, o) /\ Waits(y, p) /\ p # o => ~SameKey(y[o].frame, y[p].frame)
  <2> SUFFICES ASSUME NEW o \in Slots, NEW p \in Slots, Waits(y, o), Waits(y, p), p # o
               PROVE  ~SameKey(y[o].frame, y[p].frame)
    OBVIOUS
  <2>1. CASE o = q
    BY <1>5, <1>6, <2>1
  <2>2. CASE p = q
    BY <1>5, <1>6, <2>2
  <2>3. CASE o # q /\ p # q
    BY <1>5, <2>3 DEF Lined
  <2>4. QED
    BY <2>1, <2>2, <2>3
<1>9. ASSUME NEW p \in Slots, Waits(y, p)
      PROVE  /\ y[p].by = "csv" => Alone(k, y[p].frame, CsvNode)
             /\ y[p].by = "campaign" => Alone(k, y[p].frame, CampaignNode)
  <2>1. CASE p = q
    BY <1>3, <1>6, <2>1 DEF Alone
  <2>2. CASE p # q
    <3>1. Waits(x, p) /\ y[p] = x[p]
          /\ (y[p].by \in {"csv", "campaign"} => y[p].frame.node # f.node)
      BY <1>5, <1>9, <2>2
    <3>2. /\ y[p].by = "csv" => Alone(l, y[p].frame, CsvNode)
          /\ y[p].by = "campaign" => Alone(l, y[p].frame, CampaignNode)
      BY <3>1 DEF Lined
    <3>3. CsvNode \in Nodes /\ CampaignNode \in Nodes
      BY PlantAssumption
    <3>4. QED
      BY <1>3, <3>1, <3>2, <3>3 DEF Alone
  <2>3. QED
    BY <2>1, <2>2
<1>10. \A n \in Nodes : k[n] # None => h[n] # None
  BY <1>3 DEF Lined
<1> HIDE DEF j
<1>11. Lined(y, k, j, h)
  BY <1>7, <1>8, <1>9, <1>10 DEF Lined
<1>12. QED
  BY <1>11 DEF k, j, z

LEMMA AnsweringKeepsLine ==
  ASSUME NEW x, NEW y, NEW l, NEW i, NEW g, NEW q \in Slots, NEW r \in i,
         Lined(x, l, i, g), Waits(x, q), r.frame = x[q].frame, Settles(x, y, q)
  PROVE  Lined(y, l, i \ {r}, g)
<1>1. ASSUME NEW p \in Slots, Waits(y, p)
      PROVE  p # q /\ Waits(x, p) /\ y[p] = x[p]
  BY <1>1 DEF Settles, FewerBut
<1>2. ASSUME NEW p \in Slots, Waits(y, p) PROVE \E u \in i \ {r} : u.frame = y[p].frame
  <2>1. p # q /\ Waits(x, p) /\ y[p] = x[p]
    BY <1>1, <1>2
  <2>2. PICK u \in i : u.frame = x[p].frame
    BY <2>1 DEF Lined
  <2>3. ~SameKey(x[q].frame, x[p].frame)
    BY <2>1 DEF Lined
  <2>4. u # r
    BY <2>2, <2>3 DEF SameKey
  <2>5. QED
    BY <2>1, <2>2, <2>4
<1>3. QED
  BY <1>1, <1>2 DEF Lined

LEMMA FailingKeepsLine ==
  ASSUME NEW x, NEW y, NEW l, NEW a, NEW i, NEW c, NEW g, NEW q \in Slots, NEW r \in i,
         Lined(x, l, i, g), Books(l, a, i, c), Waits(x, q), r.frame = x[q].frame, Settles(x, y, q)
  PROVE  Lined(y, [l EXCEPT ![r.frame.node] =
                     IF l[r.frame.node] = r.frame.sequence THEN r.previous ELSE l[r.frame.node]],
               i \ {r}, g)
<1> DEFINE f == r.frame
           z == IF l[f.node] = f.sequence THEN r.previous ELSE l[f.node]
           k == [l EXCEPT ![f.node] = z]
<1>1. l \in [Nodes -> Sequences \cup {None}] /\ r \in Reservation
  BY DEF Books
<1>2. f.node \in Nodes /\ f.sequence \in Nat /\ f.sequence # None
  BY <1>1, ReservationFields, FrameNumbers, GatewayAssumption
<1>3. k[f.node] = z /\ \A n \in Nodes : n # f.node => k[n] = l[n]
  <2> HIDE DEF z, f
  <2>1. QED
    BY <1>1, <1>2
<1>4. Lined(y, l, i \ {r}, g)
  BY AnsweringKeepsLine
<1>5. \A n \in Nodes : k[n] # None => g[n] # None
  <2>1. SUFFICES ASSUME l[f.node] = None PROVE z = None
    BY <1>3, <1>4 DEF Lined
  <2>2. QED
    BY <1>2, <2>1
<1> HIDE DEF k
<1>6. ASSUME NEW p \in Slots, Waits(y, p), NEW n \in Nodes, Alone(l, y[p].frame, n)
      PROVE  Alone(k, y[p].frame, n)
  <2>1. p # q /\ Waits(x, p) /\ y[p] = x[p]
    BY <1>6 DEF Settles, FewerBut
  <2>2. ~SameKey(f, y[p].frame)
    BY <2>1 DEF Lined
  <2>3. ~(n = f.node /\ l[n] = f.sequence)
    BY <1>6, <2>2 DEF Alone, SameKey
  <2>4. k[n] = l[n]
    BY <1>3, <2>3
  <2>5. QED
    BY <1>6, <2>4 DEF Alone
<1>7. CsvNode \in Nodes /\ CampaignNode \in Nodes
  BY PlantAssumption
<1>8. Lined(y, k, i \ {r}, g)
  BY <1>4, <1>5, <1>6, <1>7 DEF Lined
<1>9. QED
  BY <1>8 DEF k

\* Nobody begins to wait, and the gateway keeps its numbers.
LEMMA NobodyNew ==
  ASSUME NEW x, NEW y, NEW l, NEW i, NEW g, NEW h, NEW q, Lined(x, l, i, g), Settles(x, y, q),
         \A n \in Nodes : g[n] # None => h[n] # None
  PROVE  Lined(y, l, i, h)
<1>1. ASSUME NEW p \in Slots, Waits(y, p)
      PROVE  Waits(x, p) /\ y[p] = x[p]
  BY <1>1 DEF Settles, FewerBut
<1>2. QED
  BY <1>1 DEF Lined

-----------------------------------------------------------------------------
(* The steps, by what they do to the gateway and to the requests.            *)

SlotsOK == requests \in [Slots -> Request \cup {None}]

GatewayLine ==
  /\ Books(last, answered, ingesting, received)
  /\ Lined(requests, last, ingesting, registered)

LEMMA SlotChanges ==
  ASSUME SlotsOK, NEW q \in Slots, NEW r, requests' = [requests EXCEPT ![q] = r]
  PROVE  requests'[q] = r /\ FewerBut(requests, requests', q)
<1>1. requests'[q] = r
  BY DEF SlotsOK
<1>2. \A p \in Slots \ {q} : requests'[p] = requests[p]
  BY DEF SlotsOK
<1>3. QED
  BY <1>1, <1>2 DEF FewerBut, Waits

LEMMA EndedSettles ==
  ASSUME SlotsOK, NEW q \in Slots, Ended(q)
  PROVE  Settles(requests, requests', q)
<1>1. requests' = [requests EXCEPT ![q] = None]
  BY DEF Ended
<1>2. requests'[q] = None /\ FewerBut(requests, requests', q)
  BY <1>1, SlotChanges
<1>3. QED
  BY <1>2 DEF Settles, Waits

LEMMA SuspensionLater ==
  ASSUME WorkflowAssumption, NEW k \in Nat, Suspension(k) <= Len(AnalysisTools)
  PROVE  k <= Suspension(k)
<1> DEFINE waits == {j \in k..Len(AnalysisTools) :
                       Spoiled(AnalysisTools[j]) /\ faults[AnalysisTools[j]].suspends}
<1>1. Len(AnalysisTools) \in Nat
  BY LenProperties DEF WorkflowAssumption
<1>2. Suspension(k) = IF waits = {} THEN Len(AnalysisTools) + 1
                      ELSE CHOOSE j \in waits : \A i \in waits : j <= i
  BY DEF Suspension
<1>3. waits \subseteq Nat /\ \A j \in waits : k <= j
  BY <1>1
<1> HIDE DEF waits
<1>4. waits # {}
  BY <1>1, <1>2
<1>5. \E j \in waits : \A i \in waits : j <= i
  BY <1>3, <1>4, FirstOf
<1>6. (CHOOSE j \in waits : \A i \in waits : j <= i) \in waits
  BY <1>5
<1>7. QED
  BY <1>2, <1>3, <1>4, <1>6

LEMMA AnalyseSettles ==
  ASSUME WorkflowAssumption, SlotsOK, NEW q \in Slots, NEW r \in Request, NEW k \in Nat, k > 0,
         Analyse(q, r, k)
  PROVE  Settles(requests, requests', q)
<1>1. CASE Suspension(k) <= Len(AnalysisTools)
  <2> DEFINE j == Suspension(k)
             heard == r.heard \/ InventoryHeard(k)
             x == [r EXCEPT !.tool = j, !.heard = heard]
  <2>1. j \in Nat /\ j > 0
    BY <1>1, SuspensionType, SuspensionLater
  <2>2. requests' = [requests EXCEPT ![q] = x]
    BY <1>1 DEF Analyse
  <2> HIDE DEF j, heard
  <2>3. x.tool = j
    BY DEF Request
  <2> HIDE DEF x
  <2>4. requests'[q] = x /\ FewerBut(requests, requests', q)
    BY <2>2, SlotChanges
  <2>5. QED
    BY <2>1, <2>3, <2>4 DEF Settles, Waits
<1>2. CASE ~(Suspension(k) <= Len(AnalysisTools))
  BY <1>2, EndedSettles DEF Analyse, Respond
<1>3. QED
  BY <1>1, <1>2

LEMMA OpeningSettles ==
  ASSUME WorkflowAssumption, SlotsOK, NEW q \in Slots, NEW r \in Request, OpenIncident(q, r)
  PROVE  Settles(requests, requests', q)
<1>1. CASE r.frame.asset \in KnownAssets
  <2>1. Analyse(q, r, 1) /\ 1 \in Nat /\ 1 > 0
    BY <1>1 DEF OpenIncident
  <2>2. QED
    BY <2>1, AnalyseSettles
<1>2. CASE r.frame.asset \notin KnownAssets
  BY <1>2, EndedSettles DEF OpenIncident
<1>3. QED
  BY <1>1, <1>2

LEMMA ContinueSettles ==
  ASSUME WorkflowAssumption, SlotsOK, NEW q \in Slots, NEW r \in Request, Continue(q, r)
  PROVE  Settles(requests, requests', q)
BY OpeningSettles, EndedSettles DEF Continue, Respond

\* The numbers do not move, and nobody begins to wait.
LEMMA GatewayRests ==
  ASSUME GatewayLine, UNCHANGED <<last, answered, ingesting, received>>, NEW q,
         Settles(requests, requests', q) \/ requests' = requests,
         \A n \in Nodes : registered[n] # None => registered'[n] # None
  PROVE  GatewayLine'
<1>1. Books(last, answered, ingesting, received)'
  BY DEF GatewayLine
<1>2. Lined(requests', last, ingesting, registered')
  <2>1. ASSUME Settles(requests, requests', q)
        PROVE  Lined(requests', last, ingesting, registered')
    BY <2>1, NobodyNew DEF GatewayLine
  <2>2. ASSUME requests' = requests
        PROVE  Lined(requests', last, ingesting, registered')
    BY <2>2 DEF Lined, GatewayLine
  <2>3. QED
    BY <2>1, <2>2
<1>3. QED
  BY <1>1, <1>2 DEF GatewayLine

LEMMA ReservingKeeps ==
  ASSUME GatewayLine, NEW q \in Slots, NEW f \in Frame,
         last[f.node] # None => f.sequence > last[f.node],
         last' = [last EXCEPT ![f.node] = f.sequence],
         received' = [received EXCEPT ![f.node] = @ + 1],
         ingesting' = ingesting \cup {[frame |-> f, previous |-> last[f.node]]},
         answered' = answered,
         registered'[f.node] # None,
         \A n \in Nodes : registered[n] # None => registered'[n] # None,
         Awaits(requests, requests', q, f)
  PROVE  GatewayLine'
<1>1. Books(last', answered', ingesting', received')
  BY ReservingKeepsBooks DEF GatewayLine
<1>2. Lined(requests', last', ingesting', registered')
  BY ReservingKeepsLine DEF GatewayLine
<1>3. QED
  BY <1>1, <1>2 DEF GatewayLine

\* A request that waits has its reservation.
LEMMA OwnReservation ==
  ASSUME GatewayLine, NEW q \in Slots, Waiting(q)
  PROVE  /\ ReservationOf(q) \in ingesting /\ ReservationOf(q).frame = requests[q].frame
         /\ Waits(requests, q)
<1>1. Waits(requests, q)
  BY DEF Waiting, Free, Waits
<1>2. \E r \in ingesting : r.frame = requests[q].frame
  BY <1>1 DEF GatewayLine, Lined
<1>3. QED
  BY <1>1, <1>2 DEF ReservationOf

LEMMA CommittingKeeps ==
  ASSUME GatewayLine, NEW q \in Slots, Waiting(q), Commit(ReservationOf(q)),
         Settles(requests, requests', q)
  PROVE  GatewayLine'
<1> DEFINE r == ReservationOf(q)
<1>1. r \in ingesting /\ r.frame = requests[q].frame /\ Waits(requests, q)
  BY OwnReservation
<1>2. /\ ingesting' = ingesting \ {r} /\ answered' = {g \in answered : ~SameKey(g, r.frame)} \cup {r.frame}
      /\ UNCHANGED <<registered, last, received>>
  BY DEF Commit
<1> HIDE DEF r
<1>3. Books(last, answered \cup {r.frame}, ingesting \ {r}, received)
      /\ {g \in answered : ~SameKey(g, r.frame)} = answered
  BY <1>1, AnsweringKeepsBooks DEF GatewayLine
<1>4. Lined(requests', last, ingesting \ {r}, registered)
  BY <1>1, AnsweringKeepsLine DEF GatewayLine
<1>5. QED
  BY <1>2, <1>3, <1>4 DEF GatewayLine

LEMMA FailingKeeps ==
  ASSUME GatewayLine, NEW q \in Slots, Waiting(q), Fail(ReservationOf(q)),
         Settles(requests, requests', q)
  PROVE  GatewayLine'
<1> DEFINE r == ReservationOf(q)
           n == r.frame.node
<1>1. r \in ingesting /\ r.frame = requests[q].frame /\ Waits(requests, q)
  BY OwnReservation
<1>2. /\ ingesting' = ingesting \ {r}
      /\ received' = [received EXCEPT ![n] = IF received[n] > 0 THEN received[n] - 1 ELSE 0]
      /\ last' = [last EXCEPT ![n] = IF last[n] = r.frame.sequence THEN r.previous ELSE last[n]]
      /\ UNCHANGED <<registered, answered>>
  BY DEF Fail, NumberAfterFailure, CountAfterFailure
<1> HIDE DEF r
<1>3. Books(last', answered, ingesting', received')
  BY <1>1, <1>2, FailingKeepsBooks DEF GatewayLine
<1>4. Lined(requests', last', ingesting', registered)
  BY <1>1, <1>2, FailingKeepsLine DEF GatewayLine
<1>5. QED
  BY <1>2, <1>3, <1>4 DEF GatewayLine

\* The answer for one frame, and the reservation of the next.
LEMMA ForwardingKeeps ==
  ASSUME SlotsOK, GatewayLine, NEW q \in Slots, Waiting(q), NEW f \in Frame, CommitAndReserve(q, f),
         requests[q].by \in {"csv", "campaign"},
         f.node = requests[q].frame.node, f.sequence = requests[q].frame.sequence + 1,
         FewerBut(requests, requests', q),
         requests'[q].frame = f, requests'[q].by = requests[q].by
  PROVE  GatewayLine'
<1> DEFINE r == ReservationOf(q)
           g == requests[q].frame
           x == [requests EXCEPT ![q] = None]
           i == ingesting \ {r}
           a == answered \cup {g}
<1>1. r \in ingesting /\ r.frame = g /\ Waits(requests, q)
  BY OwnReservation
<1>2. /\ ingesting' = i \cup {[frame |-> f, previous |-> g.sequence]}
      /\ answered' = a
      /\ last' = [last EXCEPT ![f.node] = f.sequence]
      /\ received' = [received EXCEPT ![f.node] = @ + 1]
      /\ registered' = registered
  BY DEF CommitAndReserve
<1> HIDE DEF r
<1>3. Settles(requests, x, q)
  <2>1. x[q] = None /\ \A p \in Slots \ {q} : x[p] = requests[p]
    BY DEF SlotsOK
  <2> HIDE DEF x
  <2>2. QED
    BY <2>1 DEF Settles, FewerBut, Waits
<1> HIDE DEF x
<1>4. Books(last, a, i, received)
  BY <1>1, AnsweringKeepsBooks DEF GatewayLine
<1>5. Lined(x, last, i, registered)
  BY <1>1, <1>3, AnsweringKeepsLine DEF GatewayLine
<1>6. /\ requests[q].by = "csv" => Alone(last, g, CsvNode)
      /\ requests[q].by = "campaign" => Alone(last, g, CampaignNode)
  BY <1>1 DEF GatewayLine, Lined
<1>7. last[f.node] = g.sequence
  BY <1>6 DEF Alone
<1>8. g.sequence \in Nat /\ f.node \in Nodes /\ g.sequence # None
  <2>1. r.frame \in Frame
    BY <1>1, ReservationFields DEF GatewayLine, Books
  <2>2. QED
    BY <1>1, <2>1, FrameNumbers, GatewayAssumption
<1>9. f.sequence > last[f.node]
  BY <1>7, <1>8
<1>10. registered[f.node] # None
  BY <1>7, <1>8 DEF GatewayLine, Lined
<1>11. Awaits(x, requests', q, f)
  <2>1. FewerBut(x, requests', q)
    <3>1. \A p \in Slots \ {q} : x[p] = requests[p]
      BY DEF SlotsOK, x
    <3>2. QED
      BY <3>1 DEF FewerBut, Waits
  <2>2. ASSUME NEW p \in Slots \ {q}, Waits(x, p), x[p].by \in {"csv", "campaign"}
        PROVE  x[p].frame.node # f.node
    <3>1. Waits(requests, p) /\ x[p] = requests[p]
      BY <1>3, <2>2 DEF Settles, FewerBut
    <3>2. ~SameKey(g, x[p].frame)
      BY <1>1, <3>1 DEF GatewayLine, Lined
    <3>3. \E n : Alone(last, x[p].frame, n)
      BY <2>2, <1>5 DEF Lined
    <3>4. QED
      BY <1>7, <3>2, <3>3 DEF Alone, SameKey
  <2>3. /\ requests'[q].by = "csv" => f.node = CsvNode
        /\ requests'[q].by = "campaign" => f.node = CampaignNode
    BY <1>6 DEF Alone
  <2>4. QED
    BY <2>1, <2>2, <2>3 DEF Awaits
<1> HIDE DEF g, a, i
<1>12. Books(last', answered', ingesting', received')
  BY <1>2, <1>4, <1>7, <1>9, ReservingKeepsBooks
<1>13. Lined(requests', last', ingesting', registered')
  BY <1>2, <1>4, <1>5, <1>7, <1>9, <1>10, <1>11, ReservingKeepsLine
<1>14. QED
  BY <1>12, <1>13 DEF GatewayLine

LEMMA SlotsFromInv == PlantInv => SlotsOK
BY DEF PlantInv, RequestsOK, SlotsOK

LEMMA AssetIsSome ==
  ASSUME NEW a \in Assets
  PROVE  a # None
BY GatewayAssumption

\* A registration alone.
LEMMA RegisteringKeeps ==
  ASSUME GatewayTypeOK, GatewayLine, NEW n \in Nodes, NEW a \in Assets, Register(n, a), UNCHANGED requests
  PROVE  GatewayLine'
<1>1. \A m \in Nodes : registered[m] # None => registered'[m] # None
  BY AssetIsSome DEF Register, GatewayTypeOK
<1>2. QED
  BY <1>1, GatewayRests DEF Register

LEMMA ArrivingKeeps ==
  ASSUME Assumptions, GatewayTypeOK, PlantInv, GatewayLine, NEW q \in Slots, NEW f \in Frame,
         f.node \notin {CsvNode, CampaignNode}, NEW by \in Sessions \cup {"bench"}, Arrives(q, by, f)
  PROVE  GatewayLine'
<1> DEFINE r == NewRequest(by, f)
<1>0. by \in Requesters
  BY RequesterKinds
<1>1. r \in Request /\ r.tool = 0 /\ r.by = by /\ r.frame = f
  BY <1>0, NewRequestType DEF Assumptions
<1>2. SlotsOK
  BY SlotsFromInv
<1>3. by \notin {"csv", "campaign"}
  BY DEF Assumptions, PlantAssumption
<1>4. CASE Reserve(f) /\ requests' = [requests EXCEPT ![q] = r]
  <2> HIDE DEF r
  <2>1. requests'[q] = r /\ FewerBut(requests, requests', q)
    BY <1>2, <1>4, SlotChanges
  <2>2. \A p \in Slots \ {q} :
          Waits(requests, p) /\ requests[p].by \in {"csv", "campaign"} => requests[p].frame.node # f.node
    BY DEF GatewayLine, Lined, Alone
  <2>3. Awaits(requests, requests', q, f)
    BY <1>1, <1>3, <2>1, <2>2 DEF Awaits
  <2>4. registered[f.node] # None
    BY <1>4, FrameFields, AssetIsSome DEF Reserve, Known
  <2>5. QED
    BY <1>4, <2>3, <2>4, ReservingKeeps DEF Reserve, Newer
<1>5. CASE Continue(q, r) /\ UNCHANGED gatewayVars
  <2>1. Settles(requests, requests', q)
    BY <1>1, <1>2, <1>5, ContinueSettles DEF Assumptions
  <2>2. QED
    BY <1>5, <2>1, GatewayRests DEF gatewayVars, gatewayMemory
<1>6. QED
  BY <1>4, <1>5 DEF Arrives

\* The first frame of a node that has no number, or a smaller one.
LEMMA FirstFrameKeeps ==
  ASSUME GatewayTypeOK, PlantInv, GatewayLine, NEW q \in Slots, NEW f \in Frame, NEW r,
         last[f.node] = None, RegisterAndReserve(f), requests' = [requests EXCEPT ![q] = r],
         r.frame = f, r.by = "csv" => f.node = CsvNode, r.by = "campaign" => f.node = CampaignNode
  PROVE  GatewayLine'
<1>1. requests'[q] = r /\ FewerBut(requests, requests', q)
  BY SlotsFromInv, SlotChanges
<1>2. ASSUME NEW p \in Slots \ {q}, Waits(requests, p), requests[p].by \in {"csv", "campaign"}
      PROVE  requests[p].frame.node # f.node
  <2>1. PICK n : Alone(last, requests[p].frame, n)
    BY <1>2 DEF GatewayLine, Lined
  <2>2. PICK u \in ingesting : u.frame = requests[p].frame
    BY <1>2 DEF GatewayLine, Lined
  <2>3. last[u.frame.node] # None
    BY DEF GatewayLine, Books, Reached
  <2>4. QED
    BY <2>2, <2>3
<1>3. Awaits(requests, requests', q, f)
  BY <1>1, <1>2 DEF Awaits
<1>4. f.node \in Nodes /\ f.asset # None
  BY FrameFields, AssetIsSome
<1>5. registered'[f.node] # None /\ \A n \in Nodes : registered[n] # None => registered'[n] # None
  BY <1>4 DEF RegisterAndReserve, GatewayTypeOK
<1>6. QED
  BY <1>3, <1>5, ReservingKeeps DEF RegisterAndReserve

LEMMA LineOfSessions ==
  ASSUME Assumptions, GatewayTypeOK, PlantInv, GatewayLine, FromSessions
  PROVE  GatewayLine'
<1>1. ASSUME NEW s \in Sessions, NEW n \in LiveNodes, NEW a \in Assets, NEW open \in BOOLEAN,
             StartSession(s, n, a, open)
      PROVE  GatewayLine'
  BY <1>1, RegisteringKeeps DEF StartSession, Assumptions, PlantAssumption
<1>2. ASSUME NEW s \in Sessions, StopSession(s)
      PROVE  GatewayLine'
  BY <1>2, GatewayRests DEF StopSession, gatewayVars, gatewayMemory
<1>3. ASSUME NEW q \in Slots, NEW s \in Sessions, NEW c \in Contents, LiveFrame(q, s, c)
      PROVE  GatewayLine'
  <2> DEFINE f == FrameOf(s, sessions[s].node, sessions[s].asset, sessions[s].total, c)
  <2>1. sessions[s] # None /\ sessions[s].total <= MaxSequence /\ Arrives(q, s, f)
    BY <1>3 DEF LiveFrame
  <2>2. sessions[s] \in Session
    BY <2>1 DEF PlantInv, SessionsOK
  <2>3. sessions[s].node \in LiveNodes /\ sessions[s].node \in Nodes
        /\ sessions[s].asset \in Assets /\ sessions[s].total \in Nat
    BY <2>2 DEF Session, Assumptions, PlantAssumption
  <2>4. sessions[s].total \in Sequences
    BY <2>1, <2>3 DEF Sequences, Assumptions, GatewayAssumption
  <2>5. f \in Frame
    BY <2>3, <2>4, RequesterKinds, FrameOfType
  <2>6. f.node = sessions[s].node
    BY DEF FrameOf
  <2> HIDE DEF f
  <2>7. f.node \notin {CsvNode, CampaignNode}
    BY <2>3, <2>6 DEF Assumptions, PlantAssumption
  <2>8. QED
    BY <2>1, <2>5, <2>7, ArrivingKeeps
<1>4. QED
  BY <1>1, <1>2, <1>3 DEF FromSessions

LEMMA LineOfNodes ==
  ASSUME Assumptions, GatewayTypeOK, PlantInv, GatewayLine, FromNodes
  PROVE  GatewayLine'
<1>1. ASSUME NEW n \in BenchNodes, NEW a \in Assets, RegisterBench(n, a)
      PROVE  GatewayLine'
  BY <1>1, RegisteringKeeps DEF RegisterBench, Assumptions, PlantAssumption
<1>2. ASSUME NEW q \in Slots, NEW n \in BenchNodes, NEW number \in Sequences, NEW c \in Contents,
             BenchFrame(q, n, number, c)
      PROVE  GatewayLine'
  <2> DEFINE f == FrameOf("bench", n, registered[n], number, c)
  <2>1. registered[n] # None /\ Arrives(q, "bench", f)
    BY <1>2 DEF BenchFrame
  <2>2. n \in Nodes /\ registered[n] \in Assets /\ n \notin {CsvNode, CampaignNode}
    BY <2>1 DEF GatewayTypeOK, Assumptions, PlantAssumption
  <2>3. f \in Frame
    BY <2>2, RequesterKinds, FrameOfType
  <2>4. f.node = n
    BY DEF FrameOf
  <2> HIDE DEF f
  <2>5. QED
    BY <2>1, <2>2, <2>3, <2>4, ArrivingKeeps
<1>3. QED
  BY <1>1, <1>2 DEF FromNodes

LEMMA WindowKept ==
  ASSUME NEW r \in Request
  PROVE  /\ WithWindow(r) \in Request /\ WithWindow(r).tool = r.tool
         /\ WithWindow(r).by = r.by /\ WithWindow(r).frame = r.frame
<1> DEFINE w == r.worst \cup (IF Reading[r.frame.content].accepted
                                 /\ Reading[r.frame.content].faulty
                               THEN {r.frame.content} ELSE {})
<1>1. w \subseteq Contents
  BY RequestFields, FrameFields
<1>2. WithWindow(r) = [r EXCEPT !.worst = w]
  BY DEF WithWindow
<1> HIDE DEF w
<1>3. QED
  BY <1>1, <1>2 DEF Request

LEMMA LineOfFiles ==
  ASSUME Assumptions, GatewayTypeOK, PlantInv, GatewayLine, FromFiles
  PROVE  GatewayLine'
<1>0. SlotsOK /\ CsvNode \in Nodes
  BY SlotsFromInv DEF Assumptions, PlantAssumption
<1>1. ASSUME NEW q \in Slots, NEW file \in CsvFiles, NEW a \in Assets, NEW c \in Contents,
             UploadCsv(q, file, a, c)
      PROVE  GatewayLine'
  <2> DEFINE f == FrameOf("csv", CsvNode, a, 0, c)
             r == NewRequest("csv", f)
             starts == Starts(file.length, file.window, file.hop) \ {0}
             x == [r EXCEPT !.starts = starts]
  <2>1. f \in Frame /\ f.node = CsvNode
    <3>1. "csv" \in Requesters
      BY RequesterKinds
    <3>2. QED
      BY <3>1, NumberZeroType DEF FrameOf
  <2>2. last[CsvNode] = None
    BY <1>0, <1>1 DEF UploadCsv, GatewayLine, Lined
  <2>3. RegisterAndReserve(f) /\ requests' = [requests EXCEPT ![q] = x]
    BY <1>1 DEF UploadCsv
  <2> HIDE DEF f, starts
  <2>4. x.frame = f /\ x.by = "csv"
    BY DEF NewRequest
  <2> HIDE DEF x
  <2>5. QED
    BY <2>1, <2>2, <2>3, <2>4, FirstFrameKeeps
<1>2. ASSUME NEW q \in Slots, NEW c \in Contents, NextWindow(q, c)
      PROVE  GatewayLine'
  <2> DEFINE r == requests[q]
             n == r.frame.sequence + 1
             f == [r.frame EXCEPT !.sequence = n, !.content = c]
             v == WithWindow(r)
             starts == v.starts \ {Least(v.starts)}
             x == [v EXCEPT !.frame = f, !.starts = starts]
  <2>1. r \in Request /\ r.by = "csv" /\ Waiting(q)
    BY <1>2, InSlot DEF NextWindow, Waiting
  <2>2. r.frame \in Frame /\ r.frame.sequence \in Nat
    BY <2>1, RequestFields, FrameNumbers
  <2>3. f.sequence <= MaxSequence /\ CommitAndReserve(q, f)
        /\ requests' = [requests EXCEPT ![q] = x]
    BY <1>2 DEF NextWindow
  <2>4. f.sequence = n /\ f.node = r.frame.node
    BY <2>2 DEF Frame
  <2>5. n \in Sequences
    BY <2>2, <2>3, <2>4, SMTT(30) DEF Sequences, Assumptions, GatewayAssumption
  <2>6. f \in Frame
    <3> HIDE DEF n
    <3>1. QED
      BY <2>2, <2>5 DEF Frame
  <2>7. v \in Request /\ v.by = "csv"
    BY <2>1, WindowKept
  <2> HIDE DEF f, v, starts
  <2>8. x.frame = f /\ x.by = "csv"
    BY <2>7 DEF Request
  <2> HIDE DEF x
  <2>9. requests'[q] = x /\ FewerBut(requests, requests', q)
    BY <1>0, <2>3, SlotChanges
  <2>10. QED
    BY <1>0, <2>1, <2>3, <2>4, <2>6, <2>8, <2>9, ForwardingKeeps
<1>3. ASSUME NEW q \in Slots, LastWindow(q)
      PROVE  GatewayLine'
  <2> DEFINE r == WithWindow(requests[q])
  <2>1. requests[q] \in Request /\ Waiting(q)
    BY <1>3, InSlot DEF LastWindow, Waiting
  <2>2. r \in Request
    BY <2>1, WindowKept
  <2>3. Commit(ReservationOf(q))
        /\ IF r.worst = {} THEN Ended(q) /\ UNCHANGED <<workflowVars, sessions>>
           ELSE \E c \in r.worst : OpenIncident(q, [r EXCEPT !.observation = Reading[c].observation])
    BY <1>3 DEF LastWindow
  <2> HIDE DEF r
  <2>4. Settles(requests, requests', q)
    <3>1. CASE r.worst = {}
      BY <1>0, <2>3, <3>1, EndedSettles
    <3>2. CASE r.worst # {}
      <4>1. PICK c \in r.worst : OpenIncident(q, [r EXCEPT !.observation = Reading[c].observation])
        BY <2>3, <3>2
      <4> DEFINE o == Reading[c].observation
                 x == [r EXCEPT !.observation = o]
      <4>2. o \in Observation
        BY <2>2, RequestFields, ReadingType DEF Assumptions
      <4> HIDE DEF o
      <4>3. x \in Request
        BY <2>2, <4>2 DEF Request
      <4>4. OpenIncident(q, x)
        BY <4>1 DEF o
      <4> HIDE DEF x
      <4>5. QED
        BY <1>0, <4>3, <4>4, OpeningSettles DEF Assumptions
    <3>3. QED
      BY <3>1, <3>2
  <2>5. QED
    BY <2>1, <2>3, <2>4, CommittingKeeps
<1>4. QED
  BY <1>1, <1>2, <1>3 DEF FromFiles

LEMMA SignalType ==
  ASSUME Assumptions, NEW k \in Nat, k >= 1, k <= Len(CampaignSignals)
  PROVE  Signal(k) \in Frame /\ Signal(k).node = CampaignNode /\ Signal(k).sequence = k - 1
<1>1. CampaignSignals \in Seq(Contents) /\ Len(CampaignSignals) <= MaxSequence + 1
      /\ MaxSequence \in Nat /\ CampaignNode \in Nodes /\ CampaignAsset \in Assets
  BY DEF Assumptions, PlantAssumption, GatewayAssumption
<1>2. CampaignSignals[k] \in Contents /\ Len(CampaignSignals) \in Nat
  BY <1>1, LenProperties, ElementOfSeq
<1>3. k - 1 \in Sequences
  BY <1>1, <1>2 DEF Sequences
<1>4. QED
  BY <1>1, <1>2, <1>3, RequesterKinds, FrameOfType DEF Signal, FrameOf

LEMMA LineOfCampaigns ==
  ASSUME Assumptions, GatewayTypeOK, PlantInv, GatewayLine, FromCampaigns
  PROVE  GatewayLine'
<1>0. SlotsOK /\ CampaignNode \in Nodes /\ CampaignAsset \in Assets
  BY SlotsFromInv DEF Assumptions, PlantAssumption
<1>1. ASSUME NEW q \in Slots, StartCampaign(q)
      PROVE  GatewayLine'
  <2> DEFINE f == Signal(1)
             r == NewRequest("campaign", f)
  <2>1. f \in Frame /\ f.node = CampaignNode /\ f.sequence = 0
    <3>1. Len(CampaignSignals) \in Nat /\ Len(CampaignSignals) >= 1
      BY LenProperties DEF Assumptions, PlantAssumption
    <3>2. QED
      BY <3>1, SignalType
  <2>2. r.by = "campaign" /\ r.frame = f
    BY DEF NewRequest
  <2>3. CASE Newer(f) /\ RegisterAndReserve(f) /\ requests' = [requests EXCEPT ![q] = r]
    <3>1. last[f.node] = None
      <4>1. last[f.node] # None => last[f.node] \in Nat
        BY <1>0, <2>1, LastNumbers DEF GatewayTypeOK
      <4>2. QED
        BY <2>1, <2>3, <4>1 DEF Newer
    <3> HIDE DEF f, r
    <3>2. QED
      BY <2>1, <2>2, <2>3, <3>1, FirstFrameKeeps
  <2>4. CASE Register(CampaignNode, CampaignAsset) /\ UNCHANGED requests
    BY <1>0, <2>4, RegisteringKeeps
  <2>5. QED
    BY <1>1, <2>3, <2>4 DEF StartCampaign
<1>2. ASSUME NEW q \in Slots, NextSignal(q)
      PROVE  GatewayLine'
  <2> DEFINE r == requests[q]
             k == SignalsSent(q) + 1
             f == Signal(k)
             x == [r EXCEPT !.frame = f]
  <2>1. r \in Request /\ r.by = "campaign" /\ Waiting(q)
    BY <1>2, InSlot DEF NextSignal, Waiting
  <2>2. r.frame \in Frame /\ r.frame.sequence \in Nat
    BY <2>1, RequestFields, FrameNumbers
  <2>3. k \in Nat /\ k >= 1 /\ k = r.frame.sequence + 2
    BY <2>2 DEF SignalsSent
  <2>4. k <= Len(CampaignSignals) /\ CommitAndReserve(q, f) /\ requests' = [requests EXCEPT ![q] = x]
    BY <1>2 DEF NextSignal
  <2>5. f \in Frame /\ f.node = CampaignNode /\ f.sequence = k - 1
    BY <2>3, <2>4, SignalType
  <2>6. f.sequence = r.frame.sequence + 1
    BY <2>2, <2>3, <2>5
  <2>7. r.frame.node = CampaignNode
    <3>1. Waits(requests, q)
      BY <2>1 DEF Waiting, Free, Waits
    <3>2. QED
      BY <2>1, <3>1 DEF GatewayLine, Lined, Alone
  <2> HIDE DEF f, k
  <2>8. x.frame = f /\ x.by = "campaign"
    BY <2>1 DEF Request
  <2> HIDE DEF x
  <2>9. requests'[q] = x /\ FewerBut(requests, requests', q)
    BY <1>0, <2>4, SlotChanges
  <2>10. QED
    BY <1>0, <2>1, <2>4, <2>5, <2>6, <2>7, <2>8, <2>9, ForwardingKeeps
<1>3. ASSUME NEW q \in Slots, SpoilInventory(q)
      PROVE  GatewayLine'
  <2> DEFINE x == [requests[q] EXCEPT !.tool = 1]
  <2>1. requests[q] \in Request /\ Waiting(q)
    BY <1>3, InSlot DEF SpoilInventory, Waiting
  <2>2. x.tool = 1
    BY <2>1 DEF Request
  <2>3. Commit(ReservationOf(q)) /\ requests' = [requests EXCEPT ![q] = x]
    BY <1>3 DEF SpoilInventory
  <2> HIDE DEF x
  <2>4. requests'[q] = x /\ FewerBut(requests, requests', q)
    BY <1>0, <2>3, SlotChanges
  <2>5. Settles(requests, requests', q)
    BY <2>2, <2>4 DEF Settles, Waits
  <2>6. QED
    BY <2>1, <2>3, <2>5, CommittingKeeps
<1>4. ASSUME NEW q \in Slots, EndCampaign(q)
      PROVE  GatewayLine'
  BY <1>0, <1>4, EndedSettles, GatewayRests DEF EndCampaign, gatewayVars, gatewayMemory
<1>5. QED
  BY <1>1, <1>2, <1>3, <1>4 DEF FromCampaigns

LEMMA LineOfReports ==
  ASSUME Assumptions, PlantInv, GatewayLine, FromReports
  PROVE  GatewayLine'
<1>1. PICK q \in Slots, a \in Assets, o \in Reported : Report(q, a, o)
  BY DEF FromReports
<1> DEFINE c == CHOOSE x \in Contents : TRUE
           f == FrameOf("report", CsvNode, a, 0, c)
           r == NewRequest("report", f)
           x == [r EXCEPT !.observation = o]
<1>2. c \in Contents
  BY DEF Reported
<1>3. o \in Observation
  BY ReadingType DEF Reported, Assumptions
<1>4. OpenIncident(q, x) /\ UNCHANGED gatewayVars
  BY <1>1 DEF Report
<1>0. "report" \in Requesters
  BY RequesterKinds
<1>5. f \in Frame
  <2> HIDE DEF c
  <2>1. QED
    BY <1>0, <1>2, NumberZeroType
<1> HIDE DEF f
<1>6. r \in Request
  BY <1>0, <1>5, NewRequestType DEF Assumptions
<1> HIDE DEF r
<1>7. x \in Request
  BY <1>3, <1>6 DEF Request
<1> HIDE DEF x
<1>8. Settles(requests, requests', q)
  BY <1>4, <1>7, SlotsFromInv, OpeningSettles DEF Assumptions
<1>9. QED
  BY <1>4, <1>8, GatewayRests DEF gatewayVars, gatewayMemory

LEMMA LineOfRequests ==
  ASSUME Assumptions, PlantInv, GatewayLine, Proceed
  PROVE  GatewayLine'
<1>1. PICK q \in Slots : Infer(q) \/ InferFails(q) \/ ToolTimesOut(q)
  BY DEF Proceed
<1>2. SlotsOK /\ requests[q] \in Request
  BY <1>1, InSlot, SlotsFromInv DEF Infer, InferFails, ToolTimesOut, Waiting
<1>3. CASE Infer(q)
  <2>1. Settles(requests, requests', q)
    BY <1>2, <1>3, ContinueSettles DEF Infer, Assumptions
  <2>2. QED
    BY <1>3, <2>1, CommittingKeeps DEF Infer
<1>4. CASE InferFails(q)
  BY <1>2, <1>4, EndedSettles, FailingKeeps DEF InferFails
<1>5. CASE ToolTimesOut(q)
  <2> DEFINE k == requests[q].tool + 1
  <2>1. Analyse(q, requests[q], k) /\ UNCHANGED gatewayVars
    BY <1>5 DEF ToolTimesOut
  <2>2. k \in Nat /\ k > 0
    BY <1>2, RequestFields
  <2> HIDE DEF k
  <2>3. Settles(requests, requests', q)
    BY <1>2, <2>1, <2>2, AnalyseSettles DEF Assumptions
  <2>4. QED
    BY <2>1, <2>3, GatewayRests DEF gatewayVars, gatewayMemory
<1>6. QED
  BY <1>1, <1>3, <1>4, <1>5

LEMMA EmptyLine ==
  ASSUME NEW l, NEW a, NEW i, NEW c, NEW x, NEW g, l = [n \in Nodes |-> None], a = {}, i = {},
         c = [n \in Nodes |-> 0], x = [q \in Slots |-> None]
  PROVE  Books(l, a, i, c) /\ Lined(x, l, i, g)
<1>1. Cardinality({}) = 0 /\ IsFiniteSet({})
  BY FS_EmptySet
<1>2. ASSUME NEW n \in Nodes PROVE Counts(n, a, i, c)
  <2>1. FramesOf(n, a) = {} /\ {r \in i : r.frame.node = n} = {} /\ c[n] = 0
    BY DEF FramesOf
  <2>2. QED
    BY <1>1, <2>1 DEF Counts
<1>3. Books(l, a, i, c)
  BY <1>1, <1>2 DEF Books
<1>4. Lined(x, l, i, g)
  BY DEF Lined, Waits
<1>5. QED
  BY <1>3, <1>4

LEMMA LineKept ==
  ASSUME Assumptions, IInv, GatewayLine, [Next]_vars
  PROVE  GatewayLine'
<1>1. GatewayTypeOK /\ PlantInv
  BY DEF IInv
<1>2. CASE FromSessions
  BY <1>1, <1>2, LineOfSessions
<1>3. CASE FromNodes
  BY <1>1, <1>3, LineOfNodes
<1>4. CASE FromFiles
  BY <1>1, <1>4, LineOfFiles
<1>5. CASE FromCampaigns
  BY <1>1, <1>5, LineOfCampaigns
<1>6. CASE FromReports
  BY <1>1, <1>6, LineOfReports
<1>7. CASE Proceed
  BY <1>1, <1>7, LineOfRequests
<1>8. CASE UNCHANGED <<gatewayVars, requests>>
  BY <1>8, GatewayRests DEF gatewayVars, gatewayMemory
<1>9. CASE Restart
  <2>1. last' = [n \in Nodes |-> None] /\ answered' = {} /\ ingesting' = {}
        /\ received' = [n \in Nodes |-> 0] /\ requests' = [q \in Slots |-> None]
    BY <1>9 DEF Restart, ForgetMemory
  <2>2. QED
    BY <2>1, EmptyLine DEF GatewayLine
<1>10. CASE Decide \/ Reset \/ Disturb \/ UNCHANGED vars
  BY <1>8, <1>10 DEF Decide, Reset, Disturb, vars, plantVars
<1>11. QED
  BY <1>2, <1>3, <1>4, <1>5, <1>6, <1>7, <1>9, <1>10 DEF Next, Serve, FromPeople

LEMMA GatewayInvariance == Spec => [](IInv /\ GatewayLine)
<1>1. Assumptions
  BY AssumptionsHold
<1>2. Init => IInv /\ GatewayLine
  BY <1>1, Initially, EmptyLine DEF Init, GatewayInit, EmptyMemory, GatewayLine
<1>3. IInv /\ GatewayLine /\ [Next]_vars => (IInv /\ GatewayLine)'
  BY <1>1, StepKeeps, LineKept
<1>4. QED
  BY <1>2, <1>3, PTL DEF Spec

(* The counter of every node is what has been answered plus what is in the  *)
(* await, with any number of requests of one node in the await at a time    *)
(* and whatever of them is rolled back (gateway.py: ingest).                *)
THEOREM CountsAlwaysAgree == Spec => []CountsAgree
<1>1. IInv /\ GatewayLine => CountsAgree
  BY DEF GatewayLine, Books, Counts, CountsAgree
<1>2. QED
  BY <1>1, GatewayInvariance, PTL

-----------------------------------------------------------------------------
(* Sessions and the number of their node.  In what follows z are sessions, x *)
(* requests, l numbers, i reservations and h those who have sent frames of   *)
(* each node.                                                                *)

\* A session that has its node to itself.
Sole(s, z, h) == z[s] # None /\ h[z[s].node] \subseteq {s}

\* A request is of a session and was made with what it had counted then.
Sent(r, z) ==
  /\ z[r.by] # None
  /\ r.frame.node = z[r.by].node /\ r.frame.asset = z[r.by].asset
  /\ r.frame.sequence <= z[r.by].total

\* Who sent the frames: a node with a number has heard of somebody, and no session
\* has sent a frame before it started.
Heard(z, x, l, h) ==
  /\ \A n \in Nodes : l[n] # None => h[n] # {}
  /\ \A n \in Nodes, s \in Sessions : s \in h[n] => z[s] # None
  /\ \A q \in Slots : x[q] # None /\ x[q].by \in Sessions => Sent(x[q], z)

\* A rollback returns below what the session has counted, and a number it has not
\* passed yet is that of a request which will be counted or rolled back.
Onward(s, z, x, l, i) ==
  /\ \A r \in i : r.frame.node = z[s].node => r.previous = None \/ r.previous < z[s].total
  /\ l[z[s].node] # None /\ z[s].total <= l[z[s].node] =>
       \E q \in Slots : /\ x[q] # None /\ x[q].by = s
                        /\ x[q].frame.sequence = l[z[s].node]

Counting(z, x, l, i, h) ==
  /\ Heard(z, x, l, h)
  /\ \A s \in Sessions : Sole(s, z, h) => Onward(s, z, x, l, i)

SessionTypes(z) ==
  \A s \in Sessions : z[s] # None => z[s].total \in Nat /\ z[s].node \in Nodes

NumberTypes(l) ==
  l \in [Nodes -> Sequences \cup {None}] /\ \A n \in Nodes : l[n] # None => l[n] \in Nat

\* From sessions z to y no session starts or ends, and the totals grow.
Grown(z, y) ==
  \A s \in Sessions :
    /\ z[s] = None <=> y[s] = None
    /\ z[s] # None => /\ y[s].node = z[s].node /\ y[s].asset = z[s].asset
                      /\ z[s].total <= y[s].total

\* From h to g those who wait in the requests w are added, and nobody else.
Joined(h, g, w) ==
  \A n \in Nodes :
    /\ h[n] \subseteq g[n]
    /\ \A q \in Slots : Waits(w, q) /\ w[q].frame.node = n => w[q].by \in g[n]
    /\ \A b \in g[n] : b \in h[n] \/ \E q \in Slots : Waits(w, q) /\ w[q].by = b

\* Requests w are requests x, but for slot q; numbers k are numbers l, but for node n.
Elsewhere(x, w, q) == \A p \in Slots \ {q} : w[p] = x[p]

Renumbered(l, k, n, number) == k[n] = number /\ \A m \in Nodes \ {n} : k[m] = l[m]

LEMMA SoleBefore ==
  ASSUME NEW z, NEW y, NEW h, NEW g, NEW w, Grown(z, y), SessionTypes(z), Joined(h, g, w),
         NEW s \in Sessions, Sole(s, y, g)
  PROVE  Sole(s, z, h)
<1>1. z[s] # None /\ y[s].node = z[s].node /\ z[s].node \in Nodes
  BY DEF Sole, Grown, SessionTypes
<1>2. h[z[s].node] \subseteq g[z[s].node]
  BY <1>1 DEF Joined
<1>3. QED
  BY <1>1, <1>2 DEF Sole

LEMMA SentStill ==
  ASSUME NEW z, NEW y, Grown(z, y), SessionTypes(z), SessionTypes(y), NEW r, r.by \in Sessions,
         Sent(r, z), r.frame.sequence \in Nat
  PROVE  Sent(r, y)
<1>1. z[r.by] # None /\ y[r.by] # None
  BY DEF Sent, Grown
<1>2. /\ y[r.by].node = z[r.by].node /\ y[r.by].asset = z[r.by].asset
      /\ z[r.by].total <= y[r.by].total /\ z[r.by].total \in Nat /\ y[r.by].total \in Nat
  BY <1>1 DEF Grown, SessionTypes
<1>3. QED
  BY <1>1, <1>2 DEF Sent

\* A node that gets a number gets it from a request that waits.
LEMMA StillHeard ==
  ASSUME NEW z, NEW y, NEW x, NEW w, NEW l, NEW k, NEW h, NEW g, Heard(z, x, l, h), Joined(h, g, w),
         \A n \in Nodes : k[n] # None =>
           l[n] # None \/ \E q \in Slots : Waits(w, q) /\ w[q].frame.node = n,
         \A s \in Sessions : z[s] # None => y[s] # None,
         \A q \in Slots : w[q] # None /\ w[q].by \in Sessions => Sent(w[q], y)
  PROVE  Heard(y, w, k, g)
<1>1. ASSUME NEW n \in Nodes, k[n] # None
      PROVE  g[n] # {}
  <2>1. CASE l[n] # None
    BY <2>1 DEF Heard, Joined
  <2>2. CASE \E q \in Slots : Waits(w, q) /\ w[q].frame.node = n
    BY <2>2 DEF Joined
  <2>3. QED
    BY <1>1, <2>1, <2>2
<1>2. ASSUME NEW n \in Nodes, NEW s \in Sessions, s \in g[n]
      PROVE  y[s] # None
  <2>1. CASE s \in h[n]
    BY <2>1 DEF Heard
  <2>2. CASE \E q \in Slots : Waits(w, q) /\ w[q].by = s
    BY <2>2 DEF Waits, Sent
  <2>3. QED
    BY <1>2, <2>1, <2>2 DEF Joined
<1>3. QED
  BY <1>1, <1>2 DEF Heard

\* What becomes of the request r in slot q: it waits for a tool, or its session has
\* counted it, or it ends and is nobody's of the sessions.
Goes(q, r, z, x, y, w) ==
  /\ Elsewhere(x, w, q)
  /\ \/ z = y /\ w[q] # None /\ w[q].by = r.by /\ w[q].frame = r.frame
     \/ w[q] = None /\ y[r.by].total > z[r.by].total
     \/ w[q] = None /\ z = y /\ r.by \notin Sessions

LEMMA GoingCounts ==
  ASSUME NEW z, NEW y, NEW x, NEW w, NEW l, NEW i, NEW j, NEW h, NEW g, NEW q \in Slots, NEW r,
         Counting(z, x, l, i, h), SessionTypes(z), SessionTypes(y), NumberTypes(l), j \subseteq i,
         \A u \in i : u.previous # None => u.previous \in Nat,
         \A p \in Slots : x[p] # None => x[p].frame.sequence \in Nat,
         Grown(z, y), Joined(h, g, w), Goes(q, r, z, x, y, w),
         r.by \in Sessions => Sent(r, z), r.frame.sequence \in Nat,
         x[q] = None \/ (x[q].by = r.by /\ x[q].frame = r.frame)
  PROVE  Counting(y, w, l, j, g)
<1>1. ASSUME NEW p \in Slots, w[p] # None, w[p].by \in Sessions
      PROVE  Sent(w[p], y)
  <2>1. CASE p = q
    <3>1. w[q].by = r.by /\ w[q].frame = r.frame
      BY <1>1, <2>1 DEF Goes
    <3>2. Sent(r, y)
      BY <1>1, <2>1, <3>1, SentStill
    <3>3. QED
      BY <2>1, <3>1, <3>2 DEF Sent
  <2>2. CASE p # q
    <3>1. w[p] = x[p] /\ Sent(x[p], z)
      BY <1>1, <2>2 DEF Goes, Elsewhere, Counting, Heard
    <3>2. QED
      BY <1>1, <3>1, SentStill
  <2>3. QED
    BY <2>1, <2>2
<1>2. Heard(y, w, l, g)
  <2>1. Heard(z, x, l, h) /\ \A s \in Sessions : z[s] # None => y[s] # None
    BY DEF Counting, Grown
  <2>2. QED
    BY <1>1, <2>1, StillHeard
<1>3. ASSUME NEW s \in Sessions, Sole(s, y, g)
      PROVE  Onward(s, y, w, l, j)
  <2>1. Sole(s, z, h) /\ Onward(s, z, x, l, i)
    BY <1>3, SoleBefore DEF Counting
  <2>2. /\ z[s] # None /\ y[s] # None /\ y[s].node = z[s].node /\ z[s].node \in Nodes
        /\ z[s].total <= y[s].total /\ z[s].total \in Nat /\ y[s].total \in Nat
    BY <2>1 DEF Sole, Grown, SessionTypes
  <2>3. ASSUME NEW u \in j, u.frame.node = y[s].node
        PROVE  u.previous = None \/ u.previous < y[s].total
    <3>1. u \in i /\ (u.previous = None \/ u.previous < z[s].total)
      BY <2>1, <2>2, <2>3 DEF Onward
    <3>2. u.previous # None => u.previous \in Nat
      BY <3>1
    <3>3. QED
      BY <2>2, <3>1, <3>2
  <2>4. ASSUME l[y[s].node] # None, y[s].total <= l[y[s].node]
        PROVE  \E p \in Slots : w[p] # None /\ w[p].by = s /\ w[p].frame.sequence = l[y[s].node]
    <3>1. l[z[s].node] \in Nat /\ z[s].total <= l[z[s].node] /\ l[z[s].node] # None
      BY <2>2, <2>4 DEF NumberTypes
    <3>2. PICK p \in Slots : x[p] # None /\ x[p].by = s /\ x[p].frame.sequence = l[z[s].node]
      BY <2>1, <3>1 DEF Onward
    <3>3. CASE p # q
      BY <2>2, <3>2, <3>3 DEF Goes, Elsewhere
    <3>4. CASE p = q
      <4>1. r.by = s /\ r.frame.sequence = l[z[s].node]
        BY <3>2, <3>4
      <4>2. ~(y[s].total > z[s].total)
        <5>1. l[z[s].node] <= z[s].total
          BY <4>1 DEF Sent
        <5>2. QED
          BY <2>2, <2>4, <3>1, <5>1
      <4>3. w[q] # None /\ w[q].by = r.by /\ w[q].frame = r.frame
        BY <4>1, <4>2 DEF Goes
      <4>4. QED
        BY <2>2, <4>1, <4>3
    <3>5. QED
      BY <3>3, <3>4
  <2>5. QED
    BY <2>3, <2>4 DEF Onward
<1>4. QED
  BY <1>2, <1>3 DEF Counting

\* What a frame f of the requester b is: that of a session has its next number.
NextNumber(b, f, v, z, l) ==
  /\ z[b] # None /\ f.node = z[b].node /\ f.asset = z[b].asset
  /\ f.sequence = z[b].total /\ z[b].total \in Nat
  /\ l[f.node] # None => f.sequence > l[f.node]
  /\ v.previous = l[f.node]

\* One more frame of the requester b is reserved.
LEMMA SendingCounts ==
  ASSUME NEW z, NEW x, NEW w, NEW l, NEW i, NEW j, NEW h, NEW g, NEW q \in Slots, NEW f, NEW b,
         Counting(z, x, l, i, h), NumberTypes(l), SessionTypes(z), Joined(h, g, w),
         x[q] = None \/ x[q].by \notin Sessions, f.node \in Nodes,
         Elsewhere(x, w, q), w[q] # None, w[q].tool = 0, w[q].by = b, w[q].frame = f,
         NEW k, Renumbered(l, k, f.node, f.sequence),
         NEW v, v.frame = f, j \subseteq i \cup {v},
         b \in Sessions => NextNumber(b, f, v, z, l)
  PROVE  Counting(z, w, k, j, g)
<1>0. \A p \in Slots \ {q} : w[p] = x[p]
  BY DEF Elsewhere
<1>1. k[f.node] = f.sequence /\ \A n \in Nodes : n # f.node => k[n] = l[n]
  BY DEF Renumbered
<1>2. Waits(w, q) /\ b \in g[f.node] /\ \A n \in Nodes : h[n] \subseteq g[n]
  BY DEF Waits, Joined
<1>3. ASSUME NEW p \in Slots, w[p] # None, w[p].by \in Sessions
      PROVE  Sent(w[p], z)
  <2>1. CASE p = q
    BY <1>3, <2>1 DEF Sent, NextNumber
  <2>2. CASE p # q
    BY <1>0, <1>3, <2>2 DEF Counting, Heard
  <2>3. QED
    BY <2>1, <2>2
<1>4. Heard(z, w, k, g)
  <2>1. \A n \in Nodes : k[n] # None =>
          l[n] # None \/ \E p \in Slots : Waits(w, p) /\ w[p].frame.node = n
    BY <1>1, <1>2
  <2>2. Heard(z, x, l, h)
    BY DEF Counting
  <2>3. QED
    BY <1>3, <2>1, <2>2, StillHeard
<1>5. ASSUME NEW t \in Sessions, Sole(t, z, g)
      PROVE  Onward(t, z, w, k, j)
  <2>0. z[t].node \in Nodes
    BY <1>5 DEF Sole, SessionTypes
  <2>1. Onward(t, z, x, l, i)
    BY <1>2, <1>5, <2>0 DEF Counting, Sole
  <2>2. CASE t = b
    <3>0. NextNumber(t, f, v, z, l)
      BY <2>2
    <3>1. ASSUME NEW u \in j, u.frame.node = z[t].node
          PROVE  u.previous = None \/ u.previous < z[t].total
      <4>1. CASE u \in i
        BY <2>1, <3>1, <4>1 DEF Onward
      <4>2. CASE u = v
        <5>1. l[f.node] # None => l[f.node] \in Nat /\ f.sequence > l[f.node]
          BY <3>0 DEF NumberTypes, NextNumber
        <5>2. f.sequence = z[t].total /\ z[t].total \in Nat /\ u.previous = l[f.node]
          BY <3>0, <4>2 DEF NextNumber
        <5>3. QED
          BY <5>1, <5>2
      <4>3. QED
        BY <4>1, <4>2
    <3>2. w[q] # None /\ w[q].by = t /\ w[q].frame.sequence = k[z[t].node]
      BY <1>1, <2>2, <3>0 DEF NextNumber
    <3>3. QED
      BY <3>1, <3>2 DEF Onward
  <2>3. CASE t # b
    <3>1. z[t].node # f.node
      BY <1>2, <1>5, <2>3 DEF Sole
    <3>2. \A u \in j : u.frame.node = z[t].node => u \in i
      BY <3>1
    <3>3. k[z[t].node] = l[z[t].node]
      BY <1>1, <2>0, <3>1
    <3>4. \A p \in Slots : x[p] # None /\ x[p].by = t => w[p] = x[p]
      BY <1>0
    <3>5. QED
      BY <2>1, <3>2, <3>3, <3>4 DEF Onward
  <2>4. QED
    BY <2>2, <2>3
<1>6. QED
  BY <1>4, <1>5 DEF Counting

\* A frame is rolled back, whoever has sent it.
LEMMA RollingBackCounts ==
  ASSUME NEW z, NEW x, NEW w, NEW l, NEW i, NEW h, NEW g, NEW q \in Slots, NEW r \in i, NEW n,
         Counting(z, x, l, i, h), SessionTypes(z), NumberTypes(l), Joined(h, g, w),
         r.previous # None => r.previous \in Nat,
         x[q] # None, x[q].frame = r.frame, n = r.frame.node, n \in Nodes, l[n] # None,
         Elsewhere(x, w, q), w[q] = None, NEW b, NEW k, Renumbered(l, k, n, b),
         b = IF l[n] = r.frame.sequence THEN r.previous ELSE l[n]
  PROVE  Counting(z, w, k, i \ {r}, g)
<1>0. \A p \in Slots \ {q} : w[p] = x[p]
  BY DEF Elsewhere
<1>1. k[n] = b /\ \A m \in Nodes : m # n => k[m] = l[m]
  BY DEF Renumbered
<1>2. Heard(z, x, l, h)
  BY DEF Counting
<1>3. ASSUME NEW p \in Slots, w[p] # None, w[p].by \in Sessions
      PROVE  Sent(w[p], z)
  BY <1>0, <1>2, <1>3 DEF Heard
<1>4. Heard(z, w, k, g)
  <2>1. \A m \in Nodes : k[m] # None => l[m] # None
    BY <1>1
  <2>2. QED
    BY <1>2, <1>3, <2>1, StillHeard
<1>5. ASSUME NEW t \in Sessions, Sole(t, z, g)
      PROVE  Onward(t, z, w, k, i \ {r})
  <2>1. z[t] # None /\ z[t].node \in Nodes /\ z[t].total \in Nat
    BY <1>5 DEF Sole, SessionTypes
  <2>2. Onward(t, z, x, l, i)
    BY <1>5, <2>1 DEF Counting, Sole, Joined
  <2>3. ASSUME k[z[t].node] # None, z[t].total <= k[z[t].node]
        PROVE  \E p \in Slots : w[p] # None /\ w[p].by = t /\ w[p].frame.sequence = k[z[t].node]
    <3>1. CASE z[t].node # n
      <4>1. k[z[t].node] = l[z[t].node]
        BY <1>1, <2>1, <3>1
      <4>2. PICK p \in Slots : x[p] # None /\ x[p].by = t /\ x[p].frame.sequence = l[z[t].node]
        BY <2>2, <2>3, <4>1 DEF Onward
      <4>3. p # q
        <5>1. Sent(x[p], z)
          BY <1>2, <4>2 DEF Heard
        <5>2. QED
          BY <3>1, <4>2, <5>1 DEF Sent
      <4>4. QED
        BY <1>0, <4>1, <4>2, <4>3
    <3>2. CASE z[t].node = n
      <4>1. l[n] # r.frame.sequence
        <5>1. SUFFICES ASSUME l[n] = r.frame.sequence PROVE FALSE
          OBVIOUS
        <5>2. k[n] = r.previous
          BY <1>1, <5>1
        <5>3. r.previous \in Nat /\ r.previous < z[t].total
          BY <2>2, <2>3, <3>2, <5>2 DEF Onward
        <5>4. QED
          BY <2>1, <2>3, <3>2, <5>2, <5>3
      <4>2. k[n] = l[n]
        BY <1>1, <4>1
      <4>3. PICK p \in Slots : x[p] # None /\ x[p].by = t /\ x[p].frame.sequence = l[n]
        BY <2>2, <2>3, <3>2, <4>2 DEF Onward
      <4>4. p # q
        BY <4>1, <4>3
      <4>5. QED
        BY <1>0, <3>2, <4>2, <4>3, <4>4
    <3>3. QED
      BY <3>1, <3>2
  <2>4. \A u \in i \ {r} : u.frame.node = z[t].node => u.previous = None \/ u.previous < z[t].total
    BY <2>2 DEF Onward
  <2>5. QED
    BY <2>3, <2>4 DEF Onward
<1>6. QED
  BY <1>4, <1>5 DEF Counting

\* A session starts: if it has the node to itself, the node has no number.
LEMMA StartingCounts ==
  ASSUME NEW z, NEW y, NEW x, NEW l, NEW i, NEW h, NEW g, NEW s \in Sessions,
         Counting(z, x, l, i, h), SessionTypes(y), Joined(h, g, x),
         z[s] = None, y[s] # None, \A t \in Sessions \ {s} : y[t] = z[t],
         \A r \in i : l[r.frame.node] # None
  PROVE  Counting(y, x, l, i, g)
<1>1. Heard(z, x, l, h)
  BY DEF Counting
<1>2. ASSUME NEW p \in Slots, x[p] # None, x[p].by \in Sessions
      PROVE  Sent(x[p], y)
  BY <1>1, <1>2 DEF Heard, Sent
<1>3. Heard(y, x, l, g)
  BY <1>1, <1>2, StillHeard
<1>4. ASSUME NEW t \in Sessions, Sole(t, y, g)
      PROVE  Onward(t, y, x, l, i)
  <2>1. y[t].node \in Nodes /\ h[y[t].node] \subseteq {t}
    BY <1>4 DEF Sole, SessionTypes, Joined
  <2>2. CASE t = s
    <3>1. h[y[s].node] = {}
      BY <1>1, <2>1, <2>2 DEF Heard
    <3>2. l[y[s].node] = None
      BY <1>1, <2>1, <2>2, <3>1 DEF Heard
    <3>3. QED
      BY <2>2, <3>2 DEF Onward
  <2>3. CASE t # s
    <3>1. y[t] = z[t] /\ Sole(t, z, h)
      BY <1>4, <2>1, <2>3 DEF Sole
    <3>2. Onward(t, z, x, l, i)
      BY <3>1 DEF Counting
    <3>3. QED
      BY <3>1, <3>2 DEF Onward
  <2>4. QED
    BY <2>2, <2>3
<1>5. QED
  BY <1>3, <1>4 DEF Counting

\* No number moves, no frame is counted, and no request begins or ends.
LEMMA RestingCounts ==
  ASSUME NEW z, NEW y, NEW x, NEW l, NEW i, NEW h, NEW g, Counting(z, x, l, i, h),
         SessionTypes(y), Joined(h, g, x),
         \A t \in Sessions :
           /\ y[t] = None <=> z[t] = None
           /\ z[t] # None => /\ y[t].node = z[t].node /\ y[t].asset = z[t].asset
                             /\ y[t].total = z[t].total
  PROVE  Counting(y, x, l, i, g)
<1>1. Heard(z, x, l, h)
  BY DEF Counting
<1>2. ASSUME NEW p \in Slots, x[p] # None, x[p].by \in Sessions
      PROVE  Sent(x[p], y)
  BY <1>1, <1>2 DEF Heard, Sent
<1>3. Heard(y, x, l, g)
  BY <1>1, <1>2, StillHeard
<1>4. ASSUME NEW t \in Sessions, Sole(t, y, g)
      PROVE  Onward(t, y, x, l, i)
  <2>1. y[t].node \in Nodes /\ h[y[t].node] \subseteq {t}
    BY <1>4 DEF Sole, SessionTypes, Joined
  <2>2. z[t] # None /\ y[t].node = z[t].node /\ y[t].total = z[t].total
    BY <1>4 DEF Sole
  <2>3. Onward(t, z, x, l, i)
    BY <2>1, <2>2 DEF Counting, Sole
  <2>4. QED
    BY <2>2, <2>3 DEF Onward
<1>5. QED
  BY <1>3, <1>4 DEF Counting

LEMMA CountingOn ==
  ASSUME NEW u \in Session, NEW c, NEW opened \in BOOLEAN, NEW y, y = Counted(u, c, opened)
  PROVE  y.total = u.total + 1 /\ y.node = u.node /\ y.asset = u.asset
<1>1. u.total \in Nat /\ u.accepted \in Nat /\ u.rejected \in Nat /\ u.incident \in BOOLEAN
  BY DEF Session
<1> DEFINE opens == u.incident \/ opened
           n == u.total + 1
           m == u.accepted + 1
           k == u.rejected + 1
<1>2. CASE Reading[c].accepted
  <2>1. y = [u EXCEPT !.total = n, !.accepted = m, !.incident = opens]
    BY <1>2 DEF Counted
  <2> HIDE DEF n, m, opens
  <2>2. y.total = n /\ y.node = u.node /\ y.asset = u.asset
    BY <2>1 DEF Session
  <2>3. QED
    BY <2>2 DEF n
<1>3. CASE ~Reading[c].accepted
  <2>1. y = [u EXCEPT !.total = n, !.rejected = k, !.status = "degraded", !.incident = opens]
    BY <1>3 DEF Counted
  <2> HIDE DEF n, k, opens
  <2>2. y.total = n /\ y.node = u.node /\ y.asset = u.asset
    BY <2>1 DEF Session
  <2>3. QED
    BY <2>2 DEF n
<1>4. QED
  BY <1>2, <1>3

Moves(q, r) ==
  Goes(q, r, sessions, requests, sessions', requests') /\ Grown(sessions, sessions')

LEMMA SameGrown ==
  ASSUME SessionsOK, sessions' = sessions
  PROVE  Grown(sessions, sessions')
BY DEF SessionsOK, Grown, Session

\* The request of somebody who is not a session ends.
LEMMA EndedMoves ==
  ASSUME SessionsOK, SlotsOK, NEW q \in Slots, NEW r, r.by \notin Sessions,
         Ended(q), sessions' = sessions
  PROVE  Moves(q, r)
<1>1. requests'[q] = None /\ \A p \in Slots \ {q} : requests'[p] = requests[p]
  BY DEF SlotsOK, Ended
<1>2. QED
  BY <1>1, SameGrown DEF Moves, Goes, Elsewhere

LEMMA RespondMoves ==
  ASSUME SessionsOK, SlotsOK, SessionAssumption, NEW q \in Slots, NEW r \in Request,
         r.by \in Sessions => sessions[r.by] # None, NEW opened \in BOOLEAN, Respond(q, r, opened)
  PROVE  Moves(q, r)
<1>1. CASE r.by \notin Sessions
  BY <1>1, EndedMoves DEF Respond
<1>2. CASE r.by \in Sessions
  <2> DEFINE s == r.by
             u == sessions[s]
             y == Counted(u, r.frame.content, opened)
  <2>1. sessions' = [sessions EXCEPT ![s] = y] /\ requests' = [requests EXCEPT ![q] = None]
    BY <1>2 DEF Respond, Ended
  <2>2. u \in Session /\ u.total = u.accepted + u.rejected
    BY <1>2 DEF SessionsOK
  <2>3. y.total = u.total + 1 /\ y.node = u.node /\ y.asset = u.asset
    BY <2>2, CountingOn
  <2>4. y \in Session /\ y # None
    BY <2>2, CountedType DEF SessionAssumption
  <2>5. u.total \in Nat
    BY <2>2 DEF Session
  <2> HIDE DEF y
  <2>6. sessions'[s] = y /\ \A t \in Sessions : t # s => sessions'[t] = sessions[t]
    BY <1>2, <2>1 DEF SessionsOK
  <2>7. requests'[q] = None /\ \A p \in Slots \ {q} : requests'[p] = requests[p]
    BY <2>1 DEF SlotsOK
  <2>8. Goes(q, r, sessions, requests, sessions', requests')
    BY <2>3, <2>5, <2>6, <2>7 DEF Goes, Elsewhere
  <2>9. Grown(sessions, sessions')
    <3>1. ASSUME NEW t \in Sessions, t # s, sessions[t] # None
          PROVE  sessions[t].total <= sessions'[t].total
      <4>1. sessions[t].total \in Nat
        BY <3>1 DEF SessionsOK, Session
      <4>2. QED
        BY <2>6, <3>1, <4>1
    <3>2. u.total <= y.total
      BY <2>3, <2>5
    <3>3. QED
      BY <1>2, <2>3, <2>4, <2>6, <3>1, <3>2 DEF Grown
  <2>10. QED
    BY <2>8, <2>9 DEF Moves
<1>3. QED
  BY <1>1, <1>2

LEMMA AnalyseMoves ==
  ASSUME Assumptions, SessionsOK, SlotsOK, NEW q \in Slots, NEW r \in Request,
         r.by \in Sessions => sessions[r.by] # None, NEW k \in Nat, Analyse(q, r, k)
  PROVE  Moves(q, r)
<1>1. CASE Suspension(k) <= Len(AnalysisTools)
  <2> DEFINE j == Suspension(k)
             heard == r.heard \/ InventoryHeard(k)
             x == [r EXCEPT !.tool = j, !.heard = heard]
  <2>1. j \in Nat /\ heard \in BOOLEAN
    BY SuspensionType DEF Assumptions, InventoryHeard, Request
  <2>2. requests' = [requests EXCEPT ![q] = x] /\ sessions' = sessions
    BY <1>1 DEF Analyse
  <2> HIDE DEF j, heard
  <2>3. x \in Request /\ x.frame = r.frame /\ x.by = r.by
    BY <2>1 DEF Request
  <2>4. x # None
    BY <2>3, RequestAssumption
  <2> HIDE DEF x
  <2>5. requests'[q] = x /\ \A p \in Slots \ {q} : requests'[p] = requests[p]
    BY <2>2 DEF SlotsOK
  <2>6. Grown(sessions, sessions')
    BY <2>2, SameGrown
  <2>7. QED
    BY <2>2, <2>3, <2>4, <2>5, <2>6 DEF Moves, Goes, Elsewhere
<1>2. CASE ~(Suspension(k) <= Len(AnalysisTools))
  <2>1. Respond(q, r, TRUE)
    BY <1>2 DEF Analyse
  <2>2. QED
    BY <2>1, RespondMoves DEF Assumptions
<1>3. QED
  BY <1>1, <1>2

\* A session knows its machine, so that its request does not end without an incident.
LEMMA OpeningMoves ==
  ASSUME Assumptions, SessionsOK, SlotsOK, NEW q \in Slots, NEW r \in Request,
         r.by \in Sessions => Sent(r, sessions), OpenIncident(q, r)
  PROVE  Moves(q, r)
<1>1. CASE r.frame.asset \in KnownAssets
  <2>1. Analyse(q, r, 1) /\ 1 \in Nat
    BY <1>1 DEF OpenIncident
  <2>2. QED
    BY <2>1, AnalyseMoves DEF Sent
<1>2. CASE r.frame.asset \notin KnownAssets
  <2>1. Ended(q) /\ sessions' = sessions
    BY <1>2 DEF OpenIncident
  <2>2. r.by \notin Sessions
    BY <1>2 DEF Sent, SessionsOK, Session
  <2>3. QED
    BY <2>1, <2>2, EndedMoves
<1>3. QED
  BY <1>1, <1>2

LEMMA ContinueMoves ==
  ASSUME Assumptions, SessionsOK, SlotsOK, NEW q \in Slots, NEW r \in Request,
         r.by \in Sessions => Sent(r, sessions), Continue(q, r)
  PROVE  Moves(q, r)
<1>1. CASE Opens(r)
  BY <1>1, OpeningMoves DEF Continue
<1>2. CASE ~Opens(r)
  <2>1. Respond(q, r, FALSE) /\ FALSE \in BOOLEAN
    BY <1>2 DEF Continue
  <2>2. QED
    BY <2>1, RespondMoves DEF Assumptions, Sent
<1>3. QED
  BY <1>1, <1>2

-----------------------------------------------------------------------------
(* The steps of the server, by what they do to sessions and numbers.         *)

CountingNow == Counting(sessions, requests, last, ingesting, senders)

JoinedNow == Joined(senders, senders', requests')

\* Every step of a client is heard.
LEMMA ServedJoined ==
  ASSUME IInv, Serve
  PROVE  JoinedNow
<1>1. senders' = [n \in Nodes |-> senders[n] \cup Awaiting(n)']
  BY DEF Serve
<1>2. \A n \in Nodes : Awaiting(n)' =
        {requests'[q].by : q \in {p \in Slots : Waits(requests', p) /\ requests'[p].frame.node = n}}
  BY DEF Awaiting, Waiting, Free, Waits
<1>3. QED
  BY <1>1, <1>2 DEF JoinedNow, Joined

\* The types that the lemmas on counting ask for.
LEMMA CountingTypes ==
  ASSUME Assumptions, GatewayTypeOK, PlantInv
  PROVE  /\ SessionsOK /\ SlotsOK /\ SessionTypes(sessions) /\ NumberTypes(last)
         /\ \A u \in ingesting : u.frame \in Frame /\ (u.previous # None => u.previous \in Nat)
         /\ \A p \in Slots : requests[p] # None =>
              requests[p] \in Request /\ requests[p].frame.sequence \in Nat
<1>1. SessionsOK /\ SlotsOK
  BY SlotsFromInv DEF PlantInv
<1>2. last \in [Nodes -> Sequences \cup {None}] /\ ingesting \subseteq Reservation
  BY DEF GatewayTypeOK
<1>3. SessionTypes(sessions)
  BY <1>1 DEF SessionTypes, SessionsOK, Session, Assumptions, PlantAssumption
<1>4. NumberTypes(last)
  BY <1>2, LastNumbers DEF NumberTypes
<1>5. \A u \in ingesting : u.frame \in Frame /\ (u.previous # None => u.previous \in Nat)
  BY <1>2, ReservationFields
<1>6. ASSUME NEW p \in Slots, requests[p] # None
      PROVE  requests[p] \in Request /\ requests[p].frame.sequence \in Nat
  <2>1. requests[p] \in Request
    BY <1>6 DEF PlantInv, RequestsOK
  <2>2. QED
    BY <2>1, RequestFields, FrameNumbers
<1>7. QED
  BY <1>1, <1>2, <1>3, <1>4, <1>5, <1>6

LEMMA TypesThen ==
  ASSUME Assumptions, PlantInv'
  PROVE  SessionTypes(sessions')
BY DEF SessionTypes, PlantInv, SessionsOK, Session, Assumptions, PlantAssumption

LEMMA MovesCount ==
  ASSUME Assumptions, GatewayTypeOK, PlantInv, PlantInv', CountingNow, JoinedNow,
         last' = last, ingesting' \subseteq ingesting, NEW q \in Slots, NEW r \in Request,
         r.by \in Sessions => Sent(r, sessions), Moves(q, r),
         requests[q] = None \/ (requests[q].by = r.by /\ requests[q].frame = r.frame)
  PROVE  CountingNow'
<1>1. /\ SessionTypes(sessions) /\ SessionTypes(sessions') /\ NumberTypes(last)
      /\ \A u \in ingesting : u.previous # None => u.previous \in Nat
      /\ \A p \in Slots : requests[p] # None => requests[p].frame.sequence \in Nat
  BY CountingTypes, TypesThen
<1>2. r.frame.sequence \in Nat
  BY RequestFields, FrameNumbers
<1>3. Goes(q, r, sessions, requests, sessions', requests') /\ Grown(sessions, sessions')
  BY DEF Moves
<1>4. Counting(sessions', requests', last, ingesting', senders')
  BY <1>1, <1>2, <1>3, GoingCounts DEF CountingNow, JoinedNow
<1>5. QED
  BY <1>4 DEF CountingNow

\* Neither a number nor a request changes, nor what a session has counted.
LEMMA NothingCounted ==
  ASSUME Assumptions, PlantInv', CountingNow, JoinedNow, UNCHANGED <<requests, last, ingesting>>,
         \A t \in Sessions :
           /\ sessions'[t] = None <=> sessions[t] = None
           /\ sessions[t] # None => /\ sessions'[t].node = sessions[t].node
                                    /\ sessions'[t].asset = sessions[t].asset
                                    /\ sessions'[t].total = sessions[t].total
  PROVE  CountingNow'
<1>1. Joined(senders, senders', requests) /\ SessionTypes(sessions')
  BY TypesThen DEF JoinedNow
<1>2. Counting(sessions', requests, last, ingesting, senders')
  BY <1>1, RestingCounts DEF CountingNow
<1>3. QED
  BY <1>2 DEF CountingNow

\* The requester b begins to wait for the inference of a frame f.
LEMMA ReservedCounts ==
  ASSUME Assumptions, GatewayTypeOK, PlantInv, CountingNow, JoinedNow, sessions' = sessions,
         NEW q \in Slots, requests[q] = None \/ requests[q].by \notin Sessions,
         NEW f \in Frame, NEW x \in Request, x.by \notin Sessions, x.tool = 0, x.frame = f,
         requests' = [requests EXCEPT ![q] = x],
         last' = [last EXCEPT ![f.node] = f.sequence],
         NEW v, v.frame = f, ingesting' \subseteq ingesting \cup {v}
  PROVE  CountingNow'
<1>1. SlotsOK /\ SessionTypes(sessions) /\ NumberTypes(last) /\ f.node \in Nodes
  BY CountingTypes, FrameFields
<1>2. requests'[q] = x /\ x # None /\ Elsewhere(requests, requests', q)
  BY <1>1, RequestAssumption DEF SlotsOK, Elsewhere
<1>3. Renumbered(last, last', f.node, f.sequence)
  BY <1>1 DEF Renumbered, NumberTypes
<1>4. /\ Counting(sessions, requests, last, ingesting, senders)
      /\ Joined(senders, senders', requests')
  BY DEF CountingNow, JoinedNow
<1>5. PICK b : b \notin Sessions /\ b = x.by
  OBVIOUS
<1> DEFINE w == requests'
<1>6. /\ Elsewhere(requests, w, q) /\ w[q] # None
      /\ w[q].tool = 0 /\ w[q].by = b /\ w[q].frame = f
  BY <1>2, <1>5
<1> HIDE DEF w
<1>7. Joined(senders, senders', w)
  BY <1>4 DEF w
<1>8. Counting(sessions, w, last', ingesting', senders')
  BY <1>1, <1>3, <1>4, <1>5, <1>6, <1>7, SendingCounts
<1>9. Counting(sessions, requests', last', ingesting', senders')
  BY <1>8 DEF w
<1>10. QED
  BY <1>9 DEF CountingNow

LEMMA ArrivingCounts ==
  ASSUME Assumptions, GatewayTypeOK, PlantInv, PlantInv', CountingNow, JoinedNow,
         NEW q \in Slots, NEW by \in Requesters, NEW f \in Frame, Arrives(q, by, f),
         by \in Sessions => /\ sessions[by] # None /\ f.node = sessions[by].node
                            /\ f.asset = sessions[by].asset /\ f.sequence = sessions[by].total
  PROVE  CountingNow'
<1> DEFINE r == NewRequest(by, f)
<1>1. r \in Request /\ r.tool = 0 /\ r.by = by /\ r.frame = f /\ r # None
  BY NewRequestType, RequestAssumption DEF Assumptions
<1>2. SessionsOK /\ SlotsOK /\ SessionTypes(sessions) /\ NumberTypes(last) /\ f.node \in Nodes
  BY CountingTypes, FrameFields
<1>3. requests[q] = None
  BY DEF Arrives, Free
<1>4. by \in Sessions => sessions[by].total \in Nat
  BY <1>2 DEF SessionTypes
<1>5. CASE Reserve(f) /\ requests' = [requests EXCEPT ![q] = r] /\ sessions' = sessions
  <2> DEFINE v == [frame |-> f, previous |-> last[f.node]]
  <2> HIDE DEF r
  <2>1. requests'[q] = r /\ Elsewhere(requests, requests', q)
    BY <1>2, <1>5 DEF SlotsOK, Elsewhere
  <2>2. /\ last[f.node] # None => f.sequence > last[f.node]
        /\ last' = [last EXCEPT ![f.node] = f.sequence] /\ ingesting' = ingesting \cup {v}
    BY <1>5 DEF Reserve, Newer
  <2>3. v.frame = f /\ v.previous = last[f.node]
    OBVIOUS
  <2> HIDE DEF v
  <2>4. Renumbered(last, last', f.node, f.sequence)
    BY <1>2, <2>2 DEF Renumbered, NumberTypes
  <2>5. by \in Sessions => NextNumber(by, f, v, sessions, last)
    BY <1>4, <2>2, <2>3 DEF NextNumber
  <2>6. Counting(sessions, requests', last', ingesting', senders')
    BY <1>1, <1>2, <1>3, <2>1, <2>2, <2>3, <2>4, <2>5, SendingCounts DEF CountingNow, JoinedNow
  <2>7. QED
    BY <1>5, <2>6 DEF CountingNow
<1>6. CASE Continue(q, r) /\ UNCHANGED gatewayVars
  <2>1. last' = last /\ ingesting' = ingesting
    BY <1>6 DEF gatewayVars, gatewayMemory
  <2>2. r.by \in Sessions => Sent(r, sessions)
    BY <1>1, <1>4 DEF Sent
  <2> HIDE DEF r
  <2>3. Moves(q, r)
    BY <1>1, <1>2, <1>6, <2>2, ContinueMoves
  <2>4. QED
    BY <1>1, <1>3, <2>1, <2>2, <2>3, MovesCount
<1>7. QED
  BY <1>5, <1>6 DEF Arrives

LEMMA SessionsCount ==
  ASSUME Assumptions, GatewayTypeOK, PlantInv, PlantInv', GatewayLine, CountingNow, JoinedNow,
         FromSessions
  PROVE  CountingNow'
<1>0. SessionsOK /\ SessionTypes(sessions')
  BY CountingTypes, TypesThen
<1>1. ASSUME NEW s \in Sessions, NEW n \in LiveNodes, NEW a \in Assets, NEW open \in BOOLEAN,
             StartSession(s, n, a, open)
      PROVE  CountingNow'
  <2> DEFINE y == [node |-> n, asset |-> a, open |-> open, status |-> "running",
                   total |-> 0, accepted |-> 0, rejected |-> 0, incident |-> FALSE]
  <2>1. sessions[s] = None /\ a \in KnownAssets /\ sessions' = [sessions EXCEPT ![s] = y]
        /\ UNCHANGED <<requests, last, ingesting>>
    BY <1>1 DEF StartSession, Register
  <2>2. y \in Session
    BY <2>1 DEF Session, SessionStatus
  <2>3. y # None
    BY <2>2 DEF Assumptions, SessionAssumption
  <2> HIDE DEF y
  <2>4. sessions'[s] = y /\ \A t \in Sessions \ {s} : sessions'[t] = sessions[t]
    BY <1>0, <2>1 DEF SessionsOK
  <2>5. \A r \in ingesting : last[r.frame.node] # None
    BY DEF GatewayLine, Books, Reached
  <2>6. Joined(senders, senders', requests)
    BY <2>1 DEF JoinedNow
  <2>7. Counting(sessions', requests, last, ingesting, senders')
    BY <1>0, <2>1, <2>3, <2>4, <2>5, <2>6, StartingCounts DEF CountingNow
  <2>8. QED
    BY <2>1, <2>7 DEF CountingNow
<1>2. ASSUME NEW s \in Sessions, StopSession(s)
      PROVE  CountingNow'
  <2> DEFINE y == [sessions[s] EXCEPT !.status = "stopped"]
  <2>1. sessions[s] \in Session /\ sessions[s] # None
        /\ sessions' = [sessions EXCEPT ![s] = y] /\ UNCHANGED <<requests, last, ingesting>>
    BY <1>0, <1>2 DEF StopSession, SessionsOK, gatewayVars, gatewayMemory
  <2>2. /\ y \in Session /\ y.node = sessions[s].node /\ y.asset = sessions[s].asset
        /\ y.total = sessions[s].total
    BY <2>1 DEF Session, SessionStatus
  <2>3. y # None
    BY <2>2 DEF Assumptions, SessionAssumption
  <2> HIDE DEF y
  <2>4. sessions'[s] = y /\ \A t \in Sessions \ {s} : sessions'[t] = sessions[t]
    BY <1>0, <2>1 DEF SessionsOK
  <2>5. ASSUME NEW t \in Sessions
        PROVE  /\ sessions'[t] = None <=> sessions[t] = None
               /\ sessions[t] # None => /\ sessions'[t].node = sessions[t].node
                                        /\ sessions'[t].asset = sessions[t].asset
                                        /\ sessions'[t].total = sessions[t].total
    BY <2>1, <2>2, <2>3, <2>4
  <2>6. QED
    BY <2>1, <2>5, NothingCounted
<1>3. ASSUME NEW q \in Slots, NEW s \in Sessions, NEW c \in Contents, LiveFrame(q, s, c)
      PROVE  CountingNow'
  <2> DEFINE f == FrameOf(s, sessions[s].node, sessions[s].asset, sessions[s].total, c)
  <2>1. sessions[s] # None /\ sessions[s].total <= MaxSequence /\ Arrives(q, s, f)
    BY <1>3 DEF LiveFrame
  <2>2. sessions[s] \in Session /\ s \in Requesters
    BY <1>0, <2>1, RequesterKinds DEF SessionsOK
  <2>3. sessions[s].node \in Nodes /\ sessions[s].asset \in Assets /\ sessions[s].total \in Nat
    BY <2>2 DEF Session, Assumptions, PlantAssumption
  <2>4. sessions[s].total \in Sequences
    BY <2>1, <2>3 DEF Sequences, Assumptions, GatewayAssumption
  <2>5. f \in Frame
    BY <2>2, <2>3, <2>4, FrameOfType
  <2>6. f.node = sessions[s].node /\ f.asset = sessions[s].asset /\ f.sequence = sessions[s].total
    BY DEF FrameOf
  <2> HIDE DEF f
  <2>7. QED
    BY <2>1, <2>2, <2>5, <2>6, ArrivingCounts
<1>4. QED
  BY <1>1, <1>2, <1>3 DEF FromSessions

LEMMA NodesCount ==
  ASSUME Assumptions, GatewayTypeOK, PlantInv, PlantInv', CountingNow, JoinedNow, FromNodes
  PROVE  CountingNow'
<1>1. ASSUME NEW n \in BenchNodes, NEW a \in Assets, RegisterBench(n, a)
      PROVE  CountingNow'
  <2>1. UNCHANGED <<sessions, requests, last, ingesting>>
    BY <1>1 DEF RegisterBench, Register
  <2>2. QED
    BY <2>1, NothingCounted
<1>2. ASSUME NEW q \in Slots, NEW n \in BenchNodes, NEW number \in Sequences, NEW c \in Contents,
             BenchFrame(q, n, number, c)
      PROVE  CountingNow'
  <2> DEFINE f == FrameOf("bench", n, registered[n], number, c)
  <2>1. registered[n] # None /\ Arrives(q, "bench", f)
    BY <1>2 DEF BenchFrame
  <2>2. n \in Nodes /\ registered[n] \in Assets
    BY <2>1 DEF GatewayTypeOK, Assumptions, PlantAssumption
  <2>3. "bench" \in Requesters /\ "bench" \notin Sessions
    BY RequesterKinds
  <2>4. f \in Frame
    BY <2>2, <2>3, FrameOfType
  <2> HIDE DEF f
  <2>5. QED
    BY <2>1, <2>3, <2>4, ArrivingCounts
<1>3. QED
  BY <1>1, <1>2 DEF FromNodes

LEMMA FilesCount ==
  ASSUME Assumptions, GatewayTypeOK, PlantInv, PlantInv', CountingNow, JoinedNow, FromFiles
  PROVE  CountingNow'
<1>0. /\ SessionsOK /\ SlotsOK /\ CsvNode \in Nodes
      /\ "csv" \in Requesters /\ "csv" \notin Sessions
  BY CountingTypes, RequesterKinds DEF Assumptions, PlantAssumption
<1>1. ASSUME NEW q \in Slots, NEW file \in CsvFiles, NEW a \in Assets, NEW c \in Contents,
             UploadCsv(q, file, a, c)
      PROVE  CountingNow'
  <2> DEFINE f == FrameOf("csv", CsvNode, a, 0, c)
             r == NewRequest("csv", f)
             starts == Starts(file.length, file.window, file.hop) \ {0}
             x == [r EXCEPT !.starts = starts]
             v == [frame |-> f, previous |-> last[f.node]]
  <2>1. f \in Frame
    BY <1>0, NumberZeroType
  <2>2. r \in Request /\ r.tool = 0 /\ r.by = "csv" /\ r.frame = f
    BY <1>0, <2>1, NewRequestType DEF Assumptions
  <2>3. starts \subseteq Nat
    <3>1. file.length \in Nat /\ file.window \in Nat /\ file.hop \in Nat /\ file.hop > 0
      BY DEF Assumptions, PlantAssumption
    <3>2. LastStart(file.length, file.window) \in Nat
      BY <3>1 DEF LastStart
    <3>3. QED
      BY <3>1, <3>2, SMT DEF Starts, RegularStarts
  <2>4. /\ requests[q] = None /\ requests' = [requests EXCEPT ![q] = x] /\ sessions' = sessions
        /\ last' = [last EXCEPT ![f.node] = f.sequence] /\ ingesting' = ingesting \cup {v}
    BY <1>1 DEF UploadCsv, Free, RegisterAndReserve
  <2> HIDE DEF f, r, starts
  <2>5. x \in Request /\ x.tool = 0 /\ x.by = "csv" /\ x.frame = f
    BY <2>2, <2>3 DEF Request
  <2>6. v.frame = f
    OBVIOUS
  <2> HIDE DEF x, v
  <2>7. QED
    BY <1>0, <2>1, <2>4, <2>5, <2>6, ReservedCounts
<1>2. ASSUME NEW q \in Slots, NEW c \in Contents, NextWindow(q, c)
      PROVE  CountingNow'
  <2> DEFINE r == requests[q]
             n == r.frame.sequence + 1
             f == [r.frame EXCEPT !.sequence = n, !.content = c]
             u == WithWindow(r)
             starts == u.starts \ {Least(u.starts)}
             x == [u EXCEPT !.frame = f, !.starts = starts]
             v == [frame |-> f, previous |-> r.frame.sequence]
  <2>1. r \in Request /\ r.tool = 0 /\ r.by = "csv"
    BY <1>2, InSlot DEF NextWindow, Waiting
  <2>2. r.frame \in Frame /\ r.frame.sequence \in Nat
    BY <2>1, RequestFields, FrameNumbers
  <2>3. /\ f.sequence <= MaxSequence /\ CommitAndReserve(q, f)
        /\ requests' = [requests EXCEPT ![q] = x] /\ sessions' = sessions
    BY <1>2 DEF NextWindow
  <2>4. f.sequence = n
    BY <2>2 DEF Frame
  <2>5. n \in Sequences
    BY <2>2, <2>3, <2>4, SMTT(30) DEF Sequences, Assumptions, GatewayAssumption
  <2>6. f \in Frame
    <3> HIDE DEF n
    <3>1. QED
      BY <2>2, <2>5 DEF Frame
  <2>7. u \in Request /\ u.by = "csv" /\ u.tool = 0
    BY <2>1, WindowKept
  <2>8. /\ last' = [last EXCEPT ![f.node] = f.sequence]
        /\ ingesting' \subseteq ingesting \cup {v} /\ v.frame = f
    BY <2>3 DEF CommitAndReserve
  <2> HIDE DEF f, u, v
  <2>9. starts \subseteq Nat
    BY <2>7 DEF Request
  <2> HIDE DEF starts
  <2>10. x \in Request /\ x.tool = 0 /\ x.by = "csv" /\ x.frame = f
    BY <2>6, <2>7, <2>9 DEF Request
  <2> HIDE DEF x
  <2>11. requests[q].by \notin Sessions /\ x.by \notin Sessions
    BY <1>0, <2>1, <2>10
  <2>12. QED
    BY <2>3, <2>6, <2>8, <2>10, <2>11, ReservedCounts
<1>3. ASSUME NEW q \in Slots, LastWindow(q)
      PROVE  CountingNow'
  <2> DEFINE r == WithWindow(requests[q])
  <2>1. requests[q] \in Request /\ requests[q].by = "csv"
    BY <1>3, InSlot DEF LastWindow, Waiting
  <2>2. r \in Request /\ r.by = "csv" /\ r.frame = requests[q].frame
    BY <2>1, WindowKept
  <2>3. Commit(ReservationOf(q))
        /\ IF r.worst = {} THEN Ended(q) /\ UNCHANGED <<workflowVars, sessions>>
           ELSE \E c \in r.worst : OpenIncident(q, [r EXCEPT !.observation = Reading[c].observation])
    BY <1>3 DEF LastWindow
  <2>4. last' = last /\ ingesting' \subseteq ingesting
    BY <2>3 DEF Commit
  <2> HIDE DEF r
  <2>5. CASE r.worst = {}
    <3>1. Moves(q, r)
      BY <1>0, <2>2, <2>3, <2>5, EndedMoves
    <3>2. QED
      BY <1>0, <2>1, <2>2, <2>4, <3>1, MovesCount
  <2>6. CASE r.worst # {}
    <3>1. PICK c \in r.worst : OpenIncident(q, [r EXCEPT !.observation = Reading[c].observation])
      BY <2>3, <2>6
    <3> DEFINE o == Reading[c].observation
               x == [r EXCEPT !.observation = o]
    <3>2. o \in Observation
      BY <2>2, RequestFields, ReadingType DEF Assumptions
    <3> HIDE DEF o
    <3>3. x \in Request /\ x.by = "csv" /\ x.frame = r.frame
      BY <2>2, <3>2 DEF Request
    <3>4. OpenIncident(q, x)
      BY <3>1 DEF o
    <3> HIDE DEF x
    <3>5. Moves(q, x)
      BY <1>0, <3>3, <3>4, OpeningMoves
    <3>6. QED
      BY <1>0, <2>1, <2>2, <2>4, <3>3, <3>5, MovesCount
  <2>7. QED
    BY <2>5, <2>6
<1>4. QED
  BY <1>1, <1>2, <1>3 DEF FromFiles

LEMMA CampaignsCount ==
  ASSUME Assumptions, GatewayTypeOK, PlantInv, PlantInv', CountingNow, JoinedNow, FromCampaigns
  PROVE  CountingNow'
<1>0. /\ SessionsOK /\ SlotsOK
      /\ "campaign" \in Requesters /\ "campaign" \notin Sessions
  BY CountingTypes, RequesterKinds
<1>1. ASSUME NEW q \in Slots, StartCampaign(q)
      PROVE  CountingNow'
  <2> DEFINE f == Signal(1)
             r == NewRequest("campaign", f)
             v == [frame |-> f, previous |-> last[f.node]]
  <2>1. f \in Frame
    <3>1. Len(CampaignSignals) \in Nat /\ Len(CampaignSignals) >= 1
      BY LenProperties DEF Assumptions, PlantAssumption
    <3>2. QED
      BY <3>1, SignalType
  <2>2. r \in Request /\ r.tool = 0 /\ r.by = "campaign" /\ r.frame = f
    BY <1>0, <2>1, NewRequestType DEF Assumptions
  <2>3. requests[q] = None /\ sessions' = sessions
    BY <1>1 DEF StartCampaign, Free
  <2>4. CASE RegisterAndReserve(f) /\ requests' = [requests EXCEPT ![q] = r]
    <3>1. last' = [last EXCEPT ![f.node] = f.sequence] /\ ingesting' = ingesting \cup {v}
      BY <2>4 DEF RegisterAndReserve
    <3>2. v.frame = f
      OBVIOUS
    <3> HIDE DEF f, r, v
    <3>3. QED
      BY <1>0, <2>1, <2>2, <2>3, <2>4, <3>1, <3>2, ReservedCounts
  <2>5. CASE Register(CampaignNode, CampaignAsset) /\ UNCHANGED requests
    <3>1. UNCHANGED <<sessions, requests, last, ingesting>>
      BY <2>3, <2>5 DEF Register
    <3>2. QED
      BY <3>1, NothingCounted
  <2>6. QED
    BY <1>1, <2>4, <2>5 DEF StartCampaign
<1>2. ASSUME NEW q \in Slots, NextSignal(q)
      PROVE  CountingNow'
  <2> DEFINE r == requests[q]
             k == SignalsSent(q) + 1
             f == Signal(k)
             x == [r EXCEPT !.frame = f]
             v == [frame |-> f, previous |-> r.frame.sequence]
  <2>1. r \in Request /\ r.tool = 0 /\ r.by = "campaign"
    BY <1>2, InSlot DEF NextSignal, Waiting
  <2>2. k \in Nat /\ k >= 1
    BY <2>1, RequestFields, FrameNumbers DEF SignalsSent
  <2>3. /\ k <= Len(CampaignSignals) /\ CommitAndReserve(q, f)
        /\ requests' = [requests EXCEPT ![q] = x] /\ sessions' = sessions
    BY <1>2 DEF NextSignal
  <2>4. f \in Frame
    BY <2>2, <2>3, SignalType
  <2>5. /\ last' = [last EXCEPT ![f.node] = f.sequence]
        /\ ingesting' \subseteq ingesting \cup {v} /\ v.frame = f
    BY <2>3 DEF CommitAndReserve
  <2> HIDE DEF f, k, v
  <2>6. x \in Request /\ x.tool = 0 /\ x.by = "campaign" /\ x.frame = f
    BY <2>1, <2>4 DEF Request
  <2> HIDE DEF x
  <2>7. requests[q].by \notin Sessions /\ x.by \notin Sessions
    BY <1>0, <2>1, <2>6
  <2>8. QED
    BY <2>3, <2>4, <2>5, <2>6, <2>7, ReservedCounts
<1>3. ASSUME NEW q \in Slots, SpoilInventory(q)
      PROVE  CountingNow'
  <2> DEFINE r == requests[q]
             x == [r EXCEPT !.tool = 1]
  <2>1. r \in Request /\ r.by = "campaign"
    BY <1>3, InSlot DEF SpoilInventory, Waiting
  <2>2. Commit(ReservationOf(q)) /\ requests' = [requests EXCEPT ![q] = x] /\ sessions' = sessions
    BY <1>3 DEF SpoilInventory
  <2>3. last' = last /\ ingesting' \subseteq ingesting
    BY <2>2 DEF Commit
  <2> HIDE DEF r
  <2>4. x \in Request /\ x.by = r.by /\ x.frame = r.frame
    BY <2>1 DEF Request
  <2>5. x # None
    BY <2>4, RequestAssumption
  <2> HIDE DEF x
  <2>6. requests'[q] = x /\ Elsewhere(requests, requests', q)
    BY <1>0, <2>2 DEF SlotsOK, Elsewhere
  <2>7. Moves(q, r)
    BY <1>0, <2>2, <2>4, <2>5, <2>6, SameGrown DEF Moves, Goes
  <2>8. QED
    BY <1>0, <2>1, <2>3, <2>7, MovesCount DEF r
<1>4. ASSUME NEW q \in Slots, EndCampaign(q)
      PROVE  CountingNow'
  <2>1. requests[q] \in Request /\ requests[q].by = "campaign"
    BY <1>4, InSlot DEF EndCampaign
  <2>2. Ended(q) /\ UNCHANGED <<sessions, last, ingesting>>
    BY <1>4 DEF EndCampaign, gatewayVars, gatewayMemory
  <2>3. Moves(q, requests[q])
    BY <1>0, <2>1, <2>2, EndedMoves
  <2>4. QED
    BY <1>0, <2>1, <2>2, <2>3, MovesCount
<1>5. QED
  BY <1>1, <1>2, <1>3, <1>4 DEF FromCampaigns

LEMMA ReportsCount ==
  ASSUME Assumptions, GatewayTypeOK, PlantInv, PlantInv', CountingNow, JoinedNow, FromReports
  PROVE  CountingNow'
<1>1. PICK q \in Slots, a \in Assets, o \in Reported : Report(q, a, o)
  BY DEF FromReports
<1> DEFINE c == CHOOSE x \in Contents : TRUE
           f == FrameOf("report", CsvNode, a, 0, c)
           r == NewRequest("report", f)
           x == [r EXCEPT !.observation = o]
<1>2. c \in Contents
  BY DEF Reported
<1>3. o \in Observation
  BY ReadingType DEF Reported, Assumptions
<1>4. requests[q] = None /\ OpenIncident(q, x) /\ UNCHANGED gatewayVars
  BY <1>1 DEF Report, Free
<1>5. "report" \in Requesters /\ "report" \notin Sessions
  BY RequesterKinds
<1>6. f \in Frame
  <2> HIDE DEF c
  <2>1. QED
    BY <1>2, <1>5, NumberZeroType
<1> HIDE DEF f
<1>7. r \in Request /\ r.by = "report"
  BY <1>5, <1>6, NewRequestType DEF Assumptions
<1> HIDE DEF r
<1>8. x \in Request /\ x.by = "report"
  BY <1>3, <1>7 DEF Request
<1> HIDE DEF x
<1>9. Moves(q, x)
  BY <1>4, <1>5, <1>8, CountingTypes, OpeningMoves
<1>10. last' = last /\ ingesting' = ingesting
  BY <1>4 DEF gatewayVars, gatewayMemory
<1>11. QED
  BY <1>4, <1>5, <1>8, <1>9, <1>10, MovesCount

LEMMA RequestsCount ==
  ASSUME Assumptions, GatewayTypeOK, PlantInv, PlantInv', GatewayLine, CountingNow, JoinedNow,
         Proceed
  PROVE  CountingNow'
<1>1. PICK q \in Slots : Infer(q) \/ InferFails(q) \/ ToolTimesOut(q)
  BY DEF Proceed
<1> DEFINE r == requests[q]
<1>2. r # None
  BY <1>1 DEF Infer, InferFails, ToolTimesOut, Waiting, Free
<1>3. SessionsOK /\ SlotsOK /\ r \in Request
  BY <1>2, CountingTypes
<1>4. r.by \in Sessions => Sent(r, sessions)
  BY <1>2 DEF CountingNow, Counting, Heard
<1>5. CASE Infer(q)
  <2>1. Commit(ReservationOf(q)) /\ Continue(q, r)
    BY <1>5 DEF Infer
  <2>2. last' = last /\ ingesting' \subseteq ingesting
    BY <2>1 DEF Commit
  <2>3. Moves(q, r)
    BY <1>3, <1>4, <2>1, ContinueMoves
  <2>4. QED
    BY <1>3, <1>4, <2>2, <2>3, MovesCount
<1>6. CASE InferFails(q)
  <2> DEFINE u == ReservationOf(q)
             n == u.frame.node
  <2>1. u \in ingesting /\ u.frame = r.frame
    BY <1>6, OwnReservation DEF InferFails
  <2>2. /\ ingesting' = ingesting \ {u} /\ UNCHANGED sessions
        /\ last' = [last EXCEPT ![n] = IF last[n] = u.frame.sequence THEN u.previous ELSE last[n]]
        /\ requests' = [requests EXCEPT ![q] = None]
    BY <1>6 DEF InferFails, Fail, NumberAfterFailure, Ended
  <2>3. requests'[q] = None /\ \A p \in Slots \ {q} : requests'[p] = requests[p]
    BY <1>3, <2>2 DEF SlotsOK
  <2> HIDE DEF u
  <2>4. /\ SessionTypes(sessions) /\ NumberTypes(last)
        /\ (u.previous # None => u.previous \in Nat) /\ u.frame \in Frame
    BY <2>1, CountingTypes
  <2>5. n \in Nodes /\ last[n] # None
    BY <2>1, <2>4, FrameNumbers DEF GatewayLine, Books, Reached
  <2>6. /\ Counting(sessions, requests, last, ingesting, senders)
        /\ Elsewhere(requests, requests', q) /\ Joined(senders, senders', requests')
    BY <2>3 DEF CountingNow, JoinedNow, Elsewhere
  <2> DEFINE b == IF last[n] = u.frame.sequence THEN u.previous ELSE last[n]
  <2>7. Renumbered(last, last', n, b)
    <3>1. last' = [last EXCEPT ![n] = b]
      BY <2>2
    <3> HIDE DEF b, n
    <3>2. QED
      BY <2>4, <2>5, <3>1 DEF Renumbered, NumberTypes
  <2>8. Counting(sessions, requests', last', ingesting \ {u}, senders')
    BY <1>2, <2>1, <2>3, <2>4, <2>5, <2>6, <2>7, RollingBackCounts
  <2>9. QED
    BY <2>2, <2>8 DEF CountingNow
<1>7. CASE ToolTimesOut(q)
  <2> DEFINE k == r.tool + 1
  <2>1. Analyse(q, r, k) /\ UNCHANGED gatewayVars
    BY <1>7 DEF ToolTimesOut
  <2>2. k \in Nat
    BY <1>3, RequestFields
  <2> HIDE DEF k
  <2>3. Moves(q, r)
    BY <1>3, <1>4, <2>1, <2>2, AnalyseMoves DEF Sent
  <2>4. last' = last /\ ingesting' = ingesting
    BY <2>1 DEF gatewayVars, gatewayMemory
  <2>5. QED
    BY <1>3, <1>4, <2>3, <2>4, MovesCount
<1>8. QED
  BY <1>1, <1>5, <1>6, <1>7

LEMMA PeopleCount ==
  ASSUME Assumptions, PlantInv', CountingNow, JoinedNow, Decide \/ Reset \/ Disturb
  PROVE  CountingNow'
<1>1. UNCHANGED <<sessions, requests, last, ingesting>>
  BY DEF Decide, Reset, Disturb, gatewayVars, gatewayMemory
<1>2. QED
  BY <1>1, NothingCounted

LEMMA CountingKept ==
  ASSUME Assumptions, IInv, IInv', GatewayLine, CountingNow, [Next]_vars
  PROVE  CountingNow'
<1>1. GatewayTypeOK /\ PlantInv /\ PlantInv'
  BY DEF IInv
<1>2. CASE Serve
  <2>1. JoinedNow
    BY <1>2, ServedJoined
  <2>2. CASE FromSessions
    BY <1>1, <2>1, <2>2, SessionsCount
  <2>3. CASE FromNodes
    BY <1>1, <2>1, <2>3, NodesCount
  <2>4. CASE FromFiles
    BY <1>1, <2>1, <2>4, FilesCount
  <2>5. CASE FromCampaigns
    BY <1>1, <2>1, <2>5, CampaignsCount
  <2>6. CASE FromReports
    BY <1>1, <2>1, <2>6, ReportsCount
  <2>7. CASE Proceed
    BY <1>1, <2>1, <2>7, RequestsCount
  <2>8. CASE Decide \/ Reset \/ Disturb
    BY <1>1, <2>1, <2>8, PeopleCount
  <2>9. QED
    BY <1>2, <2>2, <2>3, <2>4, <2>5, <2>6, <2>7, <2>8 DEF Serve, FromPeople
<1>3. CASE Restart
  <2>1. /\ \A s \in Sessions : sessions'[s] = None
        /\ \A n \in Nodes : last'[n] = None /\ senders'[n] = {}
        /\ \A q \in Slots : requests'[q] = None
    BY <1>3 DEF Restart, ForgetMemory
  <2>2. QED
    BY <2>1 DEF CountingNow, Counting, Heard, Sole
<1>4. CASE UNCHANGED vars
  <2>1. UNCHANGED <<sessions, requests, last, ingesting, senders>>
    BY <1>4 DEF vars, plantVars, gatewayVars, gatewayMemory
  <2>2. QED
    BY <2>1 DEF CountingNow
<1>5. QED
  BY <1>2, <1>3, <1>4 DEF Next

LEMMA CountingInvariance == Spec => [](IInv /\ GatewayLine /\ CountingNow)
<1>1. Assumptions
  BY AssumptionsHold
<1>2. Init => CountingNow
  BY DEF Init, GatewayInit, EmptyMemory, CountingNow, Counting, Heard, Sole
<1>3. Init => IInv /\ GatewayLine
  BY <1>1, Initially, EmptyLine DEF Init, GatewayInit, EmptyMemory, GatewayLine
<1>4. IInv /\ GatewayLine /\ CountingNow /\ [Next]_vars => (IInv /\ GatewayLine /\ CountingNow)'
  BY <1>1, StepKeeps, LineKept, CountingKept
<1>5. QED
  BY <1>2, <1>3, <1>4, PTL DEF Spec

(* A session that runs and waits for nothing can send its next frame,       *)
(* whatever inferences failed, tools timed out and nodes registered again   *)
(* in whatever order, whoever else the server works for, unless another     *)
(* client has sent a frame of its node since the server started             *)
(* (analysis/service.py: ingest_live_frame; gateway.py: ingest).            *)
THEOREM SessionsNeverStuck == Spec => []StuckOnlyByOthers
<1>1. IInv /\ CountingNow => StuckOnlyByOthers
  <2> SUFFICES ASSUME IInv, CountingNow, NEW s \in Sessions, Stuck(s),
                      ~ \E u \in Requesters \ {s} : u \in senders[sessions[s].node]
               PROVE  FALSE
    BY DEF StuckOnlyByOthers
  <2>1. sessions[s] # None
    BY DEF Stuck
  <2>2. sessions[s].node \in Nodes
    BY <2>1, PlantAssumption DEF IInv, PlantInv, SessionsOK, Session, PlantAssumption
  <2>3. senders[sessions[s].node] \subseteq Requesters
    BY <2>2 DEF IInv
  <2>4. Sole(s, sessions, senders)
    BY <2>1, <2>3 DEF Sole
  <2>5. Onward(s, sessions, requests, last, ingesting)
    BY <2>4 DEF CountingNow, Counting
  <2>6. QED
    BY <2>5 DEF Onward, Stuck, Free
<1>2. QED
  BY <1>1, CountingInvariance, PTL

=============================================================================
