-------------------------- MODULE IncidentWorkflow --------------------------
(***************************************************************************)
(* Incidents from their analysis to the verification of the repair, the    *)
(* status of the machines, and the tools the handlers call, which a user   *)
(* can make fail.  A handler runs without interruption but for one case:   *)
(* a tool with an injected timeout suspends it, and then gives no result.  *)
(*                                                                         *)
(* The module has no next-state relation of its own: LivePlant composes    *)
(* its operations with the requests that reach the server.                 *)
(*                                                                         *)
(* Abstracted: the evidence, trace, approval and audit records of an       *)
(* incident, which no handler reads, but for the number of closings that   *)
(* the audit log shows.                                                    *)
(***************************************************************************)
EXTENDS MaintenanceAgents, Sequences

CONSTANTS
  KnownAssets,    \* assets the store is seeded with
  SeededStatus,   \* and their status then
  Observations,   \* observations incidents and repairs are reported with
  AnalysisTools,  \* the tools of create_and_analyze, in the order of the calls
  PartsTool,      \* the one that asks the inventory
  OrderTool,      \* the tool that issues a work order
  Stocked,        \* the parts asked for are in stock
  MaxIncidents,   \* bound of the incidents
  MaxFaultCalls   \* bound of the calls one injected fault spoils

Tools == {AnalysisTools[k] : k \in DOMAIN AnalysisTools} \cup {OrderTool}

ASSUME WorkflowAssumption ==
  /\ AnalysisTools \in Seq(Tools) /\ AnalysisTools # <<>>
  /\ \A k \in DOMAIN AnalysisTools : AnalysisTools[k] # OrderTool
  /\ SeededStatus \in [KnownAssets -> {"healthy", "watch"}]
  /\ Observations \subseteq Observation
  /\ Stocked \in BOOLEAN /\ MaxIncidents \in Nat /\ MaxFaultCalls \in Nat

VARIABLES
  assets,         \* the status of each machine
  incidents,      \* the saved incidents, in the order of their analysis
  faults          \* the fault injected into each tool, and the calls it still spoils

workflowVars == <<assets, incidents, faults>>

AssetStatus == {"healthy", "watch", "warning", "critical", "maintenance"}

IncidentStatus ==
  {"awaiting_approval", "in_progress", "resolved", "reopened", "escalated", "deleted"}

OrderStatus == {"none", "approved", "completed", "reopened"}

Incident == [asset: KnownAssets, status: IncidentStatus, plan: Options,
             baseline: 0..1000, order: OrderStatus, closings: Nat]

Fault == [suspends: BOOLEAN, calls: 0..MaxFaultCalls]

NoFault == [suspends |-> FALSE, calls |-> 0]

WorkflowTypeOK ==
  /\ assets \in [KnownAssets -> AssetStatus]
  /\ incidents \in Seq(Incident) /\ Len(incidents) <= MaxIncidents
  /\ faults \in [Tools -> Fault]

WorkflowInit ==
  /\ assets = SeededStatus
  /\ incidents = <<>>
  /\ faults = [t \in Tools |-> NoFault]

-----------------------------------------------------------------------------
(* Tools *)

Spoiled(t) == faults[t].calls > 0

InjectFault(t, suspends, calls) ==
  /\ faults' = [faults EXCEPT ![t] = [suspends |-> suspends, calls |-> calls]]
  /\ UNCHANGED <<assets, incidents>>

ClearFaults ==
  /\ faults' = [t \in Tools |-> NoFault]
  /\ UNCHANGED <<assets, incidents>>

\* Each tool of S has been called once more.
FaultsAfter(S) ==
  [t \in Tools |-> IF t \in S /\ Spoiled(t)
                     THEN [faults[t] EXCEPT !.calls = @ - 1] ELSE faults[t]]

\* The first of the analysis tools, from the k-th on, that suspends the handler;
\* one more than their number if none does.
Suspension(k) ==
  LET waits == {j \in k..Len(AnalysisTools) :
                  Spoiled(AnalysisTools[j]) /\ faults[AnalysisTools[j]].suspends}
  IN IF waits = {} THEN Len(AnalysisTools) + 1
     ELSE CHOOSE j \in waits : \A i \in waits : j <= i

\* The tools called from the k-th on until the handler is suspended or done.
Called(k) == {AnalysisTools[j] : j \in {i \in DOMAIN AnalysisTools : k <= i /\ i <= Suspension(k)}}

\* The inventory has been asked on the way, and has answered.
InventoryHeard(k) == PartsTool \in Called(k) /\ ~Spoiled(PartsTool)

-----------------------------------------------------------------------------
(* The last part of create_and_analyze: the machine is saved, then the incident *)

AssetAfterAnalysis(a, o) ==
  [assets EXCEPT ![a] = IF ContinuationRisk(o) = "critical" THEN "critical" ELSE "warning"]

\* heard: the inventory has answered; without an answer nothing is in stock.
Proposed(a, o, heard) ==
  [asset |-> a, status |-> "awaiting_approval",
   plan |-> Recommended(o, heard /\ Stocked),
   baseline |-> HealthScore(o), order |-> "none", closings |-> 0]

SaveAnalysis(a, o, heard) ==
  /\ Len(incidents) < MaxIncidents
  /\ assets' = AssetAfterAnalysis(a, o)
  /\ incidents' = Append(incidents, Proposed(a, o, heard))

-----------------------------------------------------------------------------
(* approve *)

\* Mutant of Approvable: a plan sent back for evidence can be approved as well.
ApprovableOnceMore(i) == incidents[i].status \in {"awaiting_approval", "reopened"}

Approvable(i) == incidents[i].status = "awaiting_approval"

Reject(i) ==
  /\ Approvable(i)
  /\ incidents' = [incidents EXCEPT ![i].status = "escalated"]
  /\ UNCHANGED <<assets, faults>>

RequestEvidence(i) ==
  /\ Approvable(i)
  /\ incidents' = [incidents EXCEPT ![i].status = "reopened"]
  /\ UNCHANGED <<assets, faults>>

AssetAfterApproval(i) == [assets EXCEPT ![incidents[i].asset] = "maintenance"]

Approve(i) ==
  /\ Approvable(i) /\ ~Spoiled(OrderTool)
  /\ assets' = AssetAfterApproval(i)
  /\ incidents' = [incidents EXCEPT ![i].status = "in_progress", ![i].order = "approved"]
  /\ UNCHANGED faults

\* A spoiled tool: at once, or after the suspension, an exception, and nothing
\* is saved.
ApproveFails(i) ==
  /\ Approvable(i) /\ Spoiled(OrderTool)
  /\ faults' = FaultsAfter({OrderTool})
  /\ UNCHANGED <<assets, incidents>>

-----------------------------------------------------------------------------
(* verify *)

Verifiable(i) == incidents[i].order # "none"

\* Mutant of AssetAfterVerification: a failed repair leaves the machine alone.
AssetAfterSuccess(i, o) ==
  IF Passes(incidents[i].baseline, o)
    THEN [assets EXCEPT ![incidents[i].asset] = "healthy"] ELSE assets

AssetAfterVerification(i, o) ==
  [assets EXCEPT ![incidents[i].asset] =
     IF Passes(incidents[i].baseline, o) THEN "healthy" ELSE "warning"]

\* A passed verification raises the baseline of the next one.
Verify(i, o) ==
  /\ Verifiable(i)
  /\ assets' = AssetAfterVerification(i, o)
  /\ incidents' =
       IF Passes(incidents[i].baseline, o)
         THEN [incidents EXCEPT ![i].status = "resolved", ![i].order = "completed",
                                ![i].baseline = HealthScore(o), ![i].closings = @ + 1]
         ELSE [incidents EXCEPT ![i].status = "reopened", ![i].order = "reopened"]
  /\ UNCHANGED faults

-----------------------------------------------------------------------------
(* The demonstration, the store and its loss *)

\* /demo/reset: every record is deleted, the machines are seeded again.
ResetDemo ==
  /\ incidents' = [i \in DOMAIN incidents |->
                     [incidents[i] EXCEPT !.status = "deleted", !.order = "none", !.closings = 0]]
  /\ assets' = SeededStatus
  /\ UNCHANGED faults

\* What a handler has saved when the process dies before its second save.
HalfSaved ==
  {AssetAfterAnalysis(a, o) : a \in KnownAssets, o \in Observations}
  \cup {AssetAfterApproval(i) : i \in {j \in DOMAIN incidents : Approvable(j) /\ ~Spoiled(OrderTool)}}
  \cup UNION {{AssetAfterVerification(i, o) : o \in Observations} :
              i \in {j \in DOMAIN incidents : Verifiable(j)}}

\* The store keeps what was saved, the faults are forgotten.
WorkflowRestart ==
  /\ assets' \in {assets} \cup HalfSaved
  /\ faults' = [t \in Tools |-> NoFault]
  /\ UNCHANGED incidents

-----------------------------------------------------------------------------
(* What holds of the workflow whoever calls it *)

\* A machine shown in maintenance has an incident whose repair nobody has
\* verified, although the two are saved one after the other and other incidents
\* of the machine are analysed and verified meanwhile (orchestrator.py:318-322,
\* 367-379).
MaintenanceExplained ==
  \A a \in KnownAssets :
    assets[a] = "maintenance" =>
      \E i \in DOMAIN incidents :
        /\ incidents[i].asset = a /\ incidents[i].status # "deleted"
        /\ incidents[i].order \in {"none", "approved"}

Stage(i) ==
  IF i > Len(incidents) THEN "unknown"
  ELSE CASE incidents[i].status = "awaiting_approval" -> "proposed"
         [] incidents[i].status = "in_progress" /\ incidents[i].order = "approved" -> "ordered"
         [] incidents[i].status = "resolved" /\ incidents[i].order = "completed" -> "closed"
         [] incidents[i].status = "reopened" /\ incidents[i].order = "reopened" -> "returned"
         [] incidents[i].status = "deleted" -> "forgotten"
         [] OTHER -> "refused"

CaseOf(i) ==
  [stage |-> Stage(i),
   orders |-> IF i <= Len(incidents) /\ incidents[i].order # "none" THEN 1 ELSE 0,
   closings |-> IF i <= Len(incidents) THEN incidents[i].closings ELSE 0]

Promised == INSTANCE IncidentLifecycle
  WITH Incidents <- 1..MaxIncidents, case <- [i \in 1..MaxIncidents |-> CaseOf(i)]

\* Approvals, verifications, failing tools, resets and restarts, in any order,
\* keep to IncidentLifecycle (orchestrator.py:226-390, verification.py:11-28).
ImplementsLifecycle == Promised!Spec

=============================================================================
