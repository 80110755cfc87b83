----------------------------- MODULE LivePlant -----------------------------
(***************************************************************************)
(* The running server with everything that opens incidents: live analysis  *)
(* sessions, frames of bench nodes, uploaded CSV files and direct reports, *)
(* over one bench gateway and one incident workflow.  Handlers run on one  *)
(* event loop: a request gives way to others only while it waits for the   *)
(* inference of its frame or for a tool with an injected timeout.  Each of *)
(* the concurrent requests has a slot.                                     *)
(***************************************************************************)
EXTENDS BenchGateway, IncidentWorkflow, BenchSignal, CsvWindows

CONSTANTS
  Slots,          \* requests in progress at a time
  Sessions,       \* identifiers of live sessions
  Mixes,          \* the kinds of clients that may meet in a behaviour
  LiveNodes,      \* nodes the clients of live sessions name
  BenchNodes,     \* nodes that send frames on their own, those of sessions or others
  CsvNode,        \* the node of an uploaded file
  CampaignNode,   \* the node of a fault campaign
  CampaignAsset,  \* the machine it is registered for
  CampaignSignals,\* the generated signals it sends
  CsvFiles,       \* length, window size and hop size of the files, in samples
  Measurement     \* the features of each content

\* Who makes requests: the sessions by name, everyone else by kind.
Requesters == Sessions \cup {"bench", "csv", "campaign", "report"}

Kinds == {"sessions", "nodes", "files", "campaigns", "reports", "people", "faults"}

\* What quality check and inference tell of each content.
Reading ==
  [c \in Contents |->
     [accepted |-> Accepted(Measurement[c]), faulty |-> Faulty(Measurement[c]),
      opening |-> Measurement[c].asks, observation |-> IncidentInput(Measurement[c])]]

ASSUME PlantAssumption ==
  /\ Mixes \subseteq SUBSET Kinds
  /\ Requesters \subseteq Origins
  /\ LiveNodes \cup BenchNodes \cup {CsvNode, CampaignNode} \subseteq Nodes
  /\ CsvNode \notin LiveNodes \cup BenchNodes \cup {CampaignNode}
  /\ CampaignNode \notin LiveNodes \cup BenchNodes
  /\ CampaignAsset \in KnownAssets
  /\ CampaignSignals \in Seq(Contents) /\ Len(CampaignSignals) \in 1..(MaxSequence + 1)
  /\ KnownAssets \subseteq Assets
  /\ CsvFiles \subseteq [length: Nat, window: Nat \ {0}, hop: Nat \ {0}]
  /\ Measurement \in [Contents -> Signals]
  /\ \A c \in Contents : Reading[c].accepted => Reading[c].observation \in Observations
  /\ Sessions \cap {"bench", "csv", "campaign", "report"} = {}

VARIABLES
  clients,        \* the kinds of clients of this behaviour
  sessions,       \* the state of each live session, or None
  requests,       \* what each slot is working on, or None
  senders         \* history: who has had a number of each node reserved

plantVars == <<clients, sessions, requests, senders>>
vars == <<gatewayVars, workflowVars, plantVars>>

SessionStatus == {"running", "degraded", "stopped"}

Session == [node: LiveNodes, asset: KnownAssets, open: BOOLEAN, status: SessionStatus,
            total: Nat, accepted: Nat, rejected: Nat, incident: BOOLEAN]

ASSUME SessionAssumption == None \notin Session

\* frame: the frame it was made for; tool: the tool it is suspended in, 0 while it
\* waits for the inference; heard: the inventory has answered; starts: the windows
\* still to be sent; worst: contents of the windows that may open an incident.
Request == [by: Requesters, frame: Frame, tool: Nat, observation: Observation, heard: BOOLEAN,
            starts: SUBSET Nat, worst: SUBSET Contents]

ASSUME RequestAssumption == None \notin Request

TypeOK ==
  /\ GatewayTypeOK /\ WorkflowTypeOK
  /\ clients \in Mixes
  /\ senders \in [Nodes -> SUBSET Requesters]
  /\ sessions \in [Sessions -> Session \cup {None}]
  /\ requests \in [Slots -> Request \cup {None}]
  /\ \A s \in Sessions :
       sessions[s] # None => sessions[s].total = sessions[s].accepted + sessions[s].rejected

Init ==
  /\ GatewayInit /\ WorkflowInit
  /\ clients \in Mixes
  /\ senders = [n \in Nodes |-> {}]
  /\ sessions = [s \in Sessions |-> None]
  /\ requests = [q \in Slots |-> None]

Free(q) == requests[q] = None
Ended(q) == requests' = [requests EXCEPT ![q] = None]

\* The metadata of a live frame name its session, so that no frame of another
\* client is the same frame.
FrameOf(by, n, a, number, c) ==
  [node |-> n, asset |-> a, campaign |-> None, sequence |-> number, origin |-> by, content |-> c]

NewRequest(by, f) ==
  [by |-> by, frame |-> f, tool |-> 0, observation |-> Reading[f.content].observation,
   heard |-> FALSE, starts |-> {}, worst |-> {}]

-----------------------------------------------------------------------------
(* Live sessions: start and stop *)

\* A fresh state, whatever number the node has reached.  The route looks the asset up.
StartSession(s, n, a, open) ==
  /\ sessions[s] = None /\ a \in KnownAssets
  /\ Register(n, a)
  /\ sessions' = [sessions EXCEPT ![s] =
       [node |-> n, asset |-> a, open |-> open, status |-> "running",
        total |-> 0, accepted |-> 0, rejected |-> 0, incident |-> FALSE]]
  /\ UNCHANGED <<workflowVars, requests>>

StopSession(s) ==
  /\ sessions[s] # None
  /\ sessions' = [sessions EXCEPT ![s].status = "stopped"]
  /\ UNCHANGED <<gatewayVars, workflowVars, requests>>

\* Mutant of Counted: a rejected frame is not counted.
CountedIfAccepted(x, c, opened) ==
  IF Reading[c].accepted
    THEN [x EXCEPT !.total = @ + 1, !.accepted = @ + 1, !.incident = @ \/ opened]
    ELSE [x EXCEPT !.rejected = @ + 1, !.status = "degraded", !.incident = @ \/ opened]

\* The last block of ingest_live_frame, of a stopped session as well.
Counted(x, c, opened) ==
  IF Reading[c].accepted
    THEN [x EXCEPT !.total = @ + 1, !.accepted = @ + 1, !.incident = @ \/ opened]
    ELSE [x EXCEPT !.total = @ + 1, !.rejected = @ + 1, !.status = "degraded",
                   !.incident = @ \/ opened]

-----------------------------------------------------------------------------
(* What follows the gateway's answer *)

\* A request that has its incident, or needs none: a session counts its frame.
Respond(q, r, opened) ==
  /\ Ended(q)
  /\ sessions' = IF r.by \in Sessions
                   THEN [sessions EXCEPT ![r.by] = Counted(@, r.frame.content, opened)]
                   ELSE sessions

\* create_and_analyze from its k-th tool on: to the next suspension, or to the end.
Analyse(q, r, k) ==
  LET heard == r.heard \/ InventoryHeard(k)
  IN /\ faults' = FaultsAfter(Called(k))
     /\ IF Suspension(k) <= Len(AnalysisTools)
          THEN /\ requests' = [requests EXCEPT ![q] =
                                 [r EXCEPT !.tool = Suspension(k), !.heard = heard]]
               /\ UNCHANGED <<assets, incidents, sessions>>
          ELSE /\ SaveAnalysis(r.frame.asset, r.observation, heard)
               /\ Respond(q, r, TRUE)

\* An incident is opened, unless the asset is unknown, as that of a bench node or
\* of a report may be: the exception ends the request.
OpenIncident(q, r) ==
  IF r.frame.asset \in KnownAssets
    THEN Analyse(q, r, 1)
    ELSE Ended(q) /\ UNCHANGED <<workflowVars, sessions>>

Opens(r) ==
  LET reading == Reading[r.frame.content]
  IN /\ reading.accepted /\ reading.faulty
     /\ IF r.by \in Sessions THEN sessions[r.by].open /\ ~sessions[r.by].incident
                             ELSE reading.opening

\* A session or the frames route has the answer of the gateway.
Continue(q, r) ==
  IF Opens(r) THEN OpenIncident(q, r)
  ELSE Respond(q, r, FALSE) /\ UNCHANGED workflowVars

\* A tool's timeout is over: no result, and the handler goes on.
ToolTimesOut(q) ==
  /\ ~Free(q) /\ requests[q].tool > 0 /\ requests[q].by # "campaign"
  /\ Analyse(q, requests[q], requests[q].tool + 1)
  /\ UNCHANGED gatewayVars

-----------------------------------------------------------------------------
(* Frames *)

\* A frame that is neither reserved nor answered from the cache changes nothing.
Arrives(q, by, f) ==
  /\ Free(q)
  /\ \/ /\ Reserve(f)
        /\ requests' = [requests EXCEPT ![q] = NewRequest(by, f)]
        /\ UNCHANGED <<workflowVars, sessions>>
     \/ /\ Known(f) /\ Repeated(f)
        /\ Continue(q, NewRequest(by, f))
        /\ UNCHANGED gatewayVars

\* The number of a live frame is the number of frames counted so far.
LiveFrame(q, s, c) ==
  /\ sessions[s] # None /\ sessions[s].status # "stopped" /\ sessions[s].total <= MaxSequence
  /\ Arrives(q, s, FrameOf(s, sessions[s].node, sessions[s].asset, sessions[s].total, c))

RegisterBench(n, a) ==
  /\ Register(n, a) /\ registered[n] # a
  /\ UNCHANGED <<workflowVars, sessions, requests>>

BenchFrame(q, n, number, c) ==
  /\ registered[n] # None
  /\ Arrives(q, "bench", FrameOf("bench", n, registered[n], number, c))

ReservationOf(q) ==
  CHOOSE r \in ingesting : r.frame = requests[q].frame

Waiting(q) == ~Free(q) /\ requests[q].tool = 0

Infer(q) ==
  /\ Waiting(q) /\ requests[q].by \notin {"csv", "campaign"}
  /\ Commit(ReservationOf(q))
  /\ Continue(q, requests[q])

\* The exception also ends an upload or a campaign, without a report.
InferFails(q) ==
  /\ Waiting(q)
  /\ Fail(ReservationOf(q))
  /\ Ended(q)
  /\ UNCHANGED <<workflowVars, sessions>>

\* POST /incidents and /demo/run: an observation that comes with no frame.
Report(q, a, o) ==
  /\ Free(q)
  /\ LET c == CHOOSE x \in Contents : TRUE
     IN OpenIncident(q, [NewRequest("report", FrameOf("report", CsvNode, a, 0, c)) EXCEPT !.observation = o])
  /\ UNCHANGED gatewayVars

\* Bound: what people report is what an accepted signal with a fault shows.
Reported ==
  {Reading[c].observation : c \in {d \in Contents : Reading[d].accepted /\ Reading[d].faulty}}

-----------------------------------------------------------------------------
(* Clients that send their frames one after the other, without giving way in *)
(* between                                                                   *)

\* The node is registered and its first frame reserved.
RegisterAndReserve(f) ==
  /\ registered' = [registered EXCEPT ![f.node] = f.asset]
  /\ last' = [last EXCEPT ![f.node] = f.sequence]
  /\ received' = [received EXCEPT ![f.node] = @ + 1]
  /\ ingesting' = ingesting \cup {[frame |-> f, previous |-> last[f.node]]}
  /\ UNCHANGED <<campaigns, answered, archive>>

\* The answer for the frame of q is in, and the next frame f of its node is reserved.
CommitAndReserve(q, f) ==
  LET g == requests[q].frame
  IN /\ ingesting' = (ingesting \ {ReservationOf(q)})
                     \cup {[frame |-> f, previous |-> g.sequence]}
     /\ archive' = archive \cup {g}
     /\ answered' = answered \cup {g}
     /\ last' = [last EXCEPT ![f.node] = f.sequence]
     /\ received' = [received EXCEPT ![f.node] = @ + 1]
     /\ UNCHANGED <<registered, campaigns>>

-----------------------------------------------------------------------------
(* Uploaded files: windows of a fresh node, whose generated name no client of *)
(* another kind uses; the route looks the asset up                            *)

Least(S) == CHOOSE x \in S : \A y \in S : x <= y

UploadCsv(q, file, a, c) ==
  /\ Free(q) /\ registered[CsvNode] = None
  /\ a \in KnownAssets /\ file.hop <= file.window
  /\ LET f == FrameOf("csv", CsvNode, a, 0, c)
     IN /\ RegisterAndReserve(f)
        /\ requests' = [requests EXCEPT ![q] =
             [NewRequest("csv", f) EXCEPT !.starts = Starts(file.length, file.window, file.hop) \ {0}]]
  /\ UNCHANGED <<workflowVars, sessions>>

\* The request after one more window: contents that may open the incident.
WithWindow(r) ==
  LET c == r.frame.content
  IN [r EXCEPT !.worst = @ \cup (IF Reading[c].accepted /\ Reading[c].faulty THEN {c} ELSE {})]

NextWindow(q, c) ==
  /\ Waiting(q) /\ requests[q].by = "csv" /\ requests[q].starts # {}
  /\ LET r == requests[q]
         f == [r.frame EXCEPT !.sequence = @ + 1, !.content = c]
     IN /\ f.sequence <= MaxSequence
        /\ CommitAndReserve(q, f)
        /\ requests' = [requests EXCEPT ![q] =
             [WithWindow(r) EXCEPT !.frame = f, !.starts = @ \ {Least(@)}]]
  /\ UNCHANGED <<workflowVars, sessions>>

\* After the last window one incident is opened for the worst of them, if any.
LastWindow(q) ==
  /\ Waiting(q) /\ requests[q].by = "csv" /\ requests[q].starts = {}
  /\ Commit(ReservationOf(q))
  /\ LET r == WithWindow(requests[q])
     IN IF r.worst = {} THEN Ended(q) /\ UNCHANGED <<workflowVars, sessions>>
        ELSE \E c \in r.worst : OpenIncident(q, [r EXCEPT !.observation = Reading[c].observation])

-----------------------------------------------------------------------------
(* Fault campaigns: generated signals of a node that every campaign uses, and *)
(* then one call of the inventory for each kind of fault.  Bound: no other    *)
(* client names the node of the campaigns.                                    *)

Signal(k) == FrameOf("campaign", CampaignNode, CampaignAsset, k - 1, CampaignSignals[k])

\* The numbers start at 0 again: after the first campaign of a process, the first
\* frame raises.  Its time stamp is new, so it is never answered from the cache.
StartCampaign(q) ==
  /\ Free(q)
  /\ IF Newer(Signal(1))
       THEN /\ RegisterAndReserve(Signal(1))
            /\ requests' = [requests EXCEPT ![q] = NewRequest("campaign", Signal(1))]
       ELSE Register(CampaignNode, CampaignAsset) /\ UNCHANGED requests
  /\ UNCHANGED <<workflowVars, sessions>>

SignalsSent(q) == requests[q].frame.sequence + 1

\* No other campaign gets that far, so the next number is free.
NextSignal(q) ==
  /\ Waiting(q) /\ requests[q].by = "campaign"
  /\ LET k == SignalsSent(q) + 1
     IN /\ k <= Len(CampaignSignals)
        /\ CommitAndReserve(q, Signal(k))
        /\ requests' = [requests EXCEPT ![q].frame = Signal(k)]
  /\ UNCHANGED <<workflowVars, sessions>>

\* An error is injected and used up, then a timeout, which suspends the campaign:
\* whatever fault of the inventory a user had injected is replaced.
SpoilInventory(q) ==
  /\ Waiting(q) /\ requests[q].by = "campaign" /\ SignalsSent(q) = Len(CampaignSignals)
  /\ Commit(ReservationOf(q))
  /\ requests' = [requests EXCEPT ![q].tool = 1]
  /\ faults' = [faults EXCEPT ![PartsTool] = [suspends |-> TRUE, calls |-> 0]]
  /\ UNCHANGED <<assets, incidents, sessions>>

\* An empty result is injected and used up, and then all faults of all tools go.
EndCampaign(q) ==
  /\ ~Free(q) /\ requests[q].by = "campaign" /\ requests[q].tool > 0
  /\ ClearFaults
  /\ Ended(q)
  /\ UNCHANGED <<gatewayVars, sessions>>

-----------------------------------------------------------------------------
(* People, faults and restarts *)

Decide ==
  /\ \E i \in DOMAIN incidents :
       \/ Approve(i) \/ ApproveFails(i) \/ Reject(i) \/ RequestEvidence(i)
       \/ \E o \in Observations : Verify(i, o)
  /\ UNCHANGED <<gatewayVars, sessions, requests>>

\* One tool at a time is spoiled (bound).
Disturb ==
  /\ \/ \E t \in Tools, suspends \in BOOLEAN, calls \in 1..MaxFaultCalls :
          (\A u \in Tools : ~Spoiled(u)) /\ InjectFault(t, suspends, calls)
     \/ ClearFaults
  /\ UNCHANGED <<gatewayVars, sessions, requests>>

Reset ==
  /\ ResetDemo
  /\ UNCHANGED <<gatewayVars, sessions, requests>>

\* Sessions, the gateway's memory and all requests are lost.
Restart ==
  /\ ForgetMemory /\ WorkflowRestart
  /\ sessions' = [s \in Sessions |-> None]
  /\ requests' = [q \in Slots |-> None]
  /\ senders' = [n \in Nodes |-> {}]

FromSessions ==
  \/ \E s \in Sessions, n \in LiveNodes, a \in Assets, open \in BOOLEAN : StartSession(s, n, a, open)
  \/ \E s \in Sessions : StopSession(s)
  \/ \E q \in Slots, s \in Sessions, c \in Contents : LiveFrame(q, s, c)

FromNodes ==
  \/ \E n \in BenchNodes, a \in Assets : RegisterBench(n, a)
  \/ \E q \in Slots, n \in BenchNodes, number \in Sequences, c \in Contents :
       BenchFrame(q, n, number, c)

FromFiles ==
  \/ \E q \in Slots, file \in CsvFiles, a \in Assets, c \in Contents : UploadCsv(q, file, a, c)
  \/ \E q \in Slots, c \in Contents : NextWindow(q, c)
  \/ \E q \in Slots : LastWindow(q)

FromCampaigns ==
  \E q \in Slots : StartCampaign(q) \/ NextSignal(q) \/ SpoilInventory(q) \/ EndCampaign(q)

FromReports == \E q \in Slots, a \in Assets, o \in Reported : Report(q, a, o)

FromPeople == Decide \/ Reset

Proceed == \E q \in Slots : Infer(q) \/ InferFails(q) \/ ToolTimesOut(q)

\* Those who wait for the inference of a frame of n.
Awaiting(n) == {requests[q].by : q \in {p \in Slots : Waiting(p) /\ requests[p].frame.node = n}}

Serve ==
  /\ \/ "sessions" \in clients /\ FromSessions
     \/ "nodes" \in clients /\ FromNodes
     \/ "files" \in clients /\ FromFiles
     \/ "campaigns" \in clients /\ FromCampaigns
     \/ "reports" \in clients /\ FromReports
     \/ "people" \in clients /\ FromPeople
     \/ "faults" \in clients /\ Disturb
     \/ Proceed
  /\ senders' = [n \in Nodes |-> senders[n] \cup Awaiting(n)']

Next ==
  /\ Serve \/ Restart
  /\ UNCHANGED clients

Spec == Init /\ [][Next]_vars

-----------------------------------------------------------------------------
(* Properties *)

\* No frame of the session is on its way, and its next number is not above the
\* last one the gateway has reserved for its node.
Stuck(s) ==
  LET x == sessions[s]
  IN /\ x # None /\ x.status # "stopped"
     /\ \A q \in Slots : ~Free(q) => requests[q].by # s
     /\ last[x.node] # None /\ x.total <= last[x.node]

\* The next number of a running session that waits for nothing is free, whatever
\* inferences failed, tools timed out, nodes registered again and sessions ended,
\* unless another client has sent a frame of its node since the server started
\* (analysis/service.py:117 against gateway.py:112-137).
StuckOnlyByOthers ==
  \A s \in Sessions : Stuck(s) => \E u \in Requesters \ {s} : u \in senders[sessions[s].node]

\* A frame that the gateway answers from its cache changes nothing but the
\* answer (routes.py:331-346 against docs/real-bench-integration.md:68).
RetryChangesNothing ==
  [][\A q \in Slots, n \in BenchNodes, number \in Sequences, c \in Contents :
       /\ registered[n] # None /\ Repeated(FrameOf("bench", n, registered[n], number, c))
       /\ BenchFrame(q, n, number, c)
       => UNCHANGED <<gatewayVars, workflowVars>>]_vars

=============================================================================
