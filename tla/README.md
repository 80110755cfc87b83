# ForgeGuard Nexus: TLA+ models, checks and proofs

ForgeGuard Nexus is a FastAPI backend for industrial maintenance research, with an
edge node that sends vibration windows to it. The part of it with the most state and
the strongest promises is the *research orchestrator*: branches of research collect
evidence, are attacked by counterexamples, reviews and a council, pass a gate, and
become accepted knowledge that can be challenged, replaced and revoked. Around it are the parts that meet the plant: an edge node that spools windows while the
server is away, the bench gateway that answers each frame once, live sessions and uploads
that share the gateway, and the workflow from an incident to a verified repair. This
directory models these parts, model-checks them with TLC and proves most of their
invariants with TLAPS.

Paths below are relative to `src/backend/app/` unless they start with `edge-node`.

## 1. The system

All HTTP routes are `async def` on one event loop and the services take locks, so a
synchronous service method is atomic for every other request. Real interleaving exists
only where a handler suspends: the inference of `BenchGateway.ingest`, the literature
search of `ingest_literature`, the incident opened by a live session, an injected tool
delay, and all traffic between edge node and server. What makes the synchronous
components hard is different: *several JSON files saved one after the other*, a process
that may die between two saves, files that are silently taken for empty when they do
not parse, and long legal call sequences over many records.

| Component | State | Operations | Talks to | What is hard | What must hold |
|---|---|---|---|---|---|
| Evidence graph (`research_orchestration/evidence_graph.py`) | nodes, edges, `evidence-graph.json` | ensure/add for each kind of record, set_result, add_edge, snapshot | called by the service, council and evolution | edges from eight handlers and from users, refusals half way, reload | no circular provenance, complete after any restart, nothing saved is lost |
| Research ledger and gate (`research_orchestration/service.py`) | branches with records, result, reviews, status; accepted items; `research-state.json` | create, record, review, set_result, gate_report, accept, archive, reconcile | graph, council, evolution, scheduler, autonomy | several files per handler, latest review and session win, reviews outlive results | acceptance only when the documented invariant holds, status and stage tell the truth |
| Council (`research_orchestration/council.py`) | sessions with a node snapshot and one contribution per role; `research-council.json` | open_session, contribute, evaluate | graph (snapshot), service (gate) | contributions replaced, old sessions revived, graph grows after the snapshot | passed exactly by the documented rule; never wedged |
| Knowledge evolution (`research_orchestration/knowledge_evolution.py`, `evolution_routes.py`) | versions, challenges, events; `knowledge-evolution.json` | bootstrap, challenge, revise, supersede, revoke | graph, service | several open challenges, repeated replacement, crash between saves | versions, links, challenges and events agree; history is kept |
| Scheduler (`research_orchestration/scheduler.py`) | past runs and their decisions | tick: fork, generate, kill | service, council, evolution | remembered decisions, limits, crash inside a tick | one fork per cause |
| Autonomy (`research_orchestration/autonomy.py`) | budgets, experiment runs, propagation events | charge, run_experiment, ingest_literature, propagate | service, search | partial failure, await, propagation to descendants | citations are paid for, negative evidence reaches all descendants |
| Bench gateway (`bench/gateway.py`) | nodes, campaigns, last sequence, answer cache (memory only) | register, ingest | live sessions, edge node | reservation across an await, rollback, restart | each frame counted and archived at most once |
| Edge node (`edge-node/forgeguard_edge/spool.py`, `cli.py`, `bench_client.py`) | spool directory, sequence file | acquire, publish, enqueue, flush | bench gateway | crash between acknowledgement and mark, full spool | no window lost out of the spool, order kept, the spool drains |
| Live sessions (`analysis/service.py`) | sessions in memory | start, stop, frame, simulate | gateway, incident workflow | concurrent frames; a node named by the client, which bench frames or another session may use too | counters agree with the gateway, a failure does not wedge a session |
| Incident workflow (`agents/orchestrator.py`, `services/store.py`, `services/tools.py`) | incidents, work orders, assets | create_and_analyze, approve, verify | tools | two saves per handler, hanging tools, repeated verification | one order per incident, machines in maintenance have an unverified repair |
| Literature search (`services/search.py`) | none | search | autonomy; four providers | providers fail or repeat each other | one failure policy, no citation twice |
| Agents and signal quality (`agents/*.py`, `analysis/quality.py`) | none | assess, plan, verify, score a signal | incident workflow, gateway | thresholds of several agents that must agree | a refusal has a reason, risks are consistent |
| Recordings (`analysis/service.py`, `csv_adapter.py`) | none | choose the signal column, cut windows | uploads; edge node | two algorithms for one question | both sides read the same signal |
| Fault campaign (`fault_injection/campaign.py`) | none of its own | send faulty signals, inject tool faults | gateway, incident workflow, tools | fixed node and numbers; faults of all tools cleared in the end | a client like any other |
| Benchmark, frontend, launcher, simulator, deployment | - | numerical or presentational | - | floating point, I/O | not modelled |

`PROJECT.json` lists the hazards of this code at their lines, with the properties
that guard each of them.

## 2. Modules

| Module | Models | State and actions |
|---|---|---|
| `EvidenceGraph` | graph, the part of the ledger it is built from, both files, crash and restart | `ledger`/`graph` in memory, `sfile`/`gfile` on disk, `phase` between the two saves. One action per handler (`CreateBranch`, `AddRecord`, `SetResult`, `SetResultRaises`, `ClearResult`, `AcceptKnowledge`, `AddLinked`, `AddEdge`), `SaveLedger` for the second save, `Restart`, `RestartRaises` |
| `KahnSort` | the two copies of Kahn's algorithm | the loop as a recursive function along its turns |
| `MCEvidenceGraph` | instance for TLC | |
| `KnowledgeLifecycle` | abstract: what the saved record of versions promises | `state`, `successor` of every version |
| `KnowledgeEvolution` | versions, challenges, events, the graph's nodes and the ledger items they depend on, three files, crash and restart; implements `KnowledgeLifecycle` | `memory`/`efile`, `nodes`, `ledger`/`sfile`, `phase` says which file is saved next |
| `CouncilOutcome` | abstract: what others may rely on about a session | `status` |
| `Council` | one session and the branch's nodes; implements `CouncilOutcome` | `nodes`, `opened`, `session` |
| `MCCouncil` | instance for TLC | |
| `ResearchGate` | one branch, its records, reviews, council sessions (through `CouncilOutcome`), status, gate, accept | one action per handler; `Touch` is the end of each, as `_touch` is |
| `MCResearchGate` | instance for TLC, with the symmetry of reviewers | |
| `Delivery` | abstract: what becomes of the windows of one sensor | `window`: ahead, held, spooled, dropped, archived |
| `BenchGateway` | registration, campaigns, the two halves of `ingest` around its await, rollback, answer cache, evidence files | `registered`, `last`, `answered`, `ingesting` in memory, `archive` on disk; operations only, its two compositions follow |
| `EdgeDelivery` | publisher, spool and sequence file with the gateway, crashes of both, lost and late answers; implements `Delivery` | `step` is where `publish_windows` stands; `hand`, `sequence` in memory, `spool`, `marked` on disk |
| `MCEdgeDelivery` | instance for TLC | |
| `MaintenanceAgents`, `Assessments` | what each agent makes of an observation: quality gate, diagnosis, risk, health, plan, verdict; safety and resilience | pure operators on integers |
| `BenchSignal` | quality score and warnings of a signal, verdict of the model, the observation an incident is opened with | pure operators on integers |
| `CsvColumns`, `CsvWindows` | which column of a recording is its signal, for the server and for the edge node, and the windows each cuts it into | pure operators |
| `IncidentLifecycle` | abstract: the stages of an incident, its orders and closings | `case` |
| `IncidentWorkflow` | analysis, approval, rejection, evidence request, verification, reset; tools with injected faults | `assets`, `incidents`, `faults`; operations only |
| `LivePlant` | live sessions, bench nodes, uploads, fault campaigns and people over one gateway and one workflow; implements `IncidentLifecycle` | `sessions`, `requests` (one slot for each request that may be suspended); `clients`, who takes part; `senders`, a history of whose frames each node has reserved |
| `MCLivePlant` | instance for TLC, with small signals and files, and bounded checks of the pure operators | |
| `BranchTree` | branches, their negatives and trials, inheritance of negative evidence | pure operators on a sequence of branches |
| `Scheduler` | one tick: forks, kills, limits, memory | pure operators |
| `BranchBudget` | limits, charges, refusals, status | pure operators |
| `LineageScore`, `LiteratureSearch` | the score branches are listed by; the search broker | pure operators |
| `ResearchAutonomy` | budgets, experiments, searches around their await, propagation and ticks, cut by a crash between any two saves | one variable for each file, `searches` in flight, histories |
| `MCResearchAutonomy` | instance for TLC, with bounded checks of the scores and the broker | |
| `EvidenceGraphProofs`, `CouncilProofs`, `KnowledgeEvolutionProofs`, `ResearchGateProofs`, `BranchTreeProofs`, `AutonomyProofs`, `PlantProofs`, `DeliveryProofs` | theorems and proofs | |

How they compose: `EvidenceGraph` and `KnowledgeEvolution` each contain the part of the
ledger whose save order matters to them; `Council` implements `CouncilOutcome`, and
`ResearchGate` instantiates `CouncilOutcome` for each of its sessions, so the gate is
checked against every session behaviour the council can show. Three of the modules are
deliberately separate state spaces: the gate reads nothing of the files, and neither
the graph nor the evolution looks at a verdict. `ResearchAutonomy` sees gate and council by
their outcome, and uses `BranchBudget` and `Scheduler` (which uses `BranchTree`) as they are.
`BenchGateway` has no next-state relation: `EdgeDelivery` composes it with the edge node,
`LivePlant` with the clients inside the server and with `IncidentWorkflow`. The two
compositions differ in what they ask: the first is about crashes of two processes, the
second about requests that interleave in one.

### What is abstracted

- Texts, labels, timestamps, rationales and actor kinds. A time is kept only as an order
  (the council session updated last is the first of `council`).
- The kind of an edge: two edges between the same nodes that differ in kind are one pair.
  A cycle does not depend on it.
- `EvidenceGraph` gives a record to at most one branch and one item to at most one branch,
  as fresh ids and `accept` do. `Linked` stands for nodes the ledger does not know:
  council reviews, challenges, successor versions.
- `Restart` may happen in any phase, so a crash before or between the saves is included.
  Each file is replaced atomically (`os.replace` of a temporary file), so a file is never
  half written; `Restart(EmptyGraph)` and `Restart(EmptyEvolution)` are the branch of
  `_load` that takes a file that does not parse for an empty one.
- When the reconciliation of a restart is refused (`RestartRaises`), any part of its edges
  that closes no cycle may have been saved, whatever the order; this includes what the
  code's order of branches leaves.
- `EdgeDelivery` handles a request when it is sent or never: the gateway would refuse a
  delayed one, or answer it again.
- A suspended request of `LivePlant` is in the inference of its frame, or in a tool with an
  injected timeout; all else in a handler is one step with what precedes it. `Mixes` says which
  kinds of clients meet in a behaviour, a bound of the runs only: the theorems are for every set
  of mixes, all kinds at once included. Sessions and bench clients may name the same node. Nobody
  else uses the node of an upload, whose name the server generates, nor (a bound, since it is a
  fixed name anyone could send) that of the fault campaigns.
- The routes of sessions and uploads answer 404 for an unknown machine, so these have a known
  one; bench nodes and reports may name any.
- The metadata of a frame tell its sender (`origin`): those of a live frame name the session, so
  a frame of another client with the same number and samples is another frame.
- Numbers of the agents are integers in the units each module names. The two values that
  need exp and a fractional power (`probability`, `hours`) are fields of the observation.
- What a provider answers, which citations a search finds, and the features of a signal are
  data. In `ResearchAutonomy` a search ends with some number of citations, or fails after it
  was charged, as a failing web search does.
- `CsvColumns` keeps of a cell its name, the fold of it, and whether it is a number or an
  index. Encodings and delimiters are treated alike by both sides.
- Histories (`cited`, `disturbed`, `torn`, `unfinished`, `told`, `senders`) are read by properties only.
- `KnowledgeEvolution` does not lose the graph file (`EvidenceGraph` does) and leaves the
  gate open: any new item may pass.
- In `Council` one role may hold several duties, which lets TLC use two roles; the proofs
  are for any assignment of duties, the five roles of the code included.
- `ResearchGate` shows one branch: the gate reads nothing of other branches. The check
  `evidence_graph_acyclic` is left out of it because `SortIsRight` shows in
  `MCEvidenceGraph` that it never fails.

## 3. Runs

| Run | Instance | Shows |
|---|---|---|
| `graph` | 2 branches, 1 support record, 1 note, 1 item, 1 linked node, 3 user edges (against the service's own direction, across branches, to a record that may be missing); 273,011 states | `Acyclic`, `LedgerInGraph`, `RebuildSucceeds`, `FreshNeverRefused`, `DurableEdges`, and with the code's own sort `SortIsRight`: its verdict is that of the definition of a cycle, and the order it gives is an order |
| `graph_restart` | same | **violated** `RestartSucceeds`, see findings |
| `evolution` | 2 items, 3 successor versions, 3 challenges; 273,816 states | `ChallengesConsistent`, `Numbered`, `LinksAgree`, `TrailExplains`, `GraphFirst`, `LedgerTracked`, refinement `ImplementsLifecycle` |
| `evolution_history` | same | **violated** `HistoryKept`, see findings |
| `council` | 2 roles, 3 actors, 4 nodes; 5,450 states | `StoredStatusCurrent`, `PassedByRule`, refinement `ImplementsOutcome`, liveness `Passable` |
| `gate` | 2 evidence records (one formal), 1 counterexample, 1 experiment, 2 reviewers, 2 sessions; about 980,000 states | `StatusTells`, `StageTells`, `AcceptedOnlyWhen`, `ItemStays` |
| `gate_unreviewed_result` | same, 1 session | **violated** `ResultReviewed`, see findings |
| `delivery` | 4 windows, spool of 2, flush of 2; any crashes of both sides | `ToldTruth`, `SpoolOrdered`, `BlockedOnlyByReuse`, refinement `ImplementsDelivery`, liveness `SpoolDrains` |
| `delivery_number_reused` | 3 windows | **violated** `NumberUsedOnce`, see findings |
| `plant` | 2 requests at a time, 2 sessions, 2 numbers a node, 3 signals (normal, worn, noise), a known and an unknown asset, 2 incidents, tool faults of 1 call; sessions with bench clients on one node, and, each with injected tool faults, sessions, bench clients, files, campaigns with reports, reports with people; 433,584 states | `CountsAgree`, `StuckOnlyByOthers`, `MaintenanceExplained`, refinement `ImplementsLifecycle`; `AssessmentsChecked`, `ColumnsChecked` |
| `plant_retry` | same | **violated** `RetryChangesNothing`, see findings |
| `autonomy` | 3 branches, 3 requests, any ticks, 2 searches in flight, limits of 1 and 2 | `ContradictionReaches`, `ForkedOnce`, `CitationsPaid`; `LineageChecked`, `SearchChecked` |

**Bounds and why they suffice.** Two branches are the least with a lineage edge and an
edge that crosses branches, which is where a cycle is hard to see; one support record and
one result already give the cycle that only a restart closes. The evolution needs two
roots (a replacement takes the text of another item), a version replaced twice and a
successor left over for the other root, hence three successors and three challenges. Two
roles and three actors let actors collide, and let the collision be resolved by either
role. The gate has two sessions so that an old one can overtake a newer one, two reviewers
so that critic and verifier can be the same or not, and evidence with and without formal
weight. In the models of research, `MaxSessions` of `ResearchGate` and `MaxBranches`, `MaxRequests`
and `MaxCitations` of `ResearchAutonomy` are the only bounds in guards; all other ids are
used at most once, as generated ids are. Three branches are the least with a grandchild, which
is what propagation and forks of forks need, and two searches the least that overlap.

A spool of two with four windows is full while a window is in hand, and four windows let a
number be reused and the reuse be met by a later file. In the plant two requests at a time are
what it takes to interleave around an await; two numbers a node are the first frame and one that
follows or repeats it; two incidents let one machine have two. The bounds there are
`MaxSequence`, `MaxIncidents`, `MaxFaultCalls` and `Mixes`. Sessions and bench clients share a
node: two sessions and a bench client are the least in which a session can be alone on it, or
behind a session, or behind somebody who is none. The other kinds share tools, machines and
incidents, which each of them meets with injected faults. TLC does not combine hanging tools with
bench clients on the node of a session; the theorems do (`SessionsNeverStuck` is for any mix).
`plant` keeps the evidence files, which the server only writes, out of the comparison of states
(`VIEW Seen`), and treats slots and sessions as symmetric; both are sound for its properties,
none of which mentions them by name. Every property has a mutant of the code in `PROJECT.json`
that violates it within the same bounds.

**Fairness.** `Passable` and `SpoolDrains` need it.

`SpoolDrains` says that the spool is emptied again and again once neither side dies any more,
or its head is blocked, or the publisher is kept out by its own campaign. The publisher goes
on and is started again (weak fairness: one program in a loop, and a service manager or a
person); a request that is sent again and again arrives once, an inference that is tried again
and again succeeds once before the client's timeout, and its answer arrives once (strong
fairness, since each failure takes the step away for a while). The last three are promises of
the network and the model, not of the code: if one of them never holds, nothing drains, and
without any one of the four TLC finds a behaviour that never does.

For `Passable`, nothing in the code forces a person to contribute;
the property is conditional: *if* from some moment on only good-will contributions are
made, and each role makes its contribution, the session passes. Weak fairness of
`GoodWill` expresses the premise and is no promise of the code. What the code contributes
is that no earlier contribution, collision or growth of the graph can stand in the way.

## 4. Findings

1. **The saved state may refuse to load** (`graph_restart`, `service.py:124`). Record a
   result, add evidence, add the user edge evidence -> result (accepted, the result has no
   edge to that evidence yet), restart: `_reconcile_graph` asks for result -> evidence, the
   cycle test raises, and the exception leaves the constructor of the "Persistent,
   auditable research state machine" (`service.py:57`).
2. **History is overwritten** (`evolution_history`, `knowledge_evolution.py:95`). A revised
   version may be challenged and replaced again; its link to its first successor is lost,
   against "Historical versions are never silently overwritten."
   (`docs/ADVANCED_RESEARCH_LAYERS.md:155`).
3. **A result nobody reviewed can be accepted** (`gate_unreviewed_result`,
   `service.py:410`). The check says "A branch result must be recorded before review.", but
   asks only that a result is there when the gate is run.
4. **Two windows with one number** (`delivery_number_reused`, `cli.py:145`). The next number is
   saved only after the answer, against "The next sequence number is persisted across
   edge-process restarts." (`docs/real-bench-integration.md:67`). A publisher that dies in between
   gives the number of an archived window to the next one, which the server then refuses for
   ever; files behind it in the spool wait for ever too. `BlockedOnlyByReuse` shows that a
   publisher which has its node to itself loses a window to the gateway's refusal in no other way.
   It says nothing of what the gateway is not asked: a window with a sample that is not finite is
   refused by the schema (`bench/schemas.py:161-168`). Nor of other clients of the node, whose
   numbers may pass those of the spool, or of an incident that cannot be opened because the machine
   is unknown: these block a spool as well and are not in `EdgeDelivery`.
5. **A repeated frame opens a second incident** (`plant_retry`, `api/routes.py:338`), against
   "Server ingestion is idempotent for an exact `(node_id, sequence, payload)` retry."
   (`docs/real-bench-integration.md:68`).

Behaviours met while modelling that no document contradicts:

- A decision to ask for more evidence leaves an incident `reopened` without an order: nothing
  can be done with it any more. An approval takes any option, a contraindicated one too, and the
  decision of the quality gate is read by no agent.
- Sessions number their frames by their own count, from 0, while the gateway keeps the last number
  of the node, which the client names (`analysis/schemas.py:15`) and which bench frames may use too:
  both modes of the edge program default to `BENCH-NODE-001` (`cli.py:268`). A session that starts
  on a used node, or whose node is used by somebody else meanwhile, may fall behind, and then every
  frame it sends is refused as stale until the server restarts. `StuckOnlyByOthers` shows that
  nothing else wedges a session.
- A bench frame of a machine that is registered for a node but unknown to the store, and that asks
  for an incident, ends with a `KeyError` after the gateway has counted and stored it. A stopped
  session becomes `degraded` by a rejected frame that comes back late.
- The fixed node and numbers of a fault campaign make a second one with the same seed fail until
  the server restarts.
- A branch forked after a contradiction was propagated does not inherit it, and propagating an
  inherited record again gives descendants a second copy.
- The server prefers a column's position to a similar name, the edge node the similar name to the
  position: asked for `1` with a column `1.`, they read different signals (`ColumnsChecked`;
  `ReadersAgree` proves that this is the only difference). The edge node also leaves out the end
  of a recording, less than a hop of it (`EdgeLeavesOutATail`).

## 5. Proofs

TLAPS proves for every value of the constants what TLC checks on the instances above.

- `EvidenceGraphProofs`: `TypeOK`, `Acyclic`, `LedgerInGraph`, `RebuildSucceeds`,
  `FreshNeverRefused`, `DurableEdges`, `SortIsRight`. The inductive invariant adds to these that
  edges only join existing nodes, in memory and on disk (a new node has therefore no incoming
  edge, so an edge out of it closes no cycle); that a ledger refers to its own branches only;
  that both graphs represent both ledgers, because a crash makes the saved ledger the current
  one beside the newer saved graph; and that the saved edges are a part of those in memory.
  `RebuildSucceeds` needs an argument of its own: a set of nodes each with an incoming edge from
  the set can contain no knowledge item, hence no result, hence no record; what is left are
  claims, whose edges are part of the acyclic saved graph that represents the ledger. For the
  sort, `Turning` says what holds between two turns of the loop: the indegree of a node is the
  number of its sources not taken yet, a node waits or is listed when that is zero, and what is
  listed is listed once and after its sources. Hence for every finite graph (`KahnSorts`) what
  is left over at the end is fed by itself, and what is fed by itself is never listed: its first
  member in the order would come after one of its own. That the graph of a process is finite,
  however many ids there are, is an invariant (`AllFinite`).
- `CouncilProofs`: `TypeOK`, `StoredStatusCurrent`, `PassedByRule`, and that `Council`
  implements `CouncilOutcome`, from the invariant `TypeOK /\ StoredStatusCurrent`. A
  contribution never lowers the number of roles heard, so a session does not open again.
- `KnowledgeEvolutionProofs`: `TypeOK`, `ChallengesConsistent`, `Numbered`, `LinksAgree`,
  `TrailExplains`, `GraphFirst`, `LedgerTracked`, and that `KnowledgeEvolution` implements
  `KnowledgeLifecycle`. What the properties say of an evolution is collected in `Sound`, for
  the one in memory and the one in the file, with what makes it inductive: versions that do
  not exist are untouched, and a version shares its root with its parent (so that the next
  number of a root is also greater than that of any child). The refinement needs one more
  conjunct: while the evolution file waits to be saved, the memory is exactly one step of
  the lifecycle ahead of it (`Ahead`), and otherwise they agree; saving is then that step,
  and a crash before it is a stutter.
- `ResearchGateProofs`: `TypeOK`, `StatusTells` (inductive on its own), `StageTells`,
  `AcceptedOnlyWhen` and `ItemStays`: every property of the gate run.
- `AutonomyProofs`: `CitationsPaid`, for any number of overlapping searches. The citations of a
  search are ingested before they are charged, and a charge is refused as a whole if *any*
  resource is above its limit. The inductive invariant therefore adds that nothing a branch with
  a search in flight has spent is above its limit unless its limits were set meanwhile; then the
  room for citations that was left when the search went to await can only be taken by another
  search, whose ingestion makes this one smaller. A second conjunct, `Honest`: a budget that
  calls itself active has something left of each resource.
  The second half is about trees that grow: `TypeOK`, `ForkedOnce` and `ContradictionReaches`,
  from the invariant `TreeInv`. A parent is older than its child, so that the ancestors of a
  branch are the same however many branches follow; what has been inherited is kept (`Continues`,
  which every action satisfies); a record names the number of branches there were
  when it was made. Hence what was reached once is reached for good, and a step need only be
  looked at for the record it adds. For the forks, `TreeInv` says that whatever a branch was made for
  has been acted on (`Acted`): a cause is in the memory that was saved, or in what a crash tore.
- `BranchTreeProofs`: the operators those proofs rest on. `Ancestors` and the loop of a tick are
  recursive functions; that they have the values their equations say, and what follows for
  every number of branches, is by induction over a set of numbers (`SetInduction`, from the least
  number principle). `TicksGo`: at each point of a tick, killing, spawning and skipping in any
  order of the branches and under any policy, the tree continues the one it began with, and
  each new branch has a cause of its own that was not in the memory. Also here:
  a lineage score is between 0 and 100 points, and resolving a counterexample never
  lowers it, for every branch, budget and number of records.
- `PlantProofs`: `TypeOK`, `MaintenanceExplained` and that `LivePlant` implements
  `IncidentLifecycle`, for any clients, requests, machines and injected faults. The inductive
  invariant `IInv` says what an incident looks like at rest (`Lawful`: it waits without an order,
  or is in progress with an approved one, or closed or returned, where each closing has raised the
  baseline a fifth above the last, so that there are at most two within 100 points); that the
  counters of a session add up; and that a request which waits for a tool knows its machine, and
  one of a session finds its session, when it goes on (`Prepared`). Without the last the second
  half of a suspended handler could do anything.
  Of the pure operators it proves that the safety agent is alarmed only where the reliability
  agent is (`UnsafeOnlyIfCritical`), that a refused frame has a warning (`RefusalIsExplained`),
  that the windows of an upload leave no sample out (`EverySampleAnalysed`) and those of the edge
  node less than a hop (`EdgeLeavesOutATail`), that server and edge node read the same column
  (`ReadersAgree`), and that a column chosen by itself has a number (`AutomaticHasNumbers`).
  Its second half is about several requests of one node in the await at once, any of which may be
  rolled back: `CountsAgree` and `StuckOnlyByOthers`. A rollback returns the last number of the
  node to the one before its reservation, and a count is right only if no frame stored meanwhile
  has a number in between. That is `Books`: neither a stored frame nor the frame of another
  reservation lies between a reservation and the number before it. To keep it, `Lined` says that
  a waiting request has a reservation of its own, and that a client which sends one frame after
  the other (an upload, a campaign) has the latest number of its node. On top of both, a session
  that is alone on its node (`Sole`) goes on because of `Counting`: when the last number of the
  node is not below what it has counted, one of its own requests has that number and will be
  counted or rolled back, and a rollback returns below its count (`Onward`). That nobody else is
  there must come from the history: every client that waits for a frame is among the `senders` of
  its node, a node with a number has some, and no session is among them before it has started
  (`Heard`), so that one that starts alone starts on a node without a number.
- `DeliveryProofs`: `TypeOK`, `ToldTruth`, `SpoolOrdered`, `BlockedOnlyByReuse` and that
  publisher and gateway implement `Delivery`, for any number of windows and any size of the spool,
  with crashes of both sides at any place: all of the run `delivery` but its liveness. The two
  processes share no state, so the invariant `IInv` says what each may conclude from its own.
  Its centre is `Single`: while an inference is in progress, nothing the publisher can send has a
  number above that of its frame (`Waits`); hence there is at most one reservation, the number a
  rollback returns to was answered, and a frame acknowledged now is archived and no longer in
  the await, so that unlinking its file loses nothing. Around it: frames carry the number they
  were read under, which is below their window (`FramesKnown`), since a crash can only make the
  publisher go back; the archive and the await never hold a window behind a queued one (`InOrder`,
  `QueuedBehind`), which is the order of `Delivery`. A second invariant on top of it, `Covered`,
  says what the crashes leave of the numbers: each one below the saved, the next, a queued or the
  reserved number belongs to a stored frame, and a queued frame that is archived already is at
  the head and would be answered again. So a queued frame that is refused for good is not in the
  archive, its number is, and another window has it.

**Assumptions** are those named in the modules: disjoint id sets, sentinels outside the value
sets (`None` is no request), roles and nodes as described, the contributions being contributions.

**Model-checked only.** Liveness (`Passable`, `SpoolDrains`) and anything with ENABLED is out of the
prover's reach. Every other property of a passing run is a theorem.

## 6. Plan

Done in this order, the most important behaviour first: evidence graph, evolution, council and
gate; gateway and edge node; sessions, agents and incident workflow; budgets, scheduler and
propagation; the pure operators around them. What is left, in order of what it adds:

| Step | Modules | What | Theorems |
|---|---|---|---|
| 1 | `ResearchGate` with `KnowledgeEvolution` | a crash inside accept with the branch accepted again under a new id | one version for each branch, but for a crash |

## 7. Not modelled, and why

Feature extraction, the classifiers and the energy and carbon estimates of the sustainability
agent compute with floating-point numbers; what others read of them is data of the models. The
benchmark runner and the reports are offline statistics. Read-only routes translate exceptions to
status codes and call one service method; start-up wiring happens before the first request.
The dry run of the scheduler changes nothing, and its rule for rejected branches is never met,
because no code rejects a branch. Cross pollination only appends a digest. The loss of
`research-council.json` makes sessions disappear and nothing else. Frontend, launcher,
simulator data and deployment scripts hold no state the properties speak of.
