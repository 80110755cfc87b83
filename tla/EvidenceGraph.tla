----------------------------- MODULE EvidenceGraph -----------------------------
(***************************************************************************)
(* The evidence graph of the research orchestrator                         *)
(* (research_orchestration/evidence_graph.py) together with the part of    *)
(* the research ledger (research_orchestration/service.py) it is built     *)
(* from, the two files both are saved in, and the process restart that     *)
(* reloads the files and reconciles the graph with the ledger.             *)
(*                                                                         *)
(* A handler of the service first changes the ledger in memory, then lets  *)
(* the graph add nodes and edges and save evidence-graph.json, and last    *)
(* saves research-state.json.  The process may die between the two saves.  *)
(* Labels, timestamps and the kind of an edge are left out: two edges that *)
(* differ in kind alone are one pair of nodes here.                        *)
(***************************************************************************)
EXTENDS KahnSort

CONSTANTS
  Branch,     \* ids of research branches
  NoBranch,   \* parent_branch_id = None
  Support,    \* ids of evidence and experiment records
  Note,       \* ids of counterexample and critic/verifier review records
  Knowledge,  \* ids of accepted knowledge items
  Linked,     \* ids of nodes only the graph keeps: council reviews,
              \* challenges, successor versions
  UserEdge    \* pairs of nodes a user may ask an edge for

ASSUME NoBranchAssumption == NoBranch \notin Branch
ASSUME IdsAssumption ==
  /\ Support \cap Note = {}
  /\ (Support \cup Note) \cap (Knowledge \cup Linked) = {}
  /\ Knowledge \cap Linked = {}

VARIABLES
  ledger,   \* ResearchOrchestrator: _branches and _accepted
  graph,    \* EvidenceGraphStore: _nodes and _edges
  sfile,    \* research-state.json
  gfile,    \* evidence-graph.json
  phase     \* "idle", "unsaved" (graph saved, ledger not yet), "down"

vars == <<ledger, graph, sfile, gfile, phase>>

Record == Support \cup Note
Claim(b) == <<"claim", b>>
Result(b) == <<"result", b>>
Item(r) == <<"record", r>>

NodeId == ({"claim", "result"} \X Branch)
            \cup ({"record"} \X (Record \cup Knowledge \cup Linked))

ASSUME UserEdgeAssumption == UserEdge \subseteq NodeId \X NodeId

Ledger == [branches : SUBSET Branch,
           parent   : [Branch -> Branch \cup {NoBranch}],
           records  : [Branch -> SUBSET Record],
           result   : [Branch -> BOOLEAN],
           accepted : [Knowledge -> Branch \cup {NoBranch}]]

Graph == [nodes : SUBSET NodeId, edges : SUBSET (NodeId \X NodeId)]

EmptyLedger == [branches |-> {},
                parent   |-> [b \in Branch |-> NoBranch],
                records  |-> [b \in Branch |-> {}],
                result   |-> [b \in Branch |-> FALSE],
                accepted |-> [k \in Knowledge |-> NoBranch]]

EmptyGraph == [nodes |-> {}, edges |-> {}]

(***************************************************************************)
(* The cycle test.  _has_cycle removes nodes without incoming edges until  *)
(* none is left; it finds a cycle exactly when some nodes remain, each     *)
(* with an incoming edge from a remaining node.  SortIsRight compares this *)
(* definition with the loop itself (KahnSort).                             *)
(***************************************************************************)
HasCycle(g) ==
  \E S \in SUBSET {e[2] : e \in g.edges} :
    S # {} /\ \A n \in S : \E m \in S : <<m, n>> \in g.edges

(* Mutant of Extend: a node's new edges take the place of its old ones.    *)
ReplaceEdges(g, N, E) ==
  [nodes |-> g.nodes \cup N,
   edges |-> {e \in g.edges : \A x \in E : x[1] # e[1]} \cup E]

Extend(g, N, E) == [nodes |-> g.nodes \cup N, edges |-> g.edges \cup E]

(* Mutant of Accepts: the test looks for self-loops alone.                 *)
AcceptsIfNoLoop(g, N, E) == \A e \in E : e[1] # e[2]

(* Nodes N are put and edges E ensured one after the other; an edge that   *)
(* is there already is kept, one that closes a cycle raises.               *)
Accepts(g, N, E) == ~HasCycle(Extend(g, N, E))

FreshItem(r) == /\ Item(r) \notin graph.nodes
                /\ \A b \in Branch : r \notin ledger.records[b] /\ r \notin sfile.records[b]

KnowledgeTarget(g, b) == IF Result(b) \in g.nodes THEN Result(b) ELSE Claim(b)

(* Mutant of LineageEdges: the parent claim is not looked up.              *)
LineageUnchecked(g, b, p) == {<<Claim(b), Claim(p)>>}

(* ensure_branch: forked_from the parent claim, if the graph has it.       *)
LineageEdges(g, b, p) ==
  IF Claim(p) \in g.nodes THEN {<<Claim(b), Claim(p)>>} ELSE {}

SaveGraph(g) == graph' = g /\ gfile' = g

(***************************************************************************)
(* Handlers.                                                               *)
(***************************************************************************)
Init ==
  /\ ledger = EmptyLedger /\ sfile = EmptyLedger
  /\ graph = EmptyGraph /\ gfile = EmptyGraph
  /\ phase = "idle"

(* Mutant of KnownParent: any parent id is taken.                          *)
AnyParent(p) == TRUE

KnownParent(p) == p \in ledger.branches \cup {NoBranch}

(* create_branch: an unknown parent is refused.                            *)
CreateBranch(b, p) ==
  /\ phase = "idle"
  /\ b \notin ledger.branches /\ Claim(b) \notin graph.nodes
  /\ KnownParent(p)
  /\ LET E == LineageEdges(graph, b, p)
     IN  /\ Accepts(graph, {Claim(b)}, E)
         /\ SaveGraph(Extend(graph, {Claim(b)}, E))
  /\ ledger' = [ledger EXCEPT !.branches = @ \cup {b}, !.parent[b] = p]
  /\ phase' = "unsaved"
  /\ UNCHANGED sfile

(* add_evidence, add_experiment, add_counterexample, _add_review: a new    *)
(* record of the branch, and a node for it with an edge to the claim.      *)
AddRecord(b, r) ==
  /\ phase = "idle"
  /\ b \in ledger.branches /\ FreshItem(r)
  /\ Accepts(graph, {Item(r)}, {<<Item(r), Claim(b)>>})
  /\ SaveGraph(Extend(graph, {Item(r)}, {<<Item(r), Claim(b)>>}))
  /\ ledger' = [ledger EXCEPT !.records[b] = @ \cup {r}]
  /\ phase' = "unsaved"
  /\ UNCHANGED sfile

ResultTargets(L, b) == {Item(r) : r \in L.records[b] \cap Support}

(* set_result: the result node and an edge to every evidence and           *)
(* experiment record of the branch.                                        *)
SetResult(b) ==
  /\ phase = "idle"
  /\ b \in ledger.branches
  /\ LET E == {Result(b)} \X ResultTargets(ledger, b)
     IN  /\ Accepts(graph, {Result(b)}, E)
         /\ SaveGraph(Extend(graph, {Result(b)}, E))
  /\ ledger' = [ledger EXCEPT !.result[b] = TRUE]
  /\ phase' = "unsaved"
  /\ UNCHANGED sfile

(* set_result when one of those edges closes a cycle: the exception leaves *)
(* the result, its node and the edges before the refused one in memory.    *)
(* Only what the graph held before is saved, by ensure_branch.             *)
SetResultRaises(b) ==
  /\ phase = "idle"
  /\ b \in ledger.branches
  /\ \E T \in SUBSET ResultTargets(ledger, b) :
       \E t \in ResultTargets(ledger, b) \ T :
         LET E == {Result(b)} \X T
         IN  /\ Accepts(graph, {Result(b)}, E)
             /\ ~Accepts(graph, {Result(b)}, E \cup {<<Result(b), t>>})
             /\ graph' = Extend(graph, {Result(b)}, E)
  /\ ledger' = [ledger EXCEPT !.result[b] = TRUE]
  /\ gfile' = graph
  /\ UNCHANGED <<sfile, phase>>

(* set_result with a blank text: the ledger forgets the result, the graph  *)
(* is not touched.                                                         *)
ClearResult(b) ==
  /\ phase = "idle"
  /\ b \in ledger.branches
  /\ ledger' = [ledger EXCEPT !.result[b] = FALSE]
  /\ phase' = "unsaved"
  /\ UNCHANGED <<graph, sfile, gfile>>

(* accept, once the gate has passed: one item per branch, linked to the    *)
(* result node.                                                            *)
AcceptKnowledge(b, k) ==
  /\ phase = "idle"
  /\ b \in ledger.branches /\ ledger.result[b]
  /\ \A x \in Knowledge : ledger.accepted[x] # b
  /\ ledger.accepted[k] = NoBranch /\ Item(k) \notin graph.nodes
  /\ LET E == {<<Item(k), KnowledgeTarget(graph, b)>>}
     IN  /\ Accepts(graph, {Item(k)}, E)
         /\ SaveGraph(Extend(graph, {Item(k)}, E))
  /\ ledger' = [ledger EXCEPT !.accepted[k] = b]
  /\ phase' = "unsaved"
  /\ UNCHANGED sfile

(* add_council_review, add_challenge_node and the successor version of     *)
(* _successor: a new node linked to a node of the graph; the ledger is not *)
(* involved.                                                               *)
LinkTargets ==
  {Claim(b) : b \in ledger.branches}
    \cup {Item(k) : k \in {x \in Knowledge : ledger.accepted[x] # NoBranch}}

AddLinked(r, t) ==
  /\ phase = "idle"
  /\ Item(r) \notin graph.nodes
  /\ t \in LinkTargets /\ t \in graph.nodes
  /\ Accepts(graph, {Item(r)}, {<<Item(r), t>>})
  /\ SaveGraph(Extend(graph, {Item(r)}, {<<Item(r), t>>}))
  /\ UNCHANGED <<ledger, sfile, phase>>

(* Mutant of KnownNodes: the target is not looked up.                      *)
KnownSource(s, t) == s \in graph.nodes

KnownNodes(s, t) == {s, t} \subseteq graph.nodes

(* add_edge, the route a user adds an edge by: a self-loop, an unknown     *)
(* node and an edge that closes a cycle are refused.                       *)
AddEdge(s, t) ==
  /\ phase = "idle"
  /\ s # t
  /\ KnownNodes(s, t)
  /\ Accepts(graph, {}, {<<s, t>>})
  /\ SaveGraph(Extend(graph, {}, {<<s, t>>}))
  /\ UNCHANGED <<ledger, sfile, phase>>

(* The save of the ledger that ends a handler.                             *)
SaveLedger ==
  /\ phase = "unsaved"
  /\ sfile' = ledger
  /\ phase' = "idle"
  /\ UNCHANGED <<ledger, graph, gfile>>

(***************************************************************************)
(* Restart.                                                                *)
(***************************************************************************)
ReconciledNodes(L) ==
  {Claim(b) : b \in L.branches}
    \cup {Result(b) : b \in {x \in L.branches : L.result[x]}}
    \cup (UNION {{Item(r) : r \in L.records[b]} : b \in L.branches})
    \cup {Item(k) : k \in {x \in Knowledge : L.accepted[x] # NoBranch}}

ClaimEdges(L, b) == {<<Item(r), Claim(b)>> : r \in L.records[b]}

ResultEdges(L, b) == IF L.result[b] THEN {Result(b)} \X ResultTargets(L, b) ELSE {}

(* Mutant of BranchEdges: the nodes of records are put, their edges to the *)
(* claim are not ensured again.                                            *)
BranchEdgesWithoutClaims(g, L, b) == LineageEdges(g, b, L.parent[b]) \cup ResultEdges(L, b)

BranchEdges(g, L, b) ==
  LineageEdges(g, b, L.parent[b]) \cup ClaimEdges(L, b) \cup ResultEdges(L, b)

KnowledgeEdges(g, L) ==
  {<<Item(k), KnowledgeTarget(g, L.accepted[k])>> :
     k \in {x \in Knowledge : /\ L.accepted[x] # NoBranch
                              /\ KnowledgeTarget(g, L.accepted[x]) \in g.nodes}}

(* _reconcile_graph: what the saved ledger asks for is added to graph g.   *)
Reconcile(L, g) ==
  LET n == Extend(g, ReconciledNodes(L), {})
  IN  Extend(n, {}, (UNION {BranchEdges(n, L, b) : b \in L.branches}) \cup KnowledgeEdges(n, L))

(* The process dies, in whatever phase, and a new one starts from the      *)
(* saved ledger and graph g: the saved graph, or the empty one when        *)
(* evidence-graph.json turns out to be malformed.                          *)
Restart(g) ==
  /\ phase # "down"
  /\ ~HasCycle(Reconcile(sfile, g))
  /\ ledger' = sfile
  /\ SaveGraph(Reconcile(sfile, g))
  /\ phase' = "idle"
  /\ UNCHANGED sfile

(* An edge the ledger asks for closes a cycle with a saved one: the        *)
(* exception leaves the constructor and no server comes up.  What was      *)
(* reconciled before it has been saved.                                    *)
RestartRaises ==
  /\ HasCycle(Reconcile(sfile, gfile))
  /\ \E E \in SUBSET (Reconcile(sfile, gfile).edges \ gfile.edges) :
       LET N == {e[1] : e \in E} \cup {e[2] : e \in E}
       IN  ~HasCycle(Extend(gfile, N, E)) /\ gfile' = Extend(gfile, N, E)
  /\ phase' = "down"
  /\ ledger' = EmptyLedger /\ graph' = EmptyGraph
  /\ UNCHANGED sfile

Next ==
  \/ \E b \in Branch, p \in Branch \cup {NoBranch} : CreateBranch(b, p)
  \/ \E b \in Branch, r \in Record : AddRecord(b, r)
  \/ \E b \in Branch : SetResult(b)
  \/ \E b \in Branch : SetResultRaises(b)
  \/ \E b \in Branch : ClearResult(b)
  \/ \E b \in Branch, k \in Knowledge : AcceptKnowledge(b, k)
  \/ \E r \in Linked, t \in LinkTargets : AddLinked(r, t)
  \/ \E e \in UserEdge : AddEdge(e[1], e[2])
  \/ SaveLedger
  \/ Restart(gfile)
  \/ Restart(EmptyGraph)
  \/ RestartRaises

Spec == Init /\ [][Next]_vars

(* The nodes snapshot may show of a branch: its own, and of those only the *)
(* graph keeps (reviews, challenges, versions, and what the ledger lost in *)
(* a crash) the ones that were put for it.  Which these are is left open.  *)
OwnNodes(b) ==
  {Claim(b), Result(b)} \cup {Item(r) : r \in ledger.records[b]}
    \cup {Item(k) : k \in {x \in Knowledge : ledger.accepted[x] = b}}

GraphOnly ==
  {Item(r) : r \in Record \cup Knowledge \cup Linked} \ UNION {OwnNodes(b) : b \in ledger.branches}

BranchNodes(b) ==
  {(graph.nodes \cap OwnNodes(b)) \cup R : R \in SUBSET (graph.nodes \cap GraphOnly)}

-----------------------------------------------------------------------------
(***************************************************************************)
(* Properties.                                                             *)
(***************************************************************************)

(* Every variable has its type.                                            *)
TypeOK ==
  /\ ledger \in Ledger /\ sfile \in Ledger
  /\ graph \in Graph /\ gfile \in Graph
  /\ phase \in {"idle", "unsaved", "down"}

(* No sequence of handlers, refused edges, half-done results, crashes and  *)
(* restarts produces circular provenance, in memory or on disk: every path *)
(* that adds an edge goes through the cycle test of _ensure_edge.          *)
Acyclic == ~HasCycle(graph) /\ ~HasCycle(gfile)

(* Every branch and record of the ledger a running server holds is in its  *)
(* graph, tied to the claim it is about, and a branch to its parent: after *)
(* a crash between the two saves, and after evidence-graph.json was lost.  *)
Represents(g, L) ==
  \A b \in L.branches :
    /\ Claim(b) \in g.nodes
    /\ ClaimEdges(L, b) \subseteq g.edges
    /\ L.parent[b] # NoBranch => <<Claim(b), Claim(L.parent[b])>> \in g.edges

LedgerInGraph == phase # "down" => Represents(graph, ledger)

(* The ledger alone never asks for circular provenance, so a lost          *)
(* evidence-graph.json can always be rebuilt (_reconcile_graph).           *)
RebuildSucceeds == ~HasCycle(Reconcile(sfile, EmptyGraph))

(* A handler that appends a record to the ledger before the graph is asked *)
(* is never refused by the graph: a node nobody points at closes no cycle. *)
FreshNeverRefused ==
  \A b \in ledger.branches, r \in Record :
    FreshItem(r) => Accepts(graph, {Item(r)}, {<<Item(r), Claim(b)>>})

(* _has_cycle gives the right answer for every edge a user may ask for,    *)
(* the refused ones included.                                              *)
KahnIsRight ==
  \A e \in {x \in UserEdge : {x[1], x[2]} \subseteq graph.nodes} :
    LET g == Extend(graph, {}, {e})
    IN  KahnFindsCycle(g.nodes, g.edges) <=> HasCycle(g)

(* The gate's evidence_graph_acyclic check compares the length of the      *)
(* branch snapshot's topological order with its nodes: every node of the   *)
(* branch is listed, once, and each edge leads from left to right.         *)
Ordered(order, N, E) ==
  /\ Len(order) = Cardinality(N)
  /\ {order[i] : i \in 1..Len(order)} = N
  /\ \A i, j \in 1..Len(order) : <<order[i], order[j]>> \in E => i < j

SnapshotIsOrdered ==
  \A b \in ledger.branches : \A N \in BranchNodes(b) :
    LET E == graph.edges \cap (N \X N)
    IN  Ordered(TopologicalOrder(N, E), N, E)

(* Both copies of the sort do what they are used for: the one that refuses *)
(* cycles and the one the gate reads.                                      *)
SortIsRight == KahnIsRight /\ SnapshotIsOrdered

(* Saved provenance is only ever added to, crashes and restarts included,  *)
(* unless evidence-graph.json itself is lost.                              *)
DurableEdges ==
  [][Restart(EmptyGraph) \/ gfile.edges \subseteq gfile'.edges]_vars

(* ResearchOrchestrator is "Persistent": what it has saved it can load.    *)
RestartSucceeds == ~HasCycle(Reconcile(sfile, gfile))
=============================================================================
