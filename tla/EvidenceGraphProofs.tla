-------------------------- MODULE EvidenceGraphProofs --------------------------
(***************************************************************************)
(* Proofs about EvidenceGraph, for every set of branches, records and      *)
(* requested edges.                                                        *)
(*                                                                         *)
(* The invariants are inductive once it is known that edges join nodes of  *)
(* the graph (so a new id has no incoming edge), that a branch's parent is *)
(* a branch and only branches have records, and that not only the graph in *)
(* memory but also the saved one represents both the ledger in memory and  *)
(* the saved one: a crash may combine the saved graph with the older saved *)
(* ledger.                                                                 *)
(*                                                                         *)
(* The sort of KahnSort is a recursive function along the turns of its     *)
(* loop.  What holds between two turns (Turning) gives what it finds and   *)
(* lists for any finite graph; that a running process has a finite one     *)
(* (AllFinite) is an invariant, as the sets of ids need not be finite.     *)
(***************************************************************************)
EXTENDS EvidenceGraph, FiniteSetTheorems, WellFoundedInduction, TLAPS

Closed(g) == g.edges \subseteq g.nodes \X g.nodes

WellFormed(L) ==
  /\ \A b \in L.branches : L.parent[b] \in L.branches \cup {NoBranch}
  /\ \A b \in Branch \ L.branches : L.records[b] = {}

IInv ==
  /\ TypeOK
  /\ Acyclic
  /\ Closed(graph) /\ Closed(gfile)
  /\ WellFormed(ledger) /\ WellFormed(sfile)
  /\ phase # "down" => Represents(graph, ledger) /\ Represents(gfile, ledger)
  /\ Represents(gfile, sfile) /\ (phase # "down" => Represents(graph, sfile))
  /\ phase # "down" => gfile.edges \subseteq graph.edges

-----------------------------------------------------------------------------
(* What the helper operators on graphs preserve.                           *)

(* A subgraph of an acyclic graph is acyclic (HasCycle).                   *)
LEMMA SubgraphAcyclic ==
  ASSUME NEW g, NEW h, g.edges \subseteq h.edges, ~HasCycle(h)
  PROVE  ~HasCycle(g)
BY DEF HasCycle

(* An edge out of a node nobody points at closes no cycle (_ensure_edge).  *)
LEMMA FreshSourceAcyclic ==
  ASSUME NEW g, NEW n, NEW t, NEW N, ~HasCycle(g), n # t,
         \A m : <<m, n>> \notin g.edges
  PROVE  ~HasCycle(Extend(g, N, {<<n, t>>}))
<1> DEFINE h == Extend(g, N, {<<n, t>>})
<1>1. h.edges = g.edges \cup {<<n, t>>}
  BY DEF Extend
<1>2. SUFFICES ASSUME NEW S \in SUBSET {e[2] : e \in h.edges}, S # {},
                      \A x \in S : \E m \in S : <<m, x>> \in h.edges
               PROVE  FALSE
  BY DEF HasCycle
<1>3. n \notin S
  BY <1>1, <1>2
<1>4. \A x \in S : \E m \in S : <<m, x>> \in g.edges
  BY <1>1, <1>2, <1>3
<1>5. ASSUME NEW x \in S
      PROVE  x \in {e[2] : e \in g.edges}
  <2>1. PICK m \in S : <<m, x>> \in g.edges
    BY <1>4
  <2>2. x = <<m, x>>[2]
    OBVIOUS
  <2>3. QED
    BY <2>1, <2>2
<1>6. QED
  BY <1>2, <1>4, <1>5 DEF HasCycle

(* A graph that represents a ledger does so when it grows.                 *)
LEMMA RepresentsGrows ==
  ASSUME NEW g, NEW h, NEW L, Represents(g, L),
         g.nodes \subseteq h.nodes, g.edges \subseteq h.edges
  PROVE  Represents(h, L)
BY DEF Represents

(* The ids of claims, results and records are ids of nodes.                *)
LEMMA NodeTypes ==
  /\ \A b \in Branch : Claim(b) \in NodeId /\ Result(b) \in NodeId
  /\ \A r \in Record \cup Knowledge \cup Linked : Item(r) \in NodeId
  /\ Claim(NoBranch) \notin NodeId
BY NoBranchAssumption DEF NodeId, Claim, Result, Item

(* Claims, results and records have different node ids.                    *)
LEMMA NodesDiffer ==
  \A x, y : /\ Claim(x) # Result(y) /\ Claim(x) # Item(y) /\ Result(x) # Item(y)
            /\ (Claim(x) = Claim(y) => x = y)
            /\ (Result(x) = Result(y) => x = y)
            /\ (Item(x) = Item(y) => x = y)
BY DEF Claim, Result, Item

(* What a process without any saved file starts with.                      *)
LEMMA EmptyTypes ==
  /\ EmptyLedger \in Ledger /\ EmptyGraph \in Graph
  /\ ~HasCycle(EmptyGraph) /\ Closed(EmptyGraph)
  /\ WellFormed(EmptyLedger)
  /\ \A g : Represents(g, EmptyLedger)
BY DEF EmptyLedger, EmptyGraph, Ledger, Graph, HasCycle, Closed, WellFormed, Represents

(* The nodes _reconcile_graph puts are nodes.                              *)
LEMMA ReconciledNodesType ==
  ASSUME NEW L \in Ledger
  PROVE  ReconciledNodes(L) \in SUBSET NodeId
<1>1. /\ L.branches \in SUBSET Branch
      /\ L.records \in [Branch -> SUBSET Record]
  BY DEF Ledger
<1>2. {Claim(b) : b \in L.branches} \in SUBSET NodeId
  BY <1>1, NodeTypes
<1>3. {Result(b) : b \in {x \in L.branches : L.result[x]}} \in SUBSET NodeId
  BY <1>1, NodeTypes
<1>4. UNION {{Item(r) : r \in L.records[b]} : b \in L.branches} \in SUBSET NodeId
  BY <1>1, NodeTypes
<1>5. {Item(k) : k \in {x \in Knowledge : L.accepted[x] # NoBranch}} \in SUBSET NodeId
  BY NodeTypes
<1>6. QED
  BY <1>2, <1>3, <1>4, <1>5 DEF ReconciledNodes

(* The nodes and edges a restart asks for are nodes and pairs of nodes of  *)
(* the reconciled graph, which extends the graph that was read and         *)
(* represents the ledger that was read.                                    *)
LEMMA ReconcileExtends ==
  ASSUME NEW L \in Ledger, NEW g \in Graph, Closed(g), WellFormed(L)
  PROVE  /\ Reconcile(L, g) \in Graph
         /\ Closed(Reconcile(L, g))
         /\ g.nodes \subseteq Reconcile(L, g).nodes
         /\ g.edges \subseteq Reconcile(L, g).edges
         /\ Represents(Reconcile(L, g), L)
<1> DEFINE n == Extend(g, ReconciledNodes(L), {})
           B == UNION {BranchEdges(n, L, b) : b \in L.branches}
           R == Reconcile(L, g)
<1>1. /\ L.branches \in SUBSET Branch
      /\ L.parent \in [Branch -> Branch \cup {NoBranch}]
      /\ L.records \in [Branch -> SUBSET Record]
      /\ L.result \in [Branch -> BOOLEAN]
      /\ L.accepted \in [Knowledge -> Branch \cup {NoBranch}]
  BY DEF Ledger
<1>2. ReconciledNodes(L) \in SUBSET NodeId
  BY ReconciledNodesType
<1>3. /\ n \in Graph
      /\ n.nodes = g.nodes \cup ReconciledNodes(L)
      /\ n.edges = g.edges
  BY <1>2 DEF Extend, Graph
<1>4. R.nodes = n.nodes /\ R.edges = n.edges \cup B \cup KnowledgeEdges(n, L)
  BY DEF Reconcile, Extend
<1>5. ASSUME NEW b \in L.branches
      PROVE  /\ Claim(b) \in n.nodes
             /\ L.result[b] => Result(b) \in n.nodes
             /\ \A r \in L.records[b] : Item(r) \in n.nodes
  BY <1>1, <1>3 DEF ReconciledNodes
<1>6. ASSUME NEW b \in L.branches
      PROVE  BranchEdges(n, L, b) \subseteq n.nodes \X n.nodes
  <2>1. LineageEdges(n, b, L.parent[b]) \subseteq n.nodes \X n.nodes
    BY <1>5 DEF LineageEdges
  <2>2. ClaimEdges(L, b) \subseteq n.nodes \X n.nodes
    BY <1>5 DEF ClaimEdges
  <2>3. ResultEdges(L, b) \subseteq n.nodes \X n.nodes
    BY <1>5 DEF ResultEdges, ResultTargets
  <2>4. QED
    BY <2>1, <2>2, <2>3 DEF BranchEdges
<1>7. KnowledgeEdges(n, L) \subseteq n.nodes \X n.nodes
  <2>1. ASSUME NEW k \in Knowledge, L.accepted[k] # NoBranch
        PROVE  Item(k) \in n.nodes
    BY <2>1, <1>1, <1>3 DEF ReconciledNodes
  <2>2. QED
    BY <2>1 DEF KnowledgeEdges
<1>8. B \subseteq n.nodes \X n.nodes
  BY <1>6
<1>9. R \in Graph
  BY <1>3, <1>4, <1>7, <1>8 DEF Graph, Reconcile, Extend
<1>10. Closed(R)
  BY <1>3, <1>4, <1>7, <1>8 DEF Closed
<1>11. Represents(R, L)
  <2>1. ASSUME NEW b \in L.branches
        PROVE  /\ Claim(b) \in R.nodes
               /\ ClaimEdges(L, b) \subseteq R.edges
               /\ L.parent[b] # NoBranch => <<Claim(b), Claim(L.parent[b])>> \in R.edges
    <3>1. BranchEdges(n, L, b) \subseteq R.edges
      BY <1>4
    <3>2. Claim(b) \in R.nodes /\ ClaimEdges(L, b) \subseteq R.edges
      BY <1>4, <1>5, <3>1 DEF BranchEdges
    <3>3. ASSUME L.parent[b] # NoBranch
          PROVE  <<Claim(b), Claim(L.parent[b])>> \in R.edges
      <4>1. Claim(L.parent[b]) \in n.nodes
        BY <3>3, <1>5 DEF WellFormed
      <4>2. QED
        BY <3>1, <4>1 DEF BranchEdges, LineageEdges
    <3>4. QED
      BY <3>2, <3>3
  <2>2. QED
    BY <2>1 DEF Represents
<1>12. QED
  BY <1>3, <1>4, <1>9, <1>10, <1>11

(* Nodes and edges a handler adds keep the graph's edges on its nodes.     *)
LEMMA ExtendClosed ==
  ASSUME NEW g \in Graph, Closed(g), NEW N \in SUBSET NodeId,
         NEW E \in SUBSET ((g.nodes \cup N) \X (g.nodes \cup N))
  PROVE  Extend(g, N, E) \in Graph /\ Closed(Extend(g, N, E))
BY DEF Extend, Graph, Closed

(* Without the saved graph, a restart asks for an acyclic graph: results   *)
(* and knowledge are at its sources, and the lineage of the claims is part *)
(* of an acyclic graph that represents the ledger.                         *)
LEMMA RebuildAcyclic ==
  ASSUME NEW L \in Ledger, NEW g \in Graph, Represents(g, L), ~HasCycle(g)
  PROVE  ~HasCycle(Reconcile(L, EmptyGraph))
<1> DEFINE n == Extend(EmptyGraph, ReconciledNodes(L), {})
           R == Reconcile(L, EmptyGraph)
<1>1. /\ L.branches \in SUBSET Branch
      /\ L.parent \in [Branch -> Branch \cup {NoBranch}]
      /\ L.records \in [Branch -> SUBSET Record]
      /\ L.result \in [Branch -> BOOLEAN]
      /\ L.accepted \in [Knowledge -> Branch \cup {NoBranch}]
  BY DEF Ledger
<1>2. /\ n.nodes = ReconciledNodes(L)
      /\ R.edges = (UNION {BranchEdges(n, L, b) : b \in L.branches}) \cup KnowledgeEdges(n, L)
  BY DEF Reconcile, Extend, EmptyGraph
<1>3. n.nodes \in SUBSET NodeId
  BY <1>2, ReconciledNodesType
<1>4. SUFFICES ASSUME NEW S \in SUBSET {e[2] : e \in R.edges}, S # {},
                      \A x \in S : \E m \in S : <<m, x>> \in R.edges
               PROVE  FALSE
  BY DEF HasCycle
<1>5. ASSUME NEW m, NEW x, <<m, x>> \in R.edges
      PROVE  \/ \E b \in L.branches : /\ m = Claim(b) /\ x = Claim(L.parent[b])
                                       /\ L.parent[b] # NoBranch
             \/ \E b \in L.branches : \E r \in L.records[b] : m = Item(r) /\ x = Claim(b)
             \/ \E b \in Branch : \E r \in Support : m = Result(b) /\ x = Item(r)
             \/ \E k \in Knowledge, b \in Branch :
                   m = Item(k) /\ (x = Result(b) \/ x = Claim(b))
  <2>1. CASE <<m, x>> \in KnowledgeEdges(n, L)
    <3>1. PICK k \in Knowledge : /\ L.accepted[k] # NoBranch
                                 /\ <<m, x>> = <<Item(k), KnowledgeTarget(n, L.accepted[k])>>
      BY <2>1 DEF KnowledgeEdges
    <3>2. QED
      BY <3>1, <1>1 DEF KnowledgeTarget
  <2>2. CASE \E b \in L.branches : <<m, x>> \in BranchEdges(n, L, b)
    <3>1. PICK b \in L.branches : <<m, x>> \in BranchEdges(n, L, b)
      BY <2>2
    <3>2. CASE <<m, x>> \in LineageEdges(n, b, L.parent[b])
      <4>1. m = Claim(b) /\ x = Claim(L.parent[b]) /\ Claim(L.parent[b]) \in n.nodes
        BY <3>2 DEF LineageEdges
      <4>2. L.parent[b] # NoBranch
        BY <4>1, <1>3, NodeTypes
      <4>3. QED
        BY <4>1, <4>2
    <3>3. CASE <<m, x>> \in ClaimEdges(L, b)
      BY <3>3 DEF ClaimEdges
    <3>4. CASE <<m, x>> \in ResultEdges(L, b)
      BY <3>4, <1>1 DEF ResultEdges, ResultTargets
    <3>5. QED
      BY <3>1, <3>2, <3>3, <3>4 DEF BranchEdges
  <2>3. QED
    BY <1>2, <1>5, <2>1, <2>2
<1>6. ASSUME NEW k \in Knowledge PROVE Item(k) \notin S
  <2>1. SUFFICES ASSUME NEW m, <<m, Item(k)>> \in R.edges PROVE FALSE
    BY <1>4
  <2>2. QED
    BY <1>5, <2>1, NodesDiffer, IdsAssumption
<1>7. ASSUME NEW b \in Branch PROVE Result(b) \notin S
  <2>1. SUFFICES ASSUME NEW m \in S, <<m, Result(b)>> \in R.edges PROVE FALSE
    BY <1>4
  <2>2. QED
    BY <1>5, <1>6, <2>1, NodesDiffer
<1>8. ASSUME NEW r \in Record PROVE Item(r) \notin S
  <2>1. SUFFICES ASSUME NEW m \in S, <<m, Item(r)>> \in R.edges PROVE FALSE
    BY <1>4
  <2>2. \E b \in Branch : m = Result(b)
    BY <1>5, <2>1, NodesDiffer
  <2>3. QED
    BY <1>7, <2>1, <2>2
<1>9. ASSUME NEW x \in S
      PROVE  \E m \in S : <<m, x>> \in g.edges
  <2>1. PICK m \in S : <<m, x>> \in R.edges
    BY <1>4
  <2>2. PICK b \in L.branches : /\ m = Claim(b) /\ x = Claim(L.parent[b])
                                /\ L.parent[b] # NoBranch
    BY <1>1, <1>5, <1>6, <1>7, <1>8, <2>1
  <2>3. QED
    BY <2>2 DEF Represents
<1>10. ASSUME NEW x \in S PROVE x \in {e[2] : e \in g.edges}
  <2>1. PICK m \in S : <<m, x>> \in g.edges
    BY <1>9
  <2>2. x = <<m, x>>[2]
    OBVIOUS
  <2>3. QED
    BY <2>1, <2>2
<1>11. QED
  BY <1>4, <1>9, <1>10 DEF HasCycle

-----------------------------------------------------------------------------
(* The invariant is inductive.                                             *)

(* A handler that extends the graph and saves it: what remains to be shown *)
(* is that the new graph is acyclic and represents the new ledger.         *)
LEMMA SavingStep ==
  ASSUME IInv, phase = "idle",
         NEW N \in SUBSET NodeId,
         NEW E \in SUBSET ((graph.nodes \cup N) \X (graph.nodes \cup N)),
         Accepts(graph, N, E),
         SaveGraph(Extend(graph, N, E)),
         UNCHANGED sfile,
         phase' \in {"idle", "unsaved"},
         ledger' \in Ledger, WellFormed(ledger'), Represents(graph', ledger')
  PROVE  IInv'
<1>1. graph' \in Graph /\ Closed(graph')
  BY ExtendClosed DEF IInv, TypeOK, SaveGraph
<1>2. ~HasCycle(graph') /\ gfile' = graph'
  BY DEF Accepts, SaveGraph
<1>3. graph.nodes \subseteq graph'.nodes /\ graph.edges \subseteq graph'.edges
  BY DEF SaveGraph, Extend
<1>4. Represents(gfile', sfile')
  <2>1. Represents(graph, sfile)
    BY DEF IInv
  <2>2. QED
    BY <1>2, <1>3, <2>1, RepresentsGrows
<1>5. QED
  BY <1>1, <1>2, <1>4 DEF IInv, TypeOK, Acyclic, Closed, WellFormed, Represents

(* Ledger updates keep the ledger's type and well-formedness.              *)
LEMMA LedgerUpdates ==
  ASSUME NEW L \in Ledger, WellFormed(L)
  PROVE  /\ \A b \in Branch, p \in L.branches \cup {NoBranch} :
              LET M == [L EXCEPT !.branches = @ \cup {b}, !.parent[b] = p]
              IN  M \in Ledger /\ WellFormed(M)
         /\ \A b \in L.branches, r \in Record :
              LET M == [L EXCEPT !.records[b] = @ \cup {r}]
              IN  M \in Ledger /\ WellFormed(M)
         /\ \A b \in L.branches, v \in BOOLEAN :
              LET M == [L EXCEPT !.result[b] = v]
              IN  M \in Ledger /\ WellFormed(M)
         /\ \A k \in Knowledge, b \in L.branches :
              LET M == [L EXCEPT !.accepted[k] = b]
              IN  M \in Ledger /\ WellFormed(M)
BY ZenonT(60) DEF Ledger, WellFormed

(* One lemma per handler: create_branch.                                   *)
LEMMA CreateBranchStep ==
  ASSUME IInv, NEW b \in Branch, NEW p \in Branch \cup {NoBranch}, CreateBranch(b, p)
  PROVE  IInv'
<1> DEFINE E == LineageEdges(graph, b, p)
<1>1. /\ phase = "idle" /\ b \notin ledger.branches
      /\ p \in ledger.branches \cup {NoBranch}
      /\ Accepts(graph, {Claim(b)}, E) /\ SaveGraph(Extend(graph, {Claim(b)}, E))
      /\ ledger' = [ledger EXCEPT !.branches = @ \cup {b}, !.parent[b] = p]
      /\ phase' = "unsaved" /\ UNCHANGED sfile
  BY DEF CreateBranch, KnownParent
<1>2. ledger \in Ledger /\ WellFormed(ledger) /\ Represents(graph, ledger)
  BY <1>1 DEF IInv, TypeOK
<1>3. ledger' \in Ledger /\ WellFormed(ledger')
  BY <1>1, <1>2, LedgerUpdates
<1>4. E \in SUBSET ((graph.nodes \cup {Claim(b)}) \X (graph.nodes \cup {Claim(b)}))
  BY DEF LineageEdges
<1>5. /\ graph'.nodes = graph.nodes \cup {Claim(b)}
      /\ graph'.edges = graph.edges \cup E
  BY <1>1 DEF SaveGraph, Extend
<1>6. ASSUME NEW x \in ledger'.branches
      PROVE  /\ Claim(x) \in graph'.nodes
             /\ ClaimEdges(ledger', x) \subseteq graph'.edges
             /\ ledger'.parent[x] # NoBranch =>
                  <<Claim(x), Claim(ledger'.parent[x])>> \in graph'.edges
  <2>1. ledger'.branches = ledger.branches \cup {b} /\ ledger'.records = ledger.records
    BY <1>1, <1>2 DEF Ledger
  <2>2. CASE x = b
    <3>1. ClaimEdges(ledger', x) = {}
      BY <1>1, <1>2, <2>1, <2>2 DEF ClaimEdges, WellFormed
    <3>2. ledger'.parent[x] = p
      BY <1>1, <1>2, <2>2 DEF Ledger
    <3>3. p # NoBranch => Claim(p) \in graph.nodes
      BY <1>1, <1>2 DEF Represents
    <3>4. QED
      BY <1>5, <2>2, <3>1, <3>2, <3>3 DEF LineageEdges
  <2>3. CASE x # b
    <3>1. ledger'.parent[x] = ledger.parent[x] /\ x \in ledger.branches
      BY <1>1, <1>2, <2>1, <2>3 DEF Ledger
    <3>2. ClaimEdges(ledger', x) = ClaimEdges(ledger, x)
      BY <2>1 DEF ClaimEdges
    <3>3. QED
      BY <1>2, <1>5, <3>1, <3>2 DEF Represents
  <2>4. QED
    BY <2>2, <2>3
<1>7. Represents(graph', ledger')
  BY <1>6 DEF Represents
<1>8. {Claim(b)} \in SUBSET NodeId
  BY NodeTypes
<1>9. QED
  BY <1>1, <1>3, <1>4, <1>7, <1>8, SavingStep

(* add_evidence, add_counterexample, add_experiment, _add_review.          *)
LEMMA AddRecordStep ==
  ASSUME IInv, NEW b \in Branch, NEW r \in Record, AddRecord(b, r)
  PROVE  IInv'
<1> DEFINE E == {<<Item(r), Claim(b)>>}
<1>1. /\ phase = "idle" /\ b \in ledger.branches
      /\ Accepts(graph, {Item(r)}, E) /\ SaveGraph(Extend(graph, {Item(r)}, E))
      /\ ledger' = [ledger EXCEPT !.records[b] = @ \cup {r}]
      /\ phase' = "unsaved" /\ UNCHANGED sfile
  BY DEF AddRecord
<1>2. ledger \in Ledger /\ WellFormed(ledger) /\ Represents(graph, ledger)
  BY <1>1 DEF IInv, TypeOK
<1>3. ledger' \in Ledger /\ WellFormed(ledger')
  BY <1>1, <1>2, LedgerUpdates
<1>4. E \in SUBSET ((graph.nodes \cup {Item(r)}) \X (graph.nodes \cup {Item(r)}))
  <2>1. Claim(b) \in graph.nodes
    BY <1>1, <1>2 DEF Represents
  <2>2. QED
    BY <2>1
<1>5. /\ graph'.nodes = graph.nodes \cup {Item(r)}
      /\ graph'.edges = graph.edges \cup E
  BY <1>1 DEF SaveGraph, Extend
<1>6. /\ ledger'.branches = ledger.branches /\ ledger'.parent = ledger.parent
      /\ \A x \in Branch : ledger'.records[x] \subseteq
           IF x = b THEN ledger.records[b] \cup {r} ELSE ledger.records[x]
      /\ ledger.branches \subseteq Branch
  BY <1>1, <1>2 DEF Ledger
<1>7. ASSUME NEW x \in ledger.branches
      PROVE  ClaimEdges(ledger', x) \subseteq graph'.edges
  BY <1>2, <1>5, <1>6 DEF Represents, ClaimEdges
<1>8. Represents(graph', ledger')
  BY <1>2, <1>5, <1>6, <1>7 DEF Represents
<1>9. {Item(r)} \in SUBSET NodeId
  BY NodeTypes
<1>10. QED
  BY <1>1, <1>3, <1>4, <1>8, <1>9, SavingStep

(* Changing the result or the accepted items of a ledger does not change   *)
(* what a graph that represents it must hold.                              *)
LEMMA SameClaims ==
  ASSUME NEW g, NEW L, NEW M, Represents(g, L),
         M.branches = L.branches, M.parent = L.parent, M.records = L.records
  PROVE  Represents(g, M)
BY DEF Represents, ClaimEdges

(* The records a result is computed from are nodes of the graph.           *)
LEMMA TargetsInGraph ==
  ASSUME NEW L \in Ledger, Represents(graph, L), NEW b \in L.branches,
         graph \in Graph, Closed(graph)
  PROVE  ResultTargets(L, b) \subseteq graph.nodes
<1>1. SUFFICES ASSUME NEW r \in L.records[b] PROVE Item(r) \in graph.nodes
  BY DEF ResultTargets
<1>2. <<Item(r), Claim(b)>> \in graph.edges
  BY <1>1 DEF Represents, ClaimEdges
<1>3. QED
  BY <1>2 DEF Closed

(* set_result when the graph takes every edge.                             *)
LEMMA SetResultStep ==
  ASSUME IInv, NEW b \in Branch, SetResult(b)
  PROVE  IInv'
<1> DEFINE E == {Result(b)} \X ResultTargets(ledger, b)
<1>1. /\ phase = "idle" /\ b \in ledger.branches
      /\ Accepts(graph, {Result(b)}, E) /\ SaveGraph(Extend(graph, {Result(b)}, E))
      /\ ledger' = [ledger EXCEPT !.result[b] = TRUE]
      /\ phase' = "unsaved" /\ UNCHANGED sfile
  BY DEF SetResult
<1>2. /\ ledger \in Ledger /\ WellFormed(ledger) /\ Represents(graph, ledger)
      /\ graph \in Graph /\ Closed(graph)
  BY <1>1 DEF IInv, TypeOK
<1>3. ledger' \in Ledger /\ WellFormed(ledger')
  BY <1>1, <1>2, LedgerUpdates
<1>4. E \in SUBSET ((graph.nodes \cup {Result(b)}) \X (graph.nodes \cup {Result(b)}))
  <2>1. ResultTargets(ledger, b) \subseteq graph.nodes
    BY <1>1, <1>2, TargetsInGraph
  <2>2. QED
    BY <2>1
<1>5. Represents(graph', ledger)
  BY <1>1, <1>2, RepresentsGrows DEF SaveGraph, Extend
<1>6. Represents(graph', ledger')
  <2>1. /\ ledger'.branches = ledger.branches /\ ledger'.parent = ledger.parent
        /\ ledger'.records = ledger.records
    BY <1>1, <1>2 DEF Ledger
  <2>2. QED
    BY <1>2, <1>5, <2>1, SameClaims
<1>7. {Result(b)} \in SUBSET NodeId
  BY NodeTypes
<1>8. QED
  BY <1>1, <1>3, <1>4, <1>6, <1>7, SavingStep

(* set_result after a refused edge: the graph in memory is still acyclic,  *)
(* the file holds the graph the handler started from.                      *)
LEMMA SetResultRaisesStep ==
  ASSUME IInv, NEW b \in Branch, SetResultRaises(b)
  PROVE  IInv'
<1>1. PICK T \in SUBSET ResultTargets(ledger, b) :
        /\ Accepts(graph, {Result(b)}, {Result(b)} \X T)
        /\ graph' = Extend(graph, {Result(b)}, {Result(b)} \X T)
  BY DEF SetResultRaises
<1>2. /\ phase = "idle" /\ b \in ledger.branches
      /\ ledger' = [ledger EXCEPT !.result[b] = TRUE]
      /\ gfile' = graph /\ UNCHANGED <<sfile, phase>>
  BY DEF SetResultRaises
<1>3. /\ ledger \in Ledger /\ WellFormed(ledger)
      /\ Represents(graph, ledger) /\ Represents(graph, sfile)
      /\ graph \in Graph /\ Closed(graph) /\ ~HasCycle(graph)
  BY <1>2 DEF IInv, TypeOK, Acyclic
<1>4. ledger' \in Ledger /\ WellFormed(ledger')
  BY <1>2, <1>3, LedgerUpdates
<1>5. /\ {Result(b)} \in SUBSET NodeId
      /\ {Result(b)} \X T \in SUBSET ((graph.nodes \cup {Result(b)})
                                        \X (graph.nodes \cup {Result(b)}))
  <2>1. ResultTargets(ledger, b) \subseteq graph.nodes
    BY <1>2, <1>3, TargetsInGraph
  <2>2. QED
    BY <2>1, NodeTypes
<1>6. graph' \in Graph /\ Closed(graph') /\ ~HasCycle(graph')
  BY <1>1, <1>3, <1>5, ExtendClosed DEF Accepts
<1>7. graph.nodes \subseteq graph'.nodes /\ graph.edges \subseteq graph'.edges
  BY <1>1 DEF Extend
<1>8. Represents(graph, ledger')
  <2>1. /\ ledger'.branches = ledger.branches /\ ledger'.parent = ledger.parent
        /\ ledger'.records = ledger.records
    BY <1>2, <1>3 DEF Ledger
  <2>2. QED
    BY <1>3, <2>1, SameClaims
<1>9. Represents(graph', ledger') /\ Represents(graph', sfile)
  BY <1>3, <1>7, <1>8, RepresentsGrows
<1>10. QED
  BY <1>2, <1>3, <1>4, <1>6, <1>7, <1>8, <1>9
     DEF IInv, TypeOK, Acyclic, Closed, WellFormed, Represents

(* set_result with a blank text.                                           *)
LEMMA ClearResultStep ==
  ASSUME IInv, NEW b \in Branch, ClearResult(b)
  PROVE  IInv'
<1>1. /\ phase = "idle" /\ b \in ledger.branches
      /\ ledger' = [ledger EXCEPT !.result[b] = FALSE]
      /\ phase' = "unsaved" /\ UNCHANGED <<graph, sfile, gfile>>
  BY DEF ClearResult
<1>2. /\ ledger \in Ledger /\ WellFormed(ledger)
      /\ Represents(graph, ledger) /\ Represents(gfile, ledger)
  BY <1>1 DEF IInv, TypeOK
<1>3. ledger' \in Ledger /\ WellFormed(ledger')
  BY <1>1, <1>2, LedgerUpdates
<1>4. Represents(graph, ledger') /\ Represents(gfile, ledger')
  <2>1. /\ ledger'.branches = ledger.branches /\ ledger'.parent = ledger.parent
        /\ ledger'.records = ledger.records
    BY <1>1, <1>2 DEF Ledger
  <2>2. QED
    BY <1>2, <2>1, SameClaims
<1>5. QED
  BY <1>1, <1>3, <1>4 DEF IInv, TypeOK, Acyclic, Closed, WellFormed, Represents

(* accept.                                                                 *)
LEMMA AcceptKnowledgeStep ==
  ASSUME IInv, NEW b \in Branch, NEW k \in Knowledge, AcceptKnowledge(b, k)
  PROVE  IInv'
<1> DEFINE E == {<<Item(k), KnowledgeTarget(graph, b)>>}
<1>1. /\ phase = "idle" /\ b \in ledger.branches
      /\ Accepts(graph, {Item(k)}, E) /\ SaveGraph(Extend(graph, {Item(k)}, E))
      /\ ledger' = [ledger EXCEPT !.accepted[k] = b]
      /\ phase' = "unsaved" /\ UNCHANGED sfile
  BY DEF AcceptKnowledge
<1>2. ledger \in Ledger /\ WellFormed(ledger) /\ Represents(graph, ledger)
  BY <1>1 DEF IInv, TypeOK
<1>3. ledger' \in Ledger /\ WellFormed(ledger')
  BY <1>1, <1>2, LedgerUpdates
<1>4. E \in SUBSET ((graph.nodes \cup {Item(k)}) \X (graph.nodes \cup {Item(k)}))
  <2>1. KnowledgeTarget(graph, b) \in graph.nodes
    BY <1>1, <1>2 DEF KnowledgeTarget, Represents
  <2>2. QED
    BY <2>1
<1>5. Represents(graph', ledger)
  BY <1>1, <1>2, RepresentsGrows DEF SaveGraph, Extend
<1>6. Represents(graph', ledger')
  <2>1. /\ ledger'.branches = ledger.branches /\ ledger'.parent = ledger.parent
        /\ ledger'.records = ledger.records
    BY <1>1, <1>2 DEF Ledger
  <2>2. QED
    BY <1>2, <1>5, <2>1, SameClaims
<1>7. {Item(k)} \in SUBSET NodeId
  BY NodeTypes
<1>8. QED
  BY <1>1, <1>3, <1>4, <1>6, <1>7, SavingStep

(* Council reviews, challenges and successor versions.                     *)
LEMMA AddLinkedStep ==
  ASSUME IInv, NEW r \in Linked, NEW t \in LinkTargets, AddLinked(r, t)
  PROVE  IInv'
<1> DEFINE E == {<<Item(r), t>>}
<1>1. /\ phase = "idle" /\ t \in graph.nodes
      /\ Accepts(graph, {Item(r)}, E) /\ SaveGraph(Extend(graph, {Item(r)}, E))
      /\ UNCHANGED <<ledger, sfile, phase>>
  BY DEF AddLinked
<1>2. ledger \in Ledger /\ WellFormed(ledger) /\ Represents(graph, ledger)
  BY <1>1 DEF IInv, TypeOK
<1>3. E \in SUBSET ((graph.nodes \cup {Item(r)}) \X (graph.nodes \cup {Item(r)}))
  BY <1>1
<1>4. Represents(graph', ledger)
  BY <1>1, <1>2, RepresentsGrows DEF SaveGraph, Extend
<1>5. {Item(r)} \in SUBSET NodeId
  BY NodeTypes
<1>6. ledger' = ledger /\ phase' = "idle" /\ UNCHANGED sfile
  BY <1>1
<1>7. QED
  BY <1>1, <1>2, <1>3, <1>4, <1>5, <1>6, SavingStep

(* add_edge, the user's own edges.                                         *)
LEMMA AddEdgeStep ==
  ASSUME IInv, NEW s, NEW t, AddEdge(s, t)
  PROVE  IInv'
<1>1. /\ phase = "idle" /\ {s, t} \subseteq graph.nodes
      /\ Accepts(graph, {}, {<<s, t>>}) /\ SaveGraph(Extend(graph, {}, {<<s, t>>}))
      /\ UNCHANGED <<ledger, sfile, phase>>
  BY DEF AddEdge, KnownNodes
<1>2. ledger \in Ledger /\ WellFormed(ledger) /\ Represents(graph, ledger)
  BY <1>1 DEF IInv, TypeOK
<1>3. /\ {} \in SUBSET NodeId
      /\ {<<s, t>>} \in SUBSET ((graph.nodes \cup {}) \X (graph.nodes \cup {}))
  BY <1>1
<1>4. Represents(graph', ledger)
  BY <1>1, <1>2, RepresentsGrows DEF SaveGraph, Extend
<1>5. ledger' = ledger /\ phase' = "idle" /\ UNCHANGED sfile
  BY <1>1
<1>6. QED
  BY <1>1, <1>2, <1>3, <1>4, <1>5, SavingStep

(* _persist, at the end of a handler.                                      *)
LEMMA SaveLedgerStep ==
  ASSUME IInv, SaveLedger
  PROVE  IInv'
BY DEF IInv, SaveLedger, TypeOK, Acyclic, Closed, WellFormed, Represents

(* A restart from a graph that is closed and acyclic.                      *)
LEMMA RestartStep ==
  ASSUME IInv, NEW g \in Graph, Closed(g), Restart(g)
  PROVE  IInv'
<1>1. /\ ~HasCycle(Reconcile(sfile, g))
      /\ ledger' = sfile /\ sfile' = sfile
      /\ graph' = Reconcile(sfile, g) /\ gfile' = Reconcile(sfile, g)
      /\ phase' = "idle"
  BY DEF Restart, SaveGraph
<1>2. sfile \in Ledger /\ WellFormed(sfile)
  BY DEF IInv, TypeOK
<1>3. /\ Reconcile(sfile, g) \in Graph /\ Closed(Reconcile(sfile, g))
      /\ Represents(Reconcile(sfile, g), sfile)
  BY <1>2, ReconcileExtends
<1>4. QED
  BY <1>1, <1>2, <1>3 DEF IInv, TypeOK, Acyclic, Closed, WellFormed, Represents

(* A restart that raises half way: the file keeps what it held and gains   *)
(* only edges of the reconciled graph.                                     *)
LEMMA RestartRaisesStep ==
  ASSUME IInv, RestartRaises
  PROVE  IInv'
<1> DEFINE R == Reconcile(sfile, gfile)
           N(E) == {e[1] : e \in E} \cup {e[2] : e \in E}
<1>1. PICK E \in SUBSET (R.edges \ gfile.edges) :
        ~HasCycle(Extend(gfile, N(E), E)) /\ gfile' = Extend(gfile, N(E), E)
  BY DEF RestartRaises
<1>2. /\ phase' = "down" /\ ledger' = EmptyLedger /\ graph' = EmptyGraph
      /\ UNCHANGED sfile
  BY DEF RestartRaises
<1>3. /\ sfile \in Ledger /\ WellFormed(sfile) /\ gfile \in Graph /\ Closed(gfile)
      /\ Represents(gfile, sfile)
  BY DEF IInv, TypeOK
<1>4. R \in Graph /\ Closed(R)
  BY <1>3, ReconcileExtends
<1>5. E \in SUBSET (NodeId \X NodeId)
  BY <1>4 DEF Graph
<1>6. N(E) \in SUBSET NodeId /\ E \in SUBSET (N(E) \X N(E))
  <2>1. ASSUME NEW e \in E
        PROVE  e[1] \in NodeId /\ e[2] \in NodeId /\ e = <<e[1], e[2]>>
    BY <1>5
  <2>2. QED
    BY <2>1
<1>7. gfile' \in Graph /\ Closed(gfile')
  BY <1>1, <1>3, <1>6, ExtendClosed
<1>8. gfile.nodes \subseteq gfile'.nodes /\ gfile.edges \subseteq gfile'.edges
  BY <1>1 DEF Extend
<1>9. Represents(gfile', sfile)
  BY <1>3, <1>8, RepresentsGrows
<1>10. QED
  BY <1>1, <1>2, <1>3, <1>7, <1>9, EmptyTypes
     DEF IInv, TypeOK, Acyclic, Closed, WellFormed, Represents

(* The inductive invariant holds in every state of every execution.        *)
THEOREM Invariance == Spec => []IInv
<1>1. Init => IInv
  BY EmptyTypes DEF Init, IInv, TypeOK, Acyclic
<1>2. IInv /\ [Next]_vars => IInv'
  <2> SUFFICES ASSUME IInv, [Next]_vars PROVE IInv'
    OBVIOUS
  <2>1. CASE \E b \in Branch, p \in Branch \cup {NoBranch} : CreateBranch(b, p)
    BY <2>1, CreateBranchStep
  <2>2. CASE \E b \in Branch, r \in Record : AddRecord(b, r)
    BY <2>2, AddRecordStep
  <2>3. CASE \E b \in Branch : SetResult(b)
    BY <2>3, SetResultStep
  <2>4. CASE \E b \in Branch : SetResultRaises(b)
    BY <2>4, SetResultRaisesStep
  <2>5. CASE \E b \in Branch : ClearResult(b)
    BY <2>5, ClearResultStep
  <2>6. CASE \E b \in Branch, k \in Knowledge : AcceptKnowledge(b, k)
    BY <2>6, AcceptKnowledgeStep
  <2>7. CASE \E r \in Linked, t \in LinkTargets : AddLinked(r, t)
    BY <2>7, AddLinkedStep
  <2>8. CASE \E e \in UserEdge : AddEdge(e[1], e[2])
    BY <2>8, AddEdgeStep
  <2>9. CASE SaveLedger
    BY <2>9, SaveLedgerStep
  <2>10. CASE Restart(gfile)
    <3>1. gfile \in Graph /\ Closed(gfile)
      BY DEF IInv, TypeOK
    <3>2. QED
      BY <2>10, <3>1, RestartStep
  <2>11. CASE Restart(EmptyGraph)
    BY <2>11, EmptyTypes, RestartStep
  <2>12. CASE RestartRaises
    BY <2>12, RestartRaisesStep
  <2>13. CASE UNCHANGED vars
    BY <2>13 DEF vars, IInv, TypeOK, Acyclic, Closed, WellFormed, Represents, ClaimEdges
  <2>14. QED
    BY <2>1, <2>2, <2>3, <2>4, <2>5, <2>6, <2>7, <2>8, <2>9, <2>10, <2>11, <2>12, <2>13
       DEF Next
<1>3. QED
  BY <1>1, <1>2, PTL DEF Spec

-----------------------------------------------------------------------------
(* The properties.                                                         *)

(* Every variable has its type.                                            *)
THEOREM TypeCorrect == Spec => []TypeOK
<1>1. IInv => TypeOK
  BY DEF IInv
<1>2. QED
  BY <1>1, Invariance, PTL

(* Provenance is never circular, in memory or on disk (_ensure_edge).      *)
THEOREM AcyclicAlways == Spec => []Acyclic
<1>1. IInv => Acyclic
  BY DEF IInv
<1>2. QED
  BY <1>1, Invariance, PTL

(* A running server's graph holds all of its ledger, whatever crashes,     *)
(* losses of the graph file and restarts came before (_reconcile_graph).   *)
THEOREM LedgerAlwaysInGraph == Spec => []LedgerInGraph
<1>1. IInv => LedgerInGraph
  BY DEF IInv, LedgerInGraph
<1>2. QED
  BY <1>1, Invariance, PTL

(* The graph of the saved ledger can always be rebuilt from nothing: the   *)
(* edges _reconcile_graph asks for close no cycle among themselves.        *)
THEOREM RebuildAlwaysSucceeds == Spec => []RebuildSucceeds
<1>1. IInv => RebuildSucceeds
  <2>1. SUFFICES ASSUME IInv PROVE RebuildSucceeds
    OBVIOUS
  <2>2. /\ sfile \in Ledger /\ gfile \in Graph
        /\ Represents(gfile, sfile) /\ ~HasCycle(gfile)
    BY <2>1 DEF IInv, TypeOK, Acyclic
  <2>3. QED
    BY <2>2, RebuildAcyclic DEF RebuildSucceeds
<1>2. QED
  BY <1>1, Invariance, PTL

(* The graph never refuses a record the ledger has already taken           *)
(* (add_evidence, add_counterexample, add_experiment, _add_review).        *)
THEOREM FreshAlwaysAccepted == Spec => []FreshNeverRefused
<1>1. IInv => FreshNeverRefused
  <2>1. SUFFICES ASSUME IInv, NEW b \in ledger.branches, NEW r \in Record, FreshItem(r)
                 PROVE  Accepts(graph, {Item(r)}, {<<Item(r), Claim(b)>>})
    BY DEF FreshNeverRefused
  <2>2. ~HasCycle(graph) /\ Closed(graph) /\ Item(r) \notin graph.nodes
    BY <2>1 DEF IInv, Acyclic, FreshItem
  <2>3. \A m : <<m, Item(r)>> \notin graph.edges
    BY <2>2 DEF Closed
  <2>4. Item(r) # Claim(b)
    BY NodesDiffer
  <2>5. QED
    BY <2>2, <2>3, <2>4, FreshSourceAcyclic DEF Accepts
<1>2. QED
  BY <1>1, Invariance, PTL

(* What evidence-graph.json holds is only ever added to by the handlers,   *)
(* by a crash and by a restart, the one that raises included (save,        *)
(* _reconcile_graph), unless the file itself is lost.                      *)
THEOREM EdgesDurable == Spec => DurableEdges
<1>1. IInv /\ [Next]_vars => [Restart(EmptyGraph) \/ gfile.edges \subseteq gfile'.edges]_vars
  <2> SUFFICES ASSUME IInv, Next
               PROVE  Restart(EmptyGraph) \/ gfile.edges \subseteq gfile'.edges
    OBVIOUS
  <2>1. phase # "down" => gfile.edges \subseteq graph.edges
    BY DEF IInv
  <2>2. ASSUME phase = "idle", NEW N, NEW E, SaveGraph(Extend(graph, N, E))
        PROVE  gfile.edges \subseteq gfile'.edges
    BY <2>1, <2>2 DEF SaveGraph, Extend
  <2>3. ASSUME Restart(gfile)
        PROVE  gfile.edges \subseteq gfile'.edges
    <3>1. /\ sfile \in Ledger /\ WellFormed(sfile) /\ gfile \in Graph /\ Closed(gfile)
          /\ gfile' = Reconcile(sfile, gfile)
      BY <2>3 DEF IInv, TypeOK, Restart, SaveGraph
    <3>2. QED
      BY <3>1, ReconcileExtends
  <2>4. ASSUME RestartRaises
        PROVE  gfile.edges \subseteq gfile'.edges
    BY <2>4 DEF RestartRaises, Extend
  <2>5. ASSUME NEW b \in Branch, SetResultRaises(b)
        PROVE  gfile.edges \subseteq gfile'.edges
    BY <2>1, <2>5 DEF SetResultRaises
  <2>6. ASSUME NEW b \in Branch, SetResult(b)
        PROVE  gfile.edges \subseteq gfile'.edges
    BY <2>2, <2>6 DEF SetResult
  <2>7. ASSUME NEW b \in Branch, NEW p, CreateBranch(b, p)
        PROVE  gfile.edges \subseteq gfile'.edges
    BY <2>2, <2>7 DEF CreateBranch
  <2>8. ASSUME NEW b \in Branch, NEW r, AddRecord(b, r)
        PROVE  gfile.edges \subseteq gfile'.edges
    BY <2>2, <2>8 DEF AddRecord
  <2>9. ASSUME NEW b \in Branch, NEW k, AcceptKnowledge(b, k)
        PROVE  gfile.edges \subseteq gfile'.edges
    BY <2>2, <2>9 DEF AcceptKnowledge
  <2>10. ASSUME NEW r, NEW t, AddLinked(r, t)
         PROVE  gfile.edges \subseteq gfile'.edges
    BY <2>2, <2>10 DEF AddLinked
  <2>11. ASSUME NEW s, NEW t, AddEdge(s, t)
         PROVE  gfile.edges \subseteq gfile'.edges
    BY <2>2, <2>11 DEF AddEdge
  <2>12. ASSUME SaveLedger \/ \E b \in Branch : ClearResult(b)
         PROVE  gfile.edges \subseteq gfile'.edges
    BY <2>12 DEF SaveLedger, ClearResult
  <2>13. QED
    BY <2>3, <2>4, <2>5, <2>6, <2>7, <2>8, <2>9, <2>10, <2>11, <2>12 DEF Next
<1>2. QED
  BY <1>1, Invariance, PTL DEF Spec, DurableEdges

-----------------------------------------------------------------------------
(* The sort.                                                               *)

(* A nonempty set of numbers has a least one.                               *)
LEMMA LeastNumber ==
  ASSUME NEW T \in SUBSET Nat, T # {}
  PROVE  \E m \in T : \A k \in T : m <= k
<1>1. PICK m \in T : \A k \in T : <<k, m>> \notin OpToRel(<, Nat)
  BY NatLessThanWellFounded, WFMin
<1>2. \A k \in T : ~(k < m)
  BY <1>1 DEF OpToRel
<1>3. QED
  BY <1>2

(* Induction, for a property given as a set of numbers.                     *)
LEMMA SetInduction ==
  ASSUME NEW T, 0 \in T, \A n \in Nat : n \in T => n + 1 \in T
  PROVE  \A n \in Nat : n \in T
<1> DEFINE U == {n \in Nat : n \notin T}
<1> SUFFICES ASSUME U # {} PROVE FALSE
  OBVIOUS
<1>1. PICK m \in U : \A k \in U : m <= k
  <2> HIDE DEF U
  <2>1. U \in SUBSET Nat
    BY DEF U
  <2>2. QED
    BY <2>1, LeastNumber
<1>2. m \in Nat /\ m # 0
  OBVIOUS
<1>3. m - 1 \in Nat /\ m - 1 \notin U
  BY <1>1, <1>2
<1>4. QED
  BY <1>2, <1>3

-----------------------------------------------------------------------------
(* Kahn's algorithm (_has_cycle, snapshot).                                *)

Listed(s) == {s.order[i] : i \in 1..Len(s.order)}

\* The sources of edges to n that have not been taken.
Left(N, E, s, n) == {m \in N \ Listed(s) : <<m, n>> \in E}

\* What holds between two turns: a node waits or is listed when its last source has
\* been taken, each is listed once, and after its sources.
Turning(N, E, s) ==
  /\ s.queue \subseteq N /\ s.indegree \in [N -> Int] /\ s.order \in Seq(N)
  /\ s.queue \cap Listed(s) = {}
  /\ \A n \in N : s.indegree[n] = Cardinality(Left(N, E, s, n))
  /\ \A n \in N : n \in s.queue \cup Listed(s) <=> s.indegree[n] = 0
  /\ \A i, j \in 1..Len(s.order) : s.order[i] = s.order[j] => i = j
  /\ \A i, j \in 1..Len(s.order) : <<s.order[i], s.order[j]>> \in E => i < j
  /\ IsFiniteSet(Listed(s)) /\ Cardinality(Listed(s)) = Len(s.order)

\* The sources counted are finitely many.
LEMMA LeftFinite ==
  ASSUME NEW N, NEW E, IsFiniteSet(N), NEW s, NEW n
  PROVE  /\ IsFiniteSet(Left(N, E, s, n)) /\ Cardinality(Left(N, E, s, n)) \in Nat
         /\ Cardinality(Left(N, E, s, n)) = 0 <=> Left(N, E, s, n) = {}
<1>1. Left(N, E, s, n) \in SUBSET N
  BY DEF Left
<1>2. IsFiniteSet(Left(N, E, s, n))
  BY <1>1, FS_Subset
<1>3. QED
  BY <1>2, FS_CardinalityType, FS_EmptySet

(* Before the first turn.                                                   *)
LEMMA BegunTurning ==
  ASSUME NEW N, NEW E, IsFiniteSet(N)
  PROVE  Turning(N, E, Begun(N, E))
<1> DEFINE s == Begun(N, E)
<1>1. /\ s.queue = {n \in N : Indegrees(N, E)[n] = 0}
      /\ s.indegree = Indegrees(N, E) /\ s.order = <<>>
  BY DEF Begun
<1>2. Listed(s) = {} /\ Len(s.order) = 0
  BY <1>1 DEF Listed
<1>3. ASSUME NEW n \in N
      PROVE  /\ s.indegree[n] = Cardinality(Left(N, E, s, n))
             /\ s.indegree[n] \in Int
  <2>1. Left(N, E, s, n) = {m \in N : <<m, n>> \in E}
    BY <1>2 DEF Left
  <2>2. s.indegree[n] = Cardinality(Left(N, E, s, n))
    BY <1>1, <2>1 DEF Indegrees
  <2>3. QED
    BY <2>2, LeftFinite
<1>4. s.indegree \in [N -> Int]
  <2>1. s.indegree = [n \in N |-> s.indegree[n]]
    BY <1>1 DEF Indegrees
  <2> HIDE DEF s
  <2>2. QED
    BY <1>3, <2>1
<1>5. s.queue \subseteq N /\ \A n \in N : n \in s.queue <=> s.indegree[n] = 0
  BY <1>1
<1>6. s.order \in Seq(N)
  BY <1>1
<1> HIDE DEF s
<1>7. QED
  <2>1. IsFiniteSet(Listed(s)) /\ Cardinality(Listed(s)) = Len(s.order)
    BY <1>2, FS_EmptySet
  <2>2. 1..Len(s.order) = {}
    BY <1>2
  <2>3. Turning(N, E, s)
    BY <1>2, <1>3, <1>4, <1>5, <1>6, <2>1, <2>2 DEF Turning
  <2>4. QED
    BY <2>3 DEF s

(* One turn, whichever waiting node is taken.                               *)
LEMMA TakenTurning ==
  ASSUME NEW N, NEW E, IsFiniteSet(N), NEW s, Turning(N, E, s), NEW c \in s.queue
  PROVE  /\ Turning(N, E, Taken(E, s, c))
         /\ Len(Taken(E, s, c).order) = Len(s.order) + 1
<1> DEFINE t == Taken(E, s, c)
           k == Len(s.order)
<1>1. /\ s.queue \subseteq N /\ s.indegree \in [N -> Int] /\ s.order \in Seq(N)
      /\ s.queue \cap Listed(s) = {} /\ c \in N
      /\ IsFiniteSet(Listed(s)) /\ Cardinality(Listed(s)) = k
  BY DEF Turning
<1>2. k \in Nat
  BY <1>1
<1>3. /\ t.indegree = [n \in N |-> IF <<c, n>> \in E THEN s.indegree[n] - 1 ELSE s.indegree[n]]
      /\ t.order = Append(s.order, c)
  BY <1>1 DEF Taken
<1>4. t.queue = (s.queue \ {c}) \cup {n \in N : <<c, n>> \in E /\ t.indegree[n] = 0}
  BY <1>1, <1>3 DEF Taken
<1> HIDE DEF t
<1>5. t.order \in Seq(N) /\ Len(t.order) = k + 1 /\ t.order[k + 1] = c
      /\ \A i \in 1..k : t.order[i] = s.order[i]
  BY <1>1, <1>2, <1>3
<1>6. Listed(t) = Listed(s) \cup {c} /\ c \notin Listed(s) /\ Listed(s) \subseteq N
  <2>1. 1..(k + 1) = (1..k) \cup {k + 1}
    BY <1>2
  <2>2. c \notin Listed(s)
    BY <1>1
  <2>3. Listed(s) \subseteq N
    BY <1>1 DEF Listed
  <2>4. Listed(t) = {t.order[i] : i \in 1..k} \cup {t.order[k + 1]}
    BY <1>5, <2>1 DEF Listed
  <2>5. {t.order[i] : i \in 1..k} = Listed(s)
    BY <1>5 DEF Listed
  <2>6. QED
    BY <1>5, <2>2, <2>3, <2>4, <2>5
<1>7. IsFiniteSet(Listed(t)) /\ Cardinality(Listed(t)) = k + 1
  BY <1>1, <1>6, FS_AddElement
<1>8. ASSUME NEW n \in N
      PROVE  /\ t.indegree[n] = Cardinality(Left(N, E, t, n))
             /\ t.indegree[n] \in Int
             /\ <<c, n>> \in E => s.indegree[n] # 0
  <2>1. Left(N, E, t, n) = Left(N, E, s, n) \ {c}
    BY <1>6 DEF Left
  <2>2. c \in Left(N, E, s, n) <=> <<c, n>> \in E
    BY <1>1, <1>6 DEF Left
  <2>3. s.indegree[n] = Cardinality(Left(N, E, s, n))
    BY DEF Turning
  <2>4. Cardinality(Left(N, E, t, n)) =
          IF <<c, n>> \in E THEN s.indegree[n] - 1 ELSE s.indegree[n]
    <3>1. IsFiniteSet(Left(N, E, s, n))
      BY LeftFinite
    <3>2. Cardinality(Left(N, E, s, n) \ {c}) =
            IF c \in Left(N, E, s, n) THEN Cardinality(Left(N, E, s, n)) - 1
            ELSE Cardinality(Left(N, E, s, n))
      BY <3>1, FS_RemoveElement
    <3>3. QED
      BY <2>1, <2>2, <2>3, <3>2
  <2>5. <<c, n>> \in E => s.indegree[n] # 0
    BY <2>2, <2>3, LeftFinite
  <2>6. QED
    BY <1>1, <1>3, <2>4, <2>5
<1>9. t.indegree \in [N -> Int]
  <2>1. t.indegree = [n \in N |-> t.indegree[n]]
    BY <1>3
  <2>2. QED
    BY <1>8, <2>1
<1>10. ASSUME NEW n \in N
       PROVE  n \in t.queue \cup Listed(t) <=> t.indegree[n] = 0
  <2>1. n \in s.queue \cup Listed(s) <=> s.indegree[n] = 0
    BY DEF Turning
  <2>2. n \in t.queue \cup Listed(t) <=>
          n \in s.queue \cup Listed(s) \/ (<<c, n>> \in E /\ t.indegree[n] = 0)
    BY <1>4, <1>6
  <2>3. <<c, n>> \notin E => t.indegree[n] = s.indegree[n]
    BY <1>3
  <2>4. QED
    BY <1>8, <2>1, <2>2, <2>3
<1>11. t.queue \cap Listed(t) = {}
  <2>1. ASSUME NEW n \in N, <<c, n>> \in E PROVE n \notin Listed(s) /\ n # c
    BY <1>8, <2>1 DEF Turning
  <2>2. QED
    BY <1>1, <1>4, <1>6, <2>1
<1>12. \A i, j \in 1..(k + 1) : t.order[i] = t.order[j] => i = j
  <2>1. \A i \in 1..k : t.order[i] # c
    BY <1>5, <1>6 DEF Listed
  <2>2. \A i, j \in 1..k : t.order[i] = t.order[j] => i = j
    BY <1>5 DEF Turning
  <2>3. QED
    BY <1>2, <1>5, <2>1, <2>2
<1>13. ASSUME NEW i \in 1..(k + 1), NEW j \in 1..(k + 1), <<t.order[i], t.order[j]>> \in E
       PROVE  i < j
  <2>1. CASE i \in 1..k /\ j \in 1..k
    BY <1>5, <1>13, <2>1 DEF Turning
  <2>2. CASE i \in 1..k /\ j = k + 1
    BY <1>2, <2>2
  <2>3. CASE i = k + 1
    <3>1. t.order[j] \in N /\ <<c, t.order[j]>> \in E
      BY <1>5, <1>13, <2>3
    <3>2. t.order[j] \in Listed(t)
      BY <1>5 DEF Listed
    <3>3. t.order[j] \in s.queue \cup Listed(s)
      BY <1>6, <3>2
    <3>4. s.indegree[t.order[j]] = 0
      BY <3>1, <3>3 DEF Turning
    <3>5. QED
      BY <1>8, <3>1, <3>4
  <2>4. QED
    BY <1>2, <2>1, <2>2, <2>3
<1>14. t.queue \subseteq N
  BY <1>1, <1>4
<1>15. Turning(N, E, t)
  BY <1>5, <1>7, <1>8, <1>9, <1>10, <1>11, <1>12, <1>13, <1>14 DEF Turning
<1>16. QED
  BY <1>5, <1>15 DEF t

\* A loop after k turns: nothing waits, or k nodes are listed.
AfterTurns(N, E, s, k) ==
  Turning(N, E, s) /\ (s.queue # {} => Len(s.order) = k) /\ Len(s.order) <= k

(* A turn, or none when nothing waits.                                      *)
LEMMA TurnKeeps ==
  ASSUME NEW N, NEW E, IsFiniteSet(N), NEW s, NEW k \in Nat, AfterTurns(N, E, s, k)
  PROVE  AfterTurns(N, E, Turn(E, s), k + 1)
<1>1. Turning(N, E, s) /\ Len(s.order) \in Nat /\ Len(s.order) <= k
  BY DEF AfterTurns, Turning
<1>2. CASE s.queue = {}
  BY <1>1, <1>2 DEF AfterTurns, Turn
<1>3. CASE s.queue # {}
  <2>1. PICK c \in s.queue : Turn(E, s) = Taken(E, s, c)
    BY <1>3 DEF Turn
  <2>2. Len(s.order) = k
    BY <1>3 DEF AfterTurns
  <2>3. QED
    BY <1>1, <2>1, <2>2, TakenTurning DEF AfterTurns
<1>4. QED
  BY <1>2, <1>3

\* The recursion along the turns ends.
LEMMA DrainedTurns ==
  ASSUME NEW N, NEW E, IsFiniteSet(N)
  PROVE  AfterTurns(N, E, Drained(N, E), Cardinality(N))
<1> DEFINE Loop(f, n) == f = [k \in 0..n |-> IF k = 0 THEN Begun(N, E) ELSE Turn(E, f[k - 1])]
           T == {n \in Nat : \E f : Loop(f, n) /\ AfterTurns(N, E, f[n], n)}
<1>1. 0 \in T
  <2> DEFINE f == [k \in 0..0 |-> Begun(N, E)]
  <2>1. f[0] = Begun(N, E) /\ Loop(f, 0)
    OBVIOUS
  <2>2. AfterTurns(N, E, Begun(N, E), 0)
    <3>1. Begun(N, E).order = <<>>
      BY DEF Begun
    <3>2. QED
      BY <3>1, BegunTurning DEF AfterTurns
  <2> HIDE DEF f
  <2>3. \E g : Loop(g, 0) /\ AfterTurns(N, E, g[0], 0)
    BY <2>1, <2>2
  <2>4. QED
    BY <2>3
<1>2. ASSUME NEW n \in Nat, n \in T PROVE n + 1 \in T
  <2>1. PICK f : Loop(f, n) /\ AfterTurns(N, E, f[n], n)
    BY <1>2
  <2> DEFINE g == [k \in 0..(n + 1) |-> IF k = n + 1 THEN Turn(E, f[n]) ELSE f[k]]
  <2>2. ASSUME NEW k \in 0..(n + 1)
        PROVE  g[k] = IF k = 0 THEN Begun(N, E) ELSE Turn(E, g[k - 1])
    <3>1. CASE k = n + 1
      <4>1. g[k] = Turn(E, f[n]) /\ k # 0
        BY <3>1
      <4>2. n \in 0..(n + 1) /\ n # n + 1
        OBVIOUS
      <4>3. g[n] = f[n]
        BY <4>2
      <4>4. k - 1 = n
        BY <3>1
      <4> HIDE DEF g
      <4>5. QED
        BY <4>1, <4>3, <4>4
    <3>2. CASE k # n + 1
      <4>1. k \in 0..n
        BY <3>2
      <4>2. g[k] = f[k] /\ f[k] = IF k = 0 THEN Begun(N, E) ELSE Turn(E, f[k - 1])
        BY <2>1, <3>2, <4>1
      <4>3. k # 0 => g[k - 1] = f[k - 1]
        BY <4>1
      <4> HIDE DEF g
      <4>4. QED
        BY <4>2, <4>3
    <3>3. QED
      BY <3>1, <3>2
  <2>3. g = [k \in 0..(n + 1) |-> g[k]] /\ g[n + 1] = Turn(E, f[n])
    OBVIOUS
  <2>4. AfterTurns(N, E, Turn(E, f[n]), n + 1)
    BY <2>1, TurnKeeps
  <2> HIDE DEF g
  <2>5. Loop(g, n + 1)
    BY <2>2, <2>3
  <2>6. \E h : Loop(h, n + 1) /\ AfterTurns(N, E, h[n + 1], n + 1)
    BY <2>3, <2>4, <2>5
  <2>7. QED
    BY <2>6
<1> DEFINE c == Cardinality(N)
<1>3. c \in Nat
  BY FS_CardinalityType
<1>4. c \in T
  <2> HIDE DEF T, c
  <2>1. \A n \in Nat : n \in T
    BY <1>1, <1>2, SetInduction
  <2>2. QED
    BY <1>3, <2>1
<1>5. PICK f : Loop(f, c) /\ AfterTurns(N, E, f[c], c)
  BY <1>4
<1> DEFINE after == CHOOSE g : Loop(g, c)
<1>6. Loop(after, c)
  BY <1>5
<1>7. Drained(N, E) = after[c]
  BY DEF Drained
<1>8. after = f
  <2> SUFFICES ASSUME NEW g, Loop(g, c) PROVE g = f
    BY <1>6
  <2> DEFINE S == {n \in Nat : n <= c => g[n] = f[n]}
  <2>1. 0 \in S
    BY <1>3, <1>5
  <2>2. ASSUME NEW n \in Nat, n \in S PROVE n + 1 \in S
    <3>1. SUFFICES ASSUME n + 1 <= c PROVE g[n + 1] = f[n + 1]
      OBVIOUS
    <3>2. g[n] = f[n] /\ n + 1 \in 0..c /\ n + 1 # 0 /\ (n + 1) - 1 = n
      BY <1>3, <2>2, <3>1
    <3>3. g[n + 1] = Turn(E, g[n]) /\ f[n + 1] = Turn(E, f[n])
      BY <1>5, <3>2
    <3>4. QED
      BY <3>2, <3>3
  <2>3. \A n \in Nat : n \in S
    <3> HIDE DEF S
    <3>1. QED
      BY <2>1, <2>2, SetInduction
  <2>4. ASSUME NEW n \in 0..c PROVE g[n] = f[n]
    <3>1. n \in Nat /\ n <= c
      BY <1>3
    <3>2. QED
      BY <2>3, <3>1
  <2>5. DOMAIN g = 0..c /\ DOMAIN f = 0..c /\ g = [n \in 0..c |-> g[n]] /\ f = [n \in 0..c |-> f[n]]
    BY <1>5
  <2>6. QED
    BY <2>4, <2>5
<1>9. QED
  BY <1>5, <1>7, <1>8

\* When the loop ends, what is not listed is fed by what is not listed.
LEMMA DrainedEmpty ==
  ASSUME NEW N, NEW E, IsFiniteSet(N)
  PROVE  /\ Turning(N, E, Drained(N, E))
         /\ \A n \in N \ Listed(Drained(N, E)) :
              \E m \in N \ Listed(Drained(N, E)) : <<m, n>> \in E
<1> DEFINE s == Drained(N, E)
<1>1. AfterTurns(N, E, s, Cardinality(N))
  BY DrainedTurns
<1> HIDE DEF s
<1>2. Turning(N, E, s)
  BY <1>1 DEF AfterTurns
<1>3. s.queue = {}
  <2>1. SUFFICES ASSUME s.queue # {} PROVE FALSE
    OBVIOUS
  <2>2. Len(s.order) = Cardinality(N) /\ Cardinality(Listed(s)) = Len(s.order)
    BY <1>1, <1>2, <2>1 DEF AfterTurns, Turning
  <2>3. Listed(s) \in SUBSET N
    BY <1>2 DEF Turning, Listed
  <2>4. Listed(s) = N
    BY <2>2, <2>3, FS_Subset
  <2>5. QED
    BY <1>2, <2>1, <2>4 DEF Turning
<1>4. ASSUME NEW n \in N \ Listed(s)
      PROVE  \E m \in N \ Listed(s) : <<m, n>> \in E
  <2>1. s.indegree[n] # 0 /\ s.indegree[n] = Cardinality(Left(N, E, s, n))
    BY <1>2, <1>3 DEF Turning
  <2>2. Left(N, E, s, n) # {}
    BY <2>1, LeftFinite
  <2>3. QED
    BY <2>2 DEF Left
<1>5. QED
  BY <1>2, <1>4 DEF s

\* Whatever is fed by itself alone is never listed: its first member in the order
\* would come after a source that is in it.
LEMMA CyclesLeft ==
  ASSUME NEW N, NEW E, NEW s, Turning(N, E, s),
         NEW S \in SUBSET N, \A n \in S : \E m \in S : <<m, n>> \in E, IsFiniteSet(N)
  PROVE  S \cap Listed(s) = {}
<1> DEFINE I == {i \in 1..Len(s.order) : s.order[i] \in S}
<1>1. SUFFICES ASSUME S \cap Listed(s) # {} PROVE FALSE
  OBVIOUS
<1>2. s.order \in Seq(N) /\ Len(s.order) \in Nat
  BY DEF Turning
<1>3. PICK i \in I : \A j \in I : i <= j
  <2>1. I # {} /\ I \in SUBSET Nat
    BY <1>1, <1>2 DEF Listed
  <2> HIDE DEF I
  <2>2. QED
    BY <2>1, LeastNumber
<1>4. s.order[i] \in S /\ s.order[i] \in Listed(s) /\ s.order[i] \in N
  BY <1>2 DEF Listed
<1>5. PICK m \in S : <<m, s.order[i]>> \in E
  BY <1>4
<1>6. m \in Listed(s)
  <2>1. Left(N, E, s, s.order[i]) = {}
    <3>1. s.indegree[s.order[i]] = 0
      BY <1>4 DEF Turning
    <3>2. s.indegree[s.order[i]] = Cardinality(Left(N, E, s, s.order[i]))
      BY <1>4 DEF Turning
    <3>3. QED
      BY <3>1, <3>2, LeftFinite
  <2>2. QED
    BY <1>5, <2>1 DEF Left
<1>7. PICK j \in 1..Len(s.order) : s.order[j] = m
  BY <1>6 DEF Listed
<1>8. j < i
  BY <1>5, <1>7 DEF Turning
<1>9. j \in I
  BY <1>5, <1>7
<1>10. QED
  BY <1>2, <1>3, <1>8, <1>9

(* The loop that counts finds a cycle exactly where some nodes are each fed *)
(* by one of them, and the loop that lists, listing all, puts sources first *)
(* (_has_cycle, snapshot).                                                  *)
THEOREM KahnSorts ==
  ASSUME NEW N, NEW E, IsFiniteSet(N), E \subseteq N \X N
  PROVE  LET cyclic == HasCycle([nodes |-> N, edges |-> E])
         IN  /\ KahnFindsCycle(N, E) <=> cyclic
             /\ cyclic \/ Ordered(TopologicalOrder(N, E), N, E)
<1> DEFINE s == Drained(N, E)
           R == N \ Listed(s)
           cyclic == HasCycle([nodes |-> N, edges |-> E])
<1>1. /\ Turning(N, E, s)
      /\ \A n \in R : \E m \in R : <<m, n>> \in E
  BY DrainedEmpty
<1>2. TopologicalOrder(N, E) = s.order
  BY DEF TopologicalOrder
<1> HIDE DEF s
<1>3. Listed(s) \in SUBSET N /\ Cardinality(Listed(s)) = Len(s.order)
  BY <1>1 DEF Turning, Listed
<1>4. R = {} <=> Len(s.order) = Cardinality(N)
  <2>1. R = {} => Listed(s) = N
    BY <1>3
  <2>2. Cardinality(N) = Cardinality(Listed(s)) => N = Listed(s)
    BY <1>3, FS_Subset
  <2>3. QED
    BY <1>3, <2>1, <2>2
<1>5. ASSUME R # {} PROVE cyclic
  <2>1. ASSUME NEW n \in R PROVE n \in {e[2] : e \in E}
    <3>1. PICK m \in R : <<m, n>> \in E
      BY <1>1
    <3>2. n = <<m, n>>[2]
      OBVIOUS
    <3>3. QED
      BY <3>1, <3>2
  <2>2. R \in SUBSET {e[2] : e \in E}
    BY <2>1
  <2> HIDE DEF R
  <2>3. QED
    BY <1>1, <1>5, <2>2 DEF HasCycle
<1>6. ASSUME cyclic PROVE R # {}
  <2>1. PICK S \in SUBSET {e[2] : e \in E} :
          S # {} /\ \A n \in S : \E m \in S : <<m, n>> \in E
    BY <1>6 DEF HasCycle
  <2>2. S \in SUBSET N
    BY <2>1
  <2>3. S \cap Listed(s) = {}
    BY <1>1, <2>1, <2>2, CyclesLeft
  <2>4. QED
    BY <2>1, <2>2, <2>3
<1>7. KahnFindsCycle(N, E) <=> cyclic
  BY <1>2, <1>4, <1>5, <1>6 DEF KahnFindsCycle
<1>8. ASSUME ~cyclic PROVE Ordered(s.order, N, E)
  <2>1. Len(s.order) = Cardinality(N) /\ Listed(s) = N
    BY <1>3, <1>4, <1>5, <1>8
  <2>2. QED
    BY <1>1, <2>1 DEF Ordered, Listed, Turning
<1>9. QED
  BY <1>2, <1>7, <1>8

\* A process that ran for a while holds finitely much, however many ids there are.
FiniteLedger(L) ==
  /\ IsFiniteSet(L.branches)
  /\ \A b \in Branch : IsFiniteSet(L.records[b])
  /\ IsFiniteSet({k \in Knowledge : L.accepted[k] # NoBranch})

AllFinite ==
  /\ FiniteLedger(ledger) /\ FiniteLedger(sfile)
  /\ IsFiniteSet(graph.nodes) /\ IsFiniteSet(gfile.nodes)

\* The image of a finite set is finite.
LEMMA FiniteImage ==
  ASSUME NEW S, IsFiniteSet(S), NEW f
  PROVE  IsFiniteSet({f[x] : x \in S})
<1> DEFINE g == [x \in S |-> f[x]]
           T == {f[x] : x \in S}
<1>1. g \in Surjection(S, T)
  BY DEF Surjection
<1>2. QED
  BY <1>1, FS_Surjection

\* The nodes a restart puts are as finite as the ledger it has read.
LEMMA ReconciledFinite ==
  ASSUME NEW L \in Ledger, FiniteLedger(L)
  PROVE  IsFiniteSet(ReconciledNodes(L))
<1> DEFINE items(S) == {Item(r) : r \in S}
           claim == [b \in L.branches |-> Claim(b)]
           result == [b \in L.branches |-> Result(b)]
           records == [b \in L.branches |-> items(L.records[b])]
           accepted == {k \in Knowledge : L.accepted[k] # NoBranch}
<1>1. L.branches \in SUBSET Branch /\ IsFiniteSet(L.branches)
  BY DEF Ledger, FiniteLedger
<1>2. IsFiniteSet({claim[b] : b \in L.branches})
  BY <1>1, FiniteImage
<1>3. IsFiniteSet({result[b] : b \in L.branches})
  BY <1>1, FiniteImage
<1>4. ASSUME NEW S, IsFiniteSet(S) PROVE IsFiniteSet(items(S))
  <2> DEFINE f == [r \in S |-> Item(r)]
  <2>1. IsFiniteSet({f[r] : r \in S})
    BY <1>4, FiniteImage
  <2>2. {f[r] : r \in S} = items(S)
    OBVIOUS
  <2>3. QED
    BY <2>1, <2>2
<1>5. IsFiniteSet(UNION {records[b] : b \in L.branches})
  <2>1. IsFiniteSet({records[b] : b \in L.branches})
    BY <1>1, FiniteImage
  <2>2. \A b \in L.branches : IsFiniteSet(records[b])
    BY <1>1, <1>4 DEF FiniteLedger
  <2> HIDE DEF records
  <2>3. QED
    BY <2>1, <2>2, FS_UNION
<1>6. IsFiniteSet(items(accepted))
  BY <1>4 DEF FiniteLedger
<1> DEFINE A == {claim[b] : b \in L.branches}
           B == {result[b] : b \in L.branches}
           C == UNION {records[b] : b \in L.branches}
           D == items(accepted)
<1>7. ReconciledNodes(L) \subseteq ((A \cup B) \cup C) \cup D
  BY DEF ReconciledNodes
<1>8. IsFiniteSet(A) /\ IsFiniteSet(B) /\ IsFiniteSet(C) /\ IsFiniteSet(D)
  BY <1>2, <1>3, <1>5, <1>6
<1> HIDE DEF A, B, C, D
<1>9. IsFiniteSet(((A \cup B) \cup C) \cup D)
  <2>1. IsFiniteSet(A \cup B)
    BY <1>8, FS_Union
  <2>2. IsFiniteSet((A \cup B) \cup C)
    BY <1>8, <2>1, FS_Union
  <2>3. QED
    BY <1>8, <2>2, FS_Union
<1>10. QED
  BY <1>7, <1>9, FS_Subset

\* The ledger updates of the handlers.
LEMMA FiniteUpdates ==
  ASSUME NEW L \in Ledger, FiniteLedger(L), NEW b \in Branch
  PROVE  /\ \A p : FiniteLedger([L EXCEPT !.branches = @ \cup {b}, !.parent[b] = p])
         /\ \A r : FiniteLedger([L EXCEPT !.records[b] = @ \cup {r}])
         /\ \A v : FiniteLedger([L EXCEPT !.result[b] = v])
         /\ \A k \in Knowledge : FiniteLedger([L EXCEPT !.accepted[k] = b])
<1>1. /\ L = [branches |-> L.branches, parent |-> L.parent, records |-> L.records,
              result |-> L.result, accepted |-> L.accepted]
      /\ L.parent \in [Branch -> Branch \cup {NoBranch}]
      /\ L.records \in [Branch -> SUBSET Record]
      /\ L.result \in [Branch -> BOOLEAN]
      /\ L.accepted \in [Knowledge -> Branch \cup {NoBranch}]
  BY DEF Ledger
<1>2. /\ IsFiniteSet(L.branches)
      /\ \A x \in Branch : IsFiniteSet(L.records[x])
      /\ IsFiniteSet({k \in Knowledge : L.accepted[k] # NoBranch})
  BY DEF FiniteLedger
<1>3. ASSUME NEW p PROVE FiniteLedger([L EXCEPT !.branches = @ \cup {b}, !.parent[b] = p])
  <2> DEFINE M == [L EXCEPT !.branches = @ \cup {b}, !.parent[b] = p]
  <2>1. /\ M.branches = L.branches \cup {b} /\ M.records = L.records
        /\ M.accepted = L.accepted
    BY <1>1
  <2>2. IsFiniteSet(M.branches)
    BY <1>2, <2>1, FS_AddElement
  <2> HIDE DEF M
  <2>3. FiniteLedger(M)
    BY <1>2, <2>1, <2>2 DEF FiniteLedger
  <2>4. QED
    BY <2>3 DEF M
<1>4. ASSUME NEW r PROVE FiniteLedger([L EXCEPT !.records[b] = @ \cup {r}])
  <2> DEFINE M == [L EXCEPT !.records[b] = @ \cup {r}]
  <2>1. /\ M.branches = L.branches /\ M.accepted = L.accepted
        /\ \A x \in Branch :
             M.records[x] = IF x = b THEN L.records[b] \cup {r} ELSE L.records[x]
    BY <1>1
  <2>2. IsFiniteSet(L.records[b] \cup {r})
    BY <1>2, FS_AddElement
  <2> HIDE DEF M
  <2>3. FiniteLedger(M)
    BY <1>2, <2>1, <2>2 DEF FiniteLedger
  <2>4. QED
    BY <2>3 DEF M
<1>5. ASSUME NEW v PROVE FiniteLedger([L EXCEPT !.result[b] = v])
  <2> DEFINE M == [L EXCEPT !.result[b] = v]
  <2>1. M.branches = L.branches /\ M.records = L.records /\ M.accepted = L.accepted
    BY <1>1
  <2> HIDE DEF M
  <2>2. FiniteLedger(M)
    BY <1>2, <2>1 DEF FiniteLedger
  <2>3. QED
    BY <2>2 DEF M
<1>6. ASSUME NEW k \in Knowledge PROVE FiniteLedger([L EXCEPT !.accepted[k] = b])
  <2> DEFINE M == [L EXCEPT !.accepted[k] = b]
             K == {x \in Knowledge : L.accepted[x] # NoBranch}
  <2>1. /\ M.branches = L.branches /\ M.records = L.records
        /\ \A x \in Knowledge : x # k => M.accepted[x] = L.accepted[x]
    BY <1>1
  <2> HIDE DEF M
  <2>2. {x \in Knowledge : M.accepted[x] # NoBranch} \in SUBSET (K \cup {k})
    BY <2>1
  <2>3. IsFiniteSet(K \cup {k})
    BY <1>2, FS_AddElement
  <2>4. IsFiniteSet({x \in Knowledge : M.accepted[x] # NoBranch})
    BY <2>2, <2>3, FS_Subset
  <2>5. FiniteLedger(M)
    BY <1>2, <2>1, <2>4 DEF FiniteLedger
  <2>6. QED
    BY <2>5 DEF M
<1>7. QED
  BY <1>3, <1>4, <1>5, <1>6

(* A restart from a finite graph.                                           *)
LEMMA ReconcileFinite ==
  ASSUME NEW L \in Ledger, FiniteLedger(L), NEW g, IsFiniteSet(g.nodes)
  PROVE  IsFiniteSet(Reconcile(L, g).nodes)
<1>1. Reconcile(L, g).nodes = g.nodes \cup ReconciledNodes(L)
  BY DEF Reconcile, Extend
<1>2. QED
  BY <1>1, ReconciledFinite, FS_Union

\* A handler that puts one node and saves the graph.
LEMMA SaveFinite ==
  ASSUME AllFinite, NEW n, NEW E, SaveGraph(Extend(graph, {n}, E)),
         FiniteLedger(ledger'), UNCHANGED sfile
  PROVE  AllFinite'
<1>1. graph'.nodes = graph.nodes \cup {n} /\ gfile' = graph'
  BY DEF SaveGraph, Extend
<1>2. IsFiniteSet(graph'.nodes)
  BY <1>1, FS_AddElement DEF AllFinite
<1>3. FiniteLedger(sfile)'
  BY DEF AllFinite, FiniteLedger
<1>4. FiniteLedger(ledger)'
  BY DEF FiniteLedger
<1>5. QED
  BY <1>1, <1>2, <1>3, <1>4 DEF AllFinite

\* A restart, also one that raises.
LEMMA RestartFinite ==
  ASSUME IInv, AllFinite,
         RestartRaises \/ \E g \in {gfile, EmptyGraph} : Restart(g)
  PROVE  AllFinite'
<1>1. sfile \in Ledger /\ WellFormed(sfile) /\ gfile \in Graph /\ Closed(gfile)
  BY DEF IInv, TypeOK
<1>2. FiniteLedger(sfile) /\ sfile' = sfile /\ IsFiniteSet(gfile.nodes)
  BY DEF AllFinite, Restart, RestartRaises
<1>3. FiniteLedger(sfile)'
  BY <1>2 DEF FiniteLedger
<1>4. CASE RestartRaises
  <2> DEFINE R == Reconcile(sfile, gfile)
             N(E) == {e[1] : e \in E} \cup {e[2] : e \in E}
  <2>1. PICK E \in SUBSET (R.edges \ gfile.edges) : gfile' = Extend(gfile, N(E), E)
    BY <1>4 DEF RestartRaises
  <2>2. R.edges \subseteq R.nodes \X R.nodes /\ IsFiniteSet(R.nodes)
    BY <1>1, <1>2, ReconcileExtends, ReconcileFinite DEF Closed
  <2>3. N(E) \in SUBSET R.nodes
    <3>1. ASSUME NEW e \in E PROVE e[1] \in R.nodes /\ e[2] \in R.nodes
      BY <2>1, <2>2
    <3>2. QED
      BY <3>1
  <2>4. IsFiniteSet(N(E))
    BY <2>2, <2>3, FS_Subset
  <2>5. gfile'.nodes = gfile.nodes \cup N(E)
    BY <2>1 DEF Extend
  <2> HIDE DEF N, R
  <2>6. IsFiniteSet(gfile'.nodes)
    BY <1>2, <2>4, <2>5, FS_Union
  <2>7. ledger' = EmptyLedger /\ graph'.nodes = {}
    BY <1>4 DEF RestartRaises, EmptyGraph
  <2>8. FiniteLedger(ledger)'
    <3>1. /\ ledger'.branches = {} /\ \A b \in Branch : ledger'.records[b] = {}
          /\ {k \in Knowledge : ledger'.accepted[k] # NoBranch} = {}
      BY <2>7 DEF EmptyLedger
    <3>2. QED
      BY <3>1, FS_EmptySet DEF FiniteLedger
  <2>9. QED
    BY <1>3, <2>6, <2>7, <2>8, FS_EmptySet DEF AllFinite
<1>5. CASE \E g \in {gfile, EmptyGraph} : Restart(g)
  <2>1. PICK g \in {gfile, EmptyGraph} : Restart(g)
    BY <1>5
  <2>2. /\ ledger' = sfile
        /\ graph' = Reconcile(sfile, g) /\ gfile' = Reconcile(sfile, g)
    BY <2>1 DEF Restart, SaveGraph
  <2>3. IsFiniteSet(g.nodes)
    BY <1>2, FS_EmptySet DEF EmptyGraph
  <2>4. IsFiniteSet(graph'.nodes) /\ IsFiniteSet(gfile'.nodes)
    BY <1>1, <1>2, <2>2, <2>3, ReconcileFinite
  <2>5. FiniteLedger(ledger)'
    BY <1>2, <2>2 DEF FiniteLedger
  <2>6. QED
    BY <1>3, <2>4, <2>5 DEF AllFinite
<1>6. QED
  BY <1>4, <1>5

(* Every step keeps ledger and graph finite.                                *)
LEMMA FiniteKept ==
  ASSUME IInv, AllFinite, [Next]_vars
  PROVE  AllFinite'
<1>1. ledger \in Ledger /\ FiniteLedger(ledger)
  BY DEF IInv, TypeOK, AllFinite
<1>2. CASE \E b \in Branch, p \in Branch \cup {NoBranch} : CreateBranch(b, p)
  <2>1. PICK b \in Branch, p \in Branch \cup {NoBranch} : CreateBranch(b, p)
    BY <1>2
  <2>2. /\ SaveGraph(Extend(graph, {Claim(b)}, LineageEdges(graph, b, p)))
        /\ ledger' = [ledger EXCEPT !.branches = @ \cup {b}, !.parent[b] = p]
        /\ UNCHANGED sfile
    BY <2>1 DEF CreateBranch
  <2>3. FiniteLedger(ledger')
    BY <1>1, <2>2, FiniteUpdates
  <2>4. QED
    BY <2>2, <2>3, SaveFinite
<1>3. CASE \E b \in Branch, r \in Record : AddRecord(b, r)
  <2>1. PICK b \in Branch, r \in Record : AddRecord(b, r)
    BY <1>3
  <2>2. /\ SaveGraph(Extend(graph, {Item(r)}, {<<Item(r), Claim(b)>>}))
        /\ ledger' = [ledger EXCEPT !.records[b] = @ \cup {r}]
        /\ UNCHANGED sfile
    BY <2>1 DEF AddRecord
  <2>3. FiniteLedger(ledger')
    BY <1>1, <2>2, FiniteUpdates
  <2>4. QED
    BY <2>2, <2>3, SaveFinite
<1>4. CASE \E b \in Branch : SetResult(b)
  <2>1. PICK b \in Branch : SetResult(b)
    BY <1>4
  <2>2. /\ SaveGraph(Extend(graph, {Result(b)}, {Result(b)} \X ResultTargets(ledger, b)))
        /\ ledger' = [ledger EXCEPT !.result[b] = TRUE]
        /\ UNCHANGED sfile
    BY <2>1 DEF SetResult
  <2>3. FiniteLedger(ledger')
    BY <1>1, <2>2, FiniteUpdates
  <2>4. QED
    BY <2>2, <2>3, SaveFinite
<1>5. CASE \E b \in Branch : SetResultRaises(b)
  <2>1. PICK b \in Branch : SetResultRaises(b)
    BY <1>5
  <2>2. PICK E : graph' = Extend(graph, {Result(b)}, E)
    BY <2>1 DEF SetResultRaises
  <2>3. /\ ledger' = [ledger EXCEPT !.result[b] = TRUE]
        /\ gfile' = graph /\ sfile' = sfile
    BY <2>1 DEF SetResultRaises
  <2>4. FiniteLedger(ledger)'
    <3>1. FiniteLedger([ledger EXCEPT !.result[b] = TRUE])
      BY <1>1, FiniteUpdates
    <3>2. QED
      BY <2>3, <3>1 DEF FiniteLedger
  <2>5. IsFiniteSet(graph'.nodes)
    <3>1. graph'.nodes = graph.nodes \cup {Result(b)}
      BY <2>2 DEF Extend
    <3>2. QED
      BY <3>1, FS_AddElement DEF AllFinite
  <2>6. QED
    BY <2>3, <2>4, <2>5 DEF AllFinite, FiniteLedger
<1>6. CASE \E b \in Branch : ClearResult(b)
  <2>1. PICK b \in Branch : ClearResult(b)
    BY <1>6
  <2>2. /\ ledger' = [ledger EXCEPT !.result[b] = FALSE]
        /\ UNCHANGED <<graph, gfile, sfile>>
    BY <2>1 DEF ClearResult
  <2>3. FiniteLedger([ledger EXCEPT !.result[b] = FALSE])
    BY <1>1, FiniteUpdates
  <2>4. QED
    BY <2>2, <2>3 DEF AllFinite, FiniteLedger
<1>7. CASE \E b \in Branch, k \in Knowledge : AcceptKnowledge(b, k)
  <2>1. PICK b \in Branch, k \in Knowledge : AcceptKnowledge(b, k)
    BY <1>7
  <2>2. /\ SaveGraph(Extend(graph, {Item(k)}, {<<Item(k), KnowledgeTarget(graph, b)>>}))
        /\ ledger' = [ledger EXCEPT !.accepted[k] = b]
        /\ UNCHANGED sfile
    BY <2>1 DEF AcceptKnowledge
  <2>3. FiniteLedger(ledger')
    BY <1>1, <2>2, FiniteUpdates
  <2>4. QED
    BY <2>2, <2>3, SaveFinite
<1>8. CASE \E r \in Linked, t \in LinkTargets : AddLinked(r, t)
  <2>1. PICK r \in Linked, t \in LinkTargets : AddLinked(r, t)
    BY <1>8
  <2>2. /\ SaveGraph(Extend(graph, {Item(r)}, {<<Item(r), t>>}))
        /\ UNCHANGED <<ledger, sfile>>
    BY <2>1 DEF AddLinked
  <2>3. QED
    BY <1>1, <2>2, SaveFinite
<1>9. CASE \E e \in UserEdge : AddEdge(e[1], e[2])
  <2>1. PICK e \in UserEdge : AddEdge(e[1], e[2])
    BY <1>9
  <2>2. graph'.nodes = graph.nodes /\ gfile' = graph' /\ UNCHANGED <<ledger, sfile>>
    BY <2>1 DEF AddEdge, SaveGraph, Extend
  <2>3. QED
    BY <2>2 DEF AllFinite, FiniteLedger
<1>10. CASE SaveLedger
  BY <1>10 DEF SaveLedger, AllFinite, FiniteLedger
<1>11. CASE Restart(gfile) \/ Restart(EmptyGraph) \/ RestartRaises
  BY <1>11, RestartFinite
<1>12. CASE UNCHANGED vars
  BY <1>12 DEF vars, AllFinite, FiniteLedger
<1>13. QED
  BY <1>2, <1>3, <1>4, <1>5, <1>6, <1>7, <1>8, <1>9, <1>10, <1>11, <1>12 DEF Next

\* What is finite, closed and acyclic is sorted.
LEMMA SortedNow ==
  ASSUME IInv, AllFinite
  PROVE  SortIsRight
<1>1. /\ graph \in Graph /\ Closed(graph) /\ ~HasCycle(graph)
      /\ IsFiniteSet(graph.nodes)
  BY DEF IInv, TypeOK, Acyclic, AllFinite
<1>2. ASSUME NEW e \in UserEdge, {e[1], e[2]} \subseteq graph.nodes
      PROVE  LET g == Extend(graph, {}, {e})
             IN  KahnFindsCycle(g.nodes, g.edges) <=> HasCycle(g)
  <2> DEFINE g == Extend(graph, {}, {e})
  <2>1. /\ g = [nodes |-> graph.nodes \cup {}, edges |-> graph.edges \cup {e}]
        /\ g.nodes = graph.nodes /\ g.edges = graph.edges \cup {e}
    BY DEF Extend
  <2>2. e = <<e[1], e[2]>>
    BY UserEdgeAssumption
  <2>3. g.edges \subseteq g.nodes \X g.nodes
    BY <1>1, <1>2, <2>1, <2>2 DEF Closed
  <2>4. g = [nodes |-> g.nodes, edges |-> g.edges] /\ IsFiniteSet(g.nodes)
    BY <1>1, <2>1
  <2> HIDE DEF g
  <2>5. KahnFindsCycle(g.nodes, g.edges) <=> HasCycle([nodes |-> g.nodes, edges |-> g.edges])
    BY <2>3, <2>4, KahnSorts
  <2>6. KahnFindsCycle(g.nodes, g.edges) <=> HasCycle(g)
    BY <2>4, <2>5
  <2>7. QED
    BY <2>6 DEF g
<1>3. ASSUME NEW b \in ledger.branches, NEW N \in BranchNodes(b)
      PROVE  LET E == graph.edges \cap (N \X N)
             IN  Ordered(TopologicalOrder(N, E), N, E)
  <2> DEFINE E == graph.edges \cap (N \X N)
             h == [nodes |-> N, edges |-> E]
  <2>1. N \in SUBSET graph.nodes
    BY DEF BranchNodes
  <2>2. IsFiniteSet(N)
    BY <1>1, <2>1, FS_Subset
  <2>3. ~HasCycle(h)
    <3>1. h.edges \subseteq graph.edges
      OBVIOUS
    <3> HIDE DEF h
    <3>2. QED
      BY <1>1, <3>1, SubgraphAcyclic
  <2>4. E \subseteq N \X N
    OBVIOUS
  <2> HIDE DEF E
  <2>5. Ordered(TopologicalOrder(N, E), N, E)
    BY <2>2, <2>3, <2>4, KahnSorts
  <2>6. QED
    BY <2>5 DEF E
<1>4. QED
  BY <1>2, <1>3 DEF SortIsRight, KahnIsRight, SnapshotIsOrdered

(* Both loops do what they are used for in every reachable graph: the one   *)
(* that refuses edges finds exactly the cycles, the one the gate reads puts *)
(* every node of a branch after its sources (_has_cycle, snapshot).         *)
THEOREM SortAlwaysRight == Spec => []SortIsRight
<1>1. Init => AllFinite
  <2>1. FiniteLedger(EmptyLedger)
    <3>1. /\ EmptyLedger.branches = {} /\ \A b \in Branch : EmptyLedger.records[b] = {}
          /\ {k \in Knowledge : EmptyLedger.accepted[k] # NoBranch} = {}
      BY DEF EmptyLedger
    <3>2. QED
      BY <3>1, FS_EmptySet DEF FiniteLedger
  <2>2. IsFiniteSet(EmptyGraph.nodes)
    BY FS_EmptySet DEF EmptyGraph
  <2>3. QED
    BY <2>1, <2>2 DEF Init, AllFinite
<1>2. IInv /\ AllFinite /\ [Next]_vars => AllFinite'
  BY FiniteKept
<1>3. IInv /\ AllFinite => SortIsRight
  BY SortedNow
<1>4. QED
  BY <1>1, <1>2, <1>3, Invariance, PTL DEF Spec
=============================================================================
