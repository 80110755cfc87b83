------------------------------- MODULE KahnSort -------------------------------
(***************************************************************************)
(* The two copies of Kahn's algorithm in evidence_graph.py: _has_cycle     *)
(* counts the nodes it can remove, snapshot lists them.                    *)
(*                                                                         *)
(* The order in which waiting nodes are taken (a stack in one, sorted in   *)
(* the other) is left open, as no property depends on it: the queue is a   *)
(* set.  The indegree of a node never grows and reaches zero once, so      *)
(* neither copy can queue a node twice.                                    *)
(***************************************************************************)
EXTENDS Integers, FiniteSets, Sequences

(* Mutant of Indegrees: the edge is counted at its source.                 *)
Outdegrees(N, E) == [n \in N |-> Cardinality({m \in N : <<n, m>> \in E})]

Indegrees(N, E) == [n \in N |-> Cardinality({m \in N : <<m, n>> \in E})]

Begun(N, E) ==
  [queue    |-> {n \in N : Indegrees(N, E)[n] = 0},
   indegree |-> Indegrees(N, E),
   order    |-> <<>>]

(* One turn of the loop: take a waiting node, lower the indegree of each   *)
(* target, and queue the targets that reach zero.                          *)
Taken(E, s, current) ==
  LET hit(n)  == <<current, n>> \in E
      lowered == [n \in DOMAIN s.indegree |->
                    IF hit(n) THEN s.indegree[n] - 1 ELSE s.indegree[n]]
      reached == {n \in DOMAIN s.indegree : hit(n) /\ lowered[n] = 0}
  IN  [queue    |-> (s.queue \ {current}) \cup reached,
       indegree |-> lowered,
       order    |-> Append(s.order, current)]

Turn(E, s) == IF s.queue = {} THEN s ELSE Taken(E, s, CHOOSE n \in s.queue : TRUE)

(* The loop, unrolled as often as there are nodes to take.                 *)
Drained(N, E) ==
  LET after[k \in 0..Cardinality(N)] ==
        IF k = 0 THEN Begun(N, E) ELSE Turn(E, after[k - 1])
  IN  after[Cardinality(N)]

TopologicalOrder(N, E) == Drained(N, E).order

KahnFindsCycle(N, E) == Len(TopologicalOrder(N, E)) # Cardinality(N)
=============================================================================
