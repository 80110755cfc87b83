------------------------------ MODULE Scheduler ------------------------------
(***************************************************************************)
(* One tick of the research scheduler: what it makes of a tree of branches *)
(* given what earlier ticks have acted on.  Branches are considered one    *)
(* after the other; a new branch counts at once against the limits, an     *)
(* archived one still counts until the next tick.                          *)
(*                                                                         *)
(* Left out: the rule for rejected branches, because no code rejects one;  *)
(* the flags of the policy that switch single rules off; the dry run,      *)
(* which changes nothing a later tick reads.                               *)
(***************************************************************************)
EXTENDS BranchTree, FiniteSets

\* live: most live branches; children: most children of one branch.
Policy == [live: Nat, children: Nat]

Live(tree) == {b \in DOMAIN tree : tree[b].status # "archived"}

\* What a tick has come to: the tree, what it has acted on, and the numbers of
\* live branches and of children it goes by.
Begun(tree) ==
  [tree |-> tree, acted |-> {}, live |-> Cardinality(Live(tree)),
   children |-> [b \in DOMAIN tree |-> Cardinality(ChildrenAlone(tree, b))]]

\* There may be one more branch; and this branch may have one more child.
Room(t, policy) == t.live < policy.live

RoomBelow(t, policy, b) == Room(t, policy) /\ t.children[b] < policy.children

\* A branch is created for a cause, below a parent or, with parent 0, at the root.
Spawn(t, parent, id) ==
  [tree |-> Append(t.tree, NewBranch(parent, id)), acted |-> t.acted \cup {id},
   live |-> t.live + 1,
   children |-> [b \in DOMAIN t.children |->
                   IF b = parent THEN t.children[b] + 1 ELSE t.children[b]]]

Kill(t, b, id) ==
  [tree |-> [t.tree EXCEPT ![b].status = "archived"], acted |-> t.acted \cup {id},
   live |-> t.live, children |-> t.children]

FreshNegatives(x, b, memory) ==
  {k \in Unresolved(x) : Named("negative", b, k) \notin memory}

FreshTrials(x, b, memory) ==
  {k \in DOMAIN x.trials : x.trials[k] = "failed" /\ Named("trial", b, k) \notin memory}

Earliest(S) == CHOOSE k \in S : \A j \in S : k <= j

Latest(S) == CHOOSE k \in S : \A j \in S : j <= k

\* One branch is considered: a failed council hides its counterexamples, and a
\* counterexample that has a fork now hides its failed experiments.
Considered(t, b, memory, policy) ==
  LET x == t.tree[b]
      council == Named("council", b, x.councils)
      negatives == FreshNegatives(x, b, memory)
      trials == FreshTrials(x, b, memory)
      causes == IF negatives # {} THEN {Named("negative", b, Earliest(negatives))}
                ELSE IF trials # {} THEN {Named("trial", b, Earliest(trials))} ELSE {}
  IN IF x.failed /\ council \in memory THEN t
     ELSE IF x.failed THEN Kill(t, b, council)
     ELSE IF causes # {} /\ RoomBelow(t, policy, b) THEN Spawn(t, b, CHOOSE id \in causes : TRUE)
     ELSE t

\* The first k branches of the order are considered.
Sifted(tree, order, k, memory, policy) ==
  LET after[i \in 0..Len(order)] ==
        IF i = 0 THEN Begun(tree) ELSE Considered(after[i - 1], order[i], memory, policy)
  IN after[k]

\* One root branch for the latest obstacle that has none; obstacles: their branches.
Generated(t, obstacles, memory, policy) ==
  LET fresh == {k \in DOMAIN obstacles : Named("obstacle", obstacles[k], k) \notin memory}
  IN IF fresh # {} /\ Room(t, policy)
       THEN Spawn(t, 0, Named("obstacle", obstacles[Latest(fresh)], Latest(fresh))) ELSE t

\* One branch for the latest open challenge that has none, whatever the number of
\* children its parent has.
Revalidated(t, challenges, memory, policy) ==
  LET fresh == {k \in DOMAIN challenges :
                  challenges[k].open /\ Named("challenge", challenges[k].of, k) \notin memory}
      of == challenges[Latest(fresh)].of
  IN IF fresh # {} /\ Room(t, policy)
       THEN Spawn(t, of, Named("challenge", of, Latest(fresh))) ELSE t

\* A whole tick.
Decided(tree, order, obstacles, challenges, memory, policy) ==
  LET sifted == Sifted(tree, order, Len(order), memory, policy)
  IN Revalidated(Generated(sifted, obstacles, memory, policy), challenges, memory, policy)

=============================================================================
