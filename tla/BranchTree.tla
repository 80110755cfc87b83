----------------------------- MODULE BranchTree -----------------------------
(***************************************************************************)
(* The tree of research branches and how negative evidence travels in it.  *)
(* Branches are numbered in the order of their creation, so a parent has a *)
(* smaller number than its children; parent 0 stands for none.             *)
(***************************************************************************)
EXTENDS Naturals, Sequences

\* What a decision of the scheduler or an inherited record refers to: the
\* number-th negative, trial or council of branch `of', or the number-th obstacle
\* or knowledge challenge, of which `of' is the branch.
Id == [kind: {"none", "negative", "trial", "council", "obstacle", "challenge"}, of: Nat, number: Nat]

NoId == [kind |-> "none", of |-> 0, number |-> 0]

Named(kind, of, number) == [kind |-> kind, of |-> of, number |-> number]

\* source: what it was inherited from; among: how many branches there were.
Negative == [source: Id, resolved: BOOLEAN, among: Nat]

\* cause: what the scheduler made it for; failed: the latest of its councils has
\* failed; item: the knowledge accepted from it.  Under review counts as active.
Branch == [parent: Nat, cause: Id, status: {"active", "blocked", "verified", "archived"},
           item: {"none", "accepted", "challenged", "revised", "retired"},
           councils: Nat, failed: BOOLEAN, negatives: Seq(Negative),
           trials: Seq({"planned", "passed", "failed"})]

NewBranch(parent, cause) ==
  [parent |-> parent, cause |-> cause, status |-> "active", item |-> "none", councils |-> 0, failed |-> FALSE,
   negatives |-> <<>>, trials |-> <<>>]

\* The ancestors of each branch.
Ancestors(tree) ==
  LET above[b \in DOMAIN tree] ==
        IF tree[b].parent = 0 THEN {} ELSE {tree[b].parent} \cup above[tree[b].parent]
  IN above

\* Mutant of Descendants: the children alone.
ChildrenAlone(tree, b) == {d \in DOMAIN tree : tree[d].parent = b}

Descendants(tree, b) == {d \in DOMAIN tree : b \in Ancestors(tree)[d]}

Unresolved(x) == {k \in DOMAIN x.negatives : ~x.negatives[k].resolved}

\* _touch: a verified or archived branch keeps its status.
Touched(x) ==
  IF x.status \in {"verified", "archived"} THEN x
  ELSE [x EXCEPT !.status = IF Unresolved(x) # {} THEN "blocked" ELSE "active"]

WithNegative(x, source, among) ==
  Touched([x EXCEPT !.negatives =
    Append(@, [source |-> source, resolved |-> FALSE, among |-> among])])

\* A branch with its k-th negative resolved.
Settled(x, k) == Touched([x EXCEPT !.negatives = [@ EXCEPT ![k].resolved = TRUE]])

WithTrial(x, outcome) == Touched([x EXCEPT !.trials = Append(@, outcome)])

\* The records it has not inherited.
Originals(x) == {k \in DOMAIN x.negatives : x.negatives[k].source = NoId}

Inherits(x, id) == \E k \in DOMAIN x.negatives : x.negatives[k].source = id

\* Every branch of targets that has not inherited id inherits it.
Propagated(tree, targets, id) ==
  [d \in DOMAIN tree |->
     IF d \in targets /\ ~Inherits(tree[d], id)
       THEN WithNegative(tree[d], id, Len(tree)) ELSE tree[d]]

\* What a propagation from b that is cut short may have reached: ancestors first.
Reachable(tree, b) ==
  {S \in SUBSET Descendants(tree, b) :
     \A d \in S : tree[d].parent \in S \cup {b}}

=============================================================================
