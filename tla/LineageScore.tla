---------------------------- MODULE LineageScore ----------------------------
(***************************************************************************)
(* The score by which research branches are listed: how much evidence and  *)
(* how many experiments a branch has, whether its negative results are     *)
(* resolved, whether it is verified, how many descendants it has and how   *)
(* much of its budget is left.                                             *)
(*                                                                         *)
(* Scores are integers in units of 1/3000 of a point, so that the shares   *)
(* of three and four are exact; only the use of a budget is rounded down,  *)
(* to thousandths.  The rounding of a listed score to hundredths of a      *)
(* point is left out.                                                      *)
(***************************************************************************)
EXTENDS BranchBudget, BranchTree, FiniteSets

AtMost(n, most) == IF n <= most THEN n ELSE most

\* All of a resource, in thousandths; and a hundred points.
Whole == 1000

MaxScore == 300000

\* The use of one resource: limits may be zero, or below what has been spent.
Ratio(spent, limit) ==
  IF limit = 0 THEN IF spent > 0 THEN Whole ELSE 0
  ELSE AtMost((Whole * spent) \div limit, Whole)

Utilization(budget) == [r \in Resources |-> Ratio(budget.spent[r], budget.limits[r])]

\* What is left of the resource that is used most.
Efficiency(budget) ==
  CHOOSE e \in {Whole - Utilization(budget)[r] : r \in Resources} :
    \A r \in Resources : e <= Whole - Utilization(budget)[r]

\* The number of branches above this one.
Depth(tree, b) == Cardinality(Ancestors(tree)[b])

\* One for each reason; any number of them has the same effect.
Penalties(x) ==
  {p \in {"archived", "unresolved_counterexample"} :
     \/ p = "archived" /\ x.status = "archived"
     \/ p = "unresolved_counterexample" /\ Unresolved(x) # {}}

\* Weights 0.24, 0.22, 0.18, 0.18, 0.10 and 0.08; evidence, fertility: numbers of
\* evidence records and of descendants.
Merit(x, evidence, fertility, budget) ==
  18000 * AtMost(evidence, 4) + 22000 * AtMost(Len(x.trials), 3)
  + (IF Unresolved(x) = {} THEN 54000 ELSE 0)
  + (IF x.status = "verified" THEN 54000 ELSE 0)
  + 7500 * AtMost(fertility, 4) + 24 * Efficiency(budget)

Score(x, evidence, fertility, budget) ==
  IF Penalties(x) = {} THEN Merit(x, evidence, fertility, budget)
  ELSE (72 * Merit(x, evidence, fertility, budget)) \div 100

\* The scores of all branches; evidence: the number of records of each.
LineageScores(tree, evidence, budgets) ==
  [b \in DOMAIN tree |->
     Score(tree[b], evidence[b], Cardinality(Descendants(tree, b)), budgets[b])]

=============================================================================
