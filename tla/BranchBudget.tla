---------------------------- MODULE BranchBudget ----------------------------
(***************************************************************************)
(* The resource budget of a research branch: four counters, a limit for    *)
(* each, and a status.  Charging is refused as a whole when any counter    *)
(* would pass its limit.                                                   *)
(***************************************************************************)
EXTENDS Naturals

Resources == {"runs", "queries", "citations", "compute"}

Amounts == [Resources -> Nat]

Budget == [limits: Amounts, spent: Amounts, status: {"active", "exhausted"}]

Nothing == [r \in Resources |-> 0]

\* An amount of one resource.
Some(resource, n) == [Nothing EXCEPT ![resource] = n]

NewBudget(limits) == [limits |-> limits, spent |-> Nothing, status |-> "active"]

\* At its limit is exhausted already, and so is a limit of zero.
Refreshed(b) ==
  [b EXCEPT !.status =
     IF \E r \in Resources : b.spent[r] >= b.limits[r] THEN "exhausted" ELSE "active"]

\* Mutant of Allocated: the status is not refreshed.
AllocatedBare(b, limits) == [b EXCEPT !.limits = limits]

\* New limits, which may be below what has been spent.
Allocated(b, limits) == Refreshed([b EXCEPT !.limits = limits])

Affordable(b, cost) == \A r \in Resources : b.spent[r] + cost[r] <= b.limits[r]

Charged(b, cost) ==
  Refreshed([b EXCEPT !.spent = [r \in Resources |-> @[r] + cost[r]]])

\* A refused charge shows in the status until the next allocation or charge.
Overdrawn(b) == [b EXCEPT !.status = "exhausted"]

=============================================================================
