--------------------------- MODULE AutonomyProofs ---------------------------
(***************************************************************************)
(* Proofs about ResearchAutonomy, for every number of branches, every      *)
(* budget and any number of overlapping searches.                          *)
(*                                                                         *)
(* The charge for the citations of a search comes after its await, and the *)
(* whole charge is refused if any limit is passed by then.  Paid therefore *)
(* says more than CitationsPaid: while a branch has a search in flight,    *)
(* nothing it has spent is above its limit, unless somebody has set the    *)
(* limits meanwhile.                                                       *)
(***************************************************************************)
EXTENDS ResearchAutonomy, BranchTreeProofs

(* Every budget has its type, and an active one has something left.        *)
Honest ==
  /\ budgets \in Seq(Budget)
  /\ \A b \in DOMAIN budgets, r \in Resources :
       budgets[b].status = "active" => budgets[b].spent[r] < budgets[b].limits[r]

Within(budget) == \A r \in Resources : budget.spent[r] <= budget.limits[r]

Paid ==
  /\ cited \in Seq(Nat) /\ Len(cited) = Len(budgets)
  /\ \A s \in searches :
       s.branch \in DOMAIN budgets \ disturbed => Within(budgets[s.branch])
  /\ CitationsPaid

IInv == Honest /\ Paid

-----------------------------------------------------------------------------
(* What the operations on one budget do *)

Left(budget) ==
  budget.status = "active" => \A r \in Resources : budget.spent[r] < budget.limits[r]

LEMMA NewBudgetLeft ==
  /\ NewBudget(DefaultLimits) \in Budget
  /\ Left(NewBudget(DefaultLimits)) /\ Within(NewBudget(DefaultLimits))
  /\ NewBudget(DefaultLimits).spent["citations"] = 0
BY AutonomyAssumption DEF NewBudget, Budget, Amounts, Nothing, Left, Within, Resources

LEMMA RefreshedLeft ==
  ASSUME NEW x \in Budget
  PROVE  /\ Refreshed(x) \in Budget /\ Left(Refreshed(x))
         /\ Refreshed(x).spent = x.spent /\ Refreshed(x).limits = x.limits
<1>1. Refreshed(x) \in Budget /\ Refreshed(x).spent = x.spent /\ Refreshed(x).limits = x.limits
  BY DEF Refreshed, Budget
<1>2. ASSUME Refreshed(x).status = "active", NEW r \in Resources
      PROVE  x.spent[r] < x.limits[r]
  <2>1. ~(x.spent[r] >= x.limits[r])
    BY <1>2 DEF Refreshed, Budget
  <2>2. x.spent[r] \in Nat /\ x.limits[r] \in Nat
    BY DEF Budget, Amounts
  <2>3. QED
    BY <2>1, <2>2
<1>3. QED
  BY <1>1, <1>2 DEF Left

LEMMA AllocatedLeft ==
  ASSUME NEW x \in Budget, NEW limits \in Amounts
  PROVE  /\ Allocated(x, limits) \in Budget /\ Left(Allocated(x, limits))
         /\ Allocated(x, limits).spent = x.spent
<1>1. [x EXCEPT !.limits = limits] \in Budget /\ [x EXCEPT !.limits = limits].spent = x.spent
  BY DEF Budget
<1>2. QED
  BY <1>1, RefreshedLeft DEF Allocated

(* An affordable charge adds to what was spent and stays within the limits. *)
LEMMA ChargedLeft ==
  ASSUME NEW x \in Budget, NEW cost \in Amounts, Affordable(x, cost)
  PROVE  /\ Charged(x, cost) \in Budget /\ Left(Charged(x, cost)) /\ Within(Charged(x, cost))
         /\ \A r \in Resources : Charged(x, cost).spent[r] = x.spent[r] + cost[r]
<1> DEFINE sum == [r \in Resources |-> x.spent[r] + cost[r]]
           y == [x EXCEPT !.spent = sum]
<1>a. sum \in Amounts /\ \A r \in Resources : sum[r] = x.spent[r] + cost[r]
  BY DEF Budget, Amounts
<1>1. y \in Budget /\ y.limits = x.limits
      /\ \A r \in Resources : y.spent[r] = x.spent[r] + cost[r]
  <2> HIDE DEF sum
  <2> QED BY <1>a DEF Budget
<1>2. Charged(x, cost) = Refreshed(y)
  BY DEF Charged
<1>3. QED
  BY <1>1, <1>2, RefreshedLeft DEF Within, Affordable

LEMMA OverdrawnLeft ==
  ASSUME NEW x \in Budget
  PROVE  /\ Overdrawn(x) \in Budget /\ Left(Overdrawn(x))
         /\ Overdrawn(x).spent = x.spent /\ Overdrawn(x).limits = x.limits
BY DEF Overdrawn, Budget, Left

LEMMA CostTypes ==
  /\ \A name \in Resources, n \in Nat :
       /\ Some(name, n) \in Amounts /\ Some(name, n)[name] = n
       /\ \A r \in Resources \ {name} : Some(name, n)[r] = 0
  /\ \A n \in Nat : ExperimentCost(n) \in Amounts /\ ExperimentCost(n)["citations"] = 0
BY DEF Some, Nothing, ExperimentCost, Amounts, Resources

-----------------------------------------------------------------------------
(* Steps *)

(* The budgets, citations and disturbed branches stay, and no search begins. *)
LEMMA NothingSpent ==
  ASSUME IInv, UNCHANGED <<budgets, cited, disturbed>>, searches' \subseteq searches
  PROVE  IInv'
BY DEF IInv, Honest, Paid, CitationsPaid, Within

(* A sequence, and then n times e.                                          *)
LEMMA Extended ==
  ASSUME NEW S, NEW s \in Seq(S), NEW t \in Seq(S), NEW n \in Nat, Len(t) = n,
         NEW e, \A i \in 1..n : t[i] = e
  PROVE  /\ s \o t \in Seq(S) /\ Len(s \o t) = Len(s) + n
         /\ \A i \in 1..(Len(s) + n) : (s \o t)[i] = IF i <= Len(s) THEN s[i] ELSE e
<1>1. /\ s \o t \in Seq(S) /\ Len(s \o t) = Len(s) + n
      /\ \A i \in 1..(Len(s) + n) : (s \o t)[i] = IF i <= Len(s) THEN s[i] ELSE t[i - Len(s)]
  BY ConcatProperties
<1>2. ASSUME NEW i \in 1..(Len(s) + n), ~(i <= Len(s))
      PROVE  t[i - Len(s)] = e
  <2>1. Len(s) \in Nat
    OBVIOUS
  <2>2. i - Len(s) \in 1..n
    BY <1>2, <2>1
  <2>3. QED
    BY <2>2
<1>3. QED
  BY <1>1, <1>2

(* New branches have new budgets.                                           *)
LEMMA NewBranches ==
  ASSUME IInv, NEW tree, Grown(tree), UNCHANGED disturbed, searches' \subseteq searches
  PROVE  IInv'
<1>1. PICK n \in 0..MaxBranches :
        /\ budgets' = budgets \o [i \in 1..n |-> NewBudget(DefaultLimits)]
        /\ cited' = cited \o [i \in 1..n |-> 0]
  BY DEF Grown
<1> DEFINE more == [i \in 1..n |-> NewBudget(DefaultLimits)]
           none == [i \in 1..n |-> 0]
<1>2. n \in Nat
  BY <1>1, AutonomyAssumption
<1>3. more \in Seq(Budget) /\ Len(more) = n /\ none \in Seq(Nat) /\ Len(none) = n
      /\ \A i \in 1..n : more[i] = NewBudget(DefaultLimits) /\ none[i] = 0
  BY <1>2, NewBudgetLeft
<1>4. budgets \in Seq(Budget) /\ cited \in Seq(Nat) /\ Len(cited) = Len(budgets)
  BY DEF IInv, Honest, Paid
<1> DEFINE m == Len(budgets)
<1>5. /\ budgets' \in Seq(Budget) /\ Len(budgets') = m + n
      /\ \A i \in 1..(m + n) :
           budgets'[i] = IF i <= m THEN budgets[i] ELSE NewBudget(DefaultLimits)
  <2> HIDE DEF more
  <2>1. budgets' = budgets \o more
    BY <1>1 DEF more
  <2>2. more \in Seq(Budget) /\ Len(more) = n /\ \A i \in 1..n : more[i] = NewBudget(DefaultLimits)
    BY <1>3
  <2>3. budgets \in Seq(Budget)
    BY <1>4
  <2>4. QED
    BY <2>1, <2>2, <2>3, <1>2, Extended
<1>6. /\ cited' \in Seq(Nat) /\ Len(cited') = m + n
      /\ \A i \in 1..(m + n) : cited'[i] = IF i <= m THEN cited[i] ELSE 0
  <2> HIDE DEF none
  <2>1. cited' = cited \o none
    BY <1>1 DEF none
  <2>2. none \in Seq(Nat) /\ Len(none) = n /\ \A i \in 1..n : none[i] = 0
    BY <1>3
  <2>3. cited \in Seq(Nat) /\ Len(cited) = m
    BY <1>4
  <2>4. /\ cited \o none \in Seq(Nat) /\ Len(cited \o none) = Len(cited) + n
        /\ \A i \in 1..(Len(cited) + n) : (cited \o none)[i] = IF i <= Len(cited) THEN cited[i] ELSE 0
    BY <2>2, <2>3, <1>2, Extended
  <2>5. QED
    BY <2>1, <2>3, <2>4
<1>7. m \in Nat /\ DOMAIN budgets = 1..m /\ DOMAIN budgets' = 1..(m + n)
  BY <1>2, <1>4, <1>5
<1> HIDE DEF more, none, m
<1>8. Honest'
  BY <1>2, <1>5, <1>7, NewBudgetLeft DEF IInv, Honest, Left
<1>9. \A s \in searches' : s.branch \in DOMAIN budgets' \ disturbed' => Within(budgets'[s.branch])
  BY <1>2, <1>5, <1>7, NewBudgetLeft DEF IInv, Paid
<1>10. CitationsPaid'
  BY <1>2, <1>5, <1>6, <1>7, NewBudgetLeft DEF IInv, Paid, CitationsPaid
<1>11. QED
  BY <1>2, <1>5, <1>6, <1>8, <1>9, <1>10 DEF IInv, Paid, Within

(* One budget becomes x, and its branch has n more citations.  Searches may *)
(* begin on this branch alone.                                              *)
LEMMA OneBudget ==
  ASSUME IInv, NEW b \in DOMAIN budgets, NEW x \in Budget, Left(x), NEW n \in Nat,
         budgets' = [budgets EXCEPT ![b] = x], cited' = [cited EXCEPT ![b] = @ + n],
         disturbed \subseteq disturbed',
         \A s \in searches' : s \in searches \/ s.branch = b,
         b \notin disturbed' =>
           /\ x.spent["citations"] = budgets[b].spent["citations"] + n
           /\ (\E s \in searches' : s.branch = b) => Within(x)
  PROVE  IInv'
<1>1. budgets \in Seq(Budget) /\ cited \in Seq(Nat) /\ Len(cited) = Len(budgets)
  BY DEF IInv, Honest, Paid
<1>2. /\ budgets' \in Seq(Budget) /\ DOMAIN budgets' = DOMAIN budgets
      /\ budgets'[b] = x /\ \A d \in DOMAIN budgets \ {b} : budgets'[d] = budgets[d]
  BY <1>1
<1>3. /\ cited' \in Seq(Nat) /\ Len(cited') = Len(budgets')
      /\ cited'[b] = cited[b] + n /\ \A d \in DOMAIN budgets \ {b} : cited'[d] = cited[d]
  BY <1>1
<1>4. Honest'
  BY <1>2 DEF IInv, Honest, Left
<1>5. \A s \in searches' : s.branch \in DOMAIN budgets' \ disturbed' => Within(budgets'[s.branch])
  BY <1>2 DEF IInv, Paid
<1>6. CitationsPaid'
  BY <1>2, <1>3 DEF IInv, Paid, CitationsPaid
<1>7. QED
  BY <1>3, <1>4, <1>5, <1>6 DEF IInv, Paid, Within

-----------------------------------------------------------------------------
(* The next-state relation *)

LEMMA Initially == Init => IInv
<1> SUFFICES ASSUME Init PROVE IInv
  OBVIOUS
<1>1. budgets \in Seq(Budget) /\ cited \in Seq(Nat) /\ Len(cited) = Len(budgets)
      /\ DOMAIN budgets = 1..SeededBranches
      /\ \A b \in 1..SeededBranches : budgets[b] = NewBudget(DefaultLimits) /\ cited[b] = 0
  BY AutonomyAssumption, NewBudgetLeft DEF Init
<1>2. QED
  BY <1>1, NewBudgetLeft DEF Init, IInv, Honest, Paid, CitationsPaid, Left

(* Records, challenges and crashes outside the budgets.                     *)
LEMMA RecordsKeep ==
  ASSUME IInv, NEW b, Records(b) \/ Disputes(b)
  PROVE  IInv'
<1>1. UNCHANGED <<budgets, cited, disturbed>> /\ searches' \subseteq searches
  BY DEF Records, Disputes, spending, AddCounterexample, CounterexampleCut, Propagate, Resolve,
         AddExperiment, UpdateExperiment, CouncilFails, CouncilReopened, Accept, CrossPollinate,
         Challenge, ChallengeCut, Revoke, Replace
<1>2. QED
  BY <1>1, NothingSpent

LEMMA AllocateKeeps ==
  ASSUME IInv, NEW b, NEW limits \in OtherLimits, Allocate(b, limits)
  PROVE  IInv'
<1>1. CASE b \notin DOMAIN budgets
  <2>1. UNCHANGED <<budgets, cited, searches>> /\ disturbed \subseteq disturbed'
    BY <1>1 DEF Allocate, Spent, IInv, Honest
  <2>2. QED
    BY <2>1 DEF IInv, Honest, Paid, CitationsPaid, Within
<1>2. CASE b \in DOMAIN budgets
  <2> DEFINE x == Allocated(budgets[b], limits)
  <2>1. budgets[b] \in Budget /\ limits \in Amounts
    BY <1>2, AutonomyAssumption DEF IInv, Honest
  <2>2. x \in Budget /\ Left(x) /\ x.spent = budgets[b].spent
    BY <2>1, AllocatedLeft
  <2>3. cited' = [cited EXCEPT ![b] = @ + 0]
    BY <1>2 DEF Allocate, IInv, Honest, Paid
  <2>4. budgets' = [budgets EXCEPT ![b] = x] /\ searches' = searches
        /\ disturbed' = IF \E s \in searches : s.branch = b THEN disturbed \cup {b} ELSE disturbed
    BY DEF Allocate, Spent
  <2>5. b \notin disturbed' => ~\E s \in searches' : s.branch = b
    BY <2>4
  <2>6. budgets[b].spent["citations"] \in Nat
    BY <2>1 DEF Budget, Amounts, Resources
  <2>7. disturbed \subseteq disturbed'
    BY <2>4
  <2>8. \A s \in searches' : s \in searches \/ s.branch = b
    BY <2>4
  <2>9. b \notin disturbed' =>
          /\ x.spent["citations"] = budgets[b].spent["citations"] + 0
          /\ (\E s \in searches' : s.branch = b) => Within(x)
    BY <2>2, <2>5, <2>6
  <2> HIDE DEF x
  <2>10. x \in Budget /\ Left(x) /\ budgets' = [budgets EXCEPT ![b] = x]
    BY <2>2, <2>4
  <2>11. QED
    BY <1>2, <2>3, <2>7, <2>8, <2>9, <2>10, OneBudget
<1>3. QED
  BY <1>1, <1>2

LEMMA RefuseKeeps ==
  ASSUME IInv, NEW b, NEW cost, Refuse(b, cost)
  PROVE  IInv'
<1>1. CASE b \notin DOMAIN budgets
  <2>1. UNCHANGED <<budgets, cited, searches, disturbed>>
    BY <1>1 DEF Refuse, Spent, IInv, Honest
  <2>2. QED
    BY <2>1, NothingSpent
<1>2. CASE b \in DOMAIN budgets
  <2> DEFINE x == Overdrawn(budgets[b])
  <2>1. budgets[b] \in Budget
    BY <1>2 DEF IInv, Honest
  <2>2. /\ x \in Budget /\ Left(x)
        /\ x.spent = budgets[b].spent /\ x.limits = budgets[b].limits
    BY <2>1, OverdrawnLeft
  <2>3. cited' = [cited EXCEPT ![b] = @ + 0]
    BY <1>2 DEF Refuse, IInv, Honest, Paid
  <2>4. budgets' = [budgets EXCEPT ![b] = x] /\ searches' = searches /\ disturbed' = disturbed
    BY DEF Refuse, Spent
  <2>5. budgets[b].spent["citations"] \in Nat
    BY <2>1 DEF Budget, Amounts, Resources
  <2>6. b \notin disturbed' => ((\E s \in searches' : s.branch = b) => Within(x))
    BY <1>2, <2>2, <2>4 DEF IInv, Paid, Within
  <2>7. disturbed \subseteq disturbed' /\ \A s \in searches' : s \in searches \/ s.branch = b
    BY <2>4
  <2>8. x.spent["citations"] = budgets[b].spent["citations"] + 0
    BY <2>2, <2>5
  <2> HIDE DEF x
  <2>9. b \notin disturbed' =>
          /\ x.spent["citations"] = budgets[b].spent["citations"] + 0
          /\ (\E s \in searches' : s.branch = b) => Within(x)
    BY <2>6, <2>8
  <2>10. x \in Budget /\ Left(x) /\ budgets' = [budgets EXCEPT ![b] = x]
    BY <2>2, <2>4
  <2>11. QED
    BY <1>2, <2>3, <2>7, <2>9, <2>10, OneBudget
<1>3. QED
  BY <1>1, <1>2

(* An affordable charge that is for something else than citations: for an   *)
(* experiment, or for the query of a search that begins on the branch.      *)
LEMMA ChargeKeeps ==
  ASSUME IInv, NEW b, NEW cost \in Amounts, cost["citations"] = 0,
         Affordable(budgets[b], cost), Spent(b, Charged(budgets[b], cost)),
         cited' = cited, disturbed' = disturbed,
         \A s \in searches' : s \in searches \/ s.branch = b
  PROVE  IInv'
<1>1. CASE b \notin DOMAIN budgets
  <2>1. budgets' = budgets
    BY <1>1 DEF Spent, IInv, Honest
  <2>2. QED
    BY <1>1, <2>1 DEF IInv, Honest, Paid, CitationsPaid, Within
<1>2. CASE b \in DOMAIN budgets
  <2> DEFINE x == Charged(budgets[b], cost)
  <2>1. budgets[b] \in Budget
    BY <1>2 DEF IInv, Honest
  <2>2. /\ x \in Budget /\ Left(x) /\ Within(x)
        /\ \A r \in Resources : x.spent[r] = budgets[b].spent[r] + cost[r]
    BY <2>1, ChargedLeft
  <2>3. x.spent["citations"] = budgets[b].spent["citations"]
    BY <2>1, <2>2 DEF Resources, Budget, Amounts
  <2>4. budgets' = [budgets EXCEPT ![b] = x]
    BY DEF Spent
  <2> HIDE DEF x
  <2>5. /\ budgets' \in Seq(Budget) /\ Len(budgets') = Len(budgets)
        /\ DOMAIN budgets' = DOMAIN budgets
        /\ budgets'[b] = x /\ \A d \in DOMAIN budgets \ {b} : budgets'[d] = budgets[d]
    BY <1>2, <2>2, <2>4 DEF IInv, Honest
  <2>6. Honest'
    BY <2>2, <2>5 DEF IInv, Honest, Left
  <2>7. \A s \in searches' : s.branch \in DOMAIN budgets' \ disturbed' => Within(budgets'[s.branch])
    BY <2>2, <2>5 DEF IInv, Paid
  <2>8. CitationsPaid'
    BY <2>3, <2>5 DEF IInv, Paid, CitationsPaid
  <2>9. QED
    BY <2>5, <2>6, <2>7, <2>8 DEF IInv, Paid, Within
<1>3. QED
  BY <1>1, <1>2

LEMMA SpendingKeeps ==
  ASSUME IInv, NEW b, Spending(b)
  PROVE  IInv'
<1>1. ASSUME NEW limits \in OtherLimits, Allocate(b, limits) PROVE IInv'
  BY <1>1, AllocateKeeps
<1>2. ASSUME NEW cost, Refuse(b, cost) PROVE IInv'
  BY <1>2, RefuseKeeps
<1>3. ASSUME NEW units \in ComputeUnits,
             ExperimentCut(b, units) \/ \E outcome : RunExperiment(b, units, outcome)
      PROVE  IInv'
  <2>1. ExperimentCost(units) \in Amounts /\ ExperimentCost(units)["citations"] = 0
    BY CostTypes, AutonomyAssumption
  <2>2. /\ Affordable(budgets[b], ExperimentCost(units))
        /\ Spent(b, Charged(budgets[b], ExperimentCost(units)))
        /\ cited' = cited /\ disturbed' = disturbed
        /\ \A s \in searches' : s \in searches \/ s.branch = b
    BY <1>3 DEF ExperimentCut, RunExperiment
  <2> DEFINE cost == ExperimentCost(units)
  <2> HIDE DEF cost
  <2>3. cost \in Amounts /\ cost["citations"] = 0
    BY <2>1 DEF cost
  <2>4. /\ Affordable(budgets[b], cost) /\ Spent(b, Charged(budgets[b], cost))
        /\ cited' = cited /\ disturbed' = disturbed
        /\ \A s \in searches' : s \in searches \/ s.branch = b
    BY <2>2 DEF cost
  <2>5. QED
    BY <2>3, <2>4, ChargeKeeps
<1>4. ASSUME NEW slot, NEW challenge,
             BeginSearch([slot |-> slot, branch |-> b, challenge |-> challenge])
      PROVE  IInv'
  <2>1. Some("queries", 1) \in Amounts /\ Some("queries", 1)["citations"] = 0
    BY CostTypes DEF Resources
  <2>2. /\ Affordable(budgets[b], Some("queries", 1))
        /\ Spent(b, Charged(budgets[b], Some("queries", 1)))
        /\ cited' = cited /\ disturbed' = disturbed
        /\ \A s \in searches' : s \in searches \/ s.branch = b
    BY <1>4 DEF BeginSearch
  <2>3. QED
    BY <2>1, <2>2, ChargeKeeps
<1>5. QED
  BY <1>1, <1>2, <1>3, <1>4 DEF Spending

-----------------------------------------------------------------------------
(* The end of a search.  It takes no more than what is left, so that unless *)
(* the limits were set meanwhile the charge is never refused.               *)

LEMMA TakenIsLeft ==
  ASSUME NEW x \in Budget, NEW found \in Nat
  PROVE  /\ Taken(x, found) \in Nat
         /\ Taken(x, found) # 0 => x.spent["citations"] + Taken(x, found) <= x.limits["citations"]
<1>1. x.limits["citations"] \in Nat /\ x.spent["citations"] \in Nat
  BY DEF Budget, Amounts, Resources
<1>2. QED
  BY <1>1 DEF Taken

LEMMA Fits ==
  ASSUME NEW x \in Budget, NEW n \in Nat, Within(x),
         x.spent["citations"] + n <= x.limits["citations"]
  PROVE  Affordable(x, Some("citations", n))
<1>1. Some("citations", n) \in Amounts /\ Some("citations", n)["citations"] = n
      /\ \A r \in Resources \ {"citations"} : Some("citations", n)[r] = 0
  BY CostTypes DEF Resources
<1>2. \A r \in Resources : x.spent[r] \in Nat /\ x.limits[r] \in Nat /\ x.spent[r] <= x.limits[r]
  BY DEF Budget, Amounts, Within
<1>3. ASSUME NEW r \in Resources
      PROVE  x.spent[r] + Some("citations", n)[r] <= x.limits[r]
  <2>1. CASE r = "citations"
    BY <1>1, <2>1
  <2>2. CASE r # "citations"
    BY <1>1, <1>2, <2>2
  <2>3. QED
    BY <2>1, <2>2
<1>4. QED
  BY <1>3 DEF Affordable

LEMMA EndSearchKeeps ==
  ASSUME IInv, NEW s \in searches, NEW found \in Nat, EndSearch(s, found)
  PROVE  IInv'
<1> DEFINE b == s.branch
           n == Taken(budgets[b], found)
           cost == Some("citations", n)
<1>1. searches' \subseteq searches /\ disturbed' = disturbed
  BY DEF EndSearch
<1>2. CASE b \notin DOMAIN budgets
  <2>1. budgets' = budgets /\ cited' = cited
    BY <1>2 DEF EndSearch, IInv, Honest, Paid
  <2>2. QED
    BY <1>1, <2>1, NothingSpent
<1>3. CASE b \in DOMAIN budgets
  <2>1. budgets[b] \in Budget
    BY <1>3 DEF IInv, Honest
  <2>2. n \in Nat /\ (n # 0 => budgets[b].spent["citations"] + n <= budgets[b].limits["citations"])
    BY <2>1, TakenIsLeft
  <2>3. CASE n = 0
    <3>1. budgets' = budgets
      BY <2>3 DEF EndSearch
    <3>2. cited' = [cited EXCEPT ![b] = @ + 0]
      BY <2>3 DEF EndSearch
    <3>3. cited' = cited
      BY <1>3, <3>2 DEF IInv, Honest, Paid
    <3>4. QED
      BY <1>1, <3>1, <3>3, NothingSpent
  <2>4. CASE n # 0 /\ Affordable(budgets[b], cost)
    <3> DEFINE x == Charged(budgets[b], cost)
    <3>1. cost \in Amounts /\ cost["citations"] = n
      BY <2>2, CostTypes DEF Resources
    <3>2. /\ x \in Budget /\ Left(x) /\ Within(x)
          /\ x.spent["citations"] = budgets[b].spent["citations"] + n
      <4> HIDE DEF n, cost
      <4> QED BY <2>1, <2>4, <3>1, ChargedLeft DEF Resources
    <3>3. budgets' = [budgets EXCEPT ![b] = x] /\ cited' = [cited EXCEPT ![b] = @ + n]
      BY <2>4 DEF EndSearch
    <3>4. \A t \in searches' : t \in searches \/ t.branch = b
      BY <1>1
    <3> HIDE DEF x, n, b
    <3>5. b \notin disturbed' =>
            /\ x.spent["citations"] = budgets[b].spent["citations"] + n
            /\ (\E t \in searches' : t.branch = b) => Within(x)
      BY <3>2
    <3>6. disturbed \subseteq disturbed'
      BY <1>1
    <3>7. QED
      BY <1>3, <2>2, <3>2, <3>3, <3>4, <3>5, <3>6, OneBudget
  <2>5. CASE n # 0 /\ ~Affordable(budgets[b], cost)
    <3> DEFINE x == Overdrawn(budgets[b])
    <3>1. x \in Budget /\ Left(x)
      BY <2>1, OverdrawnLeft
    <3>2. budgets' = [budgets EXCEPT ![b] = x] /\ cited' = [cited EXCEPT ![b] = @ + n]
      BY <2>5 DEF EndSearch
    <3>3. b \in disturbed
      <4>1. b \notin disturbed => Within(budgets[b])
        BY <1>3 DEF IInv, Paid
      <4> HIDE DEF n
      <4>2. QED
        BY <2>1, <2>2, <2>5, <4>1, Fits DEF cost
    <3>4. \A t \in searches' : t \in searches \/ t.branch = b
      BY <1>1
    <3> HIDE DEF x, n, b
    <3>5. b \notin disturbed' =>
            /\ x.spent["citations"] = budgets[b].spent["citations"] + n
            /\ (\E t \in searches' : t.branch = b) => Within(x)
      BY <1>1, <3>3
    <3>6. disturbed \subseteq disturbed'
      BY <1>1
    <3>7. QED
      BY <1>3, <2>2, <3>1, <3>2, <3>4, <3>5, <3>6, OneBudget
  <2>6. QED
    BY <2>3, <2>4, <2>5
<1>4. QED
  BY <1>2, <1>3

(* A branch whose ingestion was cut is no longer spoken of.                 *)
LEMMA IngestionCutKeeps ==
  ASSUME IInv, NEW s, NEW n, IngestionCut(s, n)
  PROVE  IInv'
<1> DEFINE b == s.branch
<1>1. /\ budgets' = budgets /\ cited' = [cited EXCEPT ![b] = @ + n]
      /\ disturbed' = disturbed \cup {b} /\ searches' = {}
      /\ n \in 1..Taken(budgets[b], MaxCitations)
  BY DEF IngestionCut
<1>2. n \in Nat \/ b \notin DOMAIN budgets
  <2>1. b \in DOMAIN budgets => budgets[b] \in Budget
    BY DEF IInv, Honest
  <2>2. MaxCitations \in Nat
    BY AutonomyAssumption
  <2> HIDE DEF b
  <2>3. b \in DOMAIN budgets => Taken(budgets[b], MaxCitations) \in Nat
    BY <2>1, <2>2, TakenIsLeft
  <2>4. QED
    BY <1>1, <2>3 DEF b
<1> HIDE DEF b
<1>3. cited \in Seq(Nat) /\ Len(cited) = Len(budgets) /\ budgets \in Seq(Budget)
  BY DEF IInv, Honest, Paid
<1>4. /\ cited' \in Seq(Nat) /\ Len(cited') = Len(budgets)
      /\ \A d \in DOMAIN budgets \ {b} : cited'[d] = cited[d]
  <2>1. DOMAIN cited = DOMAIN budgets
    BY <1>3
  <2>2. cited' = [cited EXCEPT ![b] = @ + n]
    BY <1>1
  <2>3. CASE b \notin DOMAIN cited
    <3>1. cited' = cited
      BY <2>2, <2>3, <1>3
    <3>2. QED
      BY <3>1, <1>3
  <2>4. CASE b \in DOMAIN cited
    <3>1. n \in Nat
      BY <1>2, <2>1, <2>4
    <3>2. QED
      BY <2>1, <2>2, <2>4, <3>1, <1>3
  <2>5. QED
    BY <2>3, <2>4
<1>5. QED
  BY <1>1, <1>4 DEF IInv, Honest, Paid, CitationsPaid, Within

-----------------------------------------------------------------------------
(* Theorems *)

(* No step leaves the invariant, whichever handlers run, searches end and   *)
(* crashes happen.                                                          *)
LEMMA StepKeeps ==
  ASSUME IInv, [Next]_vars
  PROVE  IInv'
<1>1. ASSUME NEW parent, CreateBranch(parent) PROVE IInv'
  BY <1>1, NewBranches DEF CreateBranch
<1>2. ASSUME NEW b, Records(b) \/ Disputes(b) PROVE IInv'
  BY <1>2, RecordsKeep
<1>3. ASSUME NEW b, Spending(b) PROVE IInv'
  BY <1>3, SpendingKeeps
<1>4. ASSUME NEW order, NEW policy, Tick(order, policy) \/ TickCrashes(order, policy)
      PROVE  IInv'
  <2>1. \E tree : Grown(tree)
    BY <1>4 DEF Tick, TickCrashes
  <2>2. UNCHANGED disturbed /\ searches' \subseteq searches
    BY <1>4 DEF Tick, TickCrashes
  <2>3. QED
    BY <2>1, <2>2, NewBranches
<1>5. ASSUME NEW s \in searches, Searching(s) PROVE IInv'
  <2>1. CASE SearchFails(s)
    <3>1. UNCHANGED <<budgets, cited, disturbed>> /\ searches' \subseteq searches
      BY <2>1 DEF SearchFails
    <3>2. QED
      BY <3>1, NothingSpent
  <2>2. ASSUME NEW found \in 0..MaxCitations, EndSearch(s, found) PROVE IInv'
    BY <2>2, EndSearchKeeps
  <2>3. ASSUME NEW found \in 0..MaxCitations, IngestionCut(s, found) PROVE IInv'
    BY <2>3, IngestionCutKeeps
  <2>4. QED
    BY <1>5, <2>1, <2>2, <2>3 DEF Searching
<1>6. CASE Restart
  <2>1. UNCHANGED <<budgets, cited, disturbed>> /\ searches' \subseteq searches
    BY <1>6 DEF Restart
  <2>2. QED
    BY <2>1, NothingSpent
<1>7. CASE UNCHANGED vars
  <2>1. UNCHANGED <<budgets, cited, disturbed>> /\ searches' \subseteq searches
    BY <1>7 DEF vars
  <2>2. QED
    BY <2>1, NothingSpent
<1>8. CASE Request
  BY <1>1, <1>2, <1>3, <1>8 DEF Request
<1>9. CASE Scheduling
  BY <1>4, <1>9 DEF Scheduling
<1>10. QED
  BY <1>5, <1>6, <1>7, <1>8, <1>9 DEF Next

(* The invariant holds in every behaviour: the first two parts of it are    *)
(* the types of the budgets, the third that an overlapping search never     *)
(* finds its charge refused, the fourth that citations are paid for.        *)
THEOREM Invariance == Spec => []IInv
<1>1. Init => IInv
  BY Initially
<1>2. IInv /\ [Next]_vars => IInv'
  BY StepKeeps
<1>3. QED
  BY <1>1, <1>2, PTL DEF Spec

(* Every citation a branch has was charged to its budget, for any limits,   *)
(* any number of branches and any overlap of searches, with the exceptions  *)
(* that CitationsPaid names (autonomy.py, service.py's automatic search).   *)
THEOREM CitationsAlwaysPaid == Spec => []CitationsPaid
<1>1. IInv => CitationsPaid
  BY DEF IInv, Paid
<1>2. QED
  BY <1>1, Invariance, PTL

(* A budget that says active always has something left of all it counts.    *)
THEOREM ActiveHasLeft ==
  Spec => [](\A b \in DOMAIN budgets : Left(budgets[b]))
<1>1. IInv => \A b \in DOMAIN budgets : Left(budgets[b])
  BY DEF IInv, Honest, Left
<1>2. QED
  BY <1>1, Invariance, PTL

-----------------------------------------------------------------------------
(* The tree of branches: what the scheduler made, and what has been         *)
(* inherited.  First for any two trees, whatever variables hold them.       *)

ReachedIn(x, b, id, among) ==
  \A d \in 1..among : b \in Ancestors(x)[d] => Inherits(x[d], id)

NegativesReach(x, cut) ==
  \A b \in DOMAIN x : \A k \in Originals(x[b]) :
    \/ Named("negative", b, k) \in cut
    \/ ReachedIn(x, b, Named("negative", b, k), x[b].negatives[k].among)

ChallengesReach(x, list, cut) ==
  \A k \in DOMAIN list :
    \/ Named("challenge", list[k].of, k) \in cut
    \/ ReachedIn(x, list[k].of, Named("challenge", list[k].of, k), list[k].among)

LEMMA InheritedStays ==
  ASSUME NEW u, NEW v, Lasting(u, v), NEW id, Inherits(u, id)
  PROVE  Inherits(v, id)
BY DEF Lasting, Inherits

(* What has been reached stays reached while branches and records are added.*)
LEMMA ReachedStays ==
  ASSUME NEW x, NEW y, Tree(x), Tree(y), Continues(x, y),
         NEW among \in Nat, among <= Len(x), NEW b, NEW id, ReachedIn(x, b, id, among)
  PROVE  ReachedIn(y, b, id, among)
<1> SUFFICES ASSUME NEW d \in 1..among, b \in Ancestors(y)[d] PROVE Inherits(y[d], id)
  BY DEF ReachedIn
<1>1. d \in DOMAIN x
  BY TreeBasics
<1>2. Ancestors(y)[d] = Ancestors(x)[d]
  BY <1>1, AncestorsStay
<1>3. Inherits(x[d], id)
  BY <1>2 DEF ReachedIn
<1>4. Lasting(x[d], y[d])
  BY <1>1 DEF Continues
<1>5. QED
  BY <1>3, <1>4, InheritedStays

LEMMA RecordBounds ==
  ASSUME NEW x, Tree(x), NEW b \in DOMAIN x, NEW k \in DOMAIN x[b].negatives
  PROVE  /\ k \in Nat /\ x[b].negatives[k].among \in Nat /\ x[b].negatives[k].among <= Len(x)
         /\ x[b].negatives[k].source \in Id
<1>1. x[b] \in Branch
  BY TreeBasics
<1>2. x[b].negatives \in Seq(Negative)
  BY <1>1, BranchTypes
<1>3. k \in Nat
  BY <1>2
<1>4. QED
  BY <1>1, <1>3, BranchTypes DEF Tree

(* An original record of the old tree is still one of the new tree, and its *)
(* reach is as good as before.                                              *)
LEMMA OldReach ==
  ASSUME NEW x, NEW y, Tree(x), Tree(y), Continues(x, y), NEW cut, NegativesReach(x, cut),
         NEW b \in DOMAIN x, NEW k \in Originals(x[b])
  PROVE  \/ Named("negative", b, k) \in cut
         \/ ReachedIn(y, b, Named("negative", b, k), y[b].negatives[k].among)
<1> DEFINE id == Named("negative", b, k)
           among == x[b].negatives[k].among
<1>1. k \in DOMAIN x[b].negatives
  BY DEF Originals
<1>2. y[b].negatives[k].among = among
  BY <1>1 DEF Continues, Lasting
<1>3. among \in Nat /\ among <= Len(x)
  BY <1>1, RecordBounds
<1>4. id \in cut \/ ReachedIn(x, b, id, among)
  BY DEF NegativesReach
<1> HIDE DEF id, among
<1>5. ReachedIn(x, b, id, among) => ReachedIn(y, b, id, among)
  BY <1>3, ReachedStays
<1>6. QED
  BY <1>2, <1>4, <1>5 DEF id

(* It is enough to look at the original records that are new.               *)
LEMMA NegativesStill ==
  ASSUME NEW x, NEW y, Tree(x), Tree(y), Continues(x, y), NEW cut, NegativesReach(x, cut),
         NEW more, cut \subseteq more,
         \A b \in DOMAIN y : \A k \in Originals(y[b]) :
           \/ b \in DOMAIN x /\ k \in Originals(x[b])
           \/ Named("negative", b, k) \in more
           \/ ReachedIn(y, b, Named("negative", b, k), y[b].negatives[k].among)
  PROVE  NegativesReach(y, more)
<1>1. ASSUME NEW b \in DOMAIN y, NEW k \in Originals(y[b])
      PROVE  \/ Named("negative", b, k) \in more
             \/ ReachedIn(y, b, Named("negative", b, k), y[b].negatives[k].among)
  <2>1. CASE b \in DOMAIN x /\ k \in Originals(x[b])
    BY <2>1, OldReach
  <2>2. QED
    BY <2>1
<1>2. QED
  BY <1>1 DEF NegativesReach

LEMMA ChallengesStill ==
  ASSUME NEW x, NEW y, Tree(x), Tree(y), Continues(x, y), NEW list, NEW cut,
         ChallengesReach(x, list, cut),
         \A k \in DOMAIN list : list[k].among \in Nat /\ list[k].among <= Len(x),
         NEW more, NEW longer,
         \A k \in DOMAIN longer :
           \/ Named("challenge", longer[k].of, k) \in more
           \/ ReachedIn(y, longer[k].of, Named("challenge", longer[k].of, k), longer[k].among)
           \/ /\ k \in DOMAIN list /\ longer[k].of = list[k].of /\ longer[k].among = list[k].among
              /\ Named("challenge", list[k].of, k) \in cut =>
                   Named("challenge", list[k].of, k) \in more
  PROVE  ChallengesReach(y, longer, more)
<1>1. ASSUME NEW k \in DOMAIN longer,
             k \in DOMAIN list, longer[k].of = list[k].of, longer[k].among = list[k].among,
             Named("challenge", list[k].of, k) \in cut => Named("challenge", list[k].of, k) \in more
      PROVE  \/ Named("challenge", longer[k].of, k) \in more
             \/ ReachedIn(y, longer[k].of, Named("challenge", longer[k].of, k), longer[k].among)
  <2> DEFINE id == Named("challenge", list[k].of, k)
             b == list[k].of
             among == list[k].among
  <2>1. among \in Nat /\ among <= Len(x)
    BY <1>1
  <2>2. id \in cut \/ ReachedIn(x, b, id, among)
    BY <1>1 DEF ChallengesReach
  <2> HIDE DEF id, b, among
  <2>3. ReachedIn(x, b, id, among) => ReachedIn(y, b, id, among)
    BY <2>1, ReachedStays
  <2>4. QED
    BY <1>1, <2>2, <2>3 DEF id, b, among
<1>2. QED
  BY <1>1 DEF ChallengesReach

(* All descendants inherit, so everything below b is reached.               *)
LEMMA AllReached ==
  ASSUME NEW x, Tree(x), NEW y, Tree(y), Continues(x, y), NEW b, NEW id,
         \A d \in Descendants(x, b) : Inherits(y[d], id),
         NEW among \in Nat, among <= Len(x)
  PROVE  ReachedIn(y, b, id, among)
<1> SUFFICES ASSUME NEW d \in 1..among, b \in Ancestors(y)[d] PROVE Inherits(y[d], id)
  BY DEF ReachedIn
<1>1. d \in DOMAIN x
  BY TreeBasics
<1>2. Ancestors(y)[d] = Ancestors(x)[d]
  BY <1>1, AncestorsStay
<1>3. QED
  BY <1>1, <1>2 DEF Descendants

(* One branch of a tree changes in what its records do not depend on.       *)
Alike(u, v) ==
  /\ v \in Branch /\ v.parent = u.parent /\ v.cause = u.cause
  /\ Lasting(u, v) /\ DOMAIN v.negatives = DOMAIN u.negatives

LEMMA AlikeTree ==
  ASSUME NEW x, Tree(x), NEW b \in DOMAIN x, NEW v, Alike(x[b], v),
         NEW y, y = [d \in DOMAIN x |-> IF d = b THEN v ELSE x[d]]
  PROVE  /\ Tree(y) /\ Continues(x, y) /\ Len(y) = Len(x) /\ DOMAIN y = DOMAIN x
         /\ \A d \in DOMAIN x : Originals(y[d]) = Originals(x[d])
<1>1. DOMAIN y = DOMAIN x /\ y = [d \in DOMAIN x |-> y[d]]
  OBVIOUS
<1>2. ASSUME NEW d \in DOMAIN x
      PROVE  /\ y[d] \in Branch /\ y[d].parent = x[d].parent /\ y[d].cause = x[d].cause
             /\ Lasting(x[d], y[d]) /\ DOMAIN y[d].negatives = DOMAIN x[d].negatives
  <2>1. x[d] \in Branch
    BY TreeBasics
  <2>2. CASE d = b
    BY <2>2 DEF Alike
  <2>3. CASE d # b
    BY <2>1, <2>3 DEF Lasting
  <2>4. QED
    BY <2>2, <2>3
<1>3. \A d \in DOMAIN x : Originals(y[d]) = Originals(x[d])
  BY <1>2 DEF Originals, Lasting
<1>4. Tree(y) /\ Continues(x, y) /\ Len(y) = Len(x)
  BY <1>1, <1>2, MoreRecords
<1>5. QED
  BY <1>1, <1>3, <1>4

(* A branch with one more original record, the n-th.                        *)
LEMMA RecordingTree ==
  ASSUME NEW x, Tree(x), NEW b \in DOMAIN x, NEW y, y = Recording(x, b),
         NEW n, n = Len(x[b].negatives) + 1
  PROVE  /\ Tree(y) /\ Continues(x, y) /\ Len(y) = Len(x) /\ DOMAIN y = DOMAIN x
         /\ \A d \in DOMAIN x : Originals(y[d]) \subseteq Originals(x[d]) \cup IF d = b THEN {n} ELSE {}
         /\ n \in DOMAIN y[b].negatives /\ y[b].negatives[n].among = Len(x)
         /\ NextNegative(x, b) = Named("negative", b, n) /\ NextNegative(x, b) \in Id \ {NoId}
<1> DEFINE v == WithNegative(x[b], NoId, Len(x))
<1>1. Len(x) \in Nat /\ x[b] \in Branch /\ b \in Nat /\ DOMAIN x = 1..Len(x)
  BY TreeBasics
<1>2. /\ v \in Branch /\ v.parent = x[b].parent /\ v.cause = x[b].cause
      /\ n \in Nat \ {0} /\ DOMAIN v.negatives = 1..n /\ DOMAIN x[b].negatives = 1..(n - 1)
      /\ v.negatives[n].source = NoId /\ v.negatives[n].among = Len(x)
      /\ \A k \in DOMAIN x[b].negatives : v.negatives[k] = x[b].negatives[k]
  <2> HIDE DEF v
  <2>1. NoId \in Id
    BY IdTypes
  <2>2. QED
    BY <1>1, <2>1, AddingNegative, SMTT(30) DEF v
<1>3. y = [d \in DOMAIN x |-> IF d = b THEN v ELSE x[d]]
  BY DEF Recording
<1> HIDE DEF v
<1>4. DOMAIN y = DOMAIN x /\ y = [d \in DOMAIN x |-> y[d]]
  BY <1>3
<1>5. ASSUME NEW d \in DOMAIN x
      PROVE  /\ y[d] \in Branch /\ y[d].parent = x[d].parent /\ y[d].cause = x[d].cause
             /\ Lasting(x[d], y[d])
             /\ \A k \in DOMAIN y[d].negatives \ DOMAIN x[d].negatives :
                  y[d].negatives[k].among <= Len(x)
             /\ Originals(y[d]) \subseteq Originals(x[d]) \cup IF d = b THEN {n} ELSE {}
  <2>1. x[d] \in Branch
    BY TreeBasics
  <2>2. CASE d = b
    <3>1. y[d] = v
      BY <1>3, <2>2
    <3>2. /\ \A k \in DOMAIN v.negatives : k \in DOMAIN x[b].negatives \/ k = n
          /\ DOMAIN x[b].negatives \subseteq DOMAIN v.negatives
      BY <1>2
    <3>3. Lasting(x[b], v) /\ Originals(v) \subseteq Originals(x[b]) \cup {n}
      BY <1>2, <3>2 DEF Lasting, Originals
    <3>4. \A k \in DOMAIN v.negatives \ DOMAIN x[b].negatives : v.negatives[k].among <= Len(x)
      BY <1>1, <1>2, <3>2
    <3>5. QED
      BY <1>2, <2>2, <3>1, <3>3, <3>4
  <2>3. CASE d # b
    <3>1. y[d] = x[d]
      BY <1>3, <2>3
    <3>2. QED
      BY <2>1, <2>3, <3>1 DEF Lasting
  <2>4. QED
    BY <2>2, <2>3
<1>6. Tree(y) /\ Continues(x, y) /\ Len(y) = Len(x)
  BY <1>4, <1>5, MoreRecords
<1>7. NextNegative(x, b) = Named("negative", b, n) /\ NextNegative(x, b) \in Id \ {NoId}
  BY <1>1, <1>2, IdTypes DEF NextNegative
<1>8. n \in DOMAIN y[b].negatives /\ y[b].negatives[n].among = Len(x)
  <2>1. y[b] = v
    BY <1>3
  <2>2. QED
    BY <1>2, <2>1
<1>9. QED
  BY <1>4, <1>5, <1>6, <1>7, <1>8

(* A counterexample is recorded and some branches, perhaps all descendants, *)
(* inherit it: reach is kept, but for the new record if it was cut.         *)
LEMMA Contradicting ==
  ASSUME NEW x, Tree(x), NEW b \in DOMAIN x, NEW S,
         NEW y, y = Propagated(Recording(x, b), S, NextNegative(x, b)),
         NEW cut, NegativesReach(x, cut), NEW more, cut \subseteq more,
         NextNegative(x, b) \in more \/ S = Descendants(x, b)
  PROVE  Tree(y) /\ Continues(x, y) /\ Len(y) = Len(x) /\ NegativesReach(y, more)
<1> DEFINE r == Recording(x, b)
           id == NextNegative(x, b)
           n == Len(x[b].negatives) + 1
<1>1. /\ Tree(r) /\ Continues(x, r) /\ Len(r) = Len(x) /\ DOMAIN r = DOMAIN x
      /\ \A d \in DOMAIN x : Originals(r[d]) \subseteq Originals(x[d]) \cup IF d = b THEN {n} ELSE {}
      /\ n \in DOMAIN r[b].negatives /\ r[b].negatives[n].among = Len(x)
      /\ id = Named("negative", b, n) /\ id \in Id \ {NoId}
  <2> HIDE DEF r, n
  <2>1. r = Recording(x, b) /\ n = Len(x[b].negatives) + 1
    BY DEF r, n
  <2>2. QED
    BY <2>1, RecordingTree
<1> HIDE DEF r, n, id
<1>2. /\ Tree(y) /\ Continues(r, y) /\ Len(y) = Len(r)
      /\ \A d \in DOMAIN r : Originals(y[d]) = Originals(r[d]) /\ (d \in S => Inherits(y[d], id))
  <2>1. y = Propagated(r, S, id)
    BY DEF r, id
  <2>2. QED
    BY <1>1, <2>1, Propagating
<1>3. Continues(x, y)
  BY <1>1, <1>2, ContinuesTransitive
<1>4. Len(x) \in Nat /\ DOMAIN y = DOMAIN x
  BY <1>1, <1>2, TreeBasics
<1>5. y[b].negatives[n].among = Len(x)
  BY <1>1, <1>2 DEF Continues, Lasting
<1>6. id \in more \/ ReachedIn(y, b, id, Len(x))
  <2>1. CASE S = Descendants(x, b)
    <3>1. \A d \in Descendants(x, b) : Inherits(y[d], id)
      BY <1>1, <1>2, <2>1 DEF Descendants
    <3>2. QED
      BY <1>2, <1>3, <1>4, <3>1, AllReached
  <2>2. QED
    BY <2>1 DEF id
<1>7. ASSUME NEW d \in DOMAIN y, NEW k \in Originals(y[d])
      PROVE  \/ d \in DOMAIN x /\ k \in Originals(x[d])
             \/ Named("negative", d, k) \in more
             \/ ReachedIn(y, d, Named("negative", d, k), y[d].negatives[k].among)
  <2>1. k \in Originals(x[d]) \/ (d = b /\ k = n)
    BY <1>1, <1>2, <1>4
  <2>2. CASE d = b /\ k = n
    BY <1>1, <1>5, <1>6, <2>2
  <2>3. QED
    BY <1>4, <2>1, <2>2
<1>8. NegativesReach(y, more)
  BY <1>2, <1>3, <1>7, NegativesStill
<1>9. QED
  BY <1>1, <1>2, <1>3, <1>8

(* A record is propagated by hand: it reaches all descendants, so it may no *)
(* longer count as cut; the other records are not concerned.                *)
LEMMA PropagatingAgain ==
  ASSUME NEW x, Tree(x), NEW b \in DOMAIN x, NEW k \in DOMAIN x[b].negatives,
         NEW id, id = Named("negative", b, k),
         NEW y, y = Propagated(x, Descendants(x, b), id), NEW cut, NegativesReach(x, cut)
  PROVE  Tree(y) /\ Continues(x, y) /\ Len(y) = Len(x) /\ NegativesReach(y, cut \ {id})
<1>1. b \in Nat /\ k \in Nat /\ id \in Id \ {NoId}
  BY TreeBasics, RecordBounds, IdTypes
<1>2. /\ Tree(y) /\ Continues(x, y) /\ Len(y) = Len(x)
      /\ \A d \in DOMAIN x :
           Originals(y[d]) = Originals(x[d]) /\ (d \in Descendants(x, b) => Inherits(y[d], id))
  BY <1>1, Propagating
<1>3. DOMAIN y = DOMAIN x /\ \A d \in Descendants(x, b) : Inherits(y[d], id)
  BY <1>2, TreeBasics DEF Descendants
<1>4. ASSUME NEW d \in DOMAIN y, NEW j \in Originals(y[d])
      PROVE  \/ Named("negative", d, j) \in cut \ {id}
             \/ ReachedIn(y, d, Named("negative", d, j), y[d].negatives[j].among)
  <2>1. d \in DOMAIN x /\ j \in Originals(x[d]) /\ j \in DOMAIN x[d].negatives
    BY <1>2, <1>3 DEF Originals
  <2>2. CASE Named("negative", d, j) # id
    BY <1>2, <2>1, <2>2, OldReach
  <2>3. CASE Named("negative", d, j) = id
    <3>1. d = b
      <4>1. d \in Nat /\ j \in Nat
        BY <2>1, TreeBasics, RecordBounds
      <4>2. Named("negative", d, j).of = d /\ Named("negative", b, k).of = b
        BY <1>1, <4>1, IdTypes
      <4>3. QED
        BY <2>3, <4>2
    <3> DEFINE among == y[d].negatives[j].among
    <3>2. among = x[d].negatives[j].among
      BY <1>2, <2>1 DEF Continues, Lasting
    <3>3. among \in Nat /\ among <= Len(x)
      BY <2>1, <3>2, RecordBounds
    <3> HIDE DEF among
    <3>4. ReachedIn(y, b, id, among)
      BY <1>2, <1>3, <3>3, AllReached
    <3>5. QED
      BY <2>3, <3>1, <3>4 DEF among
  <2>4. QED
    BY <2>2, <2>3
<1>5. QED
  BY <1>2, <1>4 DEF NegativesReach

(* The recursion of Ingested: n citations, one after the other.             *)
LEMMA IngestedSteps ==
  ASSUME NEW s, s.challenge, NEW n \in Nat
  PROVE  \E f : /\ f[0] = branches /\ f[n] = Ingested(s, n)
               /\ \A i \in 1..n : f[i] = Contradicted(f[i - 1], s.branch)
<1> DEFINE b == s.branch
           Right(f, m) ==
             f = [i \in 0..m |-> IF i = 0 THEN branches ELSE Contradicted(f[i - 1], b)]
           T == {m \in Nat : \E f : Right(f, m)}
<1>1. 0 \in T
  <2>1. Right([i \in 0..0 |-> branches], 0)
    OBVIOUS
  <2>2. QED
    BY <2>1
<1>2. ASSUME NEW m \in Nat, NEW f, Right(f, m),
             NEW g, g = [i \in 0..(m + 1) |-> IF i = m + 1 THEN Contradicted(f[m], b) ELSE f[i]]
      PROVE  Right(g, m + 1)
  <2>1. ASSUME NEW i \in 0..(m + 1)
        PROVE  g[i] = IF i = 0 THEN branches ELSE Contradicted(g[i - 1], b)
    <3>1. CASE i = m + 1
      <4>1. g[i - 1] = f[m] /\ i # 0
        BY <1>2, <3>1
      <4>2. QED
        BY <1>2, <3>1, <4>1
    <3>2. CASE i # m + 1
      <4>1. i \in 0..m /\ (i # 0 => i - 1 \in 0..m)
        BY <3>2
      <4>2. f[i] = IF i = 0 THEN branches ELSE Contradicted(f[i - 1], b)
        BY <1>2, <4>1
      <4>3. QED
        BY <1>2, <3>2, <4>1, <4>2
    <3>3. QED
      BY <3>1, <3>2
  <2>2. g = [i \in 0..(m + 1) |-> g[i]]
    BY <1>2
  <2>3. QED
    BY <2>1, <2>2
<1>3. ASSUME NEW m \in Nat, m \in T PROVE m + 1 \in T
  <2>1. PICK f : Right(f, m)
    BY <1>3
  <2> HIDE DEF Right
  <2>2. \E g : Right(g, m + 1)
    BY <1>2, <2>1
  <2>3. QED
    BY <2>2
<1>4. n \in T
  <2> HIDE DEF T
  <2>1. QED
    BY <1>1, <1>3, SetInduction
<1> DEFINE after == CHOOSE f : Right(f, n)
<1>5. Right(after, n)
  BY <1>4
<1>6. Ingested(s, n) = after[n]
  BY DEF Ingested
<1> HIDE DEF after
<1>7. after[0] = branches /\ \A i \in 1..n : after[i] = Contradicted(after[i - 1], b)
  BY <1>5
<1>8. QED
  BY <1>6, <1>7

-----------------------------------------------------------------------------
(* The invariant of the tree.                                               *)

(* Types; a challenge, a search and a budget belong to a branch there is.   *)
Grounded ==
  /\ Tree(branches) /\ obstacles \in Seq(Nat) /\ challenges \in Seq(Challenges)
  /\ \A k \in DOMAIN challenges :
       challenges[k].of \in DOMAIN branches /\ challenges[k].among <= Len(branches)
  /\ memory \subseteq Id /\ torn \subseteq Id /\ unfinished \subseteq Id
  /\ Len(budgets) = Len(branches) /\ disturbed \subseteq DOMAIN branches
  /\ searches \subseteq Searches /\ \A s \in searches : s.branch \in DOMAIN branches
  /\ requests \in 0..MaxRequests

(* What a branch was made for has been acted on, by a tick that was saved   *)
(* or by one that was cut.                                                  *)
Acted ==
  \A b \in DOMAIN branches : branches[b].cause # NoId => branches[b].cause \in memory \cup torn

TreeInv ==
  /\ Grounded /\ Acted /\ ForkedOnce
  /\ NegativesReach(branches, unfinished) /\ ChallengesReach(branches, challenges, unfinished)

LEMMA ReachIsReach ==
  NegativesReach(branches, unfinished) /\ ChallengesReach(branches, challenges, unfinished)
    => ContradictionReaches
BY DEF NegativesReach, ChallengesReach, ReachedIn, ContradictionReaches, Reached

(* The branches after a step, and the causes of those that are new: nothing *)
(* made them, or a tick whose decisions are lost, or one that was saved,    *)
(* did not know the cause, and used it once.                                *)
Causing(x) ==
  \A d \in DOMAIN x \ DOMAIN branches :
    \/ x[d].cause = NoId
    \/ x[d].cause \in torn'
    \/ /\ x[d].cause \in memory' \ memory
       /\ \A e \in DOMAIN x \ DOMAIN branches : x[d].cause = x[e].cause => d = e

LEMMA ForksStay ==
  ASSUME TreeInv, NEW x, branches' = x, Tree(x), Continues(branches, x),
         memory \subseteq memory', torn \subseteq torn', Causing(x)
  PROVE  Acted' /\ ForkedOnce'
<1>1. \A b \in DOMAIN branches : b \in DOMAIN x /\ x[b].cause = branches[b].cause
  <2>1. Tree(branches)
    BY DEF TreeInv, Grounded
  <2>2. QED
    BY <2>1, AncestorsStay DEF Continues
<1>2. ASSUME NEW b \in DOMAIN x, x[b].cause # NoId
      PROVE  x[b].cause \in memory' \cup torn'
  <2>1. CASE b \in DOMAIN branches
    <3>1. branches[b].cause \in memory \cup torn
      BY <1>1, <1>2, <2>1 DEF TreeInv, Acted
    <3>2. QED
      BY <1>1, <2>1, <3>1
  <2>2. CASE b \notin DOMAIN branches
    BY <1>2, <2>2 DEF Causing
  <2>3. QED
    BY <2>1, <2>2
<1>3. ASSUME NEW b \in DOMAIN x, NEW d \in DOMAIN x,
             b # d, x[b].cause = x[d].cause, x[b].cause # NoId
      PROVE  x[b].cause \in torn'
  <2>1. CASE b \in DOMAIN branches /\ d \in DOMAIN branches
    <3>1. branches[b].cause \in torn
      BY <1>1, <1>3, <2>1 DEF TreeInv, ForkedOnce
    <3>2. QED
      BY <1>1, <2>1, <3>1
  <2>2. ASSUME NEW o \in DOMAIN branches, NEW n \in DOMAIN x \ DOMAIN branches,
               x[o].cause = x[n].cause, x[n].cause # NoId
        PROVE  x[n].cause \in torn'
    <3>1. x[n].cause \in memory \cup torn
      BY <1>1, <2>2 DEF TreeInv, Acted
    <3>2. QED
      BY <2>2, <3>1 DEF Causing
  <2>3. CASE b \notin DOMAIN branches /\ d \notin DOMAIN branches
    BY <1>3, <2>3 DEF Causing
  <2>4. QED
    BY <1>3, <2>1, <2>2, <2>3
<1>4. Acted'
  BY <1>2 DEF Acted
<1>5. ForkedOnce'
  BY <1>3 DEF ForkedOnce
<1>6. QED
  BY <1>4, <1>5

(* A step that leaves the number of branches alone, with the reach of what  *)
(* is recorded after it.                                                    *)
LEMMA SameBranches ==
  ASSUME TreeInv, NEW x, branches' = x, Tree(x), Continues(branches, x), Len(x) = Len(branches),
         UNCHANGED <<memory, torn>>, unfinished' \subseteq Id,
         obstacles' \in Seq(Nat), challenges' \in Seq(Challenges),
         \A k \in DOMAIN challenges' :
           challenges'[k].of \in DOMAIN branches /\ challenges'[k].among <= Len(branches),
         Len(budgets') = Len(budgets), disturbed' \subseteq DOMAIN branches,
         \A s \in searches' : s \in searches \/ (s \in Searches /\ s.branch \in DOMAIN branches),
         requests' \in 0..MaxRequests,
         NegativesReach(x, unfinished'), ChallengesReach(x, challenges', unfinished')
  PROVE  TreeInv'
<1>1. DOMAIN x = DOMAIN branches
  <2>1. Tree(branches)
    BY DEF TreeInv, Grounded
  <2>2. QED
    BY <2>1, TreeBasics
<1>2. Causing(x)
  BY <1>1 DEF Causing
<1>3. Acted' /\ ForkedOnce'
  <2>1. memory \subseteq memory' /\ torn \subseteq torn'
    OBVIOUS
  <2>2. QED
    BY <1>2, <2>1, ForksStay
<1>4. Grounded'
  BY <1>1 DEF Grounded, TreeInv
<1>5. QED
  BY <1>3, <1>4 DEF TreeInv

(* What a step does to the rest of the state.                               *)
Framed ==
  /\ Len(budgets') = Len(budgets) /\ disturbed' \subseteq DOMAIN branches
  /\ \A s \in searches' : s \in searches \/ (s \in Searches /\ s.branch \in DOMAIN branches)
  /\ requests' \in 0..MaxRequests

LEMMA TreeFacts ==
  ASSUME TreeInv
  PROVE  /\ Tree(branches) /\ Len(branches) \in Nat /\ DOMAIN branches = 1..Len(branches)
         /\ NegativesReach(branches, unfinished) /\ ChallengesReach(branches, challenges, unfinished)
         /\ obstacles \in Seq(Nat) /\ challenges \in Seq(Challenges)
         /\ \A k \in DOMAIN challenges :
              /\ challenges[k].of \in DOMAIN branches
              /\ challenges[k].among \in Nat /\ challenges[k].among <= Len(branches)
         /\ memory \subseteq Id /\ torn \subseteq Id /\ unfinished \subseteq Id
         /\ Len(budgets) = Len(branches) /\ disturbed \subseteq DOMAIN branches
         /\ searches \subseteq Searches /\ \A s \in searches : s.branch \in DOMAIN branches
<1>1. Tree(branches) /\ challenges \in Seq(Challenges)
  BY DEF TreeInv, Grounded
<1>2. \A k \in DOMAIN challenges : challenges[k] \in Challenges
  BY <1>1
<1>3. \A k \in DOMAIN challenges : challenges[k].among \in Nat
  BY <1>2 DEF Challenges
<1>4. Len(branches) \in Nat /\ DOMAIN branches = 1..Len(branches)
  BY <1>1, TreeBasics
<1>5. QED
  BY <1>1, <1>3, <1>4 DEF TreeInv, Grounded

(* No record is made, but some may be resolved or inherited.                *)
LEMMA QuietKeeps ==
  ASSUME TreeInv, Framed, NEW x, branches' = x, Tree(x), Continues(branches, x),
         Len(x) = Len(branches),
         \A d \in DOMAIN branches : Originals(x[d]) = Originals(branches[d]),
         UNCHANGED <<memory, torn, unfinished>>, obstacles' \in Seq(Nat),
         challenges' \in Seq(Challenges), DOMAIN challenges' = DOMAIN challenges,
         \A k \in DOMAIN challenges :
           challenges'[k].of = challenges[k].of /\ challenges'[k].among = challenges[k].among
  PROVE  TreeInv'
<1>1. Tree(branches) /\ NegativesReach(branches, unfinished)
      /\ ChallengesReach(branches, challenges, unfinished)
      /\ \A k \in DOMAIN challenges :
           /\ challenges[k].of \in DOMAIN branches
           /\ challenges[k].among \in Nat /\ challenges[k].among <= Len(branches)
  BY TreeFacts
<1>2. DOMAIN x = DOMAIN branches
  BY <1>1, TreeBasics
<1>3. NegativesReach(x, unfinished')
  <2>1. \A b \in DOMAIN x : \A k \in Originals(x[b]) : b \in DOMAIN branches /\ k \in Originals(branches[b])
    BY <1>2
  <2>2. unfinished \subseteq unfinished'
    OBVIOUS
  <2>3. QED
    BY <1>1, <2>1, <2>2, NegativesStill
<1>4. ChallengesReach(x, challenges', unfinished')
  <2> DEFINE more == unfinished'
             longer == challenges'
  <2>1. \A k \in DOMAIN longer :
          /\ k \in DOMAIN challenges /\ longer[k].of = challenges[k].of
          /\ longer[k].among = challenges[k].among
          /\ Named("challenge", challenges[k].of, k) \in unfinished =>
               Named("challenge", challenges[k].of, k) \in more
    OBVIOUS
  <2>2. \A k \in DOMAIN challenges :
          challenges[k].among \in Nat /\ challenges[k].among <= Len(branches)
    BY <1>1
  <2> HIDE DEF longer, more
  <2>3. ChallengesReach(x, longer, more)
    BY <1>1, <2>1, <2>2, ChallengesStill
  <2>4. QED
    BY <2>3 DEF longer, more
<1>5. \A k \in DOMAIN challenges' :
        challenges'[k].of \in DOMAIN branches /\ challenges'[k].among <= Len(branches)
  BY <1>1
<1>6. unfinished' \subseteq Id
  BY TreeFacts
<1>7. QED
  BY <1>3, <1>4, <1>5, <1>6, SameBranches DEF Framed

(* Steps that leave the branches and their records alone.                   *)
LEMMA ResearchKeeps ==
  ASSUME TreeInv, Framed, UNCHANGED <<branches, memory, torn, unfinished, challenges>>,
         obstacles' \in Seq(Nat)
  PROVE  TreeInv'
<1> DEFINE x == branches
<1>1. Tree(x) /\ challenges \in Seq(Challenges)
  BY TreeFacts
<1>2. Continues(branches, x)
  BY <1>1, ContinuesItself
<1>3. branches' = x /\ Len(x) = Len(branches) /\ challenges' \in Seq(Challenges)
      /\ \A d \in DOMAIN branches : Originals(x[d]) = Originals(branches[d])
      /\ DOMAIN challenges' = DOMAIN challenges
      /\ \A k \in DOMAIN challenges :
           challenges'[k].of = challenges[k].of /\ challenges'[k].among = challenges[k].among
  BY <1>1
<1> HIDE DEF x
<1>4. UNCHANGED <<memory, torn, unfinished>>
  OBVIOUS
<1>5. QED
  BY <1>1, <1>2, <1>3, <1>4, QuietKeeps

(* One branch changes, and its records at most in whether they are resolved.*)
LEMMA OneBranchKeeps ==
  ASSUME TreeInv, Framed, NEW b \in DOMAIN branches, NEW v, Alike(branches[b], v),
         Changed(b, v)
  PROVE  TreeInv'
<1> DEFINE x == [d \in DOMAIN branches |-> IF d = b THEN v ELSE branches[d]]
<1>1. branches' = x /\ UNCHANGED <<obstacles, challenges, memory, torn, unfinished>>
  BY DEF Changed
<1>2. Tree(branches) /\ challenges \in Seq(Challenges) /\ obstacles \in Seq(Nat)
  BY TreeFacts
<1>3. /\ Tree(x) /\ Continues(branches, x) /\ Len(x) = Len(branches)
      /\ \A d \in DOMAIN branches : Originals(x[d]) = Originals(branches[d])
  <2> DEFINE y == x
  <2> HIDE DEF x
  <2>1. x = [d \in DOMAIN branches |-> IF d = b THEN v ELSE branches[d]]
    BY DEF x
  <2>2. QED
    BY <1>2, <2>1, AlikeTree
<1> HIDE DEF x
<1>4. /\ challenges' \in Seq(Challenges) /\ obstacles' \in Seq(Nat)
      /\ DOMAIN challenges' = DOMAIN challenges
      /\ \A k \in DOMAIN challenges :
           challenges'[k].of = challenges[k].of /\ challenges'[k].among = challenges[k].among
      /\ UNCHANGED <<memory, torn, unfinished>>
  BY <1>1, <1>2
<1>5. QED
  BY <1>1, <1>3, <1>4, QuietKeeps

-----------------------------------------------------------------------------
(* The actions on one branch *)

LEMMA SameRecordsAlike ==
  ASSUME NEW u \in Branch, NEW v \in Branch, v.parent = u.parent, v.cause = u.cause,
         v.negatives = u.negatives
  PROVE  Alike(u, v) /\ Alike(u, Touched(v))
BY Touching DEF Alike, Lasting

LEMMA SettledAlike ==
  ASSUME NEW u \in Branch, NEW k \in DOMAIN u.negatives
  PROVE  Alike(u, Settled(u, k))
<1> DEFINE one == [u.negatives[k] EXCEPT !.resolved = TRUE]
           settled == [u.negatives EXCEPT ![k] = one]
           v == [u EXCEPT !.negatives = settled]
<1>1. u.negatives \in Seq(Negative) /\ u.negatives[k] \in Negative
  BY BranchTypes
<1>2. /\ one \in Negative /\ one.source = u.negatives[k].source
      /\ one.among = u.negatives[k].among
  <2>1. PICK e \in Negative : e = u.negatives[k]
    BY <1>1
  <2>2. [e EXCEPT !.resolved = TRUE] \in Negative
    BY DEF Negative
  <2>3. QED
    BY <2>1, <2>2 DEF Negative
<1> HIDE DEF one
<1>3. /\ settled \in Seq(Negative) /\ DOMAIN settled = DOMAIN u.negatives
      /\ \A i \in DOMAIN u.negatives : settled[i] = IF i = k THEN one ELSE u.negatives[i]
  BY <1>1, <1>2
<1> HIDE DEF settled
<1>4. v \in Branch /\ v.parent = u.parent /\ v.cause = u.cause /\ v.negatives = settled
  BY <1>3 DEF Branch
<1>5. Settled(u, k) = Touched(v)
  BY DEF Settled, settled, one
<1> HIDE DEF v
<1>6. QED
  BY <1>2, <1>3, <1>4, <1>5, Touching DEF Alike, Lasting

LEMMA TrialsAlike ==
  ASSUME NEW u \in Branch, NEW outcome \in {"planned", "passed", "failed"}
  PROVE  /\ Alike(u, WithTrial(u, outcome))
         /\ \A k \in DOMAIN u.trials : Alike(u, Touched([u EXCEPT !.trials[k] = outcome]))
<1>1. u.trials \in Seq({"planned", "passed", "failed"})
  BY DEF Branch
<1>2. ASSUME NEW trials \in Seq({"planned", "passed", "failed"})
      PROVE  Alike(u, Touched([u EXCEPT !.trials = trials]))
  <2> DEFINE v == [u EXCEPT !.trials = trials]
  <2>1. v \in Branch /\ v.parent = u.parent /\ v.cause = u.cause /\ v.negatives = u.negatives
    BY DEF Branch
  <2> HIDE DEF v
  <2>2. Alike(u, Touched(v))
    BY <2>1, SameRecordsAlike
  <2>3. QED
    BY <2>2 DEF v
<1>3. Alike(u, WithTrial(u, outcome))
  <2>1. Append(u.trials, outcome) \in Seq({"planned", "passed", "failed"})
    BY <1>1
  <2>2. WithTrial(u, outcome) = Touched([u EXCEPT !.trials = Append(u.trials, outcome)])
    BY DEF WithTrial
  <2>3. QED
    BY <1>2, <2>1, <2>2
<1>4. ASSUME NEW k \in DOMAIN u.trials
      PROVE  Alike(u, Touched([u EXCEPT !.trials[k] = outcome]))
  <2>1. [u.trials EXCEPT ![k] = outcome] \in Seq({"planned", "passed", "failed"})
    BY <1>1
  <2>2. [u EXCEPT !.trials[k] = outcome] = [u EXCEPT !.trials = [u.trials EXCEPT ![k] = outcome]]
    OBVIOUS
  <2>3. QED
    BY <1>2, <2>1, <2>2
<1>5. QED
  BY <1>3, <1>4

LEMMA StatusAlike ==
  ASSUME NEW u \in Branch
  PROVE  /\ Alike(u, [u EXCEPT !.failed = TRUE, !.councils = @ + 1])
         /\ Alike(u, [u EXCEPT !.failed = FALSE])
         /\ Alike(u, [u EXCEPT !.item = "accepted", !.status = "verified"])
         /\ \A item \in {"challenged", "revised", "retired"} : Alike(u, [u EXCEPT !.item = item])
<1>1. ASSUME NEW v \in Branch, v.parent = u.parent, v.cause = u.cause, v.negatives = u.negatives
      PROVE  Alike(u, v)
  BY <1>1, SameRecordsAlike
<1>2. u.councils + 1 \in Nat
  BY DEF Branch
<1>3. Alike(u, [u EXCEPT !.failed = TRUE, !.councils = @ + 1])
  <2> DEFINE m == u.councils + 1
             v == [u EXCEPT !.failed = TRUE, !.councils = m]
  <2> HIDE DEF m
  <2>1. v \in Branch /\ v.parent = u.parent /\ v.cause = u.cause /\ v.negatives = u.negatives
    BY <1>2, Zenon DEF Branch, m
  <2> HIDE DEF v
  <2>2. Alike(u, v)
    BY <1>1, <2>1
  <2>3. QED
    BY <2>2 DEF v, m
<1>4. Alike(u, [u EXCEPT !.failed = FALSE])
  <2> DEFINE v == [u EXCEPT !.failed = FALSE]
  <2>1. v \in Branch /\ v.parent = u.parent /\ v.cause = u.cause /\ v.negatives = u.negatives
    BY DEF Branch
  <2> HIDE DEF v
  <2>2. Alike(u, v)
    BY <1>1, <2>1
  <2>3. QED
    BY <2>2 DEF v
<1>5. Alike(u, [u EXCEPT !.item = "accepted", !.status = "verified"])
  <2> DEFINE v == [u EXCEPT !.item = "accepted", !.status = "verified"]
  <2>1. v \in Branch /\ v.parent = u.parent /\ v.cause = u.cause /\ v.negatives = u.negatives
    BY DEF Branch
  <2> HIDE DEF v
  <2>2. Alike(u, v)
    BY <1>1, <2>1
  <2>3. QED
    BY <2>2 DEF v
<1>6. \A item \in {"challenged", "revised", "retired"} : Alike(u, [u EXCEPT !.item = item])
  BY <1>1 DEF Branch
<1>7. QED
  BY <1>3, <1>4, <1>5, <1>6

LEMMA FrameStays ==
  ASSUME TreeInv, UNCHANGED <<budgets, disturbed>>, searches' \subseteq searches,
         requests' \in 0..MaxRequests
  PROVE  Framed
BY TreeFacts DEF Framed

(* Records are made, and the challenges are left alone.                     *)
LEMMA RecordedKeeps ==
  ASSUME TreeInv, Framed, NEW x, branches' = x, Tree(x), Continues(branches, x),
         Len(x) = Len(branches), NegativesReach(x, unfinished'), unfinished' \subseteq Id,
         \A id \in unfinished : id.kind = "challenge" => id \in unfinished',
         UNCHANGED <<obstacles, challenges, memory, torn>>
  PROVE  TreeInv'
<1>1. /\ Tree(branches) /\ ChallengesReach(branches, challenges, unfinished)
      /\ obstacles \in Seq(Nat) /\ challenges \in Seq(Challenges)
      /\ \A k \in DOMAIN challenges :
           /\ challenges[k].of \in DOMAIN branches
           /\ challenges[k].among \in Nat /\ challenges[k].among <= Len(branches)
  BY TreeFacts
<1>2. ASSUME NEW k \in DOMAIN challenges
      PROVE  Named("challenge", challenges[k].of, k).kind = "challenge"
  BY DEF Named
<1>3. ChallengesReach(x, challenges, unfinished')
  <2> DEFINE more == unfinished'
  <2>1. \A k \in DOMAIN challenges :
          Named("challenge", challenges[k].of, k) \in unfinished =>
            Named("challenge", challenges[k].of, k) \in more
    BY <1>2
  <2>2. \A k \in DOMAIN challenges :
          challenges[k].among \in Nat /\ challenges[k].among <= Len(branches)
    BY <1>1
  <2> HIDE DEF more
  <2>3. ChallengesReach(x, challenges, more)
    BY <1>1, <2>1, <2>2, ChallengesStill
  <2>4. QED
    BY <2>3 DEF more
<1>4. /\ obstacles' \in Seq(Nat) /\ challenges' \in Seq(Challenges) /\ UNCHANGED <<memory, torn>>
      /\ \A k \in DOMAIN challenges' :
           challenges'[k].of \in DOMAIN branches /\ challenges'[k].among <= Len(branches)
      /\ ChallengesReach(x, challenges', unfinished')
  BY <1>1, <1>3
<1>5. QED
  BY <1>4, SameBranches DEF Framed

(* A counterexample, the last of some, is recorded and propagated or cut.   *)
LEMMA CounterexampleKeeps ==
  ASSUME TreeInv, Framed, NEW x, Tree(x), Continues(branches, x), Len(x) = Len(branches),
         NegativesReach(x, unfinished), NEW b \in DOMAIN branches, NEW S,
         branches' = Propagated(Recording(x, b), S, NextNegative(x, b)),
         \/ unfinished' = unfinished /\ S = Descendants(x, b)
         \/ unfinished' = unfinished \cup {NextNegative(x, b)},
         UNCHANGED <<obstacles, challenges, memory, torn>>
  PROVE  TreeInv'
<1>1. Tree(branches) /\ unfinished \subseteq Id
  BY TreeFacts
<1>2. b \in DOMAIN x /\ NextNegative(x, b) \in Id
  <2>1. b \in DOMAIN x
    BY <1>1, TreeBasics
  <2>2. QED
    BY <2>1, RecordingTree
<1> DEFINE y == Propagated(Recording(x, b), S, NextNegative(x, b))
           more == unfinished'
<1>3. unfinished \subseteq more /\ more \subseteq Id
      /\ (NextNegative(x, b) \in more \/ S = Descendants(x, b))
  BY <1>1, <1>2
<1>4. Tree(y) /\ Continues(x, y) /\ Len(y) = Len(x) /\ NegativesReach(y, more)
  <2> HIDE DEF y, more
  <2>1. QED
    BY <1>2, <1>3, Contradicting DEF y
<1>5. branches' = y
  OBVIOUS
<1> HIDE DEF y
<1>6. Continues(branches, y)
  BY <1>1, <1>4, ContinuesTransitive
<1>7. NegativesReach(y, unfinished') /\ unfinished' \subseteq Id
      /\ \A id \in unfinished : id.kind = "challenge" => id \in unfinished'
  BY <1>3, <1>4
<1>8. QED
  BY <1>4, <1>5, <1>6, <1>7, RecordedKeeps

(* Citations that are challenges are counterexamples, one after the other.  *)
LEMMA Ingesting ==
  ASSUME TreeInv, NEW s, s.branch \in DOMAIN branches, NEW n \in Nat,
         NEW x, x = Ingested(s, n)
  PROVE  /\ Tree(x) /\ Continues(branches, x) /\ Len(x) = Len(branches)
         /\ NegativesReach(x, unfinished)
<1> DEFINE Fine(y) == /\ Tree(y) /\ Continues(branches, y) /\ Len(y) = Len(branches)
                      /\ NegativesReach(y, unfinished)
           b == s.branch
<1>1. Tree(branches) /\ NegativesReach(branches, unfinished)
  BY TreeFacts
<1>2. Fine(branches)
  BY <1>1, ContinuesItself
<1>3. ASSUME NEW y, Fine(y), NEW z, z = Contradicted(y, b)
      PROVE  Fine(z)
  <2>1. b \in DOMAIN y
    BY <1>1, <1>3, TreeBasics
  <2> HIDE DEF b
  <2>2. Tree(z) /\ Continues(y, z) /\ Len(z) = Len(y) /\ NegativesReach(z, unfinished)
    <3>1. z = Propagated(Recording(y, b), Descendants(y, b), NextNegative(y, b))
      BY <1>3 DEF Contradicted
    <3>2. unfinished \subseteq unfinished
      OBVIOUS
    <3>3. QED
      BY <1>3, <2>1, <3>1, <3>2, Contradicting
  <2>3. Continues(branches, z)
    BY <1>1, <1>3, <2>2, ContinuesTransitive
  <2>4. QED
    BY <1>3, <2>2, <2>3
<1>4. CASE ~s.challenge
  BY <1>2, <1>4 DEF Ingested
<1>5. CASE s.challenge
  <2>1. PICK f : /\ f[0] = branches /\ f[n] = Ingested(s, n)
                 /\ \A i \in 1..n : f[i] = Contradicted(f[i - 1], s.branch)
    BY <1>5, IngestedSteps
  <2> HIDE DEF Fine
  <2> DEFINE T == {i \in Nat : i <= n => Fine(f[i])}
  <2>2. 0 \in T
    BY <1>2, <2>1
  <2>3. ASSUME NEW i \in Nat, i \in T PROVE i + 1 \in T
    <3> SUFFICES ASSUME i + 1 <= n PROVE Fine(f[i + 1])
      OBVIOUS
    <3>1. i + 1 \in 1..n /\ (i + 1) - 1 = i /\ i <= n
      OBVIOUS
    <3>2. f[i + 1] = Contradicted(f[i], b) /\ Fine(f[i])
      BY <2>1, <2>3, <3>1
    <3>3. QED
      BY <1>3, <3>2
  <2>4. n \in T
    <3> HIDE DEF T
    <3>1. QED
      BY <2>2, <2>3, SetInduction
  <2>5. QED
    BY <2>1, <2>4 DEF Fine
<1>6. QED
  BY <1>4, <1>5

(* A challenge is opened and inherited by all descendants, or cut.          *)
LEMMA ChallengeKeeps ==
  ASSUME TreeInv, Framed, NEW b \in DOMAIN branches, NEW S,
         challenges' = Opened(b), branches' = Propagated(Disputed(b), S, NextChallenge(b)),
         \/ unfinished' = unfinished /\ S = Descendants(branches, b)
         \/ unfinished' = unfinished \cup {NextChallenge(b)},
         UNCHANGED <<obstacles, memory, torn>>
  PROVE  TreeInv'
<1> DEFINE v == [branches[b] EXCEPT !.item = "challenged"]
           x == Disputed(b)
           id == NextChallenge(b)
           y == Propagated(x, S, id)
           n == Len(challenges) + 1
           new == [of |-> b, open |-> TRUE, among |-> Len(branches)]
           more == unfinished'
           longer == challenges'
<1>1. /\ Tree(branches) /\ Len(branches) \in Nat /\ b \in Nat /\ branches[b] \in Branch
      /\ NegativesReach(branches, unfinished) /\ ChallengesReach(branches, challenges, unfinished)
      /\ challenges \in Seq(Challenges) /\ obstacles \in Seq(Nat) /\ unfinished \subseteq Id
      /\ \A k \in DOMAIN challenges :
           /\ challenges[k].of \in DOMAIN branches
           /\ challenges[k].among \in Nat /\ challenges[k].among <= Len(branches)
  BY TreeFacts, TreeBasics, SMTT(30)
<1>2. Alike(branches[b], v)
  BY <1>1, StatusAlike
<1>3. x = [d \in DOMAIN branches |-> IF d = b THEN v ELSE branches[d]]
  BY DEF Disputed
<1> HIDE DEF v, x
<1>4. /\ Tree(x) /\ Continues(branches, x) /\ Len(x) = Len(branches) /\ DOMAIN x = DOMAIN branches
      /\ \A d \in DOMAIN branches : Originals(x[d]) = Originals(branches[d])
  <2>1. Tree(branches)
    BY <1>1
  <2>2. QED
    BY <1>2, <1>3, <2>1, AlikeTree
<1>5. n \in Nat /\ id = Named("challenge", b, n) /\ id \in Id \ {NoId}
  BY <1>1, IdTypes DEF NextChallenge
<1>6. /\ Tree(y) /\ Continues(x, y) /\ Len(y) = Len(x)
      /\ \A d \in DOMAIN x : Originals(y[d]) = Originals(x[d]) /\ (d \in S => Inherits(y[d], id))
  <2> HIDE DEF y, id
  <2>1. QED
    BY <1>4, <1>5, Propagating DEF y
<1>7. branches' = y
  BY DEF x
<1> HIDE DEF y
<1>8. Continues(branches, y) /\ DOMAIN y = DOMAIN branches
  BY <1>1, <1>4, <1>6, ContinuesTransitive, TreeBasics
<1>9. unfinished \subseteq more /\ more \subseteq Id
  BY <1>1, <1>5
<1>10. NegativesReach(y, more)
  <2>1. \A d \in DOMAIN y : \A k \in Originals(y[d]) :
          d \in DOMAIN branches /\ k \in Originals(branches[d])
    BY <1>4, <1>6, <1>8
  <2> HIDE DEF more
  <2>2. QED
    BY <1>1, <1>6, <1>8, <1>9, <2>1, NegativesStill
<1>11. new \in Challenges
  BY <1>1 DEF Challenges
<1>12. longer = Append(challenges, new)
  BY DEF Opened
<1>13. /\ longer \in Seq(Challenges) /\ DOMAIN longer = 1..n /\ DOMAIN challenges = 1..(n - 1)
       /\ longer[n] = new /\ \A k \in DOMAIN challenges : longer[k] = challenges[k]
  <2> HIDE DEF new, longer
  <2>1. QED
    BY <1>1, <1>11, <1>12
<1>14. longer[n].of = b /\ longer[n].among = Len(branches)
  BY <1>13
<1>15. id \in more \/ ReachedIn(y, b, id, Len(branches))
  <2>1. CASE S = Descendants(branches, b)
    <3>1. \A d \in Descendants(branches, b) : Inherits(y[d], id)
      BY <1>4, <1>6, <2>1 DEF Descendants
    <3>2. Tree(branches) /\ Len(branches) \in Nat /\ Len(branches) <= Len(branches)
      BY <1>1
    <3> HIDE DEF id, more
    <3>3. ReachedIn(y, b, id, Len(branches))
      BY <1>6, <1>8, <3>1, <3>2, AllReached
    <3>4. QED
      BY <3>3
  <2>2. QED
    BY <2>1
<1>16. ChallengesReach(y, longer, more)
  <2>1. ASSUME NEW k \in DOMAIN longer
        PROVE  \/ Named("challenge", longer[k].of, k) \in more
               \/ ReachedIn(y, longer[k].of, Named("challenge", longer[k].of, k), longer[k].among)
               \/ /\ k \in DOMAIN challenges /\ longer[k].of = challenges[k].of
                  /\ longer[k].among = challenges[k].among
                  /\ Named("challenge", challenges[k].of, k) \in unfinished =>
                       Named("challenge", challenges[k].of, k) \in more
    <3>1. CASE k = n
      BY <1>5, <1>14, <1>15, <3>1
    <3>2. CASE k # n
      <4>1. k \in DOMAIN challenges
        BY <1>5, <1>13, <3>2
      <4>2. longer[k] = challenges[k]
        BY <1>13, <4>1
      <4>3. QED
        BY <1>9, <4>1, <4>2
    <3>3. QED
      BY <3>1, <3>2
  <2>2. \A k \in DOMAIN challenges :
          challenges[k].among \in Nat /\ challenges[k].among <= Len(branches)
    BY <1>1
  <2> HIDE DEF longer, more
  <2>3. QED
    BY <1>1, <1>6, <1>8, <2>1, <2>2, ChallengesStill
<1>17. \A k \in DOMAIN longer : longer[k].of \in DOMAIN branches /\ longer[k].among <= Len(branches)
  <2>1. ASSUME NEW k \in DOMAIN longer
        PROVE  longer[k].of \in DOMAIN branches /\ longer[k].among <= Len(branches)
    <3>1. CASE k = n
      BY <1>1, <1>14, <3>1
    <3>2. CASE k # n
      <4>1. k \in DOMAIN challenges
        BY <1>5, <1>13, <3>2
      <4>2. QED
        BY <1>1, <1>13, <4>1
    <3>3. QED
      BY <3>1, <3>2
  <2>2. QED
    BY <2>1
<1>18. UNCHANGED <<memory, torn>> /\ obstacles' \in Seq(Nat) /\ Len(y) = Len(branches)
  BY <1>1, <1>4, <1>6
<1>19. QED
  BY <1>6, <1>7, <1>8, <1>9, <1>10, <1>13, <1>16, <1>17, <1>18, SameBranches DEF Framed

(* A challenge is settled, or the item it is about retired: the branches of *)
(* the challenges stay.                                                     *)
LEMMA ClosedKeeps ==
  ASSUME TreeInv, Framed, NEW b \in DOMAIN branches, NEW item \in {"revised", "retired"},
         branches' = [branches EXCEPT ![b].item = item],
         NEW list \in Seq(Challenges), challenges' = list, DOMAIN list = DOMAIN challenges,
         \A k \in DOMAIN challenges :
           list[k].of = challenges[k].of /\ list[k].among = challenges[k].among,
         UNCHANGED <<obstacles, memory, torn, unfinished>>
  PROVE  TreeInv'
<1> DEFINE v == [branches[b] EXCEPT !.item = item]
           x == [d \in DOMAIN branches |-> IF d = b THEN v ELSE branches[d]]
<1>1. Tree(branches) /\ branches[b] \in Branch /\ obstacles \in Seq(Nat)
  BY TreeFacts, TreeBasics
<1>2. Alike(branches[b], v)
  BY <1>1, StatusAlike
<1>3. branches' = x
  OBVIOUS
<1>4. /\ Tree(x) /\ Continues(branches, x) /\ Len(x) = Len(branches)
      /\ \A d \in DOMAIN branches : Originals(x[d]) = Originals(branches[d])
  <2> HIDE DEF v
  <2>1. x = [d \in DOMAIN branches |-> IF d = b THEN v ELSE branches[d]]
    OBVIOUS
  <2> HIDE DEF x
  <2>2. QED
    BY <1>1, <1>2, <2>1, AlikeTree
<1> HIDE DEF x
<1>5. UNCHANGED <<memory, torn, unfinished>> /\ obstacles' \in Seq(Nat)
  BY <1>1
<1>6. QED
  BY <1>3, <1>4, <1>5, QuietKeeps, SMTT(30)

LEMMA RecordsTree ==
  ASSUME TreeInv, requests' \in 0..MaxRequests, NEW b \in DOMAIN branches, Records(b)
  PROVE  TreeInv'
<1>1. /\ Tree(branches) /\ branches[b] \in Branch /\ b \in Nat
      /\ NegativesReach(branches, unfinished) /\ unfinished \subseteq Id
      /\ obstacles \in Seq(Nat) /\ Continues(branches, branches)
  BY TreeFacts, TreeBasics, ContinuesItself
<1>2. UNCHANGED spending => Framed
  BY FrameStays DEF spending
<1>3. CASE AddCounterexample(b)
  <2>1. /\ UNCHANGED spending /\ UNCHANGED <<obstacles, challenges, memory, torn, unfinished>>
        /\ branches' = Propagated(Recording(branches, b), Descendants(branches, b), NextNegative(branches, b))
    BY <1>3 DEF AddCounterexample, Contradicted
  <2>2. QED
    BY <1>1, <1>2, <2>1, CounterexampleKeeps
<1>4. CASE CounterexampleCut(b)
  <2>1. /\ \E S : branches' = Propagated(Recording(branches, b), S, NextNegative(branches, b))
        /\ unfinished' = unfinished \cup {NextNegative(branches, b)}
        /\ UNCHANGED <<obstacles, challenges, memory, torn, budgets, disturbed>>
        /\ searches' \subseteq searches
    BY <1>4 DEF CounterexampleCut
  <2>2. Framed
    BY <2>1, FrameStays
  <2>3. QED
    BY <1>1, <2>1, <2>2, CounterexampleKeeps
<1>5. ASSUME NEW k \in DOMAIN branches[b].negatives, Propagate(b, k) PROVE TreeInv'
  <2> DEFINE id == Named("negative", b, k)
             y == Propagated(branches, Descendants(branches, b), id)
  <2>1. /\ branches' = y /\ unfinished' = unfinished \ {id} /\ UNCHANGED spending
        /\ UNCHANGED <<obstacles, challenges, memory, torn>>
    BY <1>5 DEF Propagate
  <2>2. id.kind = "negative"
    BY DEF Named
  <2>3. Tree(y) /\ Continues(branches, y) /\ Len(y) = Len(branches)
        /\ NegativesReach(y, unfinished \ {id})
    <3> HIDE DEF y, id
    <3>1. id = Named("negative", b, k) /\ y = Propagated(branches, Descendants(branches, b), id)
      BY DEF y, id
    <3>2. QED
      BY <1>1, <3>1, PropagatingAgain
  <2> HIDE DEF y, id
  <2>4. /\ NegativesReach(y, unfinished') /\ unfinished' \subseteq Id
        /\ \A i \in unfinished : i.kind = "challenge" => i \in unfinished'
    BY <1>1, <2>1, <2>2, <2>3
  <2>5. QED
    BY <1>2, <2>1, <2>3, <2>4, RecordedKeeps
<1>6. ASSUME NEW v, Alike(branches[b], v), Changed(b, v), UNCHANGED spending PROVE TreeInv'
  BY <1>2, <1>6, OneBranchKeeps
<1>7. ASSUME NEW k \in DOMAIN branches[b].negatives, Resolve(b, k) PROVE TreeInv'
  BY <1>1, <1>6, <1>7, SettledAlike DEF Resolve
<1>8. CASE AddExperiment(b)
  BY <1>1, <1>6, <1>8, TrialsAlike DEF AddExperiment
<1>9. ASSUME NEW k \in DOMAIN branches[b].trials, NEW outcome \in {"passed", "failed"},
             UpdateExperiment(b, k, outcome)
      PROVE  TreeInv'
  BY <1>1, <1>6, <1>9, TrialsAlike DEF UpdateExperiment
<1>10. CASE CouncilFails(b)
  BY <1>1, <1>6, <1>10, StatusAlike DEF CouncilFails
<1>11. CASE CouncilReopened(b)
  BY <1>1, <1>6, <1>11, StatusAlike DEF CouncilReopened
<1>12. CASE Accept(b)
  BY <1>1, <1>6, <1>12, StatusAlike DEF Accept
<1>13. CASE CrossPollinate(b)
  <2>1. obstacles' \in Seq(Nat) /\ UNCHANGED spending
        /\ UNCHANGED <<branches, challenges, memory, torn, unfinished>>
    BY <1>1, <1>13 DEF CrossPollinate
  <2>2. QED
    BY <1>2, <2>1, ResearchKeeps
<1>14. QED
  BY <1>3, <1>4, <1>5, <1>7, <1>8, <1>9, <1>10, <1>11, <1>12, <1>13 DEF Records

LEMMA DisputesTree ==
  ASSUME TreeInv, requests' \in 0..MaxRequests, NEW b \in DOMAIN branches, Disputes(b)
  PROVE  TreeInv'
<1>1. challenges \in Seq(Challenges)
      /\ \A k \in DOMAIN challenges : challenges[k].of \in DOMAIN branches
  BY TreeFacts
<1>2. UNCHANGED spending => Framed
  BY FrameStays DEF spending
<1>3. CASE Challenge(b)
  <2>1. /\ challenges' = Opened(b) /\ UNCHANGED spending
        /\ branches' = Propagated(Disputed(b), Descendants(branches, b), NextChallenge(b))
        /\ UNCHANGED <<obstacles, memory, torn, unfinished>>
    BY <1>3 DEF Challenge
  <2>2. QED
    BY <1>2, <2>1, ChallengeKeeps
<1>4. CASE ChallengeCut(b)
  <2>1. /\ challenges' = Opened(b)
        /\ \E S : branches' = Propagated(Disputed(b), S, NextChallenge(b))
        /\ unfinished' = unfinished \cup {NextChallenge(b)}
        /\ UNCHANGED <<obstacles, memory, torn, budgets, disturbed>> /\ searches' \subseteq searches
    BY <1>4 DEF ChallengeCut
  <2>2. Framed
    BY <2>1, FrameStays
  <2>3. QED
    BY <2>1, <2>2, ChallengeKeeps
<1>5. CASE Revoke(b)
  <2> DEFINE list == [k \in DOMAIN challenges |->
                        [challenges[k] EXCEPT !.open = @ /\ challenges[k].of # b]]
  <2>1. /\ challenges' = list /\ branches' = [branches EXCEPT ![b].item = "retired"]
        /\ UNCHANGED <<obstacles, memory, torn, unfinished>> /\ UNCHANGED spending
    BY <1>5 DEF Revoke
  <2>2. ASSUME NEW k \in DOMAIN challenges
        PROVE  list[k] \in Challenges /\ list[k].of = challenges[k].of
               /\ list[k].among = challenges[k].among
    <3>1. PICK c \in Challenges : c = challenges[k]
      BY <1>1
    <3>2. \A open \in BOOLEAN : [c EXCEPT !.open = open] \in Challenges
      BY DEF Challenges
    <3>3. (c.open /\ c.of # b) \in BOOLEAN
      BY DEF Challenges
    <3>4. list[k] = [c EXCEPT !.open = c.open /\ c.of # b]
      BY <3>1
    <3>5. QED
      BY <3>1, <3>2, <3>3, <3>4 DEF Challenges
  <2>3. DOMAIN list = DOMAIN challenges
    OBVIOUS
  <2>4. list = [k \in 1..Len(challenges) |-> list[k]] /\ Len(challenges) \in Nat
    BY <1>1
  <2> HIDE DEF list
  <2>5. list \in Seq(Challenges)
    <3>1. \A k \in 1..Len(challenges) : list[k] \in Challenges
      BY <1>1, <2>2
    <3>2. list \in [1..Len(challenges) -> Challenges]
      BY <2>4, <3>1
    <3>3. QED
      BY <2>4, <3>2
  <2>6. QED
    BY <1>2, <2>1, <2>2, <2>3, <2>5, ClosedKeeps
<1>6. ASSUME NEW k \in DOMAIN challenges, NEW item \in {"revised", "retired"}, Replace(k, item)
      PROVE  TreeInv'
  <2> DEFINE list == [challenges EXCEPT ![k].open = FALSE]
             of == challenges[k].of
  <2>1. /\ challenges' = list /\ branches' = [branches EXCEPT ![of].item = item]
        /\ UNCHANGED <<obstacles, memory, torn, unfinished>> /\ UNCHANGED spending
    BY <1>6 DEF Replace
  <2>2. of \in DOMAIN branches
    BY <1>1
  <2>3. PICK c \in Challenges : c = challenges[k]
    BY <1>1
  <2> DEFINE closed == [c EXCEPT !.open = FALSE]
  <2>4. closed \in Challenges /\ closed.of = c.of /\ closed.among = c.among
    BY DEF Challenges
  <2>5. list = [challenges EXCEPT ![k] = closed]
    BY <2>3
  <2> HIDE DEF closed, list, of
  <2>6. /\ list \in Seq(Challenges) /\ DOMAIN list = DOMAIN challenges
        /\ \A j \in DOMAIN challenges :
             list[j] = IF j = k THEN closed ELSE challenges[j]
    BY <1>1, <2>4, <2>5
  <2>7. \A j \in DOMAIN challenges :
          list[j].of = challenges[j].of /\ list[j].among = challenges[j].among
    BY <2>3, <2>4, <2>6
  <2>8. QED
    BY <1>2, <2>1, <2>2, <2>6, <2>7, ClosedKeeps
<1>7. QED
  BY <1>3, <1>4, <1>5, <1>6 DEF Disputes

(* Charging and allocating do not change how many budgets there are.        *)
LEMMA SameLength ==
  ASSUME IInv, IInv', DOMAIN budgets' = DOMAIN budgets
  PROVE  Len(budgets') = Len(budgets)
<1>1. budgets \in Seq(Budget) /\ budgets' \in Seq(Budget)
  BY DEF IInv, Honest
<1> DEFINE m == Len(budgets)
           n == Len(budgets')
<1>2. m \in Nat /\ n \in Nat /\ 1..m = 1..n
  BY <1>1
<1> HIDE DEF m, n
<1>3. m = n
  BY <1>2
<1>4. QED
  BY <1>3 DEF m, n

LEMMA SpendingTree ==
  ASSUME TreeInv, IInv, IInv', requests' \in 0..MaxRequests, NEW b \in DOMAIN branches, Spending(b)
  PROVE  TreeInv'
<1>1. /\ obstacles \in Seq(Nat) /\ disturbed \subseteq DOMAIN branches /\ b \in Nat
      /\ Tree(branches) /\ branches[b] \in Branch
  BY TreeFacts, TreeBasics
<1>2. ASSUME NEW x, Spent(b, x) PROVE Len(budgets') = Len(budgets)
  BY <1>2, SameLength DEF Spent
<1>3. ASSUME UNCHANGED research, Framed PROVE TreeInv'
  BY <1>1, <1>3, ResearchKeeps DEF research
<1>4. ASSUME NEW limits, Allocate(b, limits) PROVE TreeInv'
  <2>1. /\ Len(budgets') = Len(budgets) /\ searches' = searches /\ UNCHANGED research
        /\ disturbed' \subseteq disturbed \cup {b}
    BY <1>2, <1>4 DEF Allocate
  <2>2. Framed
    BY <1>1, <2>1 DEF Framed
  <2>3. QED
    BY <1>3, <2>1, <2>2
<1>5. ASSUME NEW cost, Refuse(b, cost) PROVE TreeInv'
  <2>1. Len(budgets') = Len(budgets) /\ searches' = searches /\ UNCHANGED research
        /\ disturbed' = disturbed
    BY <1>2, <1>5 DEF Refuse
  <2>2. Framed
    BY <1>1, <2>1 DEF Framed
  <2>3. QED
    BY <1>3, <2>1, <2>2
<1>6. ASSUME NEW units, ExperimentCut(b, units) PROVE TreeInv'
  <2>1. Len(budgets') = Len(budgets) /\ searches' = {} /\ UNCHANGED research
        /\ disturbed' = disturbed
    BY <1>2, <1>6 DEF ExperimentCut
  <2>2. Framed
    BY <1>1, <2>1 DEF Framed
  <2>3. QED
    BY <1>3, <2>1, <2>2
<1>7. ASSUME NEW units, NEW outcome \in {"planned", "passed", "failed"},
             RunExperiment(b, units, outcome)
      PROVE  TreeInv'
  <2>1. Len(budgets') = Len(budgets) /\ searches' = searches /\ disturbed' = disturbed
        /\ Changed(b, WithTrial(branches[b], outcome))
    BY <1>2, <1>7 DEF RunExperiment
  <2>2. Framed
    BY <1>1, <2>1 DEF Framed
  <2>3. Alike(branches[b], WithTrial(branches[b], outcome))
    BY <1>1, TrialsAlike
  <2>4. QED
    BY <2>1, <2>2, <2>3, OneBranchKeeps
<1>8. ASSUME NEW slot \in Slots, NEW challenge \in BOOLEAN,
             BeginSearch([slot |-> slot, branch |-> b, challenge |-> challenge])
      PROVE  TreeInv'
  <2> DEFINE s == [slot |-> slot, branch |-> b, challenge |-> challenge]
  <2>1. s \in Searches /\ s.branch = b
    BY <1>1 DEF Searches
  <2>2. Len(budgets') = Len(budgets) /\ searches' = searches \cup {s} /\ UNCHANGED research
        /\ disturbed' = disturbed
    BY <1>2, <1>8 DEF BeginSearch
  <2> HIDE DEF s
  <2>3. Framed
    BY <1>1, <2>1, <2>2 DEF Framed
  <2>4. QED
    BY <1>3, <2>2, <2>3
<1>9. QED
  BY <1>4, <1>5, <1>6, <1>7, <1>8 DEF Spending

(* The tree grows, by a request or by a tick.                               *)
LEMMA GrownTree ==
  ASSUME TreeInv, IInv, IInv', requests' \in 0..MaxRequests,
         NEW x, Grown(x), Tree(x), Continues(branches, x),
         \A d \in DOMAIN branches : Originals(x[d]) = Originals(branches[d]),
         \A d \in DOMAIN x \ DOMAIN branches : Originals(x[d]) = {},
         memory \subseteq memory', torn \subseteq torn', memory' \subseteq Id, torn' \subseteq Id,
         Causing(x), searches' \subseteq searches,
         UNCHANGED <<obstacles, challenges, disturbed, unfinished>>
  PROVE  TreeInv'
<1>1. /\ Tree(branches) /\ NegativesReach(branches, unfinished)
      /\ ChallengesReach(branches, challenges, unfinished)
      /\ Len(budgets) = Len(branches) /\ Len(branches) \in Nat
      /\ \A k \in DOMAIN challenges :
           /\ challenges[k].of \in DOMAIN branches
           /\ challenges[k].among \in Nat /\ challenges[k].among <= Len(branches)
  BY TreeFacts
<1>2. branches' = x
  BY DEF Grown
<1>3. \A d \in DOMAIN branches : d \in DOMAIN x
  BY <1>1, AncestorsStay
<1>4. Len(x) \in Nat /\ Len(branches) <= Len(x)
  BY TreeBasics DEF Continues
<1>5. Acted' /\ ForkedOnce'
  BY <1>2, ForksStay
<1>6. NegativesReach(x, unfinished)
  <2>1. \A b \in DOMAIN x : \A k \in Originals(x[b]) :
          b \in DOMAIN branches /\ k \in Originals(branches[b])
    OBVIOUS
  <2>2. unfinished \subseteq unfinished
    OBVIOUS
  <2>3. QED
    BY <1>1, <2>1, <2>2, NegativesStill
<1>7. ChallengesReach(x, challenges, unfinished)
  <2>1. \A k \in DOMAIN challenges :
          challenges[k].among \in Nat /\ challenges[k].among <= Len(branches)
    BY <1>1
  <2>2. QED
    BY <1>1, <2>1, ChallengesStill
<1>8. Len(budgets') = Len(x)
  <2>1. PICK n \in 0..MaxBranches :
          /\ Len(x) = Len(branches) + n
          /\ budgets' = budgets \o [i \in 1..n |-> NewBudget(DefaultLimits)]
    BY DEF Grown
  <2> DEFINE new == [i \in 1..n |-> NewBudget(DefaultLimits)]
  <2>2. n \in Nat
    BY <2>1, AutonomyAssumption
  <2>3. new \in Seq(Budget) /\ Len(new) = n
    BY <2>2, NewBudgetLeft
  <2>4. budgets \in Seq(Budget) /\ budgets' = budgets \o new
    BY <2>1 DEF IInv, Honest
  <2> HIDE DEF new
  <2>5. Len(budgets \o new) = Len(budgets) + Len(new)
    BY <2>3, <2>4, ConcatProperties
  <2>6. QED
    BY <1>1, <2>1, <2>3, <2>4, <2>5
<1>9. \A k \in DOMAIN challenges :
        challenges[k].of \in DOMAIN x /\ challenges[k].among <= Len(x)
  BY <1>1, <1>3, <1>4
<1>10. Grounded'
  BY <1>2, <1>3, <1>8, <1>9 DEF TreeInv, Grounded
<1>11. QED
  BY <1>2, <1>5, <1>6, <1>7, <1>10 DEF TreeInv

LEMMA CreateTree ==
  ASSUME TreeInv, IInv, IInv', requests' \in 0..MaxRequests,
         NEW parent \in 0..Len(branches), CreateBranch(parent)
  PROVE  TreeInv'
<1> DEFINE x == Append(branches, NewBranch(parent, NoId))
<1>1. /\ Grown(x) /\ UNCHANGED <<obstacles, challenges, memory, torn, disturbed, unfinished>>
      /\ searches' \subseteq searches
  BY DEF CreateBranch
<1>2. Tree(branches) /\ memory \subseteq Id /\ torn \subseteq Id
  BY TreeFacts
<1>3. /\ Tree(x) /\ Continues(branches, x)
      /\ \A b \in DOMAIN branches : x[b] = branches[b]
      /\ DOMAIN x = DOMAIN branches \cup {Len(x)} /\ x[Len(x)].cause = NoId
      /\ Originals(x[Len(x)]) = {}
  <2> HIDE DEF x
  <2>1. PICK id \in Id : id = NoId
    BY IdTypes
  <2>2. x = Append(branches, NewBranch(parent, id))
    BY <2>1 DEF x
  <2>3. Tree(x) /\ Continues(branches, x)
    BY <1>2, <2>2, OneMoreBranch
  <2>4. \A b \in DOMAIN branches : x[b] = branches[b]
    BY <1>2, <2>2, OneMoreBranch
  <2>5. DOMAIN x = DOMAIN branches \cup {Len(x)}
    BY <1>2, <2>2, OneMoreBranch
  <2>6. x[Len(x)] = NewBranch(parent, id)
    BY <1>2, <2>2, OneMoreBranch
  <2>7. parent \in Nat
    OBVIOUS
  <2>8. x[Len(x)].cause = id /\ Originals(x[Len(x)]) = {}
    <3>1. \A u : u = NewBranch(parent, id) => u.cause = id /\ Originals(u) = {}
      BY <2>7, NewBranchType
    <3>2. QED
      BY <2>6, <3>1, Zenon
  <2>9. QED
    BY <2>1, <2>3, <2>4, <2>5, <2>8
<1> HIDE DEF x
<1>4. Causing(x) /\ memory' \subseteq Id /\ torn' \subseteq Id
      /\ memory \subseteq memory' /\ torn \subseteq torn'
  BY <1>1, <1>2, <1>3, ZenonT(60) DEF Causing
<1>5. /\ \A d \in DOMAIN branches : Originals(x[d]) = Originals(branches[d])
      /\ \A d \in DOMAIN x \ DOMAIN branches : Originals(x[d]) = {}
  BY <1>3
<1>6. QED
  BY <1>1, <1>3, <1>4, <1>5, GrownTree

LEMMA SchedulingTree ==
  ASSUME TreeInv, IInv, IInv', requests' \in 0..MaxRequests, Scheduling
  PROVE  TreeInv'
<1>1. PICK order \in Orders, policy \in Policies : Tick(order, policy) \/ TickCrashes(order, policy)
  BY DEF Scheduling
<1>2. /\ Tree(branches) /\ memory \subseteq Id /\ torn \subseteq Id /\ obstacles \in Seq(Nat)
      /\ challenges \in Seq(Challenges)
      /\ \A k \in DOMAIN challenges : challenges[k].of \in DOMAIN branches
  BY TreeFacts
<1>3. Listing(branches, order)
  BY DEF Orders, IsInjective, Listing
<1> DEFINE n == Len(challenges)
           whole == Decided(branches, order, obstacles, challenges, memory, policy)
           part == Generated(Sifted(branches, order, Len(order), memory, policy), obstacles,
                             memory, policy)
           first(k) == Sifted(branches, order, k, memory, policy)
<1>4. n \in Nat /\ DOMAIN challenges = 1..n /\ \A k \in 1..n : challenges[k].of \in DOMAIN branches
  BY <1>2
<1>5. /\ \A k \in DOMAIN branches : Going(branches, memory, Id, first(k))
      /\ Going(branches, memory, Id, part) /\ Going(branches, memory, Id, whole)
  <2> HIDE DEF n
  <2>1. QED
    BY <1>2, <1>3, <1>4, TicksGo
<1>6. ASSUME NEW t, Going(branches, memory, Id, t)
      PROVE  /\ Tree(t.tree) /\ Continues(branches, t.tree) /\ t.acted \subseteq Id
             /\ \A d \in DOMAIN branches : Originals(t.tree[d]) = Originals(branches[d])
             /\ \A d \in DOMAIN t.tree \ DOMAIN branches :
                  /\ Originals(t.tree[d]) = {}
                  /\ t.tree[d].cause \in t.acted /\ t.tree[d].cause \notin memory
             /\ \A d, e \in DOMAIN t.tree \ DOMAIN branches :
                  t.tree[d].cause = t.tree[e].cause => d = e
  BY <1>6 DEF Going
<1>7. CASE Tick(order, policy)
  <2>1. /\ Grown(whole.tree) /\ memory' = memory \cup whole.acted
        /\ UNCHANGED <<obstacles, challenges, searches, disturbed, torn, unfinished>>
    BY <1>7 DEF Tick, Remembered
  <2> HIDE DEF whole
  <2>2. Causing(whole.tree)
    BY <1>5, <1>6, <2>1 DEF Causing
  <2> DEFINE x == whole.tree
  <2>3. /\ Tree(x) /\ Continues(branches, x)
        /\ \A d \in DOMAIN branches : Originals(x[d]) = Originals(branches[d])
        /\ \A d \in DOMAIN x \ DOMAIN branches : Originals(x[d]) = {}
        /\ whole.acted \subseteq Id /\ Grown(x) /\ Causing(x)
    BY <1>5, <1>6, <2>1, <2>2
  <2> HIDE DEF x
  <2>4. /\ memory \subseteq memory' /\ torn \subseteq torn' /\ memory' \subseteq Id /\ torn' \subseteq Id
        /\ searches' \subseteq searches /\ UNCHANGED <<obstacles, challenges, disturbed, unfinished>>
    BY <1>2, <2>1, <2>3
  <2>5. QED
    BY <2>3, <2>4, GrownTree
<1>8. CASE TickCrashes(order, policy)
  <2>1. PICK t \in {first(k) : k \in DOMAIN branches} \cup {part, whole} :
          /\ Grown(t.tree) /\ torn' = torn \cup t.acted /\ searches' = {}
          /\ UNCHANGED <<obstacles, challenges, memory, disturbed, unfinished>>
    BY <1>8 DEF TickCrashes
  <2>2. Going(branches, memory, Id, t)
    <3> HIDE DEF first, part, whole
    <3>1. QED
      BY <1>5
  <2>3. Causing(t.tree)
    BY <1>6, <2>1, <2>2 DEF Causing
  <2> DEFINE x == t.tree
  <2>4. /\ Tree(x) /\ Continues(branches, x)
        /\ \A d \in DOMAIN branches : Originals(x[d]) = Originals(branches[d])
        /\ \A d \in DOMAIN x \ DOMAIN branches : Originals(x[d]) = {}
        /\ t.acted \subseteq Id /\ Grown(x) /\ Causing(x)
    BY <1>6, <2>1, <2>2, <2>3
  <2> HIDE DEF x
  <2>5. /\ memory \subseteq memory' /\ torn \subseteq torn' /\ memory' \subseteq Id /\ torn' \subseteq Id
        /\ searches' \subseteq searches /\ UNCHANGED <<obstacles, challenges, disturbed, unfinished>>
    BY <1>2, <2>1, <2>4
  <2>6. QED
    BY <2>4, <2>5, GrownTree
<1>9. QED
  BY <1>1, <1>7, <1>8

LEMMA SearchingTree ==
  ASSUME TreeInv, IInv, IInv', requests' \in 0..MaxRequests, NEW s \in searches, Searching(s)
  PROVE  TreeInv'
<1> DEFINE b == s.branch
<1>1. /\ Tree(branches) /\ b \in DOMAIN branches /\ obstacles \in Seq(Nat)
      /\ disturbed \subseteq DOMAIN branches /\ unfinished \subseteq Id
      /\ Continues(branches, branches) /\ NegativesReach(branches, unfinished)
      /\ Len(budgets) = Len(branches) /\ DOMAIN branches = 1..Len(branches)
  BY TreeFacts, ContinuesItself
<1>2. budgets \in Seq(Budget) /\ budgets[b] \in Budget
  BY <1>1 DEF IInv, Honest
<1>3. CASE SearchFails(s)
  <2>1. UNCHANGED <<budgets, disturbed>> /\ searches' \subseteq searches
        /\ UNCHANGED <<branches, memory, torn, unfinished, challenges, obstacles>>
    BY <1>3 DEF SearchFails, research
  <2>2. Framed
    BY <2>1, FrameStays
  <2>3. QED
    BY <1>1, <2>1, <2>2, ResearchKeeps
<1>4. ASSUME NEW found \in 0..MaxCitations, EndSearch(s, found) PROVE TreeInv'
  <2> DEFINE n == Taken(budgets[b], found)
             x == Ingested(s, n)
  <2>1. n \in Nat
    <3>1. found \in Nat
      BY AutonomyAssumption
    <3> DEFINE y == budgets[b]
    <3>2. y \in Budget
      BY <1>2
    <3> HIDE DEF y
    <3>3. Taken(y, found) \in Nat
      BY <3>1, <3>2, TakenIsLeft
    <3>4. QED
      BY <3>3 DEF y
  <2>2. /\ branches' = x /\ searches' = searches \ {s}
        /\ UNCHANGED <<obstacles, challenges, memory, torn, unfinished, disturbed>>
    BY <1>4 DEF EndSearch
  <2>3. DOMAIN budgets' = DOMAIN budgets
    BY <1>4 DEF EndSearch
  <2> HIDE DEF n, x
  <2>4. Framed
    BY <1>1, <2>2, <2>3, SameLength DEF Framed
  <2>5. /\ Tree(x) /\ Continues(branches, x) /\ Len(x) = Len(branches)
        /\ NegativesReach(x, unfinished)
    BY <1>1, <2>1, Ingesting DEF x
  <2>6. NegativesReach(x, unfinished') /\ unfinished' \subseteq Id
        /\ \A id \in unfinished : id.kind = "challenge" => id \in unfinished'
    BY <1>1, <2>2, <2>5
  <2>7. QED
    BY <2>2, <2>4, <2>5, <2>6, RecordedKeeps
<1>5. ASSUME NEW n \in 0..MaxCitations, IngestionCut(s, n) PROVE TreeInv'
  <2> DEFINE x == Ingested(s, n - 1)
  <2>1. n \in Nat /\ n # 0
    <3>1. n \in 1..Taken(budgets[b], MaxCitations)
      BY <1>5 DEF IngestionCut
    <3>2. n \in Nat
      BY AutonomyAssumption
    <3>3. n # 0
      BY <3>1
    <3>4. QED
      BY <3>2, <3>3
  <2>2. UNCHANGED <<obstacles, challenges, memory, torn, budgets>> /\ searches' = {}
        /\ disturbed' = disturbed \cup {b}
    BY <1>5 DEF IngestionCut
  <2>3. Framed
    BY <1>1, <2>2 DEF Framed
  <2>4. CASE ~s.challenge
    <3>1. UNCHANGED <<branches, unfinished>>
      BY <1>5, <2>4 DEF IngestionCut
    <3>2. QED
      BY <1>1, <2>2, <2>3, <3>1, ResearchKeeps
  <2>5. CASE s.challenge
    <3>1. PICK S : branches' = Propagated(Recording(x, b), S, NextNegative(x, b))
      BY <1>5, <2>5 DEF IngestionCut
    <3>2. unfinished' = unfinished \cup {NextNegative(x, b)}
      BY <1>5, <2>5 DEF IngestionCut
    <3> HIDE DEF x, b
    <3>3. n - 1 \in Nat
      BY <2>1
    <3>4. /\ Tree(x) /\ Continues(branches, x) /\ Len(x) = Len(branches)
          /\ NegativesReach(x, unfinished)
      BY <1>1, <3>3, Ingesting DEF x, b
    <3>5. QED
      BY <1>1, <2>2, <2>3, <3>1, <3>2, <3>4, CounterexampleKeeps
  <2>6. QED
    BY <2>4, <2>5
<1>6. QED
  BY <1>3, <1>4, <1>5 DEF Searching

-----------------------------------------------------------------------------
(* Theorems about the tree *)

LEMMA InitTree == Init => TreeInv
<1> SUFFICES ASSUME Init PROVE TreeInv
  OBVIOUS
<1>1. SeededBranches \in Nat /\ branches = [b \in 1..SeededBranches |-> NewBranch(0, NoId)]
  BY AutonomyAssumption DEF Init
<1>2. ASSUME NEW b \in DOMAIN branches
      PROVE  /\ branches[b] \in Branch /\ branches[b].parent = 0 /\ branches[b].cause = NoId
             /\ DOMAIN branches[b].negatives = {} /\ Originals(branches[b]) = {}
  <2>1. branches[b] = NewBranch(0, NoId) /\ 0 \in Nat /\ NoId \in Id
    BY <1>1, IdTypes
  <2>2. QED
    BY <2>1, NewBranchType
<1>3. branches \in Seq(Branch) /\ Len(branches) = SeededBranches /\ DOMAIN branches = 1..SeededBranches
  BY <1>1, <1>2
<1>4. Tree(branches)
  BY <1>2, <1>3 DEF Tree
<1>5. Len(budgets) = Len(branches)
  BY <1>1, <1>3 DEF Init
<1>6. Grounded
  BY <1>4, <1>5, AutonomyAssumption DEF Init, Grounded
<1>7. Acted /\ ForkedOnce
  BY <1>2 DEF Acted, ForkedOnce
<1>8. NegativesReach(branches, unfinished) /\ ChallengesReach(branches, challenges, unfinished)
  BY <1>2 DEF Init, NegativesReach, ChallengesReach
<1>9. QED
  BY <1>6, <1>7, <1>8 DEF TreeInv

LEMMA StepTree ==
  ASSUME TreeInv, IInv, IInv', [Next]_vars
  PROVE  TreeInv'
<1>1. requests \in 0..MaxRequests /\ MaxRequests \in Nat /\ obstacles \in Seq(Nat)
  BY AutonomyAssumption DEF TreeInv, Grounded
<1>2. CASE Request
  <2>1. requests' \in 0..MaxRequests
    BY <1>1, <1>2 DEF Request
  <2>2. QED
    BY <1>2, <2>1, CreateTree, RecordsTree, DisputesTree, SpendingTree DEF Request
<1>3. ASSUME UNCHANGED requests, NEW s \in searches, Searching(s) PROVE TreeInv'
  BY <1>1, <1>3, SearchingTree
<1>4. CASE UNCHANGED requests /\ Scheduling
  BY <1>1, <1>4, SchedulingTree
<1>5. CASE UNCHANGED requests /\ Restart
  <2>1. UNCHANGED <<budgets, disturbed>> /\ searches' \subseteq searches
        /\ UNCHANGED <<branches, memory, torn, unfinished, challenges, obstacles>>
    BY <1>5 DEF Restart, research
  <2>2. Framed
    BY <1>1, <1>5, <2>1, FrameStays
  <2>3. QED
    BY <1>1, <2>1, <2>2, ResearchKeeps
<1>6. CASE UNCHANGED vars
  <2>1. UNCHANGED <<budgets, disturbed, requests>> /\ searches' \subseteq searches
        /\ UNCHANGED <<branches, memory, torn, unfinished, challenges, obstacles>>
    BY <1>6 DEF vars
  <2>2. Framed
    BY <1>1, <2>1, FrameStays
  <2>3. QED
    BY <1>1, <2>1, <2>2, ResearchKeeps
<1>7. QED
  BY <1>2, <1>3, <1>4, <1>5, <1>6 DEF Next

THEOREM TreeInvariance == Spec => [](IInv /\ TreeInv)
<1>1. Init => IInv /\ TreeInv
  BY Initially, InitTree
<1>2. IInv /\ TreeInv /\ [Next]_vars => (IInv /\ TreeInv)'
  BY StepKeeps, StepTree
<1>3. QED
  BY <1>1, <1>2, PTL DEF Spec

(* Every variable has its type, and every branch its budget.                *)
THEOREM TypeCorrect == Spec => []TypeOK
<1>1. IInv /\ TreeInv => TypeOK
  <2> SUFFICES ASSUME IInv, TreeInv PROVE TypeOK
    OBVIOUS
  <2>1. /\ branches \in Seq(Branch) /\ DOMAIN branches = 1..Len(branches)
        /\ Len(budgets) = Len(branches) /\ requests \in 0..MaxRequests
    BY TreeFacts DEF TreeInv, Grounded, Tree
  <2>2. budgets \in Seq(Budget) /\ cited \in Seq(Nat) /\ Len(cited) = Len(budgets)
    BY DEF IInv, Honest, Paid
  <2>3. budgets \in [DOMAIN branches -> Budget] /\ cited \in [DOMAIN branches -> Nat]
    BY <2>1, <2>2
  <2>4. QED
    BY <2>1, <2>3, TreeFacts DEF TypeOK, IInv, Honest
<1>2. QED
  BY <1>1, TreeInvariance, PTL

(* The scheduler never makes two branches for one cause, over all its ticks,*)
(* in whatever order they list the branches and under whatever policies,    *)
(* except for what a tick cut by a crash has acted on (scheduler.py: tick). *)
THEOREM NeverForkedTwice == Spec => []ForkedOnce
<1>1. TreeInv => ForkedOnce
  BY DEF TreeInv
<1>2. QED
  BY <1>1, TreeInvariance, PTL

(* Negative evidence reaches every branch that was a descendant when it was *)
(* recorded, unless a crash cut its propagation and nobody repeated it      *)
(* (autonomy.py: propagate; service.py: add_negative_evidence).             *)
THEOREM ContradictionAlwaysReaches == Spec => []ContradictionReaches
<1>1. TreeInv => ContradictionReaches
  BY ReachIsReach DEF TreeInv
<1>2. QED
  BY <1>1, TreeInvariance, PTL

=============================================================================
