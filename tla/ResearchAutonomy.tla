-------------------------- MODULE ResearchAutonomy --------------------------
(***************************************************************************)
(* Research autonomy: branches with their budgets, automatic experiments,  *)
(* literature searches, the propagation of negative evidence, and the      *)
(* scheduler that forks and archives branches.                             *)
(*                                                                         *)
(* The handlers run on one event loop and only a literature search waits   *)
(* in the middle, so the other handlers are single steps, and searches     *)
(* interleave with them.  A handler saves several files and records one    *)
(* after the other; a crash between two saves is a step of its own.        *)
(* A reload of what was saved changes nothing else.                        *)
(*                                                                         *)
(* The gate and the councils are seen by their outcome; ResearchGate and   *)
(* Council model them.  Adding evidence only changes the order in which    *)
(* branches are listed, which a tick leaves open.                          *)
(***************************************************************************)
EXTENDS BranchBudget, Scheduler, Functions

CONSTANTS
  Slots,          \* a literature search in flight occupies a slot
  SeededBranches, \* number of branches of the demo
  DefaultLimits,  \* limits of a new budget
  OtherLimits,    \* limits an allocation may set
  Policies,       \* policies a tick may be asked for
  ComputeUnits,   \* compute units an experiment may cost
  MaxCitations,   \* bound: citations found by one search
  MaxBranches,    \* bound: branches
  MaxRequests     \* bound: requests, other than for a tick

ASSUME AutonomyAssumption ==
  /\ SeededBranches \in Nat
  /\ DefaultLimits \in Amounts /\ \A r \in Resources : DefaultLimits[r] > 0
  /\ OtherLimits \subseteq Amounts
  /\ Policies \subseteq Policy
  /\ ComputeUnits \subseteq Nat
  /\ {MaxCitations, MaxBranches, MaxRequests} \subseteq Nat

VARIABLES
  branches,   \* research-state.json: the branches, in the order of creation
  obstacles,  \* research-state.json: the branches of the unresolved obstacles
  challenges, \* knowledge-evolution.json: challenges of accepted knowledge
  memory,     \* scheduler-state.json: what the saved ticks have acted on
  budgets,    \* autonomy-state.json: the budget of each branch
  searches,   \* literature searches in flight
  cited,      \* history: citations ingested by each branch
  disturbed,  \* history: branches whose budget was allocated during a search, or
              \* whose ingestion was cut by a crash
  torn,       \* history: what ticks cut by a crash have acted on
  unfinished, \* history: whose propagation a crash has cut
  requests    \* bound: how many requests there were, other than for a tick

vars == <<branches, obstacles, challenges, memory, budgets, searches, cited, disturbed, torn,
          unfinished, requests>>

research == <<branches, obstacles, challenges, memory, torn, unfinished>>

spending == <<budgets, searches, cited, disturbed>>

Challenges == [of: Nat, open: BOOLEAN, among: Nat]

Searches == [slot: Slots, branch: Nat, challenge: BOOLEAN]

Init ==
  /\ branches = [b \in 1..SeededBranches |-> NewBranch(0, NoId)]
  /\ obstacles = <<>> /\ challenges = <<>>
  /\ memory = {} /\ torn = {} /\ unfinished = {}
  /\ budgets = [b \in 1..SeededBranches |-> NewBudget(DefaultLimits)]
  /\ searches = {} /\ cited = [b \in 1..SeededBranches |-> 0] /\ disturbed = {}
  /\ requests = 0

-----------------------------------------------------------------------------
(* Branches and their records.                                             *)

\* The branches of a tree that are not in the file yet get their budgets.
Grown(tree) ==
  /\ branches' = tree
  /\ \E n \in 0..MaxBranches :
       /\ Len(tree) = Len(branches) + n
       /\ budgets' = budgets \o [i \in 1..n |-> NewBudget(DefaultLimits)]
       /\ cited' = cited \o [i \in 1..n |-> 0]

CreateBranch(parent) ==
  /\ Len(branches) < MaxBranches
  /\ Grown(Append(branches, NewBranch(parent, NoId)))
  /\ UNCHANGED <<obstacles, challenges, memory, searches, disturbed, torn, unfinished>>

Changed(b, x) ==
  /\ branches' = [branches EXCEPT ![b] = x]
  /\ UNCHANGED <<obstacles, challenges, memory, torn, unfinished>>

\* The id of the next negative of a branch.
NextNegative(tree, b) == Named("negative", b, Len(tree[b].negatives) + 1)

Recording(tree, b) == [tree EXCEPT ![b] = WithNegative(@, NoId, Len(tree))]

\* A counterexample is recorded and then inherited by all descendants.
Contradicted(tree, b) ==
  Propagated(Recording(tree, b), Descendants(tree, b), NextNegative(tree, b))

AddCounterexample(b) ==
  /\ branches' = Contradicted(branches, b)
  /\ UNCHANGED <<obstacles, challenges, memory, torn, unfinished>> /\ UNCHANGED spending

\* A record, inherited or not, is propagated by hand to the descendants of now.
Propagate(b, k) ==
  /\ branches' = Propagated(branches, Descendants(branches, b), Named("negative", b, k))
  /\ unfinished' = unfinished \ {Named("negative", b, k)}
  /\ UNCHANGED <<obstacles, challenges, memory, torn>> /\ UNCHANGED spending

Resolve(b, k) == Changed(b, Settled(branches[b], k)) /\ UNCHANGED spending

\* Experiments may also be recorded by hand, and their outcome changed.
AddExperiment(b) == Changed(b, WithTrial(branches[b], "planned")) /\ UNCHANGED spending

UpdateExperiment(b, k, outcome) ==
  /\ Changed(b, Touched([branches[b] EXCEPT !.trials[k] = outcome]))
  /\ UNCHANGED spending

CouncilFails(b) ==
  /\ Changed(b, [branches[b] EXCEPT !.failed = TRUE, !.councils = @ + 1])
  /\ UNCHANGED spending

\* A session is opened after the failed one.
CouncilReopened(b) ==
  /\ branches[b].failed
  /\ Changed(b, [branches[b] EXCEPT !.failed = FALSE])
  /\ UNCHANGED spending

\* What the gate asks for beyond this can be met at any time.
Accept(b) ==
  /\ branches[b].item = "none" /\ ~branches[b].failed /\ Unresolved(branches[b]) = {}
  /\ Changed(b, [branches[b] EXCEPT !.item = "accepted", !.status = "verified"])
  /\ UNCHANGED spending

CrossPollinate(b) ==
  /\ obstacles' = Append(obstacles, b)
  /\ UNCHANGED <<branches, challenges, memory, torn, unfinished>> /\ UNCHANGED spending

-----------------------------------------------------------------------------
(* Challenges of accepted knowledge.                                       *)

Challengeable(b) == branches[b].item \notin {"none", "retired"}

NextChallenge(b) == Named("challenge", b, Len(challenges) + 1)

Opened(b) == Append(challenges, [of |-> b, open |-> TRUE, among |-> Len(branches)])

Disputed(b) == [branches EXCEPT ![b].item = "challenged"]

Challenge(b) ==
  /\ Challengeable(b)
  /\ challenges' = Opened(b)
  /\ branches' = Propagated(Disputed(b), Descendants(branches, b), NextChallenge(b))
  /\ UNCHANGED <<obstacles, memory, torn, unfinished>> /\ UNCHANGED spending

\* The item is revised or superseded on account of challenge k.
Replace(k, item) ==
  /\ challenges[k].open /\ branches[challenges[k].of].item = "challenged"
  /\ challenges' = [challenges EXCEPT ![k].open = FALSE]
  /\ branches' = [branches EXCEPT ![challenges[k].of].item = item]
  /\ UNCHANGED <<obstacles, memory, torn, unfinished>> /\ UNCHANGED spending

Revoke(b) ==
  /\ Challengeable(b)
  /\ challenges' = [k \in DOMAIN challenges |->
                      [challenges[k] EXCEPT !.open = @ /\ challenges[k].of # b]]
  /\ branches' = [branches EXCEPT ![b].item = "retired"]
  /\ UNCHANGED <<obstacles, memory, torn, unfinished>> /\ UNCHANGED spending

-----------------------------------------------------------------------------
(* The scheduler.                                                          *)

\* Mutant of Remembered: the last tick alone is looked at.
RememberedLast(acted) == acted

\* What the ticks up to one that acted on `acted' have acted on.
Remembered(acted) == memory \cup acted

\* In whatever order the branches are listed.
Orders == {o \in [DOMAIN branches -> DOMAIN branches] : IsInjective(o)}

Tick(order, policy) ==
  LET t == Decided(branches, order, obstacles, challenges, memory, policy)
  IN /\ Len(t.tree) <= MaxBranches
     /\ Grown(t.tree)
     /\ memory' = Remembered(t.acted)
     /\ UNCHANGED <<obstacles, challenges, searches, disturbed, torn, unfinished>>

\* A crash in a tick: what it did so far is saved, what it acted on is not.
TickCrashes(order, policy) ==
  \E t \in {Sifted(branches, order, k, memory, policy) : k \in DOMAIN branches}
           \cup {Generated(Sifted(branches, order, Len(order), memory, policy), obstacles,
                           memory, policy),
                 Decided(branches, order, obstacles, challenges, memory, policy)} :
    /\ t.acted # {} /\ Len(t.tree) <= MaxBranches
    /\ Grown(t.tree)
    /\ torn' = torn \cup t.acted
    /\ searches' = {}
    /\ UNCHANGED <<obstacles, challenges, memory, disturbed, unfinished>>

\* A crash after the record was saved, when some descendants have inherited it.
CounterexampleCut(b) ==
  /\ \E S \in Reachable(branches, b) :
       branches' = Propagated(Recording(branches, b), S, NextNegative(branches, b))
  /\ unfinished' = unfinished \cup {NextNegative(branches, b)}
  /\ searches' = {}
  /\ UNCHANGED <<obstacles, challenges, memory, torn, budgets, cited, disturbed>>

ChallengeCut(b) ==
  /\ Challengeable(b)
  /\ challenges' = Opened(b)
  /\ \E S \in Reachable(branches, b) :
       branches' = Propagated(Disputed(b), S, NextChallenge(b))
  /\ unfinished' = unfinished \cup {NextChallenge(b)}
  /\ searches' = {}
  /\ UNCHANGED <<obstacles, memory, torn, budgets, cited, disturbed>>

-----------------------------------------------------------------------------
(* Budgets, experiments and literature.                                    *)

Spent(b, budget) == budgets' = [budgets EXCEPT ![b] = budget]

Allocate(b, limits) ==
  /\ Spent(b, Allocated(budgets[b], limits))
  /\ disturbed' = IF \E s \in searches : s.branch = b THEN disturbed \cup {b} ELSE disturbed
  /\ UNCHANGED <<searches, cited>> /\ UNCHANGED research

\* A charge that is refused: a 409 for the caller.
Refuse(b, cost) ==
  /\ ~Affordable(budgets[b], cost)
  /\ Spent(b, Overdrawn(budgets[b]))
  /\ UNCHANGED <<searches, cited, disturbed>> /\ UNCHANGED research

ExperimentCost(units) == [Some("runs", 1) EXCEPT !["compute"] = units]

\* Charged first, then recorded, then carried out; one that raises in the middle
\* stays planned.
RunExperiment(b, units, outcome) ==
  /\ Affordable(budgets[b], ExperimentCost(units))
  /\ Spent(b, Charged(budgets[b], ExperimentCost(units)))
  /\ Changed(b, WithTrial(branches[b], outcome))
  /\ UNCHANGED <<searches, cited, disturbed>>

\* A crash between the charge and the record.
ExperimentCut(b, units) ==
  /\ Affordable(budgets[b], ExperimentCost(units))
  /\ Spent(b, Charged(budgets[b], ExperimentCost(units)))
  /\ searches' = {}
  /\ UNCHANGED <<cited, disturbed>> /\ UNCHANGED research

BeginSearch(s) ==
  /\ \A other \in searches : other.slot # s.slot
  /\ Affordable(budgets[s.branch], Some("queries", 1))
  /\ Spent(s.branch, Charged(budgets[s.branch], Some("queries", 1)))
  /\ searches' = searches \cup {s}
  /\ UNCHANGED <<cited, disturbed>> /\ UNCHANGED research

\* The query stays charged.
SearchFails(s) ==
  /\ searches' = searches \ {s}
  /\ UNCHANGED <<budgets, cited, disturbed>> /\ UNCHANGED research

\* Mutant of Taken: all that was found.
TakenAll(budget, found) == found

\* As much of what was found as the budget has left after the search.
Taken(budget, found) ==
  LET left == budget.limits["citations"] - budget.spent["citations"]
  IN IF left <= 0 THEN 0 ELSE IF found <= left THEN found ELSE left

\* n citations are ingested, one after the other.
Ingested(s, n) ==
  IF s.challenge
    THEN LET after[i \in 0..n] ==
               IF i = 0 THEN branches ELSE Contradicted(after[i - 1], s.branch)
         IN after[n]
    ELSE branches

\* The charge for the citations comes last and may be refused because another
\* limit has been lowered meanwhile; the citations stay.
EndSearch(s, found) ==
  LET n == Taken(budgets[s.branch], found)
      cost == Some("citations", n)
      fits == Affordable(budgets[s.branch], cost)
  IN /\ branches' = Ingested(s, n)
     /\ budgets' = IF n = 0 THEN budgets
                   ELSE [budgets EXCEPT ![s.branch] =
                           IF fits THEN Charged(@, cost) ELSE Overdrawn(@)]
     /\ cited' = [cited EXCEPT ![s.branch] = @ + n]
     /\ searches' = searches \ {s}
     /\ UNCHANGED <<obstacles, challenges, memory, torn, unfinished, disturbed>>

\* A crash when the n-th citation has been recorded, and inherited by some
\* descendants if it is a challenge, and none is charged.
IngestionCut(s, n) ==
  LET b == s.branch
      before == Ingested(s, n - 1)
  IN /\ n \in 1..Taken(budgets[b], MaxCitations)
     /\ IF s.challenge
          THEN /\ \E S \in Reachable(before, b) :
                    branches' = Propagated(Recording(before, b), S, NextNegative(before, b))
               /\ unfinished' = unfinished \cup {NextNegative(before, b)}
          ELSE UNCHANGED <<branches, unfinished>>
     /\ cited' = [cited EXCEPT ![b] = @ + n]
     /\ disturbed' = disturbed \cup {b}
     /\ searches' = {}
     /\ UNCHANGED <<obstacles, challenges, memory, torn, budgets>>

\* A crash in between handlers: the searches in flight are gone.
Restart ==
  /\ searches # {}
  /\ searches' = {}
  /\ UNCHANGED <<budgets, cited, disturbed>> /\ UNCHANGED research

-----------------------------------------------------------------------------

Records(b) ==
  \/ AddCounterexample(b) \/ CounterexampleCut(b)
  \/ \E k \in DOMAIN branches[b].negatives : Propagate(b, k) \/ Resolve(b, k)
  \/ AddExperiment(b)
  \/ \E k \in DOMAIN branches[b].trials, outcome \in {"passed", "failed"} :
       UpdateExperiment(b, k, outcome)
  \/ CouncilFails(b) \/ CouncilReopened(b) \/ Accept(b) \/ CrossPollinate(b)

Disputes(b) ==
  \/ Challenge(b) \/ ChallengeCut(b) \/ Revoke(b)
  \/ \E k \in DOMAIN challenges, item \in {"revised", "retired"} :
       challenges[k].of = b /\ Replace(k, item)

Spending(b) ==
  \/ \E limits \in OtherLimits : Allocate(b, limits)
  \/ \E units \in ComputeUnits :
       \/ Refuse(b, ExperimentCost(units)) \/ ExperimentCut(b, units)
       \/ \E outcome \in {"planned", "passed", "failed"} : RunExperiment(b, units, outcome)
  \/ Refuse(b, Some("queries", 1))
  \/ \E slot \in Slots, challenge \in BOOLEAN :
       BeginSearch([slot |-> slot, branch |-> b, challenge |-> challenge])

Request ==
  /\ requests < MaxRequests
  /\ requests' = requests + 1
  /\ \/ \E parent \in 0..Len(branches) : CreateBranch(parent)
     \/ \E b \in DOMAIN branches : Records(b) \/ Disputes(b) \/ Spending(b)

Searching(s) ==
  \/ SearchFails(s)
  \/ \E found \in 0..MaxCitations : EndSearch(s, found) \/ IngestionCut(s, found)

Scheduling ==
  \E order \in Orders, policy \in Policies : Tick(order, policy) \/ TickCrashes(order, policy)

Next ==
  \/ Request
  \/ UNCHANGED requests /\ (Restart \/ Scheduling \/ \E s \in searches : Searching(s))

Spec == Init /\ [][Next]_vars

-----------------------------------------------------------------------------

\* Every variable has its type, every branch its budget, and a budget that says
\* active has something left of everything.
TypeOK ==
  /\ branches \in Seq(Branch) /\ obstacles \in Seq(Nat) /\ challenges \in Seq(Challenges)
  /\ memory \subseteq Id /\ torn \subseteq Id /\ unfinished \subseteq Id
  /\ budgets \in [DOMAIN branches -> Budget]
  /\ \A b \in DOMAIN budgets, r \in Resources :
       budgets[b].status = "active" => budgets[b].spent[r] < budgets[b].limits[r]
  /\ cited \in [DOMAIN branches -> Nat] /\ disturbed \subseteq DOMAIN branches
  /\ searches \subseteq Searches /\ requests \in 0..MaxRequests

\* Of the first `among' branches, all below b have inherited id.
Reached(b, id, among) ==
  \A d \in 1..among : b \in Ancestors(branches)[d] => Inherits(branches[d], id)

\* Negative evidence reaches every branch that was a descendant when it was
\* recorded, unless a crash cut its propagation and nobody repeated it: whatever
\* forks, ticks, searches and inherited records came before.
ContradictionReaches ==
  /\ \A b \in DOMAIN branches : \A k \in Originals(branches[b]) :
       \/ Named("negative", b, k) \in unfinished
       \/ Reached(b, Named("negative", b, k), branches[b].negatives[k].among)
  /\ \A k \in DOMAIN challenges :
       \/ Named("challenge", challenges[k].of, k) \in unfinished
       \/ Reached(challenges[k].of, Named("challenge", challenges[k].of, k), challenges[k].among)

\* The scheduler makes at most one branch for one cause, over all its ticks,
\* except for what a tick did that never got to save its decisions.
ForkedOnce ==
  \A b, d \in DOMAIN branches :
    b # d /\ branches[b].cause = branches[d].cause /\ branches[b].cause # NoId
      => branches[b].cause \in torn

\* The citations in a branch are those its budget was charged for, however many
\* searches overlap, unless the limits were set during a search or a crash cut an
\* ingestion.
CitationsPaid ==
  \A b \in DOMAIN budgets \ disturbed : cited[b] = budgets[b].spent["citations"]

=============================================================================
