------------------------- MODULE MCResearchAutonomy -------------------------
(***************************************************************************)
(* A small instance of ResearchAutonomy: one seeded branch, a budget of    *)
(* two queries and one of everything else, two searches in flight.         *)
(***************************************************************************)
EXTENDS ResearchAutonomy, LineageScore, TLC

MCDefaultLimits == [Some("queries", 2) EXCEPT !["runs"] = 1, !["citations"] = 1, !["compute"] = 1]

\* No query any more, or more of everything.
MCOtherLimits == {[MCDefaultLimits EXCEPT !["queries"] = 0], [r \in Resources |-> 3]}

MCPolicies == {[live |-> 2, children |-> 4], [live |-> 4, children |-> 1]}

\* Two branches in any state, one below the other or not.
SampleTrees ==
  {<<[NewBranch(0, NoId) EXCEPT !.status = status, !.trials = trials, !.negatives = negatives],
     NewBranch(parent, NoId)>> :
     status \in {"active", "verified", "archived"}, parent \in 0..1,
     trials \in {<<>>, <<"passed">>, <<"failed", "passed", "passed", "planned">>},
     negatives \in {<<>>} \cup {<<[source |-> NoId, resolved |-> r, among |-> 1]>> : r \in BOOLEAN}}

SampleBudgets ==
  {[NewBudget(MCDefaultLimits) EXCEPT !.spent["queries"] = n, !.limits["runs"] = limit] :
     n \in 0..3, limit \in 0..1}

\* Whatever was spent and however the limits were lowered, scores are between 0
\* and 100 points (autonomy.py:304-373).
ASSUME LineageChecked ==
  \A tree \in SampleTrees, budget \in SampleBudgets, evidence \in {0, 2, 9} :
    LET scores == LineageScores(tree, <<evidence, 0>>, <<budget, budget>>)
        depths == {Depth(tree, b) : b \in DOMAIN tree}
    IN /\ \A b \in DOMAIN tree : scores[b] \in 0..300000
       /\ depths = 0..Cardinality(Descendants(tree, 1))

Broker == INSTANCE LiteratureSearch
  WITH External <- TRUE, WebConfigured <- TRUE, DefaultResults <- 8, Failed <- <<"failed">>

SampleAnswers ==
  [{"controlled-knowledge", "openalex", "crossref", "searxng"} ->
     {<<>>, <<"a">>, <<"b", "a", "b">>, <<"failed">>}]

\* A search returns as many different citations as it may: all it found, or as
\* many as were asked for (search.py:34-81, 185-194).
ASSUME SearchChecked ==
  \A scope \in Broker!Scopes, wanted \in 0..2, answers \in SampleAnswers :
    LET all == {Broker!Joined(scope, answers)[i] : i \in DOMAIN Broker!Joined(scope, answers)}
        size == Cardinality(Broker!Search(scope, wanted, answers))
    IN size = IF Cardinality(all) <= Broker!Limit(wanted) THEN Cardinality(all)
              ELSE Broker!Limit(wanted)

Symmetric == Permutations(Slots)

=============================================================================
