-------------------------- MODULE LiteratureSearch --------------------------
(***************************************************************************)
(* The search broker: which providers a search asks, what becomes of the   *)
(* failure of one, and which of the citations found are returned.          *)
(*                                                                         *)
(* A citation is what its address tells apart: two citations are the same  *)
(* when their addresses are, up to case and a trailing slash.  What a      *)
(* provider makes of a query is data, and the order of the citations is    *)
(* that of their positions.                                                *)
(***************************************************************************)
EXTENDS Naturals, Sequences, FiniteSets

CONSTANTS
  External,       \* external search is allowed
  WebConfigured,  \* a web search engine is configured
  DefaultResults, \* results of a search that names no number
  Failed          \* the answer of a provider that raises or times out

Scopes == {"internal", "academic", "web", "all"}

\* In the order in which their citations are joined.
Providers == <<"controlled-knowledge", "openalex", "crossref", "searxng">>

Academic == {"openalex", "crossref"}

Asked(scope) ==
  {p \in {"controlled-knowledge", "openalex", "crossref", "searxng"} :
     \/ p = "controlled-knowledge" /\ scope \in {"internal", "all"}
     \/ p \in Academic /\ External /\ scope \in {"academic", "all"}
     \/ p = "searxng" /\ External /\ WebConfigured /\ scope \in {"web", "all"}}

\* Zero asks for the default, and no search returns more than twelve.
Limit(wanted) ==
  LET n == IF wanted = 0 THEN DefaultResults ELSE wanted
  IN IF n <= 12 THEN n ELSE 12

\* An academic provider that fails is taken to have found nothing; the failure of
\* the web search ends the search, whatever the others have found.
Raises(scope, answers) == "searxng" \in Asked(scope) /\ answers["searxng"] = Failed

FoundBy(p, scope, answers) ==
  IF p \in Asked(scope) /\ answers[p] # Failed THEN answers[p] ELSE <<>>

Joined(scope, answers) ==
  FoundBy(Providers[1], scope, answers) \o FoundBy(Providers[2], scope, answers)
  \o FoundBy(Providers[3], scope, answers) \o FoundBy(Providers[4], scope, answers)

\* The positions of the citations that were not met before.
Fresh(found) == {i \in DOMAIN found : \A j \in 1..(i - 1) : found[j] # found[i]}

\* The positions of the citations that are returned: the first `limit' fresh ones.
Returned(found, limit) ==
  {i \in Fresh(found) : Cardinality({j \in Fresh(found) : j < i}) < limit}

\* The citations a search returns.
Search(scope, wanted, answers) ==
  LET found == Joined(scope, answers)
  IN {found[i] : i \in Returned(found, Limit(wanted))}

=============================================================================
