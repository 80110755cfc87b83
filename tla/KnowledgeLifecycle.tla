--------------------------- MODULE KnowledgeLifecycle ---------------------------
(***************************************************************************)
(* What the saved record of accepted knowledge promises its readers: each  *)
(* version moves through its lifecycle, a replaced version and its         *)
(* successor appear together, and nothing else happens to it unless the    *)
(* record itself is lost.  It does not mention handlers, challenges,       *)
(* memory or crashes; KnowledgeEvolution implements it.                    *)
(***************************************************************************)
CONSTANT Version

VARIABLES
  state,     \* the lifecycle state of each version, "none" if there is none
  successor  \* the version that replaced it, or itself

vars == <<state, successor>>

Live == {"accepted", "challenged", "revised"}

Init == /\ state = [v \in Version |-> "none"]
        /\ successor = [v \in Version |-> v]

Accept(v) ==
  /\ state[v] = "none"
  /\ state' = [state EXCEPT ![v] = "accepted"]
  /\ UNCHANGED successor

Dispute(v) ==
  /\ state[v] \in Live
  /\ state' = [state EXCEPT ![v] = "challenged"]
  /\ UNCHANGED successor

Revoke(v) ==
  /\ state[v] \in Live
  /\ state' = [state EXCEPT ![v] = "revoked"]
  /\ UNCHANGED successor

(* Version v is revised or superseded by the new version w.                *)
Replace(v, w, final) ==
  /\ state[v] = "challenged" /\ state[w] = "none"
  /\ state' = [state EXCEPT ![v] = final, ![w] = "accepted"]
  /\ successor' = [successor EXCEPT ![v] = w]

(* The record is lost; what is known from elsewhere is accepted anew.      *)
Forget ==
  /\ state' \in [Version -> {"none", "accepted"}]
  /\ successor' = [v \in Version |-> v]

Next ==
  \/ \E v \in Version : Accept(v) \/ Dispute(v) \/ Revoke(v)
  \/ \E v, w \in Version, final \in {"revised", "superseded"} : Replace(v, w, final)
  \/ Forget

Spec == Init /\ [][Next]_vars
=============================================================================
