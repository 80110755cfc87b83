---------------------------- MODULE BenchGateway ----------------------------
(***************************************************************************)
(* The bench gateway of the server: nodes register, their frames are       *)
(* ingested in two atomic blocks around the await of the inference.  The   *)
(* first block reserves the sequence number, the second one either stores  *)
(* the answer or gives the number back.  Everything but the evidence files *)
(* is kept in memory and forgotten when the server restarts.               *)
(*                                                                         *)
(* The module has no next-state relation of its own: EdgeDelivery and      *)
(* LivePlant compose its operations with the two kinds of clients.         *)
(*                                                                         *)
(* Abstracted: the statistics rejected_frames, last_seen_at and status,    *)
(* which no operation reads; a campaign is always active, because no code  *)
(* completes or aborts one.                                                *)
(***************************************************************************)
EXTENDS Naturals, FiniteSets

CONSTANTS
  Nodes,          \* node identifiers
  Assets,         \* assets a node may be registered for
  Campaigns,      \* rig campaigns
  Origins,        \* what the metadata of a frame say of its sender
  Contents,       \* what its samples and its other metadata tell apart
  MaxSequence,    \* bound of the sequence numbers
  None            \* neither an asset, a campaign nor a number

ASSUME GatewayAssumption ==
  /\ MaxSequence \in Nat
  /\ None \notin Assets \cup Campaigns \cup Nat \cup (Nodes \X Assets)

VARIABLES
  registered,     \* the asset each known node is registered for
  campaigns,      \* node and asset of each registered campaign
  last,           \* the last sequence number reserved by each node
  answered,       \* the frames whose hash and analysis are cached
  ingesting,      \* the frames in the await, with the number before them
  received,       \* frames counted for each node
  archive         \* the frames whose evidence files are on disk

gatewayMemory == <<registered, campaigns, last, answered, ingesting, received>>
gatewayVars == <<gatewayMemory, archive>>

Sequences == 0..MaxSequence

Frame == [node: Nodes, asset: Assets, campaign: Campaigns \cup {None},
          sequence: Sequences, origin: Origins, content: Contents]

\* A frame between its reservation and its answer.
Reservation == [frame: Frame, previous: Sequences \cup {None}]

GatewayTypeOK ==
  /\ registered \in [Nodes -> Assets \cup {None}]
  /\ campaigns \in [Campaigns -> (Nodes \X Assets) \cup {None}]
  /\ last \in [Nodes -> Sequences \cup {None}]
  /\ answered \subseteq Frame
  /\ ingesting \subseteq Reservation
  /\ received \in [Nodes -> Nat]
  /\ archive \subseteq Frame

EmptyMemory ==
  /\ registered = [n \in Nodes |-> None]
  /\ campaigns = [c \in Campaigns |-> None]
  /\ last = [n \in Nodes |-> None]
  /\ answered = {}
  /\ ingesting = {}
  /\ received = [n \in Nodes |-> 0]

GatewayInit == EmptyMemory /\ archive = {}

-----------------------------------------------------------------------------
(* Registration *)

\* A node that registers again keeps its counters and its last number.
Register(n, a) ==
  /\ registered' = [registered EXCEPT ![n] = a]
  /\ UNCHANGED <<campaigns, last, answered, ingesting, received, archive>>

CampaignAdmitted(c, n, a) == registered[n] = a /\ campaigns[c] = None

\* The node exists, the asset is the node's, and the campaign is not active.
RegisterCampaign(c, n, a) ==
  /\ CampaignAdmitted(c, n, a)
  /\ campaigns' = [campaigns EXCEPT ![c] = <<n, a>>]
  /\ UNCHANGED <<registered, last, answered, ingesting, received, archive>>

-----------------------------------------------------------------------------
(* The first block of ingest *)

\* The node is known under this asset, and so is the campaign, if there is one.
Known(f) ==
  /\ registered[f.node] = f.asset
  /\ f.campaign # None => campaigns[f.campaign] = <<f.node, f.asset>>

Newer(f) == last[f.node] # None => f.sequence > last[f.node]

\* The latest frame of the node sent again: answered from the cache.
Repeated(f) == last[f.node] = f.sequence /\ f \in answered

\* Every other frame raises, and only statistics change.
Refused(f) == ~Known(f) \/ ~(Newer(f) \/ Repeated(f))

\* The number is reserved, so that concurrent duplicates are refused.
Reserve(f) ==
  /\ Known(f) /\ Newer(f)
  /\ last' = [last EXCEPT ![f.node] = f.sequence]
  /\ received' = [received EXCEPT ![f.node] = @ + 1]
  /\ ingesting' = ingesting \cup {[frame |-> f, previous |-> last[f.node]]}
  /\ UNCHANGED <<registered, campaigns, answered, archive>>

-----------------------------------------------------------------------------
(* The second block of ingest *)

SameKey(f, g) == f.node = g.node /\ f.sequence = g.sequence

\* The inference answers, the evidence files are written, the answer is cached.
Commit(r) ==
  /\ r \in ingesting
  /\ ingesting' = ingesting \ {r}
  /\ archive' = archive \cup {r.frame}
  /\ answered' = {g \in answered : ~SameKey(g, r.frame)} \cup {r.frame}
  /\ UNCHANGED <<registered, campaigns, last, received>>

\* Mutant of NumberAfterFailure: the number stays reserved.
NumberKept(r) == last[r.frame.node]

\* The number before, unless a later frame has been reserved meanwhile.
NumberAfterFailure(r) ==
  IF last[r.frame.node] = r.frame.sequence THEN r.previous ELSE last[r.frame.node]

\* Mutant of CountAfterFailure: the frame stays counted.
CountKept(n) == received[n]

CountAfterFailure(n) == IF received[n] > 0 THEN received[n] - 1 ELSE 0

\* The inference or the writing raises: counter and number are rolled back.
Fail(r) ==
  /\ r \in ingesting
  /\ ingesting' = ingesting \ {r}
  /\ received' = [received EXCEPT ![r.frame.node] = CountAfterFailure(r.frame.node)]
  /\ last' = [last EXCEPT ![r.frame.node] = NumberAfterFailure(r)]
  /\ UNCHANGED <<registered, campaigns, answered, archive>>

\* The process dies: the memory and the requests it was working on are gone.
ForgetMemory ==
  /\ registered' = [n \in Nodes |-> None]
  /\ campaigns' = [c \in Campaigns |-> None]
  /\ last' = [n \in Nodes |-> None]
  /\ answered' = {}
  /\ ingesting' = {}
  /\ received' = [n \in Nodes |-> 0]
  /\ UNCHANGED archive

-----------------------------------------------------------------------------
(* What holds of the gateway whoever its clients are *)

FramesOf(n, S) == {f \in S : f.node = n}

\* The counter of a node is what has been answered plus what is in the await:
\* a failed frame is not counted (gateway.py:157-163, the rollback).
CountsAgree ==
  \A n \in Nodes :
    received[n] = Cardinality(FramesOf(n, answered))
                  + Cardinality({r \in ingesting : r.frame.node = n})

=============================================================================
