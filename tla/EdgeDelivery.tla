---------------------------- MODULE EdgeDelivery ----------------------------
(***************************************************************************)
(* One edge node and the bench gateway: the publisher that reads windows   *)
(* from a sensor, numbers them and sends them, its spool directory and its *)
(* sequence file, and the server that may be slow, fail or restart.  Both  *)
(* processes may die between any two steps.                                *)
(*                                                                         *)
(* A request is handled when it is sent, or lost.  A request delayed in    *)
(* the network meets the gateway in a state that only refuses it or        *)
(* answers it again, so the delay shows nothing that a lost request does   *)
(* not.  An answer may be lost, or come after the client's timeout.        *)
(***************************************************************************)
EXTENDS BenchGateway, SequencesExt

CONSTANTS
  MaxWindows,     \* bound of the windows the sensor delivers
  SpoolSize,      \* --spool-max-files
  FlushLimit,     \* --flush-limit
  Node, Asset,    \* --node-id and --asset-id
  Campaign,       \* the campaign of the manifest
  Origin          \* the source its metadata name

Windows == 1..MaxWindows

ASSUME EdgeAssumption ==
  /\ MaxWindows \in Nat /\ SpoolSize \in Nat \ {0} /\ FlushLimit \in Nat \ {0}
  /\ Contents = Windows /\ MaxSequence >= MaxWindows
  /\ Node \in Nodes /\ Asset \in Assets /\ Campaign \in Campaigns /\ Origin \in Origins
  /\ None \notin Frame

VARIABLES
  manifest,       \* --campaign-manifest was given
  step,           \* where the publisher is
  hand,           \* the frame of this turn of the loop, or None
  sequence,       \* the number of the next frame, in memory
  left,           \* files this flush may still try
  spool,          \* the files of the spool directory, in the order of their names
  marked,         \* the sequence file
  acquired,       \* windows the sensor has delivered
  told            \* what the publisher printed about each window

edgeVars == <<manifest, step, hand, sequence, left, spool, marked, acquired, told>>
vars == <<gatewayVars, edgeVars>>

Steps == {"down", "flush", "unlink", "idle", "send", "mark"}

TypeOK ==
  /\ GatewayTypeOK
  /\ manifest \in BOOLEAN
  /\ step \in Steps
  /\ hand \in Frame \cup {None}
  /\ sequence \in 0..MaxWindows + 1
  /\ left \in 0..FlushLimit
  /\ spool \in Seq(Frame) /\ Len(spool) <= SpoolSize
  /\ marked \in 0..MaxWindows + 1
  /\ acquired \in 0..MaxWindows
  /\ told \in [Windows -> {"nothing", "delivered", "spooled"}]

Init ==
  /\ GatewayInit
  /\ manifest \in BOOLEAN
  /\ step = "down" /\ hand = None /\ sequence = 0 /\ left = 0
  /\ spool = <<>> /\ marked = 0
  /\ acquired = 0 /\ told = [w \in Windows |-> "nothing"]

-----------------------------------------------------------------------------
(* Start of the publisher *)

\* The node registers; a manifest is registered as a campaign, which the server
\* refuses while it is active: the exception ends the process.
Start ==
  /\ step = "down"
  /\ registered' = [registered EXCEPT ![Node] = Asset]
  /\ IF ~manifest
       THEN step' = "flush" /\ left' = FlushLimit /\ UNCHANGED campaigns
       ELSE IF campaigns[Campaign] = None
       THEN /\ campaigns' = [campaigns EXCEPT ![Campaign] = <<Node, Asset>>]
            /\ step' = "flush" /\ left' = FlushLimit
       ELSE UNCHANGED <<campaigns, step, left>>
  /\ UNCHANGED <<last, answered, ingesting, received, archive>>
  /\ UNCHANGED <<manifest, hand, sequence, spool, marked, acquired, told>>

\* Mutant of NextSequence: the queued frames are not looked at.
NextFromFile == marked

\* The number to go on with: the sequence file, or behind the last queued frame.
NextSequence ==
  Max({marked} \cup {spool[i].sequence + 1 : i \in DOMAIN spool})

-----------------------------------------------------------------------------
(* The frame the publisher is sending: the head of the spool, or the one in hand *)

\* Mutant of Sending: the newest file first.
SendingNewest == IF step = "flush" THEN Last(spool) ELSE hand

Sending == IF step = "flush" THEN Head(spool) ELSE hand

CanSend == \/ step = "flush" /\ left > 0 /\ spool # <<>>
           \/ step = "send"

\* A request reaches the server, which reserves its number.  A refusal or an
\* answer changes nothing at the server.
Send ==
  /\ CanSend /\ Reserve(Sending)
  /\ UNCHANGED edgeVars

\* The server has an answer for this frame, of this or of an earlier attempt,
\* and the publisher receives it.
Acknowledged ==
  /\ CanSend /\ Known(Sending) /\ Repeated(Sending)
  /\ IF step = "flush"
       THEN step' = "unlink" /\ UNCHANGED told
       ELSE /\ step' = "mark"
            /\ told' = [told EXCEPT ![hand.content] = "delivered"]
  /\ UNCHANGED <<gatewayVars, manifest, hand, sequence, left, spool, marked, acquired>>

\* Mutant of AfterGivingUp: the frame is taken for refused by contract.
AfterGivingUpDropped == spool

\* The frame goes to the spool, which is empty when one is sent from the hand.
AfterGivingUp == Append(spool, hand)

\* After the last retry: refused, timed out, or the server does not answer.
GiveUpSending ==
  /\ step = "send"
  /\ spool' = AfterGivingUp
  /\ told' = [told EXCEPT ![hand.content] = "spooled"]
  /\ step' = "mark"
  /\ UNCHANGED <<gatewayVars, manifest, hand, sequence, left, marked, acquired>>

-----------------------------------------------------------------------------
(* flush *)

\* Mutant of AfterUnlink: the deletion failed silently.
AfterUnlinkKept == spool

AfterUnlink == Tail(spool)

\* The acknowledged file is deleted.
Unlink ==
  /\ step = "unlink"
  /\ spool' = AfterUnlink
  /\ left' = left - 1
  /\ step' = "flush"
  /\ UNCHANGED <<gatewayVars, manifest, hand, sequence, marked, acquired, told>>

\* What follows a flush: the first number at the start, the mark in the loop.
EndFlush ==
  /\ left' = 0
  /\ IF hand = None
       THEN step' = "idle" /\ sequence' = NextSequence
       ELSE step' = "mark" /\ UNCHANGED sequence
  /\ UNCHANGED <<gatewayVars, manifest, hand, spool, marked, acquired, told>>

FlushDone == step = "flush" /\ (left = 0 \/ spool = <<>>) /\ EndFlush

\* The first file that fails ends the flush: later ones must not overtake it.
FlushStops == step = "flush" /\ left > 0 /\ spool # <<>> /\ EndFlush

-----------------------------------------------------------------------------
(* The loop *)

FrameOf(w) == [node |-> Node, asset |-> Asset,
               campaign |-> IF manifest THEN Campaign ELSE None,
               sequence |-> sequence, origin |-> Origin, content |-> w]

\* Mutant of HasRoom: one file more than the limit.
HasRoomForOneMore == Len(spool) <= SpoolSize

HasRoom == Len(spool) < SpoolSize

\* With an empty spool the new window is sent at once.
AcquireToSend ==
  /\ step = "idle" /\ acquired < MaxWindows /\ spool = <<>>
  /\ acquired' = acquired + 1
  /\ hand' = FrameOf(acquired')
  /\ step' = "send"
  /\ UNCHANGED <<gatewayVars, manifest, sequence, left, spool, marked, told>>

\* Otherwise it is queued behind the others, and the spool is flushed.
AcquireToQueue ==
  /\ step = "idle" /\ acquired < MaxWindows /\ spool # <<>> /\ HasRoom
  /\ acquired' = acquired + 1
  /\ hand' = FrameOf(acquired')
  /\ spool' = Append(spool, hand')
  /\ told' = [told EXCEPT ![acquired'] = "spooled"]
  /\ step' = "flush" /\ left' = FlushLimit
  /\ UNCHANGED <<gatewayVars, manifest, sequence, marked>>

\* What a dead process leaves of itself.
Dead == step' = "down" /\ hand' = None /\ sequence' = 0 /\ left' = 0

\* enqueue refuses a full spool and the exception ends the process: this window
\* is dropped, its number was not used.
AcquireFull ==
  /\ step = "idle" /\ acquired < MaxWindows /\ ~HasRoom
  /\ acquired' = acquired + 1
  /\ Dead
  /\ UNCHANGED <<gatewayVars, manifest, spool, marked, told>>

\* The next number is saved after the frame has been sent or queued.
Mark ==
  /\ step = "mark"
  /\ sequence' = sequence + 1
  /\ marked' = sequence + 1
  /\ hand' = None
  /\ step' = "idle"
  /\ UNCHANGED <<gatewayVars, manifest, left, spool, acquired, told>>

\* The windows are used up, and the command returns.
Finish ==
  /\ step = "idle" /\ acquired = MaxWindows
  /\ Dead
  /\ UNCHANGED <<gatewayVars, manifest, spool, marked, acquired, told>>

-----------------------------------------------------------------------------
(* The server works on a request; either process dies *)

Infer == (\E r \in ingesting : Commit(r)) /\ UNCHANGED edgeVars

InferFails == (\E r \in ingesting : Fail(r)) /\ UNCHANGED edgeVars

ServerRestart == ForgetMemory /\ UNCHANGED edgeVars

EdgeCrash ==
  /\ step # "down"
  /\ Dead
  /\ UNCHANGED <<gatewayVars, manifest, spool, marked, acquired, told>>

Publisher ==
  \/ Start \/ Send \/ Acknowledged \/ GiveUpSending
  \/ Unlink \/ FlushDone \/ FlushStops
  \/ AcquireToSend \/ AcquireToQueue \/ AcquireFull \/ Mark \/ Finish

Next == Publisher \/ Infer \/ InferFails \/ ServerRestart \/ EdgeCrash

Spec == Init /\ [][Next]_vars

\* The publisher goes on, and a person or a service manager starts it again.  An
\* inference that is tried again and again succeeds once, before the client's
\* timeout, and its answer arrives.
FairSpec ==
  /\ Spec
  /\ WF_vars(Publisher)
  /\ SF_vars(Send) /\ SF_vars(Infer) /\ SF_vars(Acknowledged)

-----------------------------------------------------------------------------
(* Properties *)

Queued == {spool[i] : i \in DOMAIN spool}

\* What an operator is told is true: a delivered window is archived, a spooled
\* one is archived or still in the spool, after any crash of either side
\* (spool.py:24-27, "an outage does not silently discard evidence").
ToldTruth ==
  \A w \in Windows :
    /\ told[w] = "delivered" => \E f \in archive : f.content = w
    /\ told[w] = "spooled" => \E f \in archive \cup Queued : f.content = w

\* The order of the file names is the order of the windows, through crashes that
\* forget the number in memory, and the next number is behind all of them
\* (spool.py:39-53, 73-74).
SpoolOrdered ==
  /\ \A i, j \in DOMAIN spool :
       i < j => /\ spool[i].sequence < spool[j].sequence
                /\ spool[i].content < spool[j].content
  /\ step = "idle" => \A f \in Queued : f.sequence < sequence

\* A queued frame that the gateway, knowing its node and campaign, refuses for
\* good has lost its number to another window of this publisher, which has the
\* node to itself (gateway.py:112-127 against cli.py:106-109).
BlockedOnlyByReuse ==
  \A f \in Queued :
    Known(f) /\ Refused(f) /\ ingesting = {} =>
      \E g \in archive : g.sequence = f.sequence /\ g.content # f.content

\* One sequence number, one window ("The next sequence number is persisted
\* across edge-process restarts.", docs/real-bench-integration.md:67).
NumberUsedOnce ==
  \A f, g \in archive \cup Queued : f.sequence = g.sequence => f.content = g.content

\* The gateway knows node and campaign of the first file and refuses it for good,
\* which by BlockedOnlyByReuse is a number used twice.
Blocked == /\ spool # <<>> /\ ingesting = {}
           /\ Known(Head(spool)) /\ Refused(Head(spool))

\* A restarted publisher whose manifest is still active at the server.
CampaignHeld == step = "down" /\ manifest /\ campaigns[Campaign] # None

\* When neither side dies any more, the spool is emptied again and again, or its
\* head is blocked, or the publisher is kept out by its own campaign
\* (spool.py:83-111, cli.py:88).
SpoolDrains ==
  <>[][~ServerRestart /\ (EdgeCrash => Finish)]_vars => []<>(spool = <<>> \/ Blocked \/ CampaignHeld)

\* What Delivery calls the stage of a window.
StageOf(w) ==
  IF \E f \in archive : f.content = w THEN "archived"
  ELSE IF \E f \in Queued : f.content = w THEN "spooled"
  ELSE IF hand # None /\ hand.content = w THEN "held"
  ELSE IF w <= acquired THEN "dropped"
  ELSE "ahead"

Abstract == INSTANCE Delivery WITH window <- [w \in Windows |-> StageOf(w)]

\* Publisher and gateway implement Delivery: taken in order, never out of the
\* spool but into the archive, archived in order.
ImplementsDelivery == Abstract!Spec

=============================================================================
