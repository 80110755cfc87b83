--------------------------- MODULE DeliveryProofs ---------------------------
(***************************************************************************)
(* Proofs about EdgeDelivery, for any number of windows, any size of the   *)
(* spool, and crashes of both sides whenever they like.                    *)
(*                                                                         *)
(* The publisher and the gateway never speak about the spool.  What keeps  *)
(* them together is Single: while an inference is in progress, nothing the *)
(* publisher can send has a greater number than its frame, so the gateway  *)
(* has at most one reservation and its rollback returns to a number that   *)
(* was answered.  Covered is what is left of the numbers after a crash has *)
(* made the publisher forget some: each of them still belongs to a frame.  *)
(***************************************************************************)
EXTENDS EdgeDelivery, SequenceTheorems, FiniteSetTheorems, WellFoundedInduction, TLAPS

\* Frames of windows that were read, with the number they got then or a smaller one.
Ours ==
  {f \in Frame :
     /\ f.node = Node /\ f.asset = Asset /\ f.origin = Origin
     /\ f.campaign = IF manifest THEN Campaign ELSE None
     /\ f.sequence < f.content /\ f.content <= acquired}

FramesKnown ==
  /\ Queued \subseteq Ours /\ archive \subseteq Ours /\ answered \subseteq archive
  /\ \A r \in ingesting : r.frame \in Ours
  /\ hand # None => hand \in Ours /\ hand.content = acquired /\ hand.sequence = sequence

Counting == step = "idle" \/ hand # None

Numbering ==
  /\ step \in {"down", "idle"} => hand = None
  /\ step \in {"send", "mark"} => hand # None
  /\ marked <= acquired
  /\ Counting => marked <= sequence /\ sequence <= acquired
  /\ step = "send" => spool = <<>>
  /\ step = "unlink" => /\ spool # <<>> /\ left > 0
                        /\ Head(spool) \in archive /\ ingesting = {}
  /\ hand # None => \A f \in Queued : f = hand \/ f.sequence < sequence

Kept ==
  /\ ToldTruth
  /\ hand # None /\ step # "send" => hand \in archive \cup Queued

\* The last number the gateway has reserved.
Reserved == last[Node]

\* Whatever the publisher sends next has no greater number than that.
Waits ==
  /\ spool # <<>> => Head(spool).sequence <= Reserved
  /\ spool = <<>> =>
       /\ step \notin {"unlink", "mark"}
       /\ step \in {"send", "idle"} => sequence <= Reserved
       /\ step \in {"down", "flush"} => hand = None /\ marked <= Reserved

Single ==
  /\ \A r, p \in ingesting : r = p
  /\ \A r \in ingesting :
       /\ Reserved = r.frame.sequence
       /\ r.previous # None => r.previous < r.frame.sequence
       /\ \A g \in answered : r.previous # None /\ g.sequence <= r.previous
       /\ Waits
  /\ ingesting = {} => \A g \in answered : Reserved # None /\ g.sequence <= Reserved

InOrder ==
  \A g \in archive :
    /\ \A r \in ingesting : g.content <= r.frame.content
    /\ \A f \in Queued : g.content <= f.content

QueuedBehind ==
  \A r \in ingesting, f \in Queued : r.frame.content <= f.content

IInv ==
  /\ TypeOK /\ FramesKnown /\ Numbering /\ SpoolOrdered /\ Kept
  /\ Single /\ InOrder /\ QueuedBehind

-----------------------------------------------------------------------------
(* What blocks a spool *)

UsedBelow(n) == \A k \in Nat : k < n => \E g \in archive \cup Queued : g.sequence = k

\* No number is skipped, by the publisher or by what it saved.
Numbered ==
  /\ UsedBelow(marked)
  /\ Counting => UsedBelow(sequence)
  /\ \A f \in Queued : UsedBelow(f.sequence)

\* Nor by the gateway: every number but the one in the await is archived.
Confirmed ==
  Reserved # None =>
    \A k \in Nat : k <= Reserved /\ (\A r \in ingesting : k # r.frame.sequence)
                     => \E g \in archive : g.sequence = k

\* The gateway would answer f again, or does not remember any number.
Repeatable(f) ==
  \/ Reserved = None
  \/ /\ Reserved = f.sequence
     /\ f \in answered \/ \E r \in ingesting : r.frame = f /\ r.previous = None

Answerable ==
  /\ \A f \in Queued : f \in archive => f = Head(spool) /\ Repeatable(f)
  /\ step = "send" /\ hand \in archive => Repeatable(hand)
  /\ \A r \in ingesting : r.frame \in Queued => r.frame = Head(spool)

Covered == Numbered /\ Confirmed /\ Answerable

-----------------------------------------------------------------------------
(* The spool as a sequence *)

Items(s) == {s[i] : i \in DOMAIN s}

InLine(s) ==
  \A i, j \in DOMAIN s :
    i < j => s[i].sequence < s[j].sequence /\ s[i].content < s[j].content

LEMMA SpoolHead ==
  ASSUME NEW T, NEW s \in Seq(T), s # <<>>
  PROVE  /\ Head(s) \in Items(s)
         /\ InLine(s) => \A f \in Items(s) :
              \/ f = Head(s)
              \/ Head(s).sequence < f.sequence /\ Head(s).content < f.content
<1>1. Len(s) \in Nat /\ DOMAIN s = 1..Len(s) /\ Len(s) # 0 /\ 1 \in 1..Len(s)
  BY LenProperties, EmptySeq
<1>2. Head(s) = s[1]
  BY <1>1
<1>3. Head(s) \in Items(s)
  BY <1>1, <1>2 DEF Items
<1>4. ASSUME InLine(s), NEW f \in Items(s)
      PROVE  \/ f = Head(s)
             \/ Head(s).sequence < f.sequence /\ Head(s).content < f.content
  <2>1. PICK i \in DOMAIN s : f = s[i]
    BY DEF Items
  <2>2. i = 1 \/ 1 < i
    BY <1>1, <2>1
  <2>3. QED
    BY <1>1, <1>2, <1>4, <2>1, <2>2 DEF InLine
<1>5. QED
  BY <1>3, <1>4

LEMMA SpoolTail ==
  ASSUME NEW T, NEW s \in Seq(T), s # <<>>
  PROVE  /\ Tail(s) \in Seq(T) /\ Len(Tail(s)) = Len(s) - 1
         /\ Items(s) = {Head(s)} \cup Items(Tail(s))
         /\ InLine(s) => InLine(Tail(s))
<1>1. Len(s) \in Nat /\ DOMAIN s = 1..Len(s) /\ Len(s) # 0
  BY LenProperties, EmptySeq
<1>2. /\ Tail(s) \in Seq(T) /\ Len(Tail(s)) = Len(s) - 1
      /\ \A i \in 1..(Len(s) - 1) : Tail(s)[i] = s[i + 1]
  BY HeadTailProperties
<1>3. DOMAIN Tail(s) = 1..(Len(s) - 1)
  BY <1>2, LenProperties
<1>4. Head(s) = s[1]
  BY <1>1
<1>5. Items(s) \subseteq {Head(s)} \cup Items(Tail(s))
  <2> SUFFICES ASSUME NEW i \in DOMAIN s, i # 1 PROVE s[i] \in Items(Tail(s))
    BY <1>4 DEF Items
  <2>1. i - 1 \in 1..(Len(s) - 1) /\ (i - 1) + 1 = i
    BY <1>1
  <2>2. Tail(s)[i - 1] = s[i]
    BY <1>2, <2>1
  <2>3. QED
    BY <1>3, <2>1, <2>2 DEF Items
<1>6. {Head(s)} \cup Items(Tail(s)) \subseteq Items(s)
  <2>1. ASSUME NEW i \in DOMAIN Tail(s) PROVE Tail(s)[i] \in Items(s)
    <3>1. i + 1 \in DOMAIN s /\ Tail(s)[i] = s[i + 1]
      BY <1>1, <1>2, <1>3
    <3>2. QED
      BY <3>1 DEF Items
  <2>2. 1 \in DOMAIN s
    BY <1>1
  <2>3. QED
    BY <1>4, <2>1, <2>2 DEF Items
<1>7. ASSUME InLine(s) PROVE InLine(Tail(s))
  <2> SUFFICES ASSUME NEW i \in DOMAIN Tail(s), NEW j \in DOMAIN Tail(s), i < j
               PROVE  /\ Tail(s)[i].sequence < Tail(s)[j].sequence
                      /\ Tail(s)[i].content < Tail(s)[j].content
    BY DEF InLine
  <2>1. /\ i + 1 \in DOMAIN s /\ j + 1 \in DOMAIN s /\ i + 1 < j + 1
        /\ Tail(s)[i] = s[i + 1] /\ Tail(s)[j] = s[j + 1]
    BY <1>1, <1>2, <1>3
  <2>2. QED
    BY <1>7, <2>1 DEF InLine
<1>8. QED
  BY <1>2, <1>5, <1>6, <1>7

LEMMA SpoolAppend ==
  ASSUME NEW T, NEW s \in Seq(T), NEW f \in T
  PROVE  /\ Append(s, f) \in Seq(T) /\ Len(Append(s, f)) = Len(s) + 1 /\ Append(s, f) # <<>>
         /\ Items(Append(s, f)) = Items(s) \cup {f}
         /\ Head(Append(s, f)) = IF s = <<>> THEN f ELSE Head(s)
         /\ /\ InLine(s)
            /\ \A g \in Items(s) : g.sequence < f.sequence /\ g.content < f.content
            => InLine(Append(s, f))
<1> DEFINE a == Append(s, f)
           n == Len(s)
<1>1. /\ a \in Seq(T) /\ a # <<>> /\ Len(a) = n + 1
      /\ (\A i \in 1..n : a[i] = s[i]) /\ a[n + 1] = f
  BY AppendProperties
<1>2. n \in Nat /\ DOMAIN s = 1..n /\ DOMAIN a = 1..(n + 1)
  BY <1>1, LenProperties
<1>3. Head(a) = IF s = <<>> THEN f ELSE Head(s)
  BY HeadTailAppend
<1> HIDE DEF a, n
<1>4. \A i \in DOMAIN a : i \in 1..n \/ i = n + 1
  BY <1>2
<1>5. 1..n \subseteq DOMAIN a /\ n + 1 \in DOMAIN a
  BY <1>2
<1>6. Items(a) = Items(s) \cup {f}
  BY <1>1, <1>2, <1>4, <1>5 DEF Items
<1>7. ASSUME InLine(s), \A g \in Items(s) : g.sequence < f.sequence /\ g.content < f.content
      PROVE  InLine(a)
  <2> SUFFICES ASSUME NEW i \in DOMAIN a, NEW j \in DOMAIN a, i < j
               PROVE  a[i].sequence < a[j].sequence /\ a[i].content < a[j].content
    BY DEF InLine
  <2>1. i \in 1..n
    BY <1>2, <1>4
  <2>2. s[i] \in Items(s) /\ a[i] = s[i]
    BY <1>1, <1>2, <2>1 DEF Items
  <2>3. CASE j \in 1..n
    BY <1>1, <1>2, <1>7, <2>1, <2>3 DEF InLine
  <2>4. CASE j = n + 1
    BY <1>1, <1>7, <2>2, <2>4
  <2>5. QED
    BY <1>4, <2>3, <2>4
<1>8. QED
  BY <1>1, <1>3, <1>6, <1>7 DEF a, n

-----------------------------------------------------------------------------
(* Facts about frames *)

LEMMA OursFacts ==
  ASSUME NEW f \in Ours
  PROVE  /\ f \in Frame /\ f.node = Node /\ f.sequence < f.content /\ f.content <= acquired
         /\ f.sequence \in Nat /\ f.content \in Nat /\ f.content \in Windows
<1>1. f \in Frame /\ f.node = Node /\ f.sequence < f.content /\ f.content <= acquired
  BY DEF Ours
<1>2. f.sequence \in Sequences /\ f.content \in Contents
  BY <1>1 DEF Frame
<1>3. QED
  BY <1>1, <1>2, EdgeAssumption, GatewayAssumption DEF Sequences, Windows

LEMMA Numbers ==
  ASSUME TypeOK
  PROVE  /\ MaxWindows \in Nat /\ SpoolSize \in Nat /\ SpoolSize > 0 /\ FlushLimit \in Nat
         /\ sequence \in Nat /\ marked \in Nat /\ acquired \in Nat /\ left \in Nat
         /\ sequence <= MaxWindows + 1 /\ acquired <= MaxWindows /\ left <= FlushLimit
         /\ spool \in Seq(Frame) /\ Len(spool) \in Nat /\ Len(spool) <= SpoolSize
         /\ Node \in Nodes /\ Asset \in Assets /\ Campaign \in Campaigns
BY EdgeAssumption, LenProperties DEF TypeOK

LEMMA QueuedItems == Queued = Items(spool)
BY DEF Queued, Items

\* The first file is queued, and every other one is behind it.
LEMMA HeadFirst ==
  ASSUME IInv, spool # <<>>
  PROVE  /\ Head(spool) \in Queued /\ Head(spool) \in Ours
         /\ \A f \in Queued : \/ f = Head(spool)
                              \/ /\ Head(spool).sequence < f.sequence
                                 /\ Head(spool).content < f.content
<1>1. spool \in Seq(Frame) /\ InLine(spool)
  BY DEF IInv, TypeOK, SpoolOrdered, InLine
<1>2. QED
  BY <1>1, SpoolHead, QueuedItems DEF IInv, FramesKnown

LEMMA EmptySpool ==
  ASSUME spool = <<>>
  PROVE  Queued = {}
<1>1. DOMAIN spool = {}
  OBVIOUS
<1>2. QED
  BY <1>1 DEF Queued

\* The frame being sent is one of this publisher's.
LEMMA SendingOurs ==
  ASSUME IInv, CanSend
  PROVE  /\ Sending \in Ours
         /\ step = "flush" => spool # <<>> /\ Sending = Head(spool)
         /\ step = "send" => hand # None /\ spool = <<>> /\ Sending = hand
<1>1. step = "flush" \/ step = "send"
  BY DEF CanSend
<1>2. CASE step = "flush"
  BY <1>2, HeadFirst DEF CanSend, Sending
<1>3. CASE step = "send"
  BY <1>3 DEF IInv, Numbering, FramesKnown, Sending
<1>4. QED
  BY <1>1, <1>2, <1>3

-----------------------------------------------------------------------------
(* Each action keeps the invariant *)

LEMMA StartKeeps ==
  ASSUME IInv, Start
  PROVE  IInv'
<1> USE DEF Start
<1>1. TypeOK'
  <2>1. /\ registered' \in [Nodes -> Assets \cup {None}]
        /\ campaigns' \in [Campaigns -> (Nodes \X Assets) \cup {None}]
    BY Numbers DEF IInv, TypeOK, GatewayTypeOK
  <2>2. left' \in 0..FlushLimit /\ step' \in Steps
    BY Numbers DEF IInv, TypeOK, Steps
  <2>3. QED
    BY <2>1, <2>2 DEF IInv, TypeOK, GatewayTypeOK
<1>2. FramesKnown'
  BY DEF IInv, FramesKnown, Ours, Queued
<1>3. hand = None /\ hand' = None /\ step' \in {"down", "flush"}
  BY DEF IInv, Numbering
<1>4. Numbering'
  BY <1>3 DEF IInv, Numbering, Counting, Queued
<1>5. SpoolOrdered' /\ Kept'
  BY <1>3 DEF IInv, SpoolOrdered, Kept, ToldTruth, Queued
<1>6. Single'
  BY <1>3 DEF IInv, Single, Waits, Reserved
<1>7. InOrder' /\ QueuedBehind'
  BY DEF IInv, InOrder, QueuedBehind, Queued
<1>8. QED
  BY <1>1, <1>2, <1>4, <1>5, <1>6, <1>7 DEF IInv

LEMMA SendKeeps ==
  ASSUME IInv, Send
  PROVE  IInv'
<1> DEFINE f == Sending
           r == [frame |-> f, previous |-> Reserved]
<1>1. /\ f \in Ours /\ f \in Frame /\ f.node = Node
      /\ f.sequence \in Nat /\ f.content \in Nat /\ f.content <= acquired
      /\ step = "flush" => spool # <<>> /\ f = Head(spool)
      /\ step = "send" => hand # None /\ spool = <<>> /\ f = hand
      /\ step = "flush" \/ step = "send"
  BY SendingOurs, OursFacts DEF Send, CanSend
<1>2. /\ Reserved # None => f.sequence > Reserved
      /\ last' = [last EXCEPT ![Node] = f.sequence]
      /\ received' = [received EXCEPT ![Node] = @ + 1]
      /\ ingesting' = ingesting \cup {r}
      /\ UNCHANGED <<registered, campaigns, answered, archive>>
      /\ UNCHANGED edgeVars
  BY <1>1 DEF Send, Reserve, Newer, Reserved
<1> HIDE DEF f
<1>3. /\ Reserved \in Sequences \cup {None} /\ Reserved' = f.sequence
      /\ f.sequence \in Sequences /\ TypeOK
  <2>1. TypeOK /\ Node \in Nodes /\ last \in [Nodes -> Sequences \cup {None}]
    BY Numbers DEF IInv, TypeOK, GatewayTypeOK
  <2>2. f.sequence \in Sequences
    BY <1>1 DEF Frame
  <2>3. QED
    BY <1>2, <2>1, <2>2 DEF Reserved
<1>4. ingesting = {}
  <2> SUFFICES ASSUME NEW q \in ingesting PROVE FALSE
    OBVIOUS
  <2>1. Reserved = q.frame.sequence /\ q.frame.sequence \in Nat /\ Waits
    BY OursFacts DEF IInv, Single, FramesKnown
  <2>2. Reserved # None /\ f.sequence > Reserved
    BY <2>1, <1>2, GatewayAssumption
  <2>3. f.sequence <= Reserved
    <3>1. CASE step = "flush"
      BY <3>1, <1>1, <2>1 DEF Waits
    <3>2. CASE step = "send"
      BY <3>2, <1>1, <2>1 DEF Waits, IInv, FramesKnown
    <3>3. QED
      BY <1>1, <3>1, <3>2
  <2>4. f.sequence \in Nat /\ Reserved \in Nat
    BY <1>1, <2>1
  <2>5. QED
    BY <2>2, <2>3, <2>4
<1>5. ingesting' = {r} /\ r.frame = f /\ r.previous = Reserved
  BY <1>2, <1>4
<1>6. TypeOK'
  <2>1. r \in Reservation
    BY <1>1, <1>3, Zenon DEF Reservation
  <2>2. last' \in [Nodes -> Sequences \cup {None}]
    BY <1>2, <1>3, Numbers DEF TypeOK, GatewayTypeOK
  <2>3. received' \in [Nodes -> Nat]
    BY <1>2, <1>3, Numbers DEF TypeOK, GatewayTypeOK
  <2>4. QED
    BY <1>2, <1>3, <1>5, <2>1, <2>2, <2>3 DEF TypeOK, GatewayTypeOK, edgeVars
<1>7. FramesKnown'
  BY <1>1, <1>2, <1>5 DEF IInv, FramesKnown, Ours, Queued, edgeVars
<1>8. Numbering'
  BY <1>1, <1>2 DEF IInv, Numbering, Counting, Queued, edgeVars
<1>9. SpoolOrdered' /\ Kept'
  BY <1>2 DEF IInv, SpoolOrdered, Kept, ToldTruth, Queued, edgeVars
<1>10. Waits'
  <2>1. UNCHANGED <<step, spool, hand, sequence, marked>>
    BY <1>2 DEF edgeVars
  <2>2. CASE step = "flush"
    BY <2>1, <2>2, <1>1, <1>3 DEF Waits
  <2>3. CASE step = "send"
    BY <2>1, <2>3, <1>1, <1>3 DEF Waits, IInv, FramesKnown
  <2>4. QED
    BY <1>1, <2>2, <2>3
<1>11. Single'
  <2>1. \A g \in answered : Reserved # None /\ g.sequence <= Reserved
    BY <1>4 DEF IInv, Single
  <2>2. Reserved # None => Reserved < f.sequence
    BY <1>1, <1>2, <1>3, GatewayAssumption DEF Sequences
  <2>3. QED
    BY <1>2, <1>3, <1>5, <1>10, <2>1, <2>2 DEF Single
<1>12. \A g \in archive : g.content <= f.content
  <2>1. CASE step = "flush"
    BY <1>1, <2>1, HeadFirst DEF IInv, InOrder
  <2>2. CASE step = "send"
    BY <1>1, <2>2, OursFacts DEF IInv, FramesKnown
  <2>3. QED
    BY <1>1, <2>1, <2>2
<1>13. \A g \in Queued : f.content <= g.content
  <2>1. CASE step = "flush"
    <3> SUFFICES ASSUME NEW g \in Queued PROVE f.content <= g.content
      OBVIOUS
    <3>1. g.content \in Nat
      BY OursFacts DEF IInv, FramesKnown
    <3>2. g = f \/ f.content < g.content
      BY <1>1, <2>1, HeadFirst
    <3>3. QED
      BY <1>1, <3>1, <3>2
  <2>2. CASE step = "send"
    BY <1>1, <2>2, EmptySpool
  <2>3. QED
    BY <1>1, <2>1, <2>2
<1>14. InOrder' /\ QueuedBehind'
  <2>1. Queued' = Queued /\ archive' = archive
    BY <1>2 DEF Queued, edgeVars
  <2>2. QED
    BY <1>5, <1>12, <1>13, <2>1 DEF IInv, InOrder, QueuedBehind
<1>15. QED
  BY <1>6, <1>7, <1>8, <1>9, <1>11, <1>14 DEF IInv

LEMMA AcknowledgedKeeps ==
  ASSUME IInv, Acknowledged
  PROVE  IInv'
<1> DEFINE f == Sending
<1>1. /\ f \in Ours /\ f.node = Node /\ f.sequence \in Nat
      /\ f.content \in Windows
      /\ step = "flush" => spool # <<>> /\ left > 0 /\ f = Head(spool)
      /\ step = "send" => hand # None /\ spool = <<>> /\ f = hand
      /\ step = "flush" \/ step = "send"
  BY SendingOurs, OursFacts DEF Acknowledged, CanSend
<1>2. /\ Reserved = f.sequence /\ f \in answered
      /\ UNCHANGED <<gatewayVars, manifest, hand, sequence, left, spool, marked, acquired>>
  BY <1>1 DEF Acknowledged, Repeated, Reserved
<1>3. /\ step = "flush" => step' = "unlink" /\ UNCHANGED told
      /\ step = "send" => step' = "mark" /\ told' = [told EXCEPT ![f.content] = "delivered"]
  BY <1>1 DEF Acknowledged
<1> HIDE DEF f
<1>4. UNCHANGED <<registered, campaigns, last, answered, ingesting, received, archive>>
  BY <1>2 DEF gatewayVars, gatewayMemory
<1>5. f \in archive
  BY <1>2 DEF IInv, FramesKnown
<1>6. ingesting = {}
  <2> SUFFICES ASSUME NEW q \in ingesting PROVE FALSE
    OBVIOUS
  <2>1. Reserved = q.frame.sequence /\ f.sequence <= q.previous /\ q.previous # None
    BY <1>2 DEF IInv, Single
  <2>2. q.previous < q.frame.sequence /\ q.previous \in Nat
    BY <2>1 DEF IInv, Single, TypeOK, GatewayTypeOK, Reservation, Sequences
  <2>3. QED
    BY <1>1, <1>2, <2>1, <2>2
<1>7. TypeOK'
  <2>1. told' \in [Windows -> {"nothing", "delivered", "spooled"}]
    BY <1>1, <1>3 DEF IInv, TypeOK
  <2>2. step' \in Steps
    BY <1>1, <1>3 DEF Steps
  <2>3. QED
    BY <1>2, <1>4, <2>1, <2>2 DEF IInv, TypeOK, GatewayTypeOK
<1>8. FramesKnown'
  BY <1>2, <1>4 DEF IInv, FramesKnown, Ours, Queued
<1>9. Numbering'
  <2>1. CASE step = "flush"
    BY <2>1, <1>1, <1>2, <1>3, <1>4, <1>5, <1>6 DEF IInv, Numbering, Counting, Queued
  <2>2. CASE step = "send"
    BY <2>2, <1>1, <1>2, <1>3, <1>4, <1>5, <1>6 DEF IInv, Numbering, Counting, Queued
  <2>3. QED
    BY <1>1, <2>1, <2>2
<1>10. SpoolOrdered'
  BY <1>1, <1>2, <1>3 DEF IInv, SpoolOrdered, Queued
<1>11. Kept'
  <2>1. CASE step = "flush"
    BY <2>1, <1>2, <1>3, <1>4 DEF IInv, Kept, ToldTruth, Queued
  <2>2. CASE step = "send"
    <3>1. ToldTruth'
      <4> SUFFICES ASSUME NEW w \in Windows
                   PROVE  /\ told'[w] = "delivered" => \E g \in archive' : g.content = w
                          /\ told'[w] = "spooled" => \E g \in (archive \cup Queued)' : g.content = w
        BY DEF ToldTruth
      <4>1. Queued' = Queued
        BY <1>2 DEF Queued
      <4>2. w # f.content => told'[w] = told[w]
        BY <1>1, <1>3, <2>2 DEF IInv, TypeOK
      <4>3. w = f.content => told'[w] = "delivered"
        BY <1>1, <1>3, <2>2 DEF IInv, TypeOK
      <4>4. QED
        BY <1>4, <1>5, <4>1, <4>2, <4>3 DEF IInv, Kept, ToldTruth
    <3>2. QED
      BY <2>2, <3>1, <1>1, <1>2, <1>3, <1>4, <1>5 DEF IInv, Kept
  <2>3. QED
    BY <1>1, <2>1, <2>2
<1>12. Single' /\ InOrder' /\ QueuedBehind'
  BY <1>2, <1>4, <1>6 DEF IInv, Single, InOrder, QueuedBehind, Queued, Reserved
<1>13. QED
  BY <1>7, <1>8, <1>9, <1>10, <1>11, <1>12 DEF IInv

LEMMA GiveUpSendingKeeps ==
  ASSUME IInv, GiveUpSending
  PROVE  IInv'
<1>1. /\ step = "send" /\ step' = "mark" /\ spool' = Append(spool, hand)
      /\ told' = [told EXCEPT ![hand.content] = "spooled"]
      /\ UNCHANGED <<manifest, hand, sequence, left, marked, acquired>>
      /\ UNCHANGED <<registered, campaigns, last, answered, ingesting, received, archive>>
  BY DEF GiveUpSending, AfterGivingUp, gatewayVars, gatewayMemory
<1>2. /\ hand # None /\ hand \in Ours /\ hand.content = acquired /\ hand.sequence = sequence
      /\ hand \in Frame /\ hand.content \in Windows /\ spool = <<>> /\ Queued = {}
  BY <1>1, OursFacts, EmptySpool DEF IInv, Numbering, FramesKnown
<1>3. /\ spool' \in Seq(Frame) /\ Len(spool') = 1 /\ spool' # <<>>
      /\ Queued' = {hand} /\ Head(spool') = hand /\ InLine(spool')
  <2>1. spool \in Seq(Frame) /\ Items(spool) = {} /\ Len(spool) = 0 /\ InLine(spool)
    BY <1>2, QueuedItems, EmptySeq DEF IInv, TypeOK, InLine, SpoolOrdered
  <2>2. Items(spool') = {hand} /\ Queued' = Items(spool')
    BY <1>1, <1>2, <2>1, SpoolAppend DEF Queued, Items
  <2>3. \A g \in Items(spool) : g.sequence < hand.sequence /\ g.content < hand.content
    BY <2>1
  <2>4. /\ spool' \in Seq(Frame) /\ Len(spool') = Len(spool) + 1 /\ spool' # <<>>
        /\ Head(spool') = hand
    BY <1>1, <1>2, <2>1, SpoolAppend
  <2>5. InLine(spool')
    BY <1>1, <1>2, <2>1, <2>3, SpoolAppend
  <2>6. QED
    BY <2>1, <2>2, <2>4, <2>5
<1>4. TypeOK'
  <2>1. told' \in [Windows -> {"nothing", "delivered", "spooled"}]
    BY <1>1, <1>2 DEF IInv, TypeOK
  <2>2. Len(spool') <= SpoolSize /\ step' \in Steps
    BY <1>1, <1>3, Numbers DEF Steps, IInv
  <2>3. QED
    BY <1>1, <1>3, <2>1, <2>2 DEF IInv, TypeOK, GatewayTypeOK
<1>5. FramesKnown'
  BY <1>1, <1>2, <1>3 DEF IInv, FramesKnown, Ours
<1>6. Numbering'
  BY <1>1, <1>2, <1>3 DEF IInv, Numbering, Counting
<1>7. SpoolOrdered'
  BY <1>1, <1>3 DEF SpoolOrdered, InLine
<1>8. Kept'
  <2>1. ToldTruth'
    <3> SUFFICES ASSUME NEW w \in Windows
                 PROVE  /\ told'[w] = "delivered" => \E g \in archive' : g.content = w
                        /\ told'[w] = "spooled" => \E g \in (archive \cup Queued)' : g.content = w
      BY DEF ToldTruth
    <3>1. CASE w = hand.content
      BY <3>1, <1>1, <1>2, <1>3 DEF IInv, TypeOK
    <3>2. CASE w # hand.content
      <4>1. told'[w] = told[w]
        BY <3>2, <1>1, <1>2 DEF IInv, TypeOK
      <4>2. QED
        BY <4>1, <1>1, <1>2, <1>3 DEF IInv, Kept, ToldTruth
    <3>3. QED
      BY <3>1, <3>2
  <2>2. QED
    BY <2>1, <1>1, <1>3 DEF Kept
<1>9. Single'
  <2>1. ASSUME Waits PROVE Waits'
    BY <2>1, <1>1, <1>2, <1>3 DEF Waits, Reserved
  <2>2. QED
    BY <2>1, <1>1 DEF IInv, Single, Reserved
<1>10. InOrder' /\ QueuedBehind'
  <2>1. \A g \in archive : g.content <= hand.content
    BY <1>2, OursFacts DEF IInv, FramesKnown
  <2>2. \A r \in ingesting : r.frame.content <= hand.content
    BY <1>2, OursFacts DEF IInv, FramesKnown
  <2>3. QED
    BY <1>1, <1>3, <2>1, <2>2 DEF IInv, InOrder, QueuedBehind
<1>11. QED
  BY <1>4, <1>5, <1>6, <1>7, <1>8, <1>9, <1>10 DEF IInv

LEMMA UnlinkKeeps ==
  ASSUME IInv, Unlink
  PROVE  IInv'
<1>1. /\ step = "unlink" /\ step' = "flush" /\ spool' = Tail(spool) /\ left' = left - 1
      /\ UNCHANGED <<manifest, hand, sequence, marked, acquired, told>>
      /\ UNCHANGED <<registered, campaigns, last, answered, ingesting, received, archive>>
  BY DEF Unlink, AfterUnlink, gatewayVars, gatewayMemory
<1>2. spool # <<>> /\ left > 0 /\ Head(spool) \in archive /\ ingesting = {}
  BY <1>1 DEF IInv, Numbering
<1>3. /\ spool' \in Seq(Frame) /\ Len(spool') = Len(spool) - 1
      /\ Queued = {Head(spool)} \cup Queued' /\ InLine(spool')
  <2>1. spool \in Seq(Frame) /\ InLine(spool) /\ Queued' = Items(spool')
    BY DEF IInv, TypeOK, InLine, SpoolOrdered, Queued, Items
  <2>2. QED
    BY <1>1, <1>2, <2>1, QueuedItems, SpoolTail
<1>4. TypeOK'
  <2>1. left' \in 0..FlushLimit /\ Len(spool') <= SpoolSize
    BY <1>1, <1>2, <1>3, Numbers DEF IInv
  <2>2. QED
    BY <1>1, <1>3, <2>1 DEF IInv, TypeOK, GatewayTypeOK, Steps
<1>5. FramesKnown'
  BY <1>1, <1>3 DEF IInv, FramesKnown, Ours
<1>6. Numbering'
  BY <1>1, <1>3 DEF IInv, Numbering, Counting
<1>7. SpoolOrdered'
  BY <1>1, <1>3 DEF SpoolOrdered, InLine
<1>8. Kept'
  BY <1>1, <1>2, <1>3 DEF IInv, Kept, ToldTruth
<1>9. Single' /\ InOrder' /\ QueuedBehind'
  BY <1>1, <1>2, <1>3 DEF IInv, Single, InOrder, QueuedBehind, Reserved
<1>10. QED
  BY <1>4, <1>5, <1>6, <1>7, <1>8, <1>9 DEF IInv

LEMMA LeastOf ==
  ASSUME NEW T, T \subseteq Nat, T # {}
  PROVE  \E k \in T : \A j \in T : k <= j
<1> DEFINE R == {ss \in Nat \X Nat : ss[1] < ss[2]}
<1>1. R = OpToRel(<, Nat)
  BY DEF OpToRel
<1>2. IsWellFoundedOn(R, Nat)
  BY <1>1, NatLessThanWellFounded
<1> HIDE DEF R
<1>3. PICK k \in T : \A j \in T : ~ (<<j, k>> \in R)
  BY <1>2, WFMin
<1>4. \A j \in T : ~ (j < k)
  BY <1>3 DEF R
<1>5. QED
  BY <1>4

\* A set of numbers with a bound has a greatest one.
LEMMA Greatest ==
  ASSUME NEW S, S \subseteq Nat, S # {}, NEW n \in Nat, \A x \in S : x <= n
  PROVE  Max(S) \in S /\ \A x \in S : x <= Max(S)
<1> DEFINE T == {k \in Nat : \A x \in S : x <= k}
<1>1. T \in SUBSET Nat /\ n \in T
  OBVIOUS
<1>2. PICK k \in T : \A j \in T : k <= j
  BY <1>1, LeastOf
<1>3. k \in Nat /\ \A x \in S : x <= k
  BY <1>2
<1>4. k \in S
  <2> SUFFICES ASSUME k \notin S PROVE FALSE
    OBVIOUS
  <2>1. \A x \in S : x \in Nat /\ x < k
    BY <1>3
  <2> PICK y \in S : TRUE
    OBVIOUS
  <2>2. k # 0 /\ k - 1 \in Nat
    BY <1>3, <2>1
  <2>3. \A x \in S : x <= k - 1
    BY <1>3, <2>1
  <2>4. k - 1 \in T
    BY <2>2, <2>3
  <2>5. k <= k - 1
    BY <1>2, <2>4
  <2>6. QED
    BY <1>3, <2>5
<1>5. \E x \in S : \A y \in S : x >= y
  BY <1>3, <1>4
<1>6. Max(S) \in S /\ \A y \in S : Max(S) >= y
  BY <1>5 DEF Max
<1>7. QED
  BY <1>6

\* The number the publisher goes on with is behind every frame it has queued.
LEMMA NextIsBehind ==
  ASSUME IInv
  PROVE  /\ NextSequence \in Nat /\ marked <= NextSequence /\ NextSequence <= acquired
         /\ \A f \in Queued : f.sequence < NextSequence
         /\ NextSequence = marked \/ \E f \in Queued : NextSequence = f.sequence + 1
<1> DEFINE S == {marked} \cup {spool[i].sequence + 1 : i \in DOMAIN spool}
<1>1. S = {marked} \cup {f.sequence + 1 : f \in Queued}
  BY DEF Queued
<1>2. NextSequence = Max(S)
  BY DEF NextSequence
<1> HIDE DEF S
<1>3. marked \in Nat /\ acquired \in Nat /\ marked <= acquired
  BY Numbers DEF IInv, Numbering
<1>4. \A f \in Queued : f.sequence \in Nat /\ f.sequence + 1 <= acquired
  <2> SUFFICES ASSUME NEW f \in Queued PROVE f.sequence \in Nat /\ f.sequence + 1 <= acquired
    OBVIOUS
  <2>1. f \in Ours
    BY DEF IInv, FramesKnown
  <2>2. /\ f.sequence \in Nat /\ f.content \in Nat
        /\ f.sequence < f.content /\ f.content <= acquired
    BY <2>1, OursFacts
  <2>3. QED
    BY <1>3, <2>2
<1>5. S \subseteq Nat /\ S # {} /\ \A x \in S : x <= acquired
  BY <1>1, <1>3, <1>4
<1>6. NextSequence \in S /\ \A x \in S : x <= NextSequence
  BY <1>2, <1>3, <1>5, Greatest
<1>7. NextSequence \in Nat /\ NextSequence <= acquired /\ marked <= NextSequence
  BY <1>1, <1>5, <1>6
<1>8. \A f \in Queued : f.sequence + 1 <= NextSequence
  BY <1>1, <1>6
<1>9. QED
  BY <1>1, <1>4, <1>6, <1>7, <1>8

LEMMA EndFlushKeeps ==
  ASSUME IInv, step = "flush", EndFlush
  PROVE  IInv'
<1>1. /\ left' = 0
      /\ hand = None => step' = "idle" /\ sequence' = NextSequence
      /\ hand # None => step' = "mark" /\ sequence' = sequence
      /\ UNCHANGED <<manifest, hand, spool, marked, acquired, told>>
      /\ UNCHANGED <<registered, campaigns, last, answered, ingesting, received, archive>>
  BY DEF EndFlush, gatewayVars, gatewayMemory
<1>2. TypeOK'
  <2>1. sequence' \in 0..MaxWindows + 1
    BY <1>1, Numbers, NextIsBehind DEF IInv, TypeOK
  <2>2. left' \in 0..FlushLimit /\ step' \in Steps
    BY <1>1, Numbers DEF IInv, Steps
  <2>3. QED
    BY <1>1, <2>1, <2>2 DEF IInv, TypeOK, GatewayTypeOK
<1>3. FramesKnown'
  BY <1>1 DEF IInv, FramesKnown, Ours, Queued
<1>4. Numbering'
  BY <1>1, NextIsBehind DEF IInv, Numbering, Counting, Queued
<1>5. SpoolOrdered'
  BY <1>1, NextIsBehind DEF IInv, SpoolOrdered, Queued
<1>6. Kept'
  BY <1>1 DEF IInv, Kept, ToldTruth, Queued
<1>7. Single'
  <2>1. ASSUME Waits PROVE Waits'
    <3>1. CASE spool = <<>>
      <4>1. hand = None /\ marked <= Reserved
        BY <3>1, <2>1 DEF Waits
      <4>2. NextSequence = marked
        BY <3>1, EmptySpool, NextIsBehind
      <4>3. QED
        BY <1>1, <3>1, <4>1, <4>2 DEF Waits, Reserved
    <3>2. CASE spool # <<>>
      BY <1>1, <2>1, <3>2 DEF Waits, Reserved
    <3>3. QED
      BY <3>1, <3>2
  <2>2. QED
    BY <1>1, <2>1 DEF IInv, Single, Reserved
<1>8. InOrder' /\ QueuedBehind'
  BY <1>1 DEF IInv, InOrder, QueuedBehind, Queued
<1>9. QED
  BY <1>2, <1>3, <1>4, <1>5, <1>6, <1>7, <1>8 DEF IInv

\* The frame of a window that is read now.
LEMMA NewFrame ==
  ASSUME IInv, step = "idle", acquired < MaxWindows
  PROVE  LET f == FrameOf(acquired + 1) IN
         /\ f \in Frame /\ f # None /\ f.sequence = sequence /\ f.content = acquired + 1
         /\ f.node = Node /\ f.asset = Asset /\ f.origin = Origin
         /\ f.campaign = IF manifest THEN Campaign ELSE None
         /\ f.sequence < f.content
         /\ acquired + 1 \in Windows /\ acquired + 1 \in Nat
<1> DEFINE f == FrameOf(acquired + 1)
<1>1. sequence \in Nat /\ acquired \in Nat /\ sequence <= acquired /\ MaxWindows \in Nat
  BY Numbers DEF IInv, Numbering, Counting
<1>2. acquired + 1 \in Windows /\ acquired + 1 \in Nat /\ acquired + 1 \in Contents
  BY <1>1, EdgeAssumption DEF Windows
<1>3. sequence \in Sequences
  BY <1>1, EdgeAssumption, GatewayAssumption DEF Sequences
<1>4. Node \in Nodes /\ Asset \in Assets /\ Campaign \in Campaigns /\ Origin \in Origins
  BY EdgeAssumption
<1>5. f = [node |-> Node, asset |-> Asset,
           campaign |-> IF manifest THEN Campaign ELSE None,
           sequence |-> sequence, origin |-> Origin, content |-> acquired + 1]
  BY DEF FrameOf
<1> HIDE DEF f
<1>6. f \in Frame
  BY <1>2, <1>3, <1>4, <1>5 DEF Frame
<1>7. /\ f.sequence = sequence /\ f.content = acquired + 1
      /\ f.node = Node /\ f.asset = Asset /\ f.origin = Origin
      /\ f.campaign = IF manifest THEN Campaign ELSE None
  BY <1>5
<1>8. f # None
  BY <1>6, EdgeAssumption
<1>9. QED
  BY <1>1, <1>2, <1>6, <1>7, <1>8 DEF f

LEMMA AcquireToSendKeeps ==
  ASSUME IInv, AcquireToSend
  PROVE  IInv'
<1>1. /\ step = "idle" /\ acquired < MaxWindows /\ spool = <<>> /\ step' = "send"
      /\ acquired' = acquired + 1 /\ hand' = FrameOf(acquired + 1)
      /\ UNCHANGED <<manifest, sequence, left, spool, marked, told>>
      /\ UNCHANGED <<registered, campaigns, last, answered, ingesting, received, archive>>
  BY DEF AcquireToSend, gatewayVars, gatewayMemory
<1>2. /\ hand' \in Frame /\ hand' # None /\ hand'.sequence = sequence
      /\ hand'.content = acquired' /\ acquired' \in Windows /\ acquired' \in Nat
      /\ hand'.node = Node /\ hand'.asset = Asset /\ hand'.origin = Origin
      /\ hand'.campaign = IF manifest THEN Campaign ELSE None
      /\ hand'.sequence < hand'.content
  BY <1>1, NewFrame
<1>3. acquired \in Nat /\ sequence \in Nat /\ sequence <= acquired /\ marked <= sequence
  BY <1>1, Numbers DEF IInv, Numbering, Counting
<1>4. Queued = {} /\ Queued' = {}
  BY <1>1, EmptySpool DEF Queued
<1>5. Ours \subseteq Ours' /\ hand' \in Ours'
  <2>1. Ours \subseteq Ours'
    <3> SUFFICES ASSUME NEW f \in Ours PROVE f \in Ours'
      OBVIOUS
    <3>1. f.content \in Nat /\ f.content <= acquired
      BY OursFacts
    <3>2. f.content <= acquired'
      BY <1>1, <1>3, <3>1
    <3>3. QED
      BY <1>1, <3>2 DEF Ours
  <2>2. hand' \in Ours'
    BY <1>1, <1>2 DEF Ours
  <2>3. QED
    BY <2>1, <2>2
<1>6. TypeOK'
  <2>1. acquired' \in 0..MaxWindows
    BY <1>1, <1>2, Numbers DEF IInv
  <2>2. QED
    BY <1>1, <1>2, <2>1 DEF IInv, TypeOK, GatewayTypeOK, Steps
<1>7. FramesKnown'
  BY <1>1, <1>2, <1>4, <1>5 DEF IInv, FramesKnown
<1>8. Numbering'
  <2>1. marked' <= acquired' /\ sequence' <= acquired' /\ marked' <= sequence'
    BY <1>1, <1>3, Numbers DEF IInv
  <2>2. QED
    BY <1>1, <1>2, <1>4, <2>1 DEF IInv, Numbering, Counting
<1>9. SpoolOrdered'
  BY <1>1 DEF IInv, SpoolOrdered
<1>10. Kept'
  BY <1>1, <1>4 DEF IInv, Kept, ToldTruth
<1>11. Single'
  <2>1. ASSUME Waits PROVE Waits'
    BY <1>1, <2>1 DEF Waits, Reserved
  <2>2. QED
    BY <1>1, <2>1 DEF IInv, Single, Reserved
<1>12. InOrder' /\ QueuedBehind'
  BY <1>1, <1>4 DEF IInv, InOrder, QueuedBehind
<1>13. QED
  BY <1>6, <1>7, <1>8, <1>9, <1>10, <1>11, <1>12 DEF IInv

LEMMA AcquireToQueueKeeps ==
  ASSUME IInv, AcquireToQueue
  PROVE  IInv'
<1>1. /\ step = "idle" /\ acquired < MaxWindows /\ spool # <<>> /\ Len(spool) < SpoolSize
      /\ step' = "flush" /\ left' = FlushLimit
      /\ acquired' = acquired + 1 /\ hand' = FrameOf(acquired + 1)
      /\ spool' = Append(spool, hand') /\ told' = [told EXCEPT ![acquired'] = "spooled"]
      /\ UNCHANGED <<manifest, sequence, marked>>
      /\ UNCHANGED <<registered, campaigns, last, answered, ingesting, received, archive>>
  BY DEF AcquireToQueue, HasRoom, gatewayVars, gatewayMemory
<1>2. /\ hand' \in Frame /\ hand' # None /\ hand'.sequence = sequence
      /\ hand'.content = acquired' /\ acquired' \in Windows /\ acquired' \in Nat
      /\ hand'.node = Node /\ hand'.asset = Asset /\ hand'.origin = Origin
      /\ hand'.campaign = IF manifest THEN Campaign ELSE None
      /\ hand'.sequence < hand'.content
  BY <1>1, NewFrame
<1>3. acquired \in Nat /\ sequence \in Nat /\ sequence <= acquired /\ marked <= sequence
  BY <1>1, Numbers DEF IInv, Numbering, Counting
<1>4. \A f \in Ours : f.content \in Nat /\ f.content <= acquired /\ f.content < acquired'
  <2> SUFFICES ASSUME NEW f \in Ours
               PROVE  f.content \in Nat /\ f.content <= acquired /\ f.content < acquired'
    OBVIOUS
  <2>1. f.content \in Nat /\ f.content <= acquired
    BY OursFacts
  <2>2. QED
    BY <1>1, <1>3, <2>1
<1>5. Ours \subseteq Ours' /\ hand' \in Ours'
  <2>1. \A f \in Ours : f.content <= acquired'
    BY <1>2, <1>4
  <2>2. Ours \subseteq Ours'
    BY <1>1, <2>1 DEF Ours
  <2>3. hand' \in Ours'
    BY <1>1, <1>2 DEF Ours
  <2>4. QED
    BY <2>2, <2>3
<1>6. /\ spool' \in Seq(Frame) /\ Len(spool') = Len(spool) + 1 /\ spool' # <<>>
      /\ Queued' = Queued \cup {hand'} /\ Head(spool') = Head(spool) /\ InLine(spool')
  <2>1. spool \in Seq(Frame) /\ InLine(spool) /\ Queued' = Items(spool')
    BY DEF IInv, TypeOK, InLine, SpoolOrdered, Queued, Items
  <2>2. \A g \in Items(spool) : g.sequence < hand'.sequence /\ g.content < hand'.content
    BY <1>1, <1>2, <1>4, QueuedItems DEF IInv, FramesKnown, SpoolOrdered
  <2>3. /\ spool' \in Seq(Frame) /\ Len(spool') = Len(spool) + 1 /\ spool' # <<>>
        /\ Items(spool') = Items(spool) \cup {hand'} /\ Head(spool') = Head(spool)
    BY <1>1, <1>2, <2>1, SpoolAppend
  <2>4. InLine(spool')
    BY <1>1, <1>2, <2>1, <2>2, SpoolAppend
  <2>5. QED
    BY <2>1, <2>3, <2>4, QueuedItems
<1>7. TypeOK'
  <2>1. acquired' \in 0..MaxWindows /\ left' \in 0..FlushLimit /\ Len(spool') <= SpoolSize
    BY <1>1, <1>2, <1>6, Numbers DEF IInv
  <2>2. told' \in [Windows -> {"nothing", "delivered", "spooled"}]
    BY <1>1, <1>2 DEF IInv, TypeOK
  <2>3. QED
    BY <1>1, <1>2, <1>6, <2>1, <2>2 DEF IInv, TypeOK, GatewayTypeOK, Steps
<1>8. FramesKnown'
  BY <1>1, <1>2, <1>5, <1>6 DEF IInv, FramesKnown
<1>9. Numbering'
  <2>1. marked' <= acquired' /\ sequence' <= acquired' /\ marked' <= sequence'
    BY <1>1, <1>3, Numbers DEF IInv
  <2>2. \A f \in Queued' : f = hand' \/ f.sequence < sequence'
    BY <1>1, <1>6 DEF IInv, SpoolOrdered
  <2>3. QED
    BY <1>1, <1>2, <2>1, <2>2 DEF IInv, Numbering, Counting
<1>10. SpoolOrdered'
  BY <1>1, <1>6 DEF SpoolOrdered, InLine
<1>11. Kept'
  <2>1. ToldTruth'
    <3> SUFFICES ASSUME NEW w \in Windows
                 PROVE  /\ told'[w] = "delivered" => \E g \in archive' : g.content = w
                        /\ told'[w] = "spooled" => \E g \in (archive \cup Queued)' : g.content = w
      BY DEF ToldTruth
    <3>1. CASE w = acquired'
      BY <3>1, <1>1, <1>2, <1>6 DEF IInv, TypeOK
    <3>2. CASE w # acquired'
      <4>1. told'[w] = told[w]
        BY <3>2, <1>1, <1>2 DEF IInv, TypeOK
      <4>2. QED
        BY <4>1, <1>1, <1>6 DEF IInv, Kept, ToldTruth
    <3>3. QED
      BY <3>1, <3>2
  <2>2. QED
    BY <2>1, <1>1, <1>6 DEF Kept
<1>12. Single'
  <2>1. ASSUME Waits PROVE Waits'
    BY <1>1, <1>6, <2>1 DEF Waits, Reserved
  <2>2. QED
    BY <1>1, <2>1 DEF IInv, Single, Reserved
<1>13. InOrder' /\ QueuedBehind'
  <2>1. \A g \in archive : g.content <= hand'.content
    BY <1>2, <1>4 DEF IInv, FramesKnown
  <2>2. \A r \in ingesting : r.frame.content <= hand'.content
    BY <1>2, <1>4 DEF IInv, FramesKnown
  <2>3. QED
    BY <1>1, <1>6, <2>1, <2>2 DEF IInv, InOrder, QueuedBehind
<1>14. QED
  BY <1>7, <1>8, <1>9, <1>10, <1>11, <1>12, <1>13 DEF IInv

\* A process that dies, or ends, at any place: the frame in its hands is in the
\* archive, in the spool, in the await of the server, or lost.
LEMMA DeathKeeps ==
  ASSUME IInv, Dead, UNCHANGED <<gatewayVars, manifest, spool, marked, told>>,
         \/ acquired' = acquired
         \/ /\ step = "idle" /\ spool # <<>>
            /\ acquired < MaxWindows /\ acquired' = acquired + 1
  PROVE  IInv'
<1>1. /\ step' = "down" /\ hand' = None /\ sequence' = 0 /\ left' = 0
      /\ UNCHANGED <<manifest, spool, marked, told>>
      /\ UNCHANGED <<registered, campaigns, last, answered, ingesting, received, archive>>
  BY DEF Dead, gatewayVars, gatewayMemory
<1>2. acquired \in Nat /\ acquired' \in Nat /\ acquired <= acquired' /\ acquired' <= MaxWindows
  BY Numbers DEF IInv
<1>3. Ours \subseteq Ours'
  <2> SUFFICES ASSUME NEW f \in Ours PROVE f \in Ours'
    OBVIOUS
  <2>1. f.content \in Nat /\ f.content <= acquired
    BY OursFacts
  <2>2. f.content <= acquired'
    BY <1>2, <2>1
  <2>3. QED
    BY <1>1, <2>2 DEF Ours
<1>4. Queued' = Queued
  BY <1>1 DEF Queued
<1>5. TypeOK'
  <2>1. acquired' \in 0..MaxWindows /\ sequence' \in 0..MaxWindows + 1 /\ left' \in 0..FlushLimit
    BY <1>1, <1>2, Numbers DEF IInv
  <2>2. QED
    BY <1>1, <2>1 DEF IInv, TypeOK, GatewayTypeOK, Steps
<1>6. FramesKnown'
  BY <1>1, <1>3, <1>4 DEF IInv, FramesKnown
<1>7. Numbering'
  <2>1. marked' <= acquired'
    BY <1>1, <1>2, Numbers DEF IInv, Numbering
  <2>2. QED
    BY <1>1, <2>1 DEF Numbering, Counting
<1>8. SpoolOrdered' /\ Kept'
  BY <1>1, <1>4 DEF IInv, SpoolOrdered, Kept, ToldTruth
<1>9. Single'
  <2>1. ASSUME Waits, NEW r \in ingesting PROVE Waits'
    <3>1. Reserved \in Nat
      BY OursFacts DEF IInv, Single, FramesKnown
    <3>2. sequence \in Nat /\ marked \in Nat
      BY Numbers DEF IInv
    <3>3. spool = <<>> => marked <= Reserved
      <4>1. CASE Counting
        <5>1. marked <= sequence /\ step \notin {"down"}
          BY <4>1, Numbers DEF IInv, Numbering, Counting
        <5>2. spool = <<>> => sequence <= Reserved \/ marked <= Reserved
          BY <5>1, <2>1 DEF Waits, IInv, TypeOK, Steps
        <5>3. QED
          BY <3>1, <3>2, <5>1, <5>2
      <4>2. CASE ~ Counting
        BY <4>2, <2>1 DEF Counting, Waits, IInv, TypeOK, Steps, Numbering
      <4>3. QED
        BY <4>1, <4>2
    <3>4. QED
      BY <1>1, <2>1, <3>3 DEF Waits, Reserved
  <2>2. QED
    BY <1>1, <2>1 DEF IInv, Single, Reserved
<1>10. InOrder' /\ QueuedBehind'
  BY <1>1, <1>4 DEF IInv, InOrder, QueuedBehind
<1>11. QED
  BY <1>5, <1>6, <1>7, <1>8, <1>9, <1>10 DEF IInv

LEMMA FullNotEmpty ==
  ASSUME IInv, ~HasRoom
  PROVE  spool # <<>>
<1>1. SpoolSize > 0 /\ SpoolSize \in Nat /\ Len(spool) \in Nat
  BY Numbers DEF IInv
<1>2. spool = <<>> => Len(spool) = 0
  BY EmptySeq
<1>3. QED
  BY <1>1, <1>2 DEF HasRoom

LEMMA MarkKeeps ==
  ASSUME IInv, Mark
  PROVE  IInv'
<1>1. /\ step = "mark" /\ step' = "idle" /\ hand' = None
      /\ sequence' = sequence + 1 /\ marked' = sequence + 1
      /\ UNCHANGED <<manifest, left, spool, acquired, told>>
      /\ UNCHANGED <<registered, campaigns, last, answered, ingesting, received, archive>>
  BY DEF Mark, gatewayVars, gatewayMemory
<1>2. /\ hand # None /\ hand \in Ours /\ hand.content = acquired /\ hand.sequence = sequence
  BY <1>1 DEF IInv, Numbering, FramesKnown
<1>3. sequence \in Nat /\ acquired \in Nat /\ sequence < acquired
  BY <1>2, OursFacts
<1>4. sequence' \in Nat /\ sequence' <= acquired /\ sequence < sequence'
  BY <1>1, <1>3
<1>5. Queued' = Queued
  BY <1>1 DEF Queued
<1>6. TypeOK'
  <2>1. sequence' \in 0..MaxWindows + 1 /\ marked' \in 0..MaxWindows + 1
    BY <1>1, <1>4, Numbers DEF IInv
  <2>2. QED
    BY <1>1, <2>1 DEF IInv, TypeOK, GatewayTypeOK, Steps
<1>7. FramesKnown'
  BY <1>1, <1>5 DEF IInv, FramesKnown, Ours
<1>8. Numbering'
  BY <1>1, <1>4 DEF IInv, Numbering, Counting
<1>9. SpoolOrdered'
  <2>1. \A f \in Queued : f.sequence < sequence'
    <3> SUFFICES ASSUME NEW f \in Queued PROVE f.sequence < sequence'
      OBVIOUS
    <3>1. f.sequence \in Nat
      BY OursFacts DEF IInv, FramesKnown
    <3>2. f = hand \/ f.sequence < sequence
      BY <1>2 DEF IInv, Numbering
    <3>3. QED
      BY <1>2, <1>3, <1>4, <3>1, <3>2
  <2>2. QED
    BY <1>1, <1>5, <2>1 DEF IInv, SpoolOrdered
<1>10. Kept'
  BY <1>1, <1>5 DEF IInv, Kept, ToldTruth
<1>11. Single'
  <2>1. ASSUME Waits PROVE Waits'
    BY <1>1, <2>1 DEF Waits, Reserved
  <2>2. QED
    BY <1>1, <2>1 DEF IInv, Single, Reserved
<1>12. InOrder' /\ QueuedBehind'
  BY <1>1, <1>5 DEF IInv, InOrder, QueuedBehind
<1>13. QED
  BY <1>6, <1>7, <1>8, <1>9, <1>10, <1>11, <1>12 DEF IInv

\* The one frame in the await.
LEMMA TheReservation ==
  ASSUME IInv, NEW r \in ingesting
  PROVE  /\ ingesting \ {r} = {} /\ r \in Reservation
         /\ r.frame \in Ours /\ r.frame \in Frame /\ r.frame.node = Node
         /\ Reserved = r.frame.sequence /\ r.frame.sequence \in Nat
         /\ r.previous \in Sequences \cup {None}
         /\ r.previous # None => r.previous < r.frame.sequence /\ r.previous \in Nat
         /\ \A g \in answered : r.previous # None /\ g.sequence <= r.previous
         /\ Waits
<1>1. ingesting \ {r} = {} /\ r \in Reservation
  BY DEF IInv, Single, TypeOK, GatewayTypeOK
<1>2. r.frame \in Ours /\ r.frame \in Frame /\ r.frame.node = Node /\ r.frame.sequence \in Nat
  BY OursFacts DEF IInv, FramesKnown
<1>3. r.previous \in Sequences \cup {None} /\ (r.previous # None => r.previous \in Nat)
  BY <1>1 DEF Reservation, Sequences
<1>4. QED
  BY <1>1, <1>2, <1>3 DEF IInv, Single

LEMMA InferKeeps ==
  ASSUME IInv, Infer
  PROVE  IInv'
<1>1. PICK r \in ingesting : Commit(r)
  BY DEF Infer, Commit
<1>2. /\ ingesting' = {} /\ archive' = archive \cup {r.frame}
      /\ answered' \subseteq answered \cup {r.frame}
      /\ UNCHANGED <<registered, campaigns, last, received>>
      /\ UNCHANGED <<manifest, step, hand, sequence, left, spool, marked, acquired, told>>
  BY <1>1, TheReservation DEF Commit, Infer, edgeVars
<1>3. r.frame \in Ours /\ r.frame \in Frame
  BY TheReservation
<1>4. Queued' = Queued
  BY <1>2 DEF Queued
<1>5. TypeOK'
  BY <1>2, <1>3 DEF IInv, TypeOK, GatewayTypeOK
<1>6. FramesKnown'
  <2>1. Ours' = Ours
    BY <1>2 DEF Ours
  <2>2. answered' \subseteq archive'
    BY <1>2 DEF IInv, FramesKnown
  <2>3. QED
    BY <1>2, <1>3, <1>4, <2>1, <2>2 DEF IInv, FramesKnown
<1>7. Numbering'
  BY <1>2, <1>4 DEF IInv, Numbering, Counting
<1>8. SpoolOrdered'
  BY <1>2, <1>4 DEF IInv, SpoolOrdered
<1>9. Kept'
  BY <1>2, <1>4 DEF IInv, Kept, ToldTruth
<1>10. Single'
  <2>1. Reserved # None /\ Reserved' = Reserved
    BY <1>2, TheReservation, GatewayAssumption DEF Reserved
  <2>2. ASSUME NEW g \in answered' PROVE g.sequence <= Reserved
    <3>1. CASE g = r.frame
      BY <3>1, TheReservation
    <3>2. CASE g \in answered
      <4>1. g.sequence \in Nat
        BY <3>2, OursFacts DEF IInv, FramesKnown
      <4>2. r.previous # None /\ g.sequence <= r.previous
        BY <3>2, TheReservation
      <4>3. r.previous \in Nat /\ r.previous < r.frame.sequence
        BY <4>2, TheReservation
      <4>4. QED
        BY <4>1, <4>2, <4>3, TheReservation
    <3>3. QED
      BY <1>2, <2>2, <3>1, <3>2
  <2>3. QED
    BY <1>2, <2>1, <2>2 DEF Single
<1>11. InOrder' /\ QueuedBehind'
  BY <1>2, <1>4 DEF IInv, InOrder, QueuedBehind
<1>12. QED
  BY <1>5, <1>6, <1>7, <1>8, <1>9, <1>10, <1>11 DEF IInv

LEMMA InferFailsKeeps ==
  ASSUME IInv, InferFails
  PROVE  IInv'
<1>1. PICK r \in ingesting : Fail(r)
  BY DEF InferFails, Fail
<1>2. /\ ingesting' = {}
      /\ received' = [received EXCEPT ![Node] = CountAfterFailure(Node)]
      /\ last' = [last EXCEPT ![Node] = r.previous]
      /\ UNCHANGED <<registered, campaigns, answered, archive>>
      /\ UNCHANGED <<manifest, step, hand, sequence, left, spool, marked, acquired, told>>
  <2>1. r.frame.node = Node /\ NumberAfterFailure(r) = r.previous
    BY TheReservation DEF NumberAfterFailure, Reserved
  <2>2. QED
    BY <1>1, <2>1, TheReservation DEF Fail, InferFails, edgeVars
<1>3. Queued' = Queued
  BY <1>2 DEF Queued
<1>4. last \in [Nodes -> Sequences \cup {None}] /\ received \in [Nodes -> Nat] /\ Node \in Nodes
  BY Numbers DEF IInv, TypeOK, GatewayTypeOK
<1>5. TypeOK'
  <2>1. last' \in [Nodes -> Sequences \cup {None}]
    BY <1>2, <1>4, TheReservation
  <2>2. CountAfterFailure(Node) \in Nat
    BY <1>4 DEF CountAfterFailure
  <2>3. received' \in [Nodes -> Nat]
    BY <1>2, <1>4, <2>2
  <2>4. QED
    BY <1>2, <2>1, <2>3 DEF IInv, TypeOK, GatewayTypeOK
<1>6. FramesKnown'
  BY <1>2, <1>3 DEF IInv, FramesKnown, Ours
<1>7. Numbering'
  BY <1>2, <1>3 DEF IInv, Numbering, Counting
<1>8. SpoolOrdered' /\ Kept'
  BY <1>2, <1>3 DEF IInv, SpoolOrdered, Kept, ToldTruth
<1>9. Single'
  <2>1. Reserved' = r.previous
    BY <1>2, <1>4 DEF Reserved
  <2>2. QED
    BY <1>2, <2>1, TheReservation DEF Single
<1>10. InOrder' /\ QueuedBehind'
  BY <1>2, <1>3 DEF IInv, InOrder, QueuedBehind
<1>11. QED
  BY <1>5, <1>6, <1>7, <1>8, <1>9, <1>10 DEF IInv

LEMMA ServerRestartKeeps ==
  ASSUME IInv, ServerRestart
  PROVE  IInv'
<1>1. /\ ingesting' = {} /\ answered' = {} /\ archive' = archive
      /\ registered' = [n \in Nodes |-> None] /\ campaigns' = [c \in Campaigns |-> None]
      /\ last' = [n \in Nodes |-> None] /\ received' = [n \in Nodes |-> 0]
      /\ UNCHANGED <<manifest, step, hand, sequence, left, spool, marked, acquired, told>>
  BY DEF ServerRestart, ForgetMemory, edgeVars
<1>2. Queued' = Queued
  BY <1>1 DEF Queued
<1>3. TypeOK'
  <2>1. /\ registered' \in [Nodes -> Assets \cup {None}]
        /\ campaigns' \in [Campaigns -> (Nodes \X Assets) \cup {None}]
        /\ last' \in [Nodes -> Sequences \cup {None}]
        /\ received' \in [Nodes -> Nat]
    BY <1>1
  <2>2. QED
    BY <1>1, <2>1 DEF IInv, TypeOK, GatewayTypeOK
<1>4. FramesKnown' /\ Numbering' /\ SpoolOrdered' /\ Kept'
  BY <1>1, <1>2 DEF IInv, FramesKnown, Ours, Numbering, Counting, SpoolOrdered, Kept, ToldTruth
<1>5. Single' /\ InOrder' /\ QueuedBehind'
  BY <1>1, <1>2 DEF IInv, Single, InOrder, QueuedBehind
<1>6. QED
  BY <1>3, <1>4, <1>5 DEF IInv

-----------------------------------------------------------------------------
(* The invariant *)

LEMMA InitHolds ==
  ASSUME Init
  PROVE  IInv
<1>1. /\ registered = [n \in Nodes |-> None] /\ campaigns = [c \in Campaigns |-> None]
      /\ last = [n \in Nodes |-> None] /\ received = [n \in Nodes |-> 0]
      /\ answered = {} /\ ingesting = {} /\ archive = {}
      /\ manifest \in BOOLEAN /\ step = "down" /\ hand = None /\ sequence = 0 /\ left = 0
      /\ spool = <<>> /\ marked = 0 /\ acquired = 0 /\ told = [w \in Windows |-> "nothing"]
  BY DEF Init, GatewayInit, EmptyMemory
<1>2. Queued = {} /\ DOMAIN spool = {}
  BY <1>1, EmptySpool
<1>3. TypeOK
  <2>1. /\ registered \in [Nodes -> Assets \cup {None}]
        /\ campaigns \in [Campaigns -> (Nodes \X Assets) \cup {None}]
        /\ last \in [Nodes -> Sequences \cup {None}]
        /\ received \in [Nodes -> Nat]
        /\ told \in [Windows -> {"nothing", "delivered", "spooled"}]
    BY <1>1
  <2>2. spool \in Seq(Frame) /\ Len(spool) <= SpoolSize
    BY <1>1, EmptySeq, EdgeAssumption
  <2>3. 0 \in 0..MaxWindows /\ 0 \in 0..MaxWindows + 1 /\ 0 \in 0..FlushLimit
    BY EdgeAssumption
  <2>4. QED
    BY <1>1, <2>1, <2>2, <2>3 DEF TypeOK, GatewayTypeOK, Steps
<1>4. FramesKnown /\ Numbering /\ SpoolOrdered /\ Kept
  BY <1>1, <1>2 DEF FramesKnown, Numbering, Counting, SpoolOrdered, Kept, ToldTruth
<1>5. Single /\ InOrder /\ QueuedBehind
  BY <1>1, <1>2 DEF Single, InOrder, QueuedBehind
<1>6. QED
  BY <1>3, <1>4, <1>5 DEF IInv

LEMMA NextKeeps ==
  ASSUME IInv, [Next]_vars
  PROVE  IInv'
<1>1. CASE Start
  BY <1>1, StartKeeps
<1>2. CASE Send
  BY <1>2, SendKeeps
<1>3. CASE Acknowledged
  BY <1>3, AcknowledgedKeeps
<1>4. CASE GiveUpSending
  BY <1>4, GiveUpSendingKeeps
<1>5. CASE Unlink
  BY <1>5, UnlinkKeeps
<1>6. CASE FlushDone \/ FlushStops
  BY <1>6, EndFlushKeeps DEF FlushDone, FlushStops
<1>7. CASE AcquireToSend
  BY <1>7, AcquireToSendKeeps
<1>8. CASE AcquireToQueue
  BY <1>8, AcquireToQueueKeeps
<1>9. CASE AcquireFull
  <2>1. /\ step = "idle" /\ acquired < MaxWindows /\ acquired' = acquired + 1 /\ ~HasRoom
        /\ Dead /\ UNCHANGED <<gatewayVars, manifest, spool, marked, told>>
    BY <1>9 DEF AcquireFull
  <2>2. spool # <<>>
    BY <2>1, FullNotEmpty
  <2>3. \/ acquired' = acquired
        \/ /\ step = "idle" /\ spool # <<>>
           /\ acquired < MaxWindows /\ acquired' = acquired + 1
    BY <2>1, <2>2
  <2>4. QED
    BY <2>1, <2>3, DeathKeeps, Zenon
<1>10. CASE Mark
  BY <1>10, MarkKeeps
<1>11. CASE Finish \/ EdgeCrash
  <2>1. /\ Dead /\ UNCHANGED <<gatewayVars, manifest, spool, marked, told>>
        /\ acquired' = acquired
    BY <1>11 DEF Finish, EdgeCrash
  <2>2. \/ acquired' = acquired
        \/ /\ step = "idle" /\ spool # <<>>
           /\ acquired < MaxWindows /\ acquired' = acquired + 1
    BY <2>1
  <2>3. QED
    BY <2>1, <2>2, DeathKeeps, Zenon
<1>12. CASE Infer
  BY <1>12, InferKeeps
<1>13. CASE InferFails
  BY <1>13, InferFailsKeeps
<1>14. CASE ServerRestart
  BY <1>14, ServerRestartKeeps
<1>15. CASE UNCHANGED vars
  <2>1. /\ UNCHANGED <<manifest, step, hand, sequence, left, spool, marked, acquired, told>>
        /\ UNCHANGED <<registered, campaigns, last, answered, ingesting, received, archive>>
    BY <1>15 DEF vars, edgeVars, gatewayVars, gatewayMemory
  <2>2. TypeOK' /\ FramesKnown' /\ Numbering' /\ SpoolOrdered' /\ Kept'
    BY <2>1 DEF IInv, TypeOK, GatewayTypeOK, FramesKnown, Ours, Numbering, Counting,
                SpoolOrdered, Kept, ToldTruth, Queued
  <2>3. Single' /\ InOrder' /\ QueuedBehind'
    BY <2>1 DEF IInv, Single, Waits, Reserved, InOrder, QueuedBehind, Queued
  <2>4. QED
    BY <2>2, <2>3 DEF IInv
<1>16. QED
  BY <1>1, <1>2, <1>3, <1>4, <1>5, <1>6, <1>7, <1>8, <1>9, <1>10,
     <1>11, <1>12, <1>13, <1>14, <1>15 DEF Next, Publisher

\* What binds publisher and gateway together, through every crash of either
\* (spool.py:27-111, cli.py:82-141, gateway.py:87-174).
THEOREM Invariance == Spec => []IInv
<1>1. Init => IInv
  BY InitHolds
<1>2. IInv /\ [Next]_vars => IInv'
  BY NextKeeps
<1>3. QED
  BY <1>1, <1>2, PTL DEF Spec

THEOREM TypesKept == Spec => []TypeOK
BY Invariance, PTL DEF IInv

\* An outage does not silently discard evidence: a window reported delivered is
\* archived, one reported spooled is archived or queued (spool.py:24-27,
\* cli.py:112-133).
THEOREM Told == Spec => []ToldTruth
<1>1. IInv => ToldTruth
  BY DEF IInv, Kept
<1>2. QED
  BY <1>1, Invariance, PTL

\* Numbers and windows grow along the spool, and the next number is behind them,
\* whatever a crash made the publisher forget (spool.py:39-53, 73-74).
THEOREM SpoolStaysOrdered == Spec => []SpoolOrdered
<1>1. IInv => SpoolOrdered
  BY DEF IInv
<1>2. QED
  BY <1>1, Invariance, PTL

-----------------------------------------------------------------------------
(* Publisher and gateway implement Delivery *)

Mapped == [w \in Windows |-> StageOf(w)]

Archived(w) == \E f \in archive : f.content = w
InSpool(w) == \E f \in Queued : f.content = w
Held(w) == hand # None /\ hand.content = w

LEMMA Stages ==
  ASSUME NEW w \in Windows
  PROVE  StageOf(w) = IF Archived(w) THEN "archived"
                      ELSE IF InSpool(w) THEN "spooled"
                      ELSE IF Held(w) THEN "held"
                      ELSE IF w <= acquired THEN "dropped"
                      ELSE "ahead"
BY DEF StageOf, Archived, InSpool, Held

\* A step that leaves every stage alone is a stutter of Delivery.
LEMMA NoStageChanges ==
  ASSUME \A w \in Windows : StageOf(w)' = StageOf(w)
  PROVE  Mapped' = Mapped
<1>1. Windows' = Windows
  BY DEF Windows
<1>2. QED
  BY <1>1 DEF Mapped

LEMMA OneStageChanges ==
  ASSUME NEW w \in Windows,
         \A v \in Windows : v # w => StageOf(v)' = StageOf(v)
  PROVE  Mapped' = [Mapped EXCEPT ![w] = StageOf(w)']
BY DEF Mapped

LEMMA AbstractSteps ==
  ASSUME NEW w \in Windows
  PROVE  /\ /\ StageOf(w) = "ahead"
            /\ \A v \in Windows : v < w => StageOf(v) # "ahead"
            /\ \E stage \in {"held", "spooled", "dropped"} :
                 Mapped' = [Mapped EXCEPT ![w] = stage]
            => Abstract!Next
         /\ /\ StageOf(w) = "held"
            /\ \/ Mapped' = [Mapped EXCEPT ![w] = "spooled"]
               \/ Mapped' = [Mapped EXCEPT ![w] = "dropped"]
            => Abstract!Next
         /\ /\ StageOf(w) \in {"held", "spooled", "dropped"}
            /\ \A v \in Windows : v > w => StageOf(v) # "archived"
            /\ Mapped' = [Mapped EXCEPT ![w] = "archived"]
            => Abstract!Next
<1>1. /\ StageOf(w) = "ahead"
      /\ \A v \in Windows : v < w => StageOf(v) # "ahead"
      /\ \E stage \in {"held", "spooled", "dropped"} :
           Mapped' = [Mapped EXCEPT ![w] = stage]
      => Abstract!Acquire(w)
  BY DEF Abstract!Acquire, Mapped
<1>2. StageOf(w) = "held" /\ Mapped' = [Mapped EXCEPT ![w] = "spooled"] => Abstract!Spool(w)
  BY DEF Abstract!Spool, Mapped
<1>3. StageOf(w) = "held" /\ Mapped' = [Mapped EXCEPT ![w] = "dropped"] => Abstract!Drop(w)
  BY DEF Abstract!Drop, Mapped
<1>4. /\ StageOf(w) \in {"held", "spooled", "dropped"}
      /\ \A v \in Windows : v > w => StageOf(v) # "archived"
      /\ Mapped' = [Mapped EXCEPT ![w] = "archived"]
      => Abstract!Archive(w)
  BY DEF Abstract!Archive, Mapped
<1>5. QED
  BY <1>1, <1>2, <1>3, <1>4 DEF Abstract!Next

\* No frame belongs to a window that was not read.
LEMMA NotYetRead ==
  ASSUME IInv, NEW w \in Windows, ~ (w <= acquired)
  PROVE  ~ Archived(w) /\ ~ InSpool(w) /\ ~ Held(w) /\ StageOf(w) = "ahead"
<1>1. ~ Archived(w) /\ ~ InSpool(w) /\ ~ Held(w)
  BY OursFacts DEF IInv, FramesKnown, Archived, InSpool, Held
<1>2. QED
  BY <1>1, Stages

LEMMA ReadNotAhead ==
  ASSUME NEW w \in Windows, w <= acquired
  PROVE  StageOf(w) # "ahead"
BY Stages

LEMMA ReadingMaps ==
  ASSUME IInv, step = "idle", acquired < MaxWindows, acquired' = acquired + 1,
         archive' = archive,
         \/ spool' = spool /\ hand' = None
         \/ spool' = spool /\ hand' # None /\ hand'.content = acquired + 1
         \/ Queued' = Queued \cup {hand'} /\ hand' # None /\ hand'.content = acquired + 1
  PROVE  Abstract!Next
<1>0. acquired \in Nat /\ acquired + 1 \in Windows /\ hand = None
  BY Numbers DEF IInv, Windows, Numbering
<1> PICK w \in Windows : w = acquired + 1
  BY <1>0
<1>1. acquired \in Nat /\ ~ (w <= acquired) /\ hand = None /\ w = acquired + 1
  BY <1>0
<1>2. StageOf(w) = "ahead" /\ ~ Archived(w) /\ ~ InSpool(w)
  BY <1>1, NotYetRead
<1>3. ASSUME NEW v \in Windows, v < w PROVE StageOf(v) # "ahead"
  <2>1. v <= acquired
    BY <1>1, <1>3 DEF Windows
  <2>2. QED
    BY <2>1, ReadNotAhead
<1>4. StageOf(w)' \in {"held", "spooled", "dropped"}
  <2>1. ~ Archived(w)'
    BY <1>2 DEF Archived
  <2>2. (w <= acquired)'
    BY <1>1
  <2>3. QED
    BY <2>1, <2>2 DEF StageOf, Archived
<1>5. ASSUME NEW v \in Windows, v # w PROVE StageOf(v)' = StageOf(v)
  <2>1. Archived(v)' <=> Archived(v)
    BY DEF Archived
  <2>2. InSpool(v)' <=> InSpool(v)
    BY <1>1, <1>5 DEF InSpool, Queued
  <2>3. ~ Held(v)' /\ ~ Held(v)
    BY <1>1, <1>5 DEF Held
  <2>4. (v <= acquired)' <=> v <= acquired
    BY <1>1, <1>5 DEF Windows
  <2>5. QED
    BY <2>1, <2>2, <2>3, <2>4 DEF StageOf, Archived, InSpool, Held
<1>6. Mapped' = [Mapped EXCEPT ![w] = StageOf(w)']
  BY <1>1, <1>5, OneStageChanges
<1>7. QED
  BY <1>1, <1>2, <1>3, <1>4, <1>6, AbstractSteps

\* A frame leaves the hand, or the spool, when it is somewhere else already.
LEMMA QuietSteps ==
  ASSUME IInv, archive' = archive, acquired' = acquired,
         \/ spool' = spool
         \/ \E f \in archive : Queued = {f} \cup Queued',
         \/ hand' = hand
         \/ hand' = None /\ (hand = None \/ hand \in archive \cup Queued)
  PROVE  Mapped' = Mapped
<1> SUFFICES ASSUME NEW w \in Windows PROVE StageOf(w)' = StageOf(w)
  BY NoStageChanges
<1>1. Archived(w)' <=> Archived(w)
  BY DEF Archived
<1>2. ~ Archived(w) => (InSpool(w)' <=> InSpool(w))
  <2>1. CASE spool' = spool
    BY <2>1 DEF InSpool, Queued
  <2>2. CASE \E f \in archive : Queued = {f} \cup Queued'
    BY <2>2 DEF InSpool, Archived
  <2>3. QED
    BY <2>1, <2>2
<1>3. ~ Archived(w) /\ ~ InSpool(w) => (Held(w)' <=> Held(w))
  BY DEF Archived, InSpool, Held
<1>4. QED
  BY <1>1, <1>2, <1>3 DEF StageOf, Archived, InSpool, Held

LEMMA GivingUpMaps ==
  ASSUME IInv, GiveUpSending
  PROVE  Abstract!Next \/ Mapped' = Mapped
<1>1. /\ step = "send" /\ spool' = Append(spool, hand)
      /\ UNCHANGED <<hand, acquired, archive>>
  BY DEF GiveUpSending, AfterGivingUp, gatewayVars
<1>2. hand # None /\ hand \in Frame /\ hand.content \in Windows /\ spool = <<>>
  BY <1>1, OursFacts DEF IInv, Numbering, FramesKnown
<1>3. Queued = {} /\ Queued' = {hand}
  <2>1. spool \in Seq(Frame) /\ Queued = {} /\ Queued' = Items(spool') /\ Queued = Items(spool)
    BY <1>2, EmptySpool, QueuedItems DEF IInv, TypeOK, Queued, Items
  <2>2. QED
    BY <1>1, <1>2, <2>1, SpoolAppend
<1> PICK w \in Windows : w = hand.content
  BY <1>2
<1>4. ~ InSpool(w) /\ InSpool(w)' /\ Held(w) /\ (Archived(w)' <=> Archived(w))
  BY <1>1, <1>2, <1>3 DEF InSpool, Held, Archived
<1>5. ASSUME NEW v \in Windows, v # w PROVE StageOf(v)' = StageOf(v)
  <2>1. ~ InSpool(v)' /\ ~ InSpool(v) /\ (Archived(v)' <=> Archived(v)) /\ (Held(v)' <=> Held(v))
    BY <1>1, <1>3, <1>5 DEF InSpool, Archived, Held
  <2>2. QED
    BY <1>1, <2>1 DEF StageOf, Archived, InSpool, Held
<1>6. CASE Archived(w)
  <2>1. StageOf(w)' = StageOf(w)
    BY <1>4, <1>6 DEF StageOf, Archived
  <2>2. QED
    BY <1>5, <2>1, NoStageChanges
<1>7. CASE ~ Archived(w)
  <2>1. StageOf(w) = "held" /\ StageOf(w)' = "spooled"
    BY <1>4, <1>7 DEF StageOf, Archived, InSpool, Held
  <2>2. Mapped' = [Mapped EXCEPT ![w] = "spooled"]
    BY <1>5, <2>1, OneStageChanges
  <2>3. QED
    BY <2>1, <2>2, AbstractSteps
<1>8. QED
  BY <1>6, <1>7

LEMMA DyingMaps ==
  ASSUME IInv, hand' = None, UNCHANGED <<archive, acquired, spool>>
  PROVE  Abstract!Next \/ Mapped' = Mapped
<1>1. CASE hand = None
  BY <1>1, QuietSteps
<1>2. CASE hand # None
  <2>1. hand \in Frame /\ hand.content \in Windows /\ hand.content = acquired /\ acquired \in Nat
    BY <1>2, OursFacts, Numbers DEF IInv, FramesKnown
  <2> PICK w \in Windows : w = hand.content
    BY <2>1
  <2>2. /\ (InSpool(w)' <=> InSpool(w)) /\ (Archived(w)' <=> Archived(w))
        /\ Held(w) /\ ~ Held(w)' /\ (w <= acquired)'
    BY <1>2, <2>1 DEF InSpool, Queued, Archived, Held
  <2>3. ASSUME NEW v \in Windows, v # w PROVE StageOf(v)' = StageOf(v)
    <3>1. /\ (InSpool(v)' <=> InSpool(v)) /\ (Archived(v)' <=> Archived(v))
          /\ ~ Held(v) /\ ~ Held(v)'
      BY <1>2, <2>3 DEF InSpool, Queued, Archived, Held
    <3>2. QED
      BY <3>1 DEF StageOf, Archived, InSpool, Held
  <2>4. CASE Archived(w) \/ InSpool(w)
    <3>1. StageOf(w)' = StageOf(w)
      BY <2>2, <2>4 DEF StageOf, Archived, InSpool, Held
    <3>2. QED
      BY <2>3, <3>1, NoStageChanges
  <2>5. CASE ~ Archived(w) /\ ~ InSpool(w)
    <3>1. StageOf(w) = "held" /\ StageOf(w)' = "dropped"
      BY <2>2, <2>5 DEF StageOf, Archived, InSpool, Held
    <3>2. Mapped' = [Mapped EXCEPT ![w] = "dropped"]
      BY <2>3, <3>1, OneStageChanges
    <3>3. QED
      BY <3>1, <3>2, AbstractSteps
  <2>6. QED
    BY <2>4, <2>5
<1>3. QED
  BY <1>1, <1>2

LEMMA InferMaps ==
  ASSUME IInv, Infer
  PROVE  Abstract!Next \/ Mapped' = Mapped
<1>1. PICK r \in ingesting : Commit(r)
  BY DEF Infer, Commit
<1>2. archive' = archive \cup {r.frame} /\ UNCHANGED <<hand, acquired, spool>>
  BY <1>1 DEF Commit, Infer, edgeVars
<1>3. r.frame \in Ours /\ r.frame.content \in Windows /\ r.frame.content <= acquired
  BY TheReservation, OursFacts
<1> PICK w \in Windows : w = r.frame.content
  BY <1>3
<1>4. Archived(w)' /\ StageOf(w)' = "archived" /\ w <= acquired
  BY <1>2, <1>3 DEF Archived, StageOf
<1>5. ASSUME NEW v \in Windows, v # w PROVE StageOf(v)' = StageOf(v)
  <2>1. (InSpool(v)' <=> InSpool(v)) /\ (Archived(v)' <=> Archived(v)) /\ (Held(v)' <=> Held(v))
    BY <1>2, <1>5 DEF InSpool, Queued, Archived, Held
  <2>2. QED
    BY <1>2, <2>1 DEF StageOf, Archived, InSpool, Held
<1>6. CASE Archived(w)
  <2>1. StageOf(w)' = StageOf(w)
    BY <1>4, <1>6, Stages
  <2>2. QED
    BY <1>5, <2>1, NoStageChanges
<1>7. CASE ~ Archived(w)
  <2>1. StageOf(w) \in {"held", "spooled", "dropped"}
    BY <1>4, <1>7, Stages
  <2>2. ASSUME NEW v \in Windows, v > w PROVE StageOf(v) # "archived"
    <3>1. ~ Archived(v)
      <4> SUFFICES ASSUME NEW g \in archive, g.content = v PROVE FALSE
        BY DEF Archived
      <4>1. g.content <= r.frame.content
        BY DEF IInv, InOrder
      <4>2. v \in Nat /\ w \in Nat
        BY DEF Windows
      <4>3. QED
        BY <2>2, <4>1, <4>2
    <3>2. QED
      BY <3>1, Stages
  <2>3. Mapped' = [Mapped EXCEPT ![w] = "archived"]
    BY <1>4, <1>5, OneStageChanges
  <2>4. QED
    BY <2>1, <2>2, <2>3, AbstractSteps
<1>8. QED
  BY <1>6, <1>7

\* Windows are taken in order, never leave the spool but for the archive, and are
\* archived in order (spool.py:83-111, cli.py:92-141, gateway.py:87-174).
THEOREM Refinement == Spec => ImplementsDelivery
<1>1. Init => Abstract!Init
  <2> SUFFICES ASSUME Init PROVE Abstract!Init
    OBVIOUS
  <2>1. archive = {} /\ Queued = {} /\ hand = None /\ acquired = 0
    BY EmptySpool DEF Init, GatewayInit
  <2>2. \A w \in Windows : ~ (w <= 0)
    BY DEF Windows
  <2>3. QED
    BY <2>1, <2>2 DEF Abstract!Init, StageOf
<1>2. IInv /\ [Next]_vars => [Abstract!Next]_Mapped
  <2> SUFFICES ASSUME IInv, [Next]_vars PROVE Abstract!Next \/ Mapped' = Mapped
    OBVIOUS
  <2>1. CASE Start \/ Send \/ Acknowledged \/ FlushDone \/ FlushStops
             \/ InferFails \/ ServerRestart \/ UNCHANGED vars
    <3>1. UNCHANGED <<archive, acquired, spool, hand>>
      BY <2>1 DEF Start, Send, Reserve, Acknowledged, FlushDone, FlushStops, EndFlush,
                  InferFails, Fail, ServerRestart, ForgetMemory,
                  vars, edgeVars, gatewayVars
    <3>2. QED
      BY <3>1, QuietSteps
  <2>2. CASE GiveUpSending
    BY <2>2, GivingUpMaps
  <2>3. CASE Unlink
    <3>1. /\ step = "unlink" /\ spool' = Tail(spool)
          /\ UNCHANGED <<archive, acquired, hand>>
      BY <2>3 DEF Unlink, AfterUnlink, gatewayVars
    <3>2. spool # <<>> /\ Head(spool) \in archive /\ spool \in Seq(Frame)
      BY <3>1 DEF IInv, Numbering, TypeOK
    <3>3. Queued = {Head(spool)} \cup Queued'
      <4>1. Queued' = Items(spool')
        BY DEF Queued, Items
      <4>2. QED
        BY <3>1, <3>2, <4>1, QueuedItems, SpoolTail
    <3>4. QED
      BY <3>1, <3>2, <3>3, QuietSteps
  <2>4. CASE AcquireToSend
    <3>1. /\ step = "idle" /\ acquired < MaxWindows /\ acquired' = acquired + 1
          /\ hand' = FrameOf(acquired + 1) /\ archive' = archive /\ spool' = spool
      BY <2>4 DEF AcquireToSend, gatewayVars
    <3>2. hand' # None /\ hand'.content = acquired + 1
      BY <3>1, NewFrame
    <3>3. QED
      BY <3>1, <3>2, ReadingMaps
  <2>5. CASE AcquireToQueue
    <3>1. /\ step = "idle" /\ acquired < MaxWindows /\ acquired' = acquired + 1
          /\ hand' = FrameOf(acquired + 1) /\ archive' = archive
          /\ spool' = Append(spool, hand') /\ spool \in Seq(Frame)
      BY <2>5 DEF AcquireToQueue, gatewayVars, IInv, TypeOK
    <3>2. hand' \in Frame /\ hand' # None /\ hand'.content = acquired + 1
      BY <3>1, NewFrame
    <3>3. Queued' = Queued \cup {hand'}
      <4>1. Queued' = Items(spool')
        BY DEF Queued, Items
      <4>2. QED
        BY <3>1, <3>2, <4>1, QueuedItems, SpoolAppend
    <3>4. QED
      BY <3>1, <3>2, <3>3, ReadingMaps
  <2>6. CASE AcquireFull
    <3>1. /\ step = "idle" /\ acquired < MaxWindows /\ acquired' = acquired + 1
          /\ hand' = None /\ archive' = archive /\ spool' = spool
      BY <2>6 DEF AcquireFull, Dead, gatewayVars
    <3>2. QED
      BY <3>1, ReadingMaps
  <2>7. CASE Mark
    <3>1. /\ step = "mark" /\ hand' = None /\ UNCHANGED <<archive, acquired, spool>>
      BY <2>7 DEF Mark, gatewayVars
    <3>2. hand \in archive \cup Queued
      BY <3>1 DEF IInv, Numbering, Kept
    <3>3. QED
      BY <3>1, <3>2, QuietSteps
  <2>8. CASE Finish \/ EdgeCrash
    <3>1. hand' = None /\ UNCHANGED <<archive, acquired, spool>>
      BY <2>8 DEF Finish, EdgeCrash, Dead, gatewayVars
    <3>2. QED
      BY <3>1, DyingMaps
  <2>9. CASE Infer
    BY <2>9, InferMaps
  <2>10. QED
    BY <2>1, <2>2, <2>3, <2>4, <2>5, <2>6, <2>7, <2>8, <2>9 DEF Next, Publisher
<1>3. QED
  BY <1>1, <1>2, Invariance, PTL DEF Spec, ImplementsDelivery, Abstract!Spec, Mapped

-----------------------------------------------------------------------------
(* What blocks a spool: each action keeps Covered *)

\* Steps that touch neither what is stored nor what the gateway remembers.
LEMMA CoveredQuiet ==
  ASSUME IInv, Covered, UNCHANGED <<spool, archive, last, answered, ingesting, marked>>,
         step' # "send" \/ UNCHANGED <<step, hand>>,
         Counting' => Counting /\ sequence' = sequence
  PROVE  Covered'
<1>1. Queued' = Queued
  BY DEF Queued
<1>2. Numbered'
  <2>1. UsedBelow(marked)'
    BY <1>1 DEF Covered, Numbered, UsedBelow
  <2>2. Counting' => UsedBelow(sequence)'
    BY <1>1 DEF Covered, Numbered, UsedBelow
  <2>3. \A f \in Queued' : UsedBelow(f.sequence)'
    BY <1>1 DEF Covered, Numbered, UsedBelow
  <2>4. QED
    BY <2>1, <2>2, <2>3 DEF Numbered
<1>3. Confirmed'
  BY DEF Covered, Confirmed, Reserved
<1>4. Answerable'
  BY <1>1 DEF Covered, Answerable, Repeatable, Reserved
<1>5. QED
  BY <1>2, <1>3, <1>4 DEF Covered

\* All numbers below the frame being sent are archived.
LEMMA BelowSending ==
  ASSUME IInv, Covered, CanSend, NEW k \in Nat, k < Sending.sequence
  PROVE  \E g \in archive : g.sequence = k
<1>1. step = "flush" \/ step = "send"
  BY DEF CanSend
<1>2. CASE step = "flush"
  <2>1. Sending = Head(spool) /\ spool # <<>> /\ Sending \in Queued
    BY <1>2, SendingOurs, HeadFirst
  <2>2. PICK g \in archive \cup Queued : g.sequence = k
    BY <2>1 DEF Covered, Numbered, UsedBelow
  <2>3. g \notin Queued
    <3> SUFFICES ASSUME g \in Queued PROVE FALSE
      OBVIOUS
    <3>1. g = Sending \/ Sending.sequence < g.sequence
      BY <2>1, HeadFirst
    <3>2. Sending.sequence \in Nat
      BY SendingOurs, OursFacts
    <3>3. QED
      BY <2>2, <3>1, <3>2
  <2>4. QED
    BY <2>2, <2>3
<1>3. CASE step = "send"
  <2>1. Sending = hand /\ hand # None /\ Queued = {}
    BY <1>3, SendingOurs, EmptySpool
  <2>2. Counting /\ hand.sequence = sequence
    BY <2>1 DEF Counting, IInv, FramesKnown
  <2>3. QED
    BY <2>1, <2>2 DEF Covered, Numbered, UsedBelow
<1>4. QED
  BY <1>1, <1>2, <1>3

\* A reservation is made when there is none.
LEMMA FirstReservation ==
  ASSUME IInv, CanSend, Newer(Sending)
  PROVE  ingesting = {} /\ (Reserved # None => Sending.sequence > Reserved)
<1>1. /\ Sending \in Ours /\ Sending.node = Node /\ Sending.sequence \in Nat
      /\ step = "flush" => spool # <<>> /\ Sending = Head(spool)
      /\ step = "send" => hand # None /\ spool = <<>> /\ Sending = hand
      /\ step = "flush" \/ step = "send"
  BY SendingOurs, OursFacts DEF CanSend
<1>2. Reserved # None => Sending.sequence > Reserved
  BY <1>1 DEF Newer, Reserved
<1>3. ASSUME NEW q \in ingesting PROVE FALSE
  <2>1. Reserved = q.frame.sequence /\ Reserved \in Nat /\ Waits
    BY TheReservation
  <2>2. Sending.sequence > Reserved
    BY <2>1, <1>2, GatewayAssumption
  <2>3. Sending.sequence <= Reserved
    <3>1. CASE step = "flush"
      BY <3>1, <1>1, <2>1 DEF Waits
    <3>2. CASE step = "send"
      BY <3>2, <1>1, <2>1 DEF Waits, IInv, FramesKnown
    <3>3. QED
      BY <1>1, <3>1, <3>2
  <2>4. QED
    BY <1>1, <2>1, <2>2, <2>3
<1>4. QED
  BY <1>2, <1>3

LEMMA SendCovers ==
  ASSUME IInv, Covered, Send
  PROVE  Covered'
<1>0. CanSend /\ Sending \in Ours
  BY SendingOurs DEF Send
<1> PICK f \in Ours : f = Sending
  BY <1>0
<1> DEFINE r == [frame |-> f, previous |-> Reserved]
<1>1. /\ f \in Ours /\ f.node = Node /\ f.sequence \in Nat
      /\ step = "flush" => spool # <<>> /\ f = Head(spool)
      /\ step = "send" => hand # None /\ spool = <<>> /\ f = hand
      /\ step = "flush" \/ step = "send"
      /\ CanSend /\ Newer(f)
  BY SendingOurs, OursFacts DEF Send, CanSend, Reserve
<1>2. ingesting = {} /\ (Reserved # None => f.sequence > Reserved)
  BY <1>1, FirstReservation
<1>3. /\ last' = [last EXCEPT ![Node] = f.sequence]
      /\ ingesting' = {r}
      /\ UNCHANGED <<answered, archive, step, hand, sequence, spool, marked>>
  BY <1>1, <1>2 DEF Send, Reserve, Reserved, edgeVars
<1>4. \A k \in Nat : k < f.sequence => \E g \in archive : g.sequence = k
  BY <1>1, BelowSending
<1>5. Reserved' = f.sequence /\ r.frame = f /\ r.previous = Reserved
  BY <1>3, Numbers DEF IInv, TypeOK, GatewayTypeOK, Reserved
<1>6. Queued' = Queued
  BY <1>3 DEF Queued
<1>7. Numbered'
  BY <1>3, <1>6 DEF Covered, Numbered, UsedBelow, Counting
<1>8. Confirmed'
  BY <1>1, <1>3, <1>4, <1>5 DEF Confirmed
<1>9. Repeatable(f) => Repeatable(f)'
  <2>1. Repeatable(f) => Reserved = None
    <3>1. Reserved # None => Reserved \in Nat
      BY Numbers DEF IInv, TypeOK, GatewayTypeOK, Reserved, Sequences
    <3>2. QED
      BY <1>1, <1>2, <3>1 DEF Repeatable
  <2>2. QED
    BY <1>3, <1>5, <2>1 DEF Repeatable
<1>10. Answerable'
  <2>1. CASE step = "flush"
    BY <2>1, <1>1, <1>3, <1>5, <1>6, <1>9 DEF Covered, Answerable
  <2>2. CASE step = "send"
    <3>1. Queued = {}
      BY <2>2, <1>1, EmptySpool
    <3>2. QED
      BY <2>2, <3>1, <1>1, <1>3, <1>5, <1>6, <1>9 DEF Covered, Answerable
  <2>3. QED
    BY <1>1, <2>1, <2>2
<1>11. QED
  BY <1>7, <1>8, <1>10 DEF Covered

LEMMA GiveUpCovers ==
  ASSUME IInv, Covered, GiveUpSending
  PROVE  Covered'
<1>1. /\ step = "send" /\ step' = "mark" /\ spool' = Append(spool, hand)
      /\ UNCHANGED <<hand, sequence, marked, last, answered, ingesting, archive>>
  BY DEF GiveUpSending, AfterGivingUp, gatewayVars, gatewayMemory
<1>2. /\ hand # None /\ hand \in Frame /\ hand.sequence = sequence /\ spool = <<>>
      /\ Queued = {} /\ Counting
  BY <1>1, OursFacts, EmptySpool DEF IInv, Numbering, FramesKnown, Counting
<1>3. Queued' = {hand} /\ Head(spool') = hand
  <2>1. /\ spool \in Seq(Frame) /\ Queued' = Items(spool') /\ Queued = Items(spool)
    BY QueuedItems DEF IInv, TypeOK, Queued, Items
  <2>2. QED
    BY <1>1, <1>2, <2>1, SpoolAppend
<1>4. Numbered'
  <2>1. UsedBelow(marked)' /\ UsedBelow(sequence)'
    BY <1>1, <1>2, <1>3 DEF Covered, Numbered, UsedBelow
  <2>2. QED
    BY <1>1, <1>2, <1>3, <2>1 DEF Numbered
<1>5. Confirmed'
  BY <1>1 DEF Covered, Confirmed, Reserved
<1>6. Repeatable(hand)' <=> Repeatable(hand)
  BY <1>1 DEF Repeatable, Reserved
<1>7. Answerable'
  BY <1>1, <1>3, <1>6 DEF Covered, Answerable, Repeatable, Reserved
<1>8. QED
  BY <1>4, <1>5, <1>7 DEF Covered

LEMMA UnlinkCovers ==
  ASSUME IInv, Covered, Unlink
  PROVE  Covered'
<1>1. /\ step = "unlink" /\ step' = "flush" /\ spool' = Tail(spool)
      /\ UNCHANGED <<hand, sequence, marked, last, answered, ingesting, archive>>
  BY DEF Unlink, AfterUnlink, gatewayVars, gatewayMemory
<1>2. /\ spool # <<>> /\ Head(spool) \in archive /\ ingesting = {} /\ spool \in Seq(Frame)
  BY <1>1 DEF IInv, Numbering, TypeOK
<1>3. Queued = {Head(spool)} \cup Queued'
  <2>1. Queued' = Items(spool')
    BY DEF Queued, Items
  <2>2. QED
    BY <1>1, <1>2, <2>1, QueuedItems, SpoolTail
<1>4. Head(spool) \notin Queued'
  <2> SUFFICES ASSUME Head(spool) \in Items(Tail(spool)) PROVE FALSE
    BY <1>1 DEF Queued, Items
  <2>1. DOMAIN Tail(spool) = 1..(Len(spool) - 1) /\ Len(spool) \in Nat /\ DOMAIN spool = 1..Len(spool)
    BY <1>2, SpoolTail, LenProperties
  <2>2. PICK i \in DOMAIN Tail(spool) : Tail(spool)[i] = Head(spool)
    BY DEF Items
  <2>3. Tail(spool)[i] = spool[i + 1]
    BY <1>2, <2>1, <2>2, HeadTailProperties
  <2>4. Head(spool) = spool[1] /\ 1 \in DOMAIN spool /\ i + 1 \in DOMAIN spool /\ 1 < i + 1
    BY <1>2, <2>1, <2>2
  <2>5. spool[1].sequence < spool[i + 1].sequence
    BY <2>4 DEF IInv, SpoolOrdered
  <2>6. Head(spool).sequence \in Nat
    BY <1>2, HeadFirst, OursFacts
  <2>7. QED
    BY <2>2, <2>3, <2>4, <2>5, <2>6
<1>5. (archive \cup Queued)' = archive \cup Queued
  BY <1>1, <1>2, <1>3
<1>6. Numbered'
  BY <1>1, <1>3, <1>5 DEF Covered, Numbered, UsedBelow, Counting
<1>7. Confirmed'
  BY <1>1 DEF Covered, Confirmed, Reserved
<1>8. Answerable'
  BY <1>1, <1>2, <1>3, <1>4 DEF Covered, Answerable
<1>9. QED
  BY <1>6, <1>7, <1>8 DEF Covered

LEMMA EndFlushCovers ==
  ASSUME IInv, Covered, step = "flush", EndFlush
  PROVE  Covered'
<1>1. /\ hand = None => step' = "idle" /\ sequence' = NextSequence
      /\ hand # None => step' = "mark" /\ sequence' = sequence
      /\ UNCHANGED <<hand, spool, marked, last, answered, ingesting, archive>>
  BY DEF EndFlush, gatewayVars, gatewayMemory
<1>2. CASE hand # None
  <2>1. Counting' => Counting /\ sequence' = sequence
    BY <1>1, <1>2 DEF Counting
  <2>2. QED
    BY <1>1, <1>2, <2>1, CoveredQuiet
<1>3. CASE hand = None
  <2>1. Queued' = Queued
    BY <1>1 DEF Queued
  <2>2. UsedBelow(NextSequence)
    <3>1. CASE NextSequence = marked
      BY <3>1 DEF Covered, Numbered
    <3>2. CASE \E f \in Queued : NextSequence = f.sequence + 1
      <4>1. PICK f \in Queued : NextSequence = f.sequence + 1
        BY <3>2
      <4>2. f.sequence \in Nat
        BY OursFacts DEF IInv, FramesKnown
      <4>3. \A k \in Nat : k < NextSequence => k < f.sequence \/ k = f.sequence
        BY <4>1, <4>2
      <4>4. QED
        BY <4>1, <4>3 DEF Covered, Numbered, UsedBelow
    <3>3. QED
      BY <3>1, <3>2, NextIsBehind
  <2>3. Numbered'
    BY <1>1, <1>3, <2>1, <2>2 DEF Covered, Numbered, UsedBelow, Counting
  <2>4. Confirmed' /\ Answerable'
    BY <1>1, <1>3, <2>1 DEF Covered, Confirmed, Answerable, Repeatable, Reserved
  <2>5. QED
    BY <2>3, <2>4 DEF Covered
<1>4. QED
  BY <1>2, <1>3

LEMMA AcquireToSendCovers ==
  ASSUME IInv, Covered, AcquireToSend
  PROVE  Covered'
<1>1. /\ step = "idle" /\ acquired < MaxWindows /\ step' = "send"
      /\ hand' = FrameOf(acquired + 1)
      /\ UNCHANGED <<sequence, spool, marked, last, answered, ingesting, archive>>
  BY DEF AcquireToSend, gatewayVars, gatewayMemory
<1>2. hand' \notin archive
  <2>1. hand'.content = acquired + 1 /\ acquired \in Nat
    BY <1>1, NewFrame, Numbers DEF IInv
  <2>2. \A f \in archive : f.content \in Nat /\ f.content <= acquired
    BY OursFacts DEF IInv, FramesKnown
  <2>3. QED
    BY <2>1, <2>2
<1>3. Queued' = Queued
  BY <1>1 DEF Queued
<1>4. Numbered'
  BY <1>1, <1>3 DEF Covered, Numbered, UsedBelow, Counting
<1>5. Confirmed' /\ Answerable'
  BY <1>1, <1>2, <1>3 DEF Covered, Confirmed, Answerable, Repeatable, Reserved
<1>6. QED
  BY <1>4, <1>5 DEF Covered

LEMMA AcquireToQueueCovers ==
  ASSUME IInv, Covered, AcquireToQueue
  PROVE  Covered'
<1>1. /\ step = "idle" /\ acquired < MaxWindows /\ spool # <<>> /\ step' = "flush"
      /\ hand' = FrameOf(acquired + 1) /\ spool' = Append(spool, hand')
      /\ spool \in Seq(Frame)
      /\ UNCHANGED <<sequence, marked, last, answered, ingesting, archive>>
  BY DEF AcquireToQueue, gatewayVars, gatewayMemory, IInv, TypeOK
<1>2. /\ hand' \in Frame /\ hand'.content = acquired + 1 /\ hand'.sequence = sequence
      /\ acquired \in Nat
  BY <1>1, NewFrame, Numbers DEF IInv
<1>3. hand' \notin archive /\ \A r \in ingesting : r.frame # hand'
  <2>1. \A f \in Ours : f.content # acquired + 1
    <3> SUFFICES ASSUME NEW f \in Ours PROVE f.content # acquired + 1
      OBVIOUS
    <3>1. f.content \in Nat /\ f.content <= acquired
      BY OursFacts
    <3>2. QED
      BY <1>2, <3>1
  <2>2. QED
    BY <1>2, <2>1 DEF IInv, FramesKnown
<1>4. Queued' = Queued \cup {hand'} /\ Head(spool') = Head(spool)
  <2>1. Queued' = Items(spool')
    BY DEF Queued, Items
  <2>2. QED
    BY <1>1, <1>2, <2>1, QueuedItems, SpoolAppend
<1>5. Numbered'
  <2>1. UsedBelow(marked)' /\ UsedBelow(sequence)'
    BY <1>1, <1>2, <1>4 DEF Covered, Numbered, UsedBelow, Counting
  <2>2. \A f \in Queued' : UsedBelow(f.sequence)'
    BY <1>1, <1>2, <1>4 DEF Covered, Numbered, UsedBelow, Counting
  <2>3. QED
    BY <1>4, <2>1, <2>2 DEF Numbered
<1>6. Confirmed' /\ Answerable'
  BY <1>1, <1>3, <1>4 DEF Covered, Confirmed, Answerable, Repeatable, Reserved
<1>7. QED
  BY <1>5, <1>6 DEF Covered

LEMMA MarkCovers ==
  ASSUME IInv, Covered, Mark
  PROVE  Covered'
<1>1. /\ step = "mark" /\ step' = "idle" /\ hand' = None
      /\ sequence' = sequence + 1 /\ marked' = sequence + 1
      /\ UNCHANGED <<spool, last, answered, ingesting, archive>>
  BY DEF Mark, gatewayVars, gatewayMemory
<1>2. /\ hand # None /\ hand.sequence = sequence /\ sequence \in Nat
      /\ hand \in archive \cup Queued /\ Counting
  BY <1>1, Numbers DEF IInv, Numbering, FramesKnown, Kept, Counting
<1>3. Queued' = Queued
  BY <1>1 DEF Queued
<1>4. UsedBelow(sequence + 1)
  <2>1. \A k \in Nat : k < sequence + 1 => k < sequence \/ k = sequence
    BY <1>2
  <2>2. QED
    BY <1>2, <2>1 DEF Covered, Numbered, UsedBelow
<1>5. Numbered'
  BY <1>1, <1>3, <1>4 DEF Covered, Numbered, UsedBelow
<1>6. Confirmed' /\ Answerable'
  BY <1>1, <1>3 DEF Covered, Confirmed, Answerable, Repeatable, Reserved
<1>7. QED
  BY <1>5, <1>6 DEF Covered

\* While r is in the await, only its own frame can be repeated.
LEMMA OnlyItself ==
  ASSUME IInv, NEW r \in ingesting, NEW f, Repeatable(f)
  PROVE  f = r.frame /\ r.previous = None
<1>1. /\ Reserved = r.frame.sequence /\ Reserved \in Nat
      /\ r.previous # None => r.previous < r.frame.sequence /\ r.previous \in Nat
      /\ \A g \in answered : r.previous # None /\ g.sequence <= r.previous
  BY TheReservation
<1>2. Reserved # None
  BY <1>1, GatewayAssumption
<1>3. f \notin answered
  <2> SUFFICES ASSUME f \in answered PROVE FALSE
    OBVIOUS
  <2>1. Reserved = f.sequence /\ f.sequence <= r.previous /\ r.previous # None
    BY <1>1, <1>2 DEF Repeatable
  <2>2. QED
    BY <1>1, <2>1
<1>4. PICK q \in ingesting : q.frame = f /\ q.previous = None
  BY <1>2, <1>3 DEF Repeatable
<1>5. q = r
  BY DEF IInv, Single
<1>6. QED
  BY <1>4, <1>5

LEMMA InferCovers ==
  ASSUME IInv, Covered, Infer
  PROVE  Covered'
<1>1. PICK r \in ingesting : Commit(r)
  BY DEF Infer, Commit
<1>2. /\ ingesting' = {} /\ archive' = archive \cup {r.frame} /\ r.frame \in answered'
      /\ UNCHANGED <<last, step, hand, sequence, spool, marked>>
  BY <1>1, TheReservation DEF Commit, Infer, edgeVars
<1>3. Reserved' = r.frame.sequence /\ Reserved = r.frame.sequence /\ Reserved # None
  BY <1>2, TheReservation, GatewayAssumption DEF Reserved
<1>4. Queued' = Queued
  BY <1>2 DEF Queued
<1>5. Numbered'
  BY <1>2, <1>4 DEF Covered, Numbered, UsedBelow, Counting
<1>6. Confirmed'
  <2>1. \A q \in ingesting : q = r
    BY DEF IInv, Single
  <2>2. QED
    BY <1>2, <1>3, <2>1 DEF Covered, Confirmed
<1>7. Repeatable(r.frame)'
  BY <1>2, <1>3 DEF Repeatable
<1>8. \A f : Repeatable(f) => f = r.frame
  BY OnlyItself
<1>9. Answerable'
  BY <1>2, <1>4, <1>7, <1>8 DEF Covered, Answerable
<1>10. QED
  BY <1>5, <1>6, <1>9 DEF Covered

LEMMA InferFailsCovers ==
  ASSUME IInv, Covered, InferFails
  PROVE  Covered'
<1>1. PICK r \in ingesting : Fail(r)
  BY DEF InferFails, Fail
<1>2. /\ ingesting' = {} /\ last' = [last EXCEPT ![Node] = r.previous]
      /\ UNCHANGED <<archive, answered, step, hand, sequence, spool, marked>>
  <2>1. r.frame.node = Node /\ NumberAfterFailure(r) = r.previous
    BY TheReservation DEF NumberAfterFailure, Reserved
  <2>2. QED
    BY <1>1, <2>1, TheReservation DEF Fail, InferFails, edgeVars
<1>3. Reserved' = r.previous /\ Reserved = r.frame.sequence /\ Reserved # None
  <2>1. Node \in Nodes /\ last \in [Nodes -> Sequences \cup {None}]
    BY Numbers DEF IInv, TypeOK, GatewayTypeOK
  <2>2. QED
    BY <1>2, <2>1, TheReservation, GatewayAssumption DEF Reserved
<1>4. Queued' = Queued
  BY <1>2 DEF Queued
<1>5. Numbered'
  BY <1>2, <1>4 DEF Covered, Numbered, UsedBelow, Counting
<1>6. Confirmed'
  <2> SUFFICES ASSUME r.previous # None, NEW k \in Nat, k <= r.previous
               PROVE  \E g \in archive : g.sequence = k
    BY <1>2, <1>3 DEF Confirmed
  <2>1. /\ r.previous \in Nat /\ r.previous < r.frame.sequence /\ r.frame.sequence \in Nat
    BY TheReservation
  <2>2. k <= Reserved /\ k # r.frame.sequence
    BY <1>3, <2>1
  <2>3. \A q \in ingesting : q = r
    BY DEF IInv, Single
  <2>4. QED
    BY <1>3, <2>2, <2>3 DEF Covered, Confirmed
<1>7. \A f : Repeatable(f) => Repeatable(f)'
  BY <1>3, OnlyItself DEF Repeatable
<1>8. Answerable'
  BY <1>2, <1>4, <1>7 DEF Covered, Answerable
<1>9. QED
  BY <1>5, <1>6, <1>8 DEF Covered

LEMMA RestartCovers ==
  ASSUME IInv, Covered, ServerRestart
  PROVE  Covered'
<1>1. /\ ingesting' = {} /\ last' = [n \in Nodes |-> None]
      /\ UNCHANGED <<archive, step, hand, sequence, spool, marked>>
  BY DEF ServerRestart, ForgetMemory, edgeVars
<1>2. Reserved' = None
  BY <1>1, EdgeAssumption DEF Reserved
<1>3. Queued' = Queued
  BY <1>1 DEF Queued
<1>4. Numbered'
  BY <1>1, <1>3 DEF Covered, Numbered, UsedBelow, Counting
<1>5. Confirmed' /\ Answerable'
  BY <1>1, <1>2, <1>3 DEF Covered, Confirmed, Answerable, Repeatable
<1>6. QED
  BY <1>4, <1>5 DEF Covered

LEMMA NextCovers ==
  ASSUME IInv, Covered, [Next]_vars
  PROVE  Covered'
<1>1. CASE Start \/ Acknowledged \/ AcquireFull \/ Finish \/ EdgeCrash \/ UNCHANGED vars
  <2>1. UNCHANGED <<spool, archive, last, answered, ingesting, marked>>
    BY <1>1 DEF Start, Acknowledged, AcquireFull, Finish, EdgeCrash,
                vars, edgeVars, gatewayVars, gatewayMemory
  <2>2. step' # "send" \/ UNCHANGED <<step, hand>>
    BY <1>1 DEF Start, Acknowledged, AcquireFull, Finish, EdgeCrash, Dead,
                vars, edgeVars
  <2>3. Counting' => Counting /\ sequence' = sequence
    BY <1>1 DEF Start, Acknowledged, AcquireFull, Finish, EdgeCrash, Dead, Counting,
                vars, edgeVars, IInv, Numbering
  <2>4. QED
    BY <2>1, <2>2, <2>3, CoveredQuiet
<1>2. CASE Send
  BY <1>2, SendCovers
<1>3. CASE GiveUpSending
  BY <1>3, GiveUpCovers
<1>4. CASE Unlink
  BY <1>4, UnlinkCovers
<1>5. CASE FlushDone \/ FlushStops
  BY <1>5, EndFlushCovers DEF FlushDone, FlushStops
<1>6. CASE AcquireToSend
  BY <1>6, AcquireToSendCovers
<1>7. CASE AcquireToQueue
  BY <1>7, AcquireToQueueCovers
<1>8. CASE Mark
  BY <1>8, MarkCovers
<1>9. CASE Infer
  BY <1>9, InferCovers
<1>10. CASE InferFails
  BY <1>10, InferFailsCovers
<1>11. CASE ServerRestart
  BY <1>11, RestartCovers
<1>12. QED
  BY <1>1, <1>2, <1>3, <1>4, <1>5, <1>6, <1>7, <1>8, <1>9, <1>10, <1>11 DEF Next, Publisher

\* Every number below the saved one, the next one and any queued one belongs to a
\* stored frame, and a queued frame that is archived already is answered again.
THEOREM NumbersCovered == Spec => []Covered
<1>1. Init => Covered
  <2> SUFFICES ASSUME Init PROVE Covered
    OBVIOUS
  <2>1. /\ archive = {} /\ ingesting = {} /\ Queued = {} /\ marked = 0
        /\ step = "down" /\ hand = None /\ last = [n \in Nodes |-> None]
    BY EmptySpool DEF Init, GatewayInit, EmptyMemory
  <2>2. Reserved = None
    BY <2>1, EdgeAssumption DEF Reserved
  <2>3. Numbered
    BY <2>1 DEF Numbered, UsedBelow, Counting
  <2>4. QED
    BY <2>1, <2>2, <2>3 DEF Covered, Confirmed, Answerable
<1>2. IInv /\ Covered /\ [Next]_vars => Covered'
  BY NextCovers
<1>3. QED
  BY <1>1, <1>2, Invariance, PTL DEF Spec

\* Two stored frames with one number and one window are the same frame.
LEMMA SameFrame ==
  ASSUME NEW f \in Ours, NEW g \in Ours, f.sequence = g.sequence, f.content = g.content
  PROVE  f = g
<1>1. f \in Frame /\ g \in Frame /\ f.node = g.node /\ f.asset = g.asset /\ f.campaign = g.campaign
     /\ f.origin = g.origin
  BY DEF Ours
<1>2. QED
  BY <1>1 DEF Frame

\* A queued frame is refused for good only when another window got its number, as
\* a server that failed late or an edge node that died early makes possible
\* (gateway.py:112-127, cli.py:106-141).
THEOREM BlockedByReuseOnly == Spec => []BlockedOnlyByReuse
<1>1. IInv /\ Covered => BlockedOnlyByReuse
  <2> SUFFICES ASSUME IInv, Covered, NEW f \in Queued, Known(f), Refused(f), ingesting = {}
               PROVE  \E g \in archive : g.sequence = f.sequence /\ g.content # f.content
    BY DEF BlockedOnlyByReuse
  <2>1. f \in Ours /\ f.node = Node /\ f.sequence \in Nat
    BY OursFacts DEF IInv, FramesKnown
  <2>2. Reserved # None /\ ~ (f.sequence > Reserved) /\ ~ Repeated(f)
    BY <2>1 DEF Refused, Newer, Reserved
  <2>3. Reserved \in Nat /\ f.sequence <= Reserved
    <3>1. Reserved \in Nat
      BY <2>2, Numbers DEF IInv, TypeOK, GatewayTypeOK, Reserved, Sequences
    <3>2. QED
      BY <2>1, <2>2, <3>1
  <2>4. PICK g \in archive : g.sequence = f.sequence
    BY <2>1, <2>2, <2>3 DEF Covered, Confirmed
  <2>5. f \notin archive
    BY <2>1, <2>2 DEF Covered, Answerable, Repeatable, Repeated, Reserved
  <2>6. g \in Ours
    BY DEF IInv, FramesKnown
  <2>7. QED
    BY <2>1, <2>4, <2>5, <2>6, SameFrame
<1>2. QED
  BY <1>1, Invariance, NumbersCovered, PTL

=============================================================================
