-------------------------- MODULE BranchTreeProofs --------------------------
(***************************************************************************)
(* Theorems about the tree of research branches, for every tree: what a    *)
(* branch descends from, how records are added and inherited, what a tick  *)
(* of the scheduler makes of a tree wherever it ends, and the range of     *)
(* lineage scores.                                                         *)
(*                                                                         *)
(* The recursions of BranchTree and Scheduler run along numbers, and so do *)
(* the proofs: an induction hypothesis is stated as a set of numbers.      *)
(***************************************************************************)
EXTENDS Scheduler, LineageScore, SequenceTheorems, WellFoundedInduction, TLAPS

(* A nonempty set of numbers has a least one.                               *)
LEMMA LeastNumber ==
  ASSUME NEW T \in SUBSET Nat, T # {}
  PROVE  \E m \in T : \A k \in T : m <= k
<1>1. PICK m \in T : \A k \in T : <<k, m>> \notin OpToRel(<, Nat)
  BY NatLessThanWellFounded, WFMin
<1>2. \A k \in T : ~(k < m)
  BY <1>1 DEF OpToRel
<1>3. QED
  BY <1>2

(* Induction, for a property given as a set of numbers.                     *)
LEMMA SetInduction ==
  ASSUME NEW T, 0 \in T, \A n \in Nat : n \in T => n + 1 \in T
  PROVE  \A n \in Nat : n \in T
<1> DEFINE U == {n \in Nat : n \notin T}
<1> SUFFICES ASSUME U # {} PROVE FALSE
  OBVIOUS
<1>1. PICK m \in U : \A k \in U : m <= k
  <2> HIDE DEF U
  <2>1. U \in SUBSET Nat
    BY DEF U
  <2>2. QED
    BY <2>1, LeastNumber
<1>2. m \in Nat /\ m # 0
  OBVIOUS
<1>3. m - 1 \in Nat /\ m - 1 \notin U
  BY <1>1, <1>2
<1>4. QED
  BY <1>2, <1>3

-----------------------------------------------------------------------------
(* Trees *)

(* Parents come first, and a record was made among no more branches than    *)
(* there are.                                                               *)
Tree(x) ==
  /\ x \in Seq(Branch)
  /\ \A b \in DOMAIN x :
       /\ x[b].parent < b
       /\ \A k \in DOMAIN x[b].negatives : x[b].negatives[k].among <= Len(x)

(* y is what x may become: branches and records are added, and those of x   *)
(* keep where they come from.                                               *)
Lasting(u, v) ==
  /\ DOMAIN u.negatives \subseteq DOMAIN v.negatives
  /\ \A k \in DOMAIN u.negatives :
       v.negatives[k].source = u.negatives[k].source /\ v.negatives[k].among = u.negatives[k].among

Continues(x, y) ==
  /\ Len(x) <= Len(y)
  /\ \A b \in DOMAIN x :
       y[b].parent = x[b].parent /\ y[b].cause = x[b].cause /\ Lasting(x[b], y[b])

LEMMA TreeBasics ==
  ASSUME NEW x, Tree(x)
  PROVE  /\ Len(x) \in Nat /\ DOMAIN x = 1..Len(x)
         /\ \A b \in DOMAIN x :
              /\ b \in Nat /\ b # 0 /\ x[b] \in Branch
              /\ x[b].parent \in Nat /\ x[b].parent < b
              /\ x[b].parent # 0 => x[b].parent \in DOMAIN x
<1>1. x \in Seq(Branch) /\ \A b \in DOMAIN x : x[b].parent < b
  BY DEF Tree
<1>2. Len(x) \in Nat /\ DOMAIN x = 1..Len(x) /\ \A b \in DOMAIN x : x[b] \in Branch
  BY <1>1
<1>3. \A b \in DOMAIN x : x[b].parent \in Nat
  BY <1>2 DEF Branch
<1>4. QED
  BY <1>1, <1>2, <1>3

(* The recursion of Ancestors ends, because parents come first.             *)
LEMMA AncestorsOf ==
  ASSUME NEW x, Tree(x)
  PROVE  /\ DOMAIN Ancestors(x) = DOMAIN x
         /\ \A b \in DOMAIN x : Ancestors(x)[b] =
              IF x[b].parent = 0 THEN {} ELSE {x[b].parent} \cup Ancestors(x)[x[b].parent]
<1> DEFINE Right(f, n) ==
             f = [b \in 1..n |-> IF x[b].parent = 0 THEN {} ELSE {x[b].parent} \cup f[x[b].parent]]
           T == {n \in Nat : n <= Len(x) => \E f : Right(f, n)}
<1>1. 0 \in T
  <2>1. Right([b \in 1..0 |-> {}], 0)
    OBVIOUS
  <2>2. QED
    BY <2>1
<1>2. ASSUME NEW n \in Nat, n \in T PROVE n + 1 \in T
  <2> SUFFICES ASSUME n + 1 <= Len(x) PROVE \E f : Right(f, n + 1)
    OBVIOUS
  <2>1. n <= Len(x)
    BY TreeBasics
  <2>2. PICK f : Right(f, n)
    BY <1>2, <2>1
  <2> DEFINE p == x[n + 1].parent
             top == IF p = 0 THEN {} ELSE {p} \cup f[p]
             g == [b \in 1..(n + 1) |-> IF b = n + 1 THEN top ELSE f[b]]
  <2>3. \A b \in 1..(n + 1) : x[b].parent \in Nat /\ x[b].parent < b
    BY TreeBasics
  <2>4. ASSUME NEW b \in 1..(n + 1)
        PROVE  g[b] = IF x[b].parent = 0 THEN {} ELSE {x[b].parent} \cup g[x[b].parent]
    <3>1. x[b].parent # 0 => x[b].parent \in 1..n /\ g[x[b].parent] = f[x[b].parent]
      BY <2>3
    <3>2. CASE b = n + 1
      BY <3>1, <3>2
    <3>3. CASE b # n + 1
      <4>1. b \in 1..n
        BY <3>3
      <4>2. f[b] = IF x[b].parent = 0 THEN {} ELSE {x[b].parent} \cup f[x[b].parent]
        BY <2>2, <4>1
      <4>3. QED
        BY <3>1, <3>3, <4>1, <4>2
    <3>4. QED
      BY <3>2, <3>3
  <2> HIDE DEF top
  <2>5. Right(g, n + 1)
    <3>1. g = [b \in 1..(n + 1) |-> g[b]]
      OBVIOUS
    <3> HIDE DEF g
    <3>2. QED
      BY <3>1, <2>4
  <2>6. QED
    BY <2>5
<1>3. Len(x) \in T
  <2> HIDE DEF T
  <2>1. QED
    BY <1>1, <1>2, SetInduction, TreeBasics
<1>4. \E f : Right(f, Len(x))
  BY <1>3, TreeBasics
<1>5. Ancestors(x) = CHOOSE f : Right(f, Len(x))
  BY TreeBasics DEF Ancestors
<1>6. Right(Ancestors(x), Len(x))
  BY <1>4, <1>5
<1>7. QED
  BY <1>6, TreeBasics

(* A branch comes after its ancestors.                                      *)
LEMMA AncestorsFirst ==
  ASSUME NEW x, Tree(x)
  PROVE  \A d \in DOMAIN x : Ancestors(x)[d] \subseteq 1..(d - 1)
<1> DEFINE T == {d \in DOMAIN x : ~(Ancestors(x)[d] \subseteq 1..(d - 1))}
<1> SUFFICES ASSUME T # {} PROVE FALSE
  OBVIOUS
<1>1. PICK d \in T : \A k \in T : d <= k
  <2>1. T \in SUBSET Nat
    BY TreeBasics
  <2> HIDE DEF T
  <2>2. QED
    BY <2>1, LeastNumber
<1> DEFINE p == x[d].parent
<1>2. d \in Nat /\ d \in DOMAIN x /\ p \in Nat /\ p < d /\ (p # 0 => p \in DOMAIN x)
  BY TreeBasics
<1>3. p # 0 => Ancestors(x)[p] \subseteq 1..(p - 1)
  BY <1>1, <1>2
<1>4. Ancestors(x)[d] = IF p = 0 THEN {} ELSE {p} \cup Ancestors(x)[p]
  BY <1>2, AncestorsOf
<1>5. Ancestors(x)[d] \subseteq 1..(d - 1)
  BY <1>2, <1>3, <1>4
<1>6. QED
  BY <1>5

(* What comes later does not change the ancestors of a branch.              *)
LEMMA AncestorsStay ==
  ASSUME NEW x, NEW y, Tree(x), Tree(y), Continues(x, y)
  PROVE  \A d \in DOMAIN x : d \in DOMAIN y /\ Ancestors(y)[d] = Ancestors(x)[d]
<1> DEFINE T == {d \in DOMAIN x : Ancestors(y)[d] # Ancestors(x)[d]}
<1>1. DOMAIN x \subseteq DOMAIN y /\ \A d \in DOMAIN x : y[d].parent = x[d].parent
  BY TreeBasics DEF Continues
<1> SUFFICES ASSUME T # {} PROVE FALSE
  BY <1>1
<1>2. PICK d \in T : \A k \in T : d <= k
  <2>1. T \in SUBSET Nat
    BY TreeBasics
  <2> HIDE DEF T
  <2>2. QED
    BY <2>1, LeastNumber
<1> DEFINE p == x[d].parent
<1>3. d \in Nat /\ d \in DOMAIN x /\ p \in Nat /\ p < d /\ (p # 0 => p \in DOMAIN x)
  BY TreeBasics
<1>4. p # 0 => Ancestors(y)[p] = Ancestors(x)[p]
  BY <1>2, <1>3
<1>5. Ancestors(x)[d] = IF p = 0 THEN {} ELSE {p} \cup Ancestors(x)[p]
  BY <1>3, AncestorsOf
<1>6. Ancestors(y)[d] = IF p = 0 THEN {} ELSE {p} \cup Ancestors(y)[p]
  <2>1. d \in DOMAIN y /\ y[d].parent = p
    BY <1>1, <1>3
  <2>2. \A b \in DOMAIN y : Ancestors(y)[b] =
          IF y[b].parent = 0 THEN {} ELSE {y[b].parent} \cup Ancestors(y)[y[b].parent]
    BY AncestorsOf
  <2>3. QED
    BY <2>1, <2>2
<1>7. QED
  BY <1>4, <1>5, <1>6

LEMMA ContinuesTransitive ==
  ASSUME NEW x, NEW y, NEW z, Tree(x), Tree(y), Tree(z), Continues(x, y), Continues(y, z)
  PROVE  Continues(x, z)
<1>1. DOMAIN x \subseteq DOMAIN y /\ Len(x) <= Len(z)
  BY TreeBasics DEF Continues
<1>2. \A b \in DOMAIN x : Lasting(x[b], z[b])
  BY <1>1 DEF Continues, Lasting
<1>3. QED
  BY <1>1, <1>2 DEF Continues

LEMMA ContinuesItself ==
  ASSUME NEW x, Tree(x)
  PROVE  Continues(x, x)
BY TreeBasics DEF Continues, Lasting

-----------------------------------------------------------------------------
(* Records of branches *)

LEMMA IdTypes ==
  /\ NoId \in Id
  /\ \A kind \in {"negative", "trial", "council", "obstacle", "challenge"}, of \in Nat, number \in Nat :
       /\ Named(kind, of, number) \in Id \ {NoId}
       /\ Named(kind, of, number).kind = kind /\ Named(kind, of, number).of = of
       /\ Named(kind, of, number).number = number
BY DEF NoId, Id, Named

LEMMA BranchTypes ==
  ASSUME NEW u \in Branch
  PROVE  /\ u.negatives \in Seq(Negative)
         /\ \A k \in DOMAIN u.negatives :
              /\ u.negatives[k] \in Negative /\ u.negatives[k].among \in Nat
              /\ u.negatives[k].source \in Id
<1>1. u.negatives \in Seq(Negative)
  BY DEF Branch
<1>2. \A k \in DOMAIN u.negatives : u.negatives[k] \in Negative
  BY <1>1
<1>3. QED
  BY <1>1, <1>2 DEF Negative

LEMMA Touching ==
  ASSUME NEW u \in Branch
  PROVE  /\ Touched(u) \in Branch /\ Touched(u).parent = u.parent /\ Touched(u).cause = u.cause
         /\ Touched(u).negatives = u.negatives
BY DEF Touched, Branch

LEMMA AddingNegative ==
  ASSUME NEW u \in Branch, NEW source \in Id, NEW among \in Nat,
         NEW v, v = WithNegative(u, source, among), NEW n, n = Len(u.negatives) + 1
  PROVE  /\ v \in Branch /\ v.parent = u.parent /\ v.cause = u.cause
         /\ n \in Nat \ {0} /\ DOMAIN v.negatives = 1..n /\ DOMAIN u.negatives = 1..(n - 1)
         /\ v.negatives[n].source = source /\ v.negatives[n].among = among
         /\ \A k \in DOMAIN u.negatives : v.negatives[k] = u.negatives[k]
<1> DEFINE e == [source |-> source, resolved |-> FALSE, among |-> among]
           more == Append(u.negatives, e)
           w == [u EXCEPT !.negatives = more]
<1>1. e \in Negative /\ e.source = source /\ e.among = among
  BY DEF Negative
<1>2. u.negatives \in Seq(Negative)
  BY DEF Branch
<1> HIDE DEF e
<1>3. /\ n \in Nat \ {0} /\ more \in Seq(Negative) /\ DOMAIN more = 1..n /\ DOMAIN u.negatives = 1..(n - 1)
      /\ more[n] = e /\ \A k \in DOMAIN u.negatives : more[k] = u.negatives[k]
  BY <1>1, <1>2
<1> HIDE DEF more
<1>4. w \in Branch /\ w.negatives = more /\ w.parent = u.parent /\ w.cause = u.cause
  BY <1>3 DEF Branch
<1>5. v = Touched(w)
  BY DEF WithNegative, more, e
<1> HIDE DEF w
<1>6. QED
  BY <1>1, <1>3, <1>4, <1>5, Touching

(* Records may be added to every branch of a tree.                          *)
LEMMA MoreRecords ==
  ASSUME NEW x, Tree(x), NEW y, DOMAIN y = DOMAIN x,
         \A b \in DOMAIN x :
           /\ y[b] \in Branch /\ y[b].parent = x[b].parent /\ y[b].cause = x[b].cause
           /\ Lasting(x[b], y[b])
           /\ \A k \in DOMAIN y[b].negatives \ DOMAIN x[b].negatives :
                y[b].negatives[k].among <= Len(x),
         y = [b \in DOMAIN x |-> y[b]]
  PROVE  Tree(y) /\ Continues(x, y) /\ Len(y) = Len(x)
<1>1. Len(x) \in Nat /\ DOMAIN x = 1..Len(x) /\ \A b \in DOMAIN x : x[b].parent < b
  BY TreeBasics
<1>2. y \in Seq(Branch) /\ Len(y) = Len(x)
  <2>1. y \in [1..Len(x) -> Branch]
    BY <1>1
  <2>2. QED
    BY <1>1, <2>1
<1>3. ASSUME NEW b \in DOMAIN y, NEW k \in DOMAIN y[b].negatives
      PROVE  y[b].negatives[k].among <= Len(y)
  BY <1>2 DEF Tree, Lasting
<1>4. QED
  BY <1>1, <1>2, <1>3 DEF Tree, Continues

(* Propagation reaches all targets and adds inherited records alone.        *)
LEMMA Propagating ==
  ASSUME NEW x, Tree(x), NEW targets, NEW id \in Id \ {NoId},
         NEW y, y = Propagated(x, targets, id)
  PROVE  /\ Tree(y) /\ Continues(x, y) /\ Len(y) = Len(x)
         /\ \A d \in DOMAIN x : Originals(y[d]) = Originals(x[d]) /\ (d \in targets => Inherits(y[d], id))
<1>1. DOMAIN y = DOMAIN x /\ y = [b \in DOMAIN x |-> y[b]]
  BY DEF Propagated
<1>2. ASSUME NEW b \in DOMAIN x
      PROVE  /\ y[b] \in Branch /\ y[b].parent = x[b].parent /\ y[b].cause = x[b].cause
             /\ Lasting(x[b], y[b])
             /\ \A k \in DOMAIN y[b].negatives \ DOMAIN x[b].negatives :
                  y[b].negatives[k].among <= Len(x)
             /\ Originals(y[b]) = Originals(x[b]) /\ (b \in targets => Inherits(y[b], id))
  <2>1. Len(x) \in Nat /\ x[b] \in Branch
    BY TreeBasics
  <2>2. CASE b \in targets /\ ~Inherits(x[b], id)
    <3> DEFINE v == WithNegative(x[b], id, Len(x))
               n == Len(x[b].negatives) + 1
    <3>1. /\ v \in Branch /\ v.parent = x[b].parent /\ v.cause = x[b].cause
          /\ n \in Nat \ {0} /\ DOMAIN v.negatives = 1..n /\ DOMAIN x[b].negatives = 1..(n - 1)
          /\ v.negatives[n].source = id /\ v.negatives[n].among = Len(x)
          /\ \A k \in DOMAIN x[b].negatives : v.negatives[k] = x[b].negatives[k]
      <4> HIDE DEF v, n
      <4> QED BY <2>1, AddingNegative DEF v, n
    <3>2. y[b] = v
      BY <2>2 DEF Propagated
    <3> HIDE DEF v, n
    <3>3. /\ \A k \in DOMAIN v.negatives : k \in DOMAIN x[b].negatives \/ k = n
          /\ n \in DOMAIN v.negatives
          /\ DOMAIN x[b].negatives \subseteq DOMAIN v.negatives
      BY <3>1
    <3>4. Lasting(x[b], v) /\ Originals(v) = Originals(x[b]) /\ Inherits(v, id)
      BY <3>1, <3>3 DEF Lasting, Originals, Inherits
    <3>5. QED
      BY <2>1, <3>1, <3>2, <3>3, <3>4
  <2>3. CASE ~(b \in targets /\ ~Inherits(x[b], id))
    <3>1. y[b] = x[b]
      BY <2>3 DEF Propagated
    <3>2. QED
      BY <2>1, <2>3, <3>1 DEF Lasting
  <2>4. QED
    BY <2>2, <2>3
<1>3. QED
  BY <1>1, <1>2, MoreRecords

-----------------------------------------------------------------------------
(* The scheduler *)

LEMMA GreatestNumber ==
  ASSUME NEW n \in Nat, NEW T \in SUBSET (1..n), T # {}
  PROVE  \E m \in T : \A k \in T : k <= m
<1> DEFINE U == {n - k : k \in T}
<1>1. U \in SUBSET Nat /\ U # {}
  <2>1. \A k \in T : n - k \in Nat
    OBVIOUS
  <2>2. QED
    BY <2>1
<1>2. PICK u \in U : \A v \in U : u <= v
  <2> HIDE DEF U
  <2>1. QED
    BY <1>1, LeastNumber
<1>3. PICK m \in T : u = n - m
  OBVIOUS
<1>4. \A k \in T : n - m <= n - k
  BY <1>2, <1>3
<1>5. QED
  BY <1>4

LEMMA EarliestIn ==
  ASSUME NEW S \in SUBSET Nat, S # {}
  PROVE  Earliest(S) \in S
BY LeastNumber DEF Earliest

LEMMA LatestIn ==
  ASSUME NEW n \in Nat, NEW S \in SUBSET (1..n), S # {}
  PROVE  Latest(S) \in S
BY GreatestNumber DEF Latest

(* What a tick has come to, when the tree was x and earlier ticks acted on  *)
(* `memory': it made one branch for each of some causes, all of them from   *)
(* `causes', and acted on none twice.                                       *)
Going(x, memory, causes, t) ==
  /\ Tree(t.tree) /\ Continues(x, t.tree) /\ t.acted \subseteq Id
  /\ \A b \in DOMAIN x : Originals(t.tree[b]) = Originals(x[b])
  /\ \A d \in DOMAIN t.tree \ DOMAIN x :
       /\ Originals(t.tree[d]) = {}
       /\ t.tree[d].cause \in (causes \cap t.acted) \ (memory \cup {NoId})
  /\ \A d, e \in DOMAIN t.tree \ DOMAIN x : t.tree[d].cause = t.tree[e].cause => d = e

LEMMA GoingWider ==
  ASSUME NEW x, NEW memory, NEW causes, NEW more, causes \subseteq more, NEW t,
         Going(x, memory, causes, t)
  PROVE  Going(x, memory, more, t)
BY DEF Going

LEMMA Beginning ==
  ASSUME NEW x, Tree(x), NEW memory, NEW t, t = Begun(x)
  PROVE  Going(x, memory, {}, t)
<1>1. t.tree = x /\ t.acted = {}
  BY DEF Begun
<1>2. QED
  BY <1>1, ContinuesItself DEF Going

LEMMA NewBranchType ==
  ASSUME NEW parent \in Nat, NEW id \in Id, NEW u, u = NewBranch(parent, id)
  PROVE  /\ u \in Branch /\ u.parent = parent /\ u.cause = id /\ DOMAIN u.negatives = {}
         /\ Originals(u) = {}
<1>1. u \in Branch /\ u.parent = parent /\ u.cause = id /\ u.negatives = <<>>
  BY DEF NewBranch, Branch
<1>2. DOMAIN u.negatives = {}
  BY <1>1
<1>3. QED
  BY <1>1, <1>2 DEF Originals

LEMMA OneMoreBranch ==
  ASSUME NEW x, Tree(x), NEW parent \in 0..Len(x), NEW id \in Id,
         NEW y, y = Append(x, NewBranch(parent, id))
  PROVE  /\ Tree(y) /\ Continues(x, y) /\ Len(y) = Len(x) + 1
         /\ \A b \in DOMAIN x : y[b] = x[b]
         /\ DOMAIN y = DOMAIN x \cup {Len(y)} /\ y[Len(y)] = NewBranch(parent, id)
<1> DEFINE u == NewBranch(parent, id)
           n == Len(x)
<1>1. n \in Nat /\ DOMAIN x = 1..n /\ x \in Seq(Branch) /\ \A b \in DOMAIN x : x[b].parent < b
  BY TreeBasics DEF Tree
<1>2. /\ u \in Branch /\ u.parent = parent /\ u.cause = id /\ DOMAIN u.negatives = {}
      /\ Originals(u) = {}
  <2> HIDE DEF u
  <2>1. QED
    BY <1>1, NewBranchType DEF u
<1> HIDE DEF u
<1>3. /\ y \in Seq(Branch) /\ Len(y) = n + 1 /\ DOMAIN y = 1..(n + 1)
      /\ y[n + 1] = u /\ \A b \in 1..n : y[b] = x[b]
  BY <1>1, <1>2 DEF u
<1>4. Tree(y)
  <2>1. ASSUME NEW b \in DOMAIN y
        PROVE  y[b].parent < b /\ \A k \in DOMAIN y[b].negatives : y[b].negatives[k].among <= Len(y)
    <3>1. CASE b = n + 1
      BY <1>1, <1>2, <1>3, <3>1
    <3>2. CASE b # n + 1
      <4>1. b \in 1..n /\ y[b] = x[b]
        BY <1>1, <1>3, <3>2
      <4>2. x[b] \in Branch
        BY <1>1, <4>1
      <4>3. \A k \in DOMAIN x[b].negatives : x[b].negatives[k].among \in Nat
        BY <4>2, BranchTypes
      <4>4. \A k \in DOMAIN x[b].negatives : x[b].negatives[k].among <= n
        BY <1>1, <4>1 DEF Tree
      <4>5. QED
        BY <1>1, <1>3, <4>1, <4>3, <4>4
    <3>3. QED
      BY <3>1, <3>2
  <2>2. QED
    BY <1>3, <2>1 DEF Tree
<1>5. Continues(x, y)
  BY <1>1, <1>3 DEF Continues, Lasting
<1>6. QED
  BY <1>1, <1>3, <1>4, <1>5 DEF u

(* A new cause, on which no tick has acted.                                 *)
LEMMA Spawning ==
  ASSUME NEW x, Tree(x), NEW memory, NEW causes, NEW t, Going(x, memory, causes, t),
         NEW parent \in 0..Len(t.tree), NEW id \in Id \ (causes \cup memory \cup {NoId}),
         NEW u, u = Spawn(t, parent, id)
  PROVE  Going(x, memory, causes \cup {id}, u)
<1>1. u.tree = Append(t.tree, NewBranch(parent, id)) /\ u.acted = t.acted \cup {id}
  BY DEF Spawn
<1>2. Tree(t.tree) /\ Continues(x, t.tree)
  BY DEF Going
<1>3. /\ Tree(u.tree) /\ Continues(t.tree, u.tree)
      /\ \A b \in DOMAIN t.tree : u.tree[b] = t.tree[b]
      /\ \A d \in DOMAIN u.tree \ DOMAIN t.tree :
           d = Len(u.tree) /\ u.tree[d].cause = id /\ Originals(u.tree[d]) = {}
  <2> DEFINE s == t.tree
             r == u.tree
  <2>1. Tree(s) /\ parent \in 0..Len(s) /\ id \in Id /\ r = Append(s, NewBranch(parent, id))
    BY <1>1, <1>2
  <2> HIDE DEF s, r
  <2>2. /\ Tree(r) /\ Continues(s, r)
        /\ \A b \in DOMAIN s : r[b] = s[b]
        /\ DOMAIN r = DOMAIN s \cup {Len(r)} /\ r[Len(r)].cause = id /\ Originals(r[Len(r)]) = {}
    <3>1. Tree(r)
      BY <2>1, OneMoreBranch
    <3>2. Continues(s, r)
      BY <2>1, OneMoreBranch
    <3>3. \A b \in DOMAIN s : r[b] = s[b]
      BY <2>1, OneMoreBranch
    <3>4. DOMAIN r = DOMAIN s \cup {Len(r)}
      BY <2>1, OneMoreBranch
    <3>5. r[Len(r)] = NewBranch(parent, id)
      BY <2>1, OneMoreBranch
    <3>6. parent \in Nat
      OBVIOUS
    <3>7. r[Len(r)].cause = id /\ Originals(r[Len(r)]) = {}
      BY <2>1, <3>5, <3>6, NewBranchType
    <3>8. QED
      BY <3>1, <3>2, <3>3, <3>4, <3>7
  <2>3. QED
    BY <2>2 DEF s, r
<1>4. DOMAIN x \subseteq DOMAIN t.tree /\ DOMAIN t.tree \subseteq DOMAIN u.tree
  BY <1>2, <1>3, TreeBasics DEF Continues
<1>5. Continues(x, u.tree)
  BY <1>2, <1>3, ContinuesTransitive
<1>6. \A b \in DOMAIN x : Originals(u.tree[b]) = Originals(x[b])
  BY <1>3, <1>4 DEF Going
<1>7. ASSUME NEW d \in DOMAIN u.tree \ DOMAIN x
      PROVE  /\ Originals(u.tree[d]) = {}
             /\ u.tree[d].cause \in ((causes \cup {id}) \cap u.acted) \ (memory \cup {NoId})
  BY <1>1, <1>3 DEF Going
<1>8. ASSUME NEW d \in DOMAIN u.tree \ DOMAIN x, NEW e \in DOMAIN u.tree \ DOMAIN x,
             u.tree[d].cause = u.tree[e].cause
      PROVE  d = e
  <2>1. \A f \in DOMAIN t.tree \ DOMAIN x : u.tree[f].cause # id
    BY <1>3 DEF Going
  <2>2. (d \in DOMAIN t.tree) <=> (e \in DOMAIN t.tree)
    BY <1>3, <1>8, <2>1
  <2>3. CASE d \in DOMAIN t.tree /\ e \in DOMAIN t.tree
    BY <1>3, <1>8, <2>3 DEF Going
  <2>4. CASE d \notin DOMAIN t.tree /\ e \notin DOMAIN t.tree
    BY <1>3, <2>4
  <2>5. QED
    BY <2>2, <2>3, <2>4
<1>9. u.acted \subseteq Id
  BY <1>1 DEF Going
<1>10. QED
  BY <1>3, <1>5, <1>6, <1>7, <1>8, <1>9 DEF Going

LEMMA Killing ==
  ASSUME NEW x, Tree(x), NEW memory, NEW causes, NEW t, Going(x, memory, causes, t),
         NEW b \in DOMAIN t.tree, NEW id \in Id, NEW u, u = Kill(t, b, id)
  PROVE  Going(x, memory, causes, u)
<1>1. u.tree = [t.tree EXCEPT ![b].status = "archived"] /\ u.acted = t.acted \cup {id}
  BY DEF Kill
<1>2. Tree(t.tree) /\ Continues(x, t.tree) /\ t.tree \in Seq(Branch)
  BY DEF Going, Tree
<1> DEFINE w == [t.tree[b] EXCEPT !.status = "archived"]
<1>3. /\ w \in Branch /\ w.parent = t.tree[b].parent /\ w.cause = t.tree[b].cause
      /\ w.negatives = t.tree[b].negatives
  <2>1. PICK v \in Branch : v = t.tree[b]
    BY <1>2
  <2>2. [v EXCEPT !.status = "archived"] \in Branch
    BY DEF Branch
  <2>3. QED
    BY <2>1, <2>2 DEF Branch
<1>4. u.tree = [d \in DOMAIN t.tree |-> IF d = b THEN w ELSE t.tree[d]]
  BY <1>1
<1> HIDE DEF w
<1>5. /\ DOMAIN u.tree = DOMAIN t.tree /\ u.tree = [d \in DOMAIN t.tree |-> u.tree[d]]
      /\ \A d \in DOMAIN t.tree :
           /\ u.tree[d] \in Branch /\ u.tree[d].parent = t.tree[d].parent
           /\ u.tree[d].cause = t.tree[d].cause /\ u.tree[d].negatives = t.tree[d].negatives
  BY <1>2, <1>3, <1>4
<1>6. \A d \in DOMAIN t.tree :
        /\ Lasting(t.tree[d], u.tree[d]) /\ Originals(u.tree[d]) = Originals(t.tree[d])
        /\ DOMAIN u.tree[d].negatives \ DOMAIN t.tree[d].negatives = {}
  BY <1>5 DEF Lasting, Originals
<1>7. Tree(u.tree) /\ Continues(t.tree, u.tree)
  BY <1>2, <1>5, <1>6, MoreRecords
<1>8. Continues(x, u.tree) /\ DOMAIN x \subseteq DOMAIN t.tree
  <2>1. Continues(x, u.tree)
    BY <1>2, <1>7, ContinuesTransitive
  <2>2. DOMAIN x = 1..Len(x) /\ DOMAIN t.tree = 1..Len(t.tree) /\ Len(x) \in Nat /\ Len(t.tree) \in Nat
    BY <1>2, TreeBasics
  <2>3. QED
    BY <1>2, <2>1, <2>2 DEF Continues
<1>9. u.acted \subseteq Id
  BY <1>1 DEF Going
<1>10. QED
  <2>1. \A d \in DOMAIN x : Originals(u.tree[d]) = Originals(x[d])
    BY <1>6, <1>8 DEF Going
  <2>2. \A d \in DOMAIN u.tree \ DOMAIN x :
          /\ Originals(u.tree[d]) = {}
          /\ u.tree[d].cause \in (causes \cap u.acted) \ (memory \cup {NoId})
    BY <1>1, <1>5, <1>6 DEF Going
  <2>3. \A d, e \in DOMAIN u.tree \ DOMAIN x : u.tree[d].cause = u.tree[e].cause => d = e
    BY <1>5 DEF Going
  <2>4. QED
    BY <1>7, <1>8, <1>9, <2>1, <2>2, <2>3 DEF Going

(* What the causes of a branch are that a tick makes for branch b.          *)
CausesIn(b) == {id \in Id : id.kind \in {"negative", "trial"} /\ id.of = b}

LEMMA Considering ==
  ASSUME NEW x, Tree(x), NEW memory, NEW causes, NEW t, Going(x, memory, causes, t),
         NEW b \in DOMAIN x, causes \cap CausesIn(b) = {}, NEW policy,
         NEW u, u = Considered(t, b, memory, policy)
  PROVE  Going(x, memory, causes \cup CausesIn(b), u)
<1> DEFINE v == t.tree[b]
           council == Named("council", b, v.councils)
           negatives == FreshNegatives(v, b, memory)
           trials == FreshTrials(v, b, memory)
           named == IF negatives # {} THEN {Named("negative", b, Earliest(negatives))}
                    ELSE IF trials # {} THEN {Named("trial", b, Earliest(trials))} ELSE {}
           id == CHOOSE i \in named : TRUE
<1>1. Tree(t.tree) /\ Continues(x, t.tree) /\ Len(x) \in Nat /\ DOMAIN x = 1..Len(x)
  BY TreeBasics DEF Going
<1>2. b \in DOMAIN t.tree /\ b \in Nat /\ v \in Branch /\ b \in 0..Len(t.tree)
  <2>1. DOMAIN t.tree = 1..Len(t.tree) /\ Len(t.tree) \in Nat /\ Len(x) <= Len(t.tree)
    BY <1>1, TreeBasics DEF Continues
  <2>2. b \in DOMAIN t.tree /\ b \in Nat /\ b \in 0..Len(t.tree)
    BY <1>1, <2>1
  <2>3. QED
    BY <1>1, <2>2, TreeBasics
<1>3. \/ u = t
      \/ u = Kill(t, b, council)
      \/ named # {} /\ u = Spawn(t, b, id)
  BY DEF Considered
<1>4. CASE u = t
  BY <1>4, GoingWider
<1>5. CASE u = Kill(t, b, council)
  <2>1. council \in Id
    <3>1. v.councils \in Nat
      BY <1>2 DEF Branch
    <3>2. QED
      BY <1>2, <3>1, IdTypes
  <2> HIDE DEF council
  <2>2. Going(x, memory, causes, u)
    BY <1>2, <1>5, <2>1, Killing
  <2>3. QED
    BY <2>2, GoingWider
<1>6. CASE named # {} /\ u = Spawn(t, b, id)
  <2>1. id \in named
    BY <1>6
  <2>2. negatives \in SUBSET Nat /\ \A k \in negatives : Named("negative", b, k) \notin memory
    <3>1. v.negatives \in Seq(Negative)
      BY <1>2, BranchTypes
    <3>2. DOMAIN v.negatives \subseteq Nat
      BY <3>1
    <3>3. QED
      BY <3>2 DEF FreshNegatives, Unresolved
  <2>3. trials \in SUBSET Nat /\ \A k \in trials : Named("trial", b, k) \notin memory
    <3>1. v.trials \in Seq({"planned", "passed", "failed"})
      BY <1>2 DEF Branch
    <3>2. DOMAIN v.trials \subseteq Nat
      BY <3>1
    <3>3. QED
      BY <3>2 DEF FreshTrials
  <2>4. \/ negatives # {} /\ id = Named("negative", b, Earliest(negatives))
        \/ trials # {} /\ id = Named("trial", b, Earliest(trials))
    BY <2>1
  <2>5. negatives # {} => Earliest(negatives) \in negatives
    <3> HIDE DEF negatives
    <3>1. QED
      BY <2>2, EarliestIn
  <2>6. trials # {} => Earliest(trials) \in trials
    <3> HIDE DEF trials
    <3>1. QED
      BY <2>3, EarliestIn
  <2> HIDE DEF negatives, trials, named, id, council, v
  <2>7. /\ id \in Id \ {NoId} /\ id \notin memory
        /\ id.kind \in {"negative", "trial"} /\ id.of = b
    <3>1. ASSUME negatives # {}, id = Named("negative", b, Earliest(negatives))
          PROVE  id \in Id \ {NoId} /\ id \notin memory /\ id.kind = "negative" /\ id.of = b
      <4>1. Earliest(negatives) \in Nat /\ id \notin memory
        BY <2>2, <2>5, <3>1
      <4>2. QED
        BY <1>2, <3>1, <4>1, IdTypes
    <3>2. ASSUME trials # {}, id = Named("trial", b, Earliest(trials))
          PROVE  id \in Id \ {NoId} /\ id \notin memory /\ id.kind = "trial" /\ id.of = b
      <4>1. Earliest(trials) \in Nat /\ id \notin memory
        BY <2>3, <2>6, <3>2
      <4>2. QED
        BY <1>2, <3>2, <4>1, IdTypes
    <3>3. QED
      BY <2>4, <3>1, <3>2
  <2>8. id \in CausesIn(b) /\ id \in Id \ (causes \cup memory \cup {NoId})
    BY <2>7 DEF CausesIn
  <2>9. Going(x, memory, causes \cup {id}, u)
    BY <1>2, <1>6, <2>8, Spawning
  <2>10. QED
    BY <2>8, <2>9, GoingWider
<1>7. QED
  BY <1>3, <1>4, <1>5, <1>6

(* A list of the branches of x, each of them once.                          *)
Listing(x, order) ==
  /\ order \in [DOMAIN x -> DOMAIN x]
  /\ \A i, j \in DOMAIN x : order[i] = order[j] => i = j

(* The recursion of Sifted: the k-th step considers the k-th branch.        *)
LEMMA SiftedSteps ==
  ASSUME NEW x, NEW order, Len(order) \in Nat, NEW memory, NEW policy
  PROVE  /\ Sifted(x, order, 0, memory, policy) = Begun(x)
         /\ \A k \in 1..Len(order) :
              Sifted(x, order, k, memory, policy) =
                Considered(Sifted(x, order, k - 1, memory, policy), order[k], memory, policy)
<1> DEFINE Right(f, n) ==
             f = [i \in 0..n |-> IF i = 0 THEN Begun(x)
                                 ELSE Considered(f[i - 1], order[i], memory, policy)]
           T == {n \in Nat : \E f : Right(f, n)}
<1>1. 0 \in T
  <2>1. Right([i \in 0..0 |-> Begun(x)], 0)
    OBVIOUS
  <2>2. QED
    BY <2>1
<1>2. ASSUME NEW n \in Nat, n \in T PROVE n + 1 \in T
  <2> SUFFICES \E f : Right(f, n + 1)
    OBVIOUS
  <2>1. PICK f : Right(f, n)
    BY <1>2
  <2> DEFINE top == Considered(f[n], order[n + 1], memory, policy)
             g == [i \in 0..(n + 1) |-> IF i = n + 1 THEN top ELSE f[i]]
  <2>2. ASSUME NEW i \in 0..(n + 1)
        PROVE  g[i] = IF i = 0 THEN Begun(x) ELSE Considered(g[i - 1], order[i], memory, policy)
    <3>1. CASE i = n + 1
      <4>1. g[i - 1] = f[n] /\ i # 0
        BY <3>1
      <4>2. QED
        BY <3>1, <4>1
    <3>2. CASE i # n + 1
      <4>1. i \in 0..n /\ (i # 0 => i - 1 \in 0..n)
        BY <3>2
      <4>2. f[i] = IF i = 0 THEN Begun(x) ELSE Considered(f[i - 1], order[i], memory, policy)
        BY <2>1, <4>1
      <4>3. QED
        BY <3>2, <4>1, <4>2
    <3>3. QED
      BY <3>1, <3>2
  <2> HIDE DEF top
  <2>3. Right(g, n + 1)
    <3>1. g = [i \in 0..(n + 1) |-> g[i]]
      OBVIOUS
    <3> HIDE DEF g
    <3>2. QED
      BY <2>2, <3>1
  <2>4. QED
    BY <2>3
<1>3. Len(order) \in T
  <2> HIDE DEF T
  <2>1. QED
    BY <1>1, <1>2, SetInduction
<1> DEFINE after == CHOOSE f : Right(f, Len(order))
<1>4. Right(after, Len(order))
  BY <1>3
<1>5. \A k \in 0..Len(order) : Sifted(x, order, k, memory, policy) = after[k]
  BY DEF Sifted
<1> HIDE DEF after
<1>6. QED
  BY <1>4, <1>5

(* Whatever the order, each of the first k branches makes one branch at     *)
(* most, and for a cause of its own.                                        *)
LEMMA Sifting ==
  ASSUME NEW x, Tree(x), NEW order, Listing(x, order), NEW memory, NEW policy
  PROVE  \A k \in 0..Len(x) :
           Going(x, memory, UNION {CausesIn(order[i]) : i \in 1..k},
                 Sifted(x, order, k, memory, policy))
<1> DEFINE C(k) == UNION {CausesIn(order[i]) : i \in 1..k}
           S(k) == Sifted(x, order, k, memory, policy)
           T == {k \in Nat : k <= Len(x) => Going(x, memory, C(k), S(k))}
<1>1. Len(x) \in Nat /\ DOMAIN x = 1..Len(x)
  BY TreeBasics
<1>2. Len(order) = Len(x)
  <2>1. order \in Seq(DOMAIN x)
    BY <1>1 DEF Listing
  <2>2. QED
    BY <1>1, <2>1 DEF Listing
<1>3. S(0) = Begun(x) /\ \A k \in 1..Len(x) : S(k) = Considered(S(k - 1), order[k], memory, policy)
  BY <1>1, <1>2, SiftedSteps
<1> HIDE DEF S
<1>4. 0 \in T
  <2>1. Going(x, memory, {}, S(0))
    BY <1>3, Beginning
  <2>2. C(0) = {}
    OBVIOUS
  <2>3. QED
    BY <2>1, <2>2
<1>5. ASSUME NEW k \in Nat, k \in T PROVE k + 1 \in T
  <2> SUFFICES ASSUME k + 1 <= Len(x) PROVE Going(x, memory, C(k + 1), S(k + 1))
    OBVIOUS
  <2>1. Going(x, memory, C(k), S(k))
    BY <1>1, <1>5
  <2>2. k + 1 \in DOMAIN x /\ order[k + 1] \in DOMAIN x
    BY <1>1 DEF Listing
  <2>3. \A i \in 1..k : order[i] # order[k + 1]
    BY <1>1, <2>2 DEF Listing
  <2>4. C(k) \cap CausesIn(order[k + 1]) = {}
    BY <2>3 DEF CausesIn
  <2>5. S(k + 1) = Considered(S(k), order[k + 1], memory, policy)
    <3>1. k + 1 \in 1..Len(x) /\ (k + 1) - 1 = k
      BY <1>1
    <3>2. QED
      BY <1>3, <3>1
  <2>6. C(k + 1) = C(k) \cup CausesIn(order[k + 1])
    <3>1. 1..(k + 1) = (1..k) \cup {k + 1}
      OBVIOUS
    <3>2. QED
      BY <3>1
  <2> HIDE DEF C
  <2>7. Going(x, memory, C(k) \cup CausesIn(order[k + 1]), S(k + 1))
    BY <2>1, <2>2, <2>4, <2>5, Considering
  <2>8. QED
    BY <2>6, <2>7
<1>6. \A k \in Nat : k \in T
  <2> HIDE DEF T
  <2>1. QED
    BY <1>4, <1>5, SetInduction
<1>7. QED
  BY <1>1, <1>6 DEF S

ObstacleCauses == {id \in Id : id.kind = "obstacle"}

ChallengeCauses == {id \in Id : id.kind = "challenge"}

LEMMA Generating ==
  ASSUME NEW x, Tree(x), NEW memory, NEW causes, NEW t, Going(x, memory, causes, t),
         causes \cap ObstacleCauses = {}, NEW obstacles \in Seq(Nat), NEW policy,
         NEW u, u = Generated(t, obstacles, memory, policy)
  PROVE  Going(x, memory, causes \cup ObstacleCauses, u)
<1> DEFINE fresh == {k \in DOMAIN obstacles : Named("obstacle", obstacles[k], k) \notin memory}
           k == Latest(fresh)
           id == Named("obstacle", obstacles[k], k)
<1>1. u = t \/ (fresh # {} /\ u = Spawn(t, 0, id))
  BY DEF Generated
<1>2. CASE u = t
  BY <1>2, GoingWider
<1>3. CASE fresh # {} /\ u = Spawn(t, 0, id)
  <2>1. fresh \in SUBSET (1..Len(obstacles)) /\ Len(obstacles) \in Nat
    OBVIOUS
  <2>2. k \in fresh
    <3> HIDE DEF fresh
    <3>1. QED
      BY <1>3, <2>1, LatestIn
  <2>3. k \in DOMAIN obstacles /\ id \notin memory
    BY <2>2
  <2> HIDE DEF fresh, k
  <2>4. k \in Nat /\ obstacles[k] \in Nat
    BY <2>3
  <2>5. id \in Id \ {NoId} /\ id.kind = "obstacle"
    BY <2>4, IdTypes
  <2> HIDE DEF id
  <2>6. id \in ObstacleCauses /\ id \in Id \ (causes \cup memory \cup {NoId})
    BY <2>3, <2>5 DEF ObstacleCauses
  <2>7. 0 \in 0..Len(t.tree)
    <3>1. Len(t.tree) \in Nat
      BY TreeBasics DEF Going
    <3>2. QED
      BY <3>1
  <2>8. Going(x, memory, causes \cup {id}, u)
    BY <1>3, <2>6, <2>7, Spawning
  <2>9. QED
    BY <2>6, <2>8, GoingWider
<1>4. QED
  BY <1>1, <1>2, <1>3

LEMMA Revalidating ==
  ASSUME NEW x, Tree(x), NEW memory, NEW causes, NEW t, Going(x, memory, causes, t),
         causes \cap ChallengeCauses = {}, NEW n \in Nat, NEW challenges, DOMAIN challenges = 1..n,
         \A k \in 1..n : challenges[k].of \in DOMAIN x, NEW policy,
         NEW u, u = Revalidated(t, challenges, memory, policy)
  PROVE  Going(x, memory, causes \cup ChallengeCauses, u)
<1> DEFINE fresh == {k \in DOMAIN challenges :
                       challenges[k].open /\ Named("challenge", challenges[k].of, k) \notin memory}
           k == Latest(fresh)
           id == Named("challenge", challenges[k].of, k)
<1>1. u = t \/ (fresh # {} /\ u = Spawn(t, challenges[k].of, id))
  BY DEF Revalidated
<1>2. CASE u = t
  BY <1>2, GoingWider
<1>3. CASE fresh # {} /\ u = Spawn(t, challenges[k].of, id)
  <2>1. fresh \in SUBSET (1..n)
    OBVIOUS
  <2>2. k \in fresh
    <3> HIDE DEF fresh
    <3>1. QED
      BY <1>3, <2>1, LatestIn
  <2>3. k \in 1..n /\ id \notin memory
    BY <2>2
  <2> HIDE DEF fresh, k
  <2> DEFINE of == challenges[k].of
  <2>4. k \in Nat /\ of \in DOMAIN x
    BY <2>3
  <2>5. of \in Nat /\ of \in 0..Len(t.tree)
    <3>1. DOMAIN x = 1..Len(x) /\ Len(x) \in Nat /\ Len(t.tree) \in Nat /\ Len(x) <= Len(t.tree)
      BY TreeBasics DEF Going, Continues
    <3> HIDE DEF of
    <3>2. QED
      BY <2>4, <3>1
  <2>6. id \in Id \ {NoId} /\ id.kind = "challenge"
    BY <2>4, <2>5, IdTypes
  <2>7. id \notin memory /\ u = Spawn(t, of, id)
    BY <1>3, <2>3
  <2> HIDE DEF id, of
  <2>8. id \in ChallengeCauses /\ id \in Id \ (causes \cup memory \cup {NoId})
    BY <2>6, <2>7 DEF ChallengeCauses
  <2>9. Going(x, memory, causes \cup {id}, u)
    BY <2>5, <2>7, <2>8, Spawning
  <2>10. QED
    BY <2>8, <2>9, GoingWider
<1>4. QED
  BY <1>1, <1>2, <1>3

(* A tick, and a tick that is cut short anywhere, makes one branch at most  *)
(* for one cause, and none for a cause earlier ticks have acted on          *)
(* (scheduler.py: tick).  It ends before, between or after its three parts. *)
THEOREM TicksGo ==
  ASSUME NEW x, Tree(x), NEW order, Listing(x, order), NEW memory, NEW policy,
         NEW obstacles \in Seq(Nat), NEW n \in Nat, NEW challenges, DOMAIN challenges = 1..n,
         \A k \in 1..n : challenges[k].of \in DOMAIN x
  PROVE  /\ \A k \in DOMAIN x : Going(x, memory, Id, Sifted(x, order, k, memory, policy))
         /\ Going(x, memory, Id,
                  Generated(Sifted(x, order, Len(order), memory, policy), obstacles, memory, policy))
         /\ Going(x, memory, Id, Decided(x, order, obstacles, challenges, memory, policy))
<1> DEFINE C(k) == UNION {CausesIn(order[i]) : i \in 1..k}
<1>1. Len(x) \in Nat /\ DOMAIN x = 1..Len(x) /\ Len(order) = Len(x)
  <2>1. Len(x) \in Nat /\ DOMAIN x = 1..Len(x)
    BY TreeBasics
  <2>2. order \in Seq(DOMAIN x)
    BY <2>1 DEF Listing
  <2>3. QED
    BY <2>1, <2>2 DEF Listing
<1>2. \A k \in 0..Len(x) : Going(x, memory, C(k), Sifted(x, order, k, memory, policy))
  BY Sifting
<1>3. \A k : /\ C(k) \subseteq Id /\ C(k) \cap ObstacleCauses = {}
             /\ (C(k) \cup ObstacleCauses) \cap ChallengeCauses = {}
             /\ C(k) \cup ObstacleCauses \subseteq Id
             /\ C(k) \cup ObstacleCauses \cup ChallengeCauses \subseteq Id
  BY DEF CausesIn, ObstacleCauses, ChallengeCauses
<1> DEFINE all == C(Len(x))
           t == Sifted(x, order, Len(order), memory, policy)
           u == Generated(t, obstacles, memory, policy)
           v == Revalidated(u, challenges, memory, policy)
<1> HIDE DEF C
<1>4. Going(x, memory, all, t)
  BY <1>1, <1>2
<1>5. /\ all \cap ObstacleCauses = {} /\ (all \cup ObstacleCauses) \cap ChallengeCauses = {}
      /\ all \cup ObstacleCauses \subseteq Id /\ all \cup ObstacleCauses \cup ChallengeCauses \subseteq Id
  BY <1>3
<1> HIDE DEF all, t
<1>6. Going(x, memory, all \cup ObstacleCauses, u)
  BY <1>4, <1>5, Generating
<1> HIDE DEF u
<1>7. Going(x, memory, all \cup ObstacleCauses \cup ChallengeCauses, v)
  BY <1>5, <1>6, Revalidating
<1>8. Decided(x, order, obstacles, challenges, memory, policy) = v
  BY DEF Decided, t, u
<1> HIDE DEF v
<1>9. \A k \in DOMAIN x : Going(x, memory, Id, Sifted(x, order, k, memory, policy))
  <2>1. ASSUME NEW k \in DOMAIN x
        PROVE  Going(x, memory, Id, Sifted(x, order, k, memory, policy))
    <3>1. k \in 0..Len(x)
      BY <1>1
    <3>2. QED
      BY <1>2, <1>3, <3>1, GoingWider
  <2>2. QED
    BY <2>1
<1>10. Going(x, memory, Id, u) /\ Going(x, memory, Id, v)
  BY <1>5, <1>6, <1>7, GoingWider
<1>11. QED
  BY <1>8, <1>9, <1>10 DEF t, u

-----------------------------------------------------------------------------
(* Lineage scores *)

LEMMA Scales == Whole \in Nat /\ Whole = 1000 /\ MaxScore \in Nat /\ MaxScore = 300000
BY DEF Whole, MaxScore

LEMMA AtMostRange ==
  ASSUME NEW n \in Nat, NEW most \in Nat
  PROVE  AtMost(n, most) \in Nat /\ AtMost(n, most) <= most
BY DEF AtMost

LEMMA Quotient ==
  ASSUME NEW a \in Nat, NEW d \in Nat \ {0}
  PROVE  a \div d \in Nat
OBVIOUS

LEMMA RatioRange ==
  ASSUME NEW spent \in Nat, NEW limit \in Nat
  PROVE  Ratio(spent, limit) \in Nat /\ Ratio(spent, limit) <= Whole
<1>1. CASE limit = 0
  BY <1>1, Scales DEF Ratio
<1>2. CASE limit # 0
  <2> DEFINE q == (Whole * spent) \div limit
  <2>1. q \in Nat
    BY <1>2, Quotient, Scales
  <2>2. Ratio(spent, limit) = AtMost(q, Whole)
    BY <1>2 DEF Ratio
  <2> HIDE DEF q
  <2>3. QED
    BY <2>1, <2>2, AtMostRange, Scales
<1>3. QED
  BY <1>1, <1>2

(* Of the four numbers of what is left there is a least one.                *)
LEMMA EfficiencyRange ==
  ASSUME NEW budget \in Budget
  PROVE  Efficiency(budget) \in Nat /\ Efficiency(budget) <= Whole
<1> DEFINE U == Utilization(budget)
           a == Whole - U["runs"]        b == Whole - U["queries"]
           c == Whole - U["citations"]   d == Whole - U["compute"]
           Good(n) == n \in Nat /\ n <= Whole
<1>1. ASSUME NEW r \in Resources PROVE Good(U[r])
  <2>1. budget.spent[r] \in Nat /\ budget.limits[r] \in Nat
    BY DEF Budget, Amounts
  <2>2. U[r] = Ratio(budget.spent[r], budget.limits[r])
    BY DEF Utilization
  <2>3. QED
    BY <2>1, <2>2, RatioRange, Zenon
<1>2. /\ {Whole - U[r] : r \in Resources} = {a, b, c, d}
      /\ \A r \in Resources : Whole - U[r] \in {a, b, c, d}
  <2> HIDE DEF U
  <2> QED BY DEF Resources
<1>3. Good(a) /\ Good(b) /\ Good(c) /\ Good(d)
  <2> HIDE DEF U
  <2>1. Good(U["runs"]) /\ Good(U["queries"]) /\ Good(U["citations"]) /\ Good(U["compute"])
    BY <1>1 DEF Resources
  <2>2. QED
    BY <2>1, Scales
<1>4. Efficiency(budget) =
        CHOOSE e \in {Whole - U[r] : r \in Resources} : \A r \in Resources : e <= Whole - U[r]
  BY DEF Efficiency
<1> HIDE DEF U, a, b, c, d
<1>5. \E e \in {a, b, c, d} : e <= a /\ e <= b /\ e <= c /\ e <= d
  BY <1>3
<1>6. \E e \in {Whole - U[r] : r \in Resources} : \A r \in Resources : e <= Whole - U[r]
  BY <1>2, <1>5
<1>7. Efficiency(budget) \in {Whole - U[r] : r \in Resources}
  BY <1>4, <1>6
<1>8. QED
  BY <1>2, <1>3, <1>7

LEMMA MeritRange ==
  ASSUME NEW x \in Branch, NEW evidence \in Nat, NEW fertility \in Nat, NEW budget \in Budget
  PROVE  Merit(x, evidence, fertility, budget) \in Nat
         /\ Merit(x, evidence, fertility, budget) <= MaxScore
<1> DEFINE e == AtMost(evidence, 4)   t == AtMost(Len(x.trials), 3)
           f == AtMost(fertility, 4)  l == Efficiency(budget)
           u == IF Unresolved(x) = {} THEN 54000 ELSE 0
           v == IF x.status = "verified" THEN 54000 ELSE 0
<1>1. /\ e \in Nat /\ e <= 4 /\ f \in Nat /\ f <= 4 /\ t \in Nat /\ t <= 3
  <2>1. Len(x.trials) \in Nat
    BY DEF Branch
  <2>2. QED
    BY <2>1, AtMostRange
<1>2. l \in Nat /\ l <= Whole
  BY EfficiencyRange
<1>3. u \in Nat /\ u <= 54000 /\ v \in Nat /\ v <= 54000
  BY SMT
<1>4. Merit(x, evidence, fertility, budget) = 18000 * e + 22000 * t + u + v + 7500 * f + 24 * l
  BY SMT DEF Merit
<1> HIDE DEF e, t, f, l, u, v
<1>5. QED
  BY <1>1, <1>2, <1>3, <1>4, Scales, SMT

(* A lineage score is between 0 and 100 points, whatever the branch and its *)
(* budget: also when limits are zero or below what was spent (autonomy.py:  *)
(* lineage; docs/AUTONOMOUS_RESEARCH_LOOP.md promises 0 to 100).            *)
THEOREM ScoreRange ==
  ASSUME NEW x \in Branch, NEW evidence \in Nat, NEW fertility \in Nat, NEW budget \in Budget
  PROVE  Score(x, evidence, fertility, budget) \in 0..MaxScore
<1> DEFINE merit == Merit(x, evidence, fertility, budget)
           score == Score(x, evidence, fertility, budget)
<1>1. merit \in Nat /\ merit <= MaxScore
  BY MeritRange, Zenon
<1>2. score = IF Penalties(x) = {} THEN merit ELSE (72 * merit) \div 100
  BY SMT DEF Score
<1> HIDE DEF merit, score
<1>3. MaxScore \in Nat
  BY Scales
<1>4. \A n \in Nat : (72 * n) \div 100 \in Nat /\ (72 * n) \div 100 <= n
  BY SMT
<1>5. score \in Nat /\ score <= MaxScore
  BY <1>1, <1>2, <1>3, <1>4
<1>6. QED
  BY <1>3, <1>5 DEF score

LEMMA SettledNegatives ==
  ASSUME NEW negatives \in Seq(Negative), NEW k \in DOMAIN negatives
  PROVE  LET settled == [negatives EXCEPT ![k].resolved = TRUE]
         IN /\ settled \in Seq(Negative) /\ DOMAIN settled = DOMAIN negatives
            /\ \A i \in DOMAIN negatives : negatives[i].resolved => settled[i].resolved
<1> DEFINE one == [negatives[k] EXCEPT !.resolved = TRUE]
           settled == [negatives EXCEPT ![k] = one]
<1>1. negatives[k] \in Negative
  OBVIOUS
<1>2. one \in Negative /\ one.resolved
  BY <1>1 DEF Negative
<1> HIDE DEF one
<1>3. /\ settled \in Seq(Negative) /\ DOMAIN settled = DOMAIN negatives
      /\ \A i \in DOMAIN negatives : settled[i] = IF i = k THEN one ELSE negatives[i]
  BY <1>2
<1> HIDE DEF settled
<1>4. QED
  BY <1>2, <1>3 DEF settled, one

LEMMA TouchedKeeps ==
  ASSUME NEW x \in Branch
  PROVE  /\ Touched(x) \in Branch
         /\ Touched(x).trials = x.trials /\ Touched(x).negatives = x.negatives
         /\ (Touched(x).status = "verified") <=> (x.status = "verified")
         /\ (Touched(x).status = "archived") <=> (x.status = "archived")
BY DEF Touched, Branch

LEMMA SettledKeeps ==
  ASSUME NEW x \in Branch, NEW k \in DOMAIN x.negatives
  PROVE  /\ Settled(x, k) \in Branch /\ Settled(x, k).trials = x.trials
         /\ Unresolved(Settled(x, k)) \subseteq Unresolved(x)
         /\ (Settled(x, k).status = "verified") <=> (x.status = "verified")
         /\ (Settled(x, k).status = "archived") <=> (x.status = "archived")
<1> DEFINE settled == [x.negatives EXCEPT ![k].resolved = TRUE]
           z == [x EXCEPT !.negatives = settled]
<1>1. x.negatives \in Seq(Negative)
  BY DEF Branch
<1>2. /\ settled \in Seq(Negative) /\ DOMAIN settled = DOMAIN x.negatives
      /\ \A i \in DOMAIN x.negatives : x.negatives[i].resolved => settled[i].resolved
  BY <1>1, SettledNegatives
<1>3. Settled(x, k) = Touched(z)
  BY DEF Settled
<1> HIDE DEF settled
<1>4. z \in Branch /\ z.negatives = settled /\ z.trials = x.trials /\ z.status = x.status
  BY <1>2 DEF Branch
<1>5. Unresolved(z) \subseteq Unresolved(x)
  BY <1>2, <1>4 DEF Unresolved
<1> HIDE DEF z
<1>6. QED
  BY <1>3, <1>4, <1>5, TouchedKeeps DEF Unresolved

(* Resolving a counterexample never lowers the score of its branch, whether *)
(* the branch is verified, archived or neither.                             *)
THEOREM ResolvingNeverLowers ==
  ASSUME NEW x \in Branch, NEW k \in DOMAIN x.negatives,
         NEW evidence \in Nat, NEW fertility \in Nat, NEW budget \in Budget
  PROVE  Score(x, evidence, fertility, budget)
           <= Score(Settled(x, k), evidence, fertility, budget)
<1> DEFINE y == Settled(x, k)
           before == Merit(x, evidence, fertility, budget)
           after == Merit(y, evidence, fertility, budget)
<1>1. /\ y \in Branch /\ y.trials = x.trials /\ Unresolved(y) \subseteq Unresolved(x)
      /\ (y.status = "verified") <=> (x.status = "verified")
      /\ (y.status = "archived") <=> (x.status = "archived")
  BY SettledKeeps
<1> HIDE DEF y
<1>2. before \in Nat /\ after \in Nat
  BY <1>1, MeritRange, Zenon
<1>3. before <= after
  <2> DEFINE e == AtMost(evidence, 4)   t == AtMost(Len(x.trials), 3)
             f == AtMost(fertility, 4)  l == Efficiency(budget)
             u(z) == IF Unresolved(z) = {} THEN 54000 ELSE 0
             v == IF x.status = "verified" THEN 54000 ELSE 0
             rest == 18000 * e + 22000 * t
  <2>1. before = rest + u(x) + v + 7500 * f + 24 * l
    BY SMT DEF Merit
  <2>2. after = rest + u(y) + v + 7500 * f + 24 * l
    BY <1>1, SMT DEF Merit
  <2>3. u(x) \in Nat /\ u(y) \in Nat /\ u(x) <= u(y)
    BY <1>1, SMT
  <2>4. e \in Nat /\ t \in Nat /\ f \in Nat /\ l \in Nat
    <3>1. Len(x.trials) \in Nat
      BY DEF Branch
    <3>2. QED
      BY <3>1, AtMostRange, EfficiencyRange
  <2>5. rest \in Nat /\ v \in Nat
    <3> HIDE DEF e, t
    <3> QED BY <2>4, SMT
  <2> HIDE DEF before, after, e, t, f, l, u, v, rest
  <2>6. QED
    BY <2>1, <2>2, <2>3, <2>4, <2>5, SMT
<1>4. Penalties(y) \subseteq Penalties(x)
  BY <1>1 DEF Penalties
<1> HIDE DEF before, after
<1>5. Score(x, evidence, fertility, budget)
        = IF Penalties(x) = {} THEN before ELSE (72 * before) \div 100
  BY SMT DEF Score, before
<1>6. Score(y, evidence, fertility, budget)
        = IF Penalties(y) = {} THEN after ELSE (72 * after) \div 100
  BY SMT DEF Score, after
<1>7. QED
  BY <1>2, <1>3, <1>4, <1>5, <1>6, SMT DEF y

=============================================================================
