----------------------- MODULE KnowledgeEvolutionProofs -----------------------
(***************************************************************************)
(* Proofs about KnowledgeEvolution, for every set of items, successor      *)
(* versions and challenges.                                                *)
(*                                                                         *)
(* Everything the safety properties say of an evolution, in memory or in   *)
(* the file, is collected in Sound, which each handler preserves.  The     *)
(* refinement rests on one more fact: while the evolution file waits to be *)
(* saved, the memory is exactly one step of the lifecycle ahead of it, and *)
(* at all other times they agree.                                          *)
(***************************************************************************)
EXTENDS KnowledgeEvolution, TLAPS

(* Versions and challenges that do not exist are untouched, and what       *)
(* exists refers to versions that exist; a version shares its root with    *)
(* its parent.                                                             *)
Proper(m) ==
  /\ \A v \in Version \ Known(m) :
       m.root[v] = v /\ m.parent[v] = None /\ m.successor[v] = None
  /\ \A v \in Known(m) :
       /\ m.root[v] \in Known(m)
       /\ m.parent[v] \in Known(m) \cup {None}
       /\ m.parent[v] # None => m.root[v] = m.root[m.parent[v]]
  /\ \A c \in Challenge : m.about[c] \in Known(m) \cup {None}

(* Version v's events form a chain that ends in its state.                 *)
Chain(t, s) ==
  /\ t # <<>> /\ t[1][1] = "none" /\ t[Len(t)][2] = s
  /\ \A i \in 1..Len(t) - 1 : t[i][2] = t[i + 1][1]

Explained(m) == \A v \in Known(m) : Chain(m.trail[v], m.state[v])

NumbersOf(m, S) ==
  /\ \A x, y \in S : m.number[x] = m.number[y] => x = y
  /\ \A x \in S : \A n \in 1..m.number[x] : \E y \in S : m.number[y] = n

NumberedIn(m) == \A v \in Known(m) : NumbersOf(m, Siblings(m, v))

Children(m, v) == {w \in Known(m) : m.parent[w] = v}

LinksIn(m) ==
  \A v \in Known(m) :
    IF Children(m, v) = {} THEN m.successor[v] = None
    ELSE /\ m.successor[v] \in Children(m, v)
         /\ \A w \in Children(m, v) : m.number[w] <= m.number[m.successor[v]]

(* Every version and challenge has its node in N.                          *)
InGraph(m, N) ==
  Known(m) \subseteq N /\ \A c \in Challenge : m.about[c] # None => c \in N

Sound(m, N) ==
  /\ m \in Evolution
  /\ Proper(m) /\ InGraph(m, N)
  /\ Answerable(m) /\ RevokedSettled(m)
  /\ Explained(m) /\ NumberedIn(m) /\ LinksIn(m)

Link(m) == [v \in Version |-> IF m.successor[v] = None THEN v ELSE m.successor[v]]

(* Evolution m is one step of KnowledgeLifecycle ahead of evolution e.     *)
Ahead(e, m) ==
  \/ \E v \in Version : /\ e.state[v] = "none"
                        /\ m.state = [e.state EXCEPT ![v] = "accepted"]
                        /\ Link(m) = Link(e)
  \/ \E v \in Version, s \in {"challenged", "revoked"} :
       /\ e.state[v] \in {"accepted", "challenged", "revised"}
       /\ m.state = [e.state EXCEPT ![v] = s]
       /\ Link(m) = Link(e)
  \/ \E v, w \in Version, final \in {"revised", "superseded"} :
       /\ e.state[v] = "challenged" /\ e.state[w] = "none"
       /\ m.state = [e.state EXCEPT ![v] = final, ![w] = "accepted"]
       /\ Link(m) = [Link(e) EXCEPT ![v] = w]

IInv ==
  /\ TypeOK
  /\ Sound(memory, nodes) /\ Sound(efile, nodes)
  /\ ledger \subseteq Known(memory)
  /\ sfile \subseteq Known(efile) /\ sfile \subseteq ledger
  /\ IF phase = "evolution" THEN Ahead(efile, memory) ELSE efile = memory

-----------------------------------------------------------------------------
(* What the operators that build an evolution return and preserve.         *)

(* The fields of an evolution have their types.                            *)
LEMMA Fields ==
  ASSUME NEW m \in Evolution
  PROVE  /\ m.state \in [Version -> State]
         /\ m.root \in [Version -> Version]
         /\ m.number \in [Version -> Nat]
         /\ m.parent \in [Version -> Version \cup {None}]
         /\ m.successor \in [Version -> Version \cup {None}]
         /\ m.about \in [Challenge -> Version \cup {None}]
         /\ m.open \in [Challenge -> BOOLEAN]
         /\ m.trail \in [Version -> Seq(State \X State)]
BY DEF Evolution

(* The event of an acceptance is a chain (bootstrap, _successor).          *)
LEMMA FirstEvent ==
  /\ <<<<"none", "accepted">>>> \in Seq(State \X State)
  /\ Chain(<<<<"none", "accepted">>>>, "accepted")
<1>1. <<"none", "accepted">> \in State \X State
  BY DEF State
<1>2. QED
  BY <1>1 DEF Chain

(* An event that starts at the state a chain ends in makes it longer.      *)
LEMMA ChainGrows ==
  ASSUME NEW t \in Seq(State \X State), NEW s \in State, NEW to \in State, Chain(t, s)
  PROVE  /\ Append(t, <<s, to>>) \in Seq(State \X State)
         /\ Chain(Append(t, <<s, to>>), to)
<1> DEFINE u == Append(t, <<s, to>>)
<1>1. u \in Seq(State \X State) /\ Len(u) = Len(t) + 1 /\ Len(t) \in Nat
  OBVIOUS
<1>2. u[Len(u)] = <<s, to>> /\ \A i \in 1..Len(t) : u[i] = t[i]
  OBVIOUS
<1>3. Len(t) # 0
  BY DEF Chain
<1>4. u # <<>> /\ u[1][1] = "none" /\ u[Len(u)][2] = to
  BY <1>1, <1>2, <1>3 DEF Chain
<1>5. ASSUME NEW i \in 1..Len(u) - 1
      PROVE  u[i][2] = u[i + 1][1]
  <2>1. CASE i = Len(t)
    BY <1>1, <1>2, <1>3, <2>1 DEF Chain
  <2>2. CASE i # Len(t)
    <3>1. i \in 1..Len(t) - 1 /\ i + 1 \in 1..Len(t)
      BY <1>1, <2>2
    <3>2. QED
      BY <1>2, <3>1 DEF Chain
  <2>3. QED
    BY <2>1, <2>2
<1>6. QED
  BY <1>1, <1>4, <1>5 DEF Chain

(* The empty evolution is sound.                                           *)
LEMMA EmptySound ==
  ASSUME NEW N
  PROVE  Sound(EmptyEvolution, N) /\ Known(EmptyEvolution) = {}
<1>1. EmptyEvolution \in Evolution
  BY DEF EmptyEvolution, Evolution, State
<1>2. Known(EmptyEvolution) = {}
  BY DEF EmptyEvolution, Known
<1>3. Proper(EmptyEvolution) /\ InGraph(EmptyEvolution, N)
  BY <1>2 DEF Proper, InGraph, EmptyEvolution
<1>4. Answerable(EmptyEvolution) /\ RevokedSettled(EmptyEvolution)
  BY DEF EmptyEvolution, Answerable, RevokedSettled
<1>5. QED
  BY <1>1, <1>2, <1>3, <1>4 DEF Sound, Explained, NumberedIn, LinksIn

(* bootstrap adds what is missing as first versions and changes nothing    *)
(* else.                                                                   *)
LEMMA BootstrappedFields ==
  ASSUME NEW m \in Evolution, NEW A \in SUBSET Version, NEW b, b = Bootstrapped(m, A)
  PROVE  /\ b \in Evolution
         /\ Known(b) = Known(m) \cup A
         /\ b.root = m.root /\ b.parent = m.parent /\ b.successor = m.successor
         /\ b.about = m.about /\ b.open = m.open
         /\ \A v \in A \ Known(m) : /\ b.state[v] = "accepted" /\ b.number[v] = 1
                                    /\ b.trail[v] = <<<<"none", "accepted">>>>
         /\ \A v \in Version \ (A \ Known(m)) :
              /\ b.state[v] = m.state[v] /\ b.number[v] = m.number[v]
              /\ b.trail[v] = m.trail[v]
<1> DEFINE new == A \ Known(m)
           In(old, value) == [v \in Version |-> IF v \in new THEN value ELSE old[v]]
<1>1. b = [m EXCEPT !.state = In(m.state, "accepted"),
                    !.number = In(m.number, 1),
                    !.trail = In(m.trail, <<<<"none", "accepted">>>>)]
  BY Fields DEF Bootstrapped, Evolution
<1>2. /\ In(m.state, "accepted") \in [Version -> State]
      /\ In(m.number, 1) \in [Version -> Nat]
      /\ In(m.trail, <<<<"none", "accepted">>>>) \in [Version -> Seq(State \X State)]
  BY Fields, FirstEvent DEF State
<1>3. /\ b.state = In(m.state, "accepted") /\ b.number = In(m.number, 1)
      /\ b.trail = In(m.trail, <<<<"none", "accepted">>>>)
      /\ b.root = m.root /\ b.parent = m.parent /\ b.successor = m.successor
      /\ b.about = m.about /\ b.open = m.open
  BY <1>1 DEF Evolution
<1>4. b \in Evolution
  BY <1>1, <1>2 DEF Evolution
<1>5. Known(b) = Known(m) \cup A
  BY <1>3, Fields DEF Known
<1>6. QED
  BY <1>3, <1>4, <1>5

(* What is known already is left as it is.                                 *)
LEMMA BootstrappedKnown ==
  ASSUME NEW m \in Evolution, NEW A \in SUBSET Known(m)
  PROVE  Bootstrapped(m, A) = m
<1>1. A \ Known(m) = {}
  OBVIOUS
<1>2. /\ m.state = [v \in Version |-> m.state[v]]
      /\ m.number = [v \in Version |-> m.number[v]]
      /\ m.trail = [v \in Version |-> m.trail[v]]
  BY Fields
<1>3. Bootstrapped(m, A) = [m EXCEPT !.state = m.state, !.number = m.number, !.trail = m.trail]
  BY <1>1, <1>2 DEF Bootstrapped, Evolution
<1>4. QED
  BY <1>3 DEF Evolution

(* Accepting items keeps an evolution sound (bootstrap).                   *)
LEMMA BootstrapSound ==
  ASSUME NEW m, NEW N, Sound(m, N), NEW A \in SUBSET Version
  PROVE  Sound(Bootstrapped(m, A), N \cup A)
<1> DEFINE b == Bootstrapped(m, A)
<1> b \in Evolution /\ m \in Evolution
  BY BootstrappedFields DEF Sound
<1>1. /\ Known(b) = Known(m) \cup A
      /\ b.root = m.root /\ b.parent = m.parent /\ b.successor = m.successor
      /\ b.about = m.about /\ b.open = m.open
  BY BootstrappedFields
<1>2. \A v \in A \ Known(m) : /\ b.state[v] = "accepted" /\ b.number[v] = 1
                              /\ b.trail[v] = <<<<"none", "accepted">>>>
  BY BootstrappedFields
<1>3. \A v \in Version \ (A \ Known(m)) :
        b.state[v] = m.state[v] /\ b.number[v] = m.number[v] /\ b.trail[v] = m.trail[v]
  BY BootstrappedFields
<1>4. /\ Proper(m) /\ InGraph(m, N) /\ Answerable(m) /\ RevokedSettled(m)
      /\ Explained(m) /\ NumberedIn(m) /\ LinksIn(m)
  BY DEF Sound
<1>5. /\ Known(m) \subseteq Version /\ Known(b) \subseteq Version
      /\ \A v \in A \ Known(m) :
           /\ v \in Version \ Known(m)
           /\ m.root[v] = v /\ m.parent[v] = None /\ m.successor[v] = None
  BY <1>4 DEF Known, Proper
<1>6. Proper(b) /\ InGraph(b, N \cup A)
  BY <1>1, <1>4, <1>5, VersionAssumption DEF Proper, InGraph
<1>7. Answerable(b) /\ RevokedSettled(b)
  BY <1>1, <1>2, <1>3, <1>4, <1>5 DEF Answerable, RevokedSettled, ChallengesOf
<1>8. Explained(b)
  BY <1>1, <1>2, <1>3, <1>4, <1>5, FirstEvent DEF Explained
<1>9. NumberedIn(b)
  <2> SUFFICES ASSUME NEW v \in Known(b) PROVE NumbersOf(b, Siblings(b, v))
    BY DEF NumberedIn
  <2>1. CASE v \in Known(m)
    <3>1. Siblings(b, v) = Siblings(m, v)
      BY <1>1, <1>4, <1>5, <2>1 DEF Siblings, Proper
    <3>2. \A x \in Siblings(m, v) : b.number[x] = m.number[x]
      BY <1>3, <1>5 DEF Siblings
    <3>3. NumbersOf(m, Siblings(m, v))
      BY <1>4, <2>1 DEF NumberedIn
    <3>4. QED
      BY <3>1, <3>2, <3>3 DEF NumbersOf
  <2>2. CASE v \notin Known(m)
    <3>1. Siblings(b, v) = {v}
      BY <1>1, <1>4, <1>5, <2>2 DEF Siblings, Proper
    <3>2. b.number[v] = 1
      BY <1>1, <1>2, <2>2
    <3>3. QED
      BY <3>1, <3>2 DEF NumbersOf
  <2>3. QED
    BY <2>1, <2>2
<1>10. LinksIn(b)
  <2> SUFFICES ASSUME NEW v \in Known(b)
               PROVE  IF Children(b, v) = {} THEN b.successor[v] = None
                      ELSE /\ b.successor[v] \in Children(b, v)
                           /\ \A w \in Children(b, v) : b.number[w] <= b.number[b.successor[v]]
    BY DEF LinksIn
  <2>1. Children(b, v) = Children(m, v)
    BY <1>1, <1>5, VersionAssumption DEF Children
  <2>2. \A w \in Children(m, v) : b.number[w] = m.number[w]
    BY <1>3, <1>5 DEF Children
  <2>3. CASE v \in Known(m)
    BY <1>1, <1>4, <2>1, <2>2, <2>3 DEF LinksIn
  <2>4. CASE v \notin Known(m)
    <3>1. Children(m, v) = {} /\ m.successor[v] = None
      BY <1>1, <1>4, <1>5, <2>4, VersionAssumption DEF Children, Proper
    <3>2. QED
      BY <1>1, <2>1, <3>1
  <2>5. QED
    BY <2>3, <2>4
<1>11. QED
  BY <1>6, <1>7, <1>8, <1>9, <1>10 DEF Sound

(* The trail with a new event has its type, and the event continues the    *)
(* chain of its version.                                                   *)
LEMMA LoggedChain ==
  ASSUME NEW m \in Evolution, Explained(m), NEW v \in Known(m), NEW s \in State
  PROVE  /\ Logged(m, v, s) \in [Version -> Seq(State \X State)]
         /\ Chain(Logged(m, v, s)[v], s)
         /\ \A x \in Version \ {v} : Logged(m, v, s)[x] = m.trail[x]
<1>1. /\ v \in Version /\ m.state[v] \in State
      /\ m.trail \in [Version -> Seq(State \X State)]
      /\ m.trail[v] \in Seq(State \X State) /\ Chain(m.trail[v], m.state[v])
  BY Fields DEF Explained, Known
<1>2. /\ Append(m.trail[v], <<m.state[v], s>>) \in Seq(State \X State)
      /\ Chain(Append(m.trail[v], <<m.state[v], s>>), s)
  BY <1>1, ChainGrows
<1>3. QED
  BY <1>1, <1>2 DEF Logged

(* From evolution m to evolution b, version v changes to state s, with an   *)
(* event; challenges may change, and new ones about v have nodes in N.     *)
Transition(m, b, v, s, N) ==
  /\ b \in Evolution
  /\ b.state = [m.state EXCEPT ![v] = s] /\ b.trail = Logged(m, v, s)
  /\ b.root = m.root /\ b.number = m.number
  /\ b.parent = m.parent /\ b.successor = m.successor
  /\ \A c \in Challenge : b.about[c] = m.about[c] \/ (b.about[c] = v /\ c \in N)

(* Such a transition keeps what does not speak of challenges (challenge,   *)
(* _terminal_transition).                                                  *)
LEMMA StateChangeSound ==
  ASSUME NEW m, NEW N, NEW N2, Sound(m, N), N \subseteq N2,
         NEW v \in Known(m), NEW s \in State \ {"none"},
         NEW b, Transition(m, b, v, s, N2),
         Answerable(b), RevokedSettled(b)
  PROVE  Sound(b, N2)
<1>1. m \in Evolution /\ v \in Version /\ Known(m) \subseteq Version
  BY DEF Sound, Known
<1>2. /\ Chain(b.trail[v], s)
      /\ \A x \in Version \ {v} : b.trail[x] = m.trail[x]
  BY <1>1, LoggedChain DEF Sound, Transition
<1>3. /\ b.state[v] = s
      /\ \A x \in Version \ {v} : b.state[x] = m.state[x]
  BY <1>1, Fields DEF Transition
<1>4. Known(b) = Known(m)
  BY <1>1, <1>3 DEF Known
<1>5. Proper(b) /\ InGraph(b, N2)
  BY <1>1, <1>4, VersionAssumption DEF Sound, Proper, InGraph, Transition
<1>6. Explained(b)
  BY <1>1, <1>2, <1>3, <1>4 DEF Explained, Sound
<1>7. NumberedIn(b) /\ LinksIn(b)
  BY <1>4 DEF Transition, Sound, NumberedIn, NumbersOf, Siblings, LinksIn, Children
<1>8. QED
  BY <1>5, <1>6, <1>7 DEF Sound, Transition

(* Evolution b is m with version v replaced by w, as _successor does it.   *)
Replacement(m, b, v, c, w, final) ==
  /\ v \in Known(m) /\ w \in Version \ Known(m)
  /\ Replaceable(m, v, c)
  /\ \E x \in Latest(m, v) : b = Replaced(m, v, c, w, m.number[x] + 1, final)

(* The newest version of a root is followed by the next number and takes   *)
(* the place of its parent's successor (_successor).                       *)
LEMMA ReplacedSound ==
  ASSUME NEW m, NEW N, Sound(m, N), NEW b, NEW v, NEW c \in Challenge, NEW w,
         NEW final \in FinalState, Replacement(m, b, v, c, w, final)
  PROVE  /\ Sound(b, N \cup {w})
         /\ Known(b) = Known(m) \cup {w}
         /\ b.state = [m.state EXCEPT ![v] = final, ![w] = "accepted"]
         /\ b.successor = [m.successor EXCEPT ![v] = w]
<1> USE DEF Replacement
<1>a. v \in Known(m) /\ w \in Version \ Known(m) /\ Replaceable(m, v, c)
  OBVIOUS
<1>b. PICK x \in Latest(m, v) : b = Replaced(m, v, c, w, m.number[x] + 1, final)
  OBVIOUS
<1> USE <1>a, <1>b
<1> HIDE DEF Replacement
<1> DEFINE n == m.number[x] + 1
<1>1. /\ m \in Evolution /\ v \in Version /\ Known(m) \subseteq Version
      /\ Proper(m) /\ InGraph(m, N) /\ Answerable(m) /\ RevokedSettled(m)
      /\ Explained(m) /\ NumberedIn(m) /\ LinksIn(m)
  BY DEF Sound, Known
<1>2. /\ v # w /\ m.state[v] = "challenged" /\ m.about[c] = v
      /\ final \in State /\ final \in {"revised", "superseded"}
  BY DEF Replaceable, FinalState, State
<1>3. /\ m.root[w] = w /\ m.parent[w] = None /\ m.successor[w] = None
      /\ m.root[v] \in Known(m)
  BY <1>1 DEF Proper
<1>4. /\ x \in Siblings(m, v) /\ x \in Known(m) /\ n \in Nat
      /\ \A y \in Siblings(m, v) : m.number[y] \in Nat /\ m.number[y] < n
  <2>1. x \in Siblings(m, v) /\ \A y \in Siblings(m, v) : m.number[y] <= m.number[x]
    BY DEF Latest
  <2>2. \A y \in Siblings(m, v) : y \in Version /\ m.number[y] \in Nat
    BY <1>1, Fields DEF Siblings
  <2>3. QED
    BY <2>1, <2>2 DEF Siblings
<1>5. /\ m.state[v] \in State /\ m.trail[v] \in Seq(State \X State)
      /\ Chain(m.trail[v], m.state[v])
  BY <1>1, Fields DEF Explained
<1>6. /\ Append(m.trail[v], <<m.state[v], final>>) \in Seq(State \X State)
      /\ Chain(Append(m.trail[v], <<m.state[v], final>>), final)
  BY <1>2, <1>5, ChainGrows
<1> DEFINE S == [m.state EXCEPT ![v] = final, ![w] = "accepted"]
           T == [Logged(m, v, final) EXCEPT ![w] = <<<<"none", "accepted">>>>]
<1>7. /\ S \in [Version -> State] /\ T \in [Version -> Seq(State \X State)]
      /\ T[v] = Append(m.trail[v], <<m.state[v], final>>)
      /\ T[w] = <<<<"none", "accepted">>>>
      /\ \A y \in Version \ {v, w} : T[y] = m.trail[y]
  BY <1>1, <1>2, <1>6, Fields, FirstEvent DEF Logged, State
<1>8. b = [m EXCEPT !.state = S, !.root[w] = m.root[v], !.number[w] = n,
                    !.parent[w] = v, !.successor[v] = w, !.open[c] = FALSE,
                    !.trail = T]
  BY <1>1 DEF Replaced, SuccessorLink, Evolution
<1> DEFINE O == [m.open EXCEPT ![c] = FALSE]
           P == [m.parent EXCEPT ![w] = v]
           Q == [m.successor EXCEPT ![v] = w]
           R == [m.root EXCEPT ![w] = m.root[v]]
           U == [m.number EXCEPT ![w] = n]
<1>8a. /\ m.state \in [Version -> State] /\ m.open \in [Challenge -> BOOLEAN]
          /\ m.root \in [Version -> Version] /\ m.number \in [Version -> Nat]
          /\ m.parent \in [Version -> Version \cup {None}]
          /\ m.successor \in [Version -> Version \cup {None}]
          /\ m.about \in [Challenge -> Version \cup {None}]
  BY <1>1, Fields
<1>8b. /\ O \in [Challenge -> BOOLEAN]
           /\ R \in [Version -> Version] /\ U \in [Version -> Nat]
           /\ P \in [Version -> Version \cup {None}]
           /\ Q \in [Version -> Version \cup {None}]
  BY <1>1, <1>4, <1>8a
<1>8c. b = [state |-> S, root |-> R, number |-> U, parent |-> P, successor |-> Q,
              about |-> m.about, open |-> O, trail |-> T]
  BY <1>1, <1>8 DEF Evolution
<1>9. /\ b \in Evolution
      /\ b.state = S /\ b.trail = T /\ b.about = m.about
      /\ b.root = [m.root EXCEPT ![w] = m.root[v]]
      /\ b.number = [m.number EXCEPT ![w] = n]
      /\ b.parent = [m.parent EXCEPT ![w] = v]
      /\ b.successor = [m.successor EXCEPT ![v] = w]
      /\ b.open = [m.open EXCEPT ![c] = FALSE]
  <2> HIDE DEF O, P, Q, R, S, T, U
  <2>1. b \in Evolution
    BY <1>8c, <1>8b, <1>7, <1>8a DEF Evolution
  <2>2. /\ b.state = S /\ b.root = R /\ b.number = U /\ b.parent = P /\ b.successor = Q
        /\ b.about = m.about /\ b.open = O /\ b.trail = T
    BY <1>8c
  <2>3. QED
    BY <2>1, <2>2 DEF O, P, Q, R, U
<1>10. Known(b) = Known(m) \cup {w}
  <2>1. b.state = [m.state EXCEPT ![v] = final, ![w] = "accepted"]
    BY <1>9
  <2>2. \A y \in Version : b.state[y] # "none" <=> y \in Known(m) \/ y = w
    BY <1>1, <1>2, <1>8a, <2>1 DEF Known
  <2>3. QED
    BY <1>1, <2>2 DEF Known
<1>11. /\ b.state[v] = final /\ b.state[w] = "accepted"
       /\ \A y \in Version \ {v, w} : b.state[y] = m.state[y]
       /\ ~b.open[c] /\ \A d \in Challenge \ {c} : b.open[d] = m.open[d]
       /\ b.root[w] = m.root[v] /\ b.number[w] = n /\ b.parent[w] = v
       /\ b.successor[v] = w /\ b.successor[w] = None
       /\ \A y \in Known(m) : /\ b.root[y] = m.root[y] /\ b.number[y] = m.number[y]
                              /\ b.parent[y] = m.parent[y]
       /\ \A y \in Known(m) \ {v} : b.successor[y] = m.successor[y]
  BY <1>1, <1>2, <1>3, <1>9, <1>8a
<1>12. Proper(b)
  <2>1. \A y \in Version \ Known(b) :
          b.root[y] = y /\ b.parent[y] = None /\ b.successor[y] = None
    <3>1. ASSUME NEW y \in Version \ Known(b)
          PROVE  b.root[y] = y /\ b.parent[y] = None /\ b.successor[y] = None
      <4>1. y \in Version \ Known(m) /\ y # v /\ y # w
        BY <1>10
      <4>2. b.root[y] = m.root[y] /\ b.parent[y] = m.parent[y] /\ b.successor[y] = m.successor[y]
        BY <1>9, <1>8a, <4>1
      <4>3. QED
        BY <1>1, <4>1, <4>2 DEF Proper
    <3>2. QED
      BY <3>1
  <2>2. \A y \in Known(b) :
          /\ b.root[y] \in Known(b) /\ b.parent[y] \in Known(b) \cup {None}
          /\ b.parent[y] # None => b.root[y] = b.root[b.parent[y]]
    BY <1>1, <1>3, <1>10, <1>11, VersionAssumption DEF Proper
  <2>3. QED
    BY <1>1, <1>9, <1>10, <2>1, <2>2 DEF Proper
<1>13. InGraph(b, N \cup {w})
  BY <1>1, <1>9, <1>10 DEF InGraph
<1>14. Answerable(b)
  <2> SUFFICES ASSUME NEW y \in Version, b.state[y] = "challenged"
               PROVE  \E d \in ChallengesOf(b, y) : b.open[d]
    BY DEF Answerable
  <2>1. y \notin {v, w} /\ m.state[y] = "challenged"
    BY <1>2, <1>11
  <2>2. PICK d \in ChallengesOf(m, y) : m.open[d]
    BY <1>1, <2>1 DEF Answerable
  <2>3. d \in Challenge /\ m.about[d] = y /\ d # c
    BY <1>2, <2>1 DEF ChallengesOf
  <2>4. QED
    BY <1>9, <1>11, <2>2, <2>3 DEF ChallengesOf
<1>15. RevokedSettled(b)
  <2> SUFFICES ASSUME NEW y \in Version, b.state[y] = "revoked",
                      NEW d \in Challenge, b.about[d] = y
               PROVE  ~b.open[d]
    BY DEF RevokedSettled, ChallengesOf
  <2>1. y \notin {v, w} /\ m.state[y] = "revoked"
    BY <1>2, <1>11
  <2>2. ~m.open[d] /\ d # c
    BY <1>1, <1>2, <1>9, <2>1 DEF RevokedSettled, ChallengesOf
  <2>3. QED
    BY <1>11, <2>2
<1>16. Explained(b)
  <2> SUFFICES ASSUME NEW y \in Known(b) PROVE Chain(b.trail[y], b.state[y])
    BY DEF Explained
  <2>1. CASE y = v
    <3> HIDE DEF S, T
    <3>1. b.trail[y] = Append(m.trail[v], <<m.state[v], final>>) /\ b.state[y] = final
      BY <1>7, <1>9, <1>11, <2>1
    <3>2. QED
      BY <1>6, <3>1
  <2>2. CASE y = w
    BY <1>7, <1>9, <1>11, <2>2, FirstEvent
  <2>3. CASE y \notin {v, w}
    BY <1>1, <1>7, <1>9, <1>10, <1>11, <2>3 DEF Explained
  <2>4. QED
    BY <2>1, <2>2, <2>3
<1>17. NumberedIn(b)
  <2> SUFFICES ASSUME NEW y \in Known(b) PROVE NumbersOf(b, Siblings(b, y))
    BY DEF NumberedIn
  <2>1. CASE b.root[y] = m.root[v]
    <3>1. Siblings(b, y) = Siblings(m, v) \cup {w}
      BY <1>10, <1>11, <2>1 DEF Siblings
    <3>2. NumbersOf(m, Siblings(m, v))
      BY <1>1 DEF NumberedIn
    <3>3. \A z \in Siblings(m, v) : z \in Known(m) /\ b.number[z] = m.number[z]
      BY <1>11 DEF Siblings
    <3>4. \A y1, y2 \in Siblings(b, y) : b.number[y1] = b.number[y2] => y1 = y2
      BY <1>4, <1>11, <3>1, <3>2, <3>3 DEF NumbersOf
    <3>5. ASSUME NEW z \in Siblings(b, y), NEW k \in 1..b.number[z]
          PROVE  \E u \in Siblings(b, y) : b.number[u] = k
      <4>1. CASE z # w
        BY <3>1, <3>2, <3>3, <3>5, <4>1 DEF NumbersOf
      <4>2. CASE z = w /\ k = n
        BY <1>11, <3>1, <4>2
      <4>3. CASE z = w /\ k # n
        <5>1. k \in 1..m.number[x] /\ m.number[x] \in Nat
          BY <1>4, <1>11, <3>5, <4>3
        <5>2. PICK u \in Siblings(m, v) : m.number[u] = k
          BY <1>4, <3>2, <5>1 DEF NumbersOf
        <5>3. QED
          BY <3>1, <3>3, <5>2
      <4>4. QED
        BY <4>1, <4>2, <4>3
    <3>6. QED
      BY <3>4, <3>5 DEF NumbersOf
  <2>2. CASE b.root[y] # m.root[v]
    <3>1. y \in Known(m) /\ Siblings(b, y) = Siblings(m, y)
      BY <1>10, <1>11, <2>2 DEF Siblings
    <3>2. NumbersOf(m, Siblings(m, y))
      BY <1>1, <3>1 DEF NumberedIn
    <3>3. \A z \in Siblings(m, y) : b.number[z] = m.number[z]
      BY <1>11 DEF Siblings
    <3>4. QED
      BY <3>1, <3>2, <3>3 DEF NumbersOf
  <2>3. QED
    BY <2>1, <2>2
<1>18. LinksIn(b)
  <2> SUFFICES ASSUME NEW y \in Known(b)
               PROVE  IF Children(b, y) = {} THEN b.successor[y] = None
                      ELSE /\ b.successor[y] \in Children(b, y)
                           /\ \A z \in Children(b, y) : b.number[z] <= b.number[b.successor[y]]
    BY DEF LinksIn
  <2>1. \A z \in Children(m, y) : z \in Known(m) /\ b.number[z] = m.number[z]
    BY <1>11 DEF Children
  <2>2. CASE y = v
    <3>1. Children(b, v) = Children(m, v) \cup {w}
      BY <1>10, <1>11 DEF Children
    <3>2. Children(m, v) \subseteq Siblings(m, v)
      BY <1>1, VersionAssumption DEF Children, Siblings, Proper
    <3>3. \A z \in Children(b, v) : b.number[z] <= n
      BY <1>4, <1>11, <2>1, <2>2, <3>1, <3>2
    <3>4. QED
      BY <1>11, <2>2, <3>1, <3>3
  <2>3. CASE y = w
    <3>1. Children(b, w) = {}
      BY <1>1, <1>2, <1>10, <1>11, VersionAssumption DEF Children, Proper
    <3>2. QED
      BY <1>11, <2>3, <3>1
  <2>4. CASE y \notin {v, w}
    <3>1. y \in Known(m) /\ Children(b, y) = Children(m, y) /\ b.successor[y] = m.successor[y]
      BY <1>10, <1>11, <2>4 DEF Children
    <3>2. QED
      BY <1>1, <2>1, <3>1 DEF LinksIn
  <2>5. QED
    BY <2>2, <2>3, <2>4
<1>19. QED
  BY <1>9, <1>10, <1>12, <1>13, <1>14, <1>15, <1>16, <1>17, <1>18 DEF Sound

-----------------------------------------------------------------------------
(* The invariant is inductive.                                             *)

(* With more nodes in the graph an evolution stays sound.                  *)
LEMMA MoreNodes ==
  ASSUME NEW m, NEW N, Sound(m, N), NEW N2, N \subseteq N2
  PROVE  Sound(m, N2)
BY DEF Sound, InGraph

(* An id the graph has no node for is not in use.                          *)
LEMMA FreshIds ==
  ASSUME NEW m, NEW N, Sound(m, N)
  PROVE  /\ \A v \in Version \ N : v \notin Known(m) /\ m.state[v] = "none"
         /\ \A c \in Challenge \ N : m.about[c] = None
BY DEF Sound, InGraph, Known

(* What the invariant says when a handler starts.                          *)
LEMMA WhenIdle ==
  ASSUME IInv, phase = "idle"
  PROVE  /\ memory \in Evolution /\ efile = memory
         /\ Sound(memory, nodes)
         /\ nodes \subseteq Version \cup Challenge
         /\ ledger \subseteq Known(memory) /\ ledger \subseteq Knowledge
         /\ sfile \subseteq ledger
         /\ Known(memory) \subseteq Version
BY DEF IInv, TypeOK, Sound, Known

(* A handler that changes the memory by one step of the lifecycle and      *)
(* leaves the rest to the saves keeps the invariant.                       *)
LEMMA HandlerStep ==
  ASSUME IInv, phase = "idle", phase' = "evolution",
         UNCHANGED <<efile, sfile>>,
         ledger' \subseteq Known(memory'), ledger' \subseteq Knowledge,
         sfile \subseteq ledger',
         nodes \subseteq nodes', nodes' \subseteq Version \cup Challenge,
         Sound(memory', nodes'), Ahead(memory, memory')
  PROVE  IInv'
<1>1. efile = memory /\ Sound(memory, nodes)
  BY WhenIdle
<1>2. Sound(efile', nodes') /\ memory' \in Evolution /\ efile' \in Evolution
  BY <1>1, MoreNodes DEF Sound
<1>3. sfile' \subseteq Known(efile')
  BY DEF IInv
<1>4. TypeOK'
  BY <1>2 DEF IInv, TypeOK
<1>5. Ahead(efile', memory')
  BY <1>1
<1>6. QED
  BY <1>2, <1>3, <1>4, <1>5 DEF IInv

(* accept: the item's first version is added.                              *)
LEMMA AcceptStep ==
  ASSUME IInv, NEW k \in Knowledge, Accept(k)
  PROVE  IInv'
<1>1. /\ phase = "idle" /\ phase' = "evolution" /\ k \notin nodes
      /\ ledger' = ledger \cup {k} /\ nodes' = nodes \cup {k}
      /\ memory' = Bootstrapped(memory, {k})
      /\ UNCHANGED <<efile, sfile>>
  BY DEF Accept, WithNode, PhaseAfterAccept
<1>2. k \in Version \ Known(memory) /\ memory.state[k] = "none"
  BY <1>1, WhenIdle, FreshIds DEF Version
<1>3. Sound(memory', nodes')
  BY <1>1, <1>2, WhenIdle, BootstrapSound
<1>4. /\ Known(memory') = Known(memory) \cup {k}
      /\ memory'.successor = memory.successor
      /\ memory'.state[k] = "accepted"
      /\ \A v \in Version \ {k} : memory'.state[v] = memory.state[v]
      /\ memory' \in Evolution
  BY <1>1, <1>2, WhenIdle, BootstrappedFields
<1>5. memory'.state = [memory.state EXCEPT ![k] = "accepted"]
  <2>1. memory'.state \in [Version -> State] /\ memory.state \in [Version -> State]
    BY <1>1, <1>4, WhenIdle, Fields
  <2>2. QED
    BY <1>2, <1>4, <2>1
<1>6. Ahead(memory, memory')
  <2>1. Link(memory') = Link(memory)
    BY <1>4 DEF Link
  <2>2. QED
    BY <1>2, <1>5, <2>1 DEF Ahead
<1>7. QED
  BY <1>1, <1>2, <1>3, <1>4, <1>6, WhenIdle, HandlerStep

(* A change of state of one version, as a step of the lifecycle.           *)
LEMMA AheadByState ==
  ASSUME NEW m \in Evolution, NEW v \in Version, NEW s \in {"challenged", "revoked"},
         m.state[v] \in {"accepted", "challenged", "revised"},
         NEW b, b.state = [m.state EXCEPT ![v] = s], b.successor = m.successor
  PROVE  Ahead(m, b)
<1>1. Link(b) = Link(m)
  BY DEF Link
<1>2. QED
  BY <1>1 DEF Ahead

(* The replacement of a version, as a step of the lifecycle.               *)
LEMMA AheadByReplacement ==
  ASSUME NEW m \in Evolution, NEW v \in Version, NEW w \in Version,
         NEW final \in FinalState,
         m.state[v] = "challenged", m.state[w] = "none",
         NEW b, b.state = [m.state EXCEPT ![v] = final, ![w] = "accepted"],
         b.successor = [m.successor EXCEPT ![v] = w]
  PROVE  Ahead(m, b)
<1>1. Link(b) = [Link(m) EXCEPT ![v] = w]
  BY Fields, VersionAssumption DEF Link
<1>2. QED
  BY <1>1 DEF Ahead, FinalState

(* challenge: the version gets an open challenge of its own.               *)
LEMMA ChallengeStep ==
  ASSUME IInv, NEW v \in Version, NEW c \in Challenge, ChallengeKnowledge(v, c)
  PROVE  IInv'
<1> DEFINE about == [memory.about EXCEPT ![c] = v]
           open  == [memory.open EXCEPT ![c] = TRUE]
<1>1. /\ phase = "idle" /\ v \in ledger /\ c \notin nodes
      /\ nodes' = nodes \cup {c} /\ phase' = "evolution"
      /\ UNCHANGED <<efile, ledger, sfile>>
  BY DEF ChallengeKnowledge, WithNode
<1>2. /\ memory \in Evolution /\ v \in Known(memory)
      /\ memory.about[c] = None
  BY <1>1, WhenIdle, FreshIds
<1>3. Bootstrapped(memory, {v}) = memory
  BY <1>2, BootstrappedKnown
<1>4. /\ memory.state[v] \notin Terminal
      /\ memory' = [memory EXCEPT !.state[v] = "challenged", !.about[c] = v,
                                  !.open[c] = TRUE,
                                  !.trail = Logged(memory, v, "challenged")]
  BY <1>3 DEF ChallengeKnowledge, Challengeable
<1>5. /\ memory.state \in [Version -> State]
      /\ memory.about \in [Challenge -> Version \cup {None}]
      /\ memory.open \in [Challenge -> BOOLEAN]
  BY <1>2, Fields
<1>6. /\ memory' \in Evolution
      /\ memory'.state = [memory.state EXCEPT ![v] = "challenged"]
      /\ memory'.trail = Logged(memory, v, "challenged")
      /\ memory'.about = about /\ memory'.open = open
      /\ memory'.root = memory.root /\ memory'.number = memory.number
      /\ memory'.parent = memory.parent /\ memory'.successor = memory.successor
  <2>1. "challenged" \in State /\ Explained(memory)
    BY <1>1, WhenIdle DEF State, Sound
  <2>2. Logged(memory, v, "challenged") \in [Version -> Seq(State \X State)]
    BY <1>2, <2>1, LoggedChain
  <2>3. /\ [memory.state EXCEPT ![v] = "challenged"] \in [Version -> State]
        /\ about \in [Challenge -> Version \cup {None}]
        /\ open \in [Challenge -> BOOLEAN]
    BY <1>5, <2>1
  <2>4. QED
    BY <1>2, <1>4, <2>2, <2>3 DEF Evolution
<1>7. Answerable(memory') /\ RevokedSettled(memory')
  <2>1. Answerable(memory) /\ RevokedSettled(memory)
    BY <1>1, WhenIdle DEF Sound
  <2>2. ASSUME NEW y \in Version, memory'.state[y] = "challenged"
        PROVE  \E d \in ChallengesOf(memory', y) : memory'.open[d]
    <3>1. CASE y = v
      BY <1>5, <1>6, <3>1 DEF ChallengesOf
    <3>2. CASE y # v
      <4>1. memory.state[y] = "challenged"
        BY <1>5, <1>6, <2>2, <3>2
      <4>2. PICK d \in ChallengesOf(memory, y) : memory.open[d]
        BY <2>1, <4>1 DEF Answerable
      <4>3. d # c
        BY <1>2, <4>2, VersionAssumption DEF ChallengesOf
      <4>4. QED
        BY <1>5, <1>6, <4>2, <4>3 DEF ChallengesOf
    <3>3. QED
      BY <3>1, <3>2
  <2>3. ASSUME NEW y \in Version, memory'.state[y] = "revoked",
               NEW d \in ChallengesOf(memory', y)
        PROVE  ~memory'.open[d]
    <3>1. y # v /\ memory.state[y] = "revoked"
      BY <1>5, <1>6, <2>3
    <3>2. d # c /\ d \in ChallengesOf(memory, y)
      BY <1>5, <1>6, <2>3, <3>1 DEF ChallengesOf
    <3>3. QED
      BY <1>5, <1>6, <2>1, <3>1, <3>2 DEF RevokedSettled
  <2>4. QED
    BY <2>2, <2>3 DEF Answerable, RevokedSettled
<1>8. Sound(memory', nodes')
  <2>1. \A d \in Challenge : \/ memory'.about[d] = memory.about[d]
                             \/ memory'.about[d] = v /\ d \in nodes'
    BY <1>1, <1>5, <1>6
  <2>2. Sound(memory, nodes) /\ nodes \subseteq nodes'
    BY <1>1, WhenIdle
  <2>3. "challenged" \in State \ {"none"}
    BY DEF State
  <2>4. Transition(memory, memory', v, "challenged", nodes')
    BY <1>6, <2>1 DEF Transition
  <2>5. QED
    BY <1>2, <1>7, <2>2, <2>3, <2>4, StateChangeSound
<1>9. memory.state[v] \in {"accepted", "challenged", "revised"}
  BY <1>2, <1>4, <1>5 DEF Known, State, Terminal
<1>10. Ahead(memory, memory')
  BY <1>2, <1>6, <1>9, AheadByState
<1>11. Known(memory) \subseteq Known(memory')
  BY <1>5, <1>6 DEF Known
<1>12. QED
  BY <1>1, <1>8, <1>10, <1>11, WhenIdle, HandlerStep

(* revoke: the version's challenges are settled with it.                   *)
LEMMA RevokeStep ==
  ASSUME IInv, NEW v \in Version, RevokeKnowledge(v)
  PROVE  IInv'
<1> DEFINE open == Settled(memory, v)
<1>1. /\ phase = "idle" /\ phase' = "evolution"
      /\ v \in Known(memory) /\ memory.state[v] \notin Terminal
      /\ UNCHANGED <<efile, nodes, ledger, sfile>>
      /\ memory' = [memory EXCEPT !.state[v] = "revoked", !.open = open,
                                  !.trail = Logged(memory, v, "revoked")]
  BY DEF RevokeKnowledge
<1>2. memory \in Evolution /\ Sound(memory, nodes)
  BY <1>1, WhenIdle
<1>3. /\ memory.state \in [Version -> State]
      /\ memory.about \in [Challenge -> Version \cup {None}]
      /\ memory.open \in [Challenge -> BOOLEAN]
  BY <1>2, Fields
<1>4. /\ memory' \in Evolution
      /\ memory'.state = [memory.state EXCEPT ![v] = "revoked"]
      /\ memory'.trail = Logged(memory, v, "revoked")
      /\ memory'.about = memory.about /\ memory'.open = open
      /\ memory'.root = memory.root /\ memory'.number = memory.number
      /\ memory'.parent = memory.parent /\ memory'.successor = memory.successor
  <2>1. "revoked" \in State /\ Explained(memory)
    BY <1>2 DEF State, Sound
  <2>2. Logged(memory, v, "revoked") \in [Version -> Seq(State \X State)]
    BY <1>1, <1>2, <2>1, LoggedChain
  <2>3. /\ [memory.state EXCEPT ![v] = "revoked"] \in [Version -> State]
        /\ open \in [Challenge -> BOOLEAN]
    BY <1>3, <2>1 DEF Settled
  <2>4. QED
    BY <1>1, <1>2, <2>2, <2>3 DEF Evolution
<1>5. \A d \in Challenge :
        /\ memory.about[d] = v => ~memory'.open[d]
        /\ memory.about[d] # v => memory'.open[d] = memory.open[d]
  <2> SUFFICES ASSUME NEW d \in Challenge
               PROVE  /\ memory.about[d] = v => ~memory'.open[d]
                      /\ memory.about[d] # v => memory'.open[d] = memory.open[d]
    OBVIOUS
  <2>1. memory'.open[d] = (memory.open[d] /\ memory.about[d] # v)
    BY <1>4 DEF Settled
  <2>2. memory.open[d] \in BOOLEAN
    BY <1>3
  <2>3. QED
    BY <2>1, <2>2
<1>6. Answerable(memory')
  <2> SUFFICES ASSUME NEW y \in Version, memory'.state[y] = "challenged"
               PROVE  \E d \in ChallengesOf(memory', y) : memory'.open[d]
    BY DEF Answerable
  <2>1. y # v /\ memory.state[y] = "challenged"
    BY <1>3, <1>4
  <2>2. PICK d \in ChallengesOf(memory, y) : memory.open[d]
    BY <1>2, <2>1 DEF Sound, Answerable
  <2>3. QED
    BY <1>4, <1>5, <2>1, <2>2 DEF ChallengesOf
<1>7. RevokedSettled(memory')
  <2> SUFFICES ASSUME NEW y \in Version, memory'.state[y] = "revoked",
                      NEW d \in Challenge, memory.about[d] = y
               PROVE  ~memory'.open[d]
    BY <1>4 DEF RevokedSettled, ChallengesOf
  <2>1. CASE y = v
    BY <1>5, <2>1
  <2>2. CASE y # v
    <3>1. memory.state[y] = "revoked"
      BY <1>3, <1>4, <2>2
    <3>2. ~memory.open[d]
      BY <1>2, <3>1 DEF Sound, RevokedSettled, ChallengesOf
    <3>3. QED
      BY <1>5, <2>2, <3>2
  <2>3. QED
    BY <2>1, <2>2
<1>8. Sound(memory', nodes')
  <2>1. Transition(memory, memory', v, "revoked", nodes')
    BY <1>4 DEF Transition
  <2>2. "revoked" \in State \ {"none"} /\ nodes \subseteq nodes'
    BY <1>1 DEF State
  <2>3. QED
    BY <1>1, <1>2, <1>6, <1>7, <2>1, <2>2, StateChangeSound
<1>9. v \in Version /\ memory.state[v] \in {"accepted", "challenged", "revised"}
  BY <1>1, <1>3 DEF Known, State, Terminal
<1>10. Ahead(memory, memory')
  BY <1>2, <1>4, <1>9, AheadByState
<1>11. Known(memory) \subseteq Known(memory')
  BY <1>3, <1>4 DEF Known
<1>12. QED
  BY <1>1, <1>8, <1>10, <1>11, WhenIdle, HandlerStep

(* revise and supersede: the old version and its successor change at once. *)
LEMMA ReplaceStep ==
  ASSUME IInv, NEW v \in Version, NEW c \in Challenge, NEW w \in Successor,
         NEW final \in FinalState, ReplaceKnowledge(v, c, w, final)
  PROVE  IInv'
<1>1. /\ phase = "idle" /\ phase' = "evolution" /\ w \notin nodes
      /\ v \in Known(memory) /\ Replaceable(memory, v, c)
      /\ nodes' = nodes \cup {w} /\ UNCHANGED <<efile, ledger, sfile>>
  BY DEF ReplaceKnowledge, WithNode
<1>2. PICK x \in Latest(memory, v) :
        memory' = Replaced(memory, v, c, w, memory.number[x] + 1, final)
  BY DEF ReplaceKnowledge
<1>3. /\ memory \in Evolution /\ Sound(memory, nodes)
      /\ w \in Version \ Known(memory) /\ memory.state[w] = "none"
  BY <1>1, WhenIdle, FreshIds DEF Version
<1>4. /\ Sound(memory', nodes')
      /\ Known(memory') = Known(memory) \cup {w}
      /\ memory'.state = [memory.state EXCEPT ![v] = final, ![w] = "accepted"]
      /\ memory'.successor = [memory.successor EXCEPT ![v] = w]
  <2>0. Replacement(memory, memory', v, c, w, final)
    BY <1>1, <1>2, <1>3 DEF Replacement
  <2>1. /\ Sound(memory', nodes \cup {w})
        /\ Known(memory') = Known(memory) \cup {w}
        /\ memory'.state = [memory.state EXCEPT ![v] = final, ![w] = "accepted"]
        /\ memory'.successor = [memory.successor EXCEPT ![v] = w]
    BY <1>3, <2>0, ReplacedSound
  <2>2. QED
    BY <1>1, <2>1
<1>6. Ahead(memory, memory')
  <2>1. memory.state[v] = "challenged" /\ v \in Version
    BY <1>1 DEF Replaceable, Known
  <2>2. QED
    BY <1>3, <1>4, <2>1, AheadByReplacement
<1>7. QED
  BY <1>1, <1>3, <1>4, <1>6, WhenIdle, HandlerStep

(* _persist of the evolution: the file catches up.                         *)
LEMMA SaveEvolutionStep ==
  ASSUME IInv, SaveEvolution
  PROVE  IInv'
<1>1. /\ efile' = memory /\ phase' \in {"idle", "ledger"}
      /\ UNCHANGED <<memory, nodes, ledger, sfile>>
  BY DEF SaveEvolution
<1>2. sfile \subseteq Known(memory)
  BY DEF IInv
<1>3. QED
  BY <1>1, <1>2 DEF IInv, TypeOK

(* _persist of the ledger.                                                 *)
LEMMA SaveLedgerStep ==
  ASSUME IInv, SaveLedger
  PROVE  IInv'
<1>1. /\ phase = "ledger" /\ phase' = "idle" /\ sfile' = ledger
      /\ UNCHANGED <<memory, efile, nodes, ledger>>
  BY DEF SaveLedger
<1>2. efile = memory /\ ledger \subseteq Known(efile)
  BY <1>1 DEF IInv
<1>3. QED
  BY <1>1, <1>2 DEF IInv, TypeOK

(* __init__ from any sound file, whatever phase the process died in.       *)
LEMMA RestartStep ==
  ASSUME IInv, NEW m, Sound(m, nodes), Restart(m)
  PROVE  IInv'
<1>1. /\ memory' = Bootstrapped(m, sfile) /\ efile' = memory'
      /\ ledger' = sfile /\ sfile' = sfile /\ nodes' = nodes \cup sfile
      /\ phase' = "idle"
  BY DEF Restart
<1>2. /\ sfile \subseteq Knowledge /\ sfile \in SUBSET Version
      /\ nodes \subseteq Version \cup Challenge
  BY DEF IInv, TypeOK, Version
<1>3. Sound(memory', nodes') /\ sfile \subseteq Known(memory')
  <2>1. Sound(memory', nodes \cup sfile)
    BY <1>1, <1>2, BootstrapSound
  <2>2. Known(memory') = Known(m) \cup sfile
    BY <1>1, <1>2, BootstrappedFields DEF Sound
  <2>3. QED
    BY <1>1, <2>1, <2>2
<1>4. memory' \in Evolution
  BY <1>3 DEF Sound
<1>5. TypeOK'
  BY <1>1, <1>2, <1>4 DEF TypeOK
<1>6. QED
  BY <1>1, <1>3, <1>5 DEF IInv

(* The inductive invariant holds in every reachable state.                 *)
THEOREM Invariance == Spec => []IInv
<1>1. Init => IInv
  BY EmptySound DEF Init, IInv, TypeOK, Sound
<1>2. IInv /\ [Next]_vars => IInv'
  <2> SUFFICES ASSUME IInv, [Next]_vars PROVE IInv'
    OBVIOUS
  <2>1. ASSUME NEW k \in Knowledge, Accept(k) PROVE IInv'
    BY <2>1, AcceptStep
  <2>2. ASSUME NEW v \in Version, NEW c \in Challenge, ChallengeKnowledge(v, c) PROVE IInv'
    BY <2>2, ChallengeStep
  <2>3. ASSUME NEW v \in Version, RevokeKnowledge(v) PROVE IInv'
    BY <2>3, RevokeStep
  <2>4. ASSUME NEW v \in Version, NEW c \in Challenge, NEW w \in Successor,
               NEW final \in FinalState, ReplaceKnowledge(v, c, w, final)
        PROVE  IInv'
    BY <2>4, ReplaceStep
  <2>5. CASE SaveEvolution
    BY <2>5, SaveEvolutionStep
  <2>6. CASE SaveLedger
    BY <2>6, SaveLedgerStep
  <2>7. CASE Restart(efile)
    BY <2>7, RestartStep DEF IInv
  <2>8. CASE Restart(EmptyEvolution)
    BY <2>8, EmptySound, RestartStep
  <2>9. CASE UNCHANGED vars
    BY <2>9 DEF vars, IInv, TypeOK
  <2>10. QED
    BY <2>1, <2>2, <2>3, <2>4, <2>5, <2>6, <2>7, <2>8, <2>9 DEF Next
<1>3. QED
  BY <1>1, <1>2, PTL DEF Spec

-----------------------------------------------------------------------------
(* The properties of KnowledgeEvolution.                                   *)

(* Every variable has its type, after any handlers, saves and crashes.     *)
THEOREM TypeCorrect == Spec => []TypeOK
<1>1. IInv => TypeOK
  BY DEF IInv
<1>2. QED
  BY <1>1, Invariance, PTL

(* A challenged version always has an open challenge to be revised or      *)
(* superseded by, and a revoked one never has, in memory and in the file.  *)
THEOREM ChallengesAlwaysConsistent == Spec => []ChallengesConsistent
<1>1. IInv => ChallengesConsistent
  BY DEF IInv, Sound, ChallengesConsistent
<1>2. QED
  BY <1>1, Invariance, PTL

(* The versions of a root are numbered without a gap or a repetition,      *)
(* whichever of them are replaced and wherever the process dies.           *)
THEOREM AlwaysNumbered == Spec => []Numbered
<1>1. IInv => Numbered
  BY DEF IInv, Sound, NumberedIn, NumbersOf, Numbered
<1>2. QED
  BY <1>1, Invariance, PTL

(* The successor of a version is the newest version that names it as its   *)
(* parent (_successor sets both ends).                                     *)
THEOREM LinksAlwaysAgree == Spec => []LinksAgree
<1>1. IInv => LinksAgree
  BY DEF IInv, Sound, LinksIn, Children, LinksAgree
<1>2. QED
  BY <1>1, Invariance, PTL

(* The saved events of a version lead from nothing to its saved state.     *)
THEOREM TrailAlwaysExplains == Spec => []TrailExplains
<1>1. IInv => TrailExplains
  BY DEF IInv, Sound, Explained, Chain, TrailExplains
<1>2. QED
  BY <1>1, Invariance, PTL

(* No crash leaves a saved version or challenge without its node.          *)
THEOREM GraphAlwaysFirst == Spec => []GraphFirst
<1>1. IInv => GraphFirst
  BY DEF IInv, Sound, InGraph, GraphFirst
<1>2. QED
  BY <1>1, Invariance, PTL

(* No crash leaves an item of the ledger without its version.              *)
THEOREM LedgerAlwaysTracked == Spec => []LedgerTracked
<1>1. IInv => LedgerTracked
  BY DEF IInv, LedgerTracked
<1>2. QED
  BY <1>1, Invariance, PTL

-----------------------------------------------------------------------------
(* The saved record implements KnowledgeLifecycle.                         *)

(* When the evolution file is saved, its readers see one lifecycle step.   *)
LEMMA SaveRefines ==
  ASSUME IInv, SaveEvolution
  PROVE  Lifecycle!Next
<1>1. Ahead(efile, efile')
  BY DEF IInv, SaveEvolution
<1>2. /\ Link(efile) = [v \in Version |-> IF efile.successor[v] = None THEN v ELSE efile.successor[v]]
      /\ Link(efile)' = [v \in Version |-> IF efile'.successor[v] = None THEN v ELSE efile'.successor[v]]
      /\ Link(efile') = Link(efile)'
  BY DEF Link
<1>3. CASE \E v \in Version : /\ efile.state[v] = "none"
                              /\ efile'.state = [efile.state EXCEPT ![v] = "accepted"]
                              /\ Link(efile') = Link(efile)
  BY <1>2, <1>3 DEF Lifecycle!Next, Lifecycle!Accept
<1>4. CASE \E v \in Version, s \in {"challenged", "revoked"} :
             /\ efile.state[v] \in {"accepted", "challenged", "revised"}
             /\ efile'.state = [efile.state EXCEPT ![v] = s]
             /\ Link(efile') = Link(efile)
  BY <1>2, <1>4 DEF Lifecycle!Next, Lifecycle!Dispute, Lifecycle!Revoke, Lifecycle!Live
<1>5. CASE \E v, w \in Version, final \in {"revised", "superseded"} :
             /\ efile.state[v] = "challenged" /\ efile.state[w] = "none"
             /\ efile'.state = [efile.state EXCEPT ![v] = final, ![w] = "accepted"]
             /\ Link(efile') = [Link(efile) EXCEPT ![v] = w]
  <2>1. PICK v \in Version, w \in Version, final \in {"revised", "superseded"} :
             /\ efile.state[v] = "challenged" /\ efile.state[w] = "none"
             /\ efile'.state = [efile.state EXCEPT ![v] = final, ![w] = "accepted"]
             /\ Link(efile') = [Link(efile) EXCEPT ![v] = w]
    BY <1>5
  <2>2. Lifecycle!Replace(v, w, final)
    BY <1>2, <2>1 DEF Lifecycle!Replace
  <2>3. QED
    BY <2>2 DEF Lifecycle!Next
<1>6. QED
  BY <1>1, <1>3, <1>4, <1>5 DEF Ahead

(* A crash that finds the evolution file shows its readers nothing.        *)
LEMMA RestartRefines ==
  ASSUME IInv, Restart(efile)
  PROVE  efile' = efile
<1>1. efile \in Evolution /\ sfile \subseteq Known(efile)
  BY DEF IInv, TypeOK
<1>2. QED
  BY <1>1, BootstrappedKnown DEF Restart

(* A crash that finds it malformed shows them the ledger's items, afresh.  *)
LEMMA ForgetRefines ==
  ASSUME IInv, Restart(EmptyEvolution)
  PROVE  Lifecycle!Next
<1>1. efile' = Bootstrapped(EmptyEvolution, sfile)
  BY DEF Restart
<1>2. /\ efile'.state \in [Version -> {"none", "accepted"}]
      /\ \A v \in Version : efile'.successor[v] = None
  BY <1>1 DEF Bootstrapped, EmptyEvolution
<1>3. QED
  BY <1>2 DEF Lifecycle!Next, Lifecycle!Forget

(* Whatever the handlers do and wherever the process dies, the saved       *)
(* record only ever moves as KnowledgeLifecycle allows: no crash saves     *)
(* half a handler.                                                         *)
THEOREM Refinement == Spec => ImplementsLifecycle
<1>1. Init => Lifecycle!Init
  BY DEF Init, EmptyEvolution, Lifecycle!Init
<1>2. IInv /\ [Next]_vars => [Lifecycle!Next]_(Lifecycle!vars)
  <2> SUFFICES ASSUME IInv, [Next]_vars
               PROVE  Lifecycle!Next \/ UNCHANGED Lifecycle!vars
    OBVIOUS
  <2>1. CASE UNCHANGED efile
    BY <2>1 DEF Lifecycle!vars
  <2>2. CASE SaveEvolution
    BY <2>2, SaveRefines
  <2>3. CASE Restart(efile)
    BY <2>1, <2>3, RestartRefines
  <2>4. CASE Restart(EmptyEvolution)
    BY <2>4, ForgetRefines
  <2>5. QED
    BY <2>1, <2>2, <2>3, <2>4
    DEF Next, vars, Accept, ChallengeKnowledge, RevokeKnowledge, ReplaceKnowledge, SaveLedger
<1>3. QED
  BY <1>1, <1>2, Invariance, PTL DEF Spec, ImplementsLifecycle, Lifecycle!Spec

=============================================================================
