--------------------------- MODULE KnowledgeEvolution ---------------------------
(***************************************************************************)
(* The lifecycle of accepted knowledge                                     *)
(* (research_orchestration/knowledge_evolution.py and the routes that      *)
(* drive it): acceptance, challenges, revision, supersession, revocation,  *)
(* the order in which one handler saves evidence-graph.json,               *)
(* knowledge-evolution.json and research-state.json, and a crash between   *)
(* any two of these saves.                                                 *)
(*                                                                         *)
(* The research gate is left open: any new item may pass it.  Texts,       *)
(* actors and times are left out.                                          *)
(***************************************************************************)
EXTENDS Integers, Sequences

CONSTANTS
  Knowledge,   \* ids of accepted knowledge items
  Successor,   \* ids of versions created by a revision or supersession
  Challenge,   \* ids of challenges
  None         \* no version: a field that is not set

Version == Knowledge \cup Successor

ASSUME VersionAssumption ==
  /\ Knowledge \cap Successor = {}
  /\ Version \cap Challenge = {}
  /\ None \notin Version

VARIABLES
  memory,   \* KnowledgeEvolutionStore: _versions, _challenges, _events
  efile,    \* knowledge-evolution.json
  nodes,    \* ids evidence-graph.json has a node for
  ledger,   \* ResearchOrchestrator._accepted
  sfile,    \* the accepted items of research-state.json
  phase     \* "idle", "evolution" or "ledger": the file to be saved next

vars == <<memory, efile, nodes, ledger, sfile, phase>>

State == {"none", "accepted", "challenged", "revised", "superseded", "revoked"}
Terminal == {"revoked", "superseded"}

Evolution == [state     : [Version -> State],
              root      : [Version -> Version],
              number    : [Version -> Nat],
              parent    : [Version -> Version \cup {None}],
              successor : [Version -> Version \cup {None}],
              about     : [Challenge -> Version \cup {None}],
              open      : [Challenge -> BOOLEAN],
              trail     : [Version -> Seq(State \X State)]]

EmptyEvolution == [state     |-> [v \in Version |-> "none"],
                   root      |-> [v \in Version |-> v],
                   number    |-> [v \in Version |-> 0],
                   parent    |-> [v \in Version |-> None],
                   successor |-> [v \in Version |-> None],
                   about     |-> [c \in Challenge |-> None],
                   open      |-> [c \in Challenge |-> FALSE],
                   trail     |-> [v \in Version |-> <<>>]]

Known(m) == {v \in Version : m.state[v] # "none"}
ChallengesOf(m, v) == {c \in Challenge : m.about[c] = v}

(* bootstrap, for every item of A: a version that is there stays.          *)
Bootstrapped(m, A) ==
  LET new == A \ Known(m)
      In(old, value) == [v \in Version |-> IF v \in new THEN value ELSE old[v]]
  IN  [m EXCEPT !.state  = In(@, "accepted"),
                !.number = In(@, 1),
                !.trail  = In(@, <<<<"none", "accepted">>>>)]

(* Mutant of Logged: the event takes the state after the change.           *)
LoggedLate(m, v, to) == [m.trail EXCEPT ![v] = Append(@, <<to, to>>)]

(* An event: from the state version v is in, to its next one.              *)
Logged(m, v, to) == [m.trail EXCEPT ![v] = Append(@, <<m.state[v], to>>)]

(***************************************************************************)
(* Handlers.  Each changes the memory, lets the graph save its new nodes,  *)
(* and leaves the other files to the Save actions.                         *)
(***************************************************************************)
Init ==
  /\ memory = EmptyEvolution /\ efile = EmptyEvolution
  /\ nodes = {} /\ ledger = {} /\ sfile = {}
  /\ phase = "idle"

(* Mutant of WithNode: the graph does not save the node.                   *)
WithoutNode(x) == nodes

(* EvidenceGraphStore puts a node, links it and saves.                     *)
WithNode(x) == nodes \cup {x}

(* Mutant of PhaseAfterAccept: the ledger is saved before the evolution.   *)
LedgerOnly == "ledger"

PhaseAfterAccept == "evolution"

(* accept, once the gate has passed.                                       *)
Accept(k) ==
  /\ phase = "idle" /\ k \notin nodes
  /\ ledger' = ledger \cup {k}
  /\ nodes' = WithNode(k)
  /\ memory' = Bootstrapped(memory, {k})
  /\ phase' = PhaseAfterAccept
  /\ UNCHANGED <<efile, sfile>>

(* Mutant of Challengeable: only the revoked state is looked for.          *)
ChallengeableUnlessRevoked(m, v) == m.state[v] # "revoked"

Challengeable(m, v) == m.state[v] \notin Terminal

(* challenge_knowledge and challenge: only an item of the ledger, in any   *)
(* state that is not terminal.                                             *)
ChallengeKnowledge(v, c) ==
  /\ phase = "idle"
  /\ v \in ledger /\ c \notin nodes
  /\ LET m == Bootstrapped(memory, {v})
     IN  /\ Challengeable(m, v)
         /\ memory' = [m EXCEPT !.state[v] = "challenged",
                                !.about[c] = v,
                                !.open[c] = TRUE,
                                !.trail = Logged(m, v, "challenged")]
  /\ nodes' = WithNode(c)
  /\ phase' = "evolution"
  /\ UNCHANGED <<efile, ledger, sfile>>

(* Mutant of Settled: the challenges stay as they are.                     *)
NothingSettled(m, v) == m.open

(* _terminal_transition resolves every challenge of the version.           *)
Settled(m, v) == [c \in Challenge |-> m.open[c] /\ m.about[c] # v]

RevokeKnowledge(v) ==
  /\ phase = "idle"
  /\ v \in Known(memory) /\ memory.state[v] \notin Terminal
  /\ memory' = [memory EXCEPT !.state[v] = "revoked",
                              !.open = Settled(memory, v),
                              !.trail = Logged(memory, v, "revoked")]
  /\ phase' = "evolution"
  /\ UNCHANGED <<efile, nodes, ledger, sfile>>

(* Mutant of Replaceable: the state of the version is not looked at.       *)
OpenChallenge(m, v, c) == m.about[c] = v /\ m.open[c]

Replaceable(m, v, c) ==
  m.state[v] = "challenged" /\ m.about[c] = v /\ m.open[c]

Siblings(m, v) == {x \in Known(m) : m.root[x] = m.root[v]}

(* Mutant of Latest: the number of the replaced version is taken.          *)
ReplacedOne(m, v) == {v}

(* max(siblings).                                                          *)
Latest(m, v) == {x \in Siblings(m, v) : \A y \in Siblings(m, v) : m.number[y] <= m.number[x]}

(* Mutant of SuccessorLink: a link that is set stays.                      *)
FirstSuccessor(m, v, w) == IF m.successor[v] = None THEN w ELSE m.successor[v]

SuccessorLink(m, v, w) == w

(* _successor: the new version w, and the old one in its final state.      *)
Replaced(m, v, c, w, n, final) ==
  [m EXCEPT !.state = [@ EXCEPT ![v] = final, ![w] = "accepted"],
            !.root[w] = m.root[v],
            !.number[w] = n,
            !.parent[w] = v,
            !.successor[v] = SuccessorLink(m, v, w),
            !.open[c] = FALSE,
            !.trail = [Logged(m, v, final) EXCEPT ![w] = <<<<"none", "accepted">>>>]]

(* Mutant of FinalState: a state KnowledgeState does not have.             *)
UnknownFinalState == {"revised", "replaced"}

FinalState == {"revised", "superseded"}

(* revise and supersede: the named challenge is open and of this version.  *)
(* The replacement must be in the ledger; it gives the new version its     *)
(* text, so which one it is makes no difference here.                      *)
ReplaceKnowledge(v, c, w, final) ==
  /\ phase = "idle"
  /\ ledger # {} /\ w \notin nodes
  /\ v \in Known(memory) /\ Replaceable(memory, v, c)
  /\ \E x \in Latest(memory, v) :
       memory' = Replaced(memory, v, c, w, memory.number[x] + 1, final)
  /\ nodes' = WithNode(w)
  /\ phase' = "evolution"
  /\ UNCHANGED <<efile, ledger, sfile>>

(* KnowledgeEvolutionStore._persist; accept has the ledger to save, too.   *)
SaveEvolution ==
  /\ phase = "evolution"
  /\ efile' = memory
  /\ phase' = IF ledger = sfile THEN "idle" ELSE "ledger"
  /\ UNCHANGED <<memory, nodes, ledger, sfile>>

SaveLedger ==
  /\ phase = "ledger"
  /\ sfile' = ledger
  /\ phase' = "idle"
  /\ UNCHANGED <<memory, efile, nodes, ledger>>

(* The process dies between two saves or when idle, and a new one loads    *)
(* the files: m is the saved evolution, or the empty one when              *)
(* knowledge-evolution.json is malformed.  _reconcile_graph bootstraps     *)
(* every item of the ledger.                                               *)
Restart(m) ==
  /\ ledger' = sfile
  /\ memory' = Bootstrapped(m, sfile)
  /\ efile' = Bootstrapped(m, sfile)
  /\ nodes' = nodes \cup sfile
  /\ phase' = "idle"
  /\ UNCHANGED sfile

Next ==
  \/ \E k \in Knowledge : Accept(k)
  \/ \E v \in Version, c \in Challenge : ChallengeKnowledge(v, c)
  \/ \E v \in Version : RevokeKnowledge(v)
  \/ \E v \in Version, c \in Challenge, w \in Successor, final \in FinalState :
       ReplaceKnowledge(v, c, w, final)
  \/ SaveEvolution
  \/ SaveLedger
  \/ Restart(efile)
  \/ Restart(EmptyEvolution)

Spec == Init /\ [][Next]_vars

-----------------------------------------------------------------------------
(***************************************************************************)
(* Properties.                                                             *)
(***************************************************************************)

(* Every variable has its type.                                            *)
TypeOK ==
  /\ memory \in Evolution /\ efile \in Evolution
  /\ nodes \subseteq Version \cup Challenge
  /\ ledger \subseteq Knowledge /\ sfile \subseteq Knowledge
  /\ phase \in {"idle", "evolution", "ledger"}

(* No challenged version is stuck: it has an open challenge, which is what *)
(* revise and supersede ask for, also when a crash cut a handler short.    *)
Answerable(m) ==
  \A v \in Version : m.state[v] = "challenged" => \E c \in ChallengesOf(m, v) : m.open[c]

(* A revoked version has no open challenge left: the scheduler, which      *)
(* forks a branch for an open challenge, does not come back to it.         *)
RevokedSettled(m) ==
  \A v \in Version : m.state[v] = "revoked" => \A c \in ChallengesOf(m, v) : ~m.open[c]

ChallengesConsistent ==
  /\ Answerable(memory) /\ Answerable(efile)
  /\ RevokedSettled(memory) /\ RevokedSettled(efile)

(* The versions of one root are numbered 1, 2, ... without a gap or a      *)
(* repetition, although a version may be replaced a second time and a      *)
(* crash may take a successor back.                                        *)
Numbered ==
  \A v \in Known(memory) :
    LET S == Siblings(memory, v)
    IN  /\ \A x, y \in S : memory.number[x] = memory.number[y] => x = y
        /\ \A x \in S : \A n \in 1..memory.number[x] : \E y \in S : memory.number[y] = n

(* The links between versions agree: the successor of a version is the     *)
(* newest version that names it as its parent, and there is one as soon as *)
(* any version names it.                                                   *)
LinksAgree ==
  \A v \in Known(memory) :
    LET children == {w \in Known(memory) : memory.parent[w] = v}
    IN  IF children = {} THEN memory.successor[v] = None
        ELSE /\ memory.successor[v] \in children
             /\ \A w \in children : memory.number[w] <= memory.number[memory.successor[v]]

(* The saved events explain the saved states: those of a version form a    *)
(* chain from nothing to the state it is in.                               *)
TrailExplains ==
  \A v \in Known(efile) :
    LET t == efile.trail[v]
    IN  /\ t # <<>> /\ t[1][1] = "none" /\ t[Len(t)][2] = efile.state[v]
        /\ \A i \in 1..Len(t) - 1 : t[i][2] = t[i + 1][1]

(* The graph is saved first: wherever a crash strikes, every version and   *)
(* challenge of the saved evolution has its node in the saved graph.       *)
GraphFirst ==
  /\ Known(efile) \subseteq nodes
  /\ \A c \in Challenge : efile.about[c] # None => c \in nodes

(* Every item of the ledger, in memory or on disk, has a version: accept   *)
(* saves the ledger last.                                                  *)
LedgerTracked ==
  ledger \subseteq Known(memory) /\ (phase = "idle" => sfile \subseteq Known(efile))

(* The saved record of versions implements KnowledgeLifecycle: a crash     *)
(* never saves half a handler.                                             *)
Lifecycle ==
  INSTANCE KnowledgeLifecycle WITH
    state <- efile.state,
    successor <- [v \in Version |-> IF efile.successor[v] = None THEN v ELSE efile.successor[v]]

ImplementsLifecycle == Lifecycle!Spec

(* "Historical versions are never silently overwritten": once a version    *)
(* has been replaced, its saved link to the version that replaced it stays *)
(* (unless the file is lost).                                              *)
HistoryKept ==
  [][\A v \in Version : \/ efile.successor[v] = None
                        \/ efile'.successor[v] = efile.successor[v]
                        \/ Restart(EmptyEvolution)]_vars
=============================================================================
