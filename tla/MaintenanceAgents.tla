------------------------- MODULE MaintenanceAgents -------------------------
(***************************************************************************)
(* The agents that turn one observation of a machine into a risk, a health *)
(* score, a maintenance plan, and later a verdict on the repair.           *)
(*                                                                         *)
(* Numbers are integers: qualities, probabilities and confidences in       *)
(* percent, vibration, kurtosis and crest factor in tenths, hours and      *)
(* scores of health in tenths.  Two values the code computes from the      *)
(* others with exp and a fractional power are fields of the observation:   *)
(* probability, of compute_anomaly_probability, and hours, the lower       *)
(* bound of the remaining life.                                            *)
(***************************************************************************)
EXTENDS Integers, FiniteSets

Risks == {"low", "medium", "high", "critical"}

Options == {"replace-now", "constrained-operation", "acquire-more"}

\* What is known of the machine and of the scenario it is asked about.
Observation == [
  quality: 0..100, vibration: Nat, kurtosis: Nat, crest: Nat,
  temperature: Int, load: Nat,
  seen: BOOLEAN, visual: 0..100, certainty: 0..100, spalled: BOOLEAN,
  scenario: {"none", "governed", "conflict"},
  probability: 0..100, hours: Nat,
  parts: BOOLEAN, cost: Nat, downtime: Nat]

Larger(a, b) == IF a >= b THEN a ELSE b
Smaller(a, b) == IF a <= b THEN a ELSE b

\* round(x / n), to the even one of two equally near.
Rounded(x, n) ==
  LET low == x \div n  rest == 2 * (x % n)
  IN IF rest > n \/ (rest = n /\ low % 2 = 1) THEN low + 1 ELSE low

-----------------------------------------------------------------------------
(* Evidence quality, diagnosis and reliability *)

QualityWarnings(o) ==
  {w \in {"quality", "amplitude", "impulsive", "vision", "disagree"} :
     \/ w = "quality" /\ o.quality < 80
     \/ w = "amplitude" /\ o.vibration = 0
     \/ w = "impulsive" /\ o.kurtosis > 200
     \/ w = "vision" /\ o.seen /\ o.certainty < 55
     \/ w = "disagree" /\ o.seen /\ o.visual < 25 /\ o.kurtosis > 70}

\* The gate, which is recorded and read by no other agent.
QualityAccepts(o) ==
  /\ o.quality - 8 * Cardinality(QualityWarnings(o)) >= 72
  /\ Cardinality(QualityWarnings(o)) < 2

Contradicted(o) ==
  \/ o.quality < 75
  \/ o.seen /\ o.visual < 30 /\ o.kurtosis > 70
  \/ o.scenario = "conflict"

Hot(o) == o.temperature >= 86 /\ (o.seen => o.visual < 55)
Impacts(o) == (o.seen /\ o.spalled) \/ (o.kurtosis >= 65 /\ o.crest >= 48)

\* The confidence in the fault mode that is named first.
PrimaryProbability(o) ==
  IF o.scenario = "conflict" THEN Smaller(64, Larger(66, o.probability - 8))
  ELSE IF o.scenario = "governed" THEN Smaller(97, Larger(66, o.probability + 4))
  ELSE IF Hot(o) THEN Smaller(94, o.probability + 8)
  ELSE IF Impacts(o) THEN Smaller(96, o.probability + 5)
  ELSE Larger(45, o.probability)

NeedsMoreEvidence(o) ==
  Contradicted(o) \/ o.quality < 80 \/ PrimaryProbability(o) < 65

InferredRisk(o) ==
  IF o.probability >= 88 \/ o.temperature >= 88 \/ o.vibration >= 40 THEN "critical"
  ELSE IF o.probability >= 68 THEN "high"
  ELSE IF o.probability >= 42 THEN "medium"
  ELSE "low"

ContinuationRisk(o) ==
  IF o.hours < 80 /\ InferredRisk(o) = "high" THEN "critical" ELSE InferredRisk(o)

\* Between 0 and 1000: the points lost to the anomaly, to heat, vibration and load.
HealthScore(o) ==
  LET points == 10000 - 52 * o.probability - 35 * Larger(0, o.temperature - 55)
                - 52 * o.vibration - 3 * Smaller(100, o.load)
  IN Rounded(Larger(0, Smaller(10000, points)), 10)

-----------------------------------------------------------------------------
(* The plan *)

\* Weighted sum of the five dimensions, in tenths: cost in hundredths.
Overall(safety, resilience, sustainability, cost, downtime) ==
  Rounded(34000 * safety + 24000 * resilience + 18000 * sustainability
            + Larger(0, 1200000 - 15 * cost) + Larger(0, 1200000 - 10800 * downtime),
          10000)

\* ready: every part asked for is in stock, as far as the inventory has answered.
Obtainable(o, ready) == ready \/ ~o.parts

ScoreOf(option, o, ready) ==
  CASE option = "replace-now" ->
         Overall(94, IF Obtainable(o, ready) THEN 91 ELSE 58, 88, 100 * o.cost, o.downtime)
    [] option = "constrained-operation" ->
         Overall(IF ContinuationRisk(o) = "critical" THEN 32 ELSE 58, 76, 46,
                 Larger(4000, 82 * o.cost), Larger(10, Rounded(7 * o.downtime, 10)))
    [] option = "acquire-more" ->
         LET urgent == ~NeedsMoreEvidence(o)
         IN Overall(IF ~urgent THEN 94
                    ELSE CASE ContinuationRisk(o) = "critical" -> 42
                           [] ContinuationRisk(o) = "high" -> 64
                           [] OTHER -> 80,
                    IF ~urgent THEN 90
                    ELSE CASE ContinuationRisk(o) = "critical" -> 38
                           [] ContinuationRisk(o) = "high" -> 58
                           [] OTHER -> 76,
                    96, 6000, 15)

Feasible(o, ready) ==
  {option \in {"replace-now", "constrained-operation"} :
     /\ option = "replace-now" => Obtainable(o, ready)
     /\ option = "constrained-operation" => o.hours >= 30}

\* The options are compared in this order, and the first of equals wins.
Rank(option) ==
  CASE option = "replace-now" -> 1
    [] option = "constrained-operation" -> 2
    [] option = "acquire-more" -> 3

Better(a, b, o, ready) ==
  \/ ScoreOf(a, o, ready) > ScoreOf(b, o, ready)
  \/ ScoreOf(a, o, ready) = ScoreOf(b, o, ready) /\ Rank(a) <= Rank(b)

Recommended(o, ready) ==
  IF NeedsMoreEvidence(o) THEN "acquire-more"
  ELSE LET candidates == IF Feasible(o, ready) # {} THEN Feasible(o, ready) ELSE Options
       IN CHOOSE a \in candidates : \A b \in candidates : Better(a, b, o, ready)

-----------------------------------------------------------------------------
(* The verdict on the repair *)

Remains(o) ==
  \/ o.vibration > 18 \/ o.temperature > 72
  \/ o.seen /\ o.visual > 55
  \/ o.quality < 75

\* Mutant of Improved: compared with no baseline.
ImprovedAnyway(baseline, post) == post > 0

\* Twenty percent above the score before.
Improved(baseline, post) == 100 * (post - baseline) >= 20 * Larger(baseline, 10)

Passes(baseline, o) ==
  /\ ~Remains(o)
  /\ HealthScore(o) >= 750
  /\ Improved(baseline, HealthScore(o))

=============================================================================
