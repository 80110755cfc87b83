----------------------------- MODULE BenchSignal -----------------------------
(***************************************************************************)
(* What the gateway makes of the signal of a frame: a quality score with   *)
(* warnings, the verdict of a model, and the observation an incident is    *)
(* opened with.  The features of the signal are data.                      *)
(*                                                                         *)
(* Numbers are integers: ratios and spectral shares in thousandths, bits,  *)
(* vibration, kurtosis, crest factor and frequencies in tenths, and the    *)
(* score of a signal and its penalties in units of 1/100000.               *)
(***************************************************************************)
EXTENDS MaintenanceAgents

Shares == 0..1000

Anomalies == 0..10000

Classes == {"normal", "fault", "unclassified_anomaly"}

\* The features of a signal, what its frame says of the machine, and what the
\* registered model tells of it.  judged: a model is registered; measured: the
\* frame has a temperature; asks: it asks for an incident.
Signals == [
  clipping: Shares, dropout: Shares, dc: Shares, bits: Nat,
  entropy: Shares, highBand: Shares, midBand: Shares,
  vibration: Nat, kurtosis: Nat, crest: Nat, shaft: Nat, dominant: Nat,
  judged: BOOLEAN, class: Classes, anomaly: Anomalies,
  measured: BOOLEAN, temperature: Int, load: Nat,
  asks: BOOLEAN,
  probability: 0..100, hours: Nat, parts: BOOLEAN, cost: Nat, downtime: Nat]

Distance(a, b) == IF a >= b THEN a - b ELSE b - a

-----------------------------------------------------------------------------
(* Quality *)

Noisy(x) == x.entropy > 440 /\ x.highBand > 110

Impulsive(x) == x.kurtosis > 180 \/ x.crest > 80

\* No multiple of the shaft's frequency is near the dominant one.
OrderMismatch(x) ==
  /\ x.shaft > 10 /\ x.dominant > 10
  /\ \A order \in 1..6 : 100 * Distance(x.dominant, order * x.shaft) > 14 * x.shaft

Penalty(x) ==
  Smaller(45000, 400 * x.clipping) + Smaller(45000, 220 * x.dropout)
  + Smaller(25000, 30 * x.dc)
  + (IF x.bits < 80 THEN Smaller(30000, 1000 * (80 - x.bits)) ELSE 0)
  + (IF Noisy(x) THEN Smaller(25000, 120 * (x.entropy - 400) + 25 * x.highBand) ELSE 0)
  + (IF Impulsive(x) THEN 22000 ELSE 0)
  + (IF OrderMismatch(x) THEN 12000 ELSE 0)

Score(x) == Larger(0, 100000 - Penalty(x))

Warnings(x) ==
  {w \in {"clipping", "dropout", "offset", "bits", "noise", "impulses", "order"} :
     \/ w = "clipping" /\ x.clipping > 10
     \/ w = "dropout" /\ x.dropout > 80
     \/ w = "offset" /\ x.dc > 400
     \/ w = "bits" /\ x.bits < 80
     \/ w = "noise" /\ Noisy(x)
     \/ w = "impulses" /\ Impulsive(x)
     \/ w = "order" /\ OrderMismatch(x)}

Accepted(x) == Score(x) >= 45000

-----------------------------------------------------------------------------
(* Inference *)

\* Without a model, a sum of the features, in units of 1/10000.
FallbackAnomaly(x) ==
  Smaller(10000, 140 * x.vibration + 70 * Larger(0, x.kurtosis - 30)
                 + 60 * Larger(0, x.crest - 30) + 8 * x.midBand)

Verdict(x) ==
  IF x.judged THEN [class |-> x.class, anomaly |-> x.anomaly]
  ELSE [class |-> IF FallbackAnomaly(x) < 4200 THEN "normal" ELSE "unclassified_anomaly",
        anomaly |-> FallbackAnomaly(x)]

\* Sessions, uploads and the frames route ask the same of the verdict.
Faulty(x) == Verdict(x).class # "normal" \/ Verdict(x).anomaly >= 4500

-----------------------------------------------------------------------------
(* The observation of an incident opened for the signal: no picture *)

IncidentInput(x) ==
  [quality |-> Score(x) \div 1000,
   vibration |-> x.vibration, kurtosis |-> x.kurtosis, crest |-> x.crest,
   temperature |-> IF x.measured THEN x.temperature ELSE 25,
   load |-> Smaller(150, x.load),
   seen |-> FALSE, visual |-> 0, certainty |-> 0, spalled |-> FALSE, scenario |-> "none",
   probability |-> x.probability, hours |-> x.hours,
   parts |-> x.parts, cost |-> x.cost, downtime |-> x.downtime]

=============================================================================
