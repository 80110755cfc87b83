---------------------------- MODULE MCLivePlant ----------------------------
(* LivePlant with one known and one unknown asset and three kinds of signal. *)
EXTENDS LivePlant, Assessments, CsvColumns, TLC

CONSTANTS machine, stranger, normal, worn, noise

MCAnalysisTools == <<"asset.query", "inventory.query">>

\* Sessions and the bench stream meet on one node; all others share tools, machines
\* and incidents.
MCMixes ==
  {{"sessions", "nodes"}, {"sessions", "faults"}, {"nodes", "faults"}, {"files", "faults"},
   {"campaigns", "reports", "faults"}, {"reports", "people", "faults"}}

MCSeededStatus == machine :> "watch"

\* A machine after half a repair.
Tolerable ==
  [quality |-> 95, vibration |-> 17, kurtosis |-> 30, crest |-> 30, temperature |-> 60, load |-> 50,
   seen |-> FALSE, visual |-> 0, certainty |-> 0, spalled |-> FALSE, scenario |-> "none",
   probability |-> 20, hours |-> 5000, parts |-> TRUE, cost |-> 600, downtime |-> 60]

\* A signal without a fault, and what its frame tells.
Clean ==
  [clipping |-> 1, dropout |-> 0, dc |-> 10, bits |-> 100, entropy |-> 300, highBand |-> 20,
   midBand |-> 100, vibration |-> 8, kurtosis |-> 30, crest |-> 30, shaft |-> 300, dominant |-> 300,
   judged |-> FALSE, class |-> "normal", anomaly |-> 0, measured |-> TRUE, temperature |-> 40,
   load |-> 50, asks |-> FALSE, probability |-> 2, hours |-> 5000,
   parts |-> TRUE, cost |-> 600, downtime |-> 60]

MCSignals ==
  (normal :> Clean)
  @@ (worn :> [Clean EXCEPT !.judged = TRUE, !.class = "fault", !.anomaly = 9000, !.asks = TRUE,
                            !.vibration = 45, !.kurtosis = 90, !.crest = 60, !.temperature = 80,
                            !.probability = 95, !.hours = 20])
  @@ (noise :> [Clean EXCEPT !.dropout = 300, !.clipping = 200, !.vibration = 45, !.asks = TRUE])

MCMeasurement == [c \in Contents |-> MCSignals[c]]

MCObservations == {IncidentInput(MCSignals[c]) : c \in {normal, worn}} \cup {Tolerable}

MCCampaignSignals == <<worn, noise>>

MCCsvFiles == {[length |-> 5, window |-> 4, hop |-> 4]}

\* Observations around the thresholds of the agents.
Borderline ==
  {[Tolerable EXCEPT !.temperature = t, !.probability = p, !.hours = h, !.quality = q,
                     !.scenario = s] :
     t \in {60, 69, 70, 87, 88}, p \in {41, 42, 67, 68, 88}, h \in {29, 79, 80},
     q \in {79, 80}, s \in {"none", "conflict"}}

\* The safety risk is critical only where running on would be, and never low there;
\* and a plan is made whatever the observation is.
ASSUME AssessmentsChecked ==
  \A o \in Borderline, fast \in BOOLEAN, ready \in BOOLEAN :
    /\ SafetyRisk(o, fast) = "critical" => ContinuationRisk(o) = "critical"
    /\ ContinuationRisk(o) = "critical" => SafetyRisk(o, fast) # "low"
    /\ Recommended(o, ready) \in Options

\* Recordings of two columns: a first row, many rows like a second, one like a third.
Word(text) == [name |-> <<text>>, fold |-> <<text>>, number |-> FALSE, index |-> -1]
Number(text, i) == [name |-> <<text>>, fold |-> <<text>>, number |-> TRUE, index |-> i]
Dotted == [name |-> <<"1.">>, fold |-> <<"1">>, number |-> TRUE, index |-> -1]
Nothing == [name |-> <<>>, fold |-> <<>>, number |-> FALSE, index |-> -1]

Recordings ==
  {<<first>> \o [k \in 1..MinSamples |-> most] \o <<other>> :
     first \in {<<Word("time"), Word("value")>>, <<Dotted, Word("time")>>,
               <<Number("7", 7), Number("8", 8)>>, <<Nothing, Word("value")>>},
     most \in {<<Number("7", 7), Number("8", 8)>>, <<Number("7", 7), Nothing>>,
              <<Number("7", 7)>>, <<Nothing, Nothing>>},
     other \in {<<Number("7", 7), Nothing>>, <<Nothing, Number("8", 8)>>}}

Requests == {Nothing, Word("value"), Number("1", 1), Number("0", 0), Number("9", 9)}

\* The server and the edge node read the same samples of a recording, but where a
\* similar name competes with a position; and there they may differ.
ASSUME ColumnsChecked ==
  LET differing == {<<f, r>> \in Recordings \X Requests :
                      /\ ServerSamples(f, r) # {}
                      /\ EdgeSamples(f, r) # ServerSamples(f, r)}
  IN  /\ differing # {}
      /\ \A d \in differing : Competing(Headers(Rows(d[1])), d[2]) /\ ~Blank(d[2])
      /\ \E f \in Recordings : Automatic(Rows(f)) = 2

\* The evidence files are written and never read.
Seen == <<gatewayMemory, workflowVars, plantVars>>

Symmetric == Permutations(Slots) \cup Permutations(Sessions)
=============================================================================
