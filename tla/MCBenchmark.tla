------------------------------ MODULE MCBenchmark ------------------------------
(* Small instances of Benchmark for TLC.                                       *)
EXTENDS Benchmark, TLC

CONSTANTS g1, g2

TwoRuns == {g1, g2}

AnyRun == Permutations(TwoRuns)

MondayNoon == 4 * DAY + 12 * HOUR

(* After the cutoff, before the weekend.                                       *)
FridayEvening == 92 * DAY + 12 * HOUR + 59

Draw(gross, method, at, variant, jitter, bps, routine, inParts) ==
  [ gross |-> gross, method |-> method, capturedAt |-> at, variant |-> variant,
    jitterDays |-> jitter, varianceScaleBps |-> bps, routine |-> routine,
    feeInParts |-> inParts ]

SomeDraws ==
  { Draw(what[1], setting[1], setting[2], variant, setting[3], what[2], what[3], setting[4]) :
      what \in {<<45000, 20, <<>>>>, <<1000000, 295, <<900, -500, 300>>>>}, variant \in {1, 4},
      setting \in { <<"CARD", MondayNoon, 0, TRUE>>, <<"UPI", FridayEvening, 1, FALSE>>,
                    <<"WALLET", FridayEvening, 1, TRUE>> } }

OneDraw == {Draw(250000, "NETBANKING", MondayNoon, 2, 0, 100, <<-40>>, FALSE)}

CaseDraws == <<SomeDraws, OneDraw>>

Target(split, strata) == {[split |-> split, stratum |-> s] : s \in strata}

CaseTargets ==
  << Target("primary_test", {"SEEN", "NOVEL_COMBINATION", "COMPOUND_UNSEEN", "AMBIGUOUS",
                             "ADVERSARIAL"}),
     Target("validation", {"ADVERSARIAL"}) >>

DevelopmentBucket == BucketOf(Plan({"MDR_FEE"}, FALSE), CHOOSE d \in OneDraw : TRUE)

Seen(tuples) == {[causes |-> t, bucket |-> DevelopmentBucket] : t \in tuples}

(* Everything; one of the splits, and systems in an order of their own; and a  *)
(* smoke run.                                                                  *)
Started(splits, systems, limit) == [splits |-> splits, systems |-> systems, limit |-> limit]

SomeOptions ==
  { Started({"primary_test", "validation"}, <<"A", "B", "C">>, 0),
    Started({"validation"}, <<"C">>, 0),
    Started({"primary_test"}, <<"B", "A", "B">>, 0),
    Started({"primary_test", "validation"}, <<"A", "C">>, 1) }

(* With a pair and a triple of causes; and two that the generator refuses:     *)
(* without a pair, and without a cause alone.                                  *)
SomeDevelopments ==
  { Seen(kSubset(1, SINGLE_CAUSES)
           \cup {{"MDR_FEE", "TIMING_LAG"}, {"MDR_FEE", "TIMING_LAG", "UTR_SPLIT"}}),
    Seen(kSubset(1, SINGLE_CAUSES)),
    Seen(kSubset(1, SINGLE_CAUSES \ {"UTR_SPLIT"}) \cup {{"ROUNDING_DRIFT", "UTR_SPLIT"}}) }
================================================================================
