------------------------------ MODULE Metrics ------------------------------
(***************************************************************************)
(* The metrics of inference/evaluator.py, next to what they are meant to   *)
(* measure.  A sample is a function from rows to [label, score]; a score   *)
(* of a classification stands for score / Top.  Metrics are ratios: what   *)
(* the code adds up as floating point numbers is kept exact here, and a    *)
(* root is kept as its square.                                             *)
(***************************************************************************)
EXTENDS Integers, FiniteSets, FiniteSetsExt, Functions

CONSTANT Top

ASSUME TopAssumption == Top \in Nat \ {0}

Ratio(n, d) == [num |-> n, den |-> d]
Equal(a, b) == a.num * b.den = b.num * a.den

Square(n) == n * n
Gap(a, b) == IF a < b THEN b - a ELSE a - b

Positive(s) == {k \in DOMAIN s : s[k].label = 1}
Scored(s)   == {s[k].score : k \in DOMAIN s}

Tied(s, v)  == {k \in DOMAIN s : s[k].score = v}
Below(s, v) == {k \in DOMAIN s : s[k].score < v}
From(s, v)  == {k \in DOMAIN s : s[k].score >= v}

(* The products of the row counts, a denominator for sums over thresholds. *)
Whole(s) == ProductSet(1..Cardinality(DOMAIN s))

-----------------------------------------------------------------------------
(* Classification.                                                         *)

ClassSupport(s) == Positive(s) # {} /\ Positive(s) # DOMAIN s

(* A faulty rank: each group of ties takes the rank of its first row.      *)
FirstRank(s, v) == 2 * (Cardinality(Below(s, v)) + 1)

(* Twice the average rank of the rows that tie at v.                       *)
TwiceRank(s, v) ==
  (Cardinality(Below(s, v)) + 1) + Cardinality(Below(s, v) \cup Tied(s, v))

AverageRankAuc(s) ==
  LET p == Cardinality(Positive(s))
      positiveRanks ==
        [v \in Scored(s) |->
           TwiceRank(s, v) * Cardinality(Tied(s, v) \cap Positive(s))]
  IN  Ratio(SumFunction(positiveRanks) - p * (p + 1),
            2 * p * (Cardinality(DOMAIN s) - p))

(* The precision of those that score at least v, times Whole.              *)
PrecisionAt(s, v) ==
  Cardinality(From(s, v) \cap Positive(s))
    * (Whole(s) \div Cardinality(From(s, v)))

AveragePrecision(s) ==
  LET gains ==
        [v \in Scored(s) |-> PrecisionAt(s, v)
                               * Cardinality(Tied(s, v) \cap Positive(s))]
  IN  Ratio(SumFunction(gains), Cardinality(Positive(s)) * Whole(s))

Predicted(s) == {k \in DOMAIN s : 2 * s[k].score >= Top}

BrierScore(s) ==
  LET losses == [k \in DOMAIN s |-> Square(s[k].score - Top * s[k].label)]
  IN  Ratio(SumFunction(losses), Square(Top) * Cardinality(DOMAIN s))

Accuracy(s) ==
  Ratio(Cardinality({k \in DOMAIN s : k \in Positive(s) <=> k \in Predicted(s)}),
        Cardinality(DOMAIN s))

F1(s) ==
  LET hits  == 2 * Cardinality(Positive(s) \cap Predicted(s))
      total == hits + Cardinality(Predicted(s) \ Positive(s))
                    + Cardinality(Positive(s) \ Predicted(s))
  IN  IF total = 0 THEN Ratio(0, 1) ELSE Ratio(hits, total)

ClassificationMetrics(s) ==
  [auroc |-> AverageRankAuc(s), average_precision |-> AveragePrecision(s),
   brier_score |-> BrierScore(s), accuracy |-> Accuracy(s), f1 |-> F1(s)]

-----------------------------------------------------------------------------
(* Regression.  train is a function from training rows to their targets.   *)

(* The sum of squared distances to the mean, times the number of rows.     *)
Spread(f) ==
  Cardinality(DOMAIN f) * SumFunction([k \in DOMAIN f |-> Square(f[k])])
    - Square(SumFunction(f))

LabelsIn(s) == [k \in DOMAIN s |-> s[k].label]

RegressionScale(s) == Spread(LabelsIn(s)) > 0

Residual(s) ==
  SumFunction([k \in DOMAIN s |-> Square(s[k].label - s[k].score)])

RegressionMetrics(s, train) ==
  LET n == Cardinality(DOMAIN s)
      m == Cardinality(DOMAIN train)
      mae == SumFunction([k \in DOMAIN s |-> Gap(s[k].label, s[k].score)])
      residual == Residual(s)
      total    == Spread(LabelsIn(s))
  IN  [mae  |-> Ratio(mae, n),
       rmse |-> Ratio(residual, n),
       r2   |-> Ratio(total - n * residual, total),
       nmae |-> IF Spread(train) = 0 THEN Ratio(1, 1)
                ELSE Ratio(Square(mae) * m * (m - 1),
                           Square(n) * Spread(train))]

-----------------------------------------------------------------------------
(* What the contracts of the results accept (contracts/models.py); a       *)
(* division by zero raises before.                                         *)

Defined(r)   == r.den > 0
Magnitude(r) == Defined(r) /\ r.num >= 0
Share(r)     == Magnitude(r) /\ r.num <= r.den

ClassificationContract(m) ==
  /\ Share(m.auroc) /\ Share(m.average_precision)
  /\ Share(m.brier_score) /\ Share(m.accuracy) /\ Share(m.f1)

RegressionContract(m) ==
  Magnitude(m.mae) /\ Magnitude(m.rmse) /\ Defined(m.r2) /\ Magnitude(m.nmae)

-----------------------------------------------------------------------------
(* What the metrics are meant to be.                                       *)

(* How often a positive row scores above a negative one; a tie is a half.  *)
Concordance(s) ==
  LET pairs == Positive(s) \X (DOMAIN s \ Positive(s))
      above == {q \in pairs : s[q[1]].score > s[q[2]].score}
      ties  == {q \in pairs : s[q[1]].score = s[q[2]].score}
  IN  Ratio(2 * Cardinality(above) + Cardinality(ties), 2 * Cardinality(pairs))

(* The precision at the score of each positive row, on average.            *)
MeanPrecision(s) ==
  Ratio(SumFunction([k \in Positive(s) |-> PrecisionAt(s, s[k].score)]),
        Cardinality(Positive(s)) * Whole(s))

(* The harmonic mean of precision and recall, or 0 without a hit.          *)
HarmonicMean(s) ==
  LET hits == Cardinality(Positive(s) \cap Predicted(s))
  IN  IF hits = 0 THEN Ratio(0, 1)
      ELSE Ratio(2 * hits, Cardinality(Positive(s)) + Cardinality(Predicted(s)))

(* The squared distances between all pairs of values.                      *)
PairwiseSpread(f) ==
  SumFunction([q \in (DOMAIN f) \X (DOMAIN f) |-> Square(f[q[1]] - f[q[2]])])
    \div 2

(* The share of the labels' spread that the scores explain.                *)
Explained(s) ==
  LET total == PairwiseSpread(LabelsIn(s))
  IN  Ratio(total - Cardinality(DOMAIN s) * Residual(s), total)
=============================================================================
