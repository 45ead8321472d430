----------------------------- MODULE Evaluation -----------------------------
(***************************************************************************)
(* A batch: a materialized package goes to Modal and what comes back is    *)
(* scored (scripts/run_rtj_modal.py).  For the smoke test a balanced       *)
(* cohort is drawn from the package first (inference/smoke.py); the        *)
(* controller is that of ModalRun; the worker (workers/rtj/runtime.py)     *)
(* turns the model's scores of numbered nodes into a file of predictions;  *)
(* the evaluator (inference/evaluator.py) joins the file with the truth.   *)
(*                                                                         *)
(* Labels are the rows of LabelSplits, so that packages hold what the      *)
(* reviewed queries say of a dataset.                                      *)
(***************************************************************************)
EXTENDS LabelSplits, Metrics, SequencesExt

CONSTANTS Jobs,      (* "smoke", or a task whose whole package is scored   *)
          Datasets,  (* for each job the datasets and cutoffs it may have  *)
          Scores,    (* the scores the model may give                      *)
          Total, PreflightRows, Durations, Rate, CostGate, MaxCost,
          MaxDuration, Unit, None    (* of ModalRun                        *)

ASSUME BatchAssumption ==
  /\ Jobs \subseteq {"smoke"} \cup TaskIds
  /\ Scores \subseteq 0..Top
  /\ "smoke" \in Jobs => Total["smoke"] >= 2 /\ Total["smoke"] % 2 = 0

(* A dataset has finite tables of numbers, and its cutoffs lie at least a  *)
(* horizon apart.                                                          *)
Usable(d) ==
  /\ IsDataset(d.data)
  /\ IsFiniteSet(d.data.customers) /\ IsFiniteSet(d.data.articles)
  /\ IsFiniteSet(DOMAIN d.data.purchases)
  /\ d.data.customers \cup d.data.articles \subseteq Int
  /\ \A i \in DOMAIN d.data.purchases : d.data.purchases[i].price \in Int
  /\ d.cutoffs.validation \in Int /\ d.cutoffs.test \in Int
  /\ d.cutoffs.validation + Horizon <= d.cutoffs.test

ASSUME DatasetAssumption == \A j \in Jobs : \A d \in Datasets[j] : Usable(d)

VARIABLES ledger, before, runs, pc, task, call, preflight, prediction,
          part, disk, volume, app, failure, outcome  \* of ModalRun

VARIABLES
  job,       \* what the script was started for
  source,    \* the materialized package it was given
  package,   \* the package that is sent, or None
  remote,    \* the task files on the volume
  output,    \* the model's last scores, by the position of the node
  file,      \* the rows of the worker's last file of predictions
  altered,   \* the one local file that was altered after it was sealed
  phase,     \* where the script is
  verdict    \* what the evaluation gave, or None

modalVars == <<ledger, before, runs, pc, task, call, preflight, prediction,
               part, disk, volume, app, failure, outcome>>
batchVars == <<job, source, package, remote, output, file, altered, phase,
               verdict>>
vars == <<modalVars, batchVars>>

Modal == INSTANCE ModalRun WITH Tasks <- Jobs, MaxRuns <- 1

ASSUME RunAssumption == Modal!ModalAssumption /\ Modal!NoneAssumption

Files == {"train", "test", "truth", "prediction"}

TaskOf(j) == IF j = "smoke" THEN "churn" ELSE j

-----------------------------------------------------------------------------
(* Packages.                                                               *)

Package(t, d) ==
  [task       |-> t,
   train      |-> LabelsOf(t, "train", d.data, d.cutoffs),
   validation |-> LabelsOf(t, "validation", d.data, d.cutoffs),
   test       |-> WithoutTarget(LabelsOf(t, "test", d.data, d.cutoffs)),
   truth      |-> LabelsOf(t, "test", d.data, d.cutoffs)]

(* What materialize_task has refused is not there to be sent.              *)
Materialized(j) ==
  {p \in {Package(TaskOf(j), d) :
            d \in {e \in Datasets[j] : EnoughHistory(e.data, e.cutoffs)}} :
     \A labels \in {p.train, p.validation, p.truth} :
       ValidLabels(p.task, labels)}

(* The rows that a run is to predict are those the manifest of the split   *)
(* counts.                                                                 *)
ASSUME TotalAssumption ==
  \A j \in Jobs \ {"smoke"} : \A p \in Materialized(j) :
    Cardinality(p.truth) = Total[j]

Labelled(truth, label) == {r \in truth : r[3] = label}

(* Half of the cohort for each label; which rows is up to a hash.          *)
Drawn(rows) == kSubset(Min({Total["smoke"] \div 2, Cardinality(rows)}), rows)

Sampled(truth) ==
  {zeros \cup ones : zeros \in Drawn(Labelled(truth, 0)),
                     ones \in Drawn(Labelled(truth, 1))}

Balanced(sample) ==
  /\ Cardinality(sample) = Total["smoke"]
  /\ 2 * Cardinality(Labelled(sample, 1)) = Total["smoke"]

(* A faulty cohort whose test file is the sample as it was drawn.          *)
UnmaskedCohort(p, sample) == [p EXCEPT !.test = sample, !.truth = sample]

Cohort(p, sample) ==
  [p EXCEPT !.test = WithoutTarget(sample), !.truth = sample]

(* None is no file and no package.                                         *)
ASSUME NoneAssumption ==
  /\ None \notin Files
  /\ \A j \in Jobs : \A p \in Materialized(j) :
       /\ None # p
       /\ j = "smoke" =>
            \A sample \in Sampled(p.truth) : None # Cohort(p, sample)

Init ==
  /\ Modal!Init
  /\ job \in Jobs /\ source \in Materialized(job)
  /\ package = None /\ remote = {}
  /\ output = <<>> /\ file = {}
  /\ altered = None
  /\ phase = "derive" /\ verdict = None

(* A refusal says why; it carries no metrics.                              *)
Refusal(code) == [kind |-> code, metrics |-> None]

(* The cohort is drawn and sealed, or the split cannot provide it.         *)
Derive ==
  /\ phase = "derive" /\ job = "smoke"
  /\ \E sample \in Sampled(source.truth) :
       IF Balanced(sample)
         THEN package' = Cohort(source, sample) /\ phase' = "run"
              /\ UNCHANGED verdict
         ELSE phase' = "over" /\ verdict' = Refusal("cohort")
              /\ UNCHANGED package
  /\ UNCHANGED <<modalVars, job, source, remote, output, file, altered>>

TakeWhole ==
  /\ phase = "derive" /\ job # "smoke"
  /\ package' = source /\ phase' = "run"
  /\ UNCHANGED <<modalVars, job, source, remote, output, file, altered,
                 verdict>>

(* A local file changes before the run or before the evaluation.           *)
Alter(f) ==
  /\ altered = None
  /\ \/ phase = "run" /\ runs = 0 /\ f # "prediction"
     \/ phase = "evaluate"
  /\ altered' = f
  /\ UNCHANGED <<modalVars, job, source, package, remote, output, file, phase,
                 verdict>>

-----------------------------------------------------------------------------
(* The run on Modal.                                                       *)

(* The name on the volume of a task file of the package.                   *)
Destination(name) == IF name = "validation" THEN "val" ELSE name

Uploads(p) ==
  {[name |-> Destination(n), rows |-> p[n]] :
     n \in {"train", "validation", "test"}}

(* Uploads are verified before anything is opened.                         *)
Open ==
  /\ phase = "run"
  /\ Modal!OpenVolume(job)
  /\ altered \in {"train", "test"} => volume' = "none"
  /\ UNCHANGED batchVars

Upload ==
  /\ Modal!StartApp
  /\ remote' = Uploads(package)
  /\ UNCHANGED <<job, source, package, output, file, altered, phase, verdict>>

UploadFails ==
  /\ Modal!BuildFails
  /\ remote' \in {{}, Uploads(package)} /\ (volume' = "closed" => remote' = {})
  /\ UNCHANGED <<job, source, package, output, file, altered, phase, verdict>>

(* The worker finds its files, and a test file without a target.           *)
Prepared(files) ==
  /\ {f.name : f \in files} = {"train", "val", "test"}
  /\ \A f \in files : \A r \in f.rows :
       Len(r) = IF f.name = "test" THEN 2 ELSE 3

(* The rows of its own test table, ORDER BY 1, 2.                          *)
Precedes(r, s) == r[1] < s[1] \/ (r[1] = s[1] /\ r[2] < s[2])

TestTable(files) ==
  LET test == CHOOSE f \in files : f.name = "test"
  IN  CHOOSE table \in SetToSeqs(test.rows) :
        \A i, j \in DOMAIN table : i < j => Precedes(table[i], table[j])

(* The model scores so many nodes, all different.  One position stands for *)
(* a node that is not a row of the test table.                             *)
Outputs(n) ==
  UNION {[nodes -> Scores] : nodes \in kSubset(n, 0..Total[job])}

(* Positions count from 0; those that are no row of the table drop out of  *)
(* the join.                                                               *)
PredictionRows(table, scores) ==
  {<<table[i + 1][1], table[i + 1][2], scores[i]>> :
     i \in {j \in DOMAIN scores : j + 1 \in DOMAIN table}}

Infer ==
  /\ Modal!Infer
  /\ \/ /\ pc' = "download" /\ Prepared(remote)
        /\ output' \in Outputs(prediction'.rows)
        /\ file' = PredictionRows(TestTable(remote), output')
     \/ pc' # "download" /\ UNCHANGED <<output, file>>
  /\ UNCHANGED <<job, source, package, remote, altered, phase, verdict>>

Control ==
  /\ \/ Modal!StageAssets \/ Modal!Download \/ Modal!Verify
     \/ Modal!Admit \/ Modal!UsePreflight \/ Modal!RunFull \/ Modal!Seal
     \/ Modal!ExitApp
  /\ UNCHANGED batchVars

(* The volume goes, and the script has its result or an exception.         *)
Release ==
  /\ Modal!ExitVolume
  /\ remote' = IF volume' = "closed" THEN {} ELSE remote
  /\ UNCHANGED <<job, source, package, output, file, altered, phase, verdict>>

Finish ==
  /\ phase = "run" /\ runs = 1 /\ pc = "idle"
  /\ phase' = IF outcome = "done" THEN "evaluate" ELSE "over"
  /\ UNCHANGED <<modalVars, job, source, package, remote, output, file,
                 altered, verdict>>

-----------------------------------------------------------------------------
(* The evaluation.                                                         *)

(* A faulty comparison of counts: what the worker says it has predicted.   *)
CoversByCount(truth, rows) == prediction.rows = Cardinality(truth)

(* Every row of the truth is predicted, and no other.                      *)
Covers(truth, rows) == WithoutTarget(truth) = WithoutTarget(rows)

Join(truth, rows) ==
  [k \in WithoutTarget(truth) \cap WithoutTarget(rows) |->
     [label |-> (CHOOSE r \in truth : <<r[1], r[2]>> = k)[3],
      score |-> (CHOOSE r \in rows : <<r[1], r[2]>> = k)[3]]]

Targets(labels) == [r \in labels |-> r[3]]

(* A result is built, unless its contract does not accept the metrics.     *)
Result(metrics, accepted) ==
  IF accepted THEN [kind |-> "scored", metrics |-> metrics]
              ELSE Refusal("contract")

(* The verdict on a joined sample.  The deviation of a single training     *)
(* target divides by zero.                                                 *)
Scoring(p, sample) ==
  IF DOMAIN sample = {} THEN Refusal("finite_predictions")
  ELSE IF p.task = "churn"
    THEN IF \E k \in DOMAIN sample : sample[k].label \notin {0, 1}
                                     \/ sample[k].score \notin 0..Top
           THEN Refusal("classification_values")
         ELSE IF ~ClassSupport(sample) THEN Refusal("class_support")
         ELSE LET m == ClassificationMetrics(sample)
              IN  Result(m, ClassificationContract(m))
  ELSE IF Cardinality(p.train) < 2 THEN Refusal("train_deviation")
  ELSE IF ~RegressionScale(sample) THEN Refusal("regression_scale")
  ELSE LET m == RegressionMetrics(sample, Targets(p.train))
       IN  Result(m, RegressionContract(m))

(* evaluate_predictions: the checks in their order.                        *)
Verdict(p) ==
  IF p # package THEN Refusal("contract_alignment")
  ELSE IF altered \in {"prediction", "truth", "train"}
    THEN Refusal("artifact_integrity")
  ELSE IF Cardinality(WithoutTarget(file)) # Cardinality(file)
    THEN Refusal("prediction_keys")
  ELSE IF ~Covers(p.truth, file) THEN Refusal("prediction_coverage")
  ELSE Scoring(p, Join(p.truth, file))

(* The script evaluates against the package it sent; another caller may    *)
(* still hold the package that the cohort was drawn from.                  *)
Evaluate(p) ==
  /\ phase = "evaluate"
  /\ verdict' = Verdict(p)
  /\ phase' = "over"
  /\ UNCHANGED <<modalVars, job, source, package, remote, output, file,
                 altered>>

Next ==
  \/ Derive \/ TakeWhole
  \/ \E f \in Files : Alter(f)
  \/ Open \/ Upload \/ UploadFails
  \/ Infer \/ Control \/ Release \/ Finish
  \/ \E p \in {package, source} : Evaluate(p)

Spec == Init /\ [][Next]_vars

-----------------------------------------------------------------------------
Codes == {"cohort", "contract_alignment", "artifact_integrity",
          "prediction_keys", "prediction_coverage", "finite_predictions",
          "classification_values", "class_support", "train_deviation",
          "regression_scale", "contract"}

EvaluationTypeOK ==
  /\ job \in Jobs /\ phase \in {"derive", "run", "evaluate", "over"}
  /\ package # None => package.task = TaskOf(job)
                       /\ Cardinality(package.truth) = Total[job]
  /\ phase \in {"run", "evaluate"} => package # None
  /\ altered \in Files \cup {None}
  /\ DOMAIN output \subseteq 0..Total[job]
  /\ \A i \in DOMAIN output : output[i] \in Scores
  /\ verdict # None => verdict.kind \in Codes \cup {"scored"}

(* "without exposing truth to Modal" (smoke.py:45): no task file on the    *)
(* volume holds a target of the test split, of the cohort or of any other  *)
(* row of the package it was drawn from.                                   *)
TruthStaysHome ==
  \A f \in remote : f.rows \cap source.truth = {}

(* The row at a position: as many rows of the cohort come before it.       *)
Position(p, k) == Cardinality({r \in p.test : Precedes(r, k)})

(* The scores that the model gave to the nodes of the rows, with the truth *)
(* of those rows.                                                          *)
Intended(p) ==
  [k \in {r \in p.test : Position(p, r) \in DOMAIN output} |->
     [label |-> (CHOOSE r \in p.truth : <<r[1], r[2]>> = k)[3],
      score |-> output[Position(p, k)]]]

(* Published metrics are those of their definitions, taken over what the   *)
(* model said of each row: neither ties, nor the order of rows on their    *)
(* way through the worker, the file and the join, change them              *)
(* (evaluator.py:35-111, runtime.py:250-277).                              *)
MetricsMatchDefinitions ==
  verdict # None /\ verdict.kind = "scored" =>
    LET s == Intended(package)
        m == verdict.metrics
    IN  IF package.task = "churn"
          THEN /\ Equal(m.auroc, Concordance(s))
               /\ Equal(m.average_precision, MeanPrecision(s))
               /\ Equal(m.f1, HarmonicMean(s))
          ELSE Equal(m.r2, Explained(s))

(* A verdict with metrics is given exactly when the package is the one     *)
(* that was sent, no file was altered, the model scored every row of the   *)
(* cohort and nothing else, and the test labels of a regression differ:    *)
(* nothing else that can go wrong on the way reaches the metrics, and, as  *)
(* long as nothing is rounded, a sound batch is never refused, by a check, *)
(* a division by zero or the ranges of the contract (evaluator.py:121-190, *)
(* models.py:605-617).                                                     *)
ScoredExactlyWhenWhole ==
  [][\A p \in {package, source} : Evaluate(p) =>
       (verdict'.kind = "scored" <=>
          /\ p = package /\ altered \in {None, "test"}
          /\ DOMAIN output = 0..(Total[job] - 1)
          /\ (job = "sales" => Cardinality({r[3] : r \in p.truth}) > 1))]_vars
=============================================================================
