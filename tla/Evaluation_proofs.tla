-------------------------- MODULE Evaluation_proofs --------------------------
(***************************************************************************)
(* Proofs about batches, for any datasets, jobs, scores, cohort sizes and  *)
(* prices.                                                                 *)
(***************************************************************************)
EXTENDS Evaluation, LabelSplits_proofs, Metrics_proofs, FiniteSetTheorems

Run == INSTANCE ModalRun_proofs WITH Tasks <- Jobs, MaxRuns <- 1

-----------------------------------------------------------------------------
(* Packages.                                                               *)

(* A row of labels has a time of its split, an entity and a target.        *)
LEMMA LabelShape ==
  ASSUME NEW id \in TaskIds, NEW d, Usable(d), NEW times,
         NEW row \in Labels(id, d.data, times)
  PROVE  row = <<row[1], row[2], row[3]>> /\ row[1] \in times /\ row[2] \in Int
<1>1. CASE id = "churn"
  <2>1. row \in ChurnLabels(d.data, times)
    BY <1>1 DEF Labels
  <2>2. PICK t \in times : row \in {<<t, c, Churns(d.data, t, c)>> :
                                      c \in Active(d.data, t)}
    BY <2>1 DEF ChurnLabels
  <2>3. PICK c \in Active(d.data, t) : row = <<t, c, Churns(d.data, t, c)>>
    BY <2>2
  <2>4. c \in Int
    BY DEF Active, Usable
  <2> QED
    BY <2>3, <2>4
<1>2. CASE id = "sales"
  <2>1. row \in SalesLabels(d.data, times)
    BY <1>2 DEF Labels
  <2>2. PICK t \in times : row \in {<<t, a, Sales(d.data, t, a)>> :
                                      a \in d.data.articles}
    BY <2>1 DEF SalesLabels
  <2>3. PICK a \in d.data.articles : row = <<t, a, Sales(d.data, t, a)>>
    BY <2>2
  <2>4. a \in Int
    BY DEF Usable
  <2> QED
    BY <2>3, <2>4
<1> QED
  BY <1>1, <1>2 DEF TaskIds

(* What a package holds.                                                   *)
IsPackage(p) ==
  /\ p.task \in TaskIds
  /\ p.test = WithoutTarget(p.truth)
  /\ \A r \in p.truth \cup p.train \cup p.validation :
       r = <<r[1], r[2], r[3]>> /\ r[1] \in Int /\ r[2] \in Int
  /\ \A r \in p.truth, s \in p.train \cup p.validation : r[1] # s[1]

(* What was materialized is a package.                                     *)
LEMMA MaterializedIsPackage ==
  ASSUME NEW j \in Jobs, NEW p \in Materialized(j)
  PROVE  IsPackage(p) /\ p.task = TaskOf(j) /\ ValidLabels(p.task, p.truth)
<1>1. PICK d \in Datasets[j] : p = Package(TaskOf(j), d)
  BY DEF Materialized
<1>2. /\ Usable(d) /\ d.cutoffs.validation \in Int /\ d.cutoffs.test \in Int
      /\ d.cutoffs.validation + Horizon <= d.cutoffs.test
      /\ Min(Days(d.data)) \in Int
  BY DatasetAssumption, FirstDay DEF Usable
<1>3. TaskOf(j) \in TaskIds
  BY BatchAssumption DEF TaskOf, TaskIds
<1>4. ValidLabels(p.task, p.truth)
  BY DEF Materialized
<1>h. Horizon \in Nat /\ Horizon >= 1
  BY HorizonAssumption
<1> DEFINE first == Min(Days(d.data))
<1>5. /\ Times("train", first, d.cutoffs)
           = TrainTimes(first, d.cutoffs.validation)
      /\ Times("validation", first, d.cutoffs) = {d.cutoffs.validation}
      /\ Times("test", first, d.cutoffs) = {d.cutoffs.test}
  BY DEF Times
<1>6. /\ p.task = TaskOf(j)
      /\ p.train = Labels(p.task, d.data, Times("train", first, d.cutoffs))
      /\ p.validation =
           Labels(p.task, d.data, Times("validation", first, d.cutoffs))
      /\ p.truth = Labels(p.task, d.data, Times("test", first, d.cutoffs))
      /\ p.test = WithoutTarget(p.truth)
  BY <1>1 DEF Package, LabelsOf
<1>7. ASSUME NEW r \in p.truth
      PROVE  r = <<r[1], r[2], r[3]>> /\ r[1] = d.cutoffs.test /\ r[2] \in Int
  BY <1>2, <1>3, <1>5, <1>6, LabelShape
<1>8. ASSUME NEW r \in p.train
      PROVE  /\ r = <<r[1], r[2], r[3]>> /\ r[2] \in Int
             /\ r[1] \in Int /\ r[1] + Horizon <= d.cutoffs.validation
  BY <1>2, <1>3, <1>5, <1>6, LabelShape, TrainWindowsEnd
<1>9. ASSUME NEW r \in p.validation
      PROVE  /\ r = <<r[1], r[2], r[3]>> /\ r[2] \in Int
             /\ r[1] = d.cutoffs.validation
  <2>1. r \in Labels(p.task, d.data, {d.cutoffs.validation})
    BY <1>5, <1>6
  <2>2. p.task \in TaskIds /\ Usable(d)
    BY <1>2, <1>3, <1>6
  <2>3. r = <<r[1], r[2], r[3]>> /\ r[1] \in {d.cutoffs.validation} /\ r[2] \in Int
    BY <2>1, <2>2, LabelShape
  <2> QED
    BY <2>3
<1>10. \A r \in p.truth, s \in p.train \cup p.validation : r[1] # s[1]
  BY <1>2, <1>h, <1>7, <1>8, <1>9
<1> QED
  BY <1>2, <1>3, <1>4, <1>6, <1>7, <1>8, <1>9, <1>10 DEF IsPackage

(* A cohort is a package, with some of the rows.                           *)
LEMMA CohortIsPackage ==
  ASSUME NEW j \in Jobs, NEW p \in Materialized(j),
         NEW sample \in Sampled(p.truth)
  PROVE  /\ sample \subseteq p.truth
         /\ IsPackage(Cohort(p, sample))
         /\ Cohort(p, sample).task = TaskOf(j)
         /\ Cohort(p, sample).truth = sample
         /\ Cohort(p, sample).train = p.train
         /\ Cohort(p, sample).validation = p.validation
<1>1. sample \subseteq p.truth
  <2>1. PICK zeros \in Drawn(Labelled(p.truth, 0)),
             ones \in Drawn(Labelled(p.truth, 1)) : sample = zeros \cup ones
    BY DEF Sampled
  <2>2. zeros \subseteq p.truth /\ ones \subseteq p.truth
    BY DEF Drawn, Labelled, kSubset
  <2> QED
    BY <2>1, <2>2
<1>2. PICK d \in Datasets[j] : p = Package(TaskOf(j), d)
  BY DEF Materialized
<1>3. /\ Cohort(p, sample).task = p.task
      /\ Cohort(p, sample).train = p.train
      /\ Cohort(p, sample).validation = p.validation
      /\ Cohort(p, sample).test = WithoutTarget(sample)
      /\ Cohort(p, sample).truth = sample
  BY <1>2 DEF Cohort, Package
<1> QED
  BY <1>1, <1>3, MaterializedIsPackage DEF IsPackage

-----------------------------------------------------------------------------
(* The steps of the run on Modal.                                          *)

(* The controller's own steps, as those of the run that is proved about.   *)
LEMMA SameSteps ==
  /\ Modal!Init => Run!Init
  /\ \A t : Modal!OpenVolume(t) => Run!OpenVolume(t)
  /\ Modal!StartApp => Run!StartApp
  /\ Modal!BuildFails => Run!BuildFails
  /\ Modal!StageAssets => Run!StageAssets
  /\ Modal!Infer => Run!Infer
  /\ Modal!Download => Run!Download
  /\ Modal!Verify => Run!Verify
  /\ Modal!Admit => Run!Admit
  /\ Modal!UsePreflight => Run!UsePreflight
  /\ Modal!RunFull => Run!RunFull
  /\ Modal!Seal => Run!Seal
  /\ Modal!ExitApp => Run!ExitApp
  /\ Modal!ExitVolume => Run!ExitVolume
<1> USE DEF Modal!controlVars, Modal!resultVars, Modal!fileVars,
            Modal!contextVars, Run!controlVars, Run!resultVars, Run!fileVars,
            Run!contextVars, Modal!Fail, Run!Fail, Modal!Plus, Run!Plus,
            Modal!Projection, Run!Projection, Modal!ProjectedDuration,
            Run!ProjectedDuration, Modal!Plausible, Run!Plausible,
            Modal!Affordable, Run!Affordable, Modal!WithinCeilings,
            Run!WithinCeilings, Modal!Limit, Run!Limit, Modal!CoversCohort,
            Run!CoversCohort, Modal!Outcome, Run!Outcome, Modal!AfterCall,
            Run!AfterCall, Modal!Reported, Run!Reported
<1>1. Modal!Init => Run!Init
  BY DEF Modal!Init, Run!Init
<1>2. \A t : Modal!OpenVolume(t) => Run!OpenVolume(t)
  BY DEF Modal!OpenVolume, Run!OpenVolume
<1>3. Modal!StartApp => Run!StartApp
  BY DEF Modal!StartApp, Run!StartApp
<1>4. Modal!BuildFails => Run!BuildFails
  BY DEF Modal!BuildFails, Run!BuildFails
<1>5. Modal!StageAssets => Run!StageAssets
  BY DEF Modal!StageAssets, Run!StageAssets
<1>6. Modal!Infer => Run!Infer
  BY DEF Modal!Infer, Run!Infer
<1>7. Modal!Download => Run!Download
  BY DEF Modal!Download, Run!Download
<1>8. Modal!Verify => Run!Verify
  BY DEF Modal!Verify, Run!Verify
<1>9. Modal!Admit => Run!Admit
  BY DEF Modal!Admit, Run!Admit
<1>10. Modal!UsePreflight => Run!UsePreflight
  BY DEF Modal!UsePreflight, Run!UsePreflight
<1>11. Modal!RunFull => Run!RunFull
  BY DEF Modal!RunFull, Run!RunFull
<1>12. Modal!Seal => Run!Seal
  BY DEF Modal!Seal, Run!Seal
<1>13. Modal!ExitApp => Run!ExitApp
  BY DEF Modal!ExitApp, Run!ExitApp
<1>14. Modal!ExitVolume => Run!ExitVolume
  BY DEF Modal!ExitVolume, Run!ExitVolume
<1> QED
  BY ONLY <1>1, <1>2, <1>3, <1>4, <1>5, <1>6, <1>7, <1>8, <1>9, <1>10, <1>11,
          <1>12, <1>13, <1>14

(* A step of the batch is a step of the run, or leaves the run alone.      *)
LEMMA StepOfModal ==
  ASSUME job \in Jobs, [Next]_vars
  PROVE  [Modal!Next]_(Modal!vars)
<1> USE DEF modalVars, Modal!vars, Modal!controlVars, Modal!resultVars,
            Modal!fileVars, Modal!contextVars
<1>1. CASE UNCHANGED vars
  BY <1>1 DEF vars
<1>2. CASE Derive
  BY <1>2 DEF Derive
<1>3. CASE TakeWhole
  BY <1>3 DEF TakeWhole
<1>4. CASE \E f \in Files : Alter(f)
  BY <1>4 DEF Alter
<1>5. CASE Open
  BY <1>5 DEF Open, Modal!Next
<1>6. CASE Upload
  BY <1>6 DEF Upload, Modal!Next
<1>7. CASE UploadFails
  BY <1>7 DEF UploadFails, Modal!Next
<1>8. CASE Infer
  BY <1>8 DEF Infer, Modal!Next
<1>9. CASE Control
  BY <1>9 DEF Control, Modal!Next
<1>10. CASE Release
  BY <1>10 DEF Release, Modal!Next
<1>11. CASE Finish
  BY <1>11 DEF Finish
<1>12. CASE \E p \in {package, source} : Evaluate(p)
  BY <1>12 DEF Evaluate
<1> QED
  BY <1>1, <1>2, <1>3, <1>4, <1>5, <1>6, <1>7, <1>8, <1>9, <1>10, <1>11,
     <1>12 DEF Next

LEMMA StepOfRun ==
  ASSUME job \in Jobs, [Next]_vars
  PROVE  [Run!Next]_(Run!vars)
<1>1. CASE Modal!Next
  BY <1>1, SameSteps DEF Modal!Next, Run!Next
<1>2. CASE UNCHANGED Modal!vars
  BY <1>2 DEF Modal!vars, Modal!controlVars, Modal!resultVars, Modal!fileVars,
     Modal!contextVars, Run!vars, Run!controlVars, Run!resultVars,
     Run!fileVars, Run!contextVars
<1> QED
  BY <1>1, <1>2, StepOfModal

(* The controller's steps move the run along and leave the prediction.     *)
LEMMA ControlKeeps ==
  ASSUME Control
  PROVE  /\ UNCHANGED <<runs, task, prediction, outcome>>
         /\ pc # "idle" /\ pc' # "idle"
<1> USE SameSteps DEF Run!controlVars, Run!resultVars, Run!Fail
<1>1. CASE Modal!StageAssets
  BY <1>1 DEF Run!StageAssets
<1>2. CASE Modal!Download
  BY <1>2 DEF Run!Download
<1>3. CASE Modal!Verify
  BY <1>3 DEF Run!Verify, Run!AfterCall
<1>4. CASE Modal!Admit
  BY <1>4 DEF Run!Admit
<1>5. CASE Modal!UsePreflight
  BY <1>5 DEF Run!UsePreflight
<1>6. CASE Modal!RunFull
  BY <1>6 DEF Run!RunFull
<1>7. CASE Modal!Seal
  BY <1>7 DEF Run!Seal
<1>8. CASE Modal!ExitApp
  BY <1>8 DEF Run!ExitApp
<1> QED
  BY <1>1, <1>2, <1>3, <1>4, <1>5, <1>6, <1>7, <1>8 DEF Control

-----------------------------------------------------------------------------
(* The invariant of a batch.                                               *)

(* What the script may send of the package it was given.                   *)
Sent(p) ==
  IF job = "smoke"
    THEN \E sample \in Sampled(source.truth) :
           Balanced(sample) /\ p = Cohort(source, sample)
    ELSE p = source

(* The phases, what is sent and what of it is on the volume.               *)
Sending ==
  /\ job \in Jobs /\ source \in Materialized(job)
  /\ phase \in {"derive", "run", "evaluate", "over"}
  /\ altered \in Files \cup {None}
  /\ package = None \/ Sent(package)
  /\ phase \in {"run", "evaluate"} => package # None
  /\ phase = "derive" => runs = 0 /\ package = None
  /\ pc # "idle" => phase = "run"
  /\ remote # {} => package # None /\ remote = Uploads(package)
  /\ verdict # None => verdict.kind \in Codes \cup {"scored"}

(* The run is that of the job; the file holds what the model has said of   *)
(* the rows it was sent.                                                   *)
Predicting ==
  /\ runs = 0 => pc = "idle" /\ prediction = None /\ output = <<>>
  /\ runs # 0 => task = job
  /\ output = <<>> \/ \E n \in Nat : output \in Outputs(n)
  /\ prediction # None =>
       /\ package # None
       /\ output \in Outputs(prediction.rows)
       /\ file = PredictionRows(TestTable(Uploads(package)), output)
  /\ phase = "evaluate" => outcome = "done" /\ runs = 1

BatchInv == Run!Inv /\ Sending /\ Predicting

LEMMA RunInvStep ==
  ASSUME BatchInv, [Next]_vars
  PROVE  Run!Inv'
<1>1. [Run!Next]_(Run!vars)
  BY StepOfRun DEF BatchInv, Sending
<1> QED
  BY <1>1, Run!InvStep, RunAssumption
     DEF BatchInv, Modal!ModalAssumption, Modal!NoneAssumption,
         Modal!Outcomes, Run!Outcomes, Modal!Observations, Run!Observations,
         Modal!PredictionFiles, Run!PredictionFiles

(* A verdict is a refusal, or it has metrics.                              *)
LEMMA VerdictKind ==
  ASSUME NEW p
  PROVE  Verdict(p).kind \in Codes \cup {"scored"}
<1>1. \A code : Refusal(code).kind = code
  BY DEF Refusal
<1>2. \A m, accepted : Result(m, accepted).kind \in Codes \cup {"scored"}
  BY <1>1 DEF Result, Codes
<1>3. \A sample : Scoring(p, sample).kind \in Codes \cup {"scored"}
  BY <1>1, <1>2 DEF Scoring, Codes
<1> QED
  BY <1>1, <1>3 DEF Verdict, Codes

(* The package that is sent is one.                                        *)
LEMMA SentIsPackage ==
  ASSUME job \in Jobs, source \in Materialized(job), NEW p, Sent(p)
  PROVE  /\ p # None /\ IsPackage(p) /\ p.task = TaskOf(job)
         /\ p.train = source.train /\ p.validation = source.validation
         /\ p.truth \subseteq source.truth
         /\ Cardinality(p.truth) = Total[job]
<1>1. CASE job = "smoke"
  <2>1. PICK sample \in Sampled(source.truth) :
          Balanced(sample) /\ p = Cohort(source, sample)
    BY <1>1 DEF Sent
  <2> QED
    BY <1>1, <2>1, CohortIsPackage, NoneAssumption DEF Balanced
<1>2. CASE job # "smoke"
  BY <1>2, MaterializedIsPackage, NoneAssumption, TotalAssumption DEF Sent
<1> QED
  BY <1>1, <1>2

LEMMA BatchInit == Init => BatchInv
<1> SUFFICES ASSUME Init
             PROVE  BatchInv
  OBVIOUS
<1>1. Run!Init
  BY SameSteps DEF Init
<1>2. Run!Inv
  BY <1>1, Run!InvInit, RunAssumption
     DEF Modal!ModalAssumption, Modal!NoneAssumption,
         Modal!Outcomes, Run!Outcomes, Modal!Observations, Run!Observations,
         Modal!PredictionFiles, Run!PredictionFiles
<1>3. runs = 0 /\ pc = "idle" /\ task = None /\ prediction = None
  BY <1>1 DEF Run!Init
<1> QED
  BY <1>2, <1>3 DEF Init, BatchInv, Sending, Predicting

(* What a step of the run may do to what a batch relies on.                *)
LEMMA RunSteps ==
  /\ \A t : Modal!OpenVolume(t) =>
       /\ pc = "idle" /\ runs < 1 /\ runs' = runs + 1 /\ task' = t
       /\ prediction' = None
  /\ Modal!StartApp \/ Modal!BuildFails \/ Modal!ExitVolume =>
       pc # "idle" /\ UNCHANGED <<runs, task, prediction>>
  /\ Modal!Infer =>
       /\ pc # "idle" /\ pc' # "idle" /\ UNCHANGED <<runs, task, outcome>>
       /\ pc' # "download" => prediction' = prediction
<1> USE SameSteps DEF Run!controlVars, Run!resultVars, Run!Fail
<1>1. \A t : Modal!OpenVolume(t) =>
        /\ pc = "idle" /\ runs < 1 /\ runs' = runs + 1 /\ task' = t
        /\ prediction' = None
  BY DEF Run!OpenVolume
<1>2. Modal!StartApp => pc # "idle" /\ UNCHANGED <<runs, task, prediction>>
  BY DEF Run!StartApp
<1>3. Modal!BuildFails => pc # "idle" /\ UNCHANGED <<runs, task, prediction>>
  BY DEF Run!BuildFails
<1>4. Modal!ExitVolume => pc # "idle" /\ UNCHANGED <<runs, task, prediction>>
  BY DEF Run!ExitVolume
<1>5. Modal!Infer =>
        /\ pc # "idle" /\ pc' # "idle" /\ UNCHANGED <<runs, task, outcome>>
        /\ pc' # "download" => prediction' = prediction
  BY DEF Run!Infer
<1> QED
  BY ONLY <1>1, <1>2, <1>3, <1>4, <1>5

(* Every step preserves what is known of the package and the volume.       *)
LEMMA SendingStep ==
  ASSUME BatchInv, [Next]_vars
  PROVE  Sending'
<1> USE DEF BatchInv, Sending, Predicting, Sent
<1>r. /\ runs \in 0..1 /\ Run!Inv'
  BY RunInvStep DEF Run!Inv, Run!ModalTypeOK
<1>1. CASE UNCHANGED vars
  BY <1>1 DEF vars, batchVars, modalVars
<1>2. CASE Derive
  <2>1. PICK sample \in Sampled(source.truth) :
          IF Balanced(sample)
            THEN package' = Cohort(source, sample) /\ phase' = "run"
                 /\ UNCHANGED verdict
            ELSE phase' = "over" /\ verdict' = Refusal("cohort")
                 /\ UNCHANGED package
    BY <1>2 DEF Derive
  <2>2. /\ job' = job /\ source' = source /\ altered' = altered /\ job = "smoke"
        /\ remote' = remote /\ UNCHANGED modalVars /\ phase = "derive"
    BY <1>2 DEF Derive
  <2>3. package' = None \/ Sent(package)'
    BY <2>1, <2>2
  <2>4. Refusal("cohort").kind \in Codes
    BY DEF Refusal, Codes
  <2>5. package' # None \/ phase' = "over"
    BY <2>1, <2>2, NoneAssumption
  <2>6. remote' = {}
    BY <2>2
  <2> QED
    BY <2>1, <2>2, <2>3, <2>4, <2>5, <2>6 DEF modalVars
<1>3. CASE TakeWhole
  <2>1. package' # None
    BY <1>3, NoneAssumption DEF TakeWhole
  <2>2. remote' = {} /\ phase = "derive"
    BY <1>3 DEF TakeWhole
  <2> QED
    BY <1>3, <2>1, <2>2 DEF TakeWhole, modalVars
<1>4. CASE \E f \in Files : Alter(f)
  BY <1>4 DEF Alter, modalVars
<1>5. CASE Open
  BY <1>5, <1>r, RunSteps DEF Open, batchVars
<1>6. CASE Upload
  BY <1>6, RunSteps DEF Upload
<1>7. CASE UploadFails
  BY <1>7, RunSteps DEF UploadFails
<1>8. CASE Infer
  BY <1>8, RunSteps DEF Infer
<1>9. CASE Control
  BY <1>9, ControlKeeps DEF Control, batchVars
<1>10. CASE Release
  BY <1>10, RunSteps DEF Release
<1>11. CASE Finish
  BY <1>11 DEF Finish, modalVars
<1>12. CASE \E p \in {package, source} : Evaluate(p)
  <2>1. verdict'.kind \in Codes \cup {"scored"}
    BY <1>12, VerdictKind DEF Evaluate
  <2> QED
    BY <1>12, <2>1 DEF Evaluate, modalVars
<1> QED
  BY <1>1, <1>2, <1>3, <1>4, <1>5, <1>6, <1>7, <1>8, <1>9, <1>10, <1>11,
     <1>12 DEF Next

(* Every step preserves what is known of the prediction.                   *)
LEMMA PredictingStep ==
  ASSUME BatchInv, [Next]_vars
  PROVE  Predicting'
<1> USE DEF BatchInv, Sending, Predicting
<1>r. /\ runs \in 0..1 /\ prediction \in Run!PredictionFiles \cup {None}
      /\ prediction' \in Run!PredictionFiles \cup {None}
      /\ pc' = "download" => prediction' # None
  BY RunInvStep DEF Run!Inv, Run!ModalTypeOK
<1>1. CASE UNCHANGED vars
  BY <1>1 DEF vars, batchVars, modalVars, Outputs
<1>2. CASE Derive
  BY <1>2 DEF Derive, modalVars, Outputs
<1>3. CASE TakeWhole
  BY <1>3 DEF TakeWhole, modalVars, Outputs
<1>4. CASE \E f \in Files : Alter(f)
  BY <1>4 DEF Alter, modalVars, Outputs
<1>5. CASE Open
  BY <1>5, <1>r, RunSteps DEF Open, batchVars, Outputs
<1>6. CASE Upload
  BY <1>6, <1>r, RunSteps DEF Upload, Outputs
<1>7. CASE UploadFails
  BY <1>7, <1>r, RunSteps DEF UploadFails, Outputs
<1>8. CASE Infer
  <2>1. /\ job' = job /\ package' = package /\ phase' = phase
        /\ pc # "idle" /\ pc' # "idle" /\ runs' = runs /\ task' = task
        /\ phase # "evaluate"
    BY <1>8, RunSteps DEF Infer
  <2>2. CASE pc' = "download"
    <3>1. /\ Prepared(remote) /\ output' \in Outputs(prediction'.rows)
          /\ file' = PredictionRows(TestTable(remote), output')
      BY <1>8, <2>2 DEF Infer
    <3>2. remote # {}
      BY <3>1 DEF Prepared
    <3>3. prediction'.rows \in Nat
      BY <1>r, <2>2 DEF Run!PredictionFiles
    <3> QED
      BY <2>1, <3>1, <3>2, <3>3 DEF Outputs
  <2>3. CASE pc' # "download"
    <3>1. UNCHANGED <<output, file, prediction>>
      BY <1>8, <2>3, RunSteps DEF Infer
    <3> QED
      BY <2>1, <3>1 DEF Outputs
  <2> QED
    BY <2>2, <2>3
<1>9. CASE Control
  BY <1>9, ControlKeeps DEF Control, batchVars, Outputs
<1>10. CASE Release
  BY <1>10, RunSteps DEF Release, Outputs
<1>11. CASE Finish
  BY <1>11 DEF Finish, modalVars, Outputs
<1>12. CASE \E p \in {package, source} : Evaluate(p)
  BY <1>12 DEF Evaluate, modalVars, Outputs
<1> QED
  BY <1>1, <1>2, <1>3, <1>4, <1>5, <1>6, <1>7, <1>8, <1>9, <1>10, <1>11,
     <1>12 DEF Next

LEMMA BatchInvariant == Spec => []BatchInv
<1>1. BatchInv /\ [Next]_vars => BatchInv'
  BY RunInvStep, SendingStep, PredictingStep DEF BatchInv
<1> QED
  BY BatchInit, <1>1, PTL DEF Spec

-----------------------------------------------------------------------------
(* Whatever is drawn, altered, lost or scored, a batch is in a state that  *)
(* its script can be in; what is sent has the rows that the run predicts.  *)
THEOREM BatchTypeCorrect == Spec => []EvaluationTypeOK
<1>1. BatchInv => EvaluationTypeOK
  <2> SUFFICES ASSUME BatchInv
               PROVE  EvaluationTypeOK
    OBVIOUS
  <2> USE DEF BatchInv, Sending, Predicting
  <2>1. package # None => package.task = TaskOf(job)
                          /\ Cardinality(package.truth) = Total[job]
    BY SentIsPackage
  <2>2. DOMAIN output \subseteq 0..Total[job]
        /\ \A i \in DOMAIN output : output[i] \in Scores
    <3>1. CASE output = <<>>
      BY <3>1
    <3>2. ASSUME NEW n \in Nat, output \in Outputs(n)
          PROVE  DOMAIN output \subseteq 0..Total[job]
                 /\ \A i \in DOMAIN output : output[i] \in Scores
      <4>1. PICK nodes \in kSubset(n, 0..Total[job]) : output \in [nodes -> Scores]
        BY <3>2 DEF Outputs
      <4> QED
        BY <4>1 DEF kSubset
    <3> QED
      BY <3>1, <3>2
  <2> QED
    BY <2>1, <2>2 DEF EvaluationTypeOK
<1> QED
  BY BatchInvariant, <1>1, PTL

(* No target of the test split, of the cohort or of the rows it was drawn  *)
(* from, is ever in a file on the volume: training windows end before the  *)
(* test cutoff, and the test file has no targets.                          *)
THEOREM TruthIsNeverUploaded == Spec => []TruthStaysHome
<1>1. BatchInv => TruthStaysHome
  <2> SUFFICES ASSUME BatchInv, NEW f \in remote, NEW r \in f.rows \cap source.truth
               PROVE  FALSE
    BY DEF TruthStaysHome
  <2>1. /\ IsPackage(package) /\ IsPackage(source) /\ f \in Uploads(package)
        /\ package.train = source.train /\ package.validation = source.validation
    BY SentIsPackage, MaterializedIsPackage DEF BatchInv, Sending
  <2>2. \A x \in source.truth : x = <<x[1], x[2], x[3]>>
    BY <2>1 DEF IsPackage
  <2>3. CASE f.rows = package.test
    <3>1. PICK x \in package.truth : r = <<x[1], x[2]>>
      BY <2>1, <2>3 DEF IsPackage, WithoutTarget
    <3>2. r = <<r[1], r[2], r[3]>>
      BY <2>2
    <3> QED
      BY <3>1, <3>2
  <2>4. CASE f.rows \in {package.train, package.validation}
    BY <2>1, <2>4 DEF IsPackage
  <2> QED
    BY <2>1, <2>3, <2>4 DEF Uploads
<1> QED
  BY BatchInvariant, <1>1, PTL

(* Refinement: a batch is a behaviour of the run, so that all that is      *)
(* proved of the run is true of a batch.                                   *)
THEOREM BatchIsARun == Spec => Modal!Spec
<1>1. Init => Modal!Init
  BY DEF Init
<1>2. BatchInv /\ [Next]_vars => [Modal!Next]_(Modal!vars)
  BY StepOfModal DEF BatchInv, Sending
<1> QED
  BY BatchInvariant, <1>1, <1>2, PTL DEF Spec, Modal!Spec

(* In particular a batch stays within the ceilings, what it gives the      *)
(* evaluator is the sealed prediction of its whole cohort, and it leaves   *)
(* no context open.                                                        *)
THEOREM BatchRunIsSafe ==
  Spec => [](/\ Modal!BudgetKept /\ Modal!ReturnsSealedPrediction
             /\ Modal!ConfirmedMeansReleased /\ Modal!NothingStaysOpen)
<1>1. BatchInv => Modal!BudgetKept /\ Modal!ReturnsSealedPrediction
  BY DEF BatchInv, Run!Inv, Run!BudgetKept, Modal!BudgetKept,
     Modal!WithinCeilings, Run!WithinCeilings, Run!Sealing, Run!ResultOnDisk,
     Modal!ReturnsSealedPrediction
<1>2. BatchInv => Modal!ConfirmedMeansReleased /\ Modal!NothingStaysOpen
  BY DEF BatchInv, Run!Inv, Run!Releasing, Run!ConfirmedMeansReleased,
     Run!NothingStaysOpen, Modal!ConfirmedMeansReleased, Modal!NothingStaysOpen
<1> QED
  BY BatchInvariant, <1>1, <1>2, PTL

-----------------------------------------------------------------------------
(* The worker's table.                                                     *)

(* Keys are pairs of integers.                                             *)
IsKeys(S) ==
  IsFiniteSet(S) /\ \A k \in S : k = <<k[1], k[2]>> /\ k[1] \in Int /\ k[2] \in Int

(* How many keys come before one.                                          *)
Ahead(S, k) == {q \in S : Precedes(q, k)}
Rank(S, k)  == Cardinality(Ahead(S, k))

LEMMA KeysAreOrdered ==
  ASSUME NEW S, IsKeys(S)
  PROVE  /\ \A k \in S : ~Precedes(k, k)
         /\ \A k, l \in S : k # l => Precedes(k, l) \/ Precedes(l, k)
         /\ \A k, l, m \in S : Precedes(k, l) /\ Precedes(l, m) => Precedes(k, m)
<1> USE DEF Precedes, IsKeys
<1>1. \A k \in S : ~Precedes(k, k)
  OBVIOUS
<1>2. ASSUME NEW k \in S, NEW l \in S, k # l
      PROVE  Precedes(k, l) \/ Precedes(l, k)
  <2>1. k[1] # l[1] \/ k[2] # l[2]
    BY <1>2
  <2>2. k[1] \in Int /\ k[2] \in Int /\ l[1] \in Int /\ l[2] \in Int
    OBVIOUS
  <2> QED
    BY <2>1, <2>2
<1>3. ASSUME NEW k \in S, NEW l \in S, NEW m \in S,
             Precedes(k, l), Precedes(l, m)
      PROVE  Precedes(k, m)
  <2>1. /\ k[1] \in Int /\ k[2] \in Int /\ l[1] \in Int /\ l[2] \in Int
        /\ m[1] \in Int /\ m[2] \in Int
    OBVIOUS
  <2> QED
    BY <1>3, <2>1
<1> QED
  BY <1>1, <1>2, <1>3

(* Ranks count from 0, and a key that comes later has a higher one.        *)
LEMMA RanksGrow ==
  ASSUME NEW S, IsKeys(S)
  PROVE  /\ \A k \in S : Rank(S, k) \in 0..(Cardinality(S) - 1)
         /\ \A k, l \in S : Precedes(k, l) <=> Rank(S, k) < Rank(S, l)
<1>1. IsFiniteSet(S)
  BY DEF IsKeys
<1>2. ASSUME NEW k \in S
      PROVE  /\ Ahead(S, k) \subseteq S /\ Ahead(S, k) # S
             /\ IsFiniteSet(Ahead(S, k))
  BY <1>1, KeysAreOrdered, FS_Subset DEF Ahead
<1>3. \A k \in S : Rank(S, k) \in Nat /\ Cardinality(S) \in Nat
  BY <1>1, <1>2, FS_CardinalityType DEF Rank
<1>4. \A k \in S : Rank(S, k) < Cardinality(S)
  BY <1>1, <1>2, <1>3, FS_Subset DEF Rank
<1>5. ASSUME NEW k \in S, NEW l \in S, Precedes(k, l)
      PROVE  Rank(S, k) < Rank(S, l)
  <2>1. Ahead(S, k) \subseteq Ahead(S, l)
    BY <1>5, KeysAreOrdered DEF Ahead
  <2>2. Ahead(S, k) # Ahead(S, l)
    BY <1>5, KeysAreOrdered DEF Ahead
  <2> QED
    BY <1>2, <1>3, <2>1, <2>2, FS_Subset DEF Rank
<1>6. ASSUME NEW k \in S, NEW l \in S, Rank(S, k) < Rank(S, l)
      PROVE  Precedes(k, l)
  <2>1. k # l
    BY <1>3, <1>6
  <2>2. ~Precedes(l, k)
    <3>1. Precedes(l, k) => Rank(S, l) < Rank(S, k)
      BY <1>5
    <3> QED
      BY <1>3, <1>6, <3>1
  <2> QED
    BY <2>1, <2>2, KeysAreOrdered
<1> QED
  BY <1>3, <1>4, <1>5, <1>6

LEMMA CountedFromZero ==
  ASSUME NEW n \in Nat
  PROVE  IsFiniteSet(0..(n - 1)) /\ Cardinality(0..(n - 1)) = n
<1> DEFINE m == n - 1
<1>1. m \in Int /\ 0 \in Int
  OBVIOUS
<1>2. IsFiniteSet(0..m) /\ Cardinality(0..m) = IF 0 > m THEN 0 ELSE m - 0 + 1
  <2> HIDE DEF m
  <2> QED
    BY <1>1, FS_Interval
<1> QED
  BY <1>2

(* Every rank is that of one key.                                          *)
LEMMA RanksAreComplete ==
  ASSUME NEW S, IsKeys(S)
  PROVE  /\ \A k, l \in S : Rank(S, k) = Rank(S, l) => k = l
         /\ \A i \in 0..(Cardinality(S) - 1) : \E k \in S : Rank(S, k) = i
<1> DEFINE n == Cardinality(S)
           R == 0..(n - 1)
           rank == [k \in S |-> Rank(S, k)]
<1>1. IsFiniteSet(S) /\ n \in Nat
  BY FS_CardinalityType DEF IsKeys
<1>2. \A k, l \in S : Rank(S, k) = Rank(S, l) => k = l
  <2> SUFFICES ASSUME NEW k \in S, NEW l \in S, Rank(S, k) = Rank(S, l), k # l
               PROVE  FALSE
    OBVIOUS
  <2>1. Rank(S, k) < Rank(S, l) \/ Rank(S, l) < Rank(S, k)
    BY KeysAreOrdered, RanksGrow
  <2>2. Rank(S, k) \in Int
    BY <1>1, RanksGrow
  <2> QED
    BY <2>1, <2>2
<1>3. IsFiniteSet(R) /\ Cardinality(R) = n
  BY <1>1, CountedFromZero
<1>4. rank \in [S -> R]
  BY RanksGrow
<1>5. rank \in Injection(S, R)
  BY <1>2, <1>4 DEF Injection, IsInjective
<1> HIDE DEF rank, R, n
<1>6. rank \in Surjection(S, R)
  BY <1>3, <1>5, FS_Injection DEF n
<1>7. \A i \in R : \E k \in S : rank[k] = i
  BY <1>6 DEF Surjection
<1> QED
  BY <1>2, <1>7 DEF rank, R, n

(* A table that is sorted has each key at its rank; there is one.          *)
IsTable(table, S) ==
  /\ table \in SetToSeqs(S)
  /\ \A i, j \in DOMAIN table : i < j => Precedes(table[i], table[j])

LEMMA TableByRank ==
  ASSUME NEW S, IsKeys(S), NEW table, IsTable(table, S)
  PROVE  /\ DOMAIN table = 1..Cardinality(S)
         /\ \A i \in DOMAIN table : table[i] \in S /\ Rank(S, table[i]) = i - 1
         /\ \A k \in S : table[Rank(S, k) + 1] = k
<1> DEFINE n == Cardinality(S)
           D == 1..n
<1>1. IsFiniteSet(S) /\ n \in Nat
  BY FS_CardinalityType DEF IsKeys
<1>2. /\ table \in [D -> S] /\ DOMAIN table = D
      /\ \A i, j \in D : i # j => table[i] # table[j]
  BY DEF IsTable, SetToSeqs
<1>3. IsFiniteSet(D) /\ Cardinality(D) = n
  <2>1. IsFiniteSet(D) /\ Cardinality(D) = IF 1 > n THEN 0 ELSE n - 1 + 1
    BY <1>1, FS_Interval
  <2> QED
    BY <1>1, <2>1
<1>4. table \in Injection(D, S)
  BY <1>2 DEF Injection, IsInjective
<1>5. table \in Surjection(D, S)
  <2> HIDE DEF D, n
  <2> QED
    BY <1>1, <1>3, <1>4, FS_Injection DEF n
<1>6. ASSUME NEW i \in D
      PROVE  Rank(S, table[i]) = i - 1
  <2> DEFINE I == 1..(i - 1)
             A == Ahead(S, table[i])
             first == [j \in I |-> table[j]]
  <2>1. I \subseteq D /\ i \in Int
    BY <1>1
  <2>2. \A j \in D : Precedes(table[j], table[i]) <=> j \in I
    <3> TAKE j \in D
    <3>1. j \in Int /\ i \in Int /\ j >= 1
      BY <1>1
    <3>2. CASE j < i
      BY <1>2, <3>1, <3>2 DEF IsTable
    <3>3. CASE j = i
      BY <1>2, <3>1, <3>3, KeysAreOrdered
    <3>4. CASE i < j
      <4>1. Precedes(table[i], table[j]) /\ table[i] \in S /\ table[j] \in S
        BY <1>2, <3>4 DEF IsTable
      <4>2. ~Precedes(table[j], table[i])
        BY <4>1, KeysAreOrdered
      <4> QED
        BY <3>1, <3>4, <4>2
    <3> QED
      BY <3>1, <3>2, <3>3, <3>4
  <2>3. \A j \in I : table[j] \in A
    BY <1>2, <2>1, <2>2 DEF Ahead
  <2>4. \A q \in A : \E j \in I : table[j] = q
    BY <1>5, <2>2 DEF Ahead, Surjection
  <2>5. first \in [I -> A]
    BY <2>3
  <2>6. first \in Injection(I, A)
    BY <1>2, <2>1, <2>5 DEF Injection, IsInjective
  <2>7. first \in Surjection(I, A)
    BY <2>4, <2>5 DEF Surjection
  <2>8. IsFiniteSet(I) /\ Cardinality(I) = i - 1
    <3>1. IsFiniteSet(I) /\ Cardinality(I) = IF 1 > i - 1 THEN 0 ELSE (i - 1) - 1 + 1
      BY <2>1, FS_Interval
    <3> QED
      BY <2>1, <3>1
  <2> HIDE DEF I, A, first
  <2>9. Cardinality(A) = Cardinality(I)
    BY <2>6, <2>7, <2>8, FS_Bijection DEF Bijection, ExistsBijection
  <2> QED
    BY <2>8, <2>9 DEF Rank, A
<1>7. ASSUME NEW k \in S
      PROVE  table[Rank(S, k) + 1] = k
  <2>1. PICK i \in D : table[i] = k
    BY <1>5 DEF Surjection
  <2>2. Rank(S, k) = i - 1 /\ i \in Int
    BY <1>6, <2>1
  <2> QED
    BY <2>1, <2>2
<1> QED
  BY <1>2, <1>6, <1>7

LEMMA TableExists ==
  ASSUME NEW S, IsKeys(S)
  PROVE  \E table : IsTable(table, S)
<1> DEFINE n == Cardinality(S)
           D == 1..n
           table == [i \in D |-> CHOOSE k \in S : Rank(S, k) = i - 1]
<1>1. n \in Nat
  BY FS_CardinalityType DEF IsKeys
<1>2. \A i \in D : table[i] \in S /\ Rank(S, table[i]) = i - 1
  <2> TAKE i \in D
  <2>1. i - 1 \in 0..(n - 1)
    BY <1>1
  <2>2. \E k \in S : Rank(S, k) = i - 1
    BY <2>1, RanksAreComplete
  <2> QED
    BY <2>2
<1>3. \A i, j \in D : i # j => table[i] # table[j]
  <2> SUFFICES ASSUME NEW i \in D, NEW j \in D, table[i] = table[j]
               PROVE  i = j
    OBVIOUS
  <2>1. i - 1 = j - 1
    BY <1>2
  <2> QED
    BY <1>1, <2>1
<1>4. table \in [D -> S]
  BY <1>2
<1>5. \A i, j \in D : i < j => Precedes(table[i], table[j])
  <2> SUFFICES ASSUME NEW i \in D, NEW j \in D, i < j
               PROVE  Precedes(table[i], table[j])
    OBVIOUS
  <2>1. i - 1 < j - 1
    BY <1>1
  <2> HIDE DEF table
  <2>2. Rank(S, table[i]) < Rank(S, table[j])
    BY <1>2, <2>1
  <2> QED
    BY <1>2, <2>2, RanksGrow
<1> HIDE DEF table
<1>6. DOMAIN table = D
  BY <1>4
<1>7. IsTable(table, S)
  BY <1>3, <1>4, <1>5, <1>6 DEF IsTable, SetToSeqs
<1> QED
  BY <1>7

(* The worker's table of a package is that of its test file.               *)
LEMMA WorkersTable ==
  ASSUME NEW p, IsKeys(p.test)
  PROVE  IsTable(TestTable(Uploads(p)), p.test)
<1> DEFINE files == Uploads(p)
           test == CHOOSE f \in files : f.name = "test"
<1>1. \A f \in files : f.name = "test" <=> f = [name |-> "test", rows |-> p.test]
  BY DEF Uploads, Destination
<1>2. [name |-> "test", rows |-> p.test] \in files
  BY DEF Uploads, Destination
<1>3. test.rows = p.test
  BY <1>1, <1>2
<1>4. TestTable(files) =
        CHOOSE table \in SetToSeqs(p.test) :
          \A i, j \in DOMAIN table : i < j => Precedes(table[i], table[j])
  BY <1>3 DEF TestTable
<1>5. \E table \in SetToSeqs(p.test) :
        \A i, j \in DOMAIN table : i < j => Precedes(table[i], table[j])
  BY TableExists DEF IsTable
<1> QED
  BY <1>4, <1>5 DEF IsTable

-----------------------------------------------------------------------------
(* The truth.                                                              *)

(* A finite set has two elements when it counts more than one.             *)
LEMMA TwoElements ==
  ASSUME NEW T, IsFiniteSet(T)
  PROVE  Cardinality(T) > 1 <=> \E t, u \in T : t # u
<1>1. Cardinality(T) \in Nat
  BY FS_CardinalityType
<1>2. ASSUME NEW t \in T, NEW u \in T, t # u
      PROVE  Cardinality(T) > 1
  <2>1. Cardinality(T) # 0
    BY FS_EmptySet
  <2>2. Cardinality(T) # 1
    <3> SUFFICES ASSUME Cardinality(T) = 1
                 PROVE  FALSE
      OBVIOUS
    <3>1. \E x : T = {x}
      BY FS_Singleton
    <3> QED
      BY <1>2, <3>1
  <2> QED
    BY <1>1, <2>1, <2>2
<1>3. ASSUME Cardinality(T) > 1
      PROVE  \E t, u \in T : t # u
  <2> SUFFICES ASSUME \A t, u \in T : t = u
               PROVE  FALSE
    OBVIOUS
  <2>1. T = {} \/ \E x : T = {x}
    OBVIOUS
  <2>2. Cardinality(T) \in {0, 1}
    BY <2>1, FS_EmptySet, FS_Singleton
  <2> QED
    BY <1>1, <1>3, <2>2
<1> QED
  BY <1>2, <1>3

(* The sales of finitely many times are finitely many, and numbers.        *)
LEMMA SalesFinite ==
  ASSUME NEW d, Usable(d), NEW times, IsFiniteSet(times)
  PROVE  /\ IsFiniteSet(SalesLabels(d.data, times))
         /\ \A r \in SalesLabels(d.data, times) : r[3] \in Int
<1> DEFINE A == d.data.articles
           L == SalesLabels(d.data, times)
           label == [q \in times \X A |-> <<q[1], q[2], Sales(d.data, q[1], q[2])>>]
<1>1. ASSUME NEW t, NEW a
      PROVE  Sales(d.data, t, a) \in Int
  <2> DEFINE I == Of(d.data, Between(d.data, t, t + Horizon), a)
             f == [i \in I |-> d.data.purchases[i].price]
  <2>1. I \subseteq DOMAIN d.data.purchases
    BY DEF Of, Between
  <2>2. IsFiniteSet(I) /\ \A i \in I : f[i] \in Int
    BY <2>1, FS_Subset DEF Usable
  <2>3. Sales(d.data, t, a) = Sigma(f, I)
    BY DEF Sales, SumFunction, Sigma
  <2> HIDE DEF I, f
  <2> QED
    BY <2>2, <2>3, SumType
<1>2. \A r \in L : \E t \in times, a \in A : r = <<t, a, Sales(d.data, t, a)>>
  BY DEF SalesLabels
<1>3. \A t \in times, a \in A : <<t, a, Sales(d.data, t, a)>> \in L
  BY DEF SalesLabels
<1>4. label \in [times \X A -> L]
  BY <1>3
<1>5. \A r \in L : \E q \in times \X A : label[q] = r
  <2> TAKE r \in L
  <2>1. PICK t \in times, a \in A : r = <<t, a, Sales(d.data, t, a)>>
    BY <1>2
  <2>2. <<t, a>> \in times \X A /\ label[<<t, a>>] = r
    BY <2>1
  <2> QED
    BY <2>2
<1>6. IsFiniteSet(times \X A)
  BY FS_Product DEF Usable
<1>7. \A r \in L : r[3] \in Int
  BY <1>1, <1>2
<1> DEFINE Q == times \X A
<1>8. label \in Surjection(Q, L)
  <2>1. label \in [Q -> L] /\ \A r \in L : \E q \in Q : label[q] = r
    BY <1>4, <1>5
  <2> HIDE DEF label, L, Q
  <2> QED
    BY <2>1 DEF Surjection
<1>9. IsFiniteSet(L)
  <2> HIDE DEF label, L
  <2> QED
    BY <1>6, <1>8, FS_Surjection
<1> QED
  BY <1>7, <1>9

(* The labels of one time are finitely many, and their targets numbers.    *)
LEMMA LabelsFinite ==
  ASSUME NEW id \in TaskIds, NEW d, Usable(d), NEW t
  PROVE  /\ IsFiniteSet(Labels(id, d.data, {t}))
         /\ \A r \in Labels(id, d.data, {t}) : r[3] \in Int
<1>1. CASE id = "churn"
  <2> DEFINE C == Active(d.data, t)
             L == {<<t, c, Churns(d.data, t, c)>> : c \in C}
             label == [c \in C |-> <<t, c, Churns(d.data, t, c)>>]
  <2>1. Labels(id, d.data, {t}) = L
    BY <1>1 DEF Labels, ChurnLabels
  <2>2. \A r \in L : r[3] \in Int
    BY DEF Churns
  <2>3. IsFiniteSet(C)
    BY FS_Subset DEF Active, Usable
  <2>4. label \in [C -> L] /\ \A r \in L : \E c \in C : label[c] = r
    OBVIOUS
  <2> HIDE DEF C, L, label
  <2>5. label \in Surjection(C, L)
    BY <2>4 DEF Surjection
  <2>6. IsFiniteSet(L)
    BY <2>3, <2>5, FS_Surjection
  <2> QED
    BY <2>1, <2>2, <2>6
<1>2. CASE id = "sales"
  BY <1>2, SalesFinite, FS_Singleton DEF Labels
<1> QED
  BY <1>1, <1>2 DEF TaskIds

(* Rows with a target, one for each key.                                   *)
IsLabelled(rows) ==
  /\ IsFiniteSet(rows)
  /\ \A r \in rows : r[1] \in Int /\ r[2] \in Int /\ r[3] \in Int
  /\ \A r, q \in rows : r[1] = q[1] /\ r[2] = q[2] => r = q

(* The rows and their keys are as many.                                    *)
LEMMA KeysOfLabels ==
  ASSUME NEW rows, IsLabelled(rows)
  PROVE  /\ IsKeys(WithoutTarget(rows))
         /\ Cardinality(WithoutTarget(rows)) = Cardinality(rows)
<1> DEFINE K == WithoutTarget(rows)
           key == [r \in rows |-> <<r[1], r[2]>>]
<1>1. IsFiniteSet(rows)
  BY DEF IsLabelled
<1>2. key \in [rows -> K] /\ \A k \in K : \E r \in rows : key[r] = k
  BY DEF WithoutTarget
<1>3. \A r, q \in rows : key[r] = key[q] => r = q
  BY DEF IsLabelled
<1>4. \A k \in K : k = <<k[1], k[2]>> /\ k[1] \in Int /\ k[2] \in Int
  BY DEF WithoutTarget, IsLabelled
<1> HIDE DEF K, key
<1>5. key \in Injection(rows, K) /\ key \in Surjection(rows, K)
  BY <1>2, <1>3 DEF Injection, IsInjective, Surjection
<1>6. IsFiniteSet(K) /\ Cardinality(K) = Cardinality(rows)
  BY <1>1, <1>5, FS_Bijection DEF Bijection, ExistsBijection
<1> QED
  BY <1>4, <1>6 DEF IsKeys, K

(* The truth of what was materialized has one row for each key.            *)
LEMMA TruthIsLabelled ==
  ASSUME NEW j \in Jobs, NEW p \in Materialized(j)
  PROVE  IsLabelled(p.truth)
<1>1. PICK d \in Datasets[j] : p = Package(TaskOf(j), d)
  BY DEF Materialized
<1>2. TaskOf(j) \in TaskIds /\ Usable(d)
  BY BatchAssumption, DatasetAssumption DEF TaskOf, TaskIds
<1>3. p.truth = Labels(TaskOf(j), d.data, {d.cutoffs.test})
  BY <1>1 DEF Package, LabelsOf, Times
<1>4. /\ IsFiniteSet(p.truth)
      /\ \A r \in p.truth : r[1] \in Int /\ r[2] \in Int /\ r[3] \in Int
  <2>1. \A r \in p.truth : r[1] \in Int /\ r[2] \in Int
    BY MaterializedIsPackage DEF IsPackage
  <2>2. IsFiniteSet(p.truth) /\ \A r \in p.truth : r[3] \in Int
    BY <1>2, <1>3, LabelsFinite
  <2> QED
    BY <2>1, <2>2
<1>5. \A r, q \in p.truth : r[1] = q[1] /\ r[2] = q[2] => r = q
  <2> DEFINE T == p.truth
             K == WithoutTarget(T)
             key == [r \in T |-> <<r[1], r[2]>>]
  <2>1. Cardinality(K) = Cardinality(T)
    BY MaterializedIsPackage DEF ValidLabels
  <2>2. key \in [T -> K] /\ \A k \in K : \E r \in T : key[r] = k
    BY DEF WithoutTarget
  <2>3. key \in Injection(T, K)
    <3> HIDE DEF T, K, key
    <3>1. key \in Surjection(T, K)
      BY <2>2 DEF Surjection
    <3>2. IsFiniteSet(T)
      BY <1>4 DEF T
    <3> QED
      BY <2>1, <3>1, <3>2, FS_SurjSameCardinalityImpliesInj
  <2>4. \A r, q \in T : key[r] = key[q] => r = q
    <3> HIDE DEF key, T, K
    <3> QED
      BY <2>3 DEF Injection, IsInjective
  <2> QED
    BY <2>4
<1> QED
  BY <1>4, <1>5 DEF IsLabelled

(* The three training windows give every article three targets.            *)
LEMMA TrainTargets ==
  ASSUME NEW j \in Jobs, NEW p \in Materialized(j), p.task = "sales"
  PROVE  /\ IntValued(Targets(p.train)) /\ DOMAIN Targets(p.train) = p.train
         /\ Cardinality(p.train) >= 2
<1>1. PICK d \in Datasets[j] :
        p = Package(TaskOf(j), d) /\ EnoughHistory(d.data, d.cutoffs)
  BY DEF Materialized
<1> DEFINE first == Min(Days(d.data))
           times == TrainTimes(first, d.cutoffs.validation)
           A == d.data.articles
<1>2. /\ Usable(d) /\ d.cutoffs.validation \in Int /\ first \in Int
  BY DatasetAssumption, FirstDay DEF Usable
<1>3. /\ p.train = SalesLabels(d.data, times)
      /\ p.truth = SalesLabels(d.data, {d.cutoffs.test})
  BY <1>1 DEF Package, LabelsOf, Times, Labels
<1>4. IsFiniteSet(times)
  <2> DEFINE n == (d.cutoffs.validation - first) \div Horizon
             K == 1..n
             time == [k \in K |-> d.cutoffs.validation - k * Horizon]
  <2>1. n \in Int
    BY <1>2, HorizonAssumption
  <2>2. IsFiniteSet(K)
    <3> HIDE DEF n
    <3> QED
      BY <2>1, FS_Interval
  <2>3. time \in [K -> times] /\ \A t \in times : \E k \in K : time[k] = t
    BY DEF TrainTimes
  <2> HIDE DEF time, K, times
  <2>4. time \in Surjection(K, times)
    BY <2>3 DEF Surjection
  <2> QED
    BY <2>2, <2>4, FS_Surjection
<1>5. IsFiniteSet(p.train) /\ \A r \in p.train : r[3] \in Int
  BY <1>2, <1>3, <1>4, SalesFinite
<1>6. PICK t \in times, u \in times : t # u
  <2>1. Cardinality(times) >= 3 /\ Cardinality(times) \in Nat
    BY <1>1, <1>4, FS_CardinalityType DEF EnoughHistory
  <2> HIDE DEF times
  <2> QED
    BY <1>4, <2>1, TwoElements
<1>7. PICK a \in A : TRUE
  <2>1. p.truth # {}
    BY MaterializedIsPackage DEF ValidLabels
  <2> QED
    BY <1>3, <2>1 DEF SalesLabels
<1>8. \E r, q \in p.train : r # q
  <2> DEFINE r == <<t, a, Sales(d.data, t, a)>>
             q == <<u, a, Sales(d.data, u, a)>>
  <2>1. r \in p.train /\ q \in p.train
    BY <1>3, <1>6, <1>7 DEF SalesLabels
  <2>2. r # q
    BY <1>6
  <2> QED
    BY <2>1, <2>2
<1>9. Cardinality(p.train) >= 2
  <2>1. Cardinality(p.train) > 1 /\ Cardinality(p.train) \in Nat
    BY <1>5, <1>8, TwoElements, FS_CardinalityType
  <2> QED
    BY <2>1
<1> QED
  BY <1>5, <1>9 DEF IntValued, Targets

HasTargets(p) == IntValued(Targets(p.train)) /\ Cardinality(p.train) >= 2

(* What is sent has one row for each key, as many rows as the run predicts *)
(* and, for a classification, rows of both labels.                         *)
LEMMA SentIsLabelled ==
  ASSUME job \in Jobs, source \in Materialized(job), NEW p, Sent(p)
  PROVE  /\ IsLabelled(p.truth) /\ IsKeys(p.test)
         /\ p.test = WithoutTarget(p.truth)
         /\ Cardinality(p.test) = Total[job] /\ Total[job] \in Nat
         /\ p.task = "churn" =>
              /\ \A r \in p.truth : r[3] \in {0, 1}
              /\ \E r \in p.truth : r[3] = 1
              /\ \E r \in p.truth : r[3] = 0
         /\ p.task = "sales" => HasTargets(p)
<1>1. /\ IsPackage(p) /\ p.truth \subseteq source.truth
      /\ Cardinality(p.truth) = Total[job] /\ p.task = TaskOf(job)
  BY SentIsPackage
<1>2. IsLabelled(source.truth)
  BY TruthIsLabelled
<1>3. IsLabelled(p.truth)
  BY <1>1, <1>2, FS_Subset DEF IsLabelled
<1>4. /\ p.test = WithoutTarget(p.truth)
      /\ IsKeys(p.test) /\ Cardinality(p.test) = Total[job]
  BY <1>1, <1>3, KeysOfLabels DEF IsPackage
<1>5. Total[job] \in Nat
  BY RunAssumption DEF Modal!ModalAssumption
<1>6. ASSUME p.task = "churn"
      PROVE  /\ \A r \in p.truth : r[3] \in {0, 1}
             /\ \E r \in p.truth : r[3] = 1
             /\ \E r \in p.truth : r[3] = 0
  <2>1. {r[3] : r \in source.truth} = {0, 1}
    BY <1>1, <1>6, MaterializedIsPackage DEF ValidLabels, Binary
  <2>2. \A r \in p.truth : r[3] \in {0, 1}
    BY <1>1, <2>1
  <2>3. CASE job # "smoke"
    <3>1. p = source
      BY <2>3 DEF Sent
    <3> QED
      BY <2>1, <2>2, <3>1
  <2>4. CASE job = "smoke"
    <3> DEFINE ones == Labelled(p.truth, 1)
    <3>1. 2 * Cardinality(ones) = Total[job]
      <4>1. PICK sample \in Sampled(source.truth) :
              Balanced(sample) /\ p = Cohort(source, sample)
        BY <2>4 DEF Sent
      <4>2. p.truth = sample
        BY <4>1, CohortIsPackage
      <4> QED
        BY <2>4, <4>1, <4>2 DEF Balanced
    <3>2. Total[job] >= 2
      BY <2>4, BatchAssumption
    <3>3. ones \subseteq p.truth /\ IsFiniteSet(ones) /\ Cardinality(ones) \in Nat
      BY <1>3, FS_Subset, FS_CardinalityType DEF IsLabelled, Labelled
    <3>4. ones # {}
      <4> HIDE DEF ones
      <4>1. Cardinality(ones) # 0
        BY <1>5, <3>1, <3>2, <3>3
      <4> QED
        BY <4>1, FS_EmptySet
    <3>5. ones # p.truth
      <4> HIDE DEF ones
      <4> QED
        BY <1>1, <1>5, <3>1, <3>2, <3>3
    <3> QED
      BY <2>2, <3>3, <3>4, <3>5 DEF Labelled
  <2> QED
    BY <2>2, <2>3, <2>4
<1>7. ASSUME p.task = "sales"
      PROVE  HasTargets(p)
  <2>1. p.train = source.train /\ p.task = TaskOf(job)
    BY SentIsPackage
  <2>2. source.task = TaskOf(job)
    BY MaterializedIsPackage
  <2> QED
    BY <1>7, <2>1, <2>2, TrainTargets DEF HasTargets
<1> QED
  BY <1>3, <1>4, <1>5, <1>6, <1>7

-----------------------------------------------------------------------------
(* The file and the join.                                                  *)

(* The rows that the model has scored, and what it has said of them.       *)
Covered(p) == {k \in p.test : Position(p, k) \in DOMAIN output}

LEMMA PositionIsRank == \A p, k : Position(p, k) = Rank(p.test, k)
BY DEF Position, Rank, Ahead

LEMMA FileByPosition ==
  ASSUME NEW p, IsKeys(p.test), DOMAIN output \subseteq Nat
  PROVE  PredictionRows(TestTable(Uploads(p)), output)
           = {<<k[1], k[2], output[Position(p, k)]>> : k \in Covered(p)}
<1> DEFINE table == TestTable(Uploads(p))
           n == Cardinality(p.test)
           I == {j \in DOMAIN output : j + 1 \in DOMAIN table}
<1>1. /\ DOMAIN table = 1..n /\ n \in Nat
      /\ \A i \in DOMAIN table : table[i] \in p.test
                                 /\ Position(p, table[i]) = i - 1
      /\ \A k \in p.test : table[Position(p, k) + 1] = k
      /\ \A k \in p.test : Position(p, k) \in 0..(n - 1)
  <2>1. IsTable(table, p.test)
    BY WorkersTable
  <2>2. n \in Nat
    BY FS_CardinalityType DEF IsKeys
  <2>3. \A k \in p.test : Position(p, k) \in 0..(n - 1)
    BY RanksGrow, PositionIsRank
  <2> HIDE DEF table
  <2> QED
    BY <2>1, <2>2, <2>3, TableByRank, PositionIsRank
<1>2. PredictionRows(table, output)
        = {<<table[i + 1][1], table[i + 1][2], output[i]>> : i \in I}
  BY DEF PredictionRows
<1> HIDE DEF table, n
<1>3. ASSUME NEW i \in I
      PROVE  table[i + 1] \in Covered(p) /\ Position(p, table[i + 1]) = i
  <2>1. i \in Nat /\ i \in DOMAIN output /\ i + 1 \in DOMAIN table
    OBVIOUS
  <2>2. Position(p, table[i + 1]) = i
    BY <1>1, <2>1
  <2> QED
    BY <1>1, <2>1, <2>2 DEF Covered
<1>4. ASSUME NEW k \in Covered(p)
      PROVE  Position(p, k) \in I /\ table[Position(p, k) + 1] = k
  <2>1. k \in p.test /\ Position(p, k) \in DOMAIN output
    BY DEF Covered
  <2>2. Position(p, k) + 1 \in DOMAIN table
    BY <1>1, <2>1
  <2> QED
    BY <1>1, <2>1, <2>2
<1> HIDE DEF I
<1>5. \A i \in I : <<table[i + 1][1], table[i + 1][2], output[i]>>
                     \in {<<k[1], k[2], output[Position(p, k)]>> : k \in Covered(p)}
  <2> TAKE i \in I
  <2>1. PICK k \in Covered(p) : k = table[i + 1] /\ Position(p, k) = i
    BY <1>3
  <2> QED
    BY <2>1
<1>6. \A k \in Covered(p) : <<k[1], k[2], output[Position(p, k)]>>
         \in {<<table[i + 1][1], table[i + 1][2], output[i]>> : i \in I}
  <2> TAKE k \in Covered(p)
  <2>1. PICK i \in I : k = table[i + 1] /\ Position(p, k) = i
    BY <1>4
  <2> QED
    BY <2>1
<1> QED
  BY <1>2, <1>5, <1>6 DEF table

(* The worker's file, once the model has scored what was sent.             *)
IsFileOf(p) ==
  /\ IsLabelled(p.truth) /\ IsKeys(p.test) /\ p.test = WithoutTarget(p.truth)
  /\ \A i \in DOMAIN output : i \in Nat /\ output[i] \in 0..Top
  /\ file = {<<k[1], k[2], output[Position(p, k)]>> : k \in Covered(p)}

(* The target of a key.                                                    *)
Target(p, k) == (CHOOSE r \in p.truth : <<r[1], r[2]>> = k)[3]

LEMMA TargetOfRow ==
  ASSUME NEW p, IsLabelled(p.truth), NEW r \in p.truth
  PROVE  Target(p, <<r[1], r[2]>>) = r[3]
<1> DEFINE q == CHOOSE x \in p.truth : <<x[1], x[2]>> = <<r[1], r[2]>>
<1>1. q \in p.truth /\ <<q[1], q[2]>> = <<r[1], r[2]>>
  OBVIOUS
<1>2. q[1] = r[1] /\ q[2] = r[2]
  BY <1>1
<1>3. q = r
  BY <1>1, <1>2 DEF IsLabelled
<1> QED
  BY <1>3 DEF Target

(* Each row of the file is one of the truth, and the join is what the      *)
(* model has said of it.                                                   *)
LEMMA JoinIsIntended ==
  ASSUME NEW p, IsFileOf(p)
  PROVE  /\ WithoutTarget(file) = Covered(p)
         /\ Cardinality(file) = Cardinality(WithoutTarget(file))
         /\ Join(p.truth, file) = Intended(p)
         /\ DOMAIN Intended(p) = Covered(p)
         /\ \A k \in Covered(p) : /\ Intended(p)[k].label = Target(p, k)
                                  /\ Intended(p)[k].score \in 0..Top
         /\ IsSample(Intended(p))
<1> DEFINE C == Covered(p)
           score == [k \in C |-> output[Position(p, k)]]
<1>1. /\ C \subseteq p.test /\ p.test = WithoutTarget(p.truth) /\ IsFiniteSet(C)
      /\ \A k \in C : k = <<k[1], k[2]>> /\ score[k] \in 0..Top
  BY FS_Subset DEF Covered, IsFileOf, IsKeys
<1>2. file = {<<k[1], k[2], score[k]>> : k \in C}
  BY DEF IsFileOf
<1> HIDE DEF C, score
<1>3. WithoutTarget(file) = C
  <2>1. \A k \in C : k \in WithoutTarget(file)
    <3> TAKE k \in C
    <3> DEFINE r == <<k[1], k[2], score[k]>>
    <3>1. r \in file /\ <<r[1], r[2]>> = k
      BY <1>1, <1>2
    <3> QED
      BY <3>1 DEF WithoutTarget
  <2>2. \A k \in WithoutTarget(file) : k \in C
    BY <1>1, <1>2 DEF WithoutTarget
  <2> QED
    BY <2>1, <2>2
<1>4. Cardinality(file) = Cardinality(C)
  <2> DEFINE row == [k \in C |-> <<k[1], k[2], score[k]>>]
  <2>1. row \in [C -> file] /\ \A r \in file : \E k \in C : row[k] = r
    BY <1>2
  <2>2. \A k, l \in C : row[k] = row[l] => k = l
    BY <1>1
  <2> HIDE DEF row
  <2>3. row \in Injection(C, file) /\ row \in Surjection(C, file)
    BY <2>1, <2>2 DEF Injection, IsInjective, Surjection
  <2> QED
    BY <1>1, <2>3, FS_Bijection DEF Bijection, ExistsBijection
<1>5. \A k \in C : (CHOOSE r \in file : <<r[1], r[2]>> = k)[3] = score[k]
  <2> TAKE k \in C
  <2> DEFINE q == CHOOSE r \in file : <<r[1], r[2]>> = k
             x == <<k[1], k[2], score[k]>>
  <2>1. x \in file /\ <<x[1], x[2]>> = k
    BY <1>1, <1>2
  <2>2. q \in file /\ <<q[1], q[2]>> = k
    BY <2>1
  <2>3. PICK l \in C : q = <<l[1], l[2], score[l]>>
    BY <1>2, <2>2
  <2>4. l = k
    BY <1>1, <2>2, <2>3
  <2>5. q[3] = score[k]
    <3> HIDE DEF q
    <3> QED
      BY <2>3, <2>4
  <2> QED
    BY <2>5
<1>6. WithoutTarget(p.truth) \cap WithoutTarget(file) = C
  BY <1>1, <1>3
<1>7. Join(p.truth, file) = [k \in C |-> [label |-> Target(p, k), score |-> score[k]]]
  BY <1>5, <1>6 DEF Join, Target
<1>8. Intended(p) = [k \in C |-> [label |-> Target(p, k), score |-> score[k]]]
  BY DEF Intended, Target, C, score, Covered
<1>9. \A k \in C : Target(p, k) \in Int
  <2> TAKE k \in C
  <2>1. PICK r \in p.truth : k = <<r[1], r[2]>>
    BY <1>1 DEF WithoutTarget
  <2>2. Target(p, k) = r[3]
    BY <2>1, TargetOfRow DEF IsFileOf
  <2> QED
    BY <2>2 DEF IsFileOf, IsLabelled
<1>10. /\ DOMAIN Intended(p) = C
       /\ \A k \in C : /\ Intended(p)[k].label = Target(p, k)
                       /\ Intended(p)[k].score = score[k]
  BY <1>8
<1>11. IsSample(Intended(p))
  BY <1>1, <1>9, <1>10 DEF IsSample
<1> QED
  BY <1>1, <1>3, <1>4, <1>7, <1>8, <1>10, <1>11 DEF C

(* Everything is covered exactly when the model has scored the rows of the *)
(* table and nothing else.                                                 *)
LEMMA WholeIsCovered ==
  ASSUME NEW p, IsFileOf(p), NEW n \in Nat, n = Cardinality(p.test),
         IsFiniteSet(DOMAIN output), Cardinality(DOMAIN output) = n
  PROVE  Covered(p) = p.test <=> DOMAIN output = 0..(n - 1)
<1>1. /\ \A k \in p.test : Position(p, k) \in 0..(n - 1)
      /\ \A i \in 0..(n - 1) : \E k \in p.test : Position(p, k) = i
  BY RanksGrow, RanksAreComplete, PositionIsRank DEF IsFileOf
<1>2. CASE DOMAIN output = 0..(n - 1)
  BY <1>1, <1>2 DEF Covered
<1>3. CASE Covered(p) = p.test
  <2> DEFINE R == 0..(n - 1)
  <2>1. R \subseteq DOMAIN output
    BY <1>1, <1>3 DEF Covered
  <2>2. Cardinality(R) = n
    BY CountedFromZero
  <2> HIDE DEF R
  <2>3. DOMAIN output = R
    BY <2>1, <2>2, FS_Subset
  <2> QED
    BY <1>3, <2>3 DEF R
<1> QED
  BY <1>2, <1>3

-----------------------------------------------------------------------------
(* The verdict.                                                            *)

LEMMA TwoTargets ==
  ASSUME NEW rows, IsFiniteSet(rows)
  PROVE  Cardinality({r[3] : r \in rows}) > 1
           <=> \E r, q \in rows : r[3] # q[3]
<1> DEFINE T == {r[3] : r \in rows}
           target == [r \in rows |-> r[3]]
<1>1. target \in [rows -> T] /\ \A t \in T : \E r \in rows : target[r] = t
  OBVIOUS
<1>2. IsFiniteSet(T)
  <2> HIDE DEF T, target
  <2>1. target \in Surjection(rows, T)
    BY <1>1 DEF Surjection
  <2> QED
    BY <2>1, FS_Surjection
<1>3. (\E r, q \in rows : r[3] # q[3]) <=> \E t, u \in T : t # u
  OBVIOUS
<1>4. Cardinality(T) > 1 <=> \E t, u \in T : t # u
  <2> HIDE DEF T
  <2> QED
    BY <1>2, TwoElements
<1> QED
  BY <1>3, <1>4

(* The targets of what is covered are those of the truth.                  *)
LEMMA TargetsOfTruth ==
  ASSUME NEW p, IsFileOf(p), Covered(p) = p.test
  PROVE  /\ \A k \in Covered(p) : \E r \in p.truth : Target(p, k) = r[3]
         /\ \A r \in p.truth : \E k \in Covered(p) : Target(p, k) = r[3]
<1>1. Covered(p) = {<<r[1], r[2]>> : r \in p.truth}
  BY DEF IsFileOf, WithoutTarget
<1>2. \A r \in p.truth : Target(p, <<r[1], r[2]>>) = r[3]
  BY TargetOfRow DEF IsFileOf
<1> QED
  BY <1>1, <1>2

(* What is covered is scored, unless it is a regression on equal targets.  *)
LEMMA ScoredWhenScalable ==
  ASSUME NEW p, IsFileOf(p), Covered(p) = p.test, p.test # {},
         p.task \in TaskIds, p.task = "sales" => HasTargets(p),
         p.task = "churn" => /\ \A r \in p.truth : r[3] \in {0, 1}
                             /\ \E r \in p.truth : r[3] = 1
                             /\ \E r \in p.truth : r[3] = 0
  PROVE  Scoring(p, Intended(p)).kind = "scored"
           <=> (p.task = "sales" => Cardinality({r[3] : r \in p.truth}) > 1)
<1> DEFINE s == Intended(p)
<1>1. /\ DOMAIN s = Covered(p) /\ IsSample(s)
      /\ \A k \in DOMAIN s : s[k].label = Target(p, k) /\ s[k].score \in 0..Top
  BY JoinIsIntended
<1> HIDE DEF s
<1>2. \A code \in Codes : Refusal(code).kind # "scored"
  BY DEF Refusal, Codes
<1>d. DOMAIN s # {}
  BY <1>1
<1>r. \A m, accepted : accepted => Result(m, accepted).kind = "scored"
  BY DEF Result
<1>3. CASE p.task = "churn"
  <2>1. \A k \in DOMAIN s : s[k].label \in {0, 1} /\ s[k].score \in 0..Top
    BY <1>1, <1>3, TargetsOfTruth
  <2>2. (\E k \in DOMAIN s : s[k].label = 1) /\ (\E k \in DOMAIN s : s[k].label = 0)
    BY <1>1, <1>3, TargetsOfTruth
  <2>3. ClassSupport(s)
    BY <2>2 DEF ClassSupport, Positive
  <2>4. ClassificationContract(ClassificationMetrics(s))
    BY <1>1, <2>1, <2>3, ClassificationInRange DEF IsClassified
  <2>5. Scoring(p, s).kind = "scored"
    BY <1>3, <1>d, <1>r, <2>1, <2>3, <2>4 DEF Scoring
  <2> QED
    BY <1>3, <2>5 DEF s
<1>4. CASE p.task = "sales"
  <2>1. RegressionScale(s) <=> \E k, l \in DOMAIN s : s[k].label # s[l].label
    BY <1>1, ScaleNeedsTwoLabels
  <2>2. (\E k, l \in DOMAIN s : s[k].label # s[l].label)
          <=> \E r, q \in p.truth : r[3] # q[3]
    BY <1>1, TargetsOfTruth
  <2>3. RegressionScale(s) <=> Cardinality({r[3] : r \in p.truth}) > 1
    BY <2>1, <2>2, TwoTargets DEF IsFileOf, IsLabelled
  <2> DEFINE train == Targets(p.train)
  <2>5. IntValued(train) /\ Cardinality(DOMAIN train) >= 2
        /\ Cardinality(p.train) \in Nat /\ Cardinality(p.train) >= 2
    <3>1. DOMAIN train = p.train
      BY DEF Targets
    <3> QED
      BY <1>4, <3>1, FS_CardinalityType DEF HasTargets, IntValued
  <2> HIDE DEF train
  <2>6. RegressionScale(s) => RegressionContract(RegressionMetrics(s, train))
    BY <1>1, <1>d, <2>5, RegressionInRange
  <2>7. ~(Cardinality(p.train) < 2)
    BY <2>5
  <2>8. ASSUME RegressionScale(s)
        PROVE  Scoring(p, s).kind = "scored"
    BY <1>4, <1>d, <1>r, <2>6, <2>7, <2>8 DEF Scoring, train
  <2>9. ASSUME ~RegressionScale(s)
        PROVE  Scoring(p, s).kind # "scored"
    BY <1>2, <1>4, <1>d, <2>7, <2>9 DEF Scoring, Codes
  <2>4. Scoring(p, s).kind = "scored" <=> RegressionScale(s)
    BY <2>8, <2>9
  <2> QED
    BY <1>4, <2>3, <2>4 DEF s
<1> QED
  BY <1>3, <1>4 DEF TaskIds

(* What the script evaluates.                                              *)
LEMMA WhatIsEvaluated ==
  ASSUME BatchInv, phase = "evaluate"
  PROVE  /\ job \in Jobs /\ package # None /\ package.task = TaskOf(job)
         /\ IsFileOf(package)
         /\ Total[job] \in Nat /\ Cardinality(package.test) = Total[job]
         /\ IsFiniteSet(DOMAIN output) /\ Cardinality(DOMAIN output) = Total[job]
         /\ package.task = "churn" =>
              /\ \A r \in package.truth : r[3] \in {0, 1}
              /\ \E r \in package.truth : r[3] = 1
              /\ \E r \in package.truth : r[3] = 0
         /\ Total[job] > 0 /\ package.test # {}
         /\ package.task = "sales" => HasTargets(package)
<1>1. /\ job \in Jobs /\ source \in Materialized(job)
      /\ package # None /\ Sent(package)
      /\ outcome = "done" /\ runs = 1 /\ task = job
  BY DEF BatchInv, Sending, Predicting
<1>2. prediction # None /\ prediction.rows = Total[job]
  BY <1>1 DEF BatchInv, Run!Inv, Run!Sealing, Run!ResultOnDisk
<1>3. /\ output \in Outputs(Total[job])
      /\ file = PredictionRows(TestTable(Uploads(package)), output)
  BY <1>2 DEF BatchInv, Predicting
<1>4. /\ IsLabelled(package.truth) /\ IsKeys(package.test)
      /\ package.test = WithoutTarget(package.truth)
      /\ Cardinality(package.test) = Total[job] /\ Total[job] \in Nat
  BY <1>1, SentIsLabelled
<1>5. package.task = TaskOf(job)
  BY <1>1, SentIsPackage
<1>6. /\ package.task = "churn" =>
           /\ \A r \in package.truth : r[3] \in {0, 1}
           /\ \E r \in package.truth : r[3] = 1
           /\ \E r \in package.truth : r[3] = 0
      /\ package.task = "sales" => HasTargets(package)
  BY <1>1, SentIsLabelled
<1>t. Total[job] > 0 /\ package.test # {}
  <2>1. Total[job] > 0
    BY <1>1, RunAssumption DEF Modal!ModalAssumption
  <2> QED
    BY <1>4, <2>1, FS_EmptySet
<1>7. PICK nodes \in kSubset(Total[job], 0..Total[job]) :
        output \in [nodes -> Scores]
  BY <1>3 DEF Outputs
<1>8. /\ DOMAIN output \subseteq 0..Total[job]
      /\ Cardinality(DOMAIN output) = Total[job]
      /\ \A i \in DOMAIN output : output[i] \in 0..Top
  BY <1>7, BatchAssumption DEF kSubset
<1>9. IsFiniteSet(DOMAIN output) /\ DOMAIN output \subseteq Nat
  <2>1. IsFiniteSet(0..Total[job])
    BY <1>4, FS_Interval
  <2> QED
    BY <1>4, <1>8, <2>1, FS_Subset
<1>10. file = {<<k[1], k[2], output[Position(package, k)]>> :
                 k \in Covered(package)}
  BY <1>3, <1>4, <1>9, FileByPosition
<1>11. IsFileOf(package)
  BY <1>4, <1>8, <1>9, <1>10 DEF IsFileOf
<1> QED
  BY <1>1, <1>4, <1>5, <1>6, <1>8, <1>9, <1>11, <1>t

(* A sound batch is scored and nothing else is: metrics are given exactly  *)
(* when the package is the one that was sent, no file was altered, and the *)
(* model scored every row of the cohort and no other node.                 *)
THEOREM WholeBatchesAreScored == Spec => ScoredExactlyWhenWhole
<1> DEFINE WholeBatch(p) ==
             /\ p = package /\ altered \in {None, "test"}
             /\ DOMAIN output = 0..(Total[job] - 1)
             /\ job = "sales" => Cardinality({r[3] : r \in p.truth}) > 1
           Exact == \A p \in {package, source} : Evaluate(p) =>
                      (verdict'.kind = "scored" <=> WholeBatch(p))
<1>1. BatchInv => Exact
  <2> SUFFICES ASSUME BatchInv, NEW p \in {package, source}, Evaluate(p)
               PROVE  verdict'.kind = "scored" <=> WholeBatch(p)
    OBVIOUS
  <2>1. verdict' = Verdict(p) /\ phase = "evaluate"
    BY DEF Evaluate
  <2>2. \A code \in Codes : Refusal(code).kind # "scored"
    BY DEF Refusal, Codes
  <2>3. CASE p # package
    BY <2>1, <2>2, <2>3 DEF Verdict, Codes
  <2>4. CASE altered \in {"prediction", "truth", "train"}
    BY <2>1, <2>2, <2>4, NoneAssumption DEF Verdict, Codes, Files
  <2>5. CASE p = package /\ altered \notin {"prediction", "truth", "train"}
    <3>1. altered \in {None, "test"}
      BY <2>5 DEF BatchInv, Sending, Files
    <3>2. /\ IsFileOf(p) /\ Cardinality(p.test) = Total[job]
          /\ Total[job] \in Nat /\ p.task = TaskOf(job) /\ job \in Jobs
          /\ IsFiniteSet(DOMAIN output) /\ p.test # {}
          /\ Cardinality(DOMAIN output) = Total[job]
      BY <2>1, <2>5, WhatIsEvaluated
    <3>3. /\ Cardinality(WithoutTarget(file)) = Cardinality(file)
          /\ Join(p.truth, file) = Intended(p)
          /\ Covers(p.truth, file) <=> Covered(p) = p.test
      BY <3>2, JoinIsIntended DEF Covers, IsFileOf
    <3>4. Covered(p) = p.test <=> DOMAIN output = 0..(Total[job] - 1)
      BY <3>2, WholeIsCovered
    <3>5. verdict' = IF Covered(p) # p.test
                       THEN Refusal("prediction_coverage")
                       ELSE Scoring(p, Intended(p))
      BY <2>1, <2>5, <3>3 DEF Verdict
    <3>6. p.task \in TaskIds /\ (p.task = "sales" <=> job = "sales")
      BY <3>2, BatchAssumption DEF TaskOf, TaskIds
    <3>7. CASE Covered(p) # p.test
      BY <2>2, <3>4, <3>5, <3>7 DEF Codes
    <3>8. CASE Covered(p) = p.test
      <4>1. Scoring(p, Intended(p)).kind = "scored"
              <=> (p.task = "sales" => Cardinality({r[3] : r \in p.truth}) > 1)
        BY <2>1, <2>5, <3>2, <3>6, <3>8, WhatIsEvaluated, ScoredWhenScalable
      <4> QED
        BY <2>5, <3>1, <3>4, <3>5, <3>6, <3>8, <4>1
    <3> QED
      BY <3>7, <3>8
  <2> QED
    BY <2>3, <2>4, <2>5
<1>2. BatchInv /\ [Next]_vars => [Exact]_vars
  BY <1>1
<1> QED
  BY BatchInvariant, <1>2, PTL DEF Spec, ScoredExactlyWhenWhole

(* Metrics that are published are those of what the model has said of the  *)
(* rows; after that the batch is over and nothing changes them.            *)
Published ==
  verdict # None /\ verdict.kind = "scored" =>
    /\ phase = "over" /\ IsSample(Intended(package))
    /\ verdict = Scoring(package, Intended(package))

LEMMA PublishedStep ==
  ASSUME BatchInv, Published, [Next]_vars
  PROVE  Published'
<1>1. CASE UNCHANGED vars
  BY <1>1 DEF Published, vars, batchVars, modalVars, Intended, Position
<1>2. CASE Derive
  <2>1. verdict' = verdict \/ verdict' = Refusal("cohort")
    BY <1>2 DEF Derive
  <2>2. phase = "derive"
    BY <1>2 DEF Derive
  <2> QED
    BY <2>1, <2>2 DEF Published, Refusal
<1>3. CASE TakeWhole
  BY <1>3 DEF TakeWhole, Published
<1>4. CASE \E f \in Files : Alter(f)
  BY <1>4 DEF Alter, Published
<1>5. CASE Open \/ Finish
  BY <1>5 DEF Open, Finish, batchVars, Published
<1>6. CASE Upload \/ UploadFails \/ Infer \/ Control \/ Release
  <2>1. pc # "idle" /\ verdict' = verdict
    BY <1>6, RunSteps, ControlKeeps
       DEF Upload, UploadFails, Infer, Control, Release, batchVars
  <2>2. phase = "run"
    BY <2>1 DEF BatchInv, Sending
  <2> QED
    BY <2>1, <2>2 DEF Published
<1>7. CASE \E p \in {package, source} : Evaluate(p)
  <2>1. PICK p \in {package, source} : Evaluate(p)
    BY <1>7
  <2>2. /\ phase = "evaluate" /\ phase' = "over" /\ verdict' = Verdict(p)
        /\ UNCHANGED <<modalVars, job, source, package, output, file>>
    BY <2>1 DEF Evaluate
  <2>3. ASSUME verdict'.kind = "scored"
        PROVE  /\ IsSample(Intended(package))
               /\ verdict' = Scoring(package, Intended(package))
    <3>1. \A code \in Codes : Refusal(code).kind # "scored"
      BY DEF Refusal, Codes
    <3>2. p = package /\ verdict' = Scoring(p, Join(p.truth, file))
      BY <2>2, <2>3, <3>1 DEF Verdict, Codes
    <3> QED
      BY <2>2, <3>2, WhatIsEvaluated, JoinIsIntended
  <2>4. Intended(package)' = Intended(package)
    BY <2>2 DEF Intended, Position
  <2>5. Scoring(package, Intended(package))' = Scoring(package, Intended(package))
    BY <2>2, <2>4
  <2> QED
    BY <2>2, <2>3, <2>4, <2>5 DEF Published
<1> QED
  BY <1>1, <1>2, <1>3, <1>4, <1>5, <1>6, <1>7 DEF Next

(* Whatever the batch, the metrics it publishes are what they are meant to *)
(* measure, of what the model said of each row of the cohort.              *)
THEOREM PublishedMetricsAreRight == Spec => []MetricsMatchDefinitions
<1>1. Init => Published
  BY DEF Init, Published
<1>2. BatchInv /\ Published /\ [Next]_vars => Published'
  BY PublishedStep
<1>3. Published => MetricsMatchDefinitions
  <2> SUFFICES ASSUME Published, verdict # None, verdict.kind = "scored"
               PROVE  LET s == Intended(package)
                          m == verdict.metrics
                      IN  IF package.task = "churn"
                            THEN /\ Equal(m.auroc, Concordance(s))
                                 /\ Equal(m.average_precision, MeanPrecision(s))
                                 /\ Equal(m.f1, HarmonicMean(s))
                            ELSE Equal(m.r2, Explained(s))
    BY DEF MetricsMatchDefinitions
  <2> DEFINE s == Intended(package)
             train == Targets(package.train)
  <2>1. IsSample(s) /\ verdict = Scoring(package, s)
    BY DEF Published
  <2> HIDE DEF s, train
  <2>2. /\ \A code \in Codes : Refusal(code).kind # "scored"
        /\ \A m, accepted : Result(m, accepted).kind = "scored" =>
                             Result(m, accepted).metrics = m
    BY DEF Refusal, Result, Codes
  <2>3. CASE package.task = "churn"
    <3>1. verdict.metrics = ClassificationMetrics(s)
      BY <2>1, <2>2, <2>3 DEF Scoring, Codes
    <3>2. /\ verdict.metrics.auroc = AverageRankAuc(s)
          /\ verdict.metrics.average_precision = AveragePrecision(s)
          /\ verdict.metrics.f1 = F1(s)
      BY <3>1 DEF ClassificationMetrics
    <3> QED
      BY <2>1, <2>3, <3>2, AucIsConcordance, AveragePrecisionIsMean,
         F1IsHarmonicMean DEF s
  <2>4. CASE package.task # "churn"
    <3>1. verdict.metrics = RegressionMetrics(s, train)
      BY <2>1, <2>2, <2>4 DEF Scoring, Codes, train
    <3> QED
      BY <2>1, <2>4, <3>1, ExplainedShare DEF s
  <2> QED
    BY <2>3, <2>4
<1> QED
  BY BatchInvariant, <1>1, <1>2, <1>3, PTL DEF Spec
=============================================================================
