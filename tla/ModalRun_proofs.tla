-------------------------- MODULE ModalRun_proofs --------------------------
(***************************************************************************)
(* Proofs about ModalRun: for any tasks, cohorts, durations, rates,        *)
(* ceilings and number of runs.                                            *)
(***************************************************************************)
EXTENDS ModalRun, TLAPS

(* The result that a run may return: the file on disk, for the cohort.     *)
ResultOnDisk ==
  /\ prediction # None /\ disk = prediction
  /\ prediction.rows = Total[task]

(* What is known of the prediction on its way.                             *)
Sealing ==
  /\ pc \in {"download", "verify"} =>
       preflight # None /\ prediction.rows = IF call = 1 THEN preflight.rows ELSE Total[task]
  /\ pc \in {"admit", "choose"} =>
       /\ prediction # None /\ disk = prediction
       /\ prediction.rows = preflight.rows
  /\ pc = "seal" => ResultOnDisk
  /\ pc \in {"exit_app", "exit_volume"} /\ ~failure => ResultOnDisk
  /\ outcome = "done" => ResultOnDisk

(* What is known of the contexts.                                          *)
Releasing ==
  /\ pc = "exit_volume" => app \in {"closed", "stuck"}
  /\ pc = "build" => app = "none"
  /\ pc # "idle" => outcome = None
  /\ ConfirmedMeansReleased
  /\ NothingStaysOpen

(* The run has been admitted.                                              *)
Paid ==
  /\ preflight # None /\ Plausible
  /\ ledger = Plus(before, Projection(preflight, task))

(* Before its admission a run has changed nothing in the ledger; a result  *)
(* on its way has been paid for.                                           *)
Paying ==
  /\ pc \in {"build", "stage", "admit"} => ledger = before /\ call = 1
  /\ pc \in {"infer", "download", "verify"} /\ call = 1 => ledger = before
  /\ pc = "choose" => call = 1
  /\ pc \in {"exit_app", "exit_volume"} /\ ~failure => Paid

Inv ==
  /\ ModalTypeOK /\ Sealing /\ Releasing
  /\ Paying /\ PaidExactlyOnce /\ BudgetKept

-----------------------------------------------------------------------------
(* A plausible observation projects to an amount.                          *)
LEMMA ProjectionType ==
  ASSUME NEW t \in Tasks, NEW obs \in Observations, obs.rows > 0
  PROVE  Projection(obs, t) \in Amounts
<1>1. obs.duration \in Nat /\ Total[t] \in Nat /\ Rate \in Nat
  BY ModalAssumption DEF Observations
<1>2. Unit \div (2 * obs.rows) \in Nat
  BY ModalAssumption DEF Observations
<1> DEFINE share == Unit \div (2 * obs.rows)
<1>3. ASSUME NEW a \in Nat, NEW b \in Nat
      PROVE  a * b \in Nat
  BY <1>3
<1>4. obs.duration * Total[t] * 3 \in Nat
  <2>1. obs.duration * Total[t] \in Nat
    BY <1>1, <1>3
  <2> QED
    BY <2>1
<1>5. ProjectedDuration(obs, t) \in Nat
  BY <1>2, <1>3, <1>4 DEF ProjectedDuration
<1>6. ProjectedDuration(obs, t) * Rate \in Nat
  BY <1>1, <1>3, <1>5
<1> QED
  BY <1>5, <1>6 DEF Projection, Amounts

(* Every step preserves the invariant.                                     *)
LEMMA InvStep ==
  ASSUME Inv, [Next]_vars
  PROVE  Inv'
<1> USE NoneAssumption
    DEF Outcomes, PCs, Contexts, controlVars, fileVars, contextVars, resultVars
<1>1. CASE UNCHANGED vars
  BY <1>1 DEF Inv, ModalTypeOK, Sealing, Releasing, Paying,
     Paid, PaidExactlyOnce, BudgetKept, ResultOnDisk, ConfirmedMeansReleased,
     NothingStaysOpen, Plausible, vars
<1>2. ASSUME NEW t \in Tasks, OpenVolume(t)
      PROVE  Inv'
  <2> USE <1>2 DEF OpenVolume
  <2>0. runs' \in 0..MaxRuns
    BY ModalAssumption DEF Inv, ModalTypeOK
  <2>a. /\ pc' \in {"build", "idle"} /\ volume' \in {"open", "none"}
        /\ outcome' \in {None, "error"} /\ failure' \in BOOLEAN
        /\ app' = "none" /\ task' \in Tasks /\ call' = 1
        /\ preflight' = None /\ prediction' = None
        /\ part' = None /\ disk' = None
        /\ ledger' = ledger /\ before' = ledger
    OBVIOUS
  <2>1. ModalTypeOK'
    BY <2>0, <2>a DEF Inv, ModalTypeOK
  <2>2. Sealing'
    BY DEF Inv, ModalTypeOK, Sealing, ResultOnDisk, PredictionFiles
  <2>3. Releasing'
    BY DEF Inv, ModalTypeOK, Releasing, ConfirmedMeansReleased,
       NothingStaysOpen
  <2>4. Paying'
    BY DEF Inv, Paying, PaidExactlyOnce, Paid, Plausible
  <2>5. PaidExactlyOnce'
    BY DEF Inv, ModalTypeOK, Paying, PaidExactlyOnce, Releasing, Plausible
  <2>6. BudgetKept'
    BY DEF Inv, BudgetKept
  <2> QED
    BY <2>1, <2>2, <2>3, <2>4, <2>5, <2>6 DEF Inv
<1>3. CASE StartApp
  <2> USE <1>3 DEF StartApp
  <2>1. ModalTypeOK'
    BY DEF Inv, ModalTypeOK
  <2>2. Sealing'
    BY DEF Inv, ModalTypeOK, Sealing, ResultOnDisk, PredictionFiles
  <2>3. Releasing'
    BY DEF Inv, ModalTypeOK, Releasing, ConfirmedMeansReleased,
       NothingStaysOpen
  <2>4. Paying'
    BY DEF Inv, Paying, PaidExactlyOnce, Paid, Plausible
  <2>5. PaidExactlyOnce'
    BY DEF Inv, ModalTypeOK, Paying, PaidExactlyOnce, Releasing, Plausible
  <2>6. BudgetKept'
    BY DEF Inv, BudgetKept
  <2> QED
    BY <2>1, <2>2, <2>3, <2>4, <2>5, <2>6 DEF Inv
<1>4. CASE BuildFails
  <2> USE <1>4 DEF BuildFails
  <2>1. ModalTypeOK'
    BY DEF Inv, ModalTypeOK
  <2>2. Sealing'
    BY DEF Inv, ModalTypeOK, Sealing, ResultOnDisk, PredictionFiles
  <2>3. Releasing'
    BY DEF Inv, ModalTypeOK, Releasing, ConfirmedMeansReleased,
       NothingStaysOpen
  <2>4. Paying'
    BY DEF Inv, Paying, PaidExactlyOnce, Paid, Plausible
  <2>5. PaidExactlyOnce'
    BY DEF Inv, ModalTypeOK, Paying, PaidExactlyOnce, Releasing, Plausible
  <2>6. BudgetKept'
    BY DEF Inv, BudgetKept
  <2> QED
    BY <2>1, <2>2, <2>3, <2>4, <2>5, <2>6 DEF Inv
<1>5. CASE StageAssets
  <2> USE <1>5 DEF StageAssets, Fail
  <2>0. pc' \in {"infer", "exit_app"} /\ failure' \in {failure, TRUE}
    OBVIOUS
  <2>a. UNCHANGED <<ledger, before, runs, task, call, preflight, prediction,
                    part, disk, volume, app, outcome>>
    OBVIOUS
  <2>1. ModalTypeOK'
    BY <2>0, <2>a DEF Inv, ModalTypeOK
  <2>2. Sealing'
    BY DEF Inv, ModalTypeOK, Sealing, ResultOnDisk, PredictionFiles
  <2>3. Releasing'
    BY DEF Inv, ModalTypeOK, Releasing, ConfirmedMeansReleased,
       NothingStaysOpen
  <2>4. Paying'
    BY DEF Inv, Paying, PaidExactlyOnce, Paid, Plausible
  <2>5. PaidExactlyOnce'
    BY DEF Inv, ModalTypeOK, Paying, PaidExactlyOnce, Releasing, Plausible
  <2>6. BudgetKept'
    BY DEF Inv, BudgetKept
  <2> QED
    BY <2>1, <2>2, <2>3, <2>4, <2>5, <2>6 DEF Inv
<1>6. CASE Infer
  <2> USE <1>6 DEF Infer
  <2>0. /\ pc = "infer" /\ call \in {1, 2} /\ task \in Tasks /\ call' = call
        /\ UNCHANGED <<ledger, before, runs, task, part, disk, volume, app,
                       outcome>>
    BY DEF Inv, ModalTypeOK
  <2>1. CASE Fail /\ UNCHANGED resultVars
    <3> USE <2>0, <2>1 DEF Fail
    <3>1. ModalTypeOK'
      BY DEF Inv, ModalTypeOK
    <3>2. Sealing'
      BY DEF Inv, Sealing, Releasing, ResultOnDisk
    <3>3. Releasing'
      BY DEF Inv, Releasing, ConfirmedMeansReleased, NothingStaysOpen
    <3>4. Paying' /\ PaidExactlyOnce' /\ BudgetKept'
      BY DEF Inv, Paying, Paid, PaidExactlyOnce, BudgetKept, Releasing,
         Plausible, WithinCeilings
    <3> QED
      BY <3>1, <3>2, <3>3, <3>4 DEF Inv
  <2>2. CASE ~(Fail /\ UNCHANGED resultVars)
    <3>1. PICK n \in Reported, d \in Durations :
            /\ preflight' = IF call = 1 THEN [rows |-> n, duration |-> d]
                                        ELSE preflight
            /\ prediction' = [call |-> call, rows |-> n, whole |-> TRUE]
            /\ pc' = "download" /\ UNCHANGED failure
      BY <2>2
    <3>2. Total[task] \in Nat
      BY <2>0, ModalAssumption
    <3>3. n \in Nat /\ (call = 2 => n = Total[task])
      BY <2>0, <3>1, <3>2 DEF Reported
    <3>4. /\ prediction' \in PredictionFiles
          /\ [rows |-> n, duration |-> d] \in Observations
      BY <2>0, <3>1, <3>3 DEF PredictionFiles, Observations
    <3>5. prediction' # None /\ [rows |-> n, duration |-> d] # None
      BY <3>4
    <3>6. ModalTypeOK'
      BY <2>0, <3>1, <3>4, <3>5 DEF Inv, ModalTypeOK
    <3>7. Sealing'
      BY <2>0, <3>1, <3>3, <3>5
         DEF Inv, ModalTypeOK, Sealing, Releasing, ResultOnDisk
    <3>8. Releasing'
      BY <2>0, <3>1 DEF Inv, Releasing, ConfirmedMeansReleased,
         NothingStaysOpen
    <3>9. Paying' /\ PaidExactlyOnce' /\ BudgetKept'
      BY <2>0, <3>1 DEF Inv, Paying, Paid, PaidExactlyOnce, BudgetKept,
         Releasing, Plausible, WithinCeilings
    <3> QED
      BY <3>6, <3>7, <3>8, <3>9 DEF Inv
  <2> QED
    BY <2>1, <2>2
<1>7. CASE Download
  <2> USE <1>7 DEF Download, Fail
  <2>0. part' \in PredictionFiles
    BY DEF Inv, ModalTypeOK, PredictionFiles
  <2>a. (pc' = "verify" /\ failure' = failure) \/ (pc' = "exit_app" /\ failure' = TRUE)
    OBVIOUS
  <2>b. UNCHANGED <<ledger, before, runs, task, call, preflight, prediction,
                    disk, volume, app, outcome>>
    OBVIOUS
  <2>1. ModalTypeOK'
    BY <2>0, <2>a, <2>b DEF Inv, ModalTypeOK
  <2>2. Sealing'
    BY DEF Inv, ModalTypeOK, Sealing, ResultOnDisk, PredictionFiles
  <2>3. Releasing'
    BY DEF Inv, ModalTypeOK, Releasing, ConfirmedMeansReleased,
       NothingStaysOpen
  <2>4. Paying'
    BY DEF Inv, Paying, PaidExactlyOnce, Paid, Plausible
  <2>5. PaidExactlyOnce'
    BY DEF Inv, ModalTypeOK, Paying, PaidExactlyOnce, Releasing, Plausible
  <2>6. BudgetKept'
    BY DEF Inv, BudgetKept
  <2> QED
    BY <2>1, <2>2, <2>3, <2>4, <2>5, <2>6 DEF Inv
<1>8. CASE Verify
  <2> USE <1>8 DEF Verify, Fail, AfterCall
  <2>0. \/ /\ part = prediction /\ disk' = part /\ failure' = failure
           /\ pc' = IF call = 1 THEN "admit" ELSE "seal"
        \/ pc' = "exit_app" /\ failure' = TRUE /\ disk' = disk
    OBVIOUS
  <2>a. /\ UNCHANGED <<ledger, before, runs, task, call, preflight, prediction,
                       volume, app, outcome>>
        /\ part' = None
    OBVIOUS
  <2>b. call = 1 => preflight # None
    BY DEF Inv, ModalTypeOK, Sealing
  <2>1. ModalTypeOK'
    BY <2>0, <2>a, <2>b DEF Inv, ModalTypeOK
  <2>2. Sealing'
    BY DEF Inv, ModalTypeOK, Sealing, ResultOnDisk, PredictionFiles
  <2>3. Releasing'
    BY DEF Inv, ModalTypeOK, Releasing, ConfirmedMeansReleased,
       NothingStaysOpen
  <2>4. Paying'
    BY DEF Inv, Paying, PaidExactlyOnce, Paid, Plausible
  <2>5. PaidExactlyOnce'
    BY DEF Inv, ModalTypeOK, Paying, PaidExactlyOnce, Releasing, Plausible
  <2>6. BudgetKept'
    BY DEF Inv, BudgetKept
  <2> QED
    BY <2>1, <2>2, <2>3, <2>4, <2>5, <2>6 DEF Inv
<1>9. CASE Admit
  <2> USE <1>9 DEF Admit, Fail
  <2>0. \/ /\ Plausible /\ Affordable(Projection(preflight, task))
           /\ ledger' = Plus(ledger, Projection(preflight, task))
           /\ pc' = "choose" /\ failure' = failure
        \/ pc' = "exit_app" /\ failure' = TRUE /\ ledger' = ledger
    OBVIOUS
  <2>a. UNCHANGED <<before, runs, task, call, preflight, prediction, part, disk,
                    volume, app, outcome>>
    OBVIOUS
  <2>b. ledger' \in Amounts
    <3>1. CASE ledger' = ledger
      BY <3>1 DEF Inv, ModalTypeOK
    <3>2. CASE /\ Plausible
               /\ ledger' = Plus(ledger, Projection(preflight, task))
      <4>1. /\ task \in Tasks /\ preflight \in Observations
            /\ ledger \in Amounts
        BY DEF Inv, ModalTypeOK
      <4>2. Limit(task) \in Nat
        BY <4>1, ModalAssumption DEF Limit
      <4>3. preflight.rows > 0
        BY <3>2, <4>2 DEF Plausible
      <4>4. Projection(preflight, task) \in Amounts
        BY <4>1, <4>3, ProjectionType
      <4> QED
        BY <3>2, <4>1, <4>4 DEF Plus, Amounts
    <3> QED
      BY <2>0, <3>1, <3>2
  <2>1. ModalTypeOK'
    BY <2>0, <2>a, <2>b DEF Inv, ModalTypeOK
  <2>2. Sealing'
    BY DEF Inv, ModalTypeOK, Sealing, ResultOnDisk, PredictionFiles
  <2>3. Releasing'
    BY DEF Inv, ModalTypeOK, Releasing, ConfirmedMeansReleased,
       NothingStaysOpen
  <2>4. Paying'
    BY DEF Inv, Paying, PaidExactlyOnce, Paid, Plausible
  <2>5. PaidExactlyOnce'
    BY DEF Inv, ModalTypeOK, Paying, PaidExactlyOnce, Releasing, Plausible
  <2>6. BudgetKept'
    BY <2>0 DEF Inv, BudgetKept, Affordable, WithinCeilings
  <2> QED
    BY <2>1, <2>2, <2>3, <2>4, <2>5, <2>6 DEF Inv
<1>10. CASE UsePreflight
  <2> USE <1>10 DEF UsePreflight, CoversCohort
  <2>1. ModalTypeOK'
    BY DEF Inv, ModalTypeOK, Sealing
  <2>2. Sealing'
    BY DEF Inv, ModalTypeOK, Sealing, ResultOnDisk, PredictionFiles
  <2>3. Releasing'
    BY DEF Inv, ModalTypeOK, Releasing, ConfirmedMeansReleased,
       NothingStaysOpen
  <2>4. Paying'
    BY DEF Inv, Paying, PaidExactlyOnce, Paid, Plausible
  <2>5. PaidExactlyOnce'
    BY DEF Inv, ModalTypeOK, Paying, PaidExactlyOnce, Releasing, Plausible
  <2>6. BudgetKept'
    BY DEF Inv, BudgetKept
  <2> QED
    BY <2>1, <2>2, <2>3, <2>4, <2>5, <2>6 DEF Inv
<1>11. CASE RunFull
  <2> USE <1>11 DEF RunFull, CoversCohort
  <2>1. ModalTypeOK'
    BY DEF Inv, ModalTypeOK
  <2>2. Sealing'
    BY DEF Inv, ModalTypeOK, Sealing, ResultOnDisk, PredictionFiles
  <2>3. Releasing'
    BY DEF Inv, ModalTypeOK, Releasing, ConfirmedMeansReleased,
       NothingStaysOpen
  <2>4. Paying'
    BY DEF Inv, Paying, PaidExactlyOnce, Paid, Plausible
  <2>5. PaidExactlyOnce'
    BY DEF Inv, ModalTypeOK, Paying, PaidExactlyOnce, Releasing, Plausible
  <2>6. BudgetKept'
    BY DEF Inv, BudgetKept
  <2> QED
    BY <2>1, <2>2, <2>3, <2>4, <2>5, <2>6 DEF Inv
<1>12. CASE Seal
  <2> USE <1>12 DEF Seal
  <2>1. ModalTypeOK'
    BY DEF Inv, ModalTypeOK
  <2>2. Sealing'
    BY DEF Inv, ModalTypeOK, Sealing, ResultOnDisk, PredictionFiles
  <2>3. Releasing'
    BY DEF Inv, ModalTypeOK, Releasing, ConfirmedMeansReleased,
       NothingStaysOpen
  <2>4. Paying'
    BY DEF Inv, Paying, PaidExactlyOnce, Paid, Plausible
  <2>5. PaidExactlyOnce'
    BY DEF Inv, ModalTypeOK, Paying, PaidExactlyOnce, Releasing, Plausible
  <2>6. BudgetKept'
    BY DEF Inv, BudgetKept
  <2> QED
    BY <2>1, <2>2, <2>3, <2>4, <2>5, <2>6 DEF Inv
<1>13. CASE ExitApp
  <2> USE <1>13 DEF ExitApp
  <2>1. ModalTypeOK'
    BY DEF Inv, ModalTypeOK
  <2>2. Sealing'
    BY DEF Inv, ModalTypeOK, Sealing, ResultOnDisk, PredictionFiles
  <2>3. Releasing'
    BY DEF Inv, ModalTypeOK, Releasing, ConfirmedMeansReleased,
       NothingStaysOpen
  <2>4. Paying'
    BY DEF Inv, Paying, PaidExactlyOnce, Paid, Plausible
  <2>5. PaidExactlyOnce'
    BY DEF Inv, ModalTypeOK, Paying, PaidExactlyOnce, Releasing, Plausible
  <2>6. BudgetKept'
    BY DEF Inv, BudgetKept
  <2> QED
    BY <2>1, <2>2, <2>3, <2>4, <2>5, <2>6 DEF Inv
<1>14. CASE ExitVolume
  <2> USE <1>14 DEF ExitVolume, Outcome
  <2>1. ModalTypeOK'
    BY DEF Inv, ModalTypeOK
  <2>2. Sealing'
    BY DEF Inv, ModalTypeOK, Sealing, ResultOnDisk, PredictionFiles
  <2>3. Releasing'
    BY DEF Inv, ModalTypeOK, Releasing, ConfirmedMeansReleased,
       NothingStaysOpen
  <2>4. Paying'
    BY DEF Inv, Paying, PaidExactlyOnce, Paid, Plausible
  <2>5. PaidExactlyOnce'
    BY DEF Inv, Paying, PaidExactlyOnce, Paid, Plausible
  <2>6. BudgetKept'
    BY DEF Inv, BudgetKept
  <2> QED
    BY <2>1, <2>2, <2>3, <2>4, <2>5, <2>6 DEF Inv
<1> QED
  BY <1>1, <1>2, <1>3, <1>4, <1>5, <1>6, <1>7, <1>8, <1>9, <1>10, <1>11,
     <1>12, <1>13, <1>14 DEF Next

(* A run begins in the invariant.                                          *)
LEMMA InvInit == Init => Inv
<1> SUFFICES ASSUME Init
             PROVE  Inv
  OBVIOUS
<1> USE NoneAssumption DEF Init, PCs, Contexts, Outcomes
<1>1. ledger \in Amounts /\ ledger.duration = 0 /\ ledger.cost = 0
  BY DEF Amounts
<1>2. BudgetKept
  <2>1. \A m, u \in Nat : 0 <= m * u
    OBVIOUS
  <2> QED
    BY <1>1, <2>1, ModalAssumption DEF BudgetKept, WithinCeilings
<1>a. runs \in 0..MaxRuns
  BY ModalAssumption
<1>b. /\ before = ledger /\ pc = "idle" /\ task = None /\ call = 1
      /\ preflight = None /\ prediction = None
      /\ part = None /\ disk = None
      /\ volume = "none" /\ app = "none"
      /\ failure \in BOOLEAN /\ outcome = None
  OBVIOUS
<1>3. ModalTypeOK
  BY <1>1, <1>a, <1>b DEF ModalTypeOK
<1>4. Sealing /\ Releasing
  BY DEF Sealing, Releasing, ConfirmedMeansReleased, NothingStaysOpen
<1>5. Paying /\ PaidExactlyOnce
  BY DEF Paying, PaidExactlyOnce
<1> QED
  BY <1>2, <1>3, <1>4, <1>5 DEF Inv

(* The invariant holds throughout.                                         *)
LEMMA Invariant == Spec => []Inv
<1>1. Init => Inv
  BY InvInit
<1>2. Inv /\ [Next]_vars => Inv'
  BY InvStep
<1> QED
  BY <1>1, <1>2, PTL DEF Spec

-----------------------------------------------------------------------------
(* Type correctness: whatever a run has at hand is what its place needs.   *)
THEOREM ModalTypeCorrect == Spec => []ModalTypeOK
<1>1. Inv => ModalTypeOK
  BY DEF Inv
<1> QED
  BY Invariant, <1>1, PTL

(* The ledger never admits more than its ceilings.                         *)
THEOREM BudgetIsKept == Spec => []BudgetKept
<1>1. Inv => BudgetKept
  BY DEF Inv
<1> QED
  BY Invariant, <1>1, PTL

(* A full inference is paid for once and in advance, a refusal never.      *)
THEOREM EveryRunIsPaidOnce == Spec => []PaidExactlyOnce
<1>1. Inv => PaidExactlyOnce
  BY DEF Inv
<1> QED
  BY Invariant, <1>1, PTL

(* What is returned is on disk, verified, and reports the cohort's rows.   *)
THEOREM PredictionIsSealed == Spec => []ReturnsSealedPrediction
<1>1. Inv => ReturnsSealedPrediction
  BY DEF Inv, Sealing, ResultOnDisk, ReturnsSealedPrediction
<1> QED
  BY Invariant, <1>1, PTL

(* A result means that app and volume are gone.                            *)
THEOREM ReleaseIsConfirmed == Spec => []ConfirmedMeansReleased
<1>1. Inv => ConfirmedMeansReleased
  BY DEF Inv, Releasing
<1> QED
  BY Invariant, <1>1, PTL

(* Whatever fails, no context is left open behind an answer.               *)
THEOREM ContextsAreLeft == Spec => []NothingStaysOpen
<1>1. Inv => NothingStaysOpen
  BY DEF Inv, Releasing
<1> QED
  BY Invariant, <1>1, PTL

-----------------------------------------------------------------------------
(* A prediction that the session knows is whole, and so is the file on     *)
(* disk: Verify moves a partial file only when it equals the prediction.   *)
WholeInv ==
  /\ prediction # None => prediction.whole
  /\ disk # None => disk.whole

LEMMA WholeStep ==
  ASSUME Inv, WholeInv, [Next]_vars
  PROVE  WholeInv'
<1> USE DEF controlVars, fileVars, contextVars, resultVars, vars
<1>1. CASE UNCHANGED vars
  BY <1>1 DEF WholeInv
<1>2. CASE \E t \in Tasks : OpenVolume(t)
  BY <1>2 DEF OpenVolume, WholeInv
<1>3. CASE Infer
  <2>1. disk' = disk
    BY <1>3 DEF Infer
  <2>2. prediction' = prediction \/ prediction'.whole
    BY <1>3 DEF Infer
  <2> QED
    BY <2>1, <2>2 DEF WholeInv
<1>4. CASE Verify
  <2>1. prediction' = prediction /\ (disk' = disk \/ disk' = prediction)
    BY <1>4 DEF Verify
  <2>2. prediction # None
    BY <1>4 DEF Verify, Inv, ModalTypeOK
  <2> QED
    BY <2>1, <2>2 DEF WholeInv
<1>5. CASE StartApp \/ BuildFails \/ StageAssets \/ Download
  BY <1>5 DEF StartApp, BuildFails, StageAssets, Download, WholeInv
<1>6. CASE Admit \/ UsePreflight \/ RunFull \/ Seal
  BY <1>6 DEF Admit, UsePreflight, RunFull, Seal, WholeInv
<1>7. CASE ExitApp \/ ExitVolume
  BY <1>7 DEF ExitApp, ExitVolume, WholeInv
<1> QED
  BY <1>1, <1>2, <1>3, <1>4, <1>5, <1>6, <1>7 DEF Next

(* No file that fails its digest is ever at the place of the prediction,   *)
(* also not in a run that fails.                                           *)
THEOREM DiskIsVerified == Spec => []OnlyVerifiedOnDisk
<1>1. Init => WholeInv
  BY DEF Init, WholeInv
<1>2. Inv /\ WholeInv /\ [Next]_vars => WholeInv'
  BY WholeStep
<1>3. WholeInv => OnlyVerifiedOnDisk
  BY DEF WholeInv, OnlyVerifiedOnDisk
<1> QED
  BY Invariant, <1>1, <1>2, <1>3, PTL DEF Spec
=============================================================================
