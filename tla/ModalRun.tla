------------------------------ MODULE ModalRun ------------------------------
(***************************************************************************)
(* run_modal_inference (inference/modal_runner.py) with the session of     *)
(* inference/modal_provider.py: paid runs of RT-J, one after the other,    *)
(* that share a ledger.  A run opens an ephemeral volume and app, stages   *)
(* the assets, times a preflight, asks the ledger for the projected cost   *)
(* of the full cohort, runs that, seals the prediction and cleans up.      *)
(*                                                                         *)
(* Amounts are kept in 1/Unit: projections are then whole numbers.         *)
(***************************************************************************)
EXTENDS Integers

CONSTANTS Tasks,
          Total,          (* rows of the test cohort of each task          *)
          PreflightRows,
          Durations,      (* how long a call may take                      *)
          Rate,           (* cost of one unit of time                      *)
          CostGate,       (* PROJECTED_COST_GATE_USD, of one run           *)
          MaxCost,        (* MAX_COMBINED_COST_USD                         *)
          MaxDuration,    (* MAX_COMBINED_DURATION_SECONDS                 *)
          Unit,
          MaxRuns,        (* bound: runs on one ledger                     *)
          None

ASSUME ModalAssumption ==
  /\ Total \in [Tasks -> Nat \ {0}]
  /\ PreflightRows \in Nat \ {0}
  /\ Durations \subseteq Nat
  /\ {Rate, CostGate, MaxCost, MaxDuration, MaxRuns} \subseteq Nat
  /\ Unit \in Nat \ {0}
  /\ \A n \in 1..PreflightRows : Unit % (2 * n) = 0

VARIABLES
  ledger,      \* the duration and the cost admitted so far
  before,      \* the ledger when the run began
  runs,        \* how many runs have begun
  pc,          \* where the controller is
  task,        \* the task of the run, or None
  call,        \* which inference of the run: 1 is the preflight, 2 the full one
  preflight,   \* what the preflight has observed
  prediction,  \* the prediction to return, or None
  part, disk,  \* the files predictions.parquet.part and predictions.parquet
  volume, app, \* the contexts of the session
  failure,     \* is an exception kept for after the cleanup
  outcome      \* what the run gave its caller

controlVars == <<before, runs, task>>
fileVars    == <<part, disk>>
contextVars == <<volume, app>>
resultVars  == <<preflight, prediction>>
vars == <<ledger, controlVars, pc, call, resultVars, fileVars, contextVars,
          failure, outcome>>

Contexts == {"none", "open", "closed", "stuck"}
PCs == {"idle", "build", "stage", "infer", "download", "verify", "admit",
        "choose", "seal", "exit_app", "exit_volume"}

Amounts == [duration : Nat, cost : Nat]

(* What an inference observes, and a file with its predictions.            *)
Observations == [rows : Nat, duration : Durations]
PredictionFiles == [call : {1, 2}, rows : Nat, whole : BOOLEAN]

Outcomes == {"done", "error", "cleanup"}

ASSUME NoneAssumption ==
  /\ None \notin Tasks /\ None \notin Outcomes
  /\ None \notin Observations /\ None \notin PredictionFiles

Limit(t) == IF PreflightRows < Total[t] THEN PreflightRows ELSE Total[t]

(* duration * total / rows * 1.5, and its cost.                            *)
ProjectedDuration(obs, t) ==
  obs.duration * Total[t] * 3 * (Unit \div (2 * obs.rows))

Projection(obs, t) ==
  [duration |-> ProjectedDuration(obs, t),
   cost     |-> ProjectedDuration(obs, t) * Rate]

Plus(a, b) == [duration |-> a.duration + b.duration, cost |-> a.cost + b.cost]

WithinCeilings(amount) ==
  amount.duration <= MaxDuration * Unit /\ amount.cost <= MaxCost * Unit

Init ==
  /\ ledger = [duration |-> 0, cost |-> 0]
  /\ before = ledger
  /\ runs = 0
  /\ pc = "idle"
  /\ task = None
  /\ call = 1
  /\ preflight = None /\ prediction = None
  /\ part = None /\ disk = None
  /\ volume = "none" /\ app = "none"
  /\ failure = FALSE
  /\ outcome = None

-----------------------------------------------------------------------------
(* The session.                                                            *)

(* A run begins with fresh directories and opens its volume.               *)
OpenVolume(t) ==
  /\ pc = "idle" /\ runs < MaxRuns
  /\ runs' = runs + 1 /\ before' = ledger /\ task' = t
  /\ call' = 1
  /\ preflight' = None /\ prediction' = None
  /\ part' = None /\ disk' = None
  /\ failure' = FALSE /\ app' = "none"
  /\ \/ volume' = "open" /\ pc' = "build" /\ outcome' = None
     \/ volume' = "none" /\ pc' = "idle" /\ outcome' = "error"
  /\ UNCHANGED ledger

(* The upload and the start of the app.                                    *)
StartApp ==
  /\ pc = "build"
  /\ app' = "open" /\ pc' = "stage"
  /\ UNCHANGED <<ledger, controlVars, call, resultVars, fileVars, volume,
                 failure, outcome>>

(* One of them raises: the constructor leaves the volume, which may fail.  *)
BuildFails ==
  /\ pc = "build"
  /\ volume' \in {"closed", "stuck"}
  /\ pc' = "idle" /\ outcome' = "error"
  /\ UNCHANGED <<ledger, controlVars, call, resultVars, fileVars, app,
                 failure>>

(* An exception in the body of the run.                                    *)
Fail == failure' = TRUE /\ pc' = "exit_app"

StageAssets ==
  /\ pc = "stage"
  /\ \/ pc' = "infer" /\ UNCHANGED failure
     \/ Fail
  /\ UNCHANGED <<ledger, controlVars, call, resultVars, fileVars, contextVars,
                 outcome>>

(* The rows a worker may report: it checks those of a full run itself.     *)
Reported == IF call = 1 THEN 0..Total[task] ELSE {Total[task]}

Infer ==
  /\ pc = "infer"
  /\ \/ Fail /\ UNCHANGED resultVars
     \/ \E n \in Reported, d \in Durations :
          /\ preflight' = IF call = 1 THEN [rows |-> n, duration |-> d]
                                      ELSE preflight
          /\ prediction' = [call |-> call, rows |-> n, whole |-> TRUE]
          /\ pc' = "download" /\ UNCHANGED failure
  /\ UNCHANGED <<ledger, controlVars, call, fileVars, contextVars, outcome>>

(* The partial file receives all of the prediction, or not; a download     *)
(* that raises leaves it where it is.                                      *)
Download ==
  /\ pc = "download"
  /\ \E whole \in BOOLEAN : part' = [prediction EXCEPT !.whole = whole]
  /\ \/ pc' = "verify" /\ UNCHANGED failure
     \/ Fail
  /\ UNCHANGED <<ledger, controlVars, call, resultVars, disk, contextVars,
                 outcome>>

AfterCall == IF call = 1 THEN "admit" ELSE "seal"

(* A faulty order: the file is in place before its digest is compared.     *)
ReplaceThenVerify ==
  /\ pc = "verify"
  /\ disk' = part /\ part' = None
  /\ IF part = prediction THEN pc' = AfterCall /\ UNCHANGED failure ELSE Fail
  /\ UNCHANGED <<ledger, controlVars, call, resultVars, contextVars, outcome>>

Verify ==
  /\ pc = "verify"
  /\ IF part = prediction
       THEN disk' = part /\ pc' = AfterCall /\ UNCHANGED failure
       ELSE Fail /\ UNCHANGED disk
  /\ part' = None
  /\ UNCHANGED <<ledger, controlVars, call, resultVars, contextVars, outcome>>

-----------------------------------------------------------------------------
(* The controller.                                                         *)

Plausible == preflight.rows \in 1..Limit(task) /\ preflight.duration > 0

(* A faulty gate that looks at each run by itself.                         *)
AffordableAlone(amount) ==
  amount.cost <= CostGate * Unit /\ WithinCeilings(amount)

Affordable(amount) ==
  amount.cost <= CostGate * Unit /\ WithinCeilings(Plus(ledger, amount))

(* A faulty admission that enters the duration before it checks the cost.  *)
AdmitEagerly ==
  /\ pc = "admit"
  /\ IF Plausible
       THEN LET amount == Projection(preflight, task) IN
            IF Affordable(amount)
              THEN /\ ledger' = Plus(ledger, amount)
                   /\ pc' = "choose" /\ UNCHANGED failure
              ELSE /\ ledger' = [ledger EXCEPT !.duration =
                                   @ + amount.duration]
                   /\ Fail
       ELSE Fail /\ UNCHANGED ledger
  /\ UNCHANGED <<controlVars, call, resultVars, fileVars, contextVars, outcome>>

Admit ==
  /\ pc = "admit"
  /\ IF Plausible /\ Affordable(Projection(preflight, task))
       THEN /\ ledger' = Plus(ledger, Projection(preflight, task))
            /\ pc' = "choose" /\ UNCHANGED failure
       ELSE Fail /\ UNCHANGED ledger
  /\ UNCHANGED <<controlVars, call, resultVars, fileVars, contextVars, outcome>>

(* A faulty comparison: the preflight covered what was asked of it.        *)
CoversLimit == preflight.rows = Limit(task)

CoversCohort == preflight.rows = Total[task]

(* The prediction of a preflight that covers the cohort is the result.     *)
UsePreflight ==
  /\ pc = "choose" /\ CoversCohort
  /\ pc' = "seal"
  /\ UNCHANGED <<ledger, controlVars, call, resultVars, fileVars, contextVars,
                 failure, outcome>>

RunFull ==
  /\ pc = "choose" /\ ~CoversCohort
  /\ call' = 2 /\ pc' = "infer"
  /\ UNCHANGED <<ledger, controlVars, resultVars, fileVars, contextVars,
                 failure, outcome>>

(* The result is built; its digests are those of the request it came from. *)
Seal ==
  /\ pc = "seal"
  /\ pc' = "exit_app"
  /\ UNCHANGED <<ledger, controlVars, call, resultVars, fileVars, contextVars,
                 failure, outcome>>

-----------------------------------------------------------------------------
(* The cleanup, after success and failure alike.                           *)

(* A faulty cleanup that gives up when the app cannot be left.             *)
ExitAppOrRaise ==
  /\ pc = "exit_app"
  /\ \/ app' = "closed" /\ pc' = "exit_volume" /\ UNCHANGED outcome
     \/ app' = "stuck" /\ pc' = "idle" /\ outcome' = "cleanup"
  /\ UNCHANGED <<ledger, controlVars, call, resultVars, fileVars, volume,
                 failure>>

ExitApp ==
  /\ pc = "exit_app"
  /\ app' \in {"closed", "stuck"} /\ pc' = "exit_volume"
  /\ UNCHANGED <<ledger, controlVars, call, resultVars, fileVars, volume,
                 failure, outcome>>

(* A faulty end that forgets the error of the app.                         *)
ForgetfulOutcome ==
  IF volume' = "stuck" THEN "cleanup" ELSE IF failure THEN "error" ELSE "done"

(* A failed cleanup takes the place of result and failure.                 *)
Outcome ==
  IF "stuck" \in {volume', app}
    THEN "cleanup" ELSE IF failure THEN "error" ELSE "done"

ExitVolume ==
  /\ pc = "exit_volume"
  /\ volume' \in {"closed", "stuck"}
  /\ outcome' = Outcome
  /\ pc' = "idle"
  /\ UNCHANGED <<ledger, controlVars, call, resultVars, fileVars, app, failure>>

Next ==
  \/ \E t \in Tasks : OpenVolume(t)
  \/ StartApp \/ BuildFails \/ StageAssets
  \/ Infer \/ Download \/ Verify
  \/ Admit \/ UsePreflight \/ RunFull \/ Seal
  \/ ExitApp \/ ExitVolume

Spec == Init /\ [][Next]_vars

-----------------------------------------------------------------------------
ModalTypeOK ==
  /\ ledger \in Amounts /\ before \in Amounts
  /\ runs \in 0..MaxRuns
  /\ pc \in PCs
  /\ task \in Tasks \cup {None} /\ (pc # "idle" => task # None)
  /\ call \in {1, 2}
  /\ preflight \in Observations \cup {None}
  /\ (pc \in {"admit", "choose"} \/ call = 2) => preflight # None
  /\ prediction \in PredictionFiles \cup {None}
  /\ pc \in {"download", "verify", "seal"} => prediction # None
  /\ part \in PredictionFiles \cup {None}
  /\ disk \in PredictionFiles \cup {None}
  /\ volume \in Contexts /\ app \in Contexts
  /\ failure \in BOOLEAN
  /\ outcome \in Outcomes \cup {None}

(* "fails closed if the combined projection exceeds 16 hours or USD 25"    *)
(* (docs/rtj-modal.md:35): whatever runs shared a ledger and however they  *)
(* ended, what it has admitted stays within the ceilings.                  *)
BudgetKept == WithinCeilings(ledger)

(* A run pays for its full inference once, all of it, and before it starts *)
(* (_admit); a run that was refused or failed earlier pays nothing.        *)
PaidExactlyOnce ==
  \/ ledger = before /\ call = 1 /\ pc \notin {"choose", "seal"}
     /\ outcome # "done"
  \/ /\ preflight # None /\ Plausible
     /\ ledger = Plus(before, Projection(preflight, task))

(* A prediction that is returned is the file on disk, whole, and reports   *)
(* as many rows as the cohort has (runtime.py:286 counts the scores, not   *)
(* the rows it wrote: see Evaluation); it may come from the preflight or   *)
(* from the full inference.                                                *)
ReturnsSealedPrediction ==
  outcome = "done" =>
    prediction # None /\ disk = prediction /\ prediction.rows = Total[task]

(* predictions.parquet never holds a file that fails its digest            *)
(* (modal_provider.py:330-336), also not in a run that fails.              *)
OnlyVerifiedOnDisk == disk # None => disk.whole

(* cleanup_confirmed is a constant of every result (modal_runner.py:247):  *)
(* it is true because no result is returned unless app and volume are gone.*)
ConfirmedMeansReleased ==
  outcome = "done" => volume = "closed" /\ app = "closed"

(* Whatever fails, both contexts are left before the caller has an answer. *)
NothingStaysOpen == pc = "idle" => volume # "open" /\ app # "open"
=============================================================================
