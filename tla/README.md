# StructAgent in TLA+

StructAgent turns a business objective about the RelBench H&M data into a
reviewed prediction task.  A language model drafts a SQL query, a trusted
controller checks it and runs it in a private Daytona sandbox, reviewed tasks
are materialized into packages, a relational transformer predicts on Modal, and
a browser workspace walks the user through it.  This directory specifies the
parts of that program whose correctness depends on order: calls that overlap,
time out, fail half-way or arrive late.

## 1. The system

`P` stands for `src/apps/api/src/structagent_api/`.

| Component | State | Operations | Talks to | What is hard | What makes it correct |
|---|---|---|---|---|---|
| Sandbox executor of the compiler (`P/compiler/daytona.py`, `daytona_runner.py`) | `_sandbox`, `_staged`, `_closed`; the remote sandbox and its files | `validate`, `close`, the runner's `main` | called by the agent; calls the provider | `validate` runs on threads nothing can cancel, without a lock; creation, staging, execution and deletion each fail | SQL only in a private, staged sandbox; the sandbox deleted is the one used; recorded evidence is never replaced |
| Candidate cache and SQL policy (`P/compiler/sql.py`, `P/materialization/task_sql.py`) | attempted texts, artifacts by digest | `validate`, `validate_task_sql` | called by the agent's tools | texts are counted, artifacts are keyed by digest | the repair budget bounds what is executed; an artifact never changes |
| Task compiler agent and its routes (`P/compiler/agent.py`, `service.py`, `P/api.py`) | the run, its turns, timers, evidence, outcome | `_run`, its four tools, `_assemble`, `compile`, `clarify` | the model, the cache, the executor, the client | an untrusted model; four nested timeouts; cancellation; cleanup that may fail | a ready draft was tested in this run; every request is answered; no sandbox outlives an outcome |
| Browser workspace (`src/apps/web/app.js`, `workspace-state.js`) | the workspace, the objectives, `localStorage` | click handlers, answers, `render`, reload | the API routes | handlers keep an objective across an await while the user moves on; reloads | results stay with their objective; access follows the prerequisites; a reload loses nothing that was shown |
| Asset cache (`P/materialization/hm_assets.py`, `src/scripts/hm_data.py`) | pinned files and `.part` files | `stage_hm_assets`, `verify_hm_assets` | the download server; the compiler reads it | crashes, two stagers sharing one `.part` | only verified files are published |
| Daytona materialization (`P/materialization/daytona_executor.py`, `daytona_service.py`, `daytona_runner.py`) | one sandbox, output directories | `execute_daytona_materialization`, the runner's `main` | the provider, the route, the script `materialize_hm.py` | every step may fail, the deletion too; downloads may be damaged; the ttl ends a sandbox in use | private rows only in a private sandbox; an answer means verified artifacts and a deleted sandbox |
| Task materializer (`P/materialization/materializer.py`, `task_sql.py`, `parity.py`) | files of a package | `materialize_task`, `verify_materialization_parity` | DuckDB | failure after the first file; time windows | splits do not leak; a manifest is written last; parity leaves no error the reviewed labels do not bound |
| RT-J on Modal (`P/inference/modal_runner.py`, `modal_provider.py`) | session, ledger, prediction file | `run_modal_inference` | Modal, the worker | cost admission across runs, cleanup after any failure | no full run beyond the ceilings; the returned prediction is the file on disk |
| Evaluator and its batch (`P/inference/evaluator.py`, `smoke.py`, `artifacts.py`, `adapter.py`, `src/workers/rtj/runtime.py`, `src/scripts/run_rtj_modal.py`) | the package that is sent, the worker's tables, the file of predictions | `create_user_churn_smoke_materialization`, `run_task_inference`, `evaluate_predictions` | the Modal run, package and prediction files | ties; rows found again by position; a file that says more rows than it has; a package that is not the one that was sent | the truth stays local; metrics are those of their definitions; they exist exactly for whole, sealed batches |

They interact in one chain.  The workspace calls the routes; a draft request
starts one `_run`, which owns one candidate cache and one executor; the executor
owns at most one sandbox; the asset cache is read by the executor when it
stages.  A launch starts one materialization with a sandbox of its own.
A script starts a batch on a materialized package: it draws the smoke cohort, runs
it on Modal, where the worker predicts, and gives what comes back to the evaluator.

## 2. The modules

| Module | Models |
|---|---|
| `CompilerTypes` | task types, answers and evidence, shared by the compiler's modules |
| `EvidenceExecutor` | the executor, its worker threads, `close()` and the provider, with every timeout in minutes |
| `CandidateCache` | the cache, its budget, and the SQL policy as a relation of text and digest |
| `TaskCompiler` | one run: extends the two modules above by the agent loop, its tools, timers, decisions, cancellation and response |
| `CompileContract` | the abstract specification of a run, implemented by `TaskCompiler` |
| `Workspace` | the browser workspace |
| `AssetCache` | `stage_hm_assets`: processes that download the pinned files of one cache directory |
| `ModalRun` | `run_modal_inference` with the session of `modal_provider.py`: paid runs on one ledger |
| `LabelSplits` | the prediction times of a task and the labels of the two default tasks, as operators on a dataset |
| `Materialization` | `execute_daytona_materialization` under its two callers, with the runner in the sandbox: extends `LabelSplits` |
| `Metrics` | the metrics of the evaluator as exact ratios, and the definitions they are compared with |
| `Evaluation` | a batch: `LabelSplits` for the package, `ModalRun` for the controller (INSTANCE), `Metrics` for the verdict; the smoke cohort, the worker's joins and the evaluator's checks are its own |
| `TaskCompiler_proofs` (executor and cache included), `AssetCache_proofs`, `ModalRun_proofs`, `LabelSplits_proofs`, `Materialization_proofs`, `Metrics_proofs`, `Evaluation_proofs`, `Workspace_proofs` | theorems and proofs |
| `MC*` | instances for TLC |

How they correspond to the code:

* **Executor.**  Each `validate()` is a thread with a program counter
  (`ensure`, `creating`, `staging`, `submitting`, `passed`, `failed`, and within
  one `exec`, where the runner in the sandbox works, `executing`, `materializing` and
  `written`).  A step of the model ends where the code returns from a call to the
  provider, because there another thread or the event loop may run.  `remote`,
  `private`, `loaded`, `outputs` and `life` are the provider's side.  A creation
  that raises may have made a sandbox all the same, and a deletion that raises
  may have removed it.  The runner looks at its output directory once, before it
  opens the tables (`AdmitOutput`, `materializer.py:344-353`), writes after the
  labels are validated (`WriteLabels`, `:296-311`), and passes (`ExecutionPasses`).
  An abandoned execution and a retry of its digest can therefore both find the
  directory empty, both write and both pass.  That is so in the code and in the
  model; the promise is `EvidenceIsFinal`.
* **Cache.**  `validate_task_sql` is the constant function `Normalize` from
  texts to digests, `None` for texts the policy refuses; the walk over the
  syntax tree is not modelled.
* **Run.**  `run` is the place of the coroutine.  The model's turn picks any tool
  and any argument; its decision is any decision.  `_assemble` is the operator
  `Assemble`, with its checks in their order.  The executor's own discipline of
  use, "no new call while an earlier one may still be creating", is not enforced
  by any lock: it follows from the tool's timeout of 180 s outlasting the
  creation's timeout of 120 s.  `KeepsExecutorDiscipline` states and proves it.
* **Workspace.**  `ui` and `obj` are the state in memory, `shown` what the last
  successful `render()` put on the page and into `localStorage`.  Clicks are
  guarded by what is *shown* and act on what is *in memory*, as in the browser.  A
  call in flight is a record of the objective its handler keeps.  `render()`
  repairs the state first, and leaves page and storage untouched when building
  the page throws.
* **Asset cache.**  The disk is three functions: `dest` and `part` give the file
  at each path, `content` the chunks of the pinned content each file holds; a
  file is valid when it holds all of them.  Every call on the file system is a
  step of its own, so `exists()` and `unlink()`, verification and `os.replace`,
  and each chunk of a download can be separated by a kill or by another process.
  A handle keeps its file when the path goes elsewhere.  A verification reads
  the file in one step.
* **Modal.**  The controller is sequential, so its steps end where something may
  fail: entering and leaving the volume and the app, staging, an inference, a
  download, the comparison of digests, the admission.  `preflight` and
  `prediction` are what the code keeps between them.  A file of predictions is
  known by the call it came from, its rows, and whether it is whole.  The row
  count of a preflight is whatever the worker reports; a full run reports that of
  the cohort because the worker itself refuses anything else (`runtime.py:255`).
  Rows are those reported, which are the scores (`runtime.py:286`); the rows a file
  really holds are the subject of `Evaluation`.
  Amounts are rationals in the code; the model keeps them in `1/Unit`, so that
  dividing by any preflight's row count is exact.
* **Batch.**  `Evaluation` instantiates `ModalRun` with one run and adds to its
  steps what travels: entering the app writes `remote`, the task files on the
  volume; a successful inference draws `output`, any scores for so many different
  nodes, and writes `file` as the worker does it, by numbering the rows of its own
  test table and joining.  One position beyond the table stands for every node that
  is no test row.  `verdict` is what `evaluate_predictions` returns or why it
  refuses, the checks in their order, the ranges of the result's contract included;
  a digest is compared by equality of what it stands for, and `altered` names the one
  file that no longer has its digest.
  The script only ever evaluates with the package it sent; `Evaluate(source)` is the
  other caller, who still holds the package the cohort was drawn from.
* **Metrics.**  A score of a classification is a whole number of `Top`, a mean is a
  ratio, a root is kept as its square, so that nothing is rounded.  AUC is the
  code's sum of doubled average ranks, compared with counting the concordant pairs;
  average precision is its sum over groups of ties, compared with the mean over the
  positive rows; F1 is compared with the harmonic mean, R2 with the spread of all
  pairs.
* **Labels.**  Times are days.  A dataset is customers, articles and numbered
  purchases; `Between` is the SQL's `t_dat > a AND t_dat <= b`, `ChurnLabels` and
  `SalesLabels` are the two reviewed queries as sets of `<<time, key, target>>`,
  `TrainTimes` is `_timestamps` with its floor division.  `KnownBy(data, day)` is
  the dataset as it was on that day; leak-freedom is stated with it.
* **Materialization.**  Executions share neither sandbox nor directory, so one
  is modelled.  The executor is sequential and its steps are its calls to the
  provider; beside it run the runner in the sandbox, one file per step, and the
  provider's ttl, which may expire at any time (15 minutes, while one upload may
  take 30).  A digest is represented by the contents it stands for, `Damaged` by
  contents nothing else has.  A download yields the file as sent, damaged, or a
  manifest that still parses with one field altered (`Received`).  Parity joins the
  rows on their keys (`InParity`); binary targets must be the same, regression targets
  numbers no further apart than the code's tolerance, 1e-12 plus 1e-9 of the larger
  (`IsClose`; the constants are the two over `ToleranceUnit`).  Calls to the
  provider may raise at every place; Ctrl-C reaches only the script, since the
  service handles a request on a worker thread.  The script raises it through the
  `finally`, so a deletion is still tried.

## 3. What TLC checks

| Run | Instance | Question |
|---|---|---|
| `candidates` | 4 texts, 2 digests, a budget of 2, 4 turns | Can any model behaviour turn an untested query into a ready draft?  Does the run implement `CompileContract`? |
| `overlap` | 2 texts, 2 threads, a budget of 1 | With abandoned and late threads: is a sandbox left after an outcome, is the budget exceeded, is a sandbox reaped under a run, are two creations ever overlapped, does SQL run in an unstaged sandbox, is recorded evidence replaced, does a failed cleanup hide an error? |
| `liveness` | 1 text, 2 threads | Is every request answered although an upload may hang, and does every sandbox go, also one nobody deletes? |
| `workspace` | 2 objectives, 2 calls in flight, 4 calls in all | Do late answers and reloads mix up objectives, open locked views, lose what was shown, or wait for an answer that cannot come? |
| `assets` | 1 process, 2 pinned files of 2 chunks, 4 files on disk | Killed and started again anywhere, over a cache with damaged files: is anything but verified content published, does a partial file stay? |
| `modal` | 3 runs on one ledger, cohorts of 2 and 4 rows, a preflight of 2 | Do refusals, failures and failed cleanups keep the ledger right, and is a returned prediction the verified file, with as many rows reported as the cohort has, and nothing left open? |
| `materialize` | the service on the dataset of `create_synthetic_hm` for every list of tasks; the script on 7 pinned variants of it | With failure, damage, expiry and interrupt at every step: does an answer carry the sealed labels of a deleted, private sandbox, does a sandbox stay, do splits leak, does a parity check pass labels that differ by more than it may? |
| `evaluation` | the smoke cohort of 4 rows, a whole churn split of 3, a whole sales split of 2, a preflight of 2 | With any scores for any nodes, failures on the way and one altered file: does a target travel, is a metric ever another number than its definition gives, is a partial or altered batch ever scored, or a sound one refused? |
| `leak`, `sanitized`, `unsupported`, `assets_shared` | as above; the last with 2 processes | Four statements of the documentation that the code does not keep (section 6) |

Why the bounds are enough.  The executor has one handle, so two threads suffice
for every race on it; two digests tell a retry from another query.  The theorems
about it hold for any number of threads and digests.  In a run, a budget of
two with four texts gives a duplicate, a refusal by policy and a refusal by
budget.  `MaxTurns` replaces the 12 of the code: it bounds how many tool calls
happen, and four are enough for validate, execute, repair and decide.  In the
workspace, two objectives give the wrong one to land in, two requests give an
overtaking, and four calls are connect, compile, infer and one more.  In the
cache, two pinned files show what a loop leaves behind, two chunks a download
that ends half-way, and four files are one per path; the other process of
`assets_shared` needs nothing more.  On Modal, a unit of time is 2000 s, which
costs 1 USD at the code's rate, so that the gate of 23 and the ceilings of 25 and
28.8 (rounded down) keep their proportions: durations of 3, 4 and 8 give runs
that pass alone, pairs that pass or fail together, and one refused at the gate; 0
is the observation the controller rejects.  The duration's ceiling cannot bind
at that rate, in the code as in the model: 16 hours cost 28.80 USD.
In `evaluation` the preflight of 2 is smaller than the cohorts of 4 and 3 and as large
as that of 2, so that a prediction comes from the full run as well as from the
preflight; scores of 0, 2 and 4 out of 4 lie on both sides of the threshold and on
it, and give four rows every pattern of ties that three levels allow; the
theorems about the metrics hold for every sample.  The datasets
have a horizon of one day: one offers the balanced cohort and one is too small
for it, and in one of the two sales splits the targets are all equal.
In `materialize` the dataset is the code's own synthetic one (three purchases in each
of five weeks, one more that closes the test window, a horizon of 7 days, three
training windows); the pinned variants are that data with equal reviewed labels,
with labels that lack one row or tell of one article another amount, and two
truncations of the data.  With a unit of 10 and tolerances of 1 and 3 (the code:
10^12, 1 and 1000) the amount sold, 2, agrees with a reviewed 3 exactly at the
tolerance, and with 4 or none not at all; the theorem holds for any tolerances.  The
truncations are: without the purchase that closes the test window, and without the oldest
week of history.

Minutes are whole: 60 s, 120 s, 180 s and 300 s are 1, 2, 3 and 5, and the ttl is
15.  A call with a timeout must end before the clock passes it (`Minute`,
`ExecMinute`); uploads are given none
(the SDK's 30 minutes outlast the run), so the model lets them hang for ever.  A worker thread starts
within the minute in which it is handed its call; a saturated thread pool is
outside the model.

**Fairness** is assumed in `liveness` and `materialize`.  In `liveness`: of the clock and the timers, of the
event loop's own ready steps (`Respond`), of calls that have a timeout, of
`delete()`, and of the provider's ttl.  It is not assumed of uploads, of the
model's decisions or of staging, because nothing in the code ends those.  In
`materialize`: of the executor, since creating, refreshing, executing and deleting
have timeouts, an upload the SDK's, and the remaining calls on files fail at the
latest when the ttl has removed the sandbox; and of the ttl.  Not of the runner,
whose hanging the timeout of `exec` ends.

The type invariants of the modules with proofs (`ExecTypeOK`, `TypeOK`, `CacheTypeOK`,
`MatTypeOK`, `ModalTypeOK`, `EvaluationTypeOK`) are theorems and no run repeats them.
`WorkspaceTypeOK` is also checked, because it says more: that an objective is selected
whenever there are any.

Each property has a faulty variant of a definition beside the sound one
(comments "A faulty ..."): with the variant in place TLC finds the property
violated.

## 4. What is proved

TLAPS proves, for every number of threads, digests, texts, turns, files, chunks,
datasets, rows, objectives and calls in flight, each safety and action property that
a passing run checks:

* `TaskCompiler_proofs`, the executor: type correctness, `ExecutesOnlyStaged`,
  `ConfirmedMeansGone`, `HandleIsStable`.  None is inductive by
  itself.  The invariant `ExecInv` adds that creations do not overlap each other
  or an existing handle (`OneCreator`), that every thread's sandbox is the
  registered one and that a staged one is private and loaded (`OneHandle`), that
  the deletion works on the handle (`DeletesHandle`), and that whoever passed has
  left files in the sandbox of the handle (`PassedWrote`).
* `TaskCompiler_proofs`, the cache: the artifacts never exceed the budget.  The
  induction goes over the attempted texts: their digests are the image of the
  attempts, so they are no more than those.
* `TaskCompiler_proofs`, the run: type correctness, `KeepsExecutorDiscipline`,
  `ReadyIsTested`, `OutcomeLeavesNoSandbox`, `ExecutionsWithinBudget`,
  `EvidenceIsFinal`, `CleanupHidesNoError`, `ImplementsContract` and
  `NeverReapedMidRun`.  The central part of `RunInv`
  says that a thread that is still creating is the one the run awaits, and that
  its age is the time waited: when the tool gives up after 3 minutes no creation
  can be left, and so every step of a run is a step of `ExecSpec`, which carries
  the executor's invariant over.  With it, the rest follows: evidence belongs to
  a thread that passed, a closed executor with an outcome has seen its sandbox,
  and the life of a sandbox is bounded by the elapsed minutes of its run.  Recorded
  evidence stays because its pass left files in the only sandbox there is, so that a
  call made afterwards is refused when the runner looks (`RecordedStopsCall`); a call
  that was past that look when the evidence was recorded is one nobody awaits.  That
  a failed deletion hides no error holds of each step of the answer (`CleanupStep`).

* `AssetCache_proofs`: type correctness, `StagedMeansValid`, `LeavesNoPartial` and
  `PublishesAtomically`, all under `Alone`, that no second process stages into
  the cache: `assets_shared` shows that the last fails without it.  The invariant
  says that a process writes only to the file at its partial path
  (`WritesToPartial`), that partial paths share no file with each other or with
  a published path (`Separate`), that a partial file left by a killed process
  belongs to an asset that is still invalid, so that the next staging meets it
  (`PartialMeansInvalid`), and what the process knows at each place (`Knows`).

* `ModalRun_proofs`: type correctness, `BudgetKept`, `PaidExactlyOnce`,
  `ReturnsSealedPrediction`, `OnlyVerifiedOnDisk`, `ConfirmedMeansReleased` and
  `NothingStaysOpen`, for any cohorts, rates, ceilings and number of runs.  The invariant follows the
  prediction from the worker to the disk (`Sealing`), the contexts (`Releasing`)
  and the ledger relative to the beginning of the run (`Paying`: nothing is
  changed before the admission, and a result on its way has been paid for).  That
  what is on disk is whole needs only that what the session knows of is
  (`WholeInv`): a download is moved when it equals that.

* `LabelSplits_proofs`: labels at given times depend only on what is known when
  the last outcome window ends (`LabelsNeedNoLaterData`); with the schedule's
  arithmetic, `SplitsDoNotLeak`: training labels need nothing after the
  validation cutoff, validation labels nothing after the test cutoff, for every
  dataset, horizon and cutoffs that are a horizon apart.  `OutcomesCountOnce`: the
  outcome windows of two prediction times, of one split or of two, share no
  purchase, since the times of the schedule are a horizon apart (`TrainTimesApart`).
* `Materialization_proofs`: type correctness and every safety property of the run
  `materialize` (`DataStaysPrivate`, `NothingLeftBehind`, `LabelsIgnoreTheFuture`,
  `ManifestIsFinal`, `VerifiedIsIntact`, `AnswerIsSealed`, `ParityBoundsError`).
  `PrivateInv` and `EndInv` say what each place of the executor implies of the
  sandbox.  `RemoteInv` says that each file in the sandbox is what its
  predecessors and the data make it; only the runner writes, in its order.
  `LocalInv` says that files arrive after the runner is done, task by task, each
  one of those `Received` allows, and that all but the last task to arrive are
  checked; that an altered manifest is caught follows in `CheckedIsIntact`.
  `AnswerInv` carries the packages through the deletion to the answer.  What is
  compared for parity is what the sandbox wrote.  In a binary task parity is equality,
  because rows with the same keys on both sides and the same target for each key are
  the same rows (`ParityGivesEquality`).  In a regression task each row has its
  counterpart (`ParityGivesBounds`), and the larger of two amounts exceeds the reviewed
  one by the error at most, so that the reviewed amount alone bounds the error
  (`CloseIsBounded`): with the code's constants, to (1e-12 + 1e-9 * reviewed) /
  (1 - 1e-9).

* `Workspace_proofs`: type correctness, `ResultsStayAttached`,
  `LockedUntilConnected`, `InsightsNeedEvidence`, `RecordsSurvive` and
  `WaitingEnds`.  What a handler hands to `render()` need only be well formed
  (`GoodFields`, `GoodRecords`): the repair makes the rest true (`Reachable`), also
  after a late answer.  Since a click is guarded by the page and acts on the memory,
  and a reload brings the page back, the invariant holds of both, and `Together`
  says that they differ only over a brief that cannot be rendered, never in what
  they say of the connection.  A connection is asked for once at a time and only
  while there is none (`Connecting`).  `WaitingEnds` follows step by step: who
  sets a status to waiting sends a call, and an answer resets the status of the
  objective it was asked for.

* `Metrics_proofs`: the metrics of `evaluator.py` are those of their definitions for
  every finite sample, with any ties: `AucIsConcordance`, `AveragePrecisionIsMean`,
  `F1IsHarmonicMean`, `ExplainedShare`, `SpreadIsPairwise`; and they lie in the ranges
  that the contracts accept, with no denominator 0: `ClassificationInRange` when both
  classes are there, `RegressionInRange` when two labels differ and there are two
  training targets.  A sum over a set is a CHOOSE of a recursive function.  That
  the function exists, and each fact about sums and products (`SumRemove`,
  `SumLinear`, `SumUnion`, `SumGrouped`, `SumPairs`, ...), is shown by a minimal
  counterexample: among the subsets of a finite set on which the fact fails there
  is one with no smaller one (`MinimalSubset`), and taking out the element the sum
  begins with gives a smaller one.  For the AUC, twice the average rank of a
  positive row counts the rows below it twice and the ties once (`RankCounts`);
  added up, the pairs of positive rows cancel against `p * (p + 1)`
  (`OrderedPairs`) and those with negative rows are left.  `PrecisionIsExact` says
  that the integer division with which the model writes a precision leaves no
  remainder.
* `Evaluation_proofs`: `EvaluationTypeOK`, `TruthStaysHome`, `MetricsMatchDefinitions`
  and `ScoredExactlyWhenWhole`, for any datasets, cohorts, scores, prices and
  failures.  The invariant `BatchInv` is that of `ModalRun` (`Run!Inv`), carried over because
  every step of a batch is one of a run or leaves the run alone (`BatchIsARun`),
  with `Sending` (what is sent is the source or a balanced cohort of it, what is
  remote are its uploads) and `Predicting` (the file is what the worker makes of
  the model's scores and the table it was sent).  `TruthStaysHome`: the truth's rows
  have three columns and a time no other split has.  For the two others the proof
  follows a row: keys are totally ordered, so that the number of keys before one is its place in the
  sorted table (`TableByRank`; every place is taken, `RanksAreComplete`), the worker's
  file therefore holds for each covered key the score of its place
  (`FileByPosition`), and the evaluator's join of that file with the truth is what
  the model has said of each row (`JoinIsIntended`).  As many scores as rows cover
  the rows exactly when they are those of places 0 to n - 1 (`WholeIsCovered`).  Then
  the metrics theorems apply; both classes come from the split's checks or from
  the balance of the cohort, the training targets from the three windows that a
  materialization requires (`TrainTargets`).  `Published` adds that a verdict is the last step.

Assumptions: datasets have days, one of them first, and cutoffs a horizon apart
(`SourceAssumption`), those of a batch also finite tables of numbers
(`DatasetAssumption`); a cohort of the smoke test is even and not empty, and a
run is admitted for as many rows as the split it is given has, as the manifest
says (`BatchAssumption`, `TotalAssumption`); the horizon is positive; `None`
differs from error codes, threads, digests, answers, evidence, tasks,
observations, files, objectives and calls; reviewed labels have the three
columns of generated ones (`ReviewedAssumption`); the tolerances of parity and their
unit are natural numbers (`ToleranceAssumption`); every preflight's row count
divides `Unit`; the set of texts is finite; `Normalize` maps texts to digests or
`None`; `MaxTurns` and `MaxCandidates` are natural numbers. TLC evaluates them
in the runs.

Only model-checked: the liveness properties of `TaskCompiler` and the two of
`Materialization`; fairness and ENABLED are out of TLAPS's reach.

## 5. What is not modelled, and why

* The syntax-tree walk of `validate_task_sql`, and what DuckDB computes for a
  drafted query: data for the properties here, and out of TLC's reach.
* In the compiler's sandbox: the bytes of a file that two runners of one digest
  write at the same time.  A read that fails on them is among the reasons of
  `ExecutionFails`; the labels of one digest are the same in both.
* In the materialization: null and non-finite targets of generated labels (a reviewed
  target may be none), the rounding of the tolerance and of the two targets to double
  precision, the row limit, the lockdown
  of DuckDB, custom SQL, the local mode of the script, and the fields of a
  manifest that nothing checks or returns.  `package_sha256` is not recomputed by
  the code, nor in the model: an altered row count can reach an answer.
* `auto_stop_interval`: an idle sandbox stops after 5 minutes; it can only end a
  hanging upload earlier.
* The thread pool's size, and the second `create()` that a delayed worker thread
  could start (see section 3).
* Rounding.  The metrics are exact here and floating point numbers in the code, and
  this makes a difference that was found by hand: `_average_precision` adds up one
  term for each group of ties, and for a perfect ranking of 9 positive rows without
  ties (also of 11, 18, 20, 21, 25 and others) its sum is 1.0000000000000002.
  `ClassificationMetrics` refuses it (`le=1`, `contracts/models.py:607`), so that such
  a batch ends in a validation error although `ClassificationInRange` bounds the
  exact value by 1.  TLC's integers cannot hold the 53 bits this takes.
* In a batch: log loss, since logarithms have no exact ratios; how the model computes
  a score, the sigmoid and the rescaling of its outputs, and the node offset, so
  that a position is the node's; the database files on the volume, among them the
  purchases of the test window: that the model does not look at them is the model's
  own time filter; files that change before the cohort is drawn, whose digests
  the smoke does not compare; and the check that evaluates a reviewed task only.
  `build_upload_inventory` (`payload.py`) and the simulated adapter are not on the
  path of the program.
* On Modal: the image, the alignment digests of a prediction
  (they are copied from the request they are compared with), and an interrupt
  between the creation of the session and its `try`.
* In the cache: the check of the destination's path, network details, and the
  type of the exception a staging ends with.
* In the workspace: run numbers, counters, filters, titles, chat and
  strategy selections, formatting, and which task (rather than which objective)
  a package was made for.
* Simulated inference, fixtures, schema export, settings, styles, animations and
  the presentation: pure data or rendering.

## 6. Where the code and its documents disagree

* `leak`: a run that times out while `create()` is still on its thread finds
  `_sandbox` empty in `close()` and answers; the sandbox appears afterwards, is
  staged, and lives until its ttl.  The class promises synchronous deletion.
* `sanitized`: missing asset files raise `AssetStagingError` before the `try` of
  `_run`, and the route answers a plain 500.
* `unsupported`: an inference answer confirms an objective that the user has
  meanwhile moved to an outcome the data cannot back.  The same late answer during
  a new compilation leaves a confirmed objective without a draft, and rendering
  its brief throws (`app.js:303`).
* `assets_shared`: two stagings of one cache download to the same `.part`; the
  second truncates what the first has verified and is about to publish.

## 7. Plan

1. Workspace: which task a package belongs to, and which prompt a draft answers.
2. Compiler: a thread pool of bounded size in front of the executor.
