-------------------------- MODULE Materialization --------------------------
(***************************************************************************)
(* One materialization of default tasks in a Daytona sandbox:              *)
(* execute_daytona_materialization (materialization/daytona_executor.py)   *)
(* under its two callers, the HTTP service (daytona_service.py) and the    *)
(* private run of scripts/materialize_hm.py, with the runner that works    *)
(* in the sandbox (daytona_runner.py, materializer.py).                    *)
(*                                                                         *)
(* Executions share neither a sandbox nor a directory, so one is enough.   *)
(* The digest of a file is represented by what the file contains.          *)
(***************************************************************************)
EXTENDS LabelSplits, Sequences

CONSTANTS SyntheticData,  (* [data, cutoffs] of create_synthetic_hm        *)
          PinnedData,     (* the [data, cutoffs, reviewed] of private runs,*)
                          (* with the label artifacts to compare with      *)
          ToleranceUnit,     (* regression targets may differ by           *)
          AbsoluteTolerance, (* (AbsoluteTolerance + RelativeTolerance     *)
          RelativeTolerance, (* * the larger one) / ToleranceUnit          *)
          None, Absent, Damaged

Sources == {SyntheticData} \cup PinnedData

ASSUME SourceAssumption ==
  \A s \in Sources :
    /\ IsDataset(s.data)
    /\ s.cutoffs.validation \in Int /\ s.cutoffs.test \in Int
    /\ s.cutoffs.validation + Horizon <= s.cutoffs.test

(* Reviewed labels have the three columns of the generated ones.           *)
ASSUME ReviewedAssumption ==
  \A s \in PinnedData, t \in TaskIds, split \in Splits :
    \A row \in s.reviewed[t][split] : row = <<row[1], row[2], row[3]>>

(* The code has 1e-12 and 1e-9: 1 and 1000 with a unit of 10^12.           *)
ASSUME ToleranceAssumption ==
  /\ ToleranceUnit \in Nat /\ AbsoluteTolerance \in Nat
  /\ RelativeTolerance \in Nat

VARIABLES
  kind,       \* who asks: the HTTP service, or the private live run
  source,     \* the dataset, its cutoffs and reviewed labels
  tasks,      \* the tasks asked for, in order
  pc,         \* where the executor or its caller is
  error,      \* the error raised, or None
  root,       \* does the directory of this execution exist
  local,      \* the downloaded files in it
  verified,   \* the manifests of the tasks whose files were verified
  answer,     \* what the caller returns, or None
  sandbox,    \* the sandbox at the provider
  shielded,   \* is it private and cut off from the network
  canary,     \* did the canary query run in it
  inputs,     \* what was uploaded to it
  runner,     \* the process in it that materializes the tasks
  remote,     \* the files it wrote
  evidence    \* its last output line: the packages, or None

requestVars == <<kind, source, tasks>>
callerVars  == <<root, answer>>
localVars   == <<local, verified>>
sandboxVars == <<sandbox, shielded>>
insideVars  == <<canary, inputs>>
runnerVars  == <<runner, remote, evidence>>
vars == <<requestVars, pc, error, callerVars, localVars, sandboxVars,
          insideVars, runnerVars>>

UploadOrder == <<"sources", "article", "customer", "transactions", "request">>

(* A faulty order that writes the manifest before the file without target. *)
ManifestTooEarly == <<"train", "validation", "test-truth", "manifest", "test">>
WriteOrder == <<"train", "validation", "test-truth", "test", "manifest">>
DownloadOrder == <<"manifest", "test-truth", "test", "train", "validation">>
Files == {"train", "validation", "test-truth", "test", "manifest"}
Artifacts == Files \ {"manifest"}

NoFiles == [t \in TaskIds |-> [f \in Files |-> Absent]]

AreDirectories(dirs) ==
  dirs = [t \in TaskIds |-> [f \in Files |-> dirs[t][f]]]

Complete(dir) == \A f \in Files : dir[f] # Absent

Asked == {tasks[i] : i \in 1..Len(tasks)}

(* f is the next file of a directory, t the first task that lacks files.   *)
IsNext(f, order, dir) ==
  \E i \in 1..Len(order) :
    /\ order[i] = f /\ dir[f] = Absent
    /\ \A j \in 1..(i - 1) : dir[order[j]] # Absent

IsPending(t, dirs) ==
  \E i \in 1..Len(tasks) :
    /\ tasks[i] = t /\ ~Complete(dirs[t])
    /\ \A j \in 1..(i - 1) : Complete(dirs[tasks[j]])

TaskLists == {<<"churn">>, <<"sales">>, <<"churn", "sales">>,
              <<"sales", "churn">>}

-----------------------------------------------------------------------------
(* The callers up to the executor's refusals.  A run root is new, so none  *)
(* of the output directories exists.                                       *)

Init ==
  /\ kind \in {"service", "live"}
  /\ CASE kind = "service" ->
            /\ source = SyntheticData
            /\ tasks \in TaskLists
       [] kind = "live" ->
            /\ source \in PinnedData
            /\ tasks = <<"churn", "sales">>
  /\ pc = "begin"
  /\ error = None
  /\ root = FALSE /\ answer = None
  /\ local = NoFiles /\ verified = [t \in TaskIds |-> None]
  /\ sandbox = "none" /\ shielded = FALSE
  /\ canary = FALSE /\ inputs = {}
  /\ runner = "off" /\ remote = NoFiles /\ evidence = None

(* No credential, no approval of the transfer, or an invalid asset cache.  *)
Refuse ==
  /\ pc = "begin"
  /\ error' \in IF kind = "service" THEN {"missing_credential"}
                ELSE {"missing_credential", "approval_required", "asset_integrity"}
  /\ pc' = "ended"
  /\ UNCHANGED <<requestVars, callerVars, localVars, sandboxVars, insideVars,
                 runnerVars>>

Begin ==
  /\ pc = "begin"
  /\ root' = TRUE
  /\ pc' = "create"
  /\ UNCHANGED <<requestVars, error, answer, localVars, sandboxVars,
                 insideVars, runnerVars>>

-----------------------------------------------------------------------------
(* execute_daytona_materialization.                                        *)

CreateSandbox ==
  /\ pc = "create"
  /\ sandbox' = "live"
  /\ shielded' \in BOOLEAN
  /\ pc' = "policy"
  /\ UNCHANGED <<requestVars, error, callerVars, localVars, insideVars,
                 runnerVars>>

(* create raises, at the latest after 180 s; the provider may have made    *)
(* the sandbox all the same, and no handle of it was returned.             *)
CreateFails ==
  /\ pc = "create"
  /\ error' = "sandbox_create"
  /\ sandbox' \in {"none", "live"}
  /\ pc' = "leave"
  /\ UNCHANGED <<requestVars, callerVars, localVars, shielded, insideVars,
                 runnerVars>>

(* The steps of the try block go on to the next place or raise.            *)
TryPlaces == {"policy", "prepare", "upload", "submit", "wait", "evidence",
              "fetch", "verify", "compare"}

RaiseIn(place, code) ==
  /\ pc = place
  /\ error' = code
  /\ pc' = "delete"
  /\ UNCHANGED <<requestVars, callerVars, sandboxVars, insideVars, runnerVars>>

(* A faulty check that is content with a sandbox of any policy.            *)
ConfirmAnyPolicy ==
  /\ pc = "policy"
  /\ sandbox = "live"
  /\ pc' = "prepare"
  /\ UNCHANGED <<requestVars, error, callerVars, localVars, sandboxVars,
                 insideVars, runnerVars>>

ConfirmPolicy ==
  /\ pc = "policy"
  /\ sandbox = "live"
  /\ shielded
  /\ pc' = "prepare"
  /\ UNCHANGED <<requestVars, error, callerVars, localVars, sandboxVars,
                 insideVars, runnerVars>>

RefusePolicy ==
  /\ sandbox = "live" /\ ~shielded
  /\ RaiseIn("policy", "sandbox_policy")
  /\ UNCHANGED localVars

RunCanary ==
  /\ pc = "prepare"
  /\ sandbox = "live"
  /\ canary' = TRUE
  /\ pc' = "upload"
  /\ UNCHANGED <<requestVars, error, callerVars, localVars, sandboxVars,
                 inputs, runnerVars>>

CanaryFails ==
  /\ sandbox = "live"
  /\ RaiseIn("prepare", "sandbox_canary")
  /\ UNCHANGED localVars

(* The sources, the tables, and the request last.                          *)
Upload ==
  /\ pc = "upload"
  /\ sandbox = "live"
  /\ \E i \in 1..Len(UploadOrder) :
       /\ inputs = {UploadOrder[j] : j \in 1..(i - 1)}
       /\ inputs' = inputs \cup {UploadOrder[i]}
       /\ pc' = IF i = Len(UploadOrder) THEN "submit" ELSE "upload"
  /\ UNCHANGED <<requestVars, error, callerVars, localVars, sandboxVars,
                 canary, runnerVars>>

SourceMissing ==
  /\ RaiseIn("upload", "runner_source")
  /\ UNCHANGED localVars

Submit ==
  /\ pc = "submit"
  /\ sandbox = "live"
  /\ runner' = "running"
  /\ pc' = "wait"
  /\ UNCHANGED <<requestVars, error, callerVars, localVars, sandboxVars,
                 insideVars, remote, evidence>>

ExecReturns ==
  /\ pc = "wait"
  /\ sandbox = "live"
  /\ runner = "done"
  /\ pc' = "evidence"
  /\ UNCHANGED <<requestVars, error, callerVars, localVars, sandboxVars,
                 insideVars, runnerVars>>

ExecExits ==
  /\ sandbox = "live"
  /\ runner = "failed"
  /\ RaiseIn("wait", "sandbox_execution")
  /\ UNCHANGED localVars

(* The last output line is the runner's and names the tasks asked for.     *)
AcceptEvidence ==
  /\ pc = "evidence"
  /\ evidence # None
  /\ DOMAIN evidence = Asked
  /\ pc' = "fetch"
  /\ UNCHANGED <<requestVars, error, callerVars, localVars, sandboxVars,
                 insideVars, runnerVars>>

(* It was lost or cut off on its way.                                      *)
EvidenceUnusable ==
  /\ RaiseIn("evidence", "sandbox_execution")
  /\ UNCHANGED localVars

(* A download returns what the sandbox holds, or something else: a file    *)
(* with other bytes, or a manifest that still parses with another task,    *)
(* digest, package or row count.  Absent is no file's digest.              *)
Received(t, f) ==
  LET sent == remote[t][f]
  IN  {sent, Damaged} \cup
      IF f # "manifest" THEN {}
      ELSE {[sent EXCEPT !.refs[g] = Absent] : g \in Artifacts}
           \cup {[sent EXCEPT !.task = u] : u \in TaskIds}
           \cup {[sent EXCEPT !.package = None],
                 [sent EXCEPT !.rows.train = @ + 1]}

Download ==
  /\ pc = "fetch"
  /\ sandbox = "live"
  /\ \E t \in Asked, f \in Files :
       /\ IsPending(t, local) /\ IsNext(f, DownloadOrder, local[t])
       /\ \E bytes \in Received(t, f) : local' = [local EXCEPT ![t][f] = bytes]
       /\ pc' = IF Complete(local'[t]) THEN "verify" ELSE "fetch"
  /\ UNCHANGED <<requestVars, error, callerVars, verified, sandboxVars,
                 insideVars, runnerVars>>

NothingToDownload ==
  /\ sandbox = "live"
  /\ RaiseIn("fetch", "artifact_download")
  /\ UNCHANGED localVars

(* The files of t arrived last.                                            *)
Arrived(t) ==
  \E i \in 1..Len(tasks) :
    /\ tasks[i] = t /\ Complete(local[t])
    /\ \A j \in (i + 1)..Len(tasks) : ~Complete(local[tasks[j]])

Parses(t)    == local[t]["manifest"] # Damaged /\ local[t]["manifest"].task = t
(* A faulty verification that forgets the sealed truth.                    *)
UndamagedInput(t) ==
  \A f \in Artifacts \ {"test-truth"} :
    local[t][f] = local[t]["manifest"].refs[f]

Undamaged(t) == \A f \in Artifacts : local[t][f] = local[t]["manifest"].refs[f]

VerifyTask ==
  /\ pc = "verify"
  /\ \E t \in Asked :
       /\ Arrived(t) /\ Parses(t) /\ Undamaged(t)
       /\ verified' = [verified EXCEPT ![t] = local[t]["manifest"]]
  /\ pc' = IF \A t \in Asked : Complete(local[t]) THEN "compare" ELSE "fetch"
  /\ UNCHANGED <<requestVars, error, callerVars, local, sandboxVars,
                 insideVars, runnerVars>>

RefuseManifest ==
  /\ pc = "verify"
  /\ \E t \in Asked : Arrived(t) /\ ~Parses(t)
  /\ RaiseIn("verify", "artifact_manifest")
  /\ UNCHANGED localVars

RefuseArtifact ==
  /\ pc = "verify"
  /\ \E t \in Asked : Arrived(t) /\ Parses(t) /\ ~Undamaged(t)
  /\ RaiseIn("verify", "artifact_integrity")
  /\ UNCHANGED localVars

(* A faulty comparison of which tasks were packed only.                    *)
TasksAgree == \A t \in Asked : verified[t].task = t

PackagesAgree == \A t \in Asked : evidence[t] = verified[t].package

Report ==
  /\ pc = "compare"
  /\ PackagesAgree
  /\ pc' = "delete"
  /\ UNCHANGED <<requestVars, error, callerVars, localVars, sandboxVars,
                 insideVars, runnerVars>>

RefusePackage ==
  /\ pc = "compare" /\ ~PackagesAgree
  /\ RaiseIn("compare", "artifact_manifest")
  /\ UNCHANGED localVars

(* A faulty exec without a timeout.                                        *)
ProviderFailsNotExec ==
  /\ \E place \in {"policy", "prepare", "upload", "submit", "fetch"} :
       RaiseIn(place, "provider_failure")
  /\ UNCHANGED localVars

(* A call to the provider raises something of its own, a timeout included. *)
ProviderFails ==
  /\ \E place \in {"policy", "prepare", "upload", "submit", "wait", "fetch"} :
       RaiseIn(place, "provider_failure")
  /\ UNCHANGED localVars

(* Ctrl-C in the script: it passes the handlers but not the finally.       *)
Interrupt ==
  /\ kind = "live"
  /\ \/ /\ pc \in TryPlaces
        /\ pc' = "delete"
        /\ UNCHANGED sandbox
     \/ /\ pc = "create"
        /\ sandbox' \in {"none", "live"}
        /\ pc' = "leave"
     \/ /\ pc \in {"delete", "leave", "parity"}
        /\ pc' = "ended"
        /\ UNCHANGED sandbox
  /\ error' = "interrupted"
  /\ UNCHANGED <<requestVars, callerVars, localVars, shielded, insideVars,
                 runnerVars>>

Delete ==
  /\ pc = "delete"
  /\ sandbox = "live"
  /\ sandbox' = "gone"
  /\ pc' = "leave"
  /\ UNCHANGED <<requestVars, error, callerVars, localVars, shielded,
                 insideVars, runnerVars>>

(* A faulty cleanup that swallows the failure.                             *)
DeleteFailsSilently ==
  /\ pc = "delete"
  /\ pc' = "leave"
  /\ UNCHANGED <<requestVars, error, callerVars, localVars, sandboxVars,
                 insideVars, runnerVars>>

DeleteFails ==
  /\ pc = "delete"
  /\ error' = "sandbox_cleanup"
  /\ pc' = "leave"
  /\ UNCHANGED <<requestVars, callerVars, localVars, sandboxVars, insideVars,
                 runnerVars>>

-----------------------------------------------------------------------------
(* The callers afterwards.                                                 *)

Summary == [t \in Asked |-> [package |-> verified[t].package,
                             rows |-> verified[t].rows]]

(* The service removes its directory in every case.                        *)
ServiceReturns ==
  /\ pc = "leave" /\ kind = "service"
  /\ root' = FALSE
  /\ answer' = IF error = None THEN Summary ELSE None
  /\ pc' = "ended"
  /\ UNCHANGED <<requestVars, error, localVars, sandboxVars, insideVars,
                 runnerVars>>

LiveContinues ==
  /\ pc = "leave" /\ kind = "live"
  /\ pc' = IF error = None THEN "parity" ELSE "ended"
  /\ UNCHANGED <<requestVars, error, callerVars, localVars, sandboxVars,
                 insideVars, runnerVars>>

Magnitude(x) == IF x < 0 THEN -x ELSE x

(* Regression targets are numbers, neither NULL nor infinite, and differ   *)
(* by no more than the tolerance.                                          *)
IsClose(g, e) ==
  /\ g \in Int /\ e \in Int
  /\ \E larger \in {Magnitude(g), Magnitude(e)} :
       Magnitude(g - e) * ToleranceUnit
         <= AbsoluteTolerance + RelativeTolerance * larger

(* Binary targets are the same.                                            *)
Agrees(task, g, e) == IF Binary(task) THEN g = e ELSE IsClose(g, e)

SameKey(g, e) == <<g[1], g[2]>> = <<e[1], e[2]>>

(* A faulty join that starts from the reviewed rows.                       *)
InParityLeft(task, generated, expected) ==
  \A e \in expected :
    \E g \in generated : SameKey(g, e) /\ Agrees(task, g[3], e[3])

(* _verify_split: the rows joined on their keys, from both sides.          *)
InParity(task, generated, expected) ==
  /\ Cardinality(WithoutTarget(expected)) = Cardinality(expected)
  /\ Cardinality(generated) = Cardinality(expected)
  /\ WithoutTarget(generated) = WithoutTarget(expected)
  /\ \A g \in generated, e \in expected :
       SameKey(g, e) => Agrees(task, g[3], e[3])

SplitFile(split) == IF split = "test" THEN "test-truth" ELSE split

AllInParity ==
  \A t \in Asked, split \in Splits :
    InParity(t, local[t][SplitFile(split)], source.reviewed[t][split])

ConfirmParity ==
  /\ pc = "parity"
  /\ AllInParity
  /\ answer' = Summary
  /\ pc' = "ended"
  /\ UNCHANGED <<requestVars, error, root, localVars, sandboxVars, insideVars,
                 runnerVars>>

RefuseParity ==
  /\ pc = "parity"
  /\ ~AllInParity
  /\ error' = "parity_mismatch"
  /\ pc' = "ended"
  /\ UNCHANGED <<requestVars, callerVars, localVars, sandboxVars, insideVars,
                 runnerVars>>

-----------------------------------------------------------------------------
(* The runner in the sandbox: the tasks in order, each file complete       *)
(* before the next is begun, the manifest last.                            *)

Working == sandbox = "live" /\ runner = "running"

SplitOf(f) == IF f = "test-truth" THEN "test" ELSE f

(* The manifest of the files that are there.                               *)
Sealed(t) ==
  LET refs == [g \in Artifacts |-> remote[t][g]]
      rows == [s \in Splits |-> Cardinality(remote[t][SplitFile(s)])]
  IN  [task |-> t, refs |-> refs, rows |-> rows,
       package |-> [task |-> t, refs |-> refs, rows |-> rows]]

FileContents(t, f) ==
  CASE f \in {"train", "validation", "test-truth"} ->
         LabelsOf(t, SplitOf(f), source.data, source.cutoffs)
    [] f = "test" -> WithoutTarget(remote[t]["test-truth"])
    [] f = "manifest" -> Sealed(t)

(* What is checked before the file is written.                             *)
MayWrite(t, f) ==
  /\ f = "train" => EnoughHistory(source.data, source.cutoffs)
  /\ f \in {"train", "validation", "test-truth"} =>
       ValidLabels(t, FileContents(t, f))

RunnerWrites ==
  /\ Working
  /\ \E t \in Asked, f \in Files :
       /\ IsPending(t, remote) /\ IsNext(f, WriteOrder, remote[t])
       /\ MayWrite(t, f)
       /\ remote' = [remote EXCEPT ![t][f] = FileContents(t, f)]
  /\ UNCHANGED <<requestVars, pc, error, callerVars, localVars, sandboxVars,
                 insideVars, runner, evidence>>

(* A check refuses, or DuckDB or the interpreter fails.                    *)
RunnerFails ==
  /\ Working
  /\ runner' = "failed"
  /\ UNCHANGED <<requestVars, pc, error, callerVars, localVars, sandboxVars,
                 insideVars, remote, evidence>>

RunnerSucceeds ==
  /\ Working
  /\ \A t \in Asked : Complete(remote[t])
  /\ runner' = "done"
  /\ evidence' = [t \in Asked |-> remote[t]["manifest"].package]
  /\ UNCHANGED <<requestVars, pc, error, callerVars, localVars, sandboxVars,
                 insideVars, remote>>

(* A provider that stops idle sandboxes only.                              *)
ExpireIdle ==
  /\ sandbox = "live" /\ runner # "running"
  /\ sandbox' = "gone"
  /\ UNCHANGED <<requestVars, pc, error, callerVars, localVars, shielded,
                 insideVars, runnerVars>>

(* The provider removes a sandbox at the end of its ttl (15 minutes; one   *)
(* upload alone may take 30).                                              *)
Expire ==
  /\ sandbox = "live"
  /\ sandbox' = "gone"
  /\ UNCHANGED <<requestVars, pc, error, callerVars, localVars, shielded,
                 insideVars, runnerVars>>

-----------------------------------------------------------------------------
Raise == \/ Refuse \/ CreateFails \/ RefusePolicy \/ CanaryFails
         \/ SourceMissing \/ ExecExits \/ EvidenceUnusable
         \/ NothingToDownload \/ RefuseManifest \/ RefuseArtifact
         \/ RefusePackage \/ ProviderFails \/ DeleteFails \/ RefuseParity

Proceed == \/ Begin \/ CreateSandbox \/ ConfirmPolicy \/ RunCanary \/ Upload
           \/ Submit \/ ExecReturns \/ AcceptEvidence \/ Download \/ VerifyTask
           \/ Report \/ Delete \/ ServiceReturns \/ LiveContinues
           \/ ConfirmParity

RunnerStep == RunnerWrites \/ RunnerFails \/ RunnerSucceeds

Next == Proceed \/ Raise \/ Interrupt \/ RunnerStep \/ Expire

Spec == Init /\ [][Next]_vars

(* Every call to the provider returns or times out, and the ttl holds.     *)
FairSpec == Spec /\ WF_vars(Proceed \/ Raise) /\ WF_vars(Expire)

-----------------------------------------------------------------------------
(* Properties.                                                             *)

(* The labels as the sandbox should have computed them.                    *)
Expected(t, f) ==
  IF f = "test" THEN WithoutTarget(LabelsOf(t, "test", source.data, source.cutoffs))
  ELSE LabelsOf(t, SplitOf(f), source.data, source.cutoffs)

Errors ==
  {"missing_credential", "approval_required", "asset_integrity",
   "sandbox_create", "sandbox_policy", "sandbox_canary", "runner_source",
   "sandbox_execution",
   "artifact_download", "artifact_manifest", "artifact_integrity",
   "provider_failure", "sandbox_cleanup", "parity_mismatch", "interrupted"}

ASSUME NoneAssumption == None \notin Errors

(* Types, and what each place of the executor and of the runner has.       *)
MatTypeOK ==
  /\ kind \in {"service", "live"}
  /\ source \in Sources /\ tasks \in TaskLists
  /\ pc \in TryPlaces \cup {"begin", "create", "delete", "leave", "parity",
                            "ended"}
  /\ error \in Errors \cup {None}
  /\ root \in BOOLEAN /\ shielded \in BOOLEAN /\ canary \in BOOLEAN
  /\ AreDirectories(local) /\ AreDirectories(remote)
  /\ verified = [t \in TaskIds |-> verified[t]]
  /\ sandbox \in {"none", "live", "gone"}
  /\ inputs \subseteq {UploadOrder[i] : i \in 1..Len(UploadOrder)}
  /\ runner \in {"off", "running", "done", "failed"}
  /\ pc \in TryPlaces \cup {"begin", "create"} => error = None
  /\ pc \in {"evidence", "fetch", "verify", "compare"} => runner = "done"

(* A summary is given only for a run that a private sandbox finished and   *)
(* that is deleted by then; its package digests are those of the labels    *)
(* the reviewed SQL defines, and the sandbox reported them itself (the     *)
(* chain of checks in execute_daytona_materialization; returned after the  *)
(* finally).                                                               *)
AnswerIsSealed ==
  answer # None =>
    /\ error = None
    /\ sandbox = "gone" /\ shielded /\ canary /\ runner = "done"
    /\ DOMAIN answer = Asked
    /\ \A t \in Asked :
         /\ answer[t].package = evidence[t]
         /\ \A f \in Artifacts : answer[t].package.refs[f] = Expected(t, f)

(* A task passes verification only with the very files the sandbox wrote:  *)
(* no damage in transit and no manifest of another run goes through        *)
(* _download_results and the comparison with the evidence.                 *)
VerifiedIsIntact ==
  \A t \in TaskIds :
    verified[t] # None =>
      /\ \A f \in Artifacts : local[t][f] = remote[t][f]
      /\ pc \in {"leave", "parity"} /\ error = None =>
           verified[t].package = remote[t]["manifest"].package

(* Neither rows of the dataset nor task SQL reach a sandbox that is not    *)
(* confirmed private and cut off, and has not run the canary               *)
(* (sandbox_policy and _run_sql_canary before the uploads).                *)
DataStaysPrivate ==
  inputs # {} \/ runner # "off" => shielded /\ canary

(* Whatever happened: a sandbox that is still there when the execution has *)
(* ended is one the caller was told of, or was never handed, or was        *)
(* interrupted over; and the service keeps no files (the finally block and *)
(* TemporaryDirectory).                                                    *)
NothingLeftBehind ==
  pc = "ended" =>
    /\ sandbox = "live" =>
         error \in {"sandbox_cleanup", "sandbox_create", "interrupted"}
    /\ kind = "service" => ~root

(* The labels of training and of validation are what they would be if      *)
(* nothing after the next cutoff had been recorded (_timestamps, and the   *)
(* outcome windows of the reviewed SQL).                                   *)
LabelsIgnoreTheFuture ==
  \A t \in TaskIds :
    /\ remote[t]["train"] # Absent =>
         remote[t]["train"] =
           Labels(t, KnownBy(source.data, source.cutoffs.validation),
                  Times("train", Min(Days(source.data)), source.cutoffs))
    /\ remote[t]["validation"] # Absent =>
         remote[t]["validation"] =
           Labels(t, KnownBy(source.data, source.cutoffs.test),
                  {source.cutoffs.validation})

(* Row g is of the same time and entity as the reviewed row e, and its     *)
(* target is off by no more than a part of the reviewed one.               *)
ErrorBounded(g, e) ==
  /\ SameKey(g, e)
  /\ Magnitude(g[3] - e[3]) * (ToleranceUnit - RelativeTolerance)
       <= AbsoluteTolerance + RelativeTolerance * Magnitude(e[3])

(* A live run answers only with the labels that were reviewed: the very    *)
(* same ones in a binary task, and in a regression task row by row amounts *)
(* whose error is bounded by the reviewed amount, although the comparison  *)
(* measures it by the larger of the two, be it the wrong one               *)
(* (verify_materialization_parity on what was downloaded).                 *)
ParityBoundsError ==
  kind = "live" /\ answer # None =>
    \A t \in Asked, s \in Splits :
      LET generated == remote[t][SplitFile(s)]
          reviewed  == source.reviewed[t][s]
      IN  IF Binary(t) THEN generated = reviewed
          ELSE /\ \A g \in generated : \E e \in reviewed : ErrorBounded(g, e)
               /\ \A e \in reviewed : \E g \in generated : ErrorBounded(g, e)

(* A manifest in the sandbox describes files that are there already and    *)
(* that nothing changes any more (materialize_task writes it last).        *)
ManifestIsFinal ==
  [][\A t \in TaskIds :
       remote'[t]["manifest"] # Absent =>
         \A f \in Artifacts :
           /\ remote'[t]["manifest"].refs[f] = remote'[t][f]
           /\ remote[t]["manifest"] # Absent => remote'[t][f] = remote[t][f]]_vars

(* Every execution ends, and every sandbox goes, also one nobody holds.    *)
EveryExecutionEnds == <>(pc = "ended")
NoSandboxStays == [](sandbox = "live" => <>(sandbox = "gone"))
=============================================================================
