-------------------------- MODULE EvidenceExecutor --------------------------
(***************************************************************************)
(* DaytonaEvidenceExecutor (compiler/daytona.py): the object that owns at  *)
(* most one private Daytona sandbox for one compiler run.  validate() runs *)
(* on a worker thread (asyncio.to_thread) that nothing can cancel, close() *)
(* runs on the event loop, and both touch the fields _sandbox, _staged and *)
(* _closed without a lock.  The sandboxes themselves live at the provider. *)
(* Time is counted in whole minutes; a call that has a timeout must end    *)
(* before the clock passes it.                                             *)
(***************************************************************************)
EXTENDS Naturals, CompilerTypes

CONSTANT Threads  (* worker threads, one for each call of validate()       *)

ASSUME ThreadsAssumption == None \notin Threads

VARIABLES
  sandbox,   \* self._sandbox: None, or the thread whose create() made it
  staged,    \* self._staged
  closed,    \* self._closed
  pc,        \* where each thread is
  task,      \* the digest each thread executes
  box,       \* the local variable "sandbox" of each thread
  age,       \* minutes spent by each thread in its current step
  remote,    \* the provider: what became of the sandbox made for a thread
  private,   \* the provider: is its network policy the one asked for
  loaded,    \* the provider: have all sources and tables been uploaded
  outputs,   \* the provider: digests with files in an output directory
  life,      \* the provider: minutes a live sandbox has existed
  deletion,  \* the delete() call of close()
  target,    \* the handle that call was given
  deleteAge  \* minutes spent in it

handleVars   == <<sandbox, staged, closed>>
threadVars   == <<pc, task, box, age>>
providerVars == <<remote, private, loaded, outputs, life>>
deleteVars   == <<deletion, target, deleteAge>>
execVars     == <<handleVars, threadVars, providerVars, deleteVars>>

-----------------------------------------------------------------------------
(* The limits the code passes to the provider, in minutes.                 *)

(* A faulty limit: create() may outlast the tool that waits for it.        *)
CreateTimeoutLong == 4

CreateTimeout == 2
QueryTimeout  == 2
DeleteTimeout == 1

(* A faulty limit: a ttl shorter than the budget of the run.               *)
SandboxTtlShort == 4

SandboxTtl == 15

(* The places of an exec() call under way: the runner has not yet looked   *)
(* at its output directory, found it empty, or put files there.            *)
Executing == {"executing", "materializing", "written"}

PCs == {"idle", "ensure", "creating", "staging", "submitting", "passed",
        "failed"} \cup Executing

Remotes == {"absent", "live", "gone"}

(* The sandboxes that exist at the provider.                               *)
Live == {s \in Threads : remote[s] = "live"}

ExecInit ==
  /\ sandbox = None /\ staged = FALSE /\ closed = FALSE
  /\ pc = [t \in Threads |-> "idle"]
  /\ task = [t \in Threads |-> None]
  /\ box = [t \in Threads |-> None]
  /\ age = [t \in Threads |-> 0]
  /\ remote = [t \in Threads |-> "absent"]
  /\ private = [t \in Threads |-> FALSE]
  /\ loaded = [t \in Threads |-> FALSE]
  /\ outputs = [t \in Threads |-> {}]
  /\ life = [t \in Threads |-> 0]
  /\ deletion = "none" /\ target = None /\ deleteAge = 0

(* Thread t goes on to step p, where its clock starts again.               *)
Goto(t, p) == pc' = [pc EXCEPT ![t] = p] /\ age' = [age EXCEPT ![t] = 0]

(* The provider destroys sandbox s.                                        *)
Destroy(s) ==
  /\ remote' = [remote EXCEPT ![s] = "gone"]
  /\ life' = [life EXCEPT ![s] = 0]
  /\ UNCHANGED <<private, loaded, outputs>>

-----------------------------------------------------------------------------
(* validate(): an open executor hands the artifact to a worker thread.  On *)
(* a closed one it raises sandbox_closed and nothing changes.              *)

Validate(t, d) ==
  /\ ~closed
  /\ pc[t] = "idle"
  /\ Goto(t, "ensure")
  /\ task' = [task EXCEPT ![t] = d]
  /\ UNCHANGED <<handleVars, box, providerVars, deleteVars>>

(* _ensure_sandbox(): the three ways it can go.                            *)

ReuseSandbox(t) ==
  /\ pc[t] = "ensure"
  /\ staged /\ sandbox # None
  /\ Goto(t, "submitting")
  /\ box' = [box EXCEPT ![t] = sandbox]
  /\ UNCHANGED <<handleVars, task, providerVars, deleteVars>>

RefuseUnstaged(t) ==
  /\ pc[t] = "ensure"
  /\ ~staged /\ sandbox # None
  /\ Goto(t, "failed")
  /\ UNCHANGED <<handleVars, task, box, providerVars, deleteVars>>

(* A faulty _ensure_sandbox: it only looks at _staged, so it tries again   *)
(* after a failed staging.                                                 *)
RequestAgain(t) ==
  /\ pc[t] = "ensure"
  /\ ~staged
  /\ Goto(t, "creating")
  /\ UNCHANGED <<handleVars, task, box, providerVars, deleteVars>>

RequestSandbox(t) ==
  /\ pc[t] = "ensure"
  /\ sandbox = None
  /\ Goto(t, "creating")
  /\ UNCHANGED <<handleVars, task, box, providerVars, deleteVars>>

(* The provider makes the sandbox before create() returns; its policy need *)
(* not be the one asked for.                                               *)
ProviderCreates(t) ==
  /\ pc[t] = "creating" /\ remote[t] = "absent"
  /\ remote' = [remote EXCEPT ![t] = "live"]
  /\ \E p \in BOOLEAN : private' = [private EXCEPT ![t] = p]
  /\ UNCHANGED <<handleVars, threadVars, loaded, outputs, life, deleteVars>>

(* A faulty registration: the sandbox counts as staged at once.            *)
RegisterStaged(t) ==
  /\ pc[t] = "creating" /\ remote[t] # "absent"
  /\ sandbox' = t /\ staged' = TRUE
  /\ box' = [box EXCEPT ![t] = t]
  /\ Goto(t, "staging")
  /\ UNCHANGED <<closed, task, providerVars, deleteVars>>

(* create() returns and the handle is registered before any staging.       *)
RegisterSandbox(t) ==
  /\ pc[t] = "creating" /\ remote[t] # "absent"
  /\ sandbox' = t
  /\ box' = [box EXCEPT ![t] = t]
  /\ Goto(t, "staging")
  /\ UNCHANGED <<staged, closed, task, providerVars, deleteVars>>

(* create() raises or runs into its timeout: no handle, even when the      *)
(* provider did make a sandbox.                                            *)
CreateFails(t) ==
  /\ pc[t] = "creating"
  /\ Goto(t, "failed")
  /\ UNCHANGED <<handleVars, task, box, providerVars, deleteVars>>

(* refresh_data() shows a private sandbox, then every folder, source and   *)
(* table is uploaded.                                                      *)
StageSandbox(t) ==
  /\ pc[t] = "staging"
  /\ remote[t] = "live" /\ private[t]
  /\ loaded' = [loaded EXCEPT ![t] = TRUE]
  /\ staged' = TRUE
  /\ Goto(t, "submitting")
  /\ UNCHANGED <<sandbox, closed, task, box, remote, private, outputs, life,
                 deleteVars>>

(* A wrong policy or any failed call of the staging block.  The handle     *)
(* stays registered for close().                                           *)
StagingFails(t) ==
  /\ pc[t] = "staging"
  /\ Goto(t, "failed")
  /\ UNCHANGED <<handleVars, task, box, providerVars, deleteVars>>

(* _validate_sync(): upload the request, execute the runner.               *)

SubmitRequest(t) ==
  /\ pc[t] = "submitting"
  /\ remote[box[t]] = "live"
  /\ Goto(t, "executing")
  /\ UNCHANGED <<handleVars, task, box, providerVars, deleteVars>>

SubmitFails(t) ==
  /\ pc[t] = "submitting"
  /\ Goto(t, "failed")
  /\ UNCHANGED <<handleVars, task, box, providerVars, deleteVars>>

(* The runner goes on to step p of the same exec() call.                   *)
RunnerGoto(t, p) == pc' = [pc EXCEPT ![t] = p] /\ UNCHANGED age

(* The runner leaves files in an output directory named for the digest.    *)
WriteOutputs(t) ==
  /\ outputs' = [outputs EXCEPT ![box[t]] = @ \cup {task[t]}]
  /\ UNCHANGED <<remote, private, loaded, life>>

(* A faulty runner: it does not mind the files of an earlier execution.    *)
AdmitAnyOutput(t) ==
  /\ pc[t] = "executing"
  /\ remote[box[t]] = "live"
  /\ RunnerGoto(t, "materializing")
  /\ UNCHANGED <<handleVars, task, box, providerVars, deleteVars>>

(* The runner looks once, before it opens the tables, and refuses a        *)
(* directory that holds files (output_exists).  Two runners of one digest  *)
(* may both get past this.                                                 *)
AdmitOutput(t) ==
  /\ pc[t] = "executing"
  /\ remote[box[t]] = "live"
  /\ task[t] \notin outputs[box[t]]
  /\ RunnerGoto(t, "materializing")
  /\ UNCHANGED <<handleVars, task, box, providerVars, deleteVars>>

(* The first labels are validated and written; COPY replaces a file that   *)
(* has appeared meanwhile.                                                 *)
WriteLabels(t) ==
  /\ pc[t] = "materializing"
  /\ remote[box[t]] = "live"
  /\ WriteOutputs(t)
  /\ RunnerGoto(t, "written")
  /\ UNCHANGED <<handleVars, task, box, deleteVars>>

(* The runner ends with exit code 0 and evidence that can be read.         *)
ExecutionPasses(t) ==
  /\ pc[t] = "written"
  /\ remote[box[t]] = "live"
  /\ Goto(t, "passed")
  /\ UNCHANGED <<handleVars, task, box, providerVars, deleteVars>>

(* A non-zero exit code, a refused directory among its reasons, unreadable *)
(* evidence, a timeout or a provider error.  The runner may have written   *)
(* files, or still do so when it outlives the call: that is moved to this  *)
(* step, and costs others no more than the check they might fail anyhow.   *)
ExecutionFails(t) ==
  /\ pc[t] \in Executing
  /\ WriteOutputs(t) \/ UNCHANGED providerVars
  /\ Goto(t, "failed")
  /\ UNCHANGED <<handleVars, task, box, deleteVars>>

-----------------------------------------------------------------------------
(* close(): the first call marks the executor closed and starts delete()   *)
(* for the handle it sees, if it sees one.                                 *)

Close ==
  /\ ~closed
  /\ closed' = TRUE
  /\ target' = sandbox
  /\ deletion' = IF sandbox = None THEN "skipped" ELSE "running"
  /\ UNCHANGED <<sandbox, staged, threadVars, providerVars, deleteAge>>

(* A faulty close(): delete() without wait=True returns too early.         *)
DeleteWithoutWait ==
  /\ deletion = "running"
  /\ deletion' = "confirmed"
  /\ UNCHANGED <<handleVars, threadVars, providerVars, target, deleteAge>>

DeleteSucceeds ==
  /\ deletion = "running"
  /\ remote[target] = "live"
  /\ Destroy(target)
  /\ deletion' = "confirmed"
  /\ UNCHANGED <<handleVars, threadVars, target, deleteAge>>

(* delete() raises or times out, whether or not the sandbox went away.     *)
DeleteFails ==
  /\ deletion = "running"
  /\ Destroy(target) \/ UNCHANGED providerVars
  /\ deletion' = "failed"
  /\ UNCHANGED <<handleVars, threadVars, target, deleteAge>>

(* A faulty request for a sandbox: it leaves ttl_minutes out.              *)
NeverReaped(s) == remote[s] = "expired" /\ UNCHANGED execVars

(* The provider destroys a sandbox that has reached its ttl_minutes.       *)
ReapExpired(s) ==
  /\ remote[s] = "live" /\ life[s] >= SandboxTtl
  /\ Destroy(s)
  /\ UNCHANGED <<handleVars, threadVars, deleteVars>>

(* A minute passes.  No call may outlive its own timeout, a worker thread  *)
(* starts as soon as it is handed its call, and no sandbox its ttl.        *)
ExecMinute ==
  /\ \A t \in Threads :
       /\ pc[t] # "ensure"
       /\ pc[t] = "creating" => age[t] < CreateTimeout
       /\ pc[t] \in Executing => age[t] < QueryTimeout
       /\ remote[t] = "live" => life[t] < SandboxTtl
  /\ deletion = "running" => deleteAge < DeleteTimeout
  /\ age' = [t \in Threads |->
               IF pc[t] \in {"creating"} \cup Executing THEN age[t] + 1
               ELSE 0]
  /\ life' = [t \in Threads |-> IF remote[t] = "live" THEN life[t] + 1 ELSE 0]
  /\ deleteAge' = IF deletion = "running" THEN deleteAge + 1 ELSE deleteAge
  /\ UNCHANGED <<handleVars, pc, task, box, remote, private, loaded, outputs,
                 deletion, target>>

-----------------------------------------------------------------------------
ThreadStep(t) ==
  \/ ReuseSandbox(t)
  \/ RefuseUnstaged(t)
  \/ RequestSandbox(t)
  \/ RegisterSandbox(t)
  \/ CreateFails(t)
  \/ StageSandbox(t)
  \/ StagingFails(t)
  \/ SubmitRequest(t)
  \/ SubmitFails(t)
  \/ AdmitOutput(t)
  \/ WriteLabels(t)
  \/ ExecutionPasses(t)
  \/ ExecutionFails(t)

ProviderStep(t) == ProviderCreates(t) \/ ReapExpired(t)

DeleteStep == DeleteSucceeds \/ DeleteFails

(* The discipline the executor needs of its caller: no new call while an   *)
(* earlier one may still be creating a sandbox.  Nothing in the class      *)
(* enforces it; TaskCompiler shows why its only caller keeps it.           *)
NoCreateUnderway == \A t \in Threads : pc[t] \notin {"ensure", "creating"}

ExecNext ==
  \/ \E t \in Threads, d \in Digests : NoCreateUnderway /\ Validate(t, d)
  \/ \E t \in Threads : ThreadStep(t) \/ ProviderStep(t)
  \/ Close
  \/ DeleteStep
  \/ ExecMinute

ExecSpec == ExecInit /\ [][ExecNext]_execVars

-----------------------------------------------------------------------------
ExecTypeOK ==
  /\ sandbox \in Threads \cup {None}
  /\ staged \in BOOLEAN /\ closed \in BOOLEAN
  /\ pc \in [Threads -> PCs]
  /\ task \in [Threads -> Digests \cup {None}]
  /\ \A t \in Threads : pc[t] # "idle" => task[t] # None
  /\ box \in [Threads -> Threads \cup {None}]
  /\ age \in [Threads -> Nat]
  /\ remote \in [Threads -> Remotes]
  /\ private \in [Threads -> BOOLEAN]
  /\ loaded \in [Threads -> BOOLEAN]
  /\ outputs \in [Threads -> SUBSET Digests]
  /\ life \in [Threads -> 0..SandboxTtl]
  /\ deletion \in {"none", "skipped", "running", "confirmed", "failed"}
  /\ target \in Threads \cup {None}
  /\ deleteAge \in 0..DeleteTimeout

(* SQL is only ever executed in a sandbox whose private network policy was *)
(* confirmed and whose sources and tables were all uploaded, whichever     *)
(* thread staged it and however many calls overlap (_ensure_sandbox,       *)
(* daytona.py:109-145).                                                    *)
ExecutesOnlyStaged ==
  \A t \in Threads :
    pc[t] \in Executing => private[box[t]] /\ loaded[box[t]]

(* Once a handle is registered it is never replaced, so the sandbox that   *)
(* close() deletes is the only one the run ever used (daytona.py:121,196). *)
HandleIsStable == [][sandbox # None => sandbox' = sandbox]_sandbox

(* A delete() that close() saw succeed really removed the sandbox every    *)
(* thread of the run used, also the threads that are still running.        *)
ConfirmedMeansGone ==
  deletion = "confirmed" =>
    \A t \in Threads : box[t] # None => remote[box[t]] = "gone"

=============================================================================
