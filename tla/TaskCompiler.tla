---------------------------- MODULE TaskCompiler ----------------------------
(***************************************************************************)
(* NaturalLanguageTaskCompiler (compiler/agent.py): one run of the agent   *)
(* over its candidate cache and its sandbox executor, from the request to  *)
(* the response.  The model behind the agent is not trusted: it may call   *)
(* any tool with any argument and decide anything.  What the code promises *)
(* rests on the checks of _assemble, on the timeouts, and on close() in    *)
(* the finally block.                                                      *)
(***************************************************************************)
EXTENDS CandidateCache, EvidenceExecutor

CONSTANT MaxTurns  (* Runner.run's max_turns                               *)

ASSUME TurnsAssumption == MaxTurns \in Nat

VARIABLES
  run,       \* where the coroutine _run is
  call,      \* the thread execute_validated_sql awaits, or None
  turns,     \* turns of the model so far
  waited,    \* minutes in the current await of the model or of a tool
  elapsed,   \* minutes since the asyncio.timeout block was entered
  evidence,  \* CompilationContext.evidence
  outcome,   \* what _run will return or raise once close() is done
  response   \* what the route answers

runVars      == <<run, call, turns, waited, elapsed, evidence, outcome>>
compilerVars == <<runVars, response, cacheVars>>
vars         == <<compilerVars, execVars>>

-----------------------------------------------------------------------------
(* The limits of the run, in minutes.                                      *)

ModelTimeout   == 1
OverallTimeout == 5

(* A faulty limit: the tool gives up before create() must have ended.      *)
ToolTimeoutShort == 1

ToolTimeout == 3

Runs == {"received", "model", "tool", "closing", "answered"}

Init ==
  /\ CacheInit /\ ExecInit
  /\ run = "received" /\ call = None
  /\ turns = 0 /\ waited = 0 /\ elapsed = 0
  /\ evidence = [d \in Digests |-> None]
  /\ outcome = None /\ response = None

-----------------------------------------------------------------------------
(* The beginning of _run, before its try block.                            *)

(* No credentials, a clarification of another draft, a request beyond the  *)
(* size limits, another dataset, or AssetStagingError raised by the        *)
(* executor factory: nothing was opened and nothing is closed.             *)
AnswerWithoutRun ==
  /\ run = "received"
  /\ \E kind \in {"compiler_unavailable", "draft_mismatch", "request_too_large",
                 "unsupported", "internal_error"} :
       response' = Answer(kind)
  /\ run' = "answered"
  /\ UNCHANGED <<call, turns, waited, elapsed, evidence, outcome, cacheVars,
                 execVars>>

StartRun ==
  /\ run = "received"
  /\ run' = "model"
  /\ UNCHANGED <<call, turns, waited, elapsed, evidence, outcome, response,
                 cacheVars, execVars>>

-----------------------------------------------------------------------------
(* One turn of the model: it calls one tool (parallel_tool_calls=False).   *)

TakesTurn ==
  /\ run = "model" /\ turns < MaxTurns
  /\ turns' = turns + 1
  /\ waited' = 0

(* static_validate_sql: validates and caches one candidate.                *)
StaticValidate ==
  /\ TakesTurn
  /\ \/ RefuseShape
     \/ \E text \in Texts, agrees \in BOOLEAN :
          \/ RefuseExhausted(text)
          \/ RefusePolicy(text, agrees)
          \/ \E type \in TaskTypes : Accept(text, agrees, type)
  /\ UNCHANGED <<run, call, elapsed, evidence, outcome, response, execVars>>

(* execute_validated_sql of a cached digest; an unknown one is refused and *)
(* is a turn without effect, like inspect_reviewed_schema and              *)
(* read_aggregate_evidence (RefuseShape above).                            *)
ExecuteValidated(t, d) ==
  /\ TakesTurn
  /\ artifacts[d] # None
  /\ Validate(t, d)
  /\ run' = "tool" /\ call' = t
  /\ UNCHANGED <<elapsed, evidence, outcome, response, cacheVars>>

(* The awaited thread returns: evidence is recorded for the digest of the  *)
(* call, with the task type of its artifact; a failure only for the model. *)
ToolReturns ==
  /\ run = "tool"
  /\ \/ /\ pc[call] = "passed"
        /\ \E finite \in BOOLEAN :
             evidence' = [evidence EXCEPT ![task[call]] =
                            [type |-> artifacts[task[call]], finite |-> finite]]
     \/ pc[call] = "failed" /\ UNCHANGED evidence
  /\ run' = "model" /\ call' = None /\ waited' = 0
  /\ UNCHANGED <<turns, elapsed, outcome, response, cacheVars, execVars>>

(* The tool's own timeout: the model gets an error and the thread goes on, *)
(* with nobody left to take its result.                                    *)
ToolTimesOut ==
  /\ run = "tool" /\ waited >= ToolTimeout
  /\ run' = "model" /\ call' = None /\ waited' = 0
  /\ UNCHANGED <<turns, elapsed, evidence, outcome, response, cacheVars,
                 execVars>>

-----------------------------------------------------------------------------
(* The end of the try block: an outcome is fixed and the finally block     *)
(* calls close() in the same step of the event loop.  The counters of the  *)
(* agent loop end with it.                                                 *)

FinishWith(result) ==
  /\ outcome' = result
  /\ run' = "closing" /\ call' = None
  /\ turns' = 0 /\ waited' = 0 /\ elapsed' = 0
  /\ Close
  /\ UNCHANGED <<evidence, response, cacheVars>>

(* A faulty _assemble: it takes the task type from the model's decision.   *)
AssembleDeclared(d, type, agrees, complete) ==
  IF artifacts[d] = None \/ evidence[d] = None
    THEN Answer("unvalidated_candidate")
    ELSE ReadyAnswer(d, type)

(* _assemble for a ready decision on digest d: the first check that fails. *)
(* The last one is the contract itself, whose validators refuse a target   *)
(* without what its task type needs.                                       *)
Assemble(d, type, agrees, complete) ==
  IF artifacts[d] = None \/ evidence[d] = None
    THEN Answer("unvalidated_candidate")
  ELSE IF ~evidence[d].finite
    THEN Answer("invalid_evidence")
  ELSE IF ~agrees \/ type # artifacts[d]
    THEN Answer("candidate_mismatch")
  ELSE IF ~complete \/ evidence[d].type # artifacts[d]
    THEN Answer("provider_failure")
  ELSE ReadyAnswer(d, artifacts[d])

DecideReady(d) ==
  /\ run = "model" /\ turns < MaxTurns
  /\ \E type \in TaskTypes, agrees, complete \in BOOLEAN :
       FinishWith(Assemble(d, type, agrees, complete))

DecideOther ==
  /\ run = "model" /\ turns < MaxTurns
  /\ \E kind \in {"needs_clarification", "unsupported"} :
       FinishWith(Answer(kind))

(* The runner raises: out of turns, refused, a provider error, a timeout   *)
(* of one model call.                                                      *)
RunnerFails ==
  /\ run = "model"
  /\ \/ FinishWith(Answer("provider_failure"))
     \/ FinishWith(Answer("compilation_failed"))
     \/ waited >= ModelTimeout /\ FinishWith(Answer("compiler_timeout"))

OverallTimesOut ==
  /\ run \in {"model", "tool"} /\ elapsed >= OverallTimeout
  /\ FinishWith(Answer("compiler_timeout"))

(* The task that serves the request is cancelled.                          *)
Cancelled ==
  /\ run \in {"model", "tool"}
  /\ FinishWith(Answer("cancelled"))

(* It is cancelled while it waits for close(): delete() goes on on its own *)
(* thread, and nobody will see how it ends.                                *)
CancelledClosing ==
  /\ run = "closing" /\ deletion = "running"
  /\ response' = Answer("cancelled")
  /\ run' = "answered"
  /\ UNCHANGED <<call, turns, waited, elapsed, evidence, outcome, cacheVars,
                 execVars>>

(* A faulty close() that joins the worker threads first.                   *)
CloseJoinsThreads ==
  /\ deletion # "running"
  /\ \A t \in Threads : pc[t] \in {"idle", "passed", "failed"}

CloseReturned == deletion # "running"

(* A faulty finally block that raises whatever happened before.            *)
CleanupReplacesAll(result) == result # None

(* close() is over.  An unconfirmed deletion replaces an outcome that is   *)
(* not an exception caught by the handlers of _run.                        *)
CleanupReplaces(result) ==
  result.kind \in TypedAnswers \cup {"cancelled"}

Respond ==
  /\ run = "closing" /\ CloseReturned
  /\ response' = IF deletion = "failed" /\ CleanupReplaces(outcome)
                   THEN Answer("sandbox_cleanup") ELSE outcome
  /\ run' = "answered"
  /\ UNCHANGED <<call, turns, waited, elapsed, evidence, outcome, cacheVars,
                 execVars>>

-----------------------------------------------------------------------------
(* Worker threads, the provider and the delete call run on their own.      *)
Background ==
  /\ \/ \E t \in Threads : ThreadStep(t) \/ ProviderStep(t)
     \/ DeleteStep
  /\ UNCHANGED compilerVars

(* A minute passes: no await of the run outlives its timeout either.       *)
Minute ==
  /\ ExecMinute
  /\ run = "model" => waited < ModelTimeout
  /\ run = "tool" => waited < ToolTimeout
  /\ run \in {"model", "tool"} => elapsed < OverallTimeout
  /\ IF run \in {"model", "tool"}
       THEN waited' = waited + 1 /\ elapsed' = elapsed + 1
       ELSE UNCHANGED <<waited, elapsed>>
  /\ UNCHANGED <<run, call, turns, evidence, outcome, response, cacheVars>>

Next ==
  \/ AnswerWithoutRun
  \/ StartRun
  \/ StaticValidate
  \/ \E t \in Threads, d \in Digests : ExecuteValidated(t, d)
  \/ ToolReturns
  \/ ToolTimesOut
  \/ \E d \in Digests : DecideReady(d)
  \/ DecideOther
  \/ RunnerFails
  \/ OverallTimesOut
  \/ Cancelled
  \/ CancelledClosing
  \/ Respond
  \/ Background
  \/ Minute

Spec == Init /\ [][Next]_vars

(* The timers of the event loop and of the provider's client fire, and the *)
(* event loop runs what is ready.  Nothing is assumed of uploads, of the   *)
(* model's decisions, or of a thread that has no timer.                    *)
Fairness ==
  /\ WF_vars(Minute)
  /\ WF_vars(ToolTimesOut) /\ WF_vars(OverallTimesOut) /\ WF_vars(RunnerFails)
  /\ WF_vars(Respond)
  /\ WF_vars(DeleteStep /\ UNCHANGED compilerVars)
  /\ \A t \in Threads :
       /\ WF_vars((ReuseSandbox(t) \/ RefuseUnstaged(t) \/ RequestSandbox(t)
                     \/ CreateFails(t) \/ ExecutionFails(t))
                  /\ UNCHANGED compilerVars)
       /\ WF_vars(ReapExpired(t) /\ UNCHANGED compilerVars)

FairSpec == Spec /\ Fairness

-----------------------------------------------------------------------------
TypeOK ==
  /\ CacheTypeOK /\ ExecTypeOK
  /\ run \in Runs /\ call \in Threads \cup {None}
  /\ turns \in 0..MaxTurns
  /\ waited \in 0..ToolTimeout /\ elapsed \in 0..OverallTimeout
  /\ evidence \in [Digests -> Evidence \cup {None}]
  /\ outcome \in Answers \cup {None} /\ response \in Answers \cup {None}

(* A draft is only ready when its digest passed in the sandbox during this *)
(* run, its evidence is finite, and its task type is the one the artifact  *)
(* and the evidence were made for (_assemble, agent.py:370-390).           *)
ReadyIsTested ==
  response # None /\ response.kind = "draft_ready" =>
    LET d == response.digest IN
    /\ \E t \in Threads : pc[t] = "passed" /\ task[t] = d
    /\ artifacts[d] = response.type
    /\ evidence[d] = [type |-> response.type, finite |-> TRUE]

(* Whatever overlaps, one run never has the sandbox execute more distinct  *)
(* queries than the repair budget allows (sql.py:58-61).                   *)
ExecutionsWithinBudget ==
  Cardinality({task[t] : t \in {u \in Threads : pc[u] # "idle"}})
    <= MaxCandidates

(* When the run answers with an outcome, its sandbox is deleted and no     *)
(* thread can still register another one (daytona.py:90, agent.py:341-349).*)
OutcomeLeavesNoSandbox ==
  response # None /\ response.kind \in TypedAnswers =>
    /\ sandbox \notin Live
    /\ NoCreateUnderway

(* The evidence recorded for a digest is never replaced by that of another *)
(* execution.  Calls that the agent has given up may pass as well, and at  *)
(* the same time; but a call that is made after a recorded pass finds the  *)
(* files of that pass in the one sandbox of the run (agent.py:205,         *)
(* materializer.py:352).                                                   *)
EvidenceIsFinal ==
  [][\A d \in Digests : evidence[d] # None => evidence'[d] = evidence[d]]_vars

(* A failed deletion replaces what the run has decided only when that is   *)
(* no error: the client learns why a run failed whatever becomes of its    *)
(* sandbox, unless the request is cancelled meanwhile (run_error,          *)
(* agent.py:315-349).                                                      *)
CleanupHidesNoError ==
  run = "answered" /\ outcome # None =>
    \/ response = outcome
    \/ response.kind = "cancelled"
    \/ /\ response.kind = "sandbox_cleanup" /\ deletion = "failed"
       /\ outcome.kind \notin SanitizedErrors

(* A sandbox is never destroyed by its ttl while the run that uses it has  *)
(* not ended (daytona.py:22-24).                                           *)
NeverReapedMidRun ==
  [][\A s \in Threads : ReapExpired(s) => run \notin {"model", "tool"}]_vars

(* Every accepted request is answered, although an upload may hang for     *)
(* ever: the timeouts of agent.py:54-55 and of delete() see to it.         *)
EveryRunAnswers == run # "received" ~> run = "answered"

(* In the end there is no sandbox left, not even one that nobody deleted:  *)
(* an orphan of a create() that raised, a late one, one whose deletion     *)
(* failed (ttl_minutes, daytona.py:84).                                    *)
EverySandboxGoes == <>[](Live = {})

(* What the class promises: "Reuse one sandbox for at most one compiler    *)
(* run and delete it synchronously" (daytona.py:90).  Unless the provider  *)
(* failed a create or a delete, no sandbox of a run that answered a client *)
(* is left.                                                                *)
DeletedSynchronously ==
  response # None /\ response.kind # "cancelled" /\ deletion # "failed" =>
    \A t \in Live : pc[t] = "failed" /\ box[t] = None

(* Every failure the route reports carries a sanitized public code: "Fail  *)
(* closed when live compiler credentials or assets are not configured"     *)
(* (service.py:47).                                                        *)
FailuresAreSanitized ==
  response # None =>
    response.kind \in TypedAnswers \cup SanitizedErrors \cup {"cancelled"}

(* The contract of one compiler run, and the discipline of the executor's  *)
(* caller: both are implemented by this specification.                     *)
Contract == INSTANCE CompileContract WITH accepted <- artifacts,
              tested <- {d \in Digests : evidence[d] # None},
              answer <- response

ImplementsContract == Contract!Spec

KeepsExecutorDiscipline == ExecSpec
=============================================================================
