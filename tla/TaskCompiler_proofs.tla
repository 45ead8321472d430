------------------------- MODULE TaskCompiler_proofs -------------------------
(***************************************************************************)
(* Proofs about the candidate cache, the sandbox executor and one run of   *)
(* the task compiler with both, for any number of texts, digests, threads, *)
(* calls, turns and candidates.                                            *)
(***************************************************************************)
EXTENDS TaskCompiler, FiniteSetTheorems, TLAPS

-----------------------------------------------------------------------------
(* The candidate cache: its repair budget.                                 *)

(* The accepted digests of the cache.                                      *)
Accepted == {d \in Digests : artifacts[d] # None}

(* No more texts are counted than the budget allows, and every artifact    *)
(* comes from a counted text.                                              *)
BudgetKept ==
  /\ IsFiniteSet(rawDigests) /\ Cardinality(rawDigests) <= MaxCandidates
  /\ Accepted \subseteq {Normalize[text] : text \in rawDigests}

(* A fresh cache has its whole budget.                                     *)
LEMMA BudgetInit == CacheInit => BudgetKept
BY FS_EmptySet, CacheAssumption DEF CacheInit, BudgetKept, Accepted

(* Counting a text that fits keeps the count within the budget.            *)
LEMMA CountedWithinBudget ==
  ASSUME BudgetKept, NEW text \in Texts, WithinBudget(text)
  PROVE  /\ IsFiniteSet(rawDigests \cup {text})
         /\ Cardinality(rawDigests \cup {text}) <= MaxCandidates
<1>1. CASE text \in rawDigests
  <2>1. rawDigests \cup {text} = rawDigests
    BY <1>1
  <2> QED
    BY <2>1 DEF BudgetKept
<1>2. CASE text \notin rawDigests
  <2>1. /\ IsFiniteSet(rawDigests \cup {text})
        /\ Cardinality(rawDigests \cup {text}) = Cardinality(rawDigests) + 1
    BY <1>2, FS_AddElement DEF BudgetKept
  <2>2. Cardinality(rawDigests) \in Nat
    BY FS_CardinalityType DEF BudgetKept
  <2> QED
    BY <1>2, <2>1, <2>2, CacheAssumption DEF WithinBudget
<1> QED
  BY <1>1, <1>2

(* Whatever the cache is asked, the budget is kept.                        *)
LEMMA BudgetStep ==
  ASSUME CacheTypeOK, BudgetKept, NEW text \in Texts, NEW agrees \in BOOLEAN,
         NEW type \in TaskTypes,
         \/ RefusePolicy(text, agrees)
         \/ Accept(text, agrees, type)
  PROVE  BudgetKept'
<1>1. WithinBudget(text) /\ rawDigests' = rawDigests \cup {text}
  BY DEF RefusePolicy, Accept
<1>2. /\ IsFiniteSet(rawDigests') /\ Cardinality(rawDigests') <= MaxCandidates
  BY <1>1, CountedWithinBudget
<1>3. Accepted' \subseteq Accepted \cup {Normalize[text]}
  BY DEF RefusePolicy, Accept, Accepted, CacheTypeOK
<1>4. Accepted' \subseteq {Normalize[x] : x \in rawDigests'}
  BY <1>1, <1>3 DEF BudgetKept
<1> QED
  BY <1>2, <1>4 DEF BudgetKept

(* So a run accepts no more distinct queries than its budget.              *)
LEMMA FewAccepted ==
  ASSUME BudgetKept
  PROVE  IsFiniteSet(Accepted) /\ Cardinality(Accepted) <= MaxCandidates
<1> DEFINE Images == {Normalize[text] : text \in rawDigests}
<1>1. /\ IsFiniteSet(Images)
      /\ Cardinality(Images) <= Cardinality(rawDigests)
  <2> DEFINE f == [text \in rawDigests |-> Normalize[text]]
  <2>1. f \in Surjection(rawDigests, Images)
    BY DEF Surjection
  <2> HIDE DEF Images, f
  <2>2. IsFiniteSet(rawDigests)
    BY DEF BudgetKept
  <2> QED
    BY <2>1, <2>2, FS_Surjection
<1>2. /\ IsFiniteSet(Accepted)
      /\ Cardinality(Accepted) <= Cardinality(Images)
  BY <1>1, FS_Subset DEF BudgetKept
<1>3. /\ Cardinality(Accepted) \in Nat /\ Cardinality(Images) \in Nat
      /\ Cardinality(rawDigests) \in Nat
  BY <1>1, <1>2, FS_CardinalityType DEF BudgetKept
<1> HIDE DEF Images
<1> QED
  BY <1>1, <1>2, <1>3, CacheAssumption DEF BudgetKept

-----------------------------------------------------------------------------
(* The sandbox executor, as long as its caller does not overlap two        *)
(* creations.                                                              *)

(* At most one thread is about to create, and only while there is no       *)
(* handle; the one that stages owns the handle.                            *)
OneCreator ==
  /\ \A t, u \in Threads :
       pc[t] \in {"ensure", "creating"} /\ pc[u] \in {"ensure", "creating"}
         => t = u
  /\ \A t \in Threads : pc[t] = "creating" => sandbox = None
  /\ \A t \in Threads : pc[t] = "staging" => sandbox = t /\ box[t] = t

(* Every thread that holds a sandbox holds the handle, and a thread beyond *)
(* staging holds one that is private and loaded.                           *)
OneHandle ==
  /\ \A t \in Threads : box[t] # None => box[t] = sandbox
  /\ \A t \in Threads :
       pc[t] \in {"submitting", "passed"} \cup Executing =>
         staged /\ box[t] = sandbox
  /\ staged => sandbox # None /\ private[sandbox] /\ loaded[sandbox]

(* The delete() of close() was given that handle, and a handle names a     *)
(* sandbox the provider did create.                                        *)
DeletesHandle ==
  /\ sandbox # None => remote[sandbox] # "absent"
  /\ deletion \in {"running", "confirmed", "failed"} =>
       target = sandbox /\ target # None
  /\ deletion = "confirmed" => remote[target] = "gone"

(* What has passed left its files in the sandbox.                          *)
PassedWrote ==
  \A t \in Threads :
    pc[t] \in {"written", "passed"} => task[t] \in outputs[sandbox]

ExecInv ==
  ExecTypeOK /\ OneCreator /\ OneHandle /\ DeletesHandle /\ PassedWrote

-----------------------------------------------------------------------------
(* Every field keeps its type: no step of a thread, of close() or of the   *)
(* provider leaves the executor in a state without meaning, and no         *)
(* sandbox outlives its ttl.                                               *)
LEMMA ExecTypeStep == ExecTypeOK /\ [ExecNext]_execVars => ExecTypeOK'
<1> SUFFICES ASSUME ExecTypeOK, [ExecNext]_execVars
             PROVE  ExecTypeOK'
  OBVIOUS
<1> USE ThreadsAssumption, NoneAssumption
    DEF ExecTypeOK, PCs, Executing, Remotes, Goto, RunnerGoto, Destroy,
        SandboxTtl, DeleteTimeout, handleVars, threadVars, providerVars, deleteVars
<1>1. CASE \E t \in Threads, d \in Digests : NoCreateUnderway /\ Validate(t, d)
  BY <1>1 DEF Validate
<1>2. ASSUME NEW t \in Threads, ThreadStep(t)
      PROVE  ExecTypeOK'
  <2>1. CASE ReuseSandbox(t) BY <2>1 DEF ReuseSandbox
  <2>2. CASE RefuseUnstaged(t) BY <2>2 DEF RefuseUnstaged
  <2>3. CASE RequestSandbox(t) BY <2>3 DEF RequestSandbox
  <2>4. CASE RegisterSandbox(t) BY <2>4 DEF RegisterSandbox
  <2>5. CASE CreateFails(t) BY <2>5 DEF CreateFails
  <2>6. CASE StageSandbox(t) BY <2>6 DEF StageSandbox
  <2>7. CASE StagingFails(t) BY <2>7 DEF StagingFails
  <2>8. CASE SubmitRequest(t) BY <2>8 DEF SubmitRequest
  <2>9. CASE SubmitFails(t) BY <2>9 DEF SubmitFails
  <2>10. CASE ExecutionPasses(t) BY <2>10 DEF ExecutionPasses
  <2>11. CASE ExecutionFails(t) BY <2>11 DEF ExecutionFails, WriteOutputs
  <2>12. CASE AdmitOutput(t) BY <2>12 DEF AdmitOutput
  <2>13. CASE WriteLabels(t)
    <3>1. task[t] \in Digests
      BY <2>13 DEF WriteLabels
    <3>2. outputs' \in [Threads -> SUBSET Digests]
      BY <2>13, <3>1 DEF WriteLabels, WriteOutputs
    <3> QED
      BY <2>13, <3>2 DEF WriteLabels, WriteOutputs
  <2> QED
    BY <1>2, <2>1, <2>2, <2>3, <2>4, <2>5, <2>6, <2>7, <2>8, <2>9, <2>10,
       <2>11, <2>12, <2>13 DEF ThreadStep
<1>3. ASSUME NEW t \in Threads, ProviderStep(t)
      PROVE  ExecTypeOK'
  BY <1>3 DEF ProviderStep, ProviderCreates, ReapExpired
<1>4. CASE Close
  BY <1>4 DEF Close
<1>5. CASE DeleteStep
  BY <1>5 DEF DeleteStep, DeleteSucceeds, DeleteFails
<1>6. CASE ExecMinute
  BY <1>6 DEF ExecMinute
<1>7. CASE UNCHANGED execVars
  BY <1>7 DEF execVars
<1> QED
  BY <1>1, <1>2, <1>3, <1>4, <1>5, <1>6, <1>7 DEF ExecNext

(* A fresh executor has no sandbox and no thread.                          *)
LEMMA ExecInvInit == ExecInit => ExecInv
<1> SUFFICES ASSUME ExecInit
             PROVE  ExecInv
  OBVIOUS
<1> USE ThreadsAssumption DEF ExecInit
<1>1. ExecTypeOK
  <2>1. 0 \in 0..SandboxTtl /\ 0 \in 0..DeleteTimeout
    BY DEF SandboxTtl, DeleteTimeout
  <2>2. /\ pc \in [Threads -> PCs] /\ remote \in [Threads -> Remotes]
        /\ outputs \in [Threads -> SUBSET Digests]
        /\ life \in [Threads -> 0..SandboxTtl]
    BY <2>1 DEF PCs, Remotes
  <2> QED
    BY <2>1, <2>2 DEF ExecTypeOK
<1>2. OneCreator /\ OneHandle /\ DeletesHandle
  BY DEF Executing, OneCreator, OneHandle, DeletesHandle
<1>3. PassedWrote
  BY DEF PassedWrote
<1> QED
  BY <1>1, <1>2, <1>3 DEF ExecInv

(* A creation never overlaps another one, nor an existing handle.           *)
LEMMA OneCreatorStep == ExecInv /\ [ExecNext]_execVars => OneCreator'
<1> SUFFICES ASSUME ExecInv, [ExecNext]_execVars
             PROVE  OneCreator'
  OBVIOUS
<1> USE ThreadsAssumption
    DEF ExecInv, ExecTypeOK, OneCreator,
        Executing, Goto, RunnerGoto, Destroy, handleVars, threadVars,
        providerVars, deleteVars
<1>1. CASE \E t \in Threads, d \in Digests : NoCreateUnderway /\ Validate(t, d)
  BY <1>1 DEF NoCreateUnderway, Validate
<1>2. ASSUME NEW t \in Threads, ThreadStep(t)
      PROVE  OneCreator'
  <2>1. CASE ReuseSandbox(t) BY <2>1 DEF ReuseSandbox
  <2>2. CASE RefuseUnstaged(t) BY <2>2 DEF RefuseUnstaged
  <2>3. CASE RequestSandbox(t) BY <2>3 DEF RequestSandbox
  <2>4. CASE RegisterSandbox(t) BY <2>4 DEF RegisterSandbox
  <2>5. CASE CreateFails(t) BY <2>5 DEF CreateFails
  <2>6. CASE StageSandbox(t) BY <2>6 DEF StageSandbox
  <2>7. CASE StagingFails(t) BY <2>7 DEF StagingFails
  <2>8. CASE SubmitRequest(t) BY <2>8 DEF SubmitRequest
  <2>9. CASE SubmitFails(t) BY <2>9 DEF SubmitFails
  <2>10. CASE ExecutionPasses(t) BY <2>10 DEF ExecutionPasses
  <2>11. CASE ExecutionFails(t) BY <2>11 DEF ExecutionFails, WriteOutputs
  <2>12. CASE AdmitOutput(t) BY <2>12 DEF AdmitOutput
  <2>13. CASE WriteLabels(t) BY <2>13 DEF WriteLabels, WriteOutputs
  <2> QED
    BY <1>2, <2>1, <2>2, <2>3, <2>4, <2>5, <2>6, <2>7, <2>8, <2>9, <2>10,
       <2>11, <2>12, <2>13 DEF ThreadStep
<1>3. ASSUME NEW t \in Threads, ProviderStep(t)
      PROVE  OneCreator'
  BY <1>3 DEF ProviderStep, ProviderCreates, ReapExpired
<1>4. CASE Close
  BY <1>4 DEF Close
<1>5. CASE DeleteStep
  BY <1>5 DEF DeleteStep, DeleteSucceeds, DeleteFails
<1>6. CASE ExecMinute
  BY <1>6 DEF ExecMinute
<1>7. CASE UNCHANGED execVars
  BY <1>7 DEF execVars
<1> QED
  BY <1>1, <1>2, <1>3, <1>4, <1>5, <1>6, <1>7 DEF ExecNext

(* All threads work in the sandbox of the handle, once it is staged.        *)
LEMMA OneHandleStep == ExecInv /\ [ExecNext]_execVars => OneHandle'
<1> SUFFICES ASSUME ExecInv, [ExecNext]_execVars
             PROVE  OneHandle'
  OBVIOUS
<1> USE ThreadsAssumption
    DEF ExecInv, ExecTypeOK, OneCreator, OneHandle,
        Executing, Goto, RunnerGoto, Destroy, handleVars, threadVars,
        providerVars, deleteVars
<1>1. CASE \E t \in Threads, d \in Digests : NoCreateUnderway /\ Validate(t, d)
  BY <1>1 DEF NoCreateUnderway, Validate
<1>2. ASSUME NEW t \in Threads, ThreadStep(t)
      PROVE  OneHandle'
  <2>1. CASE ReuseSandbox(t) BY <2>1 DEF ReuseSandbox
  <2>2. CASE RefuseUnstaged(t) BY <2>2 DEF RefuseUnstaged
  <2>3. CASE RequestSandbox(t) BY <2>3 DEF RequestSandbox
  <2>4. CASE RegisterSandbox(t) BY <2>4 DEF RegisterSandbox
  <2>5. CASE CreateFails(t) BY <2>5 DEF CreateFails
  <2>6. CASE StageSandbox(t) BY <2>6 DEF StageSandbox
  <2>7. CASE StagingFails(t) BY <2>7 DEF StagingFails
  <2>8. CASE SubmitRequest(t) BY <2>8 DEF SubmitRequest
  <2>9. CASE SubmitFails(t) BY <2>9 DEF SubmitFails
  <2>10. CASE ExecutionPasses(t) BY <2>10 DEF ExecutionPasses
  <2>11. CASE ExecutionFails(t) BY <2>11 DEF ExecutionFails, WriteOutputs
  <2>12. CASE AdmitOutput(t) BY <2>12 DEF AdmitOutput
  <2>13. CASE WriteLabels(t) BY <2>13 DEF WriteLabels, WriteOutputs
  <2> QED
    BY <1>2, <2>1, <2>2, <2>3, <2>4, <2>5, <2>6, <2>7, <2>8, <2>9, <2>10,
       <2>11, <2>12, <2>13 DEF ThreadStep
<1>3. ASSUME NEW t \in Threads, ProviderStep(t)
      PROVE  OneHandle'
  BY <1>3 DEF ProviderStep, ProviderCreates, ReapExpired
<1>4. CASE Close
  BY <1>4 DEF Close
<1>5. CASE DeleteStep
  BY <1>5 DEF DeleteStep, DeleteSucceeds, DeleteFails
<1>6. CASE ExecMinute
  BY <1>6 DEF ExecMinute
<1>7. CASE UNCHANGED execVars
  BY <1>7 DEF execVars
<1> QED
  BY <1>1, <1>2, <1>3, <1>4, <1>5, <1>6, <1>7 DEF ExecNext

(* close() deletes that sandbox and no other.                               *)
LEMMA DeletesHandleStep == ExecInv /\ [ExecNext]_execVars => DeletesHandle'
<1> SUFFICES ASSUME ExecInv, [ExecNext]_execVars
             PROVE  DeletesHandle'
  OBVIOUS
<1> USE ThreadsAssumption
    DEF ExecInv, ExecTypeOK, OneCreator, OneHandle, DeletesHandle,
        Executing, Goto, RunnerGoto, Destroy, handleVars, threadVars,
        providerVars, deleteVars
<1>1. CASE \E t \in Threads, d \in Digests : NoCreateUnderway /\ Validate(t, d)
  BY <1>1 DEF NoCreateUnderway, Validate
<1>2. ASSUME NEW t \in Threads, ThreadStep(t)
      PROVE  DeletesHandle'
  <2>1. CASE ReuseSandbox(t) BY <2>1 DEF ReuseSandbox
  <2>2. CASE RefuseUnstaged(t) BY <2>2 DEF RefuseUnstaged
  <2>3. CASE RequestSandbox(t) BY <2>3 DEF RequestSandbox
  <2>4. CASE RegisterSandbox(t) BY <2>4 DEF RegisterSandbox
  <2>5. CASE CreateFails(t) BY <2>5 DEF CreateFails
  <2>6. CASE StageSandbox(t) BY <2>6 DEF StageSandbox
  <2>7. CASE StagingFails(t) BY <2>7 DEF StagingFails
  <2>8. CASE SubmitRequest(t) BY <2>8 DEF SubmitRequest
  <2>9. CASE SubmitFails(t) BY <2>9 DEF SubmitFails
  <2>10. CASE ExecutionPasses(t) BY <2>10 DEF ExecutionPasses
  <2>11. CASE ExecutionFails(t) BY <2>11 DEF ExecutionFails, WriteOutputs
  <2>12. CASE AdmitOutput(t) BY <2>12 DEF AdmitOutput
  <2>13. CASE WriteLabels(t) BY <2>13 DEF WriteLabels, WriteOutputs
  <2> QED
    BY <1>2, <2>1, <2>2, <2>3, <2>4, <2>5, <2>6, <2>7, <2>8, <2>9, <2>10,
       <2>11, <2>12, <2>13 DEF ThreadStep
<1>3. ASSUME NEW t \in Threads, ProviderStep(t)
      PROVE  DeletesHandle'
  BY <1>3 DEF ProviderStep, ProviderCreates, ReapExpired
<1>4. CASE Close
  BY <1>4 DEF Close
<1>5. CASE DeleteStep
  BY <1>5 DEF DeleteStep, DeleteSucceeds, DeleteFails
<1>6. CASE ExecMinute
  BY <1>6 DEF ExecMinute
<1>7. CASE UNCHANGED execVars
  BY <1>7 DEF execVars
<1> QED
  BY <1>1, <1>2, <1>3, <1>4, <1>5, <1>6, <1>7 DEF ExecNext

(* A digest that has passed keeps its files.                                *)
LEMMA PassedWroteStep == ExecInv /\ [ExecNext]_execVars => PassedWrote'
<1> SUFFICES ASSUME ExecInv, [ExecNext]_execVars
             PROVE  PassedWrote'
  OBVIOUS
<1> USE ThreadsAssumption
    DEF ExecInv, ExecTypeOK, OneCreator, OneHandle, PassedWrote,
        Executing, Goto, RunnerGoto, Destroy, handleVars, threadVars,
        providerVars, deleteVars
<1>1. CASE \E t \in Threads, d \in Digests : NoCreateUnderway /\ Validate(t, d)
  BY <1>1 DEF NoCreateUnderway, Validate
<1>2. ASSUME NEW t \in Threads, ThreadStep(t)
      PROVE  PassedWrote'
  <2>1. CASE ReuseSandbox(t) BY <2>1 DEF ReuseSandbox
  <2>2. CASE RefuseUnstaged(t) BY <2>2 DEF RefuseUnstaged
  <2>3. CASE RequestSandbox(t) BY <2>3 DEF RequestSandbox
  <2>4. CASE RegisterSandbox(t) BY <2>4 DEF RegisterSandbox
  <2>5. CASE CreateFails(t) BY <2>5 DEF CreateFails
  <2>6. CASE StageSandbox(t) BY <2>6 DEF StageSandbox
  <2>7. CASE StagingFails(t) BY <2>7 DEF StagingFails
  <2>8. CASE SubmitRequest(t) BY <2>8 DEF SubmitRequest
  <2>9. CASE SubmitFails(t) BY <2>9 DEF SubmitFails
  <2>10. CASE ExecutionPasses(t) BY <2>10 DEF ExecutionPasses
  <2>11. CASE ExecutionFails(t) BY <2>11 DEF ExecutionFails, WriteOutputs
  <2>12. CASE AdmitOutput(t) BY <2>12 DEF AdmitOutput
  <2>13. CASE WriteLabels(t) BY <2>13 DEF WriteLabels, WriteOutputs
  <2> QED
    BY <1>2, <2>1, <2>2, <2>3, <2>4, <2>5, <2>6, <2>7, <2>8, <2>9, <2>10,
       <2>11, <2>12, <2>13 DEF ThreadStep
<1>3. ASSUME NEW t \in Threads, ProviderStep(t)
      PROVE  PassedWrote'
  BY <1>3 DEF ProviderStep, ProviderCreates, ReapExpired
<1>4. CASE Close
  BY <1>4 DEF Close
<1>5. CASE DeleteStep
  BY <1>5 DEF DeleteStep, DeleteSucceeds, DeleteFails
<1>6. CASE ExecMinute
  BY <1>6 DEF ExecMinute
<1>7. CASE UNCHANGED execVars
  BY <1>7 DEF execVars
<1> QED
  BY <1>1, <1>2, <1>3, <1>4, <1>5, <1>6, <1>7 DEF ExecNext

-----------------------------------------------------------------------------
(* The invariant holds in every state of the executor.                     *)
LEMMA ExecInvariant == ExecSpec => []ExecInv
<1>1. ExecInv /\ [ExecNext]_execVars => ExecInv'
  BY ExecTypeStep, OneCreatorStep, OneHandleStep, DeletesHandleStep,
     PassedWroteStep DEF ExecInv
<1> QED
  BY ExecInvInit, <1>1, PTL DEF ExecSpec

(* In every reachable state each field of the executor and of the provider *)
(* has its type; in particular no live sandbox is older than its ttl.      *)
THEOREM ExecTypeCorrect == ExecSpec => []ExecTypeOK
<1>1. ExecInv => ExecTypeOK
  BY DEF ExecInv
<1> QED
  BY ExecInvariant, <1>1, PTL

(* Candidate SQL is never executed in a sandbox that is not private or not *)
(* fully staged (_ensure_sandbox), whichever thread staged it.             *)
THEOREM StagedBeforeUse == ExecSpec => []ExecutesOnlyStaged
<1>1. ExecInv => ExecutesOnlyStaged
  BY DEF ExecInv, OneHandle, Executing, ExecutesOnlyStaged
<1> QED
  BY ExecInvariant, <1>1, PTL

(* A deletion close() confirmed removed the sandbox of every thread.       *)
THEOREM CleanupConfirmed == ExecSpec => []ConfirmedMeansGone
<1>1. ExecInv => ConfirmedMeansGone
  BY DEF ExecInv, OneHandle, DeletesHandle, ConfirmedMeansGone
<1> QED
  BY ExecInvariant, <1>1, PTL

(* The registered handle is never replaced by another sandbox.             *)
THEOREM StableHandle == ExecSpec => HandleIsStable
<1>1. ExecInv /\ [ExecNext]_execVars =>
        [sandbox # None => sandbox' = sandbox]_sandbox
  <2> SUFFICES ASSUME ExecInv, ExecNext, sandbox # None
               PROVE  sandbox' = sandbox
    BY DEF execVars, handleVars
  <2>1. ASSUME NEW t \in Threads, ThreadStep(t)
        PROVE  sandbox' = sandbox
    <3>1. ~RegisterSandbox(t)
      BY DEF ExecInv, OneCreator, RegisterSandbox
    <3> QED
      BY <2>1, <3>1 DEF ThreadStep, ReuseSandbox, RefuseUnstaged,
         RequestSandbox, CreateFails, StageSandbox, StagingFails,
         SubmitRequest, SubmitFails, AdmitOutput, WriteLabels,
         ExecutionPasses, ExecutionFails,
         handleVars
  <2> QED
    BY <2>1 DEF ExecNext, Validate, ProviderStep, ProviderCreates,
       ReapExpired, Close, DeleteStep, DeleteSucceeds, DeleteFails,
       ExecMinute, handleVars
<1> QED
  BY ExecInvariant, <1>1, PTL DEF ExecSpec, HandleIsStable

-----------------------------------------------------------------------------
(* The run of the compiler, which uses both.                               *)

(* Only the awaited thread may be creating a sandbox, and it has been at   *)
(* it no longer than the tool has waited: create() ends before the tool    *)
(* gives up, because CreateTimeout < ToolTimeout.                          *)
CreatesWhileAwaited ==
  /\ run \in {"received", "model"} => NoCreateUnderway
  /\ run = "tool" =>
       /\ call \in Threads
       /\ \A t \in Threads : pc[t] \in {"ensure", "creating"} => t = call
       /\ pc[call] = "ensure" => waited = 0
       /\ pc[call] = "creating" => age[call] = waited /\ waited <= CreateTimeout

(* A record of evidence stands for a pass of its digest, and has the type  *)
(* of the artifact.                                                        *)
EvidenceIsEarned ==
  /\ \A t \in Threads : pc[t] # "idle" => artifacts[task[t]] # None
  /\ \A d \in Digests : evidence[d] # None =>
       /\ artifacts[d] # None /\ evidence[d].type = artifacts[d]
       /\ \E t \in Threads : pc[t] = "passed" /\ task[t] = d

(* What the artifact and the evidence of a ready draft say of each other.  *)
Supported(result) ==
  result.kind = "draft_ready" =>
    /\ result.digest \in Digests /\ result.type \in TaskTypes
    /\ artifacts[result.digest] = result.type
    /\ evidence[result.digest] = [type |-> result.type, finite |-> TRUE]

(* The phases of a run, and what close() has done in each.                 *)
Phases ==
  /\ run \in {"received", "model", "tool"} =>
       ~closed /\ deletion = "none" /\ outcome = None /\ response = None
  /\ run = "received" => sandbox = None
  /\ run = "closing" => response = None /\ outcome # None /\ closed
  /\ run = "answered" => response # None
  /\ outcome # None => Supported(outcome) /\ deletion # "none"
  /\ response # None /\ response.kind \in TypedAnswers =>
       \/ outcome = None /\ deletion = "none" /\ response.kind = "unsupported"
       \/ outcome = response /\ deletion \in {"skipped", "confirmed"}

(* A run that ends with an outcome ends while no tool is awaited, so no    *)
(* thread can register a sandbox behind the back of close().               *)
CloseSawSandbox ==
  run \in {"closing", "answered"} /\
  (outcome = None \/ outcome.kind \in TypedAnswers) =>
    /\ NoCreateUnderway
    /\ deletion \in {"none", "skipped"} => sandbox = None

RunInv ==
  /\ TypeOK /\ ExecInv /\ CreatesWhileAwaited
  /\ EvidenceIsEarned /\ Phases /\ CloseSawSandbox

-----------------------------------------------------------------------------
(* Every way the try block ends comes to FinishWith, with an answer that   *)
(* is only a typed one after a turn of the model, and only ready when      *)
(* _assemble found it supported.                                           *)
Ending == (\E d \in Digests : DecideReady(d)) \/ DecideOther \/ RunnerFails
            \/ OverallTimesOut \/ Cancelled

(* Every public error code makes a well-formed answer.                     *)
LEMMA AnswerTyped ==
  ASSUME NEW kind \in TypedAnswers \cup SanitizedErrors \cup Escapes
  PROVE  Answer(kind) \in Answers /\ Answer(kind).kind = kind
BY DEF Answer, Answers

(* What _assemble calls ready, the cache and the evidence support.         *)
LEMMA AssembleSupported ==
  ASSUME TypeOK, EvidenceIsEarned, NEW d \in Digests, NEW type \in TaskTypes,
         NEW agrees \in BOOLEAN, NEW complete \in BOOLEAN
  PROVE  /\ Assemble(d, type, agrees, complete) \in Answers
         /\ Supported(Assemble(d, type, agrees, complete))
<1> DEFINE result == Assemble(d, type, agrees, complete)
<1>1. CASE result = ReadyAnswer(d, artifacts[d])
  <2>1. CASE /\ artifacts[d] # None /\ evidence[d] # None
             /\ evidence[d].finite /\ type = artifacts[d]
    <3>1. evidence[d] \in Evidence
      BY <2>1 DEF TypeOK
    <3>2. evidence[d] = [type |-> artifacts[d], finite |-> TRUE]
      BY <2>1, <3>1 DEF Evidence, EvidenceIsEarned
    <3> QED
      BY <1>1, <2>1, <3>2 DEF ReadyAnswer, Answers, Supported, TypedAnswers
  <2>2. CASE ~(/\ artifacts[d] # None /\ evidence[d] # None
               /\ evidence[d].finite /\ type = artifacts[d])
    BY <1>1, <2>2 DEF Assemble, Answer, ReadyAnswer
  <2> QED
    BY <2>1, <2>2
<1>2. CASE result # ReadyAnswer(d, artifacts[d])
  <2>1. \E kind \in {"unvalidated_candidate", "invalid_evidence",
                     "candidate_mismatch", "provider_failure"} :
          result = Answer(kind)
    BY <1>2 DEF Assemble
  <2> QED
    BY <2>1, AnswerTyped DEF SanitizedErrors, Supported
<1> QED
  BY <1>1, <1>2

(* Whatever ends the try block, the answer is supported, and an outcome of *)
(* the model is only fixed while no tool is awaited.                       *)
LEMMA EndingFinishes ==
  ASSUME TypeOK, EvidenceIsEarned, Ending
  PROVE  \E result \in Answers :
           /\ FinishWith(result)
           /\ Supported(result)
           /\ run \in {"model", "tool"}
           /\ result.kind \in TypedAnswers => run = "model"
<1>1. CASE \E d \in Digests : DecideReady(d)
  BY <1>1, AssembleSupported DEF DecideReady
<1>2. CASE DecideOther
  <2>1. PICK kind \in {"needs_clarification", "unsupported"} :
          FinishWith(Answer(kind))
    BY <1>2 DEF DecideOther
  <2> QED
    BY <1>2, <2>1, AnswerTyped DEF DecideOther, TypedAnswers, Supported
<1>3. CASE RunnerFails \/ OverallTimesOut \/ Cancelled
  <2>1. PICK kind \in {"provider_failure", "compilation_failed",
                       "compiler_timeout", "cancelled"} :
          FinishWith(Answer(kind))
    BY <1>3 DEF RunnerFails, OverallTimesOut, Cancelled
  <2>2. kind \in SanitizedErrors \cup Escapes /\ kind \notin TypedAnswers
    BY DEF SanitizedErrors, Escapes, TypedAnswers
  <2>3. run \in {"model", "tool"}
    BY <1>3 DEF RunnerFails, OverallTimesOut, Cancelled
  <2> QED
    BY <2>1, <2>2, <2>3, AnswerTyped DEF TypedAnswers, Supported
<1> QED
  BY <1>1, <1>2, <1>3 DEF Ending

-----------------------------------------------------------------------------
(* What a step of a worker thread, or of the provider for it, leaves alone *)
(* and how it moves that thread.                                           *)
LEMMA ThreadFrame ==
  ASSUME ExecTypeOK, NEW t \in Threads, ThreadStep(t) \/ ProviderStep(t)
  PROVE  /\ UNCHANGED <<closed, task, deletion, target, deleteAge>>
         /\ \A u \in Threads \ {t} : pc'[u] = pc[u] /\ age'[u] = age[u]
         /\ pc'[t] = "idle" <=> pc[t] = "idle"
         /\ pc[t] = "passed" => pc'[t] = "passed"
         /\ pc'[t] = "ensure" => pc[t] = "ensure"
         /\ pc'[t] = "creating" =>
              \/ pc[t] = "creating" /\ age'[t] = age[t]
              \/ pc[t] = "ensure" /\ age'[t] = 0
         /\ sandbox' # sandbox => pc[t] = "creating"
<1> USE DEF ExecTypeOK, Executing, Goto, RunnerGoto, handleVars, threadVars,
        providerVars, deleteVars
<1>1. CASE ReuseSandbox(t) BY <1>1 DEF ReuseSandbox
<1>2. CASE RefuseUnstaged(t) BY <1>2 DEF RefuseUnstaged
<1>3. CASE RequestSandbox(t) BY <1>3 DEF RequestSandbox
<1>4. CASE RegisterSandbox(t) BY <1>4 DEF RegisterSandbox
<1>5. CASE CreateFails(t) BY <1>5 DEF CreateFails
<1>6. CASE StageSandbox(t) BY <1>6 DEF StageSandbox
<1>7. CASE StagingFails(t) BY <1>7 DEF StagingFails
<1>8. CASE SubmitRequest(t) BY <1>8 DEF SubmitRequest
<1>9. CASE SubmitFails(t) BY <1>9 DEF SubmitFails
<1>10. CASE ExecutionPasses(t) BY <1>10 DEF ExecutionPasses
<1>11. CASE ExecutionFails(t) BY <1>11 DEF ExecutionFails
<1>12. CASE AdmitOutput(t) BY <1>12 DEF AdmitOutput
<1>13. CASE WriteLabels(t) BY <1>13 DEF WriteLabels
<1>14. CASE ProviderStep(t)
  BY <1>14 DEF ProviderStep, ProviderCreates, ReapExpired
<1> QED
  BY <1>1, <1>2, <1>3, <1>4, <1>5, <1>6, <1>7, <1>8, <1>9, <1>10, <1>11,
     <1>12, <1>13, <1>14 DEF ThreadStep

(* Seen from the executor, every step of a run is a step of its            *)
(* specification: the agent never overlaps two creations.                  *)
LEMMA ExecutorStep ==
  CreatesWhileAwaited /\ [Next]_vars => [ExecNext]_execVars
<1> SUFFICES ASSUME CreatesWhileAwaited, [Next]_vars
             PROVE  [ExecNext]_execVars
  OBVIOUS
<1>1. ASSUME NEW t \in Threads, NEW d \in Digests, ExecuteValidated(t, d)
      PROVE  ExecNext
  BY <1>1 DEF ExecuteValidated, TakesTurn, CreatesWhileAwaited, ExecNext
<1>2. CASE Ending
  BY <1>2 DEF Ending, DecideReady, DecideOther, RunnerFails, OverallTimesOut,
     Cancelled, FinishWith, ExecNext
<1>3. CASE Background
  BY <1>3 DEF Background, ExecNext
<1>4. CASE Minute
  BY <1>4 DEF Minute, ExecNext
<1>5. CASE UNCHANGED execVars
  BY <1>5
<1> QED
  BY <1>1, <1>2, <1>3, <1>4, <1>5 DEF Next, Ending, AnswerWithoutRun,
     StartRun, StaticValidate, ToolReturns, ToolTimesOut, CancelledClosing,
     Respond, vars

(* One disjunct of Next at a time: the actions that leave the executor     *)
(* alone, the one that calls it, the endings, and time.                    *)
LEMMA TypeStep ==
  TypeOK /\ EvidenceIsEarned /\ CreatesWhileAwaited /\ [Next]_vars => TypeOK'
<1> SUFFICES ASSUME TypeOK, EvidenceIsEarned, CreatesWhileAwaited, [Next]_vars
             PROVE  TypeOK'
  OBVIOUS
<1>1. ExecTypeOK'
  BY ExecutorStep, ExecTypeStep DEF TypeOK
<1> USE TurnsAssumption, <1>1
    DEF TypeOK, CacheTypeOK, Runs, ToolTimeout, OverallTimeout, ModelTimeout,
        cacheVars
<1>2. CASE AnswerWithoutRun
  <2>1. PICK kind \in SanitizedErrors \cup {"unsupported", "internal_error"} :
          response' = Answer(kind)
    BY <1>2 DEF AnswerWithoutRun, SanitizedErrors
  <2>2. response' \in Answers
    BY <2>1, AnswerTyped DEF TypedAnswers, Escapes
  <2> QED
    BY <1>2, <2>2 DEF AnswerWithoutRun
<1>3. CASE StartRun
  BY <1>3 DEF StartRun
<1>4. CASE StaticValidate
  <2>1. turns' \in 0..MaxTurns /\ waited' = 0
    BY <1>4 DEF StaticValidate, TakesTurn
  <2>2. CacheTypeOK'
    <3>1. CASE UNCHANGED cacheVars
      BY <3>1
    <3>2. ASSUME NEW text \in Texts, NEW agrees \in BOOLEAN,
                 RefusePolicy(text, agrees)
          PROVE  CacheTypeOK'
      BY <3>2 DEF RefusePolicy
    <3>3. ASSUME NEW text \in Texts, NEW agrees \in BOOLEAN,
                 NEW type \in TaskTypes, Accept(text, agrees, type)
          PROVE  CacheTypeOK'
      BY <3>3, CacheAssumption DEF Accept
    <3> QED
      BY <1>4, <3>1, <3>2, <3>3 DEF StaticValidate, RefuseShape,
         RefuseExhausted
  <2> QED
    BY <1>4, <2>1, <2>2 DEF StaticValidate, TakesTurn
<1>5. ASSUME NEW t \in Threads, NEW d \in Digests, ExecuteValidated(t, d)
      PROVE  TypeOK'
  BY <1>5 DEF ExecuteValidated, TakesTurn
<1>6. CASE ToolReturns
  <2>1. evidence' \in [Digests -> Evidence \cup {None}]
    <3>1. CASE UNCHANGED evidence
      BY <3>1
    <3>2. ASSUME NEW finite \in BOOLEAN, pc[call] = "passed",
                 evidence' = [evidence EXCEPT ![task[call]] =
                               [type |-> artifacts[task[call]],
                                finite |-> finite]]
          PROVE  evidence' \in [Digests -> Evidence \cup {None}]
      <4>1. call \in Threads
        BY <1>6 DEF ToolReturns, CreatesWhileAwaited
      <4>2. artifacts[task[call]] # None /\ task[call] \in Digests
        BY <4>1, <3>2 DEF EvidenceIsEarned, ExecTypeOK
      <4>3. artifacts[task[call]] \in TaskTypes
        BY <4>2
      <4> QED
        BY <3>2, <4>3 DEF Evidence
    <3> QED
      BY <1>6, <3>1, <3>2 DEF ToolReturns
  <2> QED
    BY <1>6, <2>1 DEF ToolReturns
<1>7. CASE ToolTimesOut
  BY <1>7 DEF ToolTimesOut
<1>8. CASE Ending
  BY <1>8, EndingFinishes DEF FinishWith
<1>9. CASE Respond
  <2>1. Answer("sandbox_cleanup") \in Answers
    BY AnswerTyped DEF SanitizedErrors
  <2>2. response' \in Answers \cup {None}
    BY <1>9, <2>1 DEF Respond
  <2> QED
    BY <1>9, <2>2 DEF Respond
<1>10. CASE CancelledClosing
  <2>1. Answer("cancelled") \in Answers
    BY AnswerTyped DEF Escapes
  <2> QED
    BY <1>10, <2>1 DEF CancelledClosing
<1>11. CASE Background
  BY <1>11 DEF Background, compilerVars, runVars
<1>12. CASE Minute
  BY <1>12 DEF Minute
<1>13. CASE UNCHANGED vars
  BY <1>13 DEF vars, compilerVars, runVars
<1> QED
  BY <1>2, <1>3, <1>4, <1>5, <1>6, <1>7, <1>8, <1>9, <1>10, <1>11, <1>12,
     <1>13 DEF Next, Ending

(* The awaited thread is the only one that may be creating a sandbox, and  *)
(* the tool waits for it longer than create() may take.                    *)
LEMMA CreatesWhileAwaitedStep ==
  TypeOK /\ CreatesWhileAwaited /\ EvidenceIsEarned /\ [Next]_vars
    => CreatesWhileAwaited'
<1> SUFFICES ASSUME TypeOK, CreatesWhileAwaited, EvidenceIsEarned, [Next]_vars
             PROVE  CreatesWhileAwaited'
  OBVIOUS
<1> USE DEF TypeOK, ExecTypeOK, CreatesWhileAwaited, NoCreateUnderway,
        CreateTimeout, ToolTimeout
<1>1. CASE AnswerWithoutRun \/ StartRun \/ CancelledClosing \/ Respond
  BY <1>1 DEF AnswerWithoutRun, StartRun, CancelledClosing, Respond, execVars,
     threadVars
<1>2. CASE StaticValidate
  BY <1>2 DEF StaticValidate, TakesTurn, execVars, threadVars
<1>3. ASSUME NEW t \in Threads, NEW d \in Digests, ExecuteValidated(t, d)
      PROVE  CreatesWhileAwaited'
  BY <1>3 DEF ExecuteValidated, TakesTurn, Validate, Goto
<1>4. CASE ToolReturns \/ ToolTimesOut
  BY <1>4 DEF ToolReturns, ToolTimesOut, execVars, threadVars
<1>5. CASE Ending
  BY <1>5, EndingFinishes DEF FinishWith
<1>6. CASE Background
  <2>1. UNCHANGED <<run, call, waited>>
    BY <1>6 DEF Background, compilerVars, runVars
  <2>2. ASSUME NEW t \in Threads, ThreadStep(t) \/ ProviderStep(t)
        PROVE  CreatesWhileAwaited'
    BY <2>1, <2>2, ThreadFrame
  <2>3. CASE DeleteStep
    BY <2>1, <2>3 DEF DeleteStep, DeleteSucceeds, DeleteFails, threadVars
  <2> QED
    BY <1>6, <2>2, <2>3 DEF Background
<1>7. CASE Minute
  BY <1>7 DEF Minute, ExecMinute
<1>8. CASE UNCHANGED vars
  BY <1>8 DEF vars, compilerVars, runVars, execVars, threadVars
<1> QED
  BY <1>1, <1>2, <1>3, <1>4, <1>5, <1>6, <1>7, <1>8 DEF Next, Ending

(* Evidence is only recorded for a thread that has passed, and what it     *)
(* stands for never changes: a pass stays a pass, an artifact keeps its    *)
(* type.                                                                   *)
LEMMA EvidenceIsEarnedStep ==
  TypeOK /\ EvidenceIsEarned /\ CreatesWhileAwaited /\ [Next]_vars
    => EvidenceIsEarned'
<1> SUFFICES ASSUME TypeOK, EvidenceIsEarned, CreatesWhileAwaited, [Next]_vars
             PROVE  EvidenceIsEarned'
  OBVIOUS
<1> USE NoneAssumption
    DEF TypeOK, ExecTypeOK, CacheTypeOK, EvidenceIsEarned, cacheVars
<1>1. CASE AnswerWithoutRun \/ StartRun \/ CancelledClosing \/ Respond
             \/ ToolTimesOut
  BY <1>1 DEF AnswerWithoutRun, StartRun, CancelledClosing, Respond,
     ToolTimesOut, execVars, threadVars
<1>2. CASE StaticValidate
  <2>1. \A d \in Digests : artifacts[d] # None => artifacts'[d] = artifacts[d]
    <3>1. ASSUME NEW text \in Texts, NEW agrees \in BOOLEAN,
                 NEW type \in TaskTypes, Accept(text, agrees, type)
          PROVE  \A d \in Digests :
                   artifacts[d] # None => artifacts'[d] = artifacts[d]
      BY <3>1 DEF Accept
    <3> QED
      BY <1>2, <3>1 DEF StaticValidate, RefuseShape, RefuseExhausted,
         RefusePolicy
  <2>2. UNCHANGED <<pc, task, evidence>>
    BY <1>2 DEF StaticValidate, execVars, threadVars
  <2> QED
    BY <2>1, <2>2
<1>3. ASSUME NEW t \in Threads, NEW d \in Digests, ExecuteValidated(t, d)
      PROVE  EvidenceIsEarned'
  BY <1>3 DEF ExecuteValidated, Validate, Goto
<1>4. CASE ToolReturns
  <2>1. UNCHANGED <<pc, task, artifacts>> /\ call \in Threads
    BY <1>4 DEF ToolReturns, execVars, threadVars, CreatesWhileAwaited
  <2>2. ASSUME NEW finite \in BOOLEAN, pc[call] = "passed",
               evidence' = [evidence EXCEPT ![task[call]] =
                             [type |-> artifacts[task[call]],
                              finite |-> finite]]
        PROVE  EvidenceIsEarned'
    BY <2>1, <2>2
  <2>3. CASE UNCHANGED evidence
    BY <2>1, <2>3
  <2> QED
    BY <1>4, <2>2, <2>3 DEF ToolReturns
<1>5. CASE Ending
  <2>1. PICK result \in Answers : FinishWith(result)
    BY <1>5, EndingFinishes
  <2>2. UNCHANGED <<pc, task, artifacts, evidence>>
    BY <2>1 DEF FinishWith, Close, threadVars
  <2> QED
    BY <2>2
<1>6. CASE Background
  <2>1. UNCHANGED <<artifacts, evidence>>
    BY <1>6 DEF Background, compilerVars, runVars
  <2>2. ASSUME NEW t \in Threads, ThreadStep(t) \/ ProviderStep(t)
        PROVE  EvidenceIsEarned'
    BY <2>1, <2>2, ThreadFrame
  <2>3. CASE DeleteStep
    BY <2>1, <2>3 DEF DeleteStep, DeleteSucceeds, DeleteFails, threadVars
  <2> QED
    BY <1>6, <2>2, <2>3 DEF Background
<1>7. CASE Minute
  BY <1>7 DEF Minute, ExecMinute
<1>8. CASE UNCHANGED vars
  BY <1>8 DEF vars, compilerVars, runVars, execVars, threadVars
<1> QED
  BY <1>1, <1>2, <1>3, <1>4, <1>5, <1>6, <1>7, <1>8 DEF Next, Ending

(* Nothing the answer stands on changes once the answer is fixed.          *)
LEMMA SupportedStable ==
  ASSUME UNCHANGED <<artifacts, evidence>>, NEW result, Supported(result)
  PROVE  Supported(result)'
BY DEF Supported

(* The run goes through its phases in order; close() is called once, by    *)
(* the finally block, and the answer waits for it.                         *)
LEMMA PhasesStep ==
  TypeOK /\ EvidenceIsEarned /\ CreatesWhileAwaited /\ Phases /\ [Next]_vars
    => Phases'
<1> SUFFICES ASSUME TypeOK, EvidenceIsEarned, CreatesWhileAwaited, Phases,
                    [Next]_vars
             PROVE  Phases'
  OBVIOUS
<1> USE NoneAssumption DEF TypeOK, ExecTypeOK, Phases, cacheVars
<1>1. CASE AnswerWithoutRun
  <2>1. PICK kind \in SanitizedErrors \cup {"unsupported", "internal_error"} :
          response' = Answer(kind)
    BY <1>1 DEF AnswerWithoutRun, SanitizedErrors
  <2>2. response' \in Answers /\ response'.kind = kind
    BY <2>1, AnswerTyped DEF TypedAnswers, Escapes
  <2>3. kind \in TypedAnswers => kind = "unsupported"
    BY DEF TypedAnswers, SanitizedErrors
  <2>4. response' # None /\ UNCHANGED <<outcome, closed, deletion>>
    BY <1>1, <2>2 DEF AnswerWithoutRun, execVars, handleVars, deleteVars
  <2> QED
    BY <1>1, <2>2, <2>3, <2>4 DEF AnswerWithoutRun
<1>2. CASE StartRun \/ ToolReturns \/ ToolTimesOut
  BY <1>2 DEF StartRun, ToolReturns, ToolTimesOut, execVars, handleVars,
     deleteVars
<1>3. CASE StaticValidate
  BY <1>3 DEF StaticValidate, TakesTurn, execVars, handleVars, deleteVars
<1>4. ASSUME NEW t \in Threads, NEW d \in Digests, ExecuteValidated(t, d)
      PROVE  Phases'
  BY <1>4 DEF ExecuteValidated, TakesTurn, Validate, handleVars, deleteVars
<1>5. CASE Ending
  <2>1. PICK result \in Answers :
          /\ FinishWith(result) /\ Supported(result)
          /\ run \in {"model", "tool"}
    BY <1>5, EndingFinishes
  <2>2. /\ outcome' = result /\ outcome' # None /\ response' = None
        /\ run' = "closing" /\ closed' /\ deletion' # "none"
    BY <2>1 DEF FinishWith, Close
  <2>3. Supported(outcome)'
    BY <2>1, <2>2 DEF Supported, FinishWith
  <2> QED
    BY <2>2, <2>3
<1>6. CASE Respond
  <2>1. /\ outcome # None /\ deletion \notin {"none", "running"} /\ closed
        /\ UNCHANGED <<outcome, closed, deletion>>
    BY <1>6 DEF Respond, CloseReturned, execVars, handleVars, deleteVars
  <2>2. Supported(outcome)'
    BY <1>6, <2>1, SupportedStable DEF Respond
  <2>3. response' # None
        /\ (response'.kind \in TypedAnswers =>
               outcome = response' /\ deletion # "failed")
    <3>1. Answer("sandbox_cleanup").kind \notin TypedAnswers
          /\ Answer("sandbox_cleanup") \in Answers
      BY AnswerTyped DEF SanitizedErrors, TypedAnswers
    <3> QED
      BY <1>6, <2>1, <3>1 DEF Respond, CleanupReplaces
  <2> QED
    BY <1>6, <2>1, <2>2, <2>3 DEF Respond
<1>7. CASE Background
  <2>1. UNCHANGED <<run, outcome, response, artifacts, evidence>>
    BY <1>7 DEF Background, compilerVars, runVars
  <2>2. outcome # None => Supported(outcome)'
    BY <2>1, SupportedStable
  <2>3. ASSUME NEW t \in Threads, ThreadStep(t) \/ ProviderStep(t)
        PROVE  Phases'
    <3>1. UNCHANGED <<closed, deletion>>
          /\ (sandbox' # sandbox => pc[t] = "creating")
      BY <2>3, ThreadFrame
    <3>2. run = "received" => sandbox' = sandbox
      BY <3>1 DEF CreatesWhileAwaited, NoCreateUnderway
    <3> QED
      BY <2>1, <2>2, <3>1, <3>2
  <2>4. CASE DeleteStep
    <3>1. /\ deletion = "running" /\ deletion' \in {"confirmed", "failed"}
          /\ UNCHANGED <<sandbox, closed>>
      BY <2>4 DEF DeleteStep, DeleteSucceeds, DeleteFails, handleVars
    <3> QED
      BY <2>1, <2>2, <3>1
  <2> QED
    BY <1>7, <2>3, <2>4 DEF Background
<1>8. CASE Minute
  <2>1. UNCHANGED <<run, outcome, response, artifacts, evidence, sandbox,
                    closed, deletion>>
    BY <1>8 DEF Minute, ExecMinute, handleVars
  <2> QED
    BY <2>1, SupportedStable
<1>9. CASE UNCHANGED vars
  <2>1. UNCHANGED <<run, outcome, response, artifacts, evidence, sandbox,
                    closed, deletion>>
    BY <1>9 DEF vars, compilerVars, runVars, execVars, handleVars, deleteVars
  <2> QED
    BY <2>1, SupportedStable
<1>10. CASE CancelledClosing
  <2>1. /\ response' = Answer("cancelled") /\ run' = "answered"
        /\ UNCHANGED <<outcome, artifacts, evidence, sandbox, closed, deletion>>
    BY <1>10 DEF CancelledClosing, execVars, handleVars, deleteVars
  <2>2. response' # None /\ response'.kind \notin TypedAnswers
    BY <2>1, AnswerTyped DEF Escapes, TypedAnswers
  <2> QED
    BY <2>1, <2>2, SupportedStable
<1> QED
  BY <1>1, <1>2, <1>3, <1>4, <1>5, <1>6, <1>7, <1>8, <1>9, <1>10
  DEF Next, Ending

(* No sandbox appears behind the back of a close() that ends an outcome.   *)
LEMMA CloseSawSandboxStep ==
  RunInv /\ [Next]_vars => CloseSawSandbox'
<1> SUFFICES ASSUME RunInv, [Next]_vars
             PROVE  CloseSawSandbox'
  OBVIOUS
<1> USE NoneAssumption
    DEF RunInv, TypeOK, ExecTypeOK, CloseSawSandbox, NoCreateUnderway, cacheVars
<1>1. CASE AnswerWithoutRun
  BY <1>1 DEF AnswerWithoutRun, execVars, handleVars, threadVars, deleteVars,
     Phases, CreatesWhileAwaited
<1>2. CASE StartRun \/ ToolReturns \/ ToolTimesOut
  BY <1>2 DEF StartRun, ToolReturns, ToolTimesOut
<1>3. CASE StaticValidate
  BY <1>3 DEF StaticValidate, TakesTurn
<1>4. ASSUME NEW t \in Threads, NEW d \in Digests, ExecuteValidated(t, d)
      PROVE  CloseSawSandbox'
  BY <1>4 DEF ExecuteValidated
<1>5. CASE Ending
  <2>1. PICK result \in Answers :
          /\ FinishWith(result)
          /\ result.kind \in TypedAnswers => run = "model"
    BY <1>5, EndingFinishes
  <2>2. /\ outcome' = result /\ outcome' # None
        /\ UNCHANGED <<pc, sandbox>>
        /\ deletion' = IF sandbox = None THEN "skipped" ELSE "running"
    BY <2>1 DEF FinishWith, Close, threadVars
  <2> QED
    BY <2>1, <2>2 DEF CreatesWhileAwaited
<1>6. CASE Respond \/ CancelledClosing
  BY <1>6 DEF Respond, CancelledClosing, execVars, handleVars, threadVars,
     deleteVars
<1>7. CASE Background
  <2>1. UNCHANGED <<run, outcome>>
    BY <1>7 DEF Background, compilerVars, runVars
  <2>2. ASSUME NEW t \in Threads, ThreadStep(t) \/ ProviderStep(t)
        PROVE  CloseSawSandbox'
    BY <2>1, <2>2, ThreadFrame
  <2>3. CASE DeleteStep
    BY <2>1, <2>3 DEF DeleteStep, DeleteSucceeds, DeleteFails, handleVars,
       threadVars
  <2> QED
    BY <1>7, <2>2, <2>3 DEF Background
<1>8. CASE Minute
  BY <1>8 DEF Minute, ExecMinute, handleVars
<1>9. CASE UNCHANGED vars
  BY <1>9 DEF vars, compilerVars, runVars, execVars, handleVars, threadVars,
     deleteVars
<1> QED
  BY <1>1, <1>2, <1>3, <1>4, <1>5, <1>6, <1>7, <1>8, <1>9 DEF Next, Ending

-----------------------------------------------------------------------------
(* Before the request nothing exists.                                      *)
LEMMA RunInvInit == Init => RunInv
<1> SUFFICES ASSUME Init
             PROVE  RunInv
  OBVIOUS
<1>1. ExecInv
  BY ExecInvInit DEF Init
<1>2. TypeOK
  BY <1>1, TurnsAssumption DEF Init, TypeOK, CacheTypeOK, CacheInit, ExecInv,
     Runs, ToolTimeout, OverallTimeout
<1>3. CreatesWhileAwaited /\ CloseSawSandbox
  BY DEF Init, ExecInit, CreatesWhileAwaited, NoCreateUnderway, CloseSawSandbox
<1>4. EvidenceIsEarned /\ Phases
  BY DEF Init, ExecInit, EvidenceIsEarned, Phases
<1> QED
  BY <1>1, <1>2, <1>3, <1>4 DEF RunInv

(* The invariant of a run.  The executor's part of it is that module's:    *)
(* ExecutorStep makes its lemmas hold here.                                *)
LEMMA RunInvariant == Spec => []RunInv
<1>1. RunInv /\ [Next]_vars => ExecInv'
  BY ExecutorStep, ExecTypeStep, OneCreatorStep, OneHandleStep,
     DeletesHandleStep, PassedWroteStep DEF RunInv, ExecInv
<1>2. RunInv /\ [Next]_vars => RunInv'
  BY <1>1, TypeStep, CreatesWhileAwaitedStep, EvidenceIsEarnedStep,
     PhasesStep, CloseSawSandboxStep DEF RunInv
<1> QED
  BY RunInvInit, <1>2, PTL DEF Spec

(* Every variable of a run keeps its type: no await outlives its timeout   *)
(* and the agent takes no more than MaxTurns turns.                        *)
THEOREM TypeCorrect == Spec => []TypeOK
<1>1. RunInv => TypeOK
  BY DEF RunInv
<1> QED
  BY RunInvariant, <1>1, PTL

(* The agent never makes two overlapping creations: an abandoned thread is *)
(* past create() before the agent gets its next turn.  So every theorem    *)
(* about the executor under its discipline is one about every run.         *)
THEOREM DisciplineKept == Spec => KeepsExecutorDiscipline
<1>1. RunInv => CreatesWhileAwaited
  BY DEF RunInv
<1>2. Init => ExecInit
  BY DEF Init
<1> QED
  BY RunInvariant, <1>1, <1>2, ExecutorStep, PTL
  DEF Spec, KeepsExecutorDiscipline, ExecSpec

(* A ready draft was executed in the sandbox of this run, with finite      *)
(* evidence of the type it declares (_assemble).                           *)
THEOREM ReadyDraftsAreTested == Spec => []ReadyIsTested
<1>1. RunInv => ReadyIsTested
  <2> SUFFICES ASSUME RunInv, response # None, response.kind = "draft_ready"
               PROVE  ReadyIsTested
    BY DEF ReadyIsTested
  <2>1. outcome = response /\ Supported(response)
    BY DEF RunInv, Phases, TypedAnswers
  <2>2. /\ response.digest \in Digests
        /\ artifacts[response.digest] = response.type
        /\ evidence[response.digest] = [type |-> response.type, finite |-> TRUE]
    BY <2>1 DEF Supported
  <2>3. evidence[response.digest] # None
    <3>1. response.type \in TaskTypes
      BY <2>1 DEF Supported
    <3>2. [type |-> response.type, finite |-> TRUE] \in Evidence
      BY <3>1 DEF Evidence
    <3> QED
      BY <2>2, <3>2, NoneAssumption
  <2>4. \E t \in Threads : pc[t] = "passed" /\ task[t] = response.digest
    BY <2>2, <2>3 DEF RunInv, EvidenceIsEarned
  <2> QED
    BY <2>2, <2>4 DEF ReadyIsTested
<1> QED
  BY RunInvariant, <1>1, PTL

(* When a run answers with an outcome its sandbox is gone, and none can    *)
(* appear any more.                                                        *)
THEOREM NoSandboxAfterOutcome == Spec => []OutcomeLeavesNoSandbox
<1>1. RunInv => OutcomeLeavesNoSandbox
  <2> SUFFICES ASSUME RunInv, response # None, response.kind \in TypedAnswers
               PROVE  sandbox \notin Live /\ NoCreateUnderway
    BY DEF OutcomeLeavesNoSandbox
  <2>1. run = "answered"
    BY DEF RunInv, TypeOK, Runs, Phases
  <2>2. /\ outcome = None \/ outcome = response
        /\ deletion \in {"none", "skipped", "confirmed"}
    BY DEF RunInv, Phases
  <2>3. /\ NoCreateUnderway
        /\ deletion \in {"none", "skipped"} => sandbox = None
    BY <2>1, <2>2 DEF RunInv, CloseSawSandbox
  <2>4. deletion = "confirmed" => remote[sandbox] = "gone"
    BY DEF RunInv, ExecInv, DeletesHandle
  <2> QED
    BY <2>2, <2>3, <2>4, ThreadsAssumption DEF Live
<1> QED
  BY RunInvariant, <1>1, PTL

-----------------------------------------------------------------------------
(* A call for a digest whose evidence is recorded never gets past the      *)
(* check of the output directory.                                          *)
RecordedStopsCall ==
  run = "tool" /\ evidence[task[call]] # None =>
    pc[call] \notin {"materializing", "written", "passed"}

(* What evidence was recorded for left its files in the sandbox of the run.*)
LEMMA RecordedWrote ==
  ASSUME RunInv, NEW d \in Digests, evidence[d] # None
  PROVE  d \in outputs[sandbox]
BY DEF RunInv, EvidenceIsEarned, ExecInv, PassedWrote

(* Such a call starts before that check, and the check refuses the files   *)
(* of the recorded pass: there is only one sandbox to execute in.          *)
LEMMA RecordedStopsCallStep ==
  RunInv /\ RecordedStopsCall /\ [Next]_vars => RecordedStopsCall'
<1> SUFFICES ASSUME RunInv, RecordedStopsCall, [Next]_vars
             PROVE  RecordedStopsCall'
  OBVIOUS
<1> USE DEF RecordedStopsCall
<1>1. CASE run' # "tool"
  BY <1>1
<1>2. CASE UNCHANGED <<run, call, task, evidence, pc>>
  BY <1>2
<1>3. CASE AnswerWithoutRun \/ StartRun \/ ToolReturns \/ ToolTimesOut
             \/ CancelledClosing \/ Respond
  BY <1>1, <1>3 DEF AnswerWithoutRun, StartRun, ToolReturns, ToolTimesOut,
     CancelledClosing, Respond
<1>4. CASE StaticValidate \/ UNCHANGED vars
  BY <1>2, <1>4 DEF StaticValidate, vars, compilerVars, runVars, execVars,
     threadVars
<1>5. ASSUME NEW t \in Threads, NEW d \in Digests, ExecuteValidated(t, d)
      PROVE  RecordedStopsCall'
  BY <1>5 DEF ExecuteValidated, Validate, Goto, RunInv, TypeOK, ExecTypeOK
<1>6. CASE Ending
  BY <1>1, <1>6, EndingFinishes DEF RunInv, FinishWith
<1>7. CASE Background
  <2>1. UNCHANGED <<run, call, evidence>>
    BY <1>7 DEF Background, compilerVars, runVars
  <2>2. ASSUME NEW t \in Threads, ThreadStep(t) \/ ProviderStep(t),
               run = "tool", evidence[task[call]] # None
        PROVE  pc'[call] \notin {"materializing", "written", "passed"}
    <3>1. /\ call \in Threads /\ ExecTypeOK
          /\ pc[call] \notin {"materializing", "written", "passed"}
      BY <2>2 DEF RunInv, TypeOK, CreatesWhileAwaited
    <3>2. CASE t # call
      BY <2>2, <3>1, <3>2, ThreadFrame
    <3>3. CASE t = call /\ pc[call] = "executing"
      <4>1. /\ task[call] \in Digests
            /\ box[call] = sandbox
        BY <3>1, <3>3 DEF ExecTypeOK, RunInv, ExecInv, OneHandle, Executing
      <4>2. ~AdmitOutput(call)
        BY <2>2, <4>1, RecordedWrote DEF AdmitOutput
      <4> QED
        BY <2>2, <3>1, <3>3, <4>2 DEF ThreadStep, ProviderStep, ExecTypeOK,
           ReuseSandbox, RefuseUnstaged, RequestSandbox, RegisterSandbox,
           CreateFails, StageSandbox, StagingFails, SubmitRequest, SubmitFails,
           WriteLabels, ExecutionPasses, ExecutionFails, ProviderCreates,
           ReapExpired, Goto, threadVars
    <3>4. CASE t = call /\ pc[call] # "executing"
      BY <2>2, <3>1, <3>4 DEF ThreadStep, ProviderStep, ExecTypeOK,
         ReuseSandbox, RefuseUnstaged, RequestSandbox, RegisterSandbox,
         CreateFails, StageSandbox, StagingFails, SubmitRequest, SubmitFails,
         AdmitOutput, WriteLabels, ExecutionPasses, ExecutionFails,
         ProviderCreates, ReapExpired, Goto, threadVars
    <3> QED
      BY <3>2, <3>3, <3>4
  <2>3. ASSUME NEW t \in Threads, ThreadStep(t) \/ ProviderStep(t)
        PROVE  RecordedStopsCall'
    <3>1. task' = task
      BY <2>3, ThreadFrame DEF RunInv, TypeOK
    <3> QED
      BY <2>1, <2>2, <2>3, <3>1
  <2>4. CASE DeleteStep
    BY <1>2, <2>1, <2>4 DEF DeleteStep, DeleteSucceeds, DeleteFails, threadVars
  <2> QED
    BY <1>7, <2>3, <2>4 DEF Background
<1>8. CASE Minute
  BY <1>2, <1>8 DEF Minute, ExecMinute
<1> QED
  BY <1>3, <1>4, <1>5, <1>6, <1>7, <1>8 DEF Next, Ending

(* Recorded evidence is never replaced, although calls that were given up  *)
(* may pass with the same digest.                                          *)
THEOREM RecordedEvidenceStays == Spec => EvidenceIsFinal
<1>1. Init => RecordedStopsCall
  BY DEF Init, RecordedStopsCall
<1>2. RunInv /\ RecordedStopsCall /\ [Next]_vars =>
        [\A d \in Digests : evidence[d] # None => evidence'[d] = evidence[d]]_vars
  <2> SUFFICES ASSUME RunInv, RecordedStopsCall, [Next]_vars,
                      NEW d \in Digests, evidence[d] # None
               PROVE  evidence'[d] = evidence[d]
    OBVIOUS
  <2>1. CASE UNCHANGED evidence
    BY <2>1
  <2>2. CASE ToolReturns
    BY <2>2 DEF ToolReturns, RecordedStopsCall, RunInv, TypeOK
  <2>3. CASE Ending
    BY <2>1, <2>3, EndingFinishes DEF RunInv, FinishWith
  <2> QED
    BY <2>1, <2>2, <2>3 DEF Next, Ending, AnswerWithoutRun, StartRun,
       StaticValidate, ExecuteValidated, ToolTimesOut, CancelledClosing,
       Respond, Background, Minute, vars, compilerVars, runVars
<1> QED
  BY <1>1, <1>2, RecordedStopsCallStep, RunInvariant, PTL
  DEF Spec, EvidenceIsFinal

-----------------------------------------------------------------------------
(* Respond decides once, by a deletion that has ended, and nothing it has  *)
(* decided by changes afterwards.                                          *)
LEMMA CleanupStep ==
  RunInv /\ CleanupHidesNoError /\ [Next]_vars => CleanupHidesNoError'
<1> SUFFICES ASSUME RunInv, CleanupHidesNoError, [Next]_vars
             PROVE  CleanupHidesNoError'
  OBVIOUS
<1> USE DEF CleanupHidesNoError
<1>1. CASE run' # "answered"
  BY <1>1
<1>2. CASE /\ UNCHANGED <<run, outcome, response>>
           /\ deletion = "failed" => deletion' = "failed"
  BY <1>2
<1>3. CASE AnswerWithoutRun
  BY <1>3 DEF AnswerWithoutRun, RunInv, Phases
<1>4. CASE CancelledClosing
  BY <1>4, AnswerTyped DEF CancelledClosing, Escapes
<1>5. CASE Respond
  <2>1. CASE deletion = "failed" /\ CleanupReplaces(outcome)
    <3>1. /\ response' = Answer("sandbox_cleanup")
          /\ UNCHANGED <<outcome, deletion>>
      BY <1>5, <2>1 DEF Respond, execVars, deleteVars
    <3>2. Answer("sandbox_cleanup").kind = "sandbox_cleanup"
      BY AnswerTyped DEF SanitizedErrors
    <3>3. outcome.kind \notin SanitizedErrors
      BY <2>1 DEF CleanupReplaces, TypedAnswers, SanitizedErrors
    <3> QED
      BY <2>1, <3>1, <3>2, <3>3
  <2>2. CASE ~(deletion = "failed" /\ CleanupReplaces(outcome))
    BY <1>5, <2>2 DEF Respond
  <2> QED
    BY <2>1, <2>2
<1>6. CASE Ending
  BY <1>1, <1>6, EndingFinishes DEF RunInv, FinishWith
<1>7. CASE StartRun \/ StaticValidate \/ ToolReturns \/ ToolTimesOut
             \/ \E t \in Threads, d \in Digests : ExecuteValidated(t, d)
  BY <1>1, <1>7 DEF StartRun, StaticValidate, TakesTurn, ToolReturns,
     ToolTimesOut, ExecuteValidated
<1>8. CASE Background
  <2>1. UNCHANGED <<run, outcome, response>>
    BY <1>8 DEF Background, compilerVars, runVars
  <2>2. ASSUME NEW t \in Threads, ThreadStep(t) \/ ProviderStep(t)
        PROVE  UNCHANGED deletion
    BY <2>2, ThreadFrame DEF RunInv, TypeOK
  <2>3. CASE DeleteStep
    BY <1>2, <2>1, <2>3 DEF DeleteStep, DeleteSucceeds, DeleteFails
  <2> QED
    BY <1>2, <1>8, <2>1, <2>2, <2>3 DEF Background
<1>9. CASE Minute \/ UNCHANGED vars
  BY <1>2, <1>9 DEF Minute, ExecMinute, vars, compilerVars, runVars, execVars,
     deleteVars
<1> QED
  BY <1>3, <1>4, <1>5, <1>6, <1>7, <1>8, <1>9 DEF Next, Ending

(* The client learns why its run failed, whatever becomes of the sandbox.  *)
THEOREM ErrorsSurviveCleanup == Spec => []CleanupHidesNoError
<1>1. Init => CleanupHidesNoError
  BY DEF Init, CleanupHidesNoError
<1> QED
  BY <1>1, CleanupStep, RunInvariant, PTL DEF Spec

-----------------------------------------------------------------------------
(* The cache only changes when a candidate is validated.                   *)
LEMMA BudgetInvariant == Spec => []BudgetKept
<1>1. Init => BudgetKept
  BY BudgetInit DEF Init
<1>2. TypeOK /\ BudgetKept /\ [Next]_vars => BudgetKept'
  <2> SUFFICES ASSUME TypeOK, BudgetKept, [Next]_vars
               PROVE  BudgetKept'
    OBVIOUS
  <2>1. CASE StaticValidate
    <3>1. CASE UNCHANGED cacheVars
      BY <3>1 DEF cacheVars, BudgetKept, Accepted
    <3>2. ASSUME NEW text \in Texts, NEW agrees \in BOOLEAN,
                 NEW type \in TaskTypes,
                 RefusePolicy(text, agrees) \/ Accept(text, agrees, type)
          PROVE  BudgetKept'
      BY <3>2, BudgetStep DEF TypeOK
    <3>3. TaskTypes # {}
      BY DEF TaskTypes
    <3> QED
      BY <2>1, <3>1, <3>2, <3>3 DEF StaticValidate, RefuseShape,
         RefuseExhausted
  <2>2. CASE UNCHANGED cacheVars
    BY <2>2 DEF cacheVars, BudgetKept, Accepted
  <2>3. CASE Ending
    BY <2>2, <2>3 DEF Ending, DecideReady, DecideOther, RunnerFails,
       OverallTimesOut, Cancelled, FinishWith
  <2> QED
    BY <2>1, <2>2, <2>3 DEF Next, Ending, AnswerWithoutRun, StartRun,
       ExecuteValidated, ToolReturns, ToolTimesOut, CancelledClosing, Respond,
       Background, Minute, vars, compilerVars, cacheVars
<1>3. RunInv => TypeOK
  BY DEF RunInv
<1> QED
  BY <1>1, <1>2, <1>3, RunInvariant, PTL DEF Spec

(* Threads that overlap, are abandoned or are retried never make a run     *)
(* execute more distinct queries than the repair budget allows.            *)
THEOREM ExecutionsBounded == Spec => []ExecutionsWithinBudget
<1>1. RunInv /\ BudgetKept => ExecutionsWithinBudget
  <2> SUFFICES ASSUME RunInv, BudgetKept
               PROVE  ExecutionsWithinBudget
    OBVIOUS
  <2> DEFINE Executed == {task[t] : t \in {u \in Threads : pc[u] # "idle"}}
  <2>1. Executed \subseteq Accepted
    BY DEF RunInv, TypeOK, ExecTypeOK, EvidenceIsEarned, Accepted
  <2>2. IsFiniteSet(Accepted) /\ Cardinality(Accepted) <= MaxCandidates
    BY FewAccepted
  <2>3. /\ Cardinality(Executed) <= Cardinality(Accepted)
        /\ Cardinality(Executed) \in Nat /\ Cardinality(Accepted) \in Nat
    <3> HIDE DEF Executed
    <3> QED
      BY <2>1, <2>2, FS_Subset, FS_CardinalityType
  <2>4. Cardinality(Executed) <= MaxCandidates
    <3> HIDE DEF Executed
    <3> QED
      BY <2>2, <2>3, CacheAssumption
  <2> QED
    BY <2>4 DEF ExecutionsWithinBudget
<1> QED
  BY <1>1, RunInvariant, BudgetInvariant, PTL

-----------------------------------------------------------------------------
(* The steps of a run that change what the contract sees.                  *)
Tested == {d \in Digests : evidence[d] # None}

(* The contract speaks of the same answers, types and cardinalities.       *)
LEMMA ContractVocabulary ==
  /\ Contract!TaskTypes = TaskTypes
  /\ Contract!Answers = Answers
  /\ \A S : Contract!Cardinality(S) = Cardinality(S)
<1>1. Contract!TaskTypes = TaskTypes
  BY DEF Contract!TaskTypes, TaskTypes
<1>2. Contract!Answers = Answers
  BY <1>1 DEF Contract!Answers, Answers, Contract!TypedAnswers, TypedAnswers,
     Contract!SanitizedErrors, SanitizedErrors, Contract!Escapes, Escapes
<1>3. \A S : Contract!Cardinality(S) = Cardinality(S)
  BY DEF Contract!Cardinality, Cardinality
<1> QED
  BY <1>1, <1>2, <1>3

(* Every step of a run is a step of the contract or leaves it alone.       *)
LEMMA ContractStep ==
  RunInv /\ BudgetKept' /\ [Next]_vars
    => [Contract!Next]_(Contract!contractVars)
<1> SUFFICES ASSUME RunInv, BudgetKept', [Next]_vars
             PROVE  [Contract!Next]_(Contract!contractVars)
  OBVIOUS
<1> USE DEF RunInv, TypeOK
<1>1. CASE AnswerWithoutRun
  <2>1. PICK kind \in SanitizedErrors \cup {"unsupported", "internal_error"} :
          response' = Answer(kind)
    BY <1>1 DEF AnswerWithoutRun, SanitizedErrors
  <2>2. response' \in Answers /\ response'.kind = kind
    BY <2>1, AnswerTyped DEF TypedAnswers, Escapes
  <2>3. kind # "draft_ready"
    BY DEF SanitizedErrors
  <2>4. response = None /\ UNCHANGED <<artifacts, evidence>>
    BY <1>1 DEF AnswerWithoutRun, Phases, cacheVars
  <2> QED
    BY <2>2, <2>3, <2>4, ContractVocabulary
    DEF Contract!Next, Contract!AnswerOtherwise
<1>2. CASE StaticValidate
  <2>1. response = None /\ UNCHANGED <<evidence, response>>
    BY <1>2 DEF StaticValidate, TakesTurn, Phases
  <2>2. CASE UNCHANGED artifacts
    BY <2>1, <2>2 DEF Contract!contractVars
  <2>3. ASSUME NEW text \in Texts, NEW agrees \in BOOLEAN,
               NEW type \in TaskTypes, Accept(text, agrees, type)
        PROVE  [Contract!Next]_(Contract!contractVars)
    <3> DEFINE d == Normalize[text]
    <3>1. d \in Digests
      BY <2>3, CacheAssumption DEF Accept, PolicyAccepts
    <3>2. CASE artifacts[d] # None
      BY <2>2, <2>3, <3>1, <3>2 DEF Accept, CacheTypeOK
    <3>3. CASE artifacts[d] = None
      <4>1. artifacts' = [artifacts EXCEPT ![d] = type]
        BY <2>3, <3>3 DEF Accept, CacheTypeOK
      <4>2. Cardinality({e \in Digests : artifacts'[e] # None})
              <= MaxCandidates
        <5>1. (IsFiniteSet(Accepted) /\ Cardinality(Accepted) <= MaxCandidates)'
          BY FewAccepted, PTL
        <5> QED
          BY <5>1 DEF Accepted
      <4>3. Contract!Accept(d, type)
        <5>1. Contract!Cardinality({e \in Digests : artifacts'[e] # None})
                <= MaxCandidates
          BY <4>2, ContractVocabulary
        <5> QED
          BY <2>1, <3>3, <4>1, <5>1 DEF Contract!Accept
      <4> QED
        BY <2>3, <3>1, <4>3, ContractVocabulary DEF Contract!Next
    <3> QED
      BY <3>2, <3>3
  <2> QED
    BY <1>2, <2>2, <2>3 DEF StaticValidate, RefuseShape, RefuseExhausted,
       RefusePolicy, cacheVars
<1>3. CASE ToolReturns
  <2>1. response = None /\ UNCHANGED <<artifacts, response>> /\ call \in Threads
    BY <1>3 DEF ToolReturns, Phases, cacheVars, CreatesWhileAwaited
  <2>2. ASSUME NEW finite \in BOOLEAN, pc[call] = "passed",
               evidence' = [evidence EXCEPT ![task[call]] =
                             [type |-> artifacts[task[call]],
                              finite |-> finite]]
        PROVE  Contract!Next
    <3>1. task[call] \in Digests /\ artifacts[task[call]] # None
      BY <2>1, <2>2 DEF EvidenceIsEarned, ExecTypeOK
    <3>2. PICK d \in Digests : d = task[call] /\ artifacts[d] # None
      BY <3>1
    <3>3. [type |-> artifacts[d], finite |-> finite] \in Evidence
      BY <3>2 DEF Evidence, CacheTypeOK
    <3>4. Tested' = Tested \cup {d}
      BY <2>2, <3>2, <3>3, NoneAssumption DEF Tested
    <3>5. Contract!Test(d)
      BY <2>1, <3>2, <3>4 DEF Contract!Test, Tested
    <3> QED
      BY <3>5 DEF Contract!Next
  <2> QED
    BY <1>3, <2>1, <2>2 DEF ToolReturns, Contract!contractVars
<1>4. CASE Ending
  <2>1. PICK result \in Answers : FinishWith(result)
    BY <1>4, EndingFinishes
  <2> QED
    BY <2>1 DEF FinishWith, cacheVars, Contract!contractVars
<1>5. CASE Respond
  <2>1. /\ response = None /\ outcome \in Answers /\ Supported(outcome)
        /\ UNCHANGED <<artifacts, evidence>>
    BY <1>5 DEF Respond, Phases, cacheVars
  <2>2. /\ Answer("sandbox_cleanup") \in Answers
        /\ Answer("sandbox_cleanup").kind # "draft_ready"
    BY AnswerTyped DEF SanitizedErrors
  <2>3. CASE response' = outcome /\ outcome.kind = "draft_ready"
    <3>1. /\ outcome.digest \in Digests
          /\ outcome = ReadyAnswer(outcome.digest, artifacts[outcome.digest])
      BY <2>1, <2>3 DEF Supported, Answers, ReadyAnswer
    <3>2. evidence[outcome.digest] # None
      <4>1. /\ outcome.type \in TaskTypes
            /\ evidence[outcome.digest] = [type |-> outcome.type,
                                           finite |-> TRUE]
        BY <2>1, <2>3 DEF Supported
      <4>2. [type |-> outcome.type, finite |-> TRUE] \in Evidence
        BY <4>1 DEF Evidence
      <4> QED
        BY <4>1, <4>2, NoneAssumption
    <3>3. Contract!AnswerReady(outcome.digest)
      BY <2>1, <2>3, <3>1, <3>2 DEF Contract!AnswerReady,
         Contract!ReadyAnswer, ReadyAnswer
    <3> QED
      BY <3>1, <3>3 DEF Contract!Next
  <2>4. CASE response' \in Answers /\ response'.kind # "draft_ready"
    BY <2>1, <2>4, ContractVocabulary
    DEF Contract!Next, Contract!AnswerOtherwise
  <2> QED
    BY <1>5, <2>1, <2>2, <2>3, <2>4 DEF Respond
<1>6. CASE UNCHANGED <<artifacts, evidence, response>>
  BY <1>6 DEF Contract!contractVars
<1>7. CASE CancelledClosing
  <2>1. response' \in Answers /\ response'.kind # "draft_ready"
    BY <1>7, AnswerTyped DEF CancelledClosing, Escapes
  <2>2. response = None /\ UNCHANGED <<artifacts, evidence>>
    BY <1>7 DEF CancelledClosing, Phases, cacheVars
  <2> QED
    BY <2>1, <2>2, ContractVocabulary
    DEF Contract!Next, Contract!AnswerOtherwise
<1> QED
  BY <1>1, <1>2, <1>3, <1>4, <1>5, <1>6, <1>7 DEF Next, Ending, StartRun,
     ExecuteValidated, ToolTimesOut, Background, Minute, vars, compilerVars,
     runVars, cacheVars

(* A run implements the contract of its reader: artifacts are accepted     *)
(* once, within the budget, tested when accepted, and answered as tested.  *)
THEOREM ContractKept == Spec => ImplementsContract
<1>1. Init => Contract!Init
  BY DEF Init, CacheInit, Contract!Init
<1> QED
  BY <1>1, ContractStep, RunInvariant, BudgetInvariant, PTL
  DEF Spec, ImplementsContract, Contract!Spec

-----------------------------------------------------------------------------
(* No sandbox is older than the run that had it created.                   *)
LifeWithinRun ==
  /\ \A s \in Threads : remote[s] = "absent" => life[s] = 0
  /\ run = "received" => \A s \in Threads : remote[s] # "live"
  /\ run \in {"model", "tool"} =>
       \A s \in Threads : remote[s] = "live" => life[s] <= elapsed

(* The clocks of the run and of its sandbox advance together, and a        *)
(* sandbox is only created while the run is under way.                     *)
LEMMA LifeStep ==
  TypeOK /\ CreatesWhileAwaited /\ LifeWithinRun /\ [Next]_vars
    => LifeWithinRun'
<1> SUFFICES ASSUME TypeOK, CreatesWhileAwaited, LifeWithinRun, [Next]_vars
             PROVE  LifeWithinRun'
  OBVIOUS
<1> USE DEF TypeOK, ExecTypeOK, LifeWithinRun, SandboxTtl
<1>1. CASE /\ UNCHANGED <<remote, life, elapsed>>
           /\ run' = "received" => run = "received"
           /\ run' \in {"model", "tool"} => run \in {"received", "model", "tool"}
  BY <1>1
<1>2. CASE AnswerWithoutRun \/ StartRun \/ StaticValidate \/ ToolReturns
             \/ ToolTimesOut \/ CancelledClosing \/ Respond \/ UNCHANGED vars
  BY <1>1, <1>2 DEF AnswerWithoutRun, StartRun, StaticValidate, TakesTurn,
     ToolReturns, ToolTimesOut, CancelledClosing, Respond, vars, compilerVars,
     runVars, execVars, providerVars
<1>3. ASSUME NEW t \in Threads, NEW d \in Digests, ExecuteValidated(t, d)
      PROVE  LifeWithinRun'
  BY <1>1, <1>3 DEF ExecuteValidated, TakesTurn, Validate, providerVars
<1>4. CASE Ending
  BY <1>4, EndingFinishes DEF Ending, DecideReady, DecideOther, RunnerFails,
     OverallTimesOut, Cancelled, FinishWith, Close, providerVars
<1>5. CASE Background
  <2>1. UNCHANGED <<run, elapsed>>
    BY <1>5 DEF Background, compilerVars, runVars
  <2>2. ASSUME NEW t \in Threads, ThreadStep(t)
        PROVE  LifeWithinRun'
    <3>1. UNCHANGED <<remote, life>>
      BY <2>2 DEF ThreadStep, ReuseSandbox, RefuseUnstaged, RequestSandbox,
         RegisterSandbox, CreateFails, StageSandbox, StagingFails,
         SubmitRequest, SubmitFails, AdmitOutput, WriteLabels,
         ExecutionPasses, ExecutionFails,
         WriteOutputs, providerVars
    <3> QED
      BY <2>1, <3>1
  <2>3. ASSUME NEW t \in Threads, ProviderCreates(t)
        PROVE  LifeWithinRun'
    BY <2>1, <2>3 DEF ProviderCreates, CreatesWhileAwaited, NoCreateUnderway
  <2>4. ASSUME NEW t \in Threads, ReapExpired(t)
        PROVE  LifeWithinRun'
    BY <2>1, <2>4 DEF ReapExpired, Destroy
  <2>5. CASE DeleteStep
    BY <2>1, <2>5 DEF DeleteStep, DeleteSucceeds, DeleteFails, Destroy,
       providerVars
  <2> QED
    BY <1>5, <2>2, <2>3, <2>4, <2>5 DEF Background, ProviderStep
<1>6. CASE Minute
  BY <1>6 DEF Minute, ExecMinute
<1> QED
  BY <1>2, <1>4, <1>5, <1>6, <1>3 DEF Next, Ending

(* The provider's ttl never takes a sandbox away from the run that uses it *)
(* (daytona.py:22-24): it is younger than the run, and the run is over     *)
(* after OverallTimeout < SandboxTtl.                                      *)
THEOREM SandboxOutlivesRun == Spec => NeverReapedMidRun
<1>1. Init => LifeWithinRun
  BY DEF Init, ExecInit, LifeWithinRun
<1>2. RunInv => TypeOK /\ CreatesWhileAwaited
  BY DEF RunInv
<1>3. TypeOK /\ LifeWithinRun /\ [Next]_vars =>
        [\A s \in Threads : ReapExpired(s) => run \notin {"model", "tool"}]_vars
  BY DEF TypeOK, ExecTypeOK, LifeWithinRun, ReapExpired, SandboxTtl,
     OverallTimeout
<1> QED
  BY <1>1, <1>2, <1>3, LifeStep, RunInvariant, PTL DEF Spec, NeverReapedMidRun

=============================================================================
