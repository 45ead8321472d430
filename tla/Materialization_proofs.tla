----------------------- MODULE Materialization_proofs -----------------------
(***************************************************************************)
(* Theorems about one materialization, for every dataset, every reviewed   *)
(* labels and every horizon.                                               *)
(***************************************************************************)
EXTENDS Materialization, LabelSplits_proofs

(* Writing one file of a directory.                                        *)
LEMMA WriteFile ==
  ASSUME NEW dirs, AreDirectories(dirs), NEW t \in TaskIds, NEW f \in Files,
         NEW bytes, NEW after, after = [dirs EXCEPT ![t][f] = bytes]
  PROVE  /\ AreDirectories(after)
         /\ \A u \in TaskIds, g \in Files :
              after[u][g] = IF u = t /\ g = f THEN bytes ELSE dirs[u][g]
<1> DEFINE dir == [dirs[t] EXCEPT ![f] = bytes]
<1>1. dirs = [u \in TaskIds |-> [g \in Files |-> dirs[u][g]]]
  BY DEF AreDirectories
<1>2. \A u \in TaskIds : dirs[u] = [g \in Files |-> dirs[u][g]]
  BY <1>1
<1>3. dir = [g \in Files |-> IF g = f THEN bytes ELSE dirs[t][g]]
  BY <1>2
<1>4. after = [u \in TaskIds |-> IF u = t THEN dir ELSE dirs[u]]
  BY <1>1
<1>5. \A u \in TaskIds, g \in Files :
        after[u][g] = IF u = t /\ g = f THEN bytes ELSE dirs[u][g]
  <2> SUFFICES ASSUME NEW u \in TaskIds, NEW g \in Files
      PROVE  after[u][g] = IF u = t /\ g = f THEN bytes ELSE dirs[u][g]
    OBVIOUS
  <2>1. CASE u = t
    <3>1. after[u] = dir
      BY <1>4, <2>1
    <3>2. dir[g] = IF g = f THEN bytes ELSE dirs[t][g]
      BY <1>3
    <3> QED BY <2>1, <3>1, <3>2
  <2>2. CASE u # t
    <3>1. after[u] = dirs[u]
      BY <1>4, <2>2
    <3> QED BY <2>2, <3>1
  <2> QED BY <2>1, <2>2
<1>6. \A u \in TaskIds : after[u] = [g \in Files |-> after[u][g]]
  BY <1>2, <1>3, <1>4
<1>7. AreDirectories(after)
  BY <1>4, <1>6 DEF AreDirectories
<1> QED BY <1>5, <1>7

(* Types.                                                                  *)
LEMMA TypeInit == Init => MatTypeOK
<1> SUFFICES ASSUME Init PROVE MatTypeOK
  OBVIOUS
<1>1. AreDirectories(local) /\ AreDirectories(remote)
  BY DEF Init, AreDirectories, NoFiles
<1>2. source \in Sources /\ tasks \in TaskLists
  BY DEF Init, Sources, TaskLists
<1> QED BY <1>1, <1>2 DEF Init, MatTypeOK, TryPlaces

LEMMA TypeProceed == MatTypeOK /\ Proceed => MatTypeOK'
<1> SUFFICES ASSUME MatTypeOK, Proceed PROVE MatTypeOK'
  OBVIOUS
<1> USE DEF requestVars, callerVars, localVars, sandboxVars, insideVars,
            runnerVars, TryPlaces
<1>1. CASE Begin
  BY <1>1 DEF Begin, MatTypeOK, AreDirectories
<1>2. CASE CreateSandbox
  BY <1>2 DEF CreateSandbox, MatTypeOK, AreDirectories
<1>3. CASE ConfirmPolicy
  BY <1>3 DEF ConfirmPolicy, MatTypeOK, AreDirectories
<1>4. CASE RunCanary
  BY <1>4 DEF RunCanary, MatTypeOK, AreDirectories
<1>5. CASE Upload
  BY <1>5 DEF Upload, MatTypeOK, AreDirectories
<1>6. CASE Submit
  BY <1>6 DEF Submit, MatTypeOK, AreDirectories
<1>7. CASE ExecReturns
  BY <1>7 DEF ExecReturns, MatTypeOK, AreDirectories
<1>8. CASE AcceptEvidence
  BY <1>8 DEF AcceptEvidence, MatTypeOK, AreDirectories
<1>9. CASE Download
  <2>1. PICK t \in TaskIds, f \in Files :
          \E bytes : local' = [local EXCEPT ![t][f] = bytes]
    <3>1. Asked \subseteq TaskIds
      BY DEF MatTypeOK, Asked, TaskLists, TaskIds
    <3> QED BY <1>9, <3>1 DEF Download
  <2>2. PICK bytes : local' = [local EXCEPT ![t][f] = bytes]
    BY <2>1
  <2>3. AreDirectories(local)
    BY DEF MatTypeOK
  <2>4. AreDirectories(local')
    BY <2>2, <2>3, WriteFile
  <2> QED BY <1>9, <2>4 DEF Download, MatTypeOK, AreDirectories
<1>10. CASE VerifyTask
  <2>1. verified' = [t \in TaskIds |-> verified'[t]]
    BY <1>10 DEF VerifyTask, MatTypeOK
  <2> QED BY <1>10, <2>1 DEF VerifyTask, MatTypeOK, AreDirectories
<1>11. CASE Report
  BY <1>11 DEF Report, MatTypeOK, AreDirectories
<1>12. CASE Delete
  BY <1>12 DEF Delete, MatTypeOK, AreDirectories
<1>13. CASE ServiceReturns
  BY <1>13 DEF ServiceReturns, MatTypeOK, AreDirectories
<1>14. CASE LiveContinues
  BY <1>14 DEF LiveContinues, MatTypeOK, AreDirectories
<1>15. CASE ConfirmParity
  BY <1>15 DEF ConfirmParity, MatTypeOK, AreDirectories
<1> QED
  BY <1>1, <1>2, <1>3, <1>4, <1>5, <1>6, <1>7, <1>8, <1>9, <1>10, <1>11,
     <1>12, <1>13, <1>14, <1>15 DEF Proceed

(* What every failure of the executor or its callers has in common.        *)
RaiseShape ==
  /\ UNCHANGED <<requestVars, callerVars, localVars, insideVars, runnerVars,
                 shielded>>
  /\ error' \in Errors
  /\ \/ /\ pc = "begin" /\ pc' = "ended" /\ UNCHANGED sandbox
     \/ /\ pc = "create" /\ pc' = "leave" /\ error' = "sandbox_create"
        /\ sandbox' \in {"none", "live"}
     \/ /\ pc \in TryPlaces /\ pc' = "delete" /\ UNCHANGED sandbox
     \/ /\ pc = "delete" /\ pc' = "leave" /\ error' = "sandbox_cleanup"
        /\ UNCHANGED sandbox
     \/ /\ pc = "parity" /\ pc' = "ended" /\ UNCHANGED sandbox

LEMMA RaiseHasShape == Raise => RaiseShape
<1> SUFFICES ASSUME Raise PROVE RaiseShape
  OBVIOUS
<1> USE DEF localVars, callerVars, sandboxVars, insideVars, TryPlaces, Errors
<1>1. ASSUME NEW place \in TryPlaces, NEW code \in Errors,
             RaiseIn(place, code), UNCHANGED localVars
      PROVE  RaiseShape
  BY <1>1 DEF RaiseIn, RaiseShape
<1>2. CASE Refuse
  BY <1>2 DEF Refuse, RaiseShape
<1>3. CASE CreateFails
  BY <1>3 DEF CreateFails, RaiseShape
<1>4. CASE DeleteFails
  BY <1>4 DEF DeleteFails, RaiseShape
<1>5. CASE RefuseParity
  BY <1>5 DEF RefuseParity, RaiseShape
<1>6. CASE RefusePolicy \/ CanaryFails \/ SourceMissing \/ ExecExits
  BY <1>1, <1>6 DEF RefusePolicy, CanaryFails, SourceMissing, ExecExits
<1>7. CASE EvidenceUnusable \/ NothingToDownload \/ RefuseManifest
           \/ RefuseArtifact \/ RefusePackage \/ ProviderFails
  BY <1>1, <1>7 DEF EvidenceUnusable, NothingToDownload, RefuseManifest,
                    RefuseArtifact, RefusePackage, ProviderFails
<1> QED BY <1>2, <1>3, <1>4, <1>5, <1>6, <1>7 DEF Raise

LEMMA TypeStep == MatTypeOK /\ [Next]_vars => MatTypeOK'
<1> SUFFICES ASSUME MatTypeOK, [Next]_vars PROVE MatTypeOK'
  OBVIOUS
<1> USE DEF requestVars, callerVars, localVars, sandboxVars, insideVars,
            runnerVars
<1>1. CASE Proceed
  BY <1>1, TypeProceed
<1>2. CASE Raise
  <2>1. RaiseShape
    BY <1>2, RaiseHasShape
  <2> QED BY <2>1 DEF RaiseShape, MatTypeOK, AreDirectories, TryPlaces
<1>3. CASE Interrupt
  BY <1>3 DEF Interrupt, MatTypeOK, AreDirectories, TryPlaces, Errors
<1>4. CASE RunnerWrites
  <2>1. PICK t \in TaskIds, f \in Files :
          \E contents : remote' = [remote EXCEPT ![t][f] = contents]
    <3>1. Asked \subseteq TaskIds
      BY DEF MatTypeOK, Asked, TaskLists, TaskIds
    <3> QED BY <1>4, <3>1 DEF RunnerWrites
  <2>2. PICK contents : remote' = [remote EXCEPT ![t][f] = contents]
    BY <2>1
  <2>3. AreDirectories(remote)
    BY DEF MatTypeOK
  <2>4. AreDirectories(remote')
    BY <2>2, <2>3, WriteFile
  <2> QED BY <1>4, <2>4 DEF RunnerWrites, Working, MatTypeOK, AreDirectories
<1>5. CASE RunnerFails
  BY <1>5 DEF RunnerFails, Working, MatTypeOK, AreDirectories
<1>6. CASE RunnerSucceeds
  BY <1>6 DEF RunnerSucceeds, Working, MatTypeOK, AreDirectories
<1>7. CASE Expire
  BY <1>7 DEF Expire, MatTypeOK, AreDirectories
<1>8. CASE UNCHANGED vars
  BY <1>8 DEF vars, MatTypeOK, AreDirectories
<1> QED BY <1>1, <1>2, <1>3, <1>4, <1>5, <1>6, <1>7, <1>8 DEF Next, RunnerStep

(* Type correctness; while the executor handles evidence and files, the    *)
(* runner is done (the exit code is looked at before the output).          *)
THEOREM MatTypeCorrect == Spec => []MatTypeOK
  BY TypeInit, TypeStep, PTL DEF Spec

(***************************************************************************)
(* Privacy.  The inductive invariant says by which place of the executor   *)
(* the policy is confirmed and the canary has run, and that nothing is in  *)
(* the sandbox before the executor has been called.                        *)
(***************************************************************************)
AfterCanary == {"upload", "submit", "wait", "evidence", "fetch", "verify",
                "compare"}

PrivateInv ==
  /\ DataStaysPrivate
  /\ pc \in {"begin", "create"} => inputs = {} /\ runner = "off"
  /\ pc = "prepare" => shielded
  /\ pc \in AfterCanary => shielded /\ canary

LEMMA PrivateInit == Init => PrivateInv
  BY DEF Init, PrivateInv, DataStaysPrivate, AfterCanary

LEMMA PrivateProceed == PrivateInv /\ Proceed => PrivateInv'
<1> SUFFICES ASSUME PrivateInv, Proceed PROVE PrivateInv'
  OBVIOUS
<1> USE DEF PrivateInv, DataStaysPrivate, AfterCanary, sandboxVars,
            insideVars, runnerVars
<1>1. CASE Begin
  BY <1>1 DEF Begin
<1>2. CASE CreateSandbox
  BY <1>2 DEF CreateSandbox
<1>3. CASE ConfirmPolicy
  BY <1>3 DEF ConfirmPolicy
<1>4. CASE RunCanary
  BY <1>4 DEF RunCanary
<1>5. CASE Upload
  BY <1>5 DEF Upload
<1>6. CASE Submit
  BY <1>6 DEF Submit
<1>7. CASE ExecReturns
  BY <1>7 DEF ExecReturns
<1>8. CASE AcceptEvidence
  BY <1>8 DEF AcceptEvidence
<1>9. CASE Download
  BY <1>9 DEF Download
<1>10. CASE VerifyTask
  BY <1>10 DEF VerifyTask
<1>11. CASE Report
  BY <1>11 DEF Report
<1>12. CASE Delete
  BY <1>12 DEF Delete
<1>13. CASE ServiceReturns
  BY <1>13 DEF ServiceReturns
<1>14. CASE LiveContinues
  BY <1>14 DEF LiveContinues
<1>15. CASE ConfirmParity
  BY <1>15 DEF ConfirmParity
<1> QED
  BY <1>1, <1>2, <1>3, <1>4, <1>5, <1>6, <1>7, <1>8, <1>9, <1>10, <1>11,
     <1>12, <1>13, <1>14, <1>15 DEF Proceed

LEMMA PrivateStep == PrivateInv /\ [Next]_vars => PrivateInv'
<1> SUFFICES ASSUME PrivateInv, [Next]_vars PROVE PrivateInv'
  OBVIOUS
<1> USE DEF PrivateInv, DataStaysPrivate, AfterCanary, sandboxVars,
            insideVars, runnerVars
<1>1. CASE Proceed
  BY <1>1, PrivateProceed
<1>2. CASE Raise
  BY <1>2, RaiseHasShape DEF RaiseShape
<1>3. CASE Interrupt
  BY <1>3 DEF Interrupt
<1>4. CASE RunnerStep
  BY <1>4 DEF RunnerStep, RunnerWrites, RunnerFails, RunnerSucceeds, Working
<1>5. CASE Expire
  BY <1>5 DEF Expire
<1>6. CASE UNCHANGED vars
  BY <1>6 DEF vars
<1> QED BY <1>1, <1>2, <1>3, <1>4, <1>5, <1>6 DEF Next

(* No rows and no task SQL reach a sandbox that is not confirmed private   *)
(* and cut off, whatever fails, expires or is interrupted.                 *)
THEOREM DataStaysPrivateHolds == Spec => []DataStaysPrivate
<1>1. PrivateInv => DataStaysPrivate
  BY DEF PrivateInv
<1> QED BY PrivateInit, PrivateStep, <1>1, PTL DEF Spec

(***************************************************************************)
(* The end.  A sandbox is made only in create and deleted in the finally,  *)
(* so one that is still there in leave was not handed over or not deleted. *)
(***************************************************************************)
ToldOf == {"sandbox_cleanup", "sandbox_create", "interrupted"}

EndInv ==
  /\ NothingLeftBehind
  /\ pc = "begin" => ~root
  /\ pc \in {"begin", "create"} => sandbox = "none"
  /\ pc = "leave" /\ sandbox = "live" => error \in ToldOf
  /\ pc = "parity" => kind = "live" /\ sandbox # "live"

LEMMA EndInit == Init => EndInv
  BY DEF Init, EndInv, NothingLeftBehind

LEMMA EndProceed == MatTypeOK /\ EndInv /\ Proceed => EndInv'
<1> SUFFICES ASSUME MatTypeOK, EndInv, Proceed PROVE EndInv'
  OBVIOUS
<1> USE DEF EndInv, NothingLeftBehind, ToldOf, requestVars, callerVars,
            sandboxVars
<1>1. CASE Begin
  BY <1>1 DEF Begin
<1>2. CASE CreateSandbox
  BY <1>2 DEF CreateSandbox
<1>3. CASE ConfirmPolicy
  BY <1>3 DEF ConfirmPolicy
<1>4. CASE RunCanary
  BY <1>4 DEF RunCanary
<1>5. CASE Upload
  BY <1>5 DEF Upload
<1>6. CASE Submit
  BY <1>6 DEF Submit
<1>7. CASE ExecReturns
  BY <1>7 DEF ExecReturns
<1>8. CASE AcceptEvidence
  BY <1>8 DEF AcceptEvidence
<1>9. CASE Download
  <2>1. pc' \in {"fetch", "verify"}
    BY <1>9 DEF Download
  <2> QED BY <1>9, <2>1 DEF Download
<1>10. CASE VerifyTask
  <2>1. pc' \in {"fetch", "compare"}
    BY <1>10 DEF VerifyTask
  <2> QED BY <1>10, <2>1 DEF VerifyTask
<1>11. CASE Report
  BY <1>11 DEF Report
<1>12. CASE Delete
  BY <1>12 DEF Delete
<1>13. CASE ServiceReturns
  BY <1>13 DEF ServiceReturns
<1>14. CASE LiveContinues
  <2>1. None \notin ToldOf
    BY NoneAssumption DEF Errors
  <2> QED BY <1>14, <2>1 DEF LiveContinues
<1>15. CASE ConfirmParity
  BY <1>15 DEF ConfirmParity
<1> QED
  BY <1>1, <1>2, <1>3, <1>4, <1>5, <1>6, <1>7, <1>8, <1>9, <1>10, <1>11,
     <1>12, <1>13, <1>14, <1>15 DEF Proceed

LEMMA EndStep == MatTypeOK /\ EndInv /\ [Next]_vars => EndInv'
<1> SUFFICES ASSUME MatTypeOK, EndInv, [Next]_vars PROVE EndInv'
  OBVIOUS
<1> USE DEF EndInv, NothingLeftBehind, ToldOf, requestVars, callerVars,
            sandboxVars
<1>1. CASE Proceed
  BY <1>1, EndProceed
<1>2. CASE Raise
  BY <1>2, RaiseHasShape DEF RaiseShape, TryPlaces
<1>3. CASE Interrupt
  BY <1>3 DEF Interrupt, TryPlaces
<1>4. CASE RunnerStep
  BY <1>4 DEF RunnerStep, RunnerWrites, RunnerFails, RunnerSucceeds
<1>5. CASE Expire
  BY <1>5 DEF Expire
<1>6. CASE UNCHANGED vars
  BY <1>6 DEF vars
<1> QED BY <1>1, <1>2, <1>3, <1>4, <1>5, <1>6 DEF Next

(* A sandbox that outlives its execution is one the caller was told of, or *)
(* was never handed, or was interrupted over; the service's directory is   *)
(* gone (the finally block and TemporaryDirectory).                        *)
THEOREM NothingIsLeftBehind == Spec => []NothingLeftBehind
<1>1. EndInv => NothingLeftBehind
  BY DEF EndInv
<1> QED BY TypeInit, TypeStep, EndInit, EndStep, <1>1, PTL DEF Spec

(***************************************************************************)
(* The files in the sandbox.  Only the runner writes them; each is written *)
(* once, after the files it is derived from.                               *)
(***************************************************************************)
LabelFiles == {"train", "validation", "test-truth"}

Sound(t) ==
  /\ \A f \in LabelFiles :
       remote[t][f] # Absent =>
         remote[t][f] = LabelsOf(t, SplitOf(f), source.data, source.cutoffs)
  /\ remote[t]["test"] # Absent =>
       /\ remote[t]["test-truth"] # Absent
       /\ remote[t]["test"] = WithoutTarget(remote[t]["test-truth"])
  /\ remote[t]["manifest"] # Absent =>
       /\ \A f \in Artifacts : remote[t][f] # Absent
       /\ remote[t]["manifest"] = Sealed(t)

RemoteInv == \A t \in TaskIds : Sound(t)

LEMMA RemoteInit == Init => RemoteInv
  BY DEF Init, RemoteInv, Sound, NoFiles, LabelFiles, Files, Artifacts

(* Nobody changes what was asked for, and only the runner writes.          *)
LEMMA RequestStays == [Next]_vars => UNCHANGED requestVars
<1> SUFFICES ASSUME [Next]_vars PROVE UNCHANGED requestVars
  OBVIOUS
<1>1. CASE Raise
  BY <1>1, RaiseHasShape DEF RaiseShape
<1>2. CASE Proceed
  BY <1>2 DEF Proceed, Begin, CreateSandbox, ConfirmPolicy, RunCanary, Upload,
              Submit, ExecReturns, AcceptEvidence, Download, VerifyTask,
              Report, Delete, ServiceReturns, LiveContinues, ConfirmParity
<1>3. CASE Interrupt \/ RunnerStep \/ Expire
  BY <1>3 DEF Interrupt, RunnerStep, RunnerWrites, RunnerFails,
              RunnerSucceeds, Expire
<1>4. CASE UNCHANGED vars
  BY <1>4 DEF vars
<1> QED BY <1>1, <1>2, <1>3, <1>4 DEF Next

LEMMA OnlyRunnerWrites == [Next]_vars => RunnerWrites \/ UNCHANGED remote
<1> SUFFICES ASSUME [Next]_vars PROVE RunnerWrites \/ UNCHANGED remote
  OBVIOUS
<1> USE DEF runnerVars
<1>1. CASE Raise
  BY <1>1, RaiseHasShape DEF RaiseShape
<1>2. CASE Proceed
  BY <1>2 DEF Proceed, Begin, CreateSandbox, ConfirmPolicy, RunCanary, Upload,
              Submit, ExecReturns, AcceptEvidence, Download, VerifyTask,
              Report, Delete, ServiceReturns, LiveContinues, ConfirmParity
<1>3. CASE Interrupt \/ RunnerStep \/ Expire
  BY <1>3 DEF Interrupt, RunnerStep, RunnerFails, RunnerSucceeds, Expire
<1>4. CASE UNCHANGED vars
  BY <1>4 DEF vars
<1> QED BY <1>1, <1>2, <1>3, <1>4 DEF Next

(* What the order of writing says of the file that is next.                *)
LEMMA NextToWrite ==
  ASSUME NEW dir, NEW f \in Files, IsNext(f, WriteOrder, dir)
  PROVE  /\ dir[f] = Absent
         /\ f = "test" => dir["test-truth"] # Absent
         /\ f = "manifest" => \A g \in Artifacts : dir[g] # Absent
<1>1. PICK i \in 1..5 : /\ WriteOrder[i] = f /\ dir[f] = Absent
                        /\ \A j \in 1..(i - 1) : dir[WriteOrder[j]] # Absent
  BY DEF IsNext, WriteOrder
<1>2. f = "test" => i = 4
  BY <1>1 DEF WriteOrder
<1>3. f = "manifest" => i = 5
  BY <1>1 DEF WriteOrder
<1>4. ASSUME i \in {4, 5} PROVE dir["test-truth"] # Absent
  <2>1. 3 \in 1..(i - 1) /\ WriteOrder[3] = "test-truth"
    BY <1>4 DEF WriteOrder
  <2> QED BY <1>1, <2>1
<1>5. ASSUME i = 5, NEW g \in Artifacts PROVE dir[g] # Absent
  <2>1. \E j \in 1..4 : WriteOrder[j] = g
    BY DEF WriteOrder, Artifacts, Files
  <2> QED BY <1>1, <1>5, <2>1
<1> QED BY <1>1, <1>2, <1>3, <1>4, <1>5

(* The seal of a directory depends on its artifacts only.                  *)
LEMMA SealedDepends ==
  ASSUME NEW t, \A g \in Artifacts : remote'[t][g] = remote[t][g]
  PROVE  Sealed(t)' = Sealed(t)
<1>1. [g \in Artifacts |-> remote'[t][g]] = [g \in Artifacts |-> remote[t][g]]
  OBVIOUS
<1>2. \A s \in Splits : SplitFile(s) \in Artifacts
  BY DEF Splits, SplitFile, Artifacts, Files
<1>3. [s \in Splits |-> Cardinality(remote'[t][SplitFile(s)])]
        = [s \in Splits |-> Cardinality(remote[t][SplitFile(s)])]
  BY <1>2
<1> QED BY <1>1, <1>3 DEF Sealed, SplitFile

LEMMA RemoteStep == MatTypeOK /\ RemoteInv /\ [Next]_vars => RemoteInv'
<1> SUFFICES ASSUME MatTypeOK, RemoteInv, [Next]_vars, NEW u \in TaskIds
             PROVE  Sound(u)'
  BY DEF RemoteInv
<1>1. source' = source
  BY RequestStays DEF requestVars
<1>2. Sound(u)
  BY DEF RemoteInv
<1>3. CASE \A g \in Files : remote'[u][g] = remote[u][g]
  <2>1. Sealed(u)' = Sealed(u)
    BY <1>3, SealedDepends DEF Artifacts
  <2> QED BY <1>1, <1>2, <1>3, <2>1 DEF Sound, LabelFiles, Files, Artifacts
<1>4. CASE RunnerWrites
  <2>0. Asked \subseteq TaskIds
    BY DEF MatTypeOK, Asked, TaskLists, TaskIds
  <2>1. PICK t \in TaskIds, f \in Files :
          /\ IsNext(f, WriteOrder, remote[t])
          /\ remote' = [remote EXCEPT ![t][f] = FileContents(t, f)]
    BY <1>4, <2>0 DEF RunnerWrites
  <2>2. \A v \in TaskIds, g \in Files :
          remote'[v][g] = IF v = t /\ g = f THEN FileContents(t, f)
                          ELSE remote[v][g]
    <3>1. DOMAIN remote = TaskIds /\ DOMAIN remote[t] = Files
      BY DEF MatTypeOK, AreDirectories
    <3>2. remote'[t] = [remote[t] EXCEPT ![f] = FileContents(t, f)]
      BY <2>1, <3>1
    <3>3. \A v \in TaskIds : v # t => remote'[v] = remote[v]
      BY <2>1, <3>1
    <3>4. \A g \in Files :
            remote'[t][g] = IF g = f THEN FileContents(t, f) ELSE remote[t][g]
      BY <3>1, <3>2
    <3> QED BY <3>3, <3>4
  <2>3. CASE u # t
    BY <1>3, <2>2, <2>3
  <2>4. CASE u = t /\ f \in LabelFiles
    <3>1. remote'[u][f] = LabelsOf(u, SplitOf(f), source.data, source.cutoffs)
      BY <2>2, <2>4 DEF FileContents, LabelFiles
    <3>2. \A g \in Files : g # f => remote'[u][g] = remote[u][g]
      BY <2>2
    <3>3. remote[u]["manifest"] = Absent
      BY <1>2, <2>1, <2>4, NextToWrite DEF Sound, LabelFiles, Artifacts, Files
    <3>4. f = "test-truth" => remote[u]["test"] = Absent
      BY <1>2, <2>1, <2>4, NextToWrite DEF Sound
    <3> QED BY <1>1, <1>2, <2>4, <3>1, <3>2, <3>3, <3>4
            DEF Sound, LabelFiles, Files, Artifacts
  <2>5. CASE u = t /\ f = "test"
    <3>1. remote'[u]["test"] = WithoutTarget(remote[u]["test-truth"])
      BY <2>2, <2>5 DEF FileContents, Files
    <3>2. \A g \in Files : g # "test" => remote'[u][g] = remote[u][g]
      BY <2>2, <2>5
    <3>3. remote[u]["test-truth"] # Absent /\ remote[u]["test"] = Absent
      BY <2>1, <2>5, NextToWrite
    <3>4. remote[u]["manifest"] = Absent
      BY <1>2, <3>3 DEF Sound, Artifacts, Files
    <3> QED BY <1>1, <1>2, <3>1, <3>2, <3>3, <3>4
            DEF Sound, LabelFiles, Files, Artifacts
  <2>6. CASE u = t /\ f = "manifest"
    <3>1. remote'[u]["manifest"] = Sealed(u)
      BY <2>2, <2>6 DEF FileContents, Files
    <3>2. \A g \in Artifacts : remote'[u][g] = remote[u][g]
      BY <2>2, <2>6 DEF Artifacts
    <3>3. \A g \in Artifacts : remote[u][g] # Absent
      BY <2>1, <2>6, NextToWrite
    <3>4. Sealed(u)' = Sealed(u)
      BY <3>2, SealedDepends
    <3> QED BY <1>1, <1>2, <3>1, <3>2, <3>3, <3>4
            DEF Sound, LabelFiles, Files, Artifacts
  <2> QED BY <2>3, <2>4, <2>5, <2>6 DEF Files, LabelFiles
<1>5. CASE UNCHANGED remote
  BY <1>3, <1>5
<1> QED BY <1>4, <1>5, OnlyRunnerWrites

(* Training labels are what the rows up to the validation cutoff make      *)
(* them, validation labels what the rows up to the test cutoff make them.  *)
THEOREM NoLabelKnowsTheFuture == Spec => []LabelsIgnoreTheFuture
<1>1. MatTypeOK /\ RemoteInv => LabelsIgnoreTheFuture
  <2> SUFFICES ASSUME MatTypeOK, RemoteInv, NEW t \in TaskIds
      PROVE
        /\ remote[t]["train"] # Absent =>
             remote[t]["train"] =
               Labels(t, KnownBy(source.data, source.cutoffs.validation),
                      Times("train", Min(Days(source.data)), source.cutoffs))
        /\ remote[t]["validation"] # Absent =>
             remote[t]["validation"] =
               Labels(t, KnownBy(source.data, source.cutoffs.test),
                      {source.cutoffs.validation})
    BY DEF LabelsIgnoreTheFuture
  <2> DEFINE data == source.data
             validation == source.cutoffs.validation
             test == source.cutoffs.test
             minimum == Min(Days(data))
  <2>1. /\ IsDataset(data) /\ validation \in Int /\ test \in Int
        /\ validation + Horizon <= test
    BY SourceAssumption DEF MatTypeOK
  <2>2. minimum \in Int
    BY <2>1, FirstDay
  <2> HIDE DEF data, validation, test, minimum
  <2>3. /\ Labels(t, data, TrainTimes(minimum, validation))
             = Labels(t, KnownBy(data, validation),
                      TrainTimes(minimum, validation))
        /\ Labels(t, data, {validation})
             = Labels(t, KnownBy(data, test), {validation})
    BY <2>1, <2>2, SplitsDoNotLeak
  <2>4. /\ remote[t]["train"] # Absent =>
             remote[t]["train"] = LabelsOf(t, "train", data, source.cutoffs)
        /\ remote[t]["validation"] # Absent =>
             remote[t]["validation"]
               = LabelsOf(t, "validation", data, source.cutoffs)
    BY DEF RemoteInv, Sound, LabelFiles, SplitOf, data
  <2> QED BY <2>3, <2>4 DEF LabelsOf, Times, data, validation, test, minimum
<1> QED BY TypeInit, TypeStep, RemoteInit, RemoteStep, <1>1, PTL DEF Spec

(* A manifest is final: it describes files that are there and stay.        *)
THEOREM ManifestsAreFinal == Spec => ManifestIsFinal
<1> DEFINE Final ==
      \A t \in TaskIds :
        remote'[t]["manifest"] # Absent =>
          \A f \in Artifacts :
            /\ remote'[t]["manifest"].refs[f] = remote'[t][f]
            /\ remote[t]["manifest"] # Absent => remote'[t][f] = remote[t][f]
<1>1. MatTypeOK /\ RemoteInv /\ RemoteInv' /\ [Next]_vars => [Final]_vars
  <2> SUFFICES ASSUME MatTypeOK, RemoteInv, RemoteInv', [Next]_vars,
                      NEW t \in TaskIds, remote'[t]["manifest"] # Absent,
                      NEW f \in Artifacts
      PROVE  /\ remote'[t]["manifest"].refs[f] = remote'[t][f]
             /\ remote[t]["manifest"] # Absent => remote'[t][f] = remote[t][f]
    OBVIOUS
  <2>1. remote'[t]["manifest"] = Sealed(t)'
    BY DEF RemoteInv, Sound
  <2>2. remote'[t]["manifest"].refs[f] = remote'[t][f]
    BY <2>1 DEF Sealed
  <2>3. ASSUME remote[t]["manifest"] # Absent
        PROVE  remote'[t][f] = remote[t][f]
    <3>1. remote[t][f] # Absent
      BY <2>3 DEF RemoteInv, Sound
    <3>2. CASE RunnerWrites
      <4>1. Asked \subseteq TaskIds
        BY DEF MatTypeOK, Asked, TaskLists, TaskIds
      <4>2. PICK u \in TaskIds, g \in Files :
              /\ IsNext(g, WriteOrder, remote[u])
              /\ remote' = [remote EXCEPT ![u][g] = FileContents(u, g)]
        BY <3>2, <4>1 DEF RunnerWrites
      <4>3. remote[u][g] = Absent
        BY <4>2, NextToWrite
      <4>4. t # u \/ f # g
        BY <3>1, <4>3
      <4> QED BY <4>2, <4>4, WriteFile DEF MatTypeOK, Artifacts
    <3> QED BY <3>2, OnlyRunnerWrites
  <2> QED BY <2>2, <2>3
<1> QED BY TypeInit, TypeStep, RemoteInit, RemoteStep, <1>1, PTL
        DEF Spec, ManifestIsFinal

(***************************************************************************)
(* What is downloaded and verified.                                        *)
(***************************************************************************)
BeforeSubmit == {"begin", "create", "policy", "prepare", "upload", "submit"}
BeforeFetch  == BeforeSubmit \cup {"wait", "evidence"}
AtTheEnd     == {"delete", "leave", "parity", "ended"}

(* The steps that touch neither the files nor the runner.                  *)
Quiet ==
  /\ UNCHANGED <<requestVars, localVars, runnerVars>>
  /\ \/ pc' = pc
     \/ pc' \in AtTheEnd
     \/ pc \in BeforeSubmit /\ pc' \in BeforeSubmit
     \/ pc = "wait" /\ pc' = "evidence" /\ runner = "done"
  /\ pc \in AtTheEnd => UNCHANGED <<shielded, canary>>

LEMMA StepKinds ==
  [Next]_vars => \/ Submit \/ AcceptEvidence \/ Download \/ VerifyTask
                 \/ RunnerStep \/ Quiet
<1> SUFFICES ASSUME [Next]_vars
             PROVE  \/ Submit \/ AcceptEvidence \/ Download \/ VerifyTask
                    \/ RunnerStep \/ Quiet
  OBVIOUS
<1> USE DEF Quiet, BeforeSubmit, AtTheEnd, sandboxVars, insideVars
<1>1. CASE Raise
  BY <1>1, RaiseHasShape DEF RaiseShape
<1>2. CASE \/ Begin \/ CreateSandbox \/ ConfirmPolicy \/ RunCanary \/ Upload
           \/ ExecReturns
  BY <1>2 DEF Begin, CreateSandbox, ConfirmPolicy, RunCanary, Upload,
              ExecReturns
<1>3. CASE \/ Report \/ Delete \/ ServiceReturns \/ LiveContinues
           \/ ConfirmParity
  BY <1>3 DEF Report, Delete, ServiceReturns, LiveContinues, ConfirmParity
<1>4. CASE Interrupt \/ Expire
  BY <1>4 DEF Interrupt, Expire
<1>5. CASE UNCHANGED vars
  BY <1>5 DEF vars
<1> QED BY <1>1, <1>2, <1>3, <1>4, <1>5 DEF Next, Proceed

(* The runner is done with all its files written.                          *)
RunnerInv ==
  /\ pc \in BeforeSubmit => runner = "off"
  /\ runner = "done" =>
       /\ evidence = [t \in Asked |-> remote[t]["manifest"].package]
       /\ \A t \in Asked : Complete(remote[t])

LEMMA RunnerInit == Init => RunnerInv
  BY DEF Init, RunnerInv

LEMMA RunnerInvStep == RunnerInv /\ [Next]_vars => RunnerInv'
<1> SUFFICES ASSUME RunnerInv, [Next]_vars PROVE RunnerInv'
  OBVIOUS
<1> USE DEF RunnerInv, requestVars, runnerVars, BeforeSubmit
<1>0. Asked' = Asked
  BY RequestStays DEF Asked
<1>1. CASE Submit
  BY <1>0, <1>1 DEF Submit
<1>2. CASE AcceptEvidence
  BY <1>0, <1>2 DEF AcceptEvidence, Complete
<1>3. CASE Download
  BY <1>0, <1>3 DEF Download, Complete
<1>4. CASE VerifyTask
  BY <1>0, <1>4 DEF VerifyTask, Complete
<1>5. CASE RunnerWrites \/ RunnerFails
  BY <1>5 DEF RunnerWrites, RunnerFails, Working
<1>6. CASE RunnerSucceeds
  BY <1>0, <1>6 DEF RunnerSucceeds, Working, Complete
<1>7. CASE Quiet
  BY <1>0, <1>7 DEF Quiet, AtTheEnd, Complete
<1> QED BY <1>1, <1>2, <1>3, <1>4, <1>5, <1>6, <1>7, StepKinds DEF RunnerStep

(* Files come from the sandbox after the runner is done, task by task, and *)
(* all but the last to arrive are checked.                                 *)
Checked(t) ==
  /\ Complete(local[t])
  /\ verified[t] = local[t]["manifest"]
  /\ Parses(t) /\ Undamaged(t)

FilesReceived ==
  \A t \in TaskIds, f \in Files :
    local[t][f] # Absent =>
      runner = "done" /\ t \in Asked /\ local[t][f] \in Received(t, f)

TaskByTask ==
  \A i, j \in 1..Len(tasks) :
    i < j /\ Complete(local[tasks[j]]) => Complete(local[tasks[i]])

LocalInv ==
  /\ FilesReceived
  /\ TaskByTask
  /\ \A t \in TaskIds : verified[t] # None => Checked(t)
  /\ pc \in BeforeFetch => local = NoFiles
  /\ pc = "fetch" => \A t \in Asked : Complete(local[t]) => Checked(t)
  /\ pc = "verify" =>
       \A t \in Asked : Complete(local[t]) => Checked(t) \/ Arrived(t)
  /\ pc = "compare" => \A t \in Asked : Checked(t)

LEMMA NoneComplete ==
  ASSUME local = NoFiles
  PROVE  \A t \in TaskIds : ~Complete(local[t])
  BY DEF NoFiles, Complete, Files

LEMMA AskedAreTasks ==
  ASSUME MatTypeOK
  PROVE  /\ Asked \subseteq TaskIds
         /\ Len(tasks) \in Nat
         /\ \A i \in 1..Len(tasks) : tasks[i] \in Asked
         /\ \A i, j \in 1..Len(tasks) : tasks[i] = tasks[j] => i = j
  BY DEF MatTypeOK, Asked, TaskLists, TaskIds

LEMMA LocalInit == Init => LocalInv
<1> SUFFICES ASSUME Init PROVE LocalInv
  OBVIOUS
<1>1. local = NoFiles /\ pc = "begin" /\ tasks \in TaskLists
  BY DEF Init, TaskLists
<1>2. \A t \in TaskIds, f \in Files : local[t][f] = Absent
  BY <1>1 DEF NoFiles
<1>3. \A t \in TaskIds : ~Complete(local[t])
  BY <1>1, NoneComplete
<1>4. \A i \in 1..Len(tasks) : tasks[i] \in TaskIds
  BY <1>1 DEF TaskLists, TaskIds
<1>5. \A t \in TaskIds : verified[t] = None
  BY DEF Init
<1> QED BY <1>1, <1>2, <1>3, <1>4, <1>5
        DEF LocalInv, FilesReceived, TaskByTask, BeforeFetch, BeforeSubmit

(* Steps after which the runner's files and the local ones are the same.   *)
LEMMA SameFiles ==
  ASSUME LocalInv, UNCHANGED requestVars, UNCHANGED localVars,
         UNCHANGED <<runner, remote>>
  PROVE  /\ FilesReceived'
         /\ TaskByTask'
         /\ \A t \in TaskIds : Complete(local[t])' = Complete(local[t])
         /\ \A t \in TaskIds : Checked(t)' = Checked(t)
         /\ \A t \in TaskIds : Arrived(t)' = Arrived(t)
         /\ Asked' = Asked
         /\ \A t \in TaskIds : verified'[t] # None => Checked(t)'
<1> USE DEF requestVars, localVars
<1>1. FilesReceived'
  BY DEF LocalInv, FilesReceived, Received, Asked
<1>2. TaskByTask'
  BY DEF LocalInv, TaskByTask, Complete
<1>3. \A t \in TaskIds : Complete(local[t])' = Complete(local[t])
  BY DEF Complete
<1>4. \A t \in TaskIds : Checked(t)' = Checked(t)
  BY DEF Checked, Complete, Parses, Undamaged
<1>5. \A t \in TaskIds : Arrived(t)' = Arrived(t)
  BY DEF Arrived, Complete
<1>6. Asked' = Asked
  BY DEF Asked
<1>7. \A t \in TaskIds : verified'[t] # None => Checked(t)'
  BY <1>4 DEF LocalInv
<1> QED BY <1>1, <1>2, <1>3, <1>4, <1>5, <1>6, <1>7

LEMMA LocalQuiet ==
  ASSUME MatTypeOK, LocalInv, Quiet \/ AcceptEvidence
  PROVE  LocalInv'
<1>0. /\ UNCHANGED requestVars /\ UNCHANGED localVars
      /\ UNCHANGED <<runner, remote>>
  BY DEF Quiet, AcceptEvidence, runnerVars
<1>1. Asked \subseteq TaskIds
  BY AskedAreTasks
<1>2. CASE Quiet
  BY <1>0, <1>1, <1>2, SameFiles
     DEF Quiet, LocalInv, BeforeFetch, BeforeSubmit, AtTheEnd, localVars
<1>3. CASE AcceptEvidence
  <2>1. local = NoFiles /\ pc' = "fetch"
    BY <1>3 DEF AcceptEvidence, LocalInv, BeforeFetch
  <2>2. \A t \in TaskIds : ~Complete(local[t])'
    BY <1>0, <2>1, SameFiles, NoneComplete
  <2> QED BY <1>0, <1>1, <2>1, <2>2, SameFiles
          DEF LocalInv, BeforeFetch, BeforeSubmit
<1> QED BY <1>2, <1>3

(* The runner and its start change nothing that was downloaded: nothing    *)
(* was, as the runner is not done.                                         *)
LEMMA LocalRunner ==
  ASSUME MatTypeOK, LocalInv, Submit \/ RunnerStep, UNCHANGED requestVars
  PROVE  LocalInv'
<1> USE DEF requestVars, localVars
<1>0. UNCHANGED localVars
  BY DEF Submit, RunnerStep, RunnerWrites, RunnerFails, RunnerSucceeds
<1>1. \A t \in TaskIds, f \in Files : local[t][f] = Absent
  <2>1. CASE Submit
    BY <2>1 DEF Submit, LocalInv, BeforeFetch, BeforeSubmit, NoFiles
  <2>2. CASE RunnerStep
    BY <2>2 DEF RunnerStep, RunnerWrites, RunnerFails, RunnerSucceeds,
                Working, LocalInv, FilesReceived
  <2> QED BY <2>1, <2>2
<1>2. \A t \in TaskIds : ~Complete(local'[t]) /\ ~Complete(local[t])
  BY <1>0, <1>1 DEF Complete, Files
<1>3. /\ Asked' = Asked /\ Asked \subseteq TaskIds
      /\ \A i \in 1..Len(tasks) : tasks[i] \in TaskIds
  BY AskedAreTasks DEF Asked
<1>4. FilesReceived'
  BY <1>0, <1>1 DEF FilesReceived
<1>5. TaskByTask'
  BY <1>0, <1>2, <1>3 DEF TaskByTask
<1>6. \A t \in TaskIds : verified'[t] = None
  BY <1>0, <1>2 DEF LocalInv, Checked
<1>7. /\ pc' \in BeforeFetch => local' = NoFiles
      /\ pc' # "compare"
  <2>1. CASE Submit
    BY <1>0, <2>1 DEF Submit, LocalInv, BeforeFetch, BeforeSubmit
  <2>2. CASE RunnerStep
    <3>1. pc' = pc /\ runner = "running"
      BY <2>2 DEF RunnerStep, RunnerWrites, RunnerFails, RunnerSucceeds,
                  Working
    <3> QED BY <1>0, <3>1 DEF LocalInv, MatTypeOK
  <2> QED BY <2>1, <2>2
<1> QED BY <1>2, <1>3, <1>4, <1>5, <1>6, <1>7 DEF LocalInv

LEMMA LocalDownload ==
  ASSUME MatTypeOK, LocalInv, Download
  PROVE  LocalInv'
<1> USE DEF requestVars, runnerVars
<1>0. /\ UNCHANGED <<tasks, verified, runner, remote>>
      /\ Asked' = Asked /\ pc = "fetch" /\ runner = "done"
  BY DEF Download, Asked, MatTypeOK
<1>1. PICK t \in Asked, f \in Files :
        /\ IsPending(t, local) /\ IsNext(f, DownloadOrder, local[t])
        /\ \E bytes \in Received(t, f) : local' = [local EXCEPT ![t][f] = bytes]
        /\ pc' = IF Complete(local'[t]) THEN "verify" ELSE "fetch"
  BY DEF Download
<1>2. PICK bytes \in Received(t, f) : local' = [local EXCEPT ![t][f] = bytes]
  BY <1>1
<1>3. t \in TaskIds /\ Asked \subseteq TaskIds
  BY AskedAreTasks
<1>4. \A u \in TaskIds, g \in Files :
        local'[u][g] = IF u = t /\ g = f THEN bytes ELSE local[u][g]
  <2>1. AreDirectories(local)
    BY DEF MatTypeOK
  <2>2. local' = [local EXCEPT ![t][f] = bytes] /\ t \in TaskIds
    BY <1>2, <1>3
  <2>3. DOMAIN local = TaskIds /\ DOMAIN local[t] = Files
    BY <2>1, <2>2 DEF AreDirectories
  <2>4. local'[t] = [local[t] EXCEPT ![f] = bytes]
    BY <2>2, <2>3
  <2>5. \A u \in TaskIds : u # t => local'[u] = local[u]
    BY <2>2, <2>3
  <2>6. \A g \in Files : local'[t][g] = IF g = f THEN bytes ELSE local[t][g]
    BY <2>3, <2>4
  <2> QED BY <2>5, <2>6
<1>5. \A u \in TaskIds : u # t => /\ Complete(local'[u]) = Complete(local[u])
                                  /\ Checked(u)' = Checked(u)
  BY <1>0, <1>4 DEF Checked, Complete, Parses, Undamaged, Files, Artifacts
<1>6. PICK i \in 1..Len(tasks) :
        /\ tasks[i] = t /\ ~Complete(local[t])
        /\ \A j \in 1..(i - 1) : Complete(local[tasks[j]])
  BY <1>1 DEF IsPending
<1>7. \A j \in 1..Len(tasks) : j > i => ~Complete(local[tasks[j]])
  BY <1>6, AskedAreTasks DEF LocalInv, TaskByTask
<1>8. \A j \in 1..Len(tasks) : j # i => tasks[j] # t /\ tasks[j] \in TaskIds
  BY <1>3, <1>6, AskedAreTasks
<1>9. FilesReceived'
  <2> SUFFICES ASSUME NEW u \in TaskIds, NEW g \in Files,
                      local'[u][g] # Absent
               PROVE  u \in Asked /\ local'[u][g] \in Received(u, g)'
    BY <1>0 DEF FilesReceived
  <2>1. Received(u, g)' = Received(u, g)
    BY <1>0 DEF Received
  <2>2. CASE u = t /\ g = f
    <3>1. local'[u][g] = bytes
      BY <1>4, <2>2
    <3> QED BY <1>2, <2>1, <2>2, <3>1
  <2>3. CASE ~(u = t /\ g = f)
    <3>1. local'[u][g] = local[u][g]
      BY <1>4, <2>3
    <3> QED BY <2>1, <3>1 DEF LocalInv, FilesReceived
  <2> QED BY <2>2, <2>3
<1>10. TaskByTask'
  <2> SUFFICES ASSUME NEW j \in 1..Len(tasks), NEW k \in 1..Len(tasks), j < k,
                      Complete(local'[tasks[k]])
               PROVE  Complete(local'[tasks[j]])
    BY <1>0 DEF TaskByTask, Complete
  <2>1. k <= i
    BY <1>5, <1>7, <1>8, AskedAreTasks
  <2>2. j \in 1..(i - 1)
    BY <2>1, AskedAreTasks
  <2> QED BY <1>5, <1>6, <1>8, <2>2, AskedAreTasks
<1>11. \A u \in TaskIds : verified'[u] # None => Checked(u)'
  <2>1. verified[t] = None
    BY <1>3, <1>6 DEF LocalInv, Checked
  <2> QED BY <1>0, <1>5, <2>1 DEF LocalInv
<1>12. pc' = "fetch" => \A u \in Asked : Complete(local'[u]) => Checked(u)'
  BY <1>0, <1>1, <1>3, <1>5 DEF LocalInv
<1>13. ASSUME pc' = "verify"
       PROVE  \A u \in Asked : Complete(local'[u]) => Checked(u)' \/ Arrived(u)'
  <2>1. Complete(local'[t])
    BY <1>1, <1>13
  <2>2. \A j \in (i + 1)..Len(tasks) : ~Complete(local'[tasks[j]])
    BY <1>5, <1>7, <1>8, AskedAreTasks
  <2>3. Arrived(t)'
    BY <1>0, <1>6, <2>1, <2>2 DEF Arrived, Complete
  <2> QED BY <1>0, <1>3, <1>5, <2>3 DEF LocalInv
<1>14. pc' \in {"fetch", "verify"}
  BY <1>1
<1> QED BY <1>0, <1>9, <1>10, <1>11, <1>12, <1>13, <1>14
        DEF LocalInv, BeforeFetch, BeforeSubmit, Complete

LEMMA LocalVerify ==
  ASSUME MatTypeOK, LocalInv, VerifyTask
  PROVE  LocalInv'
<1> USE DEF requestVars, runnerVars
<1>0. /\ UNCHANGED <<tasks, local, runner, remote>>
      /\ Asked' = Asked /\ pc = "verify"
  BY DEF VerifyTask, Asked
<1>1. PICK t \in Asked :
        /\ Arrived(t) /\ Parses(t) /\ Undamaged(t)
        /\ verified' = [verified EXCEPT ![t] = local[t]["manifest"]]
  BY DEF VerifyTask
<1>2. Asked \subseteq TaskIds /\ t \in TaskIds
  BY AskedAreTasks
<1>3. \A u \in TaskIds :
        verified'[u] = IF u = t THEN local[t]["manifest"] ELSE verified[u]
  BY <1>1, <1>2 DEF MatTypeOK
<1>4. Checked(t)'
  BY <1>0, <1>1, <1>2, <1>3
     DEF Checked, Arrived, Complete, Parses, Undamaged
<1>5. \A u \in TaskIds : u # t => Checked(u)' = Checked(u)
  BY <1>0, <1>3 DEF Checked, Complete, Parses, Undamaged
<1>6. \A u \in Asked : Arrived(u) => u = t
  <2> SUFFICES ASSUME NEW u \in Asked, Arrived(u) PROVE u = t
    OBVIOUS
  <2>1. PICK i \in 1..Len(tasks) :
          /\ tasks[i] = u /\ Complete(local[u])
          /\ \A k \in (i + 1)..Len(tasks) : ~Complete(local[tasks[k]])
    BY DEF Arrived
  <2>2. PICK j \in 1..Len(tasks) :
          /\ tasks[j] = t /\ Complete(local[t])
          /\ \A k \in (j + 1)..Len(tasks) : ~Complete(local[tasks[k]])
    BY <1>1 DEF Arrived
  <2>3. ~(i < j) /\ ~(j < i)
    BY <2>1, <2>2, AskedAreTasks
  <2> QED BY <2>1, <2>2, <2>3, AskedAreTasks
<1>7. \A u \in Asked : Complete(local[u]) => Checked(u)'
  BY <1>0, <1>2, <1>4, <1>5, <1>6 DEF LocalInv
<1>8. FilesReceived' /\ TaskByTask'
  BY <1>0 DEF LocalInv, FilesReceived, TaskByTask, Received, Complete
<1>9. \A u \in TaskIds : verified'[u] # None => Checked(u)'
  BY <1>3, <1>4, <1>5 DEF LocalInv
<1>10. pc' = IF \A u \in Asked : Complete(local[u]) THEN "compare" ELSE "fetch"
  BY DEF VerifyTask
<1> QED BY <1>0, <1>7, <1>8, <1>9, <1>10
        DEF LocalInv, BeforeFetch, BeforeSubmit, Complete

LEMMA LocalStep == MatTypeOK /\ LocalInv /\ [Next]_vars => LocalInv'
  BY LocalQuiet, LocalRunner, LocalDownload, LocalVerify, StepKinds,
     RequestStays

(* What passes verification is what the sandbox wrote.  A download is the  *)
(* file as sent, or damaged, or a manifest with one field altered; a wrong *)
(* digest is that of no file.                                              *)
LEMMA CheckedIsIntact ==
  ASSUME MatTypeOK, RemoteInv, RunnerInv, LocalInv,
         NEW t \in TaskIds, Checked(t)
  PROVE  t \in Asked /\ \A f \in Artifacts : local[t][f] = remote[t][f]
<1> DEFINE m    == local[t]["manifest"]
           sent == remote[t]["manifest"]
<1>1. /\ \A f \in Files : local[t][f] # Absent
      /\ m # Damaged
      /\ \A f \in Artifacts : local[t][f] = m.refs[f]
  BY DEF Checked, Complete, Parses, Undamaged
<1>2. runner = "done" /\ t \in Asked /\ m \in Received(t, "manifest")
  BY <1>1 DEF LocalInv, FilesReceived, Files
<1>3. sent = Sealed(t)
  <2>1. sent # Absent
    BY <1>2 DEF RunnerInv, Complete, Files
  <2> QED BY <2>1 DEF RemoteInv, Sound
<1>4. /\ sent = [task |-> sent.task, refs |-> sent.refs, rows |-> sent.rows,
                 package |-> sent.package]
      /\ sent.refs = [g \in Artifacts |-> remote[t][g]]
  BY <1>3 DEF Sealed
<1> HIDE DEF m, sent
<1>5. \/ m = sent
      \/ \E g \in Artifacts : m = [sent EXCEPT !.refs[g] = Absent]
      \/ \E u \in TaskIds : m = [sent EXCEPT !.task = u]
      \/ m = [sent EXCEPT !.package = None]
      \/ m = [sent EXCEPT !.rows.train = @ + 1]
  BY <1>1, <1>2 DEF Received, sent
<1>6. m.refs = sent.refs
      \/ \E g \in Artifacts : m.refs = [sent.refs EXCEPT ![g] = Absent]
  BY <1>4, <1>5
<1>7. ASSUME NEW g \in Artifacts, m.refs = [sent.refs EXCEPT ![g] = Absent]
      PROVE  FALSE
  <2>1. m.refs[g] = Absent
    BY <1>4, <1>7
  <2> QED BY <1>1, <2>1 DEF Artifacts
<1>8. m.refs = sent.refs
  BY <1>6, <1>7
<1> QED BY <1>1, <1>2, <1>4, <1>8

(***************************************************************************)
(* The answer.                                                             *)
(***************************************************************************)
Packed ==
  /\ runner = "done" /\ shielded /\ canary
  /\ \A t \in Asked : Checked(t) /\ evidence[t] = verified[t].package

AnswerInv ==
  /\ pc \in {"delete", "leave", "parity"} /\ error = None => Packed
  /\ pc \in {"leave", "parity"} /\ error = None => sandbox = "gone"
  /\ pc = "parity" => error = None
  /\ pc # "ended" => answer = None
  /\ answer # None =>
       /\ error = None /\ sandbox = "gone" /\ Packed
       /\ DOMAIN answer = Asked
       /\ \A t \in Asked : answer[t].package = evidence[t]

LEMMA AnswerInit == Init => AnswerInv
  BY DEF Init, AnswerInv

(* What is packed stays so: the runner is done, and the executor is past   *)
(* its downloads.                                                          *)
LEMMA PackedStays ==
  ASSUME Packed, pc \in AtTheEnd, [Next]_vars
  PROVE  Packed' /\ UNCHANGED <<evidence, verified, tasks>>
<1>1. Quiet
  BY StepKinds DEF Packed, AtTheEnd, Submit, AcceptEvidence, Download,
     VerifyTask, RunnerStep, RunnerWrites, RunnerFails, RunnerSucceeds, Working
<1> QED BY <1>1 DEF Quiet, Packed, Checked, Complete, Parses, Undamaged,
           Asked, requestVars, localVars, runnerVars

LEMMA AnswerStep ==
  MatTypeOK /\ PrivateInv /\ LocalInv /\ AnswerInv /\ [Next]_vars => AnswerInv'
<1> SUFFICES ASSUME MatTypeOK, PrivateInv, LocalInv, AnswerInv, [Next]_vars
             PROVE  AnswerInv'
  OBVIOUS
<1> USE DEF callerVars, sandboxVars
<1>0. None \notin Errors
  BY NoneAssumption
<1>1. CASE Raise
  BY <1>0, <1>1, RaiseHasShape DEF RaiseShape, AnswerInv, TryPlaces
<1>2. CASE Interrupt
  BY <1>0, <1>2 DEF Interrupt, AnswerInv, TryPlaces, Errors
<1>3. CASE \/ Begin \/ CreateSandbox \/ ConfirmPolicy \/ RunCanary \/ Upload
           \/ Submit \/ ExecReturns
  BY <1>3 DEF Begin, CreateSandbox, ConfirmPolicy, RunCanary, Upload, Submit,
              ExecReturns, AnswerInv
<1>4. CASE AcceptEvidence
  BY <1>4 DEF AcceptEvidence, AnswerInv
<1>5. CASE Download
  <2>1. pc = "fetch" /\ pc' \in {"fetch", "verify"} /\ answer' = answer
    BY <1>5 DEF Download
  <2> QED BY <2>1 DEF AnswerInv
<1>6. CASE VerifyTask
  <2>1. pc = "verify" /\ pc' \in {"fetch", "compare"} /\ answer' = answer
    BY <1>6 DEF VerifyTask
  <2> QED BY <2>1 DEF AnswerInv
<1>7. CASE Report
  <2>1. Packed
    BY <1>7 DEF Report, PackagesAgree, Packed, LocalInv, PrivateInv,
                AfterCanary, MatTypeOK
  <2>2. Packed'
    BY <1>7, <2>1 DEF Report, Packed, Checked, Complete, Parses, Undamaged,
       Asked, requestVars, localVars, insideVars, runnerVars
  <2> QED BY <1>7, <2>2 DEF Report, AnswerInv
<1>8. CASE Delete
  BY <1>8, PackedStays DEF Delete, AnswerInv, AtTheEnd
<1>9. CASE ServiceReturns
  <2>1. /\ pc = "leave" /\ pc' = "ended"
        /\ answer' = IF error = None THEN Summary ELSE None
        /\ error' = error /\ sandbox' = sandbox
    BY <1>9 DEF ServiceReturns
  <2>2. CASE error = None
    <3>1. Packed /\ sandbox = "gone"
      BY <2>1, <2>2 DEF AnswerInv
    <3>2. Packed' /\ UNCHANGED <<evidence, verified, tasks>>
      BY <2>1, <3>1, PackedStays DEF AtTheEnd
    <3>3. /\ DOMAIN answer' = Asked'
          /\ \A t \in Asked' : answer'[t].package = evidence'[t]
      BY <2>1, <2>2, <3>1, <3>2 DEF Summary, Asked, Packed
    <3> QED BY <2>1, <2>2, <3>1, <3>2, <3>3 DEF AnswerInv
  <2>3. CASE error # None
    BY <2>1, <2>3 DEF AnswerInv
  <2> QED BY <2>2, <2>3
<1>10. CASE LiveContinues
  BY <1>10, PackedStays DEF LiveContinues, AnswerInv, AtTheEnd
<1>11. CASE ConfirmParity
  <2>1. pc = "parity" /\ answer' = Summary /\ pc' = "ended"
        /\ error' = error /\ sandbox' = sandbox
    BY <1>11 DEF ConfirmParity
  <2>2. Packed
    BY <2>1 DEF AnswerInv
  <2>3. Packed' /\ UNCHANGED <<evidence, verified, tasks>>
    BY <2>1, <2>2, PackedStays DEF AtTheEnd
  <2>4. /\ DOMAIN answer' = Asked'
        /\ \A t \in Asked' : answer'[t].package = evidence'[t]
    BY <2>1, <2>2, <2>3 DEF Summary, Asked, Packed
  <2> QED BY <2>1, <2>3, <2>4 DEF AnswerInv
<1>12. CASE RunnerStep
  BY <1>12, PackedStays DEF RunnerStep, RunnerWrites, RunnerFails,
     RunnerSucceeds, Working, AnswerInv, Packed
<1>13. CASE Expire
  BY <1>13, PackedStays DEF Expire, AnswerInv, AtTheEnd
<1>14. CASE UNCHANGED vars
  <2>1. Packed' = Packed
    BY <1>14 DEF vars, Packed, Checked, Complete, Parses, Undamaged, Asked,
                 requestVars, localVars, insideVars, runnerVars
  <2> QED BY <1>14, <2>1 DEF vars, AnswerInv, Asked, requestVars, runnerVars
<1> QED BY <1>1, <1>2, <1>3, <1>4, <1>5, <1>6, <1>7, <1>8, <1>9, <1>10, <1>11,
           <1>12, <1>13, <1>14 DEF Next, Proceed

FullInv == /\ MatTypeOK /\ PrivateInv /\ RemoteInv /\ RunnerInv
           /\ LocalInv /\ AnswerInv

LEMMA FullInvHolds == Spec => []FullInv
<1>1. Init => FullInv
  BY TypeInit, PrivateInit, RemoteInit, RunnerInit, LocalInit, AnswerInit
     DEF FullInv
<1>2. FullInv /\ [Next]_vars => FullInv'
  BY TypeStep, PrivateStep, RemoteStep, RunnerInvStep, LocalStep, AnswerStep
     DEF FullInv
<1> QED BY <1>1, <1>2, PTL DEF Spec

(* No damage in transit and no manifest of another run passes verification *)
(* and the comparison with the sandbox's own evidence.                     *)
THEOREM WhatIsVerifiedIsIntact == Spec => []VerifiedIsIntact
<1>1. FullInv => VerifiedIsIntact
  <2> SUFFICES ASSUME FullInv, NEW t \in TaskIds, verified[t] # None
      PROVE  /\ \A f \in Artifacts : local[t][f] = remote[t][f]
             /\ pc \in {"leave", "parity"} /\ error = None =>
                  verified[t].package = remote[t]["manifest"].package
    BY DEF VerifiedIsIntact
  <2>1. Checked(t)
    BY DEF FullInv, LocalInv
  <2>2. t \in Asked /\ \A f \in Artifacts : local[t][f] = remote[t][f]
    BY <2>1, CheckedIsIntact DEF FullInv
  <2>3. ASSUME pc \in {"leave", "parity"}, error = None
        PROVE  verified[t].package = remote[t]["manifest"].package
    <3>1. Packed
      BY <2>3 DEF FullInv, AnswerInv
    <3>2. /\ evidence[t] = verified[t].package
          /\ evidence = [u \in Asked |-> remote[u]["manifest"].package]
      BY <2>2, <3>1 DEF Packed, FullInv, RunnerInv
    <3> QED BY <2>2, <3>2
  <2> QED BY <2>2, <2>3
<1> QED BY FullInvHolds, <1>1, PTL

(* An answer is given only for a run that a private sandbox finished and   *)
(* that is deleted, and its digests are those of the labels which the      *)
(* reviewed SQL defines.                                                   *)
THEOREM AnswersAreSealed == Spec => []AnswerIsSealed
<1>1. FullInv => AnswerIsSealed
  <2> SUFFICES ASSUME FullInv, answer # None
      PROVE  /\ error = None
             /\ sandbox = "gone" /\ shielded /\ canary /\ runner = "done"
             /\ DOMAIN answer = Asked
             /\ \A t \in Asked :
                  /\ answer[t].package = evidence[t]
                  /\ \A f \in Artifacts :
                       answer[t].package.refs[f] = Expected(t, f)
    BY DEF AnswerIsSealed
  <2>1. /\ error = None /\ sandbox = "gone" /\ Packed
        /\ DOMAIN answer = Asked
        /\ \A t \in Asked : answer[t].package = evidence[t]
    BY DEF FullInv, AnswerInv
  <2>2. ASSUME NEW t \in Asked, NEW f \in Artifacts
        PROVE  answer[t].package.refs[f] = Expected(t, f)
    <3>1. t \in TaskIds
      BY AskedAreTasks DEF FullInv
    <3>2. /\ answer[t].package = remote[t]["manifest"].package
          /\ Complete(remote[t])
      BY <2>1 DEF Packed, FullInv, RunnerInv
    <3>3. Sound(t) /\ \A g \in Files : remote[t][g] # Absent
      BY <3>1, <3>2 DEF FullInv, RemoteInv, Complete
    <3>4. answer[t].package.refs[f] = remote[t][f]
      BY <3>2, <3>3 DEF Sound, Sealed, Files
    <3>5. remote[t][f] = Expected(t, f)
      BY <3>3 DEF Sound, Expected, Artifacts, Files, LabelFiles, SplitOf
    <3> QED BY <3>4, <3>5
  <2> QED BY <2>1, <2>2 DEF Packed
<1> QED BY FullInvHolds, <1>1, PTL

(***************************************************************************)
(* Parity.                                                                 *)
(***************************************************************************)
(* Generated labels have three columns.                                    *)
LEMMA LabelsAreRows ==
  ASSUME NEW t \in TaskIds, NEW data, NEW times,
         NEW row \in Labels(t, data, times)
  PROVE  row = <<row[1], row[2], row[3]>>
<1>1. CASE t = "churn"
  <2>1. \E time \in times : \E c \in Active(data, time) :
          row = <<time, c, Churns(data, time, c)>>
    BY <1>1 DEF Labels, ChurnLabels
  <2> QED BY <2>1
<1>2. CASE t = "sales"
  <2>1. \E time \in times : \E a \in data.articles :
          row = <<time, a, Sales(data, time, a)>>
    BY <1>2 DEF Labels, SalesLabels
  <2> QED BY <2>1
<1> QED BY <1>1, <1>2 DEF TaskIds

(* In a binary task, rows with the same keys on both sides and the same    *)
(* target per key are the same rows.                                       *)
LEMMA ParityGivesEquality ==
  ASSUME NEW task, Binary(task), NEW S, NEW T, InParity(task, S, T),
         \A row \in S : row = <<row[1], row[2], row[3]>>,
         \A row \in T : row = <<row[1], row[2], row[3]>>
  PROVE  S = T
<1>1. WithoutTarget(S) = WithoutTarget(T)
  BY DEF InParity
<1>2. \A g \in S, e \in T : <<g[1], g[2]>> = <<e[1], e[2]>> => g = e
  <2> SUFFICES ASSUME NEW g \in S, NEW e \in T,
                      <<g[1], g[2]>> = <<e[1], e[2]>>
               PROVE  g = e
    OBVIOUS
  <2>1. g[3] = e[3]
    BY DEF InParity, Agrees, SameKey
  <2>2. g[1] = e[1] /\ g[2] = e[2]
    OBVIOUS
  <2>3. g = <<g[1], g[2], g[3]>> /\ e = <<e[1], e[2], e[3]>>
    OBVIOUS
  <2> QED BY <2>1, <2>2, <2>3
<1>3. ASSUME NEW g \in S PROVE g \in T
  <2>1. <<g[1], g[2]>> \in WithoutTarget(S)
    BY DEF WithoutTarget
  <2>2. <<g[1], g[2]>> \in {<<row[1], row[2]>> : row \in T}
    BY <1>1, <2>1 DEF WithoutTarget
  <2>3. PICK e \in T : <<g[1], g[2]>> = <<e[1], e[2]>>
    BY <2>2
  <2> QED BY <1>2, <2>3
<1>4. ASSUME NEW e \in T PROVE e \in S
  <2>1. <<e[1], e[2]>> \in WithoutTarget(T)
    BY DEF WithoutTarget
  <2>2. <<e[1], e[2]>> \in {<<row[1], row[2]>> : row \in S}
    BY <1>1, <2>1 DEF WithoutTarget
  <2>3. PICK g \in S : <<g[1], g[2]>> = <<e[1], e[2]>>
    BY <2>2
  <2> QED BY <1>2, <2>3
<1> QED BY <1>3, <1>4

(* An error within the tolerance is bounded by the reviewed amount: the    *)
(* larger of two amounts exceeds the reviewed one by the error at most.    *)
LEMMA CloseIsBounded ==
  ASSUME NEW g, NEW e, IsClose(g, e)
  PROVE  Magnitude(g - e) * (ToleranceUnit - RelativeTolerance)
           <= AbsoluteTolerance + RelativeTolerance * Magnitude(e)
<1> DEFINE x == Magnitude(g - e)
           y == Magnitude(e)
           U == ToleranceUnit
           R == RelativeTolerance
<1>1. /\ x \in Nat /\ y \in Nat /\ Magnitude(g) \in Nat
      /\ Magnitude(g) <= x + y
  BY DEF IsClose, Magnitude
<1>2. PICK m \in Nat : m <= x + y /\ x * U <= AbsoluteTolerance + R * m
  BY <1>1 DEF IsClose
<1> HIDE DEF x, y
<1>3. R * m <= R * x + R * y
  <2>1. PICK k \in Nat : x + y = m + k
    <3>1. x + y - m \in Nat /\ x + y = m + (x + y - m)
      BY <1>1, <1>2
    <3> QED BY <3>1
  <2>2. R * (x + y) = R * m + R * k /\ R * (x + y) = R * x + R * y
    BY <1>1, <1>2, <2>1, ToleranceAssumption
  <2>3. R * k \in Nat /\ R * m \in Nat /\ R * x \in Nat /\ R * y \in Nat
    BY <1>1, <1>2, <2>1, ToleranceAssumption
  <2> QED BY <2>2, <2>3
<1>4. x * (U - R) = x * U - R * x
  BY <1>1, ToleranceAssumption
<1>5. x * U \in Nat /\ R * x \in Nat /\ R * y \in Nat /\ R * m \in Nat
  BY <1>1, <1>2, ToleranceAssumption
<1>6. x * (U - R) <= AbsoluteTolerance + R * y
  BY <1>2, <1>3, <1>4, <1>5, ToleranceAssumption
<1> QED BY <1>6 DEF x, y

(* In a regression task every row has its counterpart, close to it.        *)
LEMMA ParityGivesBounds ==
  ASSUME NEW task, ~Binary(task), NEW S, NEW T, InParity(task, S, T)
  PROVE  /\ \A g \in S : \E e \in T : ErrorBounded(g, e)
         /\ \A e \in T : \E g \in S : ErrorBounded(g, e)
<1>1. ASSUME NEW g \in S, NEW e \in T, SameKey(g, e)
      PROVE  ErrorBounded(g, e)
  BY <1>1, CloseIsBounded DEF InParity, Agrees, ErrorBounded
<1>2. {<<row[1], row[2]>> : row \in S} = {<<row[1], row[2]>> : row \in T}
  BY DEF InParity, WithoutTarget
<1>3. ASSUME NEW g \in S PROVE \E e \in T : SameKey(g, e)
  <2>1. <<g[1], g[2]>> \in {<<row[1], row[2]>> : row \in T}
    BY <1>2
  <2> QED BY <2>1 DEF SameKey
<1>4. ASSUME NEW e \in T PROVE \E g \in S : SameKey(g, e)
  <2>1. <<e[1], e[2]>> \in {<<row[1], row[2]>> : row \in S}
    BY <1>2
  <2> QED BY <2>1 DEF SameKey
<1> QED BY <1>1, <1>3, <1>4

(* A live answer was given in parity, and afterwards nothing moves.        *)
ParityInv ==
  /\ kind = "live" => source \in PinnedData
  /\ kind = "live" /\ answer # None => AllInParity

LEMMA ParityStep ==
  ASSUME AnswerInv, ParityInv, [Next]_vars
  PROVE  ParityInv'
<1>1. UNCHANGED <<kind, source, tasks>>
  BY RequestStays DEF requestVars
<1>2. CASE answer # None
  <2>1. pc \in AtTheEnd /\ Packed
    BY <1>2 DEF AnswerInv, AtTheEnd
  <2>2. local' = local
    BY <2>1, StepKinds DEF Packed, AtTheEnd, Submit, AcceptEvidence, Download,
       VerifyTask, RunnerStep, RunnerWrites, RunnerFails, RunnerSucceeds,
       Working, Quiet, localVars
  <2>3. AllInParity' = AllInParity
    BY <1>1, <2>2 DEF AllInParity, Asked
  <2> QED BY <1>1, <1>2, <2>3 DEF ParityInv
<1>3. CASE answer = None /\ kind = "live"
  <2>1. CASE ConfirmParity
    <3>1. AllInParity /\ local' = local
      BY <2>1 DEF ConfirmParity, localVars
    <3>2. AllInParity'
      BY <1>1, <3>1 DEF AllInParity, Asked
    <3> QED BY <1>1, <3>2 DEF ParityInv
  <2>2. CASE ~ConfirmParity
    <3>1. answer' = None
      <4> USE <1>3 DEF callerVars
      <4>1. CASE Raise
        BY <4>1, RaiseHasShape DEF RaiseShape
      <4>2. CASE Proceed
        BY <2>2, <4>2 DEF Proceed, Begin, CreateSandbox, ConfirmPolicy,
           RunCanary, Upload, Submit, ExecReturns, AcceptEvidence, Download,
           VerifyTask, Report, Delete, ServiceReturns, LiveContinues
      <4>3. CASE Interrupt \/ RunnerStep \/ Expire
        BY <4>3 DEF Interrupt, RunnerStep, RunnerWrites, RunnerFails,
           RunnerSucceeds, Expire
      <4>4. CASE UNCHANGED vars
        BY <4>4 DEF vars
      <4> QED BY <4>1, <4>2, <4>3, <4>4 DEF Next
    <3> QED BY <1>1, <3>1 DEF ParityInv
  <2> QED BY <2>1, <2>2
<1>4. CASE kind # "live"
  BY <1>1, <1>4 DEF ParityInv
<1> QED BY <1>2, <1>3, <1>4

(* A live run answers only with the reviewed labels: equal ones in a       *)
(* binary task, row by row close ones in a regression task.                *)
THEOREM ParityMeansReviewed == Spec => []ParityBoundsError
<1>1. Init => ParityInv
  BY DEF Init, ParityInv
<1>2. FullInv /\ ParityInv /\ [Next]_vars => ParityInv'
  BY ParityStep DEF FullInv
<1>3. FullInv /\ ParityInv => ParityBoundsError
  <2> SUFFICES ASSUME FullInv, ParityInv, kind = "live", answer # None,
                      NEW t \in Asked, NEW s \in Splits
      PROVE  IF Binary(t) THEN remote[t][SplitFile(s)] = source.reviewed[t][s]
             ELSE /\ \A g \in remote[t][SplitFile(s)] :
                       \E e \in source.reviewed[t][s] : ErrorBounded(g, e)
                  /\ \A e \in source.reviewed[t][s] :
                       \E g \in remote[t][SplitFile(s)] : ErrorBounded(g, e)
    BY DEF ParityBoundsError
  <2> DEFINE f == SplitFile(s)
  <2>1. f \in LabelFiles /\ f \in Artifacts /\ f \in Files
    BY DEF SplitFile, Splits, LabelFiles, Artifacts, Files
  <2>2. t \in TaskIds
    BY AskedAreTasks DEF FullInv
  <2>3. Packed
    BY DEF FullInv, AnswerInv
  <2>4. local[t][f] = remote[t][f]
    BY <2>1, <2>2, <2>3, CheckedIsIntact DEF Packed, FullInv
  <2>5. remote[t][f] # Absent
    BY <2>1, <2>3 DEF Packed, FullInv, RunnerInv, Complete
  <2>6. remote[t][f] = LabelsOf(t, SplitOf(f), source.data, source.cutoffs)
    BY <2>1, <2>2, <2>5 DEF FullInv, RemoteInv, Sound
  <2> HIDE DEF f
  <2>7. \A row \in remote[t][f] : row = <<row[1], row[2], row[3]>>
    BY <2>2, <2>6, LabelsAreRows DEF LabelsOf
  <2>8. InParity(t, remote[t][f], source.reviewed[t][s])
    BY <2>4 DEF ParityInv, AllInParity, f
  <2>9. \A row \in source.reviewed[t][s] : row = <<row[1], row[2], row[3]>>
    BY <2>2, ReviewedAssumption DEF ParityInv
  <2>10. CASE Binary(t)
    BY <2>7, <2>8, <2>9, <2>10, ParityGivesEquality DEF f
  <2>11. CASE ~Binary(t)
    BY <2>8, <2>11, ParityGivesBounds DEF f
  <2> QED BY <2>10, <2>11
<1> QED BY FullInvHolds, <1>1, <1>2, <1>3, PTL DEF Spec
=============================================================================
