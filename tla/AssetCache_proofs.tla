------------------------- MODULE AssetCache_proofs -------------------------
(***************************************************************************)
(* Proofs about AssetCache for one process at a time, whatever number of   *)
(* times it is killed and started again.  (Two processes at once do        *)
(* violate PublishesAtomically: they share the partial path.)              *)
(***************************************************************************)
EXTENDS AssetCache, TLAPS

(* Nobody else stages into the cache.                                      *)
Alone == \A p, q \in Stagers : p = q

(* A process writes only to the file at the partial path it opened.        *)
WritesToPartial ==
  \A p \in Stagers :
    handle[p] # None => pc[p] = "fetch" /\ handle[p] = part[asset[p]]

(* No partial path shares its file with another path.                      *)
Separate ==
  \A a, b \in Assets :
    part[a] # None => part[a] # dest[b] /\ (part[a] = part[b] => a = b)

(* A partial file is only there as long as its asset is not valid.         *)
PartialMeansInvalid ==
  \A a \in Assets : part[a] # None => ~Valid(dest[a])

(* What a process knows at each place.                                     *)
Knows(p) ==
  /\ pc[p] # "idle" => asset[p] \in 1..Pinned + 1
  /\ pc[p] \in {"unlink", "open"} => ~Valid(dest[asset[p]])
  /\ pc[p] = "replace" => Valid(part[asset[p]])
  /\ pc[p] \in {"check", "unlink", "open", "fetch", "verify", "replace"} =>
       ~failure[p]
  /\ pc[p] \in {"finally", "sweep"} /\ ~failure[p] => Valid(dest[asset[p]])
  /\ pc[p] = "failed" => part[asset[p]] = None
  /\ pc[p] \in PCs \ {"idle", "failed"} =>
       \A a \in Assets : a < asset[p] => Valid(dest[a])
  /\ pc[p] = "staged" => asset[p] = Pinned + 1

Inv ==
  /\ CacheTypeOK /\ WritesToPartial /\ Separate /\ PartialMeansInvalid
  /\ \A p \in Stagers : Knows(p)

-----------------------------------------------------------------------------
(* Every step of a process that is alone preserves the invariant.          *)
LEMMA InvStep ==
  ASSUME Alone, Inv, [Next]_vars
  PROVE  Inv'
<1> USE CacheAssumption DEF Assets, Chunks, Valid
<1>1. CASE UNCHANGED vars
  BY <1>1 DEF Inv, CacheTypeOK, WritesToPartial, Separate,
     PartialMeansInvalid, Knows, vars, diskVars
<1>2. ASSUME NEW p \in Stagers, Start(p)
      PROVE  Inv'
  <2> USE <1>2 DEF Alone, Start, Goto, Raise, Close, Leave, Free, diskVars, PCs
  <2>1. CacheTypeOK'
    BY DEF Inv, CacheTypeOK, Knows
  <2>2. WritesToPartial'
    BY DEF Inv, CacheTypeOK, WritesToPartial
  <2>3. Separate'
    BY DEF Inv, CacheTypeOK, Separate, WritesToPartial, Knows
  <2>4. PartialMeansInvalid'
    BY DEF Inv, CacheTypeOK, PartialMeansInvalid, WritesToPartial, Separate,
       Knows
  <2>5. \A q \in Stagers : Knows(q)'
    BY DEF Inv, CacheTypeOK, Knows, PartialMeansInvalid, WritesToPartial,
       Separate
  <2> QED
    BY <2>1, <2>2, <2>3, <2>4, <2>5 DEF Inv
<1>3. ASSUME NEW p \in Stagers, SkipValid(p)
      PROVE  Inv'
  <2> USE <1>3 DEF Alone, SkipValid, Goto, Raise, Close, Leave, Free, diskVars, PCs
  <2>1. CacheTypeOK'
    BY DEF Inv, CacheTypeOK, Knows
  <2>2. WritesToPartial'
    BY DEF Inv, CacheTypeOK, WritesToPartial
  <2>3. Separate'
    BY DEF Inv, CacheTypeOK, Separate, WritesToPartial, Knows
  <2>4. PartialMeansInvalid'
    BY DEF Inv, CacheTypeOK, PartialMeansInvalid, WritesToPartial, Separate,
       Knows
  <2>5. \A q \in Stagers : Knows(q)'
    BY DEF Inv, CacheTypeOK, Knows, PartialMeansInvalid, WritesToPartial,
       Separate
  <2> QED
    BY <2>1, <2>2, <2>3, <2>4, <2>5 DEF Inv
<1>4. ASSUME NEW p \in Stagers, FindInvalid(p)
      PROVE  Inv'
  <2> USE <1>4 DEF Alone, FindInvalid, Goto, Raise, Close, Leave, Free, diskVars, PCs
  <2>1. CacheTypeOK'
    BY DEF Inv, CacheTypeOK, Knows
  <2>2. WritesToPartial'
    BY DEF Inv, CacheTypeOK, WritesToPartial
  <2>3. Separate'
    BY DEF Inv, CacheTypeOK, Separate, WritesToPartial, Knows
  <2>4. PartialMeansInvalid'
    BY DEF Inv, CacheTypeOK, PartialMeansInvalid, WritesToPartial, Separate,
       Knows
  <2>5. \A q \in Stagers : Knows(q)'
    BY DEF Inv, CacheTypeOK, Knows, PartialMeansInvalid, WritesToPartial,
       Separate
  <2> QED
    BY <2>1, <2>2, <2>3, <2>4, <2>5 DEF Inv
<1>5. ASSUME NEW p \in Stagers, AllStaged(p)
      PROVE  Inv'
  <2> USE <1>5 DEF Alone, AllStaged, Goto, Raise, Close, Leave, Free, diskVars, PCs
  <2>1. CacheTypeOK'
    BY DEF Inv, CacheTypeOK, Knows
  <2>2. WritesToPartial'
    BY DEF Inv, CacheTypeOK, WritesToPartial
  <2>3. Separate'
    BY DEF Inv, CacheTypeOK, Separate, WritesToPartial, Knows
  <2>4. PartialMeansInvalid'
    BY DEF Inv, CacheTypeOK, PartialMeansInvalid, WritesToPartial, Separate,
       Knows
  <2>5. \A q \in Stagers : Knows(q)'
    BY DEF Inv, CacheTypeOK, Knows, PartialMeansInvalid, WritesToPartial,
       Separate
  <2> QED
    BY <2>1, <2>2, <2>3, <2>4, <2>5 DEF Inv
<1>6. ASSUME NEW p \in Stagers, Unlink(p)
      PROVE  Inv'
  <2> USE <1>6 DEF Alone, Unlink, Goto, Raise, Close, Leave, Free, diskVars, PCs
  <2>1. CacheTypeOK'
    BY DEF Inv, CacheTypeOK, Knows
  <2>2. WritesToPartial'
    BY DEF Inv, CacheTypeOK, WritesToPartial
  <2>3. Separate'
    BY DEF Inv, CacheTypeOK, Separate, WritesToPartial, Knows
  <2>4. PartialMeansInvalid'
    BY DEF Inv, CacheTypeOK, PartialMeansInvalid, WritesToPartial, Separate,
       Knows
  <2>5. \A q \in Stagers : Knows(q)'
    BY DEF Inv, CacheTypeOK, Knows, PartialMeansInvalid, WritesToPartial,
       Separate
  <2> QED
    BY <2>1, <2>2, <2>3, <2>4, <2>5 DEF Inv
<1>7. ASSUME NEW p \in Stagers, Open(p)
      PROVE  Inv'
  <2> USE <1>7 DEF Alone, Open, Goto, Raise, Close, Leave, Free, diskVars, PCs
  <2>1. CacheTypeOK'
    BY DEF Inv, CacheTypeOK, Knows
  <2>2. WritesToPartial'
    <3>1. asset[p] \in Assets
      BY DEF Inv, CacheTypeOK
    <3>2. PICK file \in Files :
            /\ part' = [part EXCEPT ![asset[p]] = file]
            /\ handle' = [handle EXCEPT ![p] = file]
      BY DEF Inv
    <3>3. /\ handle'[p] = part'[asset'[p]]
          /\ pc'[p] = "fetch"
      BY <3>1, <3>2 DEF Inv, CacheTypeOK
    <3> QED
      BY <3>3 DEF WritesToPartial
  <2>3. Separate'
    BY DEF Inv, CacheTypeOK, Separate, WritesToPartial, Knows
  <2>4. PartialMeansInvalid'
    BY DEF Inv, CacheTypeOK, PartialMeansInvalid, WritesToPartial, Separate,
       Knows
  <2>5. \A q \in Stagers : Knows(q)'
    BY DEF Inv, CacheTypeOK, Knows, PartialMeansInvalid, WritesToPartial,
       Separate
  <2> QED
    BY <2>1, <2>2, <2>3, <2>4, <2>5 DEF Inv
<1>8. ASSUME NEW p \in Stagers, FetchEnds(p)
      PROVE  Inv'
  <2> USE <1>8 DEF Alone, FetchEnds, Goto, Raise, Close, Leave, Free, diskVars, PCs
  <2>1. CacheTypeOK'
    BY DEF Inv, CacheTypeOK, Knows
  <2>2. WritesToPartial'
    BY DEF Inv, CacheTypeOK, WritesToPartial
  <2>3. Separate'
    BY DEF Inv, CacheTypeOK, Separate, WritesToPartial, Knows
  <2>4. PartialMeansInvalid'
    BY DEF Inv, CacheTypeOK, PartialMeansInvalid, WritesToPartial, Separate,
       Knows
  <2>5. \A q \in Stagers : Knows(q)'
    BY DEF Inv, CacheTypeOK, Knows, PartialMeansInvalid, WritesToPartial,
       Separate
  <2> QED
    BY <2>1, <2>2, <2>3, <2>4, <2>5 DEF Inv
<1>9. ASSUME NEW p \in Stagers, DownloadFails(p)
      PROVE  Inv'
  <2> USE <1>9 DEF Alone, DownloadFails, Goto, Raise, Close, Leave, Free, diskVars, PCs
  <2>1. CacheTypeOK'
    BY DEF Inv, CacheTypeOK, Knows
  <2>2. WritesToPartial'
    BY DEF Inv, CacheTypeOK, WritesToPartial
  <2>3. Separate'
    BY DEF Inv, CacheTypeOK, Separate, WritesToPartial, Knows
  <2>4. PartialMeansInvalid'
    BY DEF Inv, CacheTypeOK, PartialMeansInvalid, WritesToPartial, Separate,
       Knows
  <2>5. \A q \in Stagers : Knows(q)'
    BY DEF Inv, CacheTypeOK, Knows, PartialMeansInvalid, WritesToPartial,
       Separate
  <2> QED
    BY <2>1, <2>2, <2>3, <2>4, <2>5 DEF Inv
<1>10. ASSUME NEW p \in Stagers, Verify(p)
      PROVE  Inv'
  <2> USE <1>10 DEF Alone, Verify, Goto, Raise, Close, Leave, Free, diskVars, PCs
  <2>1. CacheTypeOK'
    BY DEF Inv, CacheTypeOK, Knows
  <2>2. WritesToPartial'
    BY DEF Inv, CacheTypeOK, WritesToPartial
  <2>3. Separate'
    BY DEF Inv, CacheTypeOK, Separate, WritesToPartial, Knows
  <2>4. PartialMeansInvalid'
    BY DEF Inv, CacheTypeOK, PartialMeansInvalid, WritesToPartial, Separate,
       Knows
  <2>5. \A q \in Stagers : Knows(q)'
    BY DEF Inv, CacheTypeOK, Knows, PartialMeansInvalid, WritesToPartial,
       Separate
  <2> QED
    BY <2>1, <2>2, <2>3, <2>4, <2>5 DEF Inv
<1>11. ASSUME NEW p \in Stagers, Replace(p)
      PROVE  Inv'
  <2> USE <1>11 DEF Alone, Replace, Goto, Raise, Close, Leave, Free, diskVars, PCs
  <2>1. CacheTypeOK'
    BY DEF Inv, CacheTypeOK, Knows
  <2>2. WritesToPartial'
    BY DEF Inv, CacheTypeOK, WritesToPartial
  <2>3. Separate'
    BY DEF Inv, CacheTypeOK, Separate, WritesToPartial, Knows
  <2>4. PartialMeansInvalid'
    BY DEF Inv, CacheTypeOK, PartialMeansInvalid, WritesToPartial, Separate,
       Knows
  <2>5. \A q \in Stagers : Knows(q)'
    BY DEF Inv, CacheTypeOK, Knows, PartialMeansInvalid, WritesToPartial,
       Separate
  <2> QED
    BY <2>1, <2>2, <2>3, <2>4, <2>5 DEF Inv
<1>12. ASSUME NEW p \in Stagers, Finally(p)
      PROVE  Inv'
  <2> USE <1>12 DEF Alone, Finally, Goto, Raise, Close, Leave, Free, diskVars, PCs
  <2>1. CacheTypeOK'
    BY DEF Inv, CacheTypeOK, Knows
  <2>2. WritesToPartial'
    BY DEF Inv, CacheTypeOK, WritesToPartial
  <2>3. Separate'
    BY DEF Inv, CacheTypeOK, Separate, WritesToPartial, Knows
  <2>4. PartialMeansInvalid'
    BY DEF Inv, CacheTypeOK, PartialMeansInvalid, WritesToPartial, Separate,
       Knows
  <2>5. \A q \in Stagers : Knows(q)'
    BY DEF Inv, CacheTypeOK, Knows, PartialMeansInvalid, WritesToPartial,
       Separate
  <2> QED
    BY <2>1, <2>2, <2>3, <2>4, <2>5 DEF Inv
<1>13. ASSUME NEW p \in Stagers, Sweep(p)
      PROVE  Inv'
  <2> USE <1>13 DEF Alone, Sweep, Goto, Raise, Close, Leave, Free, diskVars, PCs
  <2>1. CacheTypeOK'
    <3>1. asset[p] \in Assets /\ asset[p] + 1 \in Nat
      BY DEF Inv, CacheTypeOK
    <3>2. CASE part[asset[p]] = None
      BY <3>1, <3>2 DEF Inv, CacheTypeOK
    <3>3. CASE part[asset[p]] # None
      <4>1. part' \in [Assets -> Files \cup {None}]
        BY <3>1, <3>3 DEF Inv, CacheTypeOK
      <4>2. CASE failure[p]
        BY <3>1, <3>3, <4>1, <4>2 DEF Inv, CacheTypeOK
      <4>3. CASE ~failure[p]
        BY <3>1, <3>3, <4>1, <4>3 DEF Inv, CacheTypeOK
      <4> QED
        BY <4>2, <4>3
    <3> QED
      BY <3>2, <3>3
  <2>2. WritesToPartial'
    BY DEF Inv, CacheTypeOK, WritesToPartial
  <2>3. Separate'
    BY DEF Inv, CacheTypeOK, Separate, WritesToPartial, Knows
  <2>4. PartialMeansInvalid'
    BY DEF Inv, CacheTypeOK, PartialMeansInvalid, WritesToPartial, Separate,
       Knows
  <2>5. \A q \in Stagers : Knows(q)'
    BY DEF Inv, CacheTypeOK, Knows, PartialMeansInvalid, WritesToPartial,
       Separate
  <2> QED
    BY <2>1, <2>2, <2>3, <2>4, <2>5 DEF Inv
<1>14. ASSUME NEW p \in Stagers, Crash(p)
      PROVE  Inv'
  <2> USE <1>14 DEF Alone, Crash, Goto, Raise, Close, Leave, Free, diskVars, PCs
  <2>1. CacheTypeOK'
    BY DEF Inv, CacheTypeOK, Knows
  <2>2. WritesToPartial'
    BY DEF Inv, CacheTypeOK, WritesToPartial
  <2>3. Separate'
    BY DEF Inv, CacheTypeOK, Separate, WritesToPartial, Knows
  <2>4. PartialMeansInvalid'
    BY DEF Inv, CacheTypeOK, PartialMeansInvalid, WritesToPartial, Separate,
       Knows
  <2>5. \A q \in Stagers : Knows(q)'
    BY DEF Inv, CacheTypeOK, Knows, PartialMeansInvalid, WritesToPartial,
       Separate
  <2> QED
    BY <2>1, <2>2, <2>3, <2>4, <2>5 DEF Inv
<1>15. ASSUME NEW p \in Stagers, NEW c \in Chunks, Write(p, c)
      PROVE  Inv'
  <2> DEFINE file == handle[p]
  <2>a. /\ file \in Files
        /\ asset[p] \in Assets
        /\ file = part[asset[p]]
    BY <1>15 DEF Write, Inv, CacheTypeOK, WritesToPartial
  <2>b. PICK piece \in {{c}, {}} :
          content' = [content EXCEPT ![file] = (@ \ {c}) \cup piece]
    BY <1>15 DEF Write
  <2>c. (content[file] \ {c}) \cup piece \in SUBSET Chunks
    BY <2>a, <2>b DEF Inv, CacheTypeOK
  <2>d. content' \in [Files -> SUBSET Chunks]
    BY <2>a, <2>b, <2>c DEF Inv, CacheTypeOK
  <2>e. wrote' \in [Stagers -> SUBSET Chunks]
    BY <1>15 DEF Write, Inv, CacheTypeOK
  <2>f. /\ pc[p] = "fetch"
        /\ UNCHANGED <<dest, part, pc, asset, handle, failure>>
    BY <1>15 DEF Write
  <2> USE <2>f DEF PCs
  <2>1. CacheTypeOK'
    BY <2>d, <2>e DEF Inv, CacheTypeOK
  <2>2. WritesToPartial'
    BY DEF Inv, WritesToPartial
  <2>3. Separate'
    BY DEF Inv, Separate
  <2>4. \A a \in Assets : Valid(dest[a])' <=> Valid(dest[a])
    <3> SUFFICES ASSUME NEW a \in Assets, dest[a] # None
                 PROVE  content'[dest[a]] = content[dest[a]]
      OBVIOUS
    <3>1. dest[a] \in Files /\ dest[a] # file
      BY <2>a DEF Inv, CacheTypeOK, Separate
    <3> QED
      BY <3>1, <2>b, <2>a DEF Inv, CacheTypeOK
  <2>5. PartialMeansInvalid'
    BY <2>4 DEF Inv, PartialMeansInvalid
  <2>6. \A q \in Stagers : Knows(q)'
    BY <2>4, <1>15 DEF Inv, CacheTypeOK, Knows, Alone
  <2> QED
    BY <2>1, <2>2, <2>3, <2>5, <2>6 DEF Inv
<1> QED
  BY <1>1, <1>2, <1>3, <1>4, <1>5, <1>6, <1>7, <1>8,
     <1>9, <1>10, <1>11, <1>12, <1>13, <1>14, <1>15 DEF Next

(* The invariant holds in every state of a process that is alone.          *)
LEMMA Invariant ==
  ASSUME Alone
  PROVE  Spec => []Inv
<1>1. Init => Inv
  BY CacheAssumption DEF Init, Inv, CacheTypeOK, WritesToPartial, Separate,
     PartialMeansInvalid, Knows, PCs, Assets, Chunks
<1>2. Inv /\ [Next]_vars => Inv'
  BY InvStep
<1> QED
  BY <1>1, <1>2, PTL DEF Spec

-----------------------------------------------------------------------------
(* Type correctness.                                                       *)
THEOREM CacheTypeCorrect ==
  ASSUME Alone
  PROVE  Spec => []CacheTypeOK
<1>1. Inv => CacheTypeOK
  BY DEF Inv
<1> QED
  BY Invariant, <1>1, PTL

(* When staging returns, every pinned file is valid, whatever the cache    *)
(* held and however often the process was killed before.                   *)
THEOREM StagingIsSound ==
  ASSUME Alone
  PROVE  Spec => []StagedMeansValid
<1>1. Inv => StagedMeansValid
  BY CacheAssumption DEF Inv, Knows, StagedMeansValid, PCs, Assets
<1> QED
  BY Invariant, <1>1, PTL

(* A staging that returns leaves no partial file behind.                   *)
THEOREM NothingPartialStays ==
  ASSUME Alone
  PROVE  Spec => []LeavesNoPartial
<1>1. Inv => LeavesNoPartial
  <2> SUFFICES ASSUME Inv, NEW p \in Stagers
               PROVE  /\ pc[p] = "failed" => part[asset[p]] = None
                      /\ pc[p] = "staged" => \A a \in Assets : part[a] = None
    BY DEF LeavesNoPartial
  <2>1. Knows(p)
    BY DEF Inv
  <2>2. pc[p] = "failed" => part[asset[p]] = None
    BY <2>1 DEF Knows
  <2>3. ASSUME pc[p] = "staged", NEW a \in Assets
        PROVE  part[a] = None
    <3>1. Valid(dest[a])
      BY <2>1, <2>3, CacheAssumption DEF Knows, PCs, Assets
    <3> QED
      BY <3>1 DEF Inv, PartialMeansInvalid
  <2> QED
    BY <2>2, <2>3
<1> QED
  BY Invariant, <1>1, PTL

(* Nothing but the whole pinned content ever replaces what a path of the   *)
(* cache held, wherever the process is killed.                             *)
THEOREM PublicationIsAtomic ==
  ASSUME Alone
  PROVE  Spec => PublishesAtomically
<1> DEFINE Atomic(a) ==
      \/ dest'[a] = dest[a]
         /\ (dest[a] # None => content'[dest[a]] = content[dest[a]])
      \/ dest'[a] # None /\ content'[dest'[a]] = Chunks
<1>1. Inv /\ [Next]_vars => [\A a \in Assets : Atomic(a)]_vars
  <2> SUFFICES ASSUME Inv, Next, NEW a \in Assets
               PROVE  Atomic(a)
    OBVIOUS
  <2>1. PICK p \in Stagers :
          \/ Start(p) \/ SkipValid(p) \/ FindInvalid(p) \/ AllStaged(p)
          \/ Unlink(p) \/ Open(p) \/ (\E c \in Chunks : Write(p, c))
          \/ FetchEnds(p) \/ DownloadFails(p) \/ Verify(p) \/ Replace(p)
          \/ Finally(p) \/ Sweep(p) \/ Crash(p)
    BY DEF Next
  <2>2. CASE Open(p)
    BY <2>2 DEF Open, Free, Inv, CacheTypeOK, Separate
  <2>3. CASE \E c \in Chunks : Write(p, c)
    <3>1. PICK c \in Chunks : Write(p, c)
      BY <2>3
    <3>2. handle[p] \in Files /\ handle[p] = part[asset[p]]
             /\ asset[p] \in Assets
      BY <3>1 DEF Write, Inv, CacheTypeOK, WritesToPartial
    <3>3. dest[a] # None => dest[a] \in Files /\ dest[a] # handle[p]
      BY <3>2, CacheAssumption DEF Inv, CacheTypeOK, Separate
    <3> QED
      BY <3>1, <3>3 DEF Write, Inv, CacheTypeOK
  <2>4. CASE Replace(p)
    BY <2>4 DEF Replace, Inv, CacheTypeOK, Knows, Valid
  <2> QED
    BY <2>1, <2>2, <2>3, <2>4 DEF Start, SkipValid, FindInvalid, AllStaged,
       Unlink, FetchEnds, DownloadFails, Verify, Finally, Sweep, Crash,
       diskVars
<1> QED
  BY Invariant, <1>1, PTL DEF Spec, PublishesAtomically
=============================================================================
