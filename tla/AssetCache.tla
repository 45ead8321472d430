----------------------------- MODULE AssetCache -----------------------------
(***************************************************************************)
(* stage_hm_assets (materialization/hm_assets.py): processes that download *)
(* the pinned files of one cache directory, each through the path          *)
(* "<name>.part" of the asset, which all processes share.  A path names a  *)
(* file; a file is known by the chunks of the pinned content it holds, and *)
(* is valid when it holds them all.  An open handle keeps writing to its   *)
(* file whatever becomes of the path.                                      *)
(***************************************************************************)
EXTENDS Naturals

CONSTANTS Stagers,  (* processes running stage_hm_assets                   *)
          Pinned,   (* how many files are pinned                           *)
          Pieces,   (* in how many pieces fetch_to writes one              *)
          Files,    (* identities of files on the disk                     *)
          None

ASSUME CacheAssumption ==
  Pinned \in Nat /\ Pieces \in Nat \ {0} /\ None \notin Files

Assets == 1..Pinned
Chunks == 1..Pieces

VARIABLES
  dest,     \* the file at the path of each asset, or None
  part,     \* the file at its ".part" path, or None
  content,  \* the chunks each file holds
  pc,       \* where each process is
  asset,    \* the asset it works on
  handle,   \* the file it has open for writing, or None
  wrote,    \* the chunks it has written to it
  failure   \* is an exception on its way out

diskVars == <<dest, part, content>>
vars     == <<diskVars, pc, asset, handle, wrote, failure>>

PCs == {"idle", "check", "unlink", "open", "fetch", "verify", "replace",
        "finally", "sweep", "staged", "failed"}

Valid(file) == file # None /\ content[file] = Chunks

(* A cache may hold anything: nothing, sound files or damaged ones.        *)
Init ==
  /\ dest \in [Assets -> Files \cup {None}]
  /\ \A a, b \in Assets : dest[a] = dest[b] /\ dest[a] # None => a = b
  /\ part = [a \in Assets |-> None]
  /\ content \in [Files -> {{}, Chunks}]
  /\ pc = [p \in Stagers |-> "idle"]
  /\ asset = [p \in Stagers |-> 1]
  /\ handle = [p \in Stagers |-> None]
  /\ wrote = [p \in Stagers |-> {}]
  /\ failure = [p \in Stagers |-> FALSE]

Goto(p, place) == pc' = [pc EXCEPT ![p] = place]

Raise(p, place) == Goto(p, place) /\ failure' = [failure EXCEPT ![p] = TRUE]

-----------------------------------------------------------------------------

Start(p) ==
  /\ pc[p] \in {"idle", "staged", "failed"}
  /\ Goto(p, "check")
  /\ asset' = [asset EXCEPT ![p] = 1]
  /\ failure' = [failure EXCEPT ![p] = FALSE]
  /\ UNCHANGED <<diskVars, handle, wrote>>

(* A faulty check of the destination: the file is there.                   *)
SkipExisting(p) ==
  /\ pc[p] = "check" /\ asset[p] \in Assets
  /\ dest[asset[p]] # None
  /\ asset' = [asset EXCEPT ![p] = @ + 1]
  /\ UNCHANGED <<diskVars, pc, handle, wrote, failure>>

SkipValid(p) ==
  /\ pc[p] = "check" /\ asset[p] \in Assets
  /\ Valid(dest[asset[p]])
  /\ asset' = [asset EXCEPT ![p] = @ + 1]
  /\ UNCHANGED <<diskVars, pc, handle, wrote, failure>>

(* The destination is not valid; is there a partial file to remove?        *)
FindInvalid(p) ==
  /\ pc[p] = "check" /\ asset[p] \in Assets
  /\ ~Valid(dest[asset[p]])
  /\ Goto(p, IF part[asset[p]] = None THEN "open" ELSE "unlink")
  /\ UNCHANGED <<diskVars, asset, handle, wrote, failure>>

AllStaged(p) ==
  /\ pc[p] = "check" /\ asset[p] \notin Assets
  /\ Goto(p, "staged")
  /\ UNCHANGED <<diskVars, asset, handle, wrote, failure>>

(* unlink() of the partial file; it raises if another process was faster.  *)
Unlink(p) ==
  /\ pc[p] = "unlink"
  /\ IF part[asset[p]] = None
       THEN Raise(p, "failed") /\ UNCHANGED part
       ELSE /\ Goto(p, "open") /\ UNCHANGED failure
            /\ part' = [part EXCEPT ![asset[p]] = None]
  /\ UNCHANGED <<dest, content, asset, handle, wrote>>

Free(file) ==
  /\ \A a \in Assets : file \notin {dest[a], part[a]}
  /\ \A p \in Stagers : file # handle[p]

(* fetch_to opens the partial path for writing: a new file, or the one     *)
(* that is there, truncated.                                               *)
Open(p) ==
  /\ pc[p] = "open"
  /\ \E file \in Files :
       /\ IF part[asset[p]] = None THEN Free(file) ELSE file = part[asset[p]]
       /\ part' = [part EXCEPT ![asset[p]] = file]
       /\ content' = [content EXCEPT ![file] = {}]
       /\ handle' = [handle EXCEPT ![p] = file]
  /\ wrote' = [wrote EXCEPT ![p] = {}]
  /\ Goto(p, "fetch")
  /\ UNCHANGED <<dest, asset, failure>>

(* The next chunk, as pinned or damaged on its way.                        *)
Write(p, c) ==
  /\ pc[p] = "fetch" /\ wrote[p] = 1 .. c - 1
  /\ \E piece \in {{c}, {}} :
       content' = [content EXCEPT ![handle[p]] = (@ \ {c}) \cup piece]
  /\ wrote' = [wrote EXCEPT ![p] = @ \cup {c}]
  /\ UNCHANGED <<dest, part, pc, asset, handle, failure>>

Close(p) == handle' = [handle EXCEPT ![p] = None]

(* The response ends, also too early, or the download raises.              *)
FetchEnds(p) ==
  /\ pc[p] = "fetch"
  /\ Goto(p, "verify") /\ Close(p)
  /\ UNCHANGED <<diskVars, asset, wrote, failure>>

DownloadFails(p) ==
  /\ pc[p] \in {"open", "fetch"}
  /\ Raise(p, "finally") /\ Close(p)
  /\ UNCHANGED <<diskVars, asset, wrote>>

(* A faulty verification: whatever was downloaded will do.                 *)
VerifyNothing(p) ==
  /\ pc[p] = "verify"
  /\ Goto(p, "replace")
  /\ UNCHANGED <<diskVars, asset, handle, wrote, failure>>

Verify(p) ==
  /\ pc[p] = "verify"
  /\ IF Valid(part[asset[p]])
       THEN Goto(p, "replace") /\ UNCHANGED failure
       ELSE Raise(p, "finally")
  /\ UNCHANGED <<diskVars, asset, handle, wrote>>

(* os.replace(partial, destination).                                       *)
Replace(p) ==
  /\ pc[p] = "replace"
  /\ IF part[asset[p]] = None
       THEN Raise(p, "finally") /\ UNCHANGED <<dest, part>>
       ELSE /\ dest' = [dest EXCEPT ![asset[p]] = part[asset[p]]]
            /\ part' = [part EXCEPT ![asset[p]] = None]
            /\ Goto(p, "finally") /\ UNCHANGED failure
  /\ UNCHANGED <<content, asset, handle, wrote>>

(* The finally block, and what follows it.                                 *)
Leave(p) ==
  IF failure[p]
    THEN Goto(p, "failed") /\ UNCHANGED asset
    ELSE Goto(p, "check") /\ asset' = [asset EXCEPT ![p] = @ + 1]

(* A faulty finally block that leaves a partial file behind.               *)
FinallyNothing(p) ==
  /\ pc[p] = "finally" /\ Leave(p)
  /\ UNCHANGED <<diskVars, handle, wrote, failure>>

Finally(p) ==
  /\ pc[p] = "finally"
  /\ IF part[asset[p]] = None THEN Leave(p)
                              ELSE Goto(p, "sweep") /\ UNCHANGED asset
  /\ UNCHANGED <<diskVars, handle, wrote, failure>>

Sweep(p) ==
  /\ pc[p] = "sweep"
  /\ IF part[asset[p]] = None
       THEN Raise(p, "failed") /\ UNCHANGED <<part, asset>>
       ELSE /\ part' = [part EXCEPT ![asset[p]] = None]
            /\ Leave(p) /\ UNCHANGED failure
  /\ UNCHANGED <<dest, content, handle, wrote>>

(* The process is killed; the disk stays as it is.                         *)
Crash(p) ==
  /\ Goto(p, "idle") /\ Close(p)
  /\ UNCHANGED <<diskVars, asset, wrote, failure>>

Next ==
  \E p \in Stagers :
    \/ Start(p) \/ SkipValid(p) \/ FindInvalid(p) \/ AllStaged(p)
    \/ Unlink(p) \/ Open(p) \/ \E c \in Chunks : Write(p, c)
    \/ FetchEnds(p) \/ DownloadFails(p) \/ Verify(p) \/ Replace(p)
    \/ Finally(p) \/ Sweep(p) \/ Crash(p)

Spec == Init /\ [][Next]_vars

-----------------------------------------------------------------------------
CacheTypeOK ==
  /\ dest \in [Assets -> Files \cup {None}]
  /\ part \in [Assets -> Files \cup {None}]
  /\ content \in [Files -> SUBSET Chunks]
  /\ pc \in [Stagers -> PCs]
  /\ asset \in [Stagers -> Nat]
  /\ \A p \in Stagers :
       pc[p] \notin {"idle", "check", "staged", "failed"} => asset[p] \in Assets
  /\ handle \in [Stagers -> Files \cup {None}]
  /\ \A p \in Stagers : pc[p] = "fetch" => handle[p] # None
  /\ wrote \in [Stagers -> SUBSET Chunks]
  /\ failure \in [Stagers -> BOOLEAN]

(* "Download missing pinned files atomically" (hm_assets.py:158): a path   *)
(* of the cache only ever changes from what it was to the whole pinned     *)
(* content, also when the process is killed at any point.                  *)
PublishesAtomically ==
  [][\A a \in Assets :
       \/ dest'[a] = dest[a]
          /\ (dest[a] # None => content'[dest[a]] = content[dest[a]])
       \/ dest'[a] # None /\ content'[dest'[a]] = Chunks]_vars

(* "... and verify every content digest" (hm_assets.py:158): when staging  *)
(* returns, every pinned file is there and valid, whatever the cache held. *)
StagedMeansValid ==
  \A p \in Stagers : pc[p] = "staged" => \A a \in Assets : Valid(dest[a])

(* A staging that returns, successfully or not, leaves no partial file,    *)
(* and a successful one not even that of an earlier staging that was       *)
(* killed (the finally block, hm_assets.py:187-189).                       *)
LeavesNoPartial ==
  \A p \in Stagers :
    /\ pc[p] = "failed" => part[asset[p]] = None
    /\ pc[p] = "staged" => \A a \in Assets : part[a] = None
=============================================================================
