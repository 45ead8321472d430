--------------------------- MODULE CandidateCache ---------------------------
(***************************************************************************)
(* CandidateCache (compiler/sql.py): the SQL candidates of one compiler    *)
(* run.  A text is counted once against the repair budget, before it is    *)
(* known to be valid; an artifact is kept under the digest of the          *)
(* normalized query, and keeps the declaration it was first accepted with. *)
(***************************************************************************)
EXTENDS FiniteSets, Naturals, CompilerTypes

CONSTANTS Texts,         (* SQL texts the agent may propose                *)
          Normalize,     (* Texts -> Digests, or None for a text the SQL   *)
                         (* policy refuses whatever is declared about it   *)
          MaxCandidates  (* CandidateCache.max_candidates                  *)

ASSUME CacheAssumption ==
  /\ Normalize \in [Texts -> Digests \cup {None}]
  /\ MaxCandidates \in Nat

VARIABLES
  rawDigests,  \* the texts counted so far
  artifacts    \* [Digests -> the declared task type, or None]

cacheVars == <<rawDigests, artifacts>>

CacheInit ==
  /\ rawDigests = {}
  /\ artifacts = [d \in Digests |-> None]

(* A faulty budget, one candidate too generous.                            *)
WithinBudgetPlusOne(text) ==
  text \in rawDigests \/ Cardinality(rawDigests) <= MaxCandidates

(* A new text needs room in the budget; one already counted does not.      *)
WithinBudget(text) ==
  text \in rawDigests \/ Cardinality(rawDigests) < MaxCandidates

(* validate_task_sql(): the normalized query fixes its horizon and its     *)
(* entity column (every interval and the output schema are compared with   *)
(* the declaration), so a declaration either agrees with the text or the   *)
(* policy refuses it.                                                      *)
PolicyAccepts(text, agrees) == agrees /\ Normalize[text] # None

(* An oversized text, a wrong entity key or a horizon outside 1..7 is      *)
(* refused before the text is counted.                                     *)
RefuseShape == UNCHANGED cacheVars

RefuseExhausted(text) ==
  /\ ~WithinBudget(text)
  /\ UNCHANGED cacheVars

RefusePolicy(text, agrees) ==
  /\ WithinBudget(text)
  /\ ~PolicyAccepts(text, agrees)
  /\ rawDigests' = rawDigests \cup {text}
  /\ UNCHANGED artifacts

(* A faulty cache: a later declaration replaces the artifact.              *)
AcceptReplacing(text, agrees, type) ==
  /\ WithinBudget(text)
  /\ PolicyAccepts(text, agrees)
  /\ rawDigests' = rawDigests \cup {text}
  /\ artifacts' = [artifacts EXCEPT ![Normalize[text]] = type]

(* An accepted query that is already cached keeps its first artifact.      *)
Accept(text, agrees, type) ==
  /\ WithinBudget(text)
  /\ PolicyAccepts(text, agrees)
  /\ rawDigests' = rawDigests \cup {text}
  /\ artifacts' = [artifacts EXCEPT ![Normalize[text]] =
                     IF @ = None THEN type ELSE @]

CacheTypeOK ==
  /\ rawDigests \subseteq Texts
  /\ artifacts \in [Digests -> TaskTypes \cup {None}]

=============================================================================
