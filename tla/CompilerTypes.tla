---------------------------- MODULE CompilerTypes ----------------------------
(* The data the task compiler, its candidate cache and its sandbox executor *)
(* exchange: digests of normalized queries and the declared task types.     *)

CONSTANTS Digests,  (* digests of normalized queries (query_sha256)         *)
          None      (* the value of a field that is not set                 *)

TaskTypes == {"binary_classification", "regression"}

(* What one compiler run returns: the kind of outcome or the public error   *)
(* code and, for draft_ready, the artifact it stands on.                    *)
TypedAnswers == {"draft_ready", "needs_clarification", "unsupported"}

SanitizedErrors ==
  {"compiler_unavailable", "request_too_large", "draft_mismatch",
   "compiler_timeout", "compilation_failed", "provider_failure",
   "unvalidated_candidate", "invalid_evidence", "candidate_mismatch",
   "sandbox_cleanup"}

(* How a run can end without an outcome of its own: the serving task was    *)
(* cancelled, or an exception left the route as a plain HTTP 500.           *)
Escapes == {"cancelled", "internal_error"}

Answers == [kind : TypedAnswers \cup SanitizedErrors \cup Escapes,
            digest : Digests \cup {None}, type : TaskTypes \cup {None}]

(* The evidence kept for an executed query: the task type it was made for, *)
(* and whether its aggregates are finite and its splits complete.          *)
Evidence == [type : TaskTypes, finite : BOOLEAN]

ASSUME NoneAssumption ==
  /\ None \notin Digests /\ None \notin TaskTypes
  /\ None \notin Answers /\ None \notin Evidence

Answer(kind) == [kind |-> kind, digest |-> None, type |-> None]

ReadyAnswer(d, type) == [kind |-> "draft_ready", digest |-> d, type |-> type]

=============================================================================
