--------------------------- MODULE CompileContract ---------------------------
(***************************************************************************)
(* What one run of the task compiler promises to the reader of its answer: *)
(* a bounded number of query artifacts, each accepted once and never       *)
(* changed; tests only of accepted queries; one answer, which is a draft   *)
(* only for a tested query, with the task type it was accepted for.        *)
(***************************************************************************)
EXTENDS FiniteSets, Naturals, CompilerTypes

CONSTANT MaxCandidates

VARIABLES accepted,  \* [Digests -> the accepted task type, or None]
          tested,    \* digests whose execution gave evidence
          answer     \* the answer, or None

contractVars == <<accepted, tested, answer>>

Init ==
  /\ accepted = [d \in Digests |-> None]
  /\ tested = {}
  /\ answer = None

Accept(d, type) ==
  /\ answer = None
  /\ accepted[d] = None
  /\ accepted' = [accepted EXCEPT ![d] = type]
  /\ Cardinality({e \in Digests : accepted'[e] # None}) <= MaxCandidates
  /\ UNCHANGED <<tested, answer>>

Test(d) ==
  /\ answer = None
  /\ accepted[d] # None
  /\ tested' = tested \cup {d}
  /\ UNCHANGED <<accepted, answer>>

AnswerReady(d) ==
  /\ answer = None
  /\ d \in tested
  /\ answer' = ReadyAnswer(d, accepted[d])
  /\ UNCHANGED <<accepted, tested>>

AnswerOtherwise ==
  /\ answer = None
  /\ answer' \in Answers /\ answer'.kind # "draft_ready"
  /\ UNCHANGED <<accepted, tested>>

Next ==
  \/ \E d \in Digests :
       \/ \E type \in TaskTypes : Accept(d, type)
       \/ Test(d)
       \/ AnswerReady(d)
  \/ AnswerOtherwise

Spec == Init /\ [][Next]_contractVars
=============================================================================
