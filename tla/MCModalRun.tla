----------------------------- MODULE MCModalRun -----------------------------
(* Instances of the Modal controller for TLC.                              *)
EXTENDS ModalRun

(* One cohort that a preflight covers and one that takes a full run.       *)
MCTotal == [t \in Tasks |-> IF t = "churn" THEN 4 ELSE 2]
=============================================================================
