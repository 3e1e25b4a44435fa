-------------------------- MODULE MCEvaluatorTask --------------------------
(* Instances of EvaluatorTask for TLC. *)
EXTENDS EvaluatorTask

TwoSplits == <<"base", "disambiguation">>
=============================================================================
