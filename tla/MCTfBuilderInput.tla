-------------------------- MODULE MCTfBuilderInput --------------------------
(* Model-checking instance of TfBuilderInput: two StfSenders, three TFs.   *)
EXTENDS TfBuilderInput

CONSTANTS s1, s2

MCSenders == {s1, s2}
=============================================================================
