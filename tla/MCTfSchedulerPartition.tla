----------------------- MODULE MCTfSchedulerPartition -----------------------
(* Two StfSenders and two TfBuilders as model values. *)
EXTENDS TfSchedulerPartition

CONSTANTS x1, x2, b1, b2

MCSenders == {x1, x2}
MCBuilders == {b1, b2}

=============================================================================
