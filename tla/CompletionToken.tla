--------------------------- MODULE CompletionToken ---------------------------
(***************************************************************************)
(* The design contract of an asynchronous completion (spec 8, "Async     *)
(* completions"): one token, N completions, one done signal.  Operations  *)
(* are handed to the transport while the token is open, never more than   *)
(* Slots of them outstanding (bounded memory); each outstanding operation *)
(* completes or fails in its own time.  After the last one is handed over *)
(* the token is closed, and the waiter is told "ok" only when nothing is  *)
(* outstanding.  It may give up ("failed") while something still is.      *)
(* Fairness on the signal is the "no lost wake-up" clause: once the last  *)
(* completion is in, the waiter is woken.                                 *)
(***************************************************************************)
EXTENDS Naturals, FiniteSets

CONSTANTS
  Ops,        \* the operations the waiter hands over
  Slots       \* operations that may be outstanding at once

VARIABLES
  submitted,    \* operations handed over so far
  outstanding,  \* handed over and not yet completed
  failed,       \* outstanding operations the transport completed with an error
  closed,       \* no more operations will be handed over
  signal        \* what the waiter was told: "none", "ok" or "failed"

vars == <<submitted, outstanding, failed, closed, signal>>

Init ==
  /\ submitted = {} /\ outstanding = {} /\ failed = {}
  /\ closed = FALSE /\ signal = "none"

\* op is handed over while a slot is free; it may complete on the spot.
Submit(op) ==
  /\ ~closed /\ op \notin submitted
  /\ Cardinality(outstanding) < Slots
  /\ submitted' = submitted \cup {op}
  /\ \E pending \in BOOLEAN :
       outstanding' = IF pending THEN outstanding \cup {op} ELSE outstanding
  /\ UNCHANGED <<failed, closed, signal>>

Close ==
  /\ ~closed /\ submitted = Ops
  /\ closed' = TRUE
  /\ UNCHANGED <<submitted, outstanding, failed, signal>>

Complete(op) ==
  /\ op \in outstanding \ failed
  /\ outstanding' = outstanding \ {op}
  /\ UNCHANGED <<submitted, failed, closed, signal>>

Fail(op) ==
  /\ op \in outstanding \ failed
  /\ failed' = failed \cup {op}
  /\ UNCHANGED <<submitted, outstanding, closed, signal>>

\* the one done signal, after every completion
Succeed ==
  /\ closed /\ outstanding = {} /\ signal = "none"
  /\ signal' = "ok"
  /\ UNCHANGED <<submitted, outstanding, failed, closed>>

GiveUp ==
  /\ closed /\ outstanding # {} /\ signal = "none"
  /\ signal' = "failed"
  /\ UNCHANGED <<submitted, outstanding, failed, closed>>

Next ==
  \/ \E op \in Ops : Submit(op) \/ Complete(op) \/ Fail(op)
  \/ Close \/ Succeed \/ GiveUp

Spec == Init /\ [][Next]_vars /\ WF_vars(Close) /\ WF_vars(Succeed)

=============================================================================
