---------------------------- MODULE UCXMultiReq ----------------------------
(***************************************************************************)
(* The UCX multi-request aggregator of src/common/ucxtools/UCXSendRecv.h: *)
(* dd_ucp_multi_req (slot counter, request set, finished flag), get(),    *)
(* the completion callbacks send_multi_cb / recv_multi_cb, and the wait   *)
(* loop ucp_wait().  One caller thread submits NumGets one-sided reads on *)
(* one worker, waiting for a free slot before each (at most SlotsCount in *)
(* flight), then marks the request finished and waits for all of them.   *)
(* send_tag_blocking / receive_tag_blocking are the case NumGets = 1,     *)
(* SlotsCount = 1.  UCX completes each operation with OK or an error;     *)
(* callbacks run inside ucp_worker_progress() on the caller's thread.     *)
(***************************************************************************)
EXTENDS Naturals, FiniteSets

CONSTANTS
  SlotsCount,     \* mSlotsCount
  NumGets,        \* operations the caller submits
  MaxErrors,      \* operations that UCX may complete with an error
  MaxEpollErrors  \* epoll_wait failures in ucp_wait

ASSUME SlotsCount \in Nat \ {0} /\ NumGets \in Nat \ {0}
ASSUME MaxErrors \in Nat /\ MaxEpollErrors \in Nat

Ops == 1 .. NumGets

VARIABLES
  slotsUsed,   \* mSlotsUsed
  totalDone,   \* mTotalDone
  requests,    \* mRequests: operations that returned a request pointer
  finished,    \* mFinished
  errored,     \* operations UCX completed with an error status
  issued,      \* operations submitted so far
  pc,          \* caller: "issue", "wait" or "returned"
  retOk,       \* value ucp_wait / send_tag_blocking returned
  errors, epollErrors

vars == <<slotsUsed, totalDone, requests, finished, errored, issued, pc,
          retOk, errors, epollErrors>>

\* operations still being executed by UCX
InFlight == requests \ errored

\* Mutants of done() below.
\* the finished case is tested like the unfinished one
DoneIgnoresFinished == slotsUsed < SlotsCount

\* one slot too many may be used
DoneOffByOne ==
  IF ~finished THEN slotsUsed <= SlotsCount ELSE slotsUsed = 0

\* dd_ucp_multi_req::done()
Done ==
  IF ~finished THEN slotsUsed < SlotsCount ELSE slotsUsed = 0

Init ==
  /\ slotsUsed = 0
  /\ totalDone = 0
  /\ requests = {}
  /\ finished = FALSE
  /\ errored = {}
  /\ issued = 0
  /\ pc = "issue"
  /\ retOk = FALSE
  /\ errors = 0
  /\ epollErrors = 0

\* get(): ucp_get_nbx returns NULL (completed at once, no callback) or a
\* request pointer, which add_request() records and counts as a used slot.
\* The caller submits only while done() reports a free slot.
IssueGet ==
  /\ pc = "issue"
  /\ issued < NumGets
  /\ Done
  /\ issued' = issued + 1
  /\ \/ UNCHANGED <<requests, slotsUsed>>
     \/ /\ requests' = requests \cup {issued + 1}
        /\ slotsUsed' = slotsUsed + 1
  /\ UNCHANGED <<totalDone, finished, errored, pc, retOk, errors, epollErrors>>

\* mark_finished() after the last submission; the caller enters ucp_wait.
MarkFinished ==
  /\ pc = "issue"
  /\ issued = NumGets
  /\ finished' = TRUE
  /\ pc' = "wait"
  /\ UNCHANGED <<slotsUsed, totalDone, requests, errored, issued, retOk,
                 errors, epollErrors>>

\* Mutant of CompleteOk: a completion for an operation that holds no slot
\* (remove_request() decrements mSlotsUsed whether or not it erased anything)
CompleteOkAnyOp(op) ==
  /\ op \in Ops \ errored
  /\ requests' = requests \ {op}
  /\ totalDone' = totalDone + 1
  /\ slotsUsed' = slotsUsed - 1
  /\ UNCHANGED <<finished, errored, issued, pc, retOk, errors, epollErrors>>

\* Mutant of CompleteOk: the request is erased but its slot is not released
CompleteOkKeepsSlot(op) ==
  /\ op \in InFlight
  /\ requests' = requests \ {op}
  /\ totalDone' = totalDone + 1
  /\ UNCHANGED <<slotsUsed, finished, errored, issued, pc, retOk, errors, epollErrors>>

\* send_multi_cb with UCS_OK: remove_request() frees the slot.
CompleteOk(op) ==
  /\ op \in InFlight
  /\ requests' = requests \ {op}
  /\ totalDone' = totalDone + 1
  /\ slotsUsed' = slotsUsed - 1
  /\ UNCHANGED <<finished, errored, issued, pc, retOk, errors, epollErrors>>

\* send_multi_cb with an error status: the callback does nothing.
CompleteError(op) ==
  /\ op \in InFlight
  /\ errors < MaxErrors
  /\ errored' = errored \cup {op}
  /\ errors' = errors + 1
  /\ UNCHANGED <<slotsUsed, totalDone, requests, finished, issued, pc, retOk,
                 epollErrors>>

\* ucp_wait: returns true as soon as done() holds.
WaitReturn ==
  /\ pc = "wait"
  /\ Done
  /\ pc' = "returned"
  /\ retOk' = TRUE
  /\ UNCHANGED <<slotsUsed, totalDone, requests, finished, errored, issued,
                 errors, epollErrors>>

\* ucp_wait: epoll_wait failed; returns done(), which is false here.
WaitEpollError ==
  /\ pc = "wait"
  /\ ~Done
  /\ epollErrors < MaxEpollErrors
  /\ pc' = "returned"
  /\ retOk' = FALSE
  /\ epollErrors' = epollErrors + 1
  /\ UNCHANGED <<slotsUsed, totalDone, requests, finished, errored, issued, errors>>

\* ucp_wait: nothing to progress, epoll times out after 100 ms, recheck.
WaitSpin ==
  /\ pc \in {"issue", "wait"}
  /\ ~Done
  /\ InFlight = {}
  /\ UNCHANGED vars

Next ==
  \/ IssueGet \/ MarkFinished
  \/ \E op \in Ops : CompleteOk(op) \/ CompleteError(op)
  \/ WaitReturn \/ WaitEpollError \/ WaitSpin

\* The caller runs until it returns; UCX completes every operation it
\* holds (successfully or not).
Fairness ==
  /\ WF_vars(IssueGet) /\ WF_vars(MarkFinished) /\ WF_vars(WaitReturn)
  /\ \A op \in Ops : WF_vars(CompleteOk(op) \/ CompleteError(op))

Spec == Init /\ [][Next]_vars /\ Fairness

-----------------------------------------------------------------------------
TypeOK ==
  /\ slotsUsed \in Nat /\ totalDone \in Nat
  /\ requests \subseteq Ops /\ errored \subseteq requests
  /\ finished \in BOOLEAN /\ issued \in 0 .. NumGets
  /\ pc \in {"issue", "wait", "returned"} /\ retOk \in BOOLEAN
  /\ errors \in 0 .. MaxErrors /\ epollErrors \in 0 .. MaxEpollErrors

\* Every wait returns: the caller is not left spinning in ucp_wait.
WaitReturns == <>(pc = "returned")

\* Unless UCX completes an operation with an error, the wait returns: the
\* slot accounting of the callbacks and done() lets ucp_wait finish.
WaitReturnsUnlessError == <>(pc = "returned" \/ errors > 0)

-----------------------------------------------------------------------------
(* Refinement of the completion contract CompletionToken: the operations  *)
(* holding a request are the outstanding ones, mFinished closes the token, *)
(* and what ucp_wait returned is the signal.                               *)

Contract == INSTANCE CompletionToken WITH
  Slots       <- SlotsCount,
  submitted   <- 1 .. issued,
  outstanding <- requests,
  failed      <- errored,
  closed      <- finished,
  signal      <- IF pc # "returned" THEN "none"
                 ELSE IF retOk THEN "ok" ELSE "failed"

\* dd_ucp_multi_req with get(), the callbacks and ucp_wait keeps the
\* contract of spec 8: at most mSlotsCount requests are in flight, ucp_wait
\* reports success only after the last completion, and once that completion
\* is in, it does return (no lost wake-up), with error completions and
\* epoll failures interleaved.
MultiReqContractRefined == Contract!Spec

=============================================================================
