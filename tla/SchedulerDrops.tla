--------------------------- MODULE SchedulerDrops ---------------------------
(***************************************************************************)
(* The STF drop path of the TfScheduler connection manager               *)
(* (src/TfScheduler/TfSchedulerConnManager.cxx): dropAllStfsAsync /      *)
(* dropSingleStfsAsync start one std::async task per STF that cannot be   *)
(* scheduled and append its future to mStfDropFutures under              *)
(* mStfDropFuturesLock (or, when async throws, run the task in place);    *)
(* DropWaitThread wakes at least once a second, collects the futures that *)
(* are ready, and logs the dropped ids in sorted order.                   *)
(*                                                                         *)
(* The futures container is a sequence and the thread's iterator an       *)
(* index into it.  The collection loop erases a ready future and then     *)
(* still increments the iterator: the future that moved into the erased   *)
(* place is skipped, and when the erased future was the last one the      *)
(* iterator is stepped past end().  That is undefined behaviour; the      *)
(* outcomes the build can produce are a crash (a vector or deque reads    *)
(* the destroyed slot) or, for a libstdc++ list, a wrap to begin().       *)
(***************************************************************************)
EXTENDS Naturals, Sequences, SequencesExt, FiniteSets

CONSTANTS
  StfIds    \* ids of the STFs the scheduler drops

VARIABLES
  issued,       \* STF ids whose drop was requested
  futures,      \* mStfDropFutures: the ids of the pending futures, in order
  ready,        \* ids whose drop task has returned
  syncDone,     \* ids dropped by the synchronous fallback
  pc,           \* DropWaitThread: "wait", "scan", "log" or "crashed"
  it,           \* lFutureIt as an index into futures
  roundDropped, \* lDroppedStfs
  collected,    \* ids whose future was collected with get()
  droppedTotal, \* lDroppedTotal
  logged        \* ids DropWaitThread has logged as dropped

vars == <<issued, futures, ready, syncDone, pc, it, roundDropped, collected,
          droppedTotal, logged>>

Init ==
  /\ issued = {}
  /\ futures = <<>>
  /\ ready = {}
  /\ syncDone = {}
  /\ pc = "wait"
  /\ it = 1
  /\ roundDropped = {}
  /\ collected = {}
  /\ droppedTotal = 0
  /\ logged = {}

\* dropAllStfsAsync / dropSingleStfsAsync: std::async starts the task and the
\* future is pushed under mStfDropFuturesLock, which DropWaitThread holds
\* for its whole scan.  If std::async throws, the task runs synchronously
\* and no future is recorded.
DropAsync(id) ==
  /\ id \notin issued
  /\ pc # "scan"
  /\ issued' = issued \cup {id}
  /\ \/ /\ futures' = Append(futures, id)
        /\ UNCHANGED syncDone
     \/ /\ syncDone' = syncDone \cup {id}
        /\ UNCHANGED futures
  /\ UNCHANGED <<ready, pc, it, roundDropped, collected, droppedTotal, logged>>

\* The drop task returns: StfDataRequest was answered (or failed) by every
\* StfSender it asked.
TaskDone(id) ==
  /\ id \in ToSet(futures) \ ready
  /\ ready' = ready \cup {id}
  /\ UNCHANGED <<issued, futures, syncDone, pc, it, roundDropped, collected,
                 droppedTotal, logged>>

\* wait_for(lLock, 1s): with no futures the thread continues; otherwise it
\* starts the scan at begin().
Wake ==
  /\ pc = "wait"
  /\ futures # <<>>
  /\ pc' = "scan"
  /\ it' = 1
  /\ UNCHANGED <<issued, futures, ready, syncDone, roundDropped, collected,
                 droppedTotal, logged>>

\* wait_for(lLock, 1s) with mStfDropFutures empty: continue.
WaitIdle ==
  /\ pc = "wait"
  /\ futures = <<>>
  /\ UNCHANGED vars

\* Mutant of ScanStep: the erased future's result is not recorded.
ScanStepLosesResult ==
  /\ pc = "scan"
  /\ it <= Len(futures)
  /\ IF futures[it] \in ready
       THEN /\ futures' = RemoveAt(futures, it)
            /\ collected' = collected \cup {futures[it]}
            /\ UNCHANGED roundDropped
       ELSE UNCHANGED <<futures, roundDropped, collected>>
  /\ it' = it + 1
  /\ UNCHANGED <<issued, ready, syncDone, pc, droppedTotal, logged>>

\* One iteration of the for loop: a ready future is collected with get()
\* and erased, lFutureIt takes erase()'s result, and the loop's ++ follows.
ScanStep ==
  /\ pc = "scan"
  /\ it <= Len(futures)
  /\ IF futures[it] \in ready
       THEN /\ futures' = RemoveAt(futures, it)
            /\ roundDropped' = roundDropped \cup {futures[it]}
            /\ collected' = collected \cup {futures[it]}
       ELSE UNCHANGED <<futures, roundDropped, collected>>
  /\ it' = it + 1
  /\ UNCHANGED <<issued, ready, syncDone, pc, droppedTotal, logged>>

\* lFutureIt == end(): the scan is over and the lock is released.
ScanEnd ==
  /\ pc = "scan"
  /\ it = Len(futures) + 1
  /\ pc' = "log"
  /\ UNCHANGED <<issued, futures, ready, syncDone, it, roundDropped, collected,
                 droppedTotal, logged>>

\* lFutureIt is past end(): the loop condition still holds and the body
\* dereferences it.  Either the thread crashes the process, or (list) the
\* iterator wraps to begin() and the scan goes on.
ScanPastEnd ==
  /\ pc = "scan"
  /\ it > Len(futures) + 1
  /\ \/ /\ pc' = "crashed"
        /\ UNCHANGED it
     \/ /\ it' = 1
        /\ UNCHANGED pc
  /\ UNCHANGED <<issued, futures, ready, syncDone, roundDropped, collected,
                 droppedTotal, logged>>

\* Mutant of LogDropped: lDroppedStfs is not cleared after logging.
LogDroppedNoClear ==
  /\ pc = "log"
  /\ droppedTotal' = droppedTotal + Cardinality(roundDropped)
  /\ logged' = logged \cup roundDropped
  /\ pc' = "wait"
  /\ UNCHANGED <<issued, futures, ready, syncDone, it, roundDropped, collected>>

\* After the scan: sort lDroppedStfs, count and log each id, clear it.
LogDropped ==
  /\ pc = "log"
  /\ droppedTotal' = droppedTotal + Cardinality(roundDropped)
  /\ logged' = logged \cup roundDropped
  /\ roundDropped' = {}
  /\ pc' = "wait"
  /\ UNCHANGED <<issued, futures, ready, syncDone, it, collected>>

Next ==
  \/ \E id \in StfIds : DropAsync(id) \/ TaskDone(id)
  \/ Wake \/ WaitIdle \/ ScanStep \/ ScanEnd \/ ScanPastEnd \/ LogDropped

\* DropWaitThread wakes at least every second; each drop task returns
\* (gRPC calls complete or fail).
Fairness ==
  /\ WF_vars(Wake) /\ WF_vars(ScanStep) /\ WF_vars(ScanEnd)
  /\ WF_vars(ScanPastEnd) /\ WF_vars(LogDropped)
  /\ \A id \in StfIds : WF_vars(TaskDone(id))

Spec == Init /\ [][Next]_vars /\ Fairness

-----------------------------------------------------------------------------
TypeOK ==
  /\ issued \subseteq StfIds /\ ready \subseteq StfIds
  /\ futures \in Seq(StfIds) /\ syncDone \subseteq StfIds
  /\ pc \in {"wait", "scan", "log", "crashed"} /\ it \in 1 .. Len(futures) + 2
  /\ roundDropped \subseteq collected /\ collected \subseteq StfIds
  /\ droppedTotal \in 0 .. Cardinality(StfIds) /\ logged \subseteq collected

\* Every drop task that returns is eventually collected by DropWaitThread
\* and its STF id logged as dropped, although each erase makes the loop
\* skip the future behind it, the tasks return in any order and new
\* futures are appended between scans; only the crash outcome of the
\* past-end iterator ends it.
DropEventuallyLogged ==
  \A id \in StfIds : id \in ready ~> (id \in logged \/ pc = "crashed")

\* The collection loop never steps its iterator past end() of
\* mStfDropFutures.
IteratorInRange == pc = "scan" => it <= Len(futures) + 1

=============================================================================
