--------------------------- MODULE TfBuilderInput ---------------------------
(***************************************************************************)
(* The TfBuilder input pipeline (src/TfBuilder/TfBuilderInput.cxx).        *)
(*                                                                         *)
(* Three threads of the builder share mStfMergeMap under one lock:         *)
(*   - the pacer (StfPacingThread) pops ReceivedStfMeta events (ADD,       *)
(*     DELETE, INFO) from mReceivedDataQueue and files fragments by TF id; *)
(*   - the deserializer (StfDeserializingThread) looks only at the lowest  *)
(*     TF id of the map and, once its fragment count equals the number the *)
(*     RPC side reports (getNumberOfStfs), moves it to mStfsForMerging;    *)
(*   - the merger (StfMergerThread) merges the fragments into one TF,      *)
(*     raises mMaxMergedTfId and queues the TF downstream.                 *)
(*                                                                         *)
(* The producers of the events live outside src/ (TfBuilderRpc and the     *)
(* UCX input) and are modelled from the spec: the RPC thread admits TFs    *)
(* in increasing id order, pushes ADD, asks every StfSender for its        *)
(* fragment, then either pushes DELETE (nobody had data) or publishes the  *)
(* number of fragments to expect; the input threads push one INFO per      *)
(* fetched fragment.  A fetch may be lost and a fragment may be delivered  *)
(* twice, each at most a bounded number of times.                          *)
(*                                                                         *)
(* stop() sets mState to TERMINATED, stops the inputs and the queues and   *)
(* joins the three threads in turn; each thread leaves its loop at the     *)
(* head once mState is not RUNNING, after a blocking pop has returned.     *)
(* ConcurrentFifo is outside src/: pop() returns a queued item even after  *)
(* stop(), blocks while the queue is empty and running, and returns        *)
(* nullopt once it is stopped and empty.                                   *)
(***************************************************************************)
EXTENDS Naturals, Sequences, SequencesExt, FiniteSets, TLC

CONSTANTS
  Senders,     \* StfSender ids of the partition
  NumTfs,      \* TFs 1..NumTfs are offered to this builder
  MaxLost,     \* fetches that may fail after the sender answered OK
  MaxDup,      \* fragments the input may hand to the pacer a second time
  NoValue,     \* std::nullopt of getNumberOfStfs
  MayStop      \* the device calls stop() while TFs are in the pipeline

ASSUME Senders # {} /\ NumTfs \in Nat \ {0}
ASSUME MaxLost \in Nat /\ MaxDup \in Nat /\ MayStop \in BOOLEAN

TfIds == 1 .. NumTfs

VARIABLES
  rpcNext,      \* next TF id the RPC thread admits
  reply,        \* reply[t][s]: answer of StfSender s to the request for t
  numStfs,      \* getNumberOfStfs(t): expected fragment count or NoValue
  fetching,     \* <<t, s>> answered OK, data not yet handed to the pacer
  fetched,      \* <<t, s>> already handed to the pacer (source of duplicates)
  lost, dups,   \* environment fault budgets used so far
  recvQueue,    \* mReceivedDataQueue
  mergeMap,     \* mStfMergeMap: TF id -> fragments (by sender) in arrival order
  maxMerged,    \* mMaxMergedTfId
  mergeQueue,   \* mStfsForMerging
  delivered,    \* TFs queued to the output stage, in order
  running,      \* mState == RUNNING
  recvStopped,  \* mReceivedDataQueue stopped
  mergeStopped, \* mStfsForMerging stopped
  thr,          \* thr[x]: thread x is in its loop ("run") or has left it
  stopPc        \* stop(): "idle", "joinPacer", "joinDeser", "joinMerger", "done"

stopVars == <<running, recvStopped, mergeStopped, thr, stopPc>>

vars == <<rpcNext, reply, numStfs, fetching, fetched, lost, dups,
          recvQueue, mergeMap, maxMerged, mergeQueue, delivered, stopVars>>

Threads == {"pacer", "deser", "merger"}

\* the pacer passes the loop head only while mState is RUNNING; a record
\* it pops after stop() commutes with stop()'s first step
PacerRuns == thr["pacer"] = "run" /\ running

Replies == {"none", "ok", "dropped"}

AddMsg(t)       == [type |-> "ADD",    tf |-> t, sender |-> NoValue]
DeleteMsg(t)    == [type |-> "DELETE", tf |-> t, sender |-> NoValue]
InfoMsg(t, s)   == [type |-> "INFO",   tf |-> t, sender |-> s]

Msgs == {AddMsg(t) : t \in TfIds} \cup {DeleteMsg(t) : t \in TfIds}
          \cup {InfoMsg(t, s) : t \in TfIds, s \in Senders}

OkSenders(t) == {s \in Senders : reply[t][s] = "ok"}

\* the RPC thread has heard from every StfSender for t
Answered(t) == \A s \in Senders : reply[t][s] # "none"

\* mStfMergeMap[t] with fragment f appended; operator[] creates the entry
AppendFragment(m, t, f) ==
  IF t \in DOMAIN m THEN [m EXCEPT ![t] = Append(@, f)]
                    ELSE (t :> <<f>>) @@ m

\* std::map::erase(t)
EraseTf(m, t) == Restrict(m, DOMAIN m \ {t})

\* SubTimeFrame::mergeStf applied over the vector: the first fragment is the
\* seed, the others' message parts are appended in vector order.
MergeStfs(frags) == [id |-> frags[1].tf, parts |-> [i \in DOMAIN frags |-> frags[i].sender]]

Init ==
  /\ rpcNext = 1
  /\ reply = [t \in TfIds |-> [s \in Senders |-> "none"]]
  /\ numStfs = [t \in TfIds |-> NoValue]
  /\ fetching = {}
  /\ fetched = {}
  /\ lost = 0
  /\ dups = 0
  /\ recvQueue = <<>>
  /\ mergeMap = <<>>
  /\ maxMerged = 0
  /\ mergeQueue = <<>>
  /\ delivered = <<>>
  /\ running = TRUE
  /\ recvStopped = FALSE /\ mergeStopped = FALSE
  /\ thr = [x \in Threads |-> "run"]
  /\ stopPc = "idle"

-----------------------------------------------------------------------------
(* RPC thread and UCX input (outside src/, modelled from the spec).        *)

\* BuildInstruction accepted: record the intent to build t (ADD event).
RpcAdmit ==
  /\ rpcNext \in TfIds
  /\ rpcNext > 1 => Answered(rpcNext - 1)
  /\ recvQueue' = Append(recvQueue, AddMsg(rpcNext))
  /\ rpcNext' = rpcNext + 1
  /\ UNCHANGED <<reply, numStfs, fetching, fetched, lost, dups, mergeMap,
                 maxMerged, mergeQueue, delivered>>
  /\ running
  /\ UNCHANGED stopVars

\* StfDataRequest to StfSender s: it serves the fragment or has dropped it.
RpcRequest(s) ==
  LET t == rpcNext - 1 IN
  /\ t \in TfIds
  /\ reply[t][s] = "none"
  /\ \E r \in {"ok", "dropped"} :
       LET rt == [reply[t] EXCEPT ![s] = r]
           ok == {x \in Senders : rt[x] = "ok"}
       IN
       /\ reply' = [reply EXCEPT ![t] = rt]
       /\ fetching' = IF r = "ok" THEN fetching \cup {<<t, s>>} ELSE fetching
       \* after the last answer: DELETE the intent, or publish the count
       /\ IF \E x \in Senders : rt[x] = "none"
            THEN UNCHANGED <<numStfs, recvQueue>>
          ELSE IF ok = {}
            THEN /\ recvQueue' = Append(recvQueue, DeleteMsg(t))
                 /\ UNCHANGED numStfs
          ELSE /\ numStfs' = [numStfs EXCEPT ![t] = Cardinality(ok)]
               /\ UNCHANGED recvQueue
  /\ UNCHANGED <<rpcNext, fetched, lost, dups, mergeMap, maxMerged,
                 mergeQueue, delivered>>
  /\ UNCHANGED stopVars

\* The fragment of s for t has been read into local memory: INFO event.
InputFetch(t, s) ==
  /\ <<t, s>> \in fetching
  /\ fetching' = fetching \ {<<t, s>>}
  /\ fetched' = fetched \cup {<<t, s>>}
  /\ recvQueue' = Append(recvQueue, InfoMsg(t, s))
  /\ UNCHANGED <<rpcNext, reply, numStfs, lost, dups, mergeMap, maxMerged,
                 mergeQueue, delivered>>
  /\ running
  /\ UNCHANGED stopVars

\* The fetch fails after the sender said OK: no INFO is ever pushed.
InputFetchLost(t, s) ==
  /\ <<t, s>> \in fetching
  /\ lost < MaxLost
  /\ fetching' = fetching \ {<<t, s>>}
  /\ lost' = lost + 1
  /\ UNCHANGED <<rpcNext, reply, numStfs, fetched, dups, recvQueue, mergeMap,
                 maxMerged, mergeQueue, delivered>>
  /\ UNCHANGED stopVars

\* A fragment already handed over reaches the pacer a second time.
InputDuplicate(t, s) ==
  /\ <<t, s>> \in fetched
  /\ dups < MaxDup
  /\ dups' = dups + 1
  /\ recvQueue' = Append(recvQueue, InfoMsg(t, s))
  /\ UNCHANGED <<rpcNext, reply, numStfs, fetching, fetched, lost, mergeMap,
                 maxMerged, mergeQueue, delivered>>
  /\ running
  /\ UNCHANGED stopVars

-----------------------------------------------------------------------------
(* Mutants: plausible slips in the code below, used to confirm that each   *)
(* property of the passing runs is sensitive to the code it is about.      *)

\* the deserializer completes any complete TF, not only the lowest one
DeserCompleteAnyTf ==
  \E t \in DOMAIN mergeMap :
  /\ numStfs[t] # NoValue
  /\ Len(mergeMap[t]) = numStfs[t]
  /\ mergeQueue' = Append(mergeQueue, mergeMap[t])
  /\ mergeMap' = EraseTf(mergeMap, t)
  /\ numStfs' = [numStfs EXCEPT ![t] = NoValue]
  /\ UNCHANGED <<rpcNext, reply, fetching, fetched, lost, dups, recvQueue,
                 maxMerged, delivered>>
  /\ thr["deser"] = "run"
  /\ UNCHANGED stopVars

\* the deserializer hands over the TF one fragment early
DeserCompleteOffByOne ==
  LET t == Min(DOMAIN mergeMap) IN
  /\ mergeMap # <<>>
  /\ numStfs[t] # NoValue
  /\ mergeMap[t] # <<>>
  /\ Len(mergeMap[t]) + 1 >= numStfs[t]
  /\ mergeQueue' = Append(mergeQueue, mergeMap[t])
  /\ mergeMap' = EraseTf(mergeMap, t)
  /\ numStfs' = [numStfs EXCEPT ![t] = NoValue]
  /\ UNCHANGED <<rpcNext, reply, fetching, fetched, lost, dups, recvQueue,
                 maxMerged, delivered>>
  /\ thr["deser"] = "run"
  /\ UNCHANGED stopVars

\* DELETE consumed without erasing the (empty) merge intent
PacerDeleteKeepsIntent ==
  /\ recvQueue # <<>>
  /\ Head(recvQueue).type = "DELETE"
  /\ recvQueue' = Tail(recvQueue)
  /\ UNCHANGED <<rpcNext, reply, numStfs, fetching, fetched, lost, dups,
                 mergeMap, maxMerged, mergeQueue, delivered>>
  /\ PacerRuns
  /\ UNCHANGED stopVars

\* the merger records one past the merged id as the last built TF
MergerBuildOffByOne ==
  LET tf == MergeStfs(Head(mergeQueue)) IN
  /\ mergeQueue # <<>>
  /\ mergeQueue' = Tail(mergeQueue)
  /\ maxMerged' = Max({maxMerged, tf.id + 1})
  /\ delivered' = Append(delivered, tf)
  /\ UNCHANGED <<rpcNext, reply, numStfs, fetching, fetched, lost, dups,
                 recvQueue, mergeMap>>
  /\ thr["merger"] = "run"
  /\ UNCHANGED stopVars

-----------------------------------------------------------------------------
(* TfBuilderInput threads (src/TfBuilder/TfBuilderInput.cxx).              *)

\* StfPacingThread, ADD: only record the intent to build the TF.
PacerAdd ==
  LET m == Head(recvQueue) IN
  /\ recvQueue # <<>>
  /\ m.type = "ADD"
  /\ recvQueue' = Tail(recvQueue)
  /\ mergeMap' = (m.tf :> <<>>) @@ mergeMap
  /\ UNCHANGED <<rpcNext, reply, numStfs, fetching, fetched, lost, dups,
                 maxMerged, mergeQueue, delivered>>
  /\ PacerRuns
  /\ UNCHANGED stopVars

\* StfPacingThread, DELETE: remove the intent when no StfSender was contacted.
PacerDelete ==
  LET m == Head(recvQueue) IN
  /\ recvQueue # <<>>
  /\ m.type = "DELETE"
  /\ recvQueue' = Tail(recvQueue)
  /\ mergeMap' = EraseTf(mergeMap, m.tf)
  /\ UNCHANGED <<rpcNext, reply, numStfs, fetching, fetched, lost, dups,
                 maxMerged, mergeQueue, delivered>>
  /\ PacerRuns
  /\ UNCHANGED stopVars

\* StfPacingThread, INFO: file the fragment unless its id is not above the
\* last merged id, in which case the merge entry of that id is erased.
PacerInfo ==
  LET m == Head(recvQueue) IN
  /\ recvQueue # <<>>
  /\ m.type = "INFO"
  /\ recvQueue' = Tail(recvQueue)
  /\ mergeMap' = IF m.tf > maxMerged
                   THEN AppendFragment(mergeMap, m.tf, m)
                   ELSE EraseTf(mergeMap, m.tf)
  /\ UNCHANGED <<rpcNext, reply, numStfs, fetching, fetched, lost, dups,
                 maxMerged, mergeQueue, delivered>>
  /\ PacerRuns
  /\ UNCHANGED stopVars

\* StfDeserializingThread: the lowest TF has all expected fragments; move
\* it to the merger and forget its expected count.
DeserComplete ==
  LET t == Min(DOMAIN mergeMap) IN
  /\ mergeMap # <<>>
  /\ numStfs[t] # NoValue
  /\ Len(mergeMap[t]) = numStfs[t]
  /\ mergeQueue' = Append(mergeQueue, mergeMap[t])
  /\ mergeMap' = EraseTf(mergeMap, t)
  /\ numStfs' = [numStfs EXCEPT ![t] = NoValue]
  /\ UNCHANGED <<rpcNext, reply, fetching, fetched, lost, dups, recvQueue,
                 maxMerged, delivered>>
  /\ thr["deser"] = "run"
  /\ UNCHANGED stopVars

\* StfDeserializingThread: map empty, count not published yet, or lowest TF
\* incomplete; the thread re-evaluates after the 10 ms wait.
DeserWait ==
  /\ thr["deser"] = "run"
  /\ IF mergeMap = <<>> THEN TRUE
     ELSE LET t == Min(DOMAIN mergeMap) IN
          ~(numStfs[t] # NoValue /\ Len(mergeMap[t]) = numStfs[t])
  /\ UNCHANGED vars

\* StfMergerThread: merge the vector into its first fragment, raise
\* mMaxMergedTfId and queue the TF to the output stage.
MergerBuild ==
  LET tf == MergeStfs(Head(mergeQueue)) IN
  /\ mergeQueue # <<>>
  /\ mergeQueue' = Tail(mergeQueue)
  /\ maxMerged' = Max({maxMerged, tf.id})
  /\ delivered' = Append(delivered, tf)
  /\ UNCHANGED <<rpcNext, reply, numStfs, fetching, fetched, lost, dups,
                 recvQueue, mergeMap>>
  /\ thr["merger"] = "run"
  /\ UNCHANGED stopVars

-----------------------------------------------------------------------------
(* TfBuilderInput::stop() and the threads leaving their loops.             *)

\* Mutant of StopBegin: mReceivedDataQueue is not stopped before the pacer
\* is joined.
StopBeginKeepsQueue ==
  /\ MayStop /\ stopPc = "idle"
  /\ running' = FALSE
  /\ stopPc' = "joinPacer"
  /\ UNCHANGED <<recvStopped, mergeStopped, thr>>
  /\ UNCHANGED <<rpcNext, reply, numStfs, fetching, fetched, lost, dups,
                 recvQueue, mergeMap, maxMerged, mergeQueue, delivered>>

\* stopAcceptingTfs(), mState = TERMINATED, the FairMQ and UCX inputs
\* stopped, mReceivedDataQueue->stop(); then join the pacer.
StopBegin ==
  /\ MayStop /\ stopPc = "idle"
  /\ running' = FALSE
  /\ recvStopped' = TRUE
  /\ stopPc' = "joinPacer"
  /\ UNCHANGED <<mergeStopped, thr>>
  /\ UNCHANGED <<rpcNext, reply, numStfs, fetching, fetched, lost, dups,
                 recvQueue, mergeMap, maxMerged, mergeQueue, delivered>>

\* The pacer has been joined: under the lock mStfMergeMap is cleared and
\* the deserializer triggered; then join it.
StopJoinPacer ==
  /\ stopPc = "joinPacer" /\ thr["pacer"] = "exited"
  /\ mergeMap' = <<>>
  /\ stopPc' = "joinDeser"
  /\ UNCHANGED <<running, recvStopped, mergeStopped, thr>>
  /\ UNCHANGED <<rpcNext, reply, numStfs, fetching, fetched, lost, dups,
                 recvQueue, maxMerged, mergeQueue, delivered>>

\* The deserializer has been joined: mStfsForMerging->stop(), join the merger.
StopJoinDeser ==
  /\ stopPc = "joinDeser" /\ thr["deser"] = "exited"
  /\ mergeStopped' = TRUE
  /\ stopPc' = "joinMerger"
  /\ UNCHANGED <<running, recvStopped, thr>>
  /\ UNCHANGED <<rpcNext, reply, numStfs, fetching, fetched, lost, dups,
                 recvQueue, mergeMap, maxMerged, mergeQueue, delivered>>

StopJoinMerger ==
  /\ stopPc = "joinMerger" /\ thr["merger"] = "exited"
  /\ stopPc' = "done"
  /\ UNCHANGED <<running, recvStopped, mergeStopped, thr>>
  /\ UNCHANGED <<rpcNext, reply, numStfs, fetching, fetched, lost, dups,
                 recvQueue, mergeMap, maxMerged, mergeQueue, delivered>>

\* Thread x leaves its loop: mState is not RUNNING at the loop head, and
\* the pop it was blocked in has returned (an item, or nullopt from a
\* stopped queue).  The deserializer's wait_for times out after 10 ms.
ThreadExit(x) ==
  /\ thr[x] = "run" /\ ~running
  /\ x = "pacer"  => (recvQueue # <<>> \/ recvStopped)
  /\ x = "merger" => (mergeQueue # <<>> \/ mergeStopped)
  /\ thr' = [thr EXCEPT ![x] = "exited"]
  /\ UNCHANGED <<running, recvStopped, mergeStopped, stopPc>>
  /\ UNCHANGED <<rpcNext, reply, numStfs, fetching, fetched, lost, dups,
                 recvQueue, mergeMap, maxMerged, mergeQueue, delivered>>

\* stop() has returned and the device goes on tearing down.
Stopped == stopPc = "done" /\ UNCHANGED vars

Next ==
  \/ RpcAdmit
  \/ \E s \in Senders : RpcRequest(s)
  \/ \E t \in TfIds, s \in Senders :
       InputFetch(t, s) \/ InputFetchLost(t, s) \/ InputDuplicate(t, s)
  \/ PacerAdd \/ PacerDelete \/ PacerInfo
  \/ DeserComplete \/ DeserWait
  \/ MergerBuild
  \/ StopBegin \/ StopJoinPacer \/ StopJoinDeser \/ StopJoinMerger
  \/ \E x \in Threads : ThreadExit(x)
  \/ Stopped

\* Every builder thread loops while RUNNING; the StfSenders answer every
\* request (gRPC deadline) and a started fetch completes unless it is lost.
Fairness ==
  /\ \A s \in Senders : WF_vars(RpcRequest(s))
  /\ \A t \in TfIds, s \in Senders : WF_vars(InputFetch(t, s))
  /\ WF_vars(PacerAdd) /\ WF_vars(PacerDelete) /\ WF_vars(PacerInfo)
  /\ WF_vars(DeserComplete)
  /\ WF_vars(MergerBuild)
  /\ WF_vars(StopJoinPacer) /\ WF_vars(StopJoinDeser) /\ WF_vars(StopJoinMerger)
  /\ \A x \in Threads : WF_vars(ThreadExit(x))

Spec == Init /\ [][Next]_vars /\ Fairness

-----------------------------------------------------------------------------
(* Properties.                                                             *)

DeliveredIds == {delivered[i].id : i \in DOMAIN delivered}

TypeOK ==
  /\ rpcNext \in 1 .. NumTfs + 1
  /\ reply \in [TfIds -> [Senders -> Replies]]
  /\ numStfs \in [TfIds -> (0 .. Cardinality(Senders)) \cup {NoValue}]
  /\ fetching \subseteq TfIds \X Senders
  /\ fetched \subseteq TfIds \X Senders
  /\ lost \in 0 .. MaxLost /\ dups \in 0 .. MaxDup
  /\ \A i \in DOMAIN recvQueue : recvQueue[i] \in Msgs
  /\ DOMAIN mergeMap \subseteq TfIds
  /\ \A t \in DOMAIN mergeMap : \A i \in DOMAIN mergeMap[t] : mergeMap[t][i] \in Msgs
  /\ maxMerged \in 0 .. NumTfs
  /\ \A i \in DOMAIN delivered : delivered[i].id \in TfIds
  /\ running \in BOOLEAN /\ recvStopped \in BOOLEAN /\ mergeStopped \in BOOLEAN
  /\ thr \in [Threads -> {"run", "exited"}]
  /\ stopPc \in {"idle", "joinPacer", "joinDeser", "joinMerger", "done"}

\* A TF handed to the output stage (StfMergerThread) holds exactly one
\* fragment from every StfSender that answered OK for it, and nothing else:
\* the pacer, the deserializer's count check and the merge together never
\* build a TF from a partial, padded or mixed fragment set.
DeliveredTfComplete ==
  \A i \in DOMAIN delivered :
    LET tf == delivered[i] IN
    /\ Len(tf.parts) = Cardinality(OkSenders(tf.id))
    /\ ToSet(tf.parts) = OkSenders(tf.id)

\* TFs leave the merger in strictly increasing id order, so no TF is built
\* twice (spec 5: the merger processes entries in ascending tf_id).
DeliveredInIdOrder ==
  \A i, j \in DOMAIN delivered : i < j => delivered[i].id < delivered[j].id

\* The RPC side is done with t and the pipeline has no trace of it left.
Resolved(t) ==
  \/ t \in DeliveredIds
  \/ /\ Answered(t) /\ OkSenders(t) = {}
     /\ t \notin DOMAIN mergeMap
     /\ \A i \in DOMAIN recvQueue : recvQueue[i].tf # t

\* Every admitted TF is eventually built and delivered, or, if no StfSender
\* had data, dropped from the pipeline (spec 4.5: past admission no stage
\* blocks indefinitely).
AdmittedTfResolved ==
  \A t \in TfIds : (t < rpcNext) ~> Resolved(t)

\* Once the device has called stop(), it returns: every thread it joins
\* has left its loop, because each queue a thread blocks on is stopped
\* before that thread is joined, even when a lost STF keeps a TF from ever
\* completing.
StopCompletes == (stopPc # "idle") ~> (stopPc = "done")

=============================================================================
