------------------------- MODULE TfSchedulerPartition -------------------------
(***************************************************************************)
(* The TfScheduler partition life cycle:                                   *)
(*   src/TfScheduler/TfSchedulerInstanceRpc.cxx (start, updatePartition-   *)
(*   State, PartitionMonitorThread, TerminatePartition, TfBuilder          *)
(*   connection requests) and src/TfScheduler/TfSchedulerConnManager.cxx   *)
(*   (connectTfBuilder, disconnectTfBuilder, requestTfBuildersTerminate,   *)
(*   requestStfSendersTerminate, StfSenderMonitoringThread).               *)
(*                                                                         *)
(* Threads: the start() caller, PartitionMonitorThread (every 500 ms), the *)
(* StfSender monitoring thread, and gRPC handler threads for the external  *)
(* TerminatePartition request and for TfBuilder (dis)connection requests.  *)
(* mPartitionState is read and written by several of them without a lock.  *)
(* TfBuilders and StfSenders are processes outside src/: a TfBuilder asks  *)
(* to connect, may crash, and disconnects after TerminatePartition; an     *)
(* StfSender may become unreachable.                                       *)
(***************************************************************************)
EXTENDS Naturals, FiniteSets

CONSTANTS
  Senders,        \* StfSender ids of the partition (mStfSenderIdList)
  Builders,       \* TfBuilder process ids
  MaxSenderLoss,  \* StfSenders that may become unreachable
  MaxCrash,       \* TfBuilders that may crash
  MaxTerminate    \* external TerminatePartition requests

ASSUME Senders # {} /\ Builders # {}
ASSUME MaxSenderLoss \in Nat /\ MaxCrash \in Nat /\ MaxTerminate \in Nat

PartitionStates == {"CONFIGURING", "CONFIGURED", "TERMINATING", "TERMINATED", "ERROR"}
SenderStates    == {"INITIALIZING", "OK", "INCOMPLETE"}
MonitorPcs      == {"check", "update", "builders", "senders", "finish", "exited"}
BuilderPcs      == {"idle", "connecting", "connectingUCX", "connected", "crashed", "done"}

VARIABLES
  partState,      \* mPartitionState
  senderState,    \* mConnManager.mStfSenderState
  senderUp,       \* senderUp[s]: StfSender s answers gRPC
  startPc,        \* start(): "connecting", "started" or "failed"
  connStarted,    \* mConnManager.start() succeeded: sender monitoring runs
  monPc,          \* program counter of PartitionMonitorThread
  builderClients, \* keys of mTfBuilderRpcClients
  bPc,            \* bPc[b]: where TfBuilder b is in its connection life
  told,           \* TfBuilders that received TerminatePartition
  ucx,            \* TfBuilders connected over UCX (the rest over FairMQ)
  lostSenders, crashes, termRequests  \* environment budgets used

vars == <<partState, senderState, senderUp, startPc, connStarted, monPc,
          builderClients, bPc, told, ucx, lostSenders, crashes, termRequests>>

\* accepting_updates() (TfSchedulerInstanceRpc.h is not under src/):
\* the partition accepts work until termination or an error.
AcceptingUpdates == partState \in {"CONFIGURING", "CONFIGURED"}

\* updatePartitionState(): TERMINATED and ERROR are final.
UpdatePartitionState(new) ==
  IF partState \in {"TERMINATED", "ERROR"} THEN partState ELSE new

\* (mutant of MonitoredState below)
\* the monitor treats an incomplete StfSender set as still configuring
MonitoredStateLenient(ss) ==
  CASE ss = "OK"           -> "CONFIGURED"
    [] OTHER               -> "CONFIGURING"

\* PartitionMonitorThread's mapping of the StfSender state
MonitoredState(ss) ==
  CASE ss = "OK"           -> "CONFIGURED"
    [] ss = "INITIALIZING" -> "CONFIGURING"
    [] OTHER               -> "ERROR"

AllSendersUp == \A s \in Senders : senderUp[s]

Init ==
  /\ partState = "CONFIGURING"
  /\ senderState = "INITIALIZING"
  /\ senderUp = [s \in Senders |-> TRUE]
  /\ startPc = "connecting"
  /\ connStarted = FALSE
  /\ monPc = "check"
  /\ builderClients = {}
  /\ bPc = [b \in Builders |-> "idle"]
  /\ told = {}
  /\ ucx = {}
  /\ lostSenders = 0
  /\ crashes = 0
  /\ termRequests = 0

-----------------------------------------------------------------------------
(* start(): connect to all StfSenders, retrying for at most five minutes.  *)

\* mConnManager.start() succeeds once every StfSender channel is up; it
\* starts the StfSender monitoring and the drop-wait threads.
StartConnected ==
  /\ startPc = "connecting"
  /\ AcceptingUpdates
  /\ AllSendersUp
  /\ startPc' = "started"
  /\ connStarted' = TRUE
  /\ UNCHANGED <<partState, senderState, senderUp, monPc,
                 builderClients, bPc, told, ucx, lostSenders, crashes, termRequests>>

\* The retry loop ends because the partition stopped accepting updates.
StartAborted ==
  /\ startPc = "connecting"
  /\ ~AcceptingUpdates
  /\ startPc' = "started"
  /\ UNCHANGED <<partState, senderState, senderUp, connStarted, monPc,
                 builderClients, bPc, told, ucx, lostSenders, crashes, termRequests>>

\* Five minutes without all StfSenders: the partition goes to ERROR.
StartTimeout ==
  /\ startPc = "connecting"
  /\ AcceptingUpdates
  /\ startPc' = "failed"
  /\ partState' = UpdatePartitionState("ERROR")
  /\ UNCHANGED <<senderState, senderUp, connStarted, monPc,
                 builderClients, bPc, told, ucx, lostSenders, crashes, termRequests>>

-----------------------------------------------------------------------------
(* Environment: StfSenders, TfBuilders and the operator.                   *)

SenderLost(s) ==
  /\ senderUp[s]
  /\ lostSenders < MaxSenderLoss
  /\ senderUp' = [senderUp EXCEPT ![s] = FALSE]
  /\ lostSenders' = lostSenders + 1
  /\ UNCHANGED <<partState, senderState, startPc, connStarted, monPc,
                 builderClients, bPc, told, ucx, crashes, termRequests>>

\* TerminatePartition gRPC handler.
TerminatePartition ==
  /\ termRequests < MaxTerminate
  /\ termRequests' = termRequests + 1
  /\ partState' = IF AcceptingUpdates THEN UpdatePartitionState("TERMINATING")
                                      ELSE partState
  /\ UNCHANGED <<senderState, senderUp, startPc, connStarted, monPc,
                 builderClients, bPc, told, ucx, lostSenders, crashes>>

\* TfBuilderConnectionRequest handler, first line: refuse when terminating.
BuilderRequestConnect(b) ==
  /\ bPc[b] = "idle"
  /\ bPc' = [bPc EXCEPT ![b] = IF AcceptingUpdates THEN "connecting" ELSE "done"]
  /\ UNCHANGED <<partState, senderState, senderUp, startPc, connStarted, monPc,
                 builderClients, told, ucx, lostSenders, crashes, termRequests>>

BuilderCrash(b) ==
  /\ bPc[b] = "connected"
  /\ crashes < MaxCrash
  /\ bPc' = [bPc EXCEPT ![b] = "crashed"]
  /\ crashes' = crashes + 1
  /\ UNCHANGED <<partState, senderState, senderUp, startPc, connStarted, monPc,
                 builderClients, told, ucx, lostSenders, termRequests>>

\* A TfBuilder told to terminate sends TfBuilderDisconnectionRequest;
\* disconnectTfBuilder() deletes its RPC client.
BuilderDisconnect(b) ==
  /\ bPc[b] = "connected"
  /\ b \in told
  /\ b \notin ucx
  /\ bPc' = [bPc EXCEPT ![b] = "done"]
  /\ builderClients' = builderClients \ {b}
  /\ UNCHANGED <<partState, senderState, senderUp, startPc, connStarted, monPc,
                 told, ucx, lostSenders, crashes, termRequests>>

\* TfBuilderUCXConnectionRequest handler: refuse when terminating.
BuilderRequestConnectUCX(b) ==
  /\ bPc[b] = "idle"
  /\ bPc' = [bPc EXCEPT ![b] = IF AcceptingUpdates THEN "connectingUCX" ELSE "done"]
  /\ UNCHANGED <<partState, senderState, senderUp, startPc, connStarted, monPc,
                 builderClients, told, ucx, lostSenders, crashes, termRequests>>

\* A UCX TfBuilder told to terminate sends TfBuilderUCXDisconnectionRequest;
\* disconnectTfBuilderUCX() deletes its RPC client and tells every
\* StfSender to drop the endpoint, ignoring failed calls.
BuilderDisconnectUCX(b) ==
  /\ bPc[b] = "connected"
  /\ b \in told
  /\ b \in ucx
  /\ bPc' = [bPc EXCEPT ![b] = "done"]
  /\ builderClients' = builderClients \ {b}
  /\ UNCHANGED <<partState, senderState, senderUp, startPc, connStarted, monPc,
                 told, ucx, lostSenders, crashes, termRequests>>

-----------------------------------------------------------------------------
(* Mutants: plausible slips in the code below.                             *)

\* the RPC client is registered under the StfSender ids (the id mix-up that
\* requestStfSendersTerminate() makes when deleting clients)
ConnectTfBuilderMixedIds(b) ==
  /\ bPc[b] = "connecting"
  /\ IF senderState # "OK"
       THEN /\ bPc' = [bPc EXCEPT ![b] = "idle"]
            /\ UNCHANGED builderClients
     ELSE IF AllSendersUp
       THEN /\ builderClients' = builderClients \cup Senders
            /\ bPc' = [bPc EXCEPT ![b] = "connected"]
     ELSE /\ bPc' = [bPc EXCEPT ![b] = "idle"]
          /\ UNCHANGED builderClients
  /\ UNCHANGED <<partState, senderState, senderUp, startPc, connStarted, monPc,
                 told, ucx, lostSenders, crashes, termRequests>>

-----------------------------------------------------------------------------
(* TfScheduler threads.                                                    *)

\* connectTfBuilder(): under mStfSenderClientsLock, refuse unless the
\* StfSenders are ready, add the TfBuilder RPC client, then ask every
\* StfSender to connect; on the first failure disconnectTfBuilder() deletes
\* the client again.
ConnectTfBuilder(b) ==
  /\ bPc[b] = "connecting"
  /\ IF senderState # "OK"
       THEN /\ bPc' = [bPc EXCEPT ![b] = "idle"]
            /\ UNCHANGED builderClients
     ELSE IF AllSendersUp
       THEN /\ builderClients' = builderClients \cup {b}
            /\ bPc' = [bPc EXCEPT ![b] = "connected"]
     ELSE /\ bPc' = [bPc EXCEPT ![b] = "idle"]
          /\ UNCHANGED builderClients
  /\ UNCHANGED <<partState, senderState, senderUp, startPc, connStarted, monPc,
                 told, ucx, lostSenders, crashes, termRequests>>

\* connectTfBuilderUCX(): refuse when the TfBuilder has no UCX listener;
\* under mStfSenderClientsLock refuse unless the StfSenders are ready or
\* when the TfBuilder RPC client cannot be opened; then ask every
\* StfSender to connect to the endpoint.  On the first failure
\* disconnectTfBuilderUCX() deletes the client again.
ConnectTfBuilderUCX(b) ==
  /\ bPc[b] = "connectingUCX"
  /\ \E enabled, clientOk \in BOOLEAN :
       \/ /\ ~enabled \/ senderState # "OK" \/ ~clientOk
          /\ bPc' = [bPc EXCEPT ![b] = "idle"]
          /\ UNCHANGED <<builderClients, ucx>>
       \/ /\ enabled /\ senderState = "OK" /\ clientOk
          /\ AllSendersUp
          /\ builderClients' = builderClients \cup {b}
          /\ bPc' = [bPc EXCEPT ![b] = "connected"]
          /\ ucx' = ucx \cup {b}
       \/ /\ enabled /\ senderState = "OK" /\ clientOk
          /\ ~AllSendersUp
          /\ builderClients' = builderClients \ {b}
          /\ bPc' = [bPc EXCEPT ![b] = "idle"]
          /\ UNCHANGED ucx
  /\ UNCHANGED <<partState, senderState, senderUp, startPc, connStarted, monPc,
                 told, lostSenders, crashes, termRequests>>

\* StfSenderMonitoringThread: checkStfSenders() counts reachable StfSenders.
SenderMonitor ==
  /\ connStarted
  /\ senderState' = IF AllSendersUp THEN "OK" ELSE "INCOMPLETE"
  /\ UNCHANGED <<partState, senderUp, startPc, connStarted, monPc,
                 builderClients, bPc, told, ucx, lostSenders, crashes, termRequests>>

\* PartitionMonitorThread, line 116: in teardown, or not.
MonitorCheck ==
  /\ monPc = "check"
  /\ monPc' = IF partState \in {"TERMINATING", "ERROR"} THEN "builders" ELSE "update"
  /\ UNCHANGED <<partState, senderState, senderUp, startPc, connStarted,
                 builderClients, bPc, told, ucx, lostSenders, crashes, termRequests>>

\* PartitionMonitorThread, lines 137-150: follow the StfSender state.
MonitorUpdate ==
  /\ monPc = "update"
  /\ partState' = UpdatePartitionState(MonitoredState(senderState))
  /\ monPc' = "check"
  /\ UNCHANGED <<senderState, senderUp, startPc, connStarted,
                 builderClients, bPc, told, ucx, lostSenders, crashes, termRequests>>

\* Mutant of RequestTfBuildersTerminate: clients whose call failed are kept.
RequestTfBuildersTerminateKeepsFailed ==
  LET failed == {b \in builderClients : bPc[b] = "crashed"} IN
  /\ monPc = "builders"
  /\ told' = told \cup (builderClients \ failed)
  /\ UNCHANGED builderClients
  /\ monPc' = "senders"
  /\ UNCHANGED <<partState, senderState, senderUp, startPc, connStarted,
                 bPc, ucx, lostSenders, crashes, termRequests>>

\* requestTfBuildersTerminate(): TerminatePartition to every TfBuilder
\* client; clients whose call fails (crashed TfBuilder) are deleted.
RequestTfBuildersTerminate ==
  LET failed == {b \in builderClients : bPc[b] = "crashed"} IN
  /\ monPc = "builders"
  /\ told' = told \cup (builderClients \ failed)
  /\ builderClients' = builderClients \ failed
  /\ monPc' = "senders"
  /\ UNCHANGED <<partState, senderState, senderUp, startPc, connStarted,
                 bPc, ucx, lostSenders, crashes, termRequests>>

\* requestStfSendersTerminate(): TerminatePartition to every StfSender; it
\* deletes TfBuilder clients by the failed StfSender ids (no TfBuilder has
\* such an id) and reports whether no TfBuilder client is left.
RequestStfSendersTerminate ==
  /\ monPc = "senders"
  /\ monPc' = IF builderClients = {} THEN "finish" ELSE "check"
  /\ UNCHANGED <<partState, senderState, senderUp, startPc, connStarted,
                 builderClients, bPc, told, ucx, lostSenders, crashes, termRequests>>

\* lines 126-129: a terminating partition becomes TERMINATED; the thread exits.
MonitorFinish ==
  /\ monPc = "finish"
  /\ partState' = IF partState = "TERMINATING"
                    THEN UpdatePartitionState("TERMINATED") ELSE partState
  /\ monPc' = "exited"
  /\ UNCHANGED <<senderState, senderUp, startPc, connStarted,
                 builderClients, bPc, told, ucx, lostSenders, crashes, termRequests>>

\* The scheduler process keeps serving gRPC after the monitor exited.
Idle ==
  /\ monPc = "exited"
  /\ UNCHANGED vars

Next ==
  \/ StartConnected \/ StartAborted \/ StartTimeout
  \/ \E s \in Senders : SenderLost(s)
  \/ TerminatePartition
  \/ \E b \in Builders :
       \/ BuilderRequestConnect(b) \/ BuilderCrash(b) \/ BuilderDisconnect(b)
       \/ BuilderRequestConnectUCX(b) \/ BuilderDisconnectUCX(b)
       \/ ConnectTfBuilder(b) \/ ConnectTfBuilderUCX(b)
  \/ SenderMonitor
  \/ MonitorCheck \/ MonitorUpdate
  \/ RequestTfBuildersTerminate \/ RequestStfSendersTerminate \/ MonitorFinish
  \/ Idle

\* The scheduler threads loop on timers; gRPC handlers run to completion;
\* a TfBuilder told to terminate does disconnect.  The operator, crashes
\* and connection attempts are not assumed to happen.
Fairness ==
  /\ WF_vars(StartConnected) /\ WF_vars(StartAborted) /\ WF_vars(StartTimeout)
  /\ WF_vars(SenderMonitor)
  /\ WF_vars(MonitorCheck) /\ WF_vars(MonitorUpdate)
  /\ WF_vars(RequestTfBuildersTerminate) /\ WF_vars(RequestStfSendersTerminate)
  /\ WF_vars(MonitorFinish)
  /\ \A b \in Builders : /\ WF_vars(ConnectTfBuilder(b)) /\ WF_vars(BuilderDisconnect(b))
                          /\ WF_vars(ConnectTfBuilderUCX(b))
                          /\ WF_vars(BuilderDisconnectUCX(b))

Spec == Init /\ [][Next]_vars /\ Fairness

-----------------------------------------------------------------------------
(* Properties.                                                             *)

TypeOK ==
  /\ partState \in PartitionStates
  /\ senderState \in SenderStates
  /\ senderUp \in [Senders -> BOOLEAN]
  /\ startPc \in {"connecting", "started", "failed"}
  /\ connStarted \in BOOLEAN
  /\ monPc \in MonitorPcs
  /\ builderClients \subseteq Builders
  /\ bPc \in [Builders -> BuilderPcs]
  /\ told \subseteq Builders
  /\ ucx \subseteq Builders
  /\ lostSenders \in 0 .. MaxSenderLoss
  /\ crashes \in 0 .. MaxCrash
  /\ termRequests \in 0 .. MaxTerminate

\* Once the StfSender channels are up, losing an StfSender always ends in
\* an ERROR (or already terminated) partition: the StfSender monitoring
\* thread and PartitionMonitorThread together report it (spec 7).
SenderLossReported ==
  \A s \in Senders :
    (connStarted /\ ~senderUp[s]) ~> (partState \in {"ERROR", "TERMINATED"})

\* A partition that has started terminating only ends terminated or in
\* error: TerminatePartition answered "Terminate started" and no other
\* thread brings the partition back to accepting work (spec 5).
TerminationNotUndone ==
  [][partState = "TERMINATING" => partState' \in {"TERMINATING", "TERMINATED", "ERROR"}]_partState

\* Once PartitionMonitorThread has entered the teardown loop it finishes:
\* TfBuilders that crashed are dropped by requestTfBuildersTerminate (the
\* deletion in requestStfSendersTerminate uses StfSender ids and removes
\* nothing), and live ones disconnect after being told, whatever
\* connections race with the rounds.
TeardownCompletes == (monPc = "builders") ~> (monPc = "exited")

=============================================================================
