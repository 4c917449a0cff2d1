-------------------------- MODULE MCUCXTransport --------------------------
(***************************************************************************)
(* The two halves of the UCX data path, checked side by side: the         *)
(* StfSender's region registry (RegionRegistry), which resolves each       *)
(* message to the registered region whose remote key a TfBuilder reads    *)
(* with, and the multi-request slot accounting of those reads              *)
(* (UCXMultiReq).  The two share no state in the code: their steps         *)
(* interleave freely, each under its own fairness.                        *)
(***************************************************************************)
EXTENDS Naturals, TLC

CONSTANTS SlotsCount, NumGets, MaxErrors, MaxEpollErrors,
          Threads, RegionIds, Base, Size, Buffers, MaxLookups, MaxKeyFails

VARIABLES slotsUsed, totalDone, requests, finished, errored, issued, pc,
          retOk, errors, epollErrors,
          running, created, regions, cache, lkPc, lkBuf, lkKnown, lkResult,
          lookups, keyFails

U == INSTANCE UCXMultiReq
R == INSTANCE RegionRegistry

CONSTANTS t1

\* one pool thread; two regions of sizes 4 and 2, and a buffer in each and
\* one in no region
MCThreads == {t1}
MCBase == (1 :> 0) @@ (2 :> 4)
MCSize == (1 :> 4) @@ (2 :> 2)
MCBuffers == {[ptr |-> 1, len |-> 2], [ptr |-> 4, len |-> 2], [ptr |-> 7, len |-> 1]}

multiReqVars == <<slotsUsed, totalDone, requests, finished, errored, issued, pc,
                  retOk, errors, epollErrors>>
registryVars == <<running, created, regions, cache, lkPc, lkBuf, lkKnown,
                  lkResult, lookups, keyFails>>

Init == U!Init /\ R!Init

Next == \/ U!Next /\ UNCHANGED registryVars
        \/ R!Next /\ UNCHANGED multiReqVars

Spec == Init /\ [][Next]_<<multiReqVars, registryVars>> /\ U!Fairness /\ R!Fairness

TypeOK == U!TypeOK /\ R!TypeOK

\* UCXMultiReq: ucp_wait returns unless a read completed with an error.
WaitReturnsUnlessError == U!WaitReturnsUnlessError

\* UCXMultiReq: dd_ucp_multi_req, get(), the callbacks and ucp_wait refine
\* the completion contract (bounded slots, one done signal, no lost wake-up).
MultiReqContractRefined == U!MultiReqContractRefined

\* RegionRegistry: regionLookup returns a registered region containing the
\* buffer, and throws only if none registered before the call contains it.
RegionLookupCorrect == R!RegionLookupCorrect

=============================================================================
