--------------------------- MODULE RegionRegistry ---------------------------
(***************************************************************************)
(* The shared-memory region registry of the StfSender UCX output          *)
(* (src/StfSender/StfSenderOutputUCX.h).  registerSHMRegion() is called    *)
(* for every FairMQ region event: unless the output is running it returns  *)
(* at once; otherwise it creates the UCX remote key (which may fail: the   *)
(* region is then only logged) and appends the region to mRegions under    *)
(* mRegionListLock.  regionLookup(ptr, size), called by the pool threads   *)
(* for every message they send, scans the thread_local copy sRegions for   *)
(* a region that fully contains the buffer; on a miss it reloads the copy  *)
(* once (clear, copy under the lock, sort by size, largest first) and      *)
(* scans again, and throws when that scan misses too.  Regions are never   *)
(* removed from the list.                                                  *)
(*                                                                         *)
(* The scan of the thread's own copy touches no shared state, so a lookup  *)
(* is two steps: the scan of the cached copy, and the reload with the      *)
(* second scan.  start() and stop(), which set mRunning, are in            *)
(* StfSenderOutputUCX.cxx, which is not in the repository.                 *)
(***************************************************************************)
EXTENDS Naturals, Sequences, SequencesExt

CONSTANTS
  Threads,      \* pool threads (DataHandlerThread) calling regionLookup
  RegionIds,    \* FairMQ regions that are created
  Base, Size,   \* Base[r], Size[r]: the region's address range
  Buffers,      \* [ptr, len] records the threads look up
  MaxLookups,   \* regionLookup calls in a behaviour
  MaxKeyFails   \* create_rkey_for_region calls that fail

NoRegion == 0
ASSUME NoRegion \notin RegionIds

VARIABLES
  running,    \* mRunning
  created,    \* regions whose creation event has been handled
  regions,    \* mRegions, in push_back order
  cache,      \* cache[t]: thread t's sRegions
  lkPc,       \* lkPc[t]: "idle", "reload" (the cached scan missed) or "done"
  lkBuf,      \* lkBuf[t]: the buffer of t's current lookup
  lkKnown,    \* lkKnown[t]: regions in mRegions when t's lookup began
  lkResult,   \* lkResult[t]: the region returned, or NoRegion (it threw)
  lookups, keyFails

vars == <<running, created, regions, cache, lkPc, lkBuf, lkKnown, lkResult,
          lookups, keyFails>>

\* the containment test of regionLookup
RegionContains(r, b) == b.ptr >= Base[r] /\ b.ptr + b.len <= Base[r] + Size[r]

\* the first region of a scanned copy that contains b, or NoRegion
FirstMatch(seq, b) ==
  LET i == SelectInSeq(seq, LAMBDA r : RegionContains(r, b))
  IN IF i = 0 THEN NoRegion ELSE seq[i]

Init ==
  /\ running = FALSE
  /\ created = {} /\ regions = <<>>
  /\ cache = [t \in Threads |-> <<>>]
  /\ lkPc = [t \in Threads |-> "idle"]
  /\ lkBuf = [t \in Threads |-> CHOOSE b \in Buffers : TRUE]
  /\ lkKnown = [t \in Threads |-> {}]
  /\ lkResult = [t \in Threads |-> NoRegion]
  /\ lookups = 0 /\ keyFails = 0

\* start() and stop() of the UCX output set mRunning.
Start ==
  /\ ~running
  /\ running' = TRUE
  /\ UNCHANGED <<created, regions, cache, lkPc, lkBuf, lkKnown, lkResult,
                 lookups, keyFails>>

Stop ==
  /\ running
  /\ running' = FALSE
  /\ UNCHANGED <<created, regions, cache, lkPc, lkBuf, lkKnown, lkResult,
                 lookups, keyFails>>

\* registerSHMRegion: skipped while not running; the remote key creation
\* may fail; otherwise the region is appended under mRegionListLock.
RegisterSHMRegion(r) ==
  /\ r \notin created
  /\ created' = created \cup {r}
  /\ \/ /\ ~running
        /\ UNCHANGED <<regions, keyFails>>
     \/ /\ running /\ keyFails < MaxKeyFails
        /\ keyFails' = keyFails + 1
        /\ UNCHANGED regions
     \/ /\ running
        /\ regions' = Append(regions, r)
        /\ UNCHANGED keyFails
  /\ UNCHANGED <<running, cache, lkPc, lkBuf, lkKnown, lkResult, lookups>>

\* regionLookup, first pass: scan the thread's copy; a hit returns it.
LookupCached(t, b) ==
  /\ lkPc[t] \in {"idle", "done"}
  /\ lookups < MaxLookups
  /\ lookups' = lookups + 1
  /\ lkBuf' = [lkBuf EXCEPT ![t] = b]
  /\ lkKnown' = [lkKnown EXCEPT ![t] = ToSet(regions)]
  /\ LET hit == FirstMatch(cache[t], b) IN
       IF hit # NoRegion
         THEN /\ lkPc' = [lkPc EXCEPT ![t] = "done"]
              /\ lkResult' = [lkResult EXCEPT ![t] = hit]
         ELSE /\ lkPc' = [lkPc EXCEPT ![t] = "reload"]
              /\ UNCHANGED lkResult
  /\ UNCHANGED <<running, created, regions, cache, keyFails>>

\* (mutant of LookupReload below) the copy is refreshed, but the second
\* scan still runs over the old one
LookupReloadStaleScan(t) ==
  LET fresh == SortSeq(regions, LAMBDA a, c : Size[a] > Size[c]) IN
  /\ lkPc[t] = "reload"
  /\ cache' = [cache EXCEPT ![t] = fresh]
  /\ lkResult' = [lkResult EXCEPT ![t] = FirstMatch(cache[t], lkBuf[t])]
  /\ lkPc' = [lkPc EXCEPT ![t] = "done"]
  /\ UNCHANGED <<running, created, regions, lkBuf, lkKnown, lookups, keyFails>>

\* regionLookup after a miss: sRegions is cleared, refilled from mRegions
\* under mRegionListLock and sorted by size (largest first); the second
\* scan returns a match or throws "no region matched".
LookupReload(t) ==
  LET fresh == SortSeq(regions, LAMBDA a, c : Size[a] > Size[c]) IN
  /\ lkPc[t] = "reload"
  /\ cache' = [cache EXCEPT ![t] = fresh]
  /\ lkResult' = [lkResult EXCEPT ![t] = FirstMatch(fresh, lkBuf[t])]
  /\ lkPc' = [lkPc EXCEPT ![t] = "done"]
  /\ UNCHANGED <<running, created, regions, lkBuf, lkKnown, lookups, keyFails>>

Next ==
  \/ Start \/ Stop
  \/ \E r \in RegionIds : RegisterSHMRegion(r)
  \/ \E t \in Threads :
       \/ \E b \in Buffers : LookupCached(t, b)
       \/ LookupReload(t)

\* A thread that missed in its copy finishes the lookup.
Fairness == \A t \in Threads : WF_vars(LookupReload(t))

Spec == Init /\ [][Next]_vars /\ Fairness

-----------------------------------------------------------------------------
TypeOK ==
  /\ running \in BOOLEAN
  /\ created \subseteq RegionIds
  /\ regions \in Seq(RegionIds) /\ ToSet(regions) \subseteq created
  /\ cache \in [Threads -> Seq(RegionIds)]
  /\ lkPc \in [Threads -> {"idle", "reload", "done"}]
  /\ lkBuf \in [Threads -> Buffers]
  /\ lkKnown \in [Threads -> SUBSET RegionIds]
  /\ lkResult \in [Threads -> RegionIds \cup {NoRegion}]
  /\ lookups \in 0 .. MaxLookups /\ keyFails \in 0 .. MaxKeyFails

\* regionLookup keeps the registry contract of spec 4.2 despite the stale
\* thread-local copies: a region it returns is registered and fully
\* contains the buffer, and it throws only when no region registered
\* before the lookup began contains the buffer, whatever registrations and
\* other threads' reloads happened in between.
RegionLookupCorrect ==
  \A t \in Threads :
    lkPc[t] = "done" =>
      IF lkResult[t] # NoRegion
        THEN /\ RegionContains(lkResult[t], lkBuf[t])
             /\ lkResult[t] \in ToSet(regions)
        ELSE \A r \in lkKnown[t] : ~RegionContains(r, lkBuf[t])

=============================================================================
