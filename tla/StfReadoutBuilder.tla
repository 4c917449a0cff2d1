------------------------- MODULE StfReadoutBuilder -------------------------
(***************************************************************************)
(* SubTimeFrameReadoutBuilder of src/common/SubTimeFrameBuilder.cxx: the   *)
(* readout thread hands it the HBFrames of one equipment (subspecification)*)
(* per call.  addHbFrames() collects physics data into the current STF     *)
(* mStf, dropping empty-trigger and insane blocks; addTopoStfData() keeps  *)
(* one topology STF per subspecification in mTopoStfMap, numbers new ones  *)
(* from the static uint32_t sTfId, and returns one once it holds           *)
(* pMaxNumMessages messages.  A failed header allocation clears the STF    *)
(* being built and closes the mAcceptStfData gate.                         *)
(*                                                                         *)
(* Data blocks are counted, not kept.  The readout thread that calls the   *)
(* builder, getStf() and the running flag are outside src/ and are modelled *)
(* from the spec as environment steps.  sTfId has IdBits bits.             *)
(***************************************************************************)
EXTENDS Naturals, Sequences, FiniteSets

CONSTANTS
  SubSpecs,      \* equipments (pSubSpecification)
  TfIds,         \* physics TF ids the readout delivers, in increasing order
  Lens,          \* pHBFrameLen values of a call
  MaxNumMessages,\* pMaxNumMessages of addTopoStfData
  FilterEmpty,   \* ReadoutDataUtils::sEmptyTriggerHBFrameFilterring
  SanityDrop,    \* sRdhSanityCheckMode == eSanityCheckDrop
  IdBits,        \* width of sTfId (32 in the code)
  MaxCalls,      \* add calls in a behaviour
  MaxAllocFail   \* header allocations that fail

ASSUME Lens \subseteq Nat \ {0} /\ MaxNumMessages \in Nat \ {0}
ASSUME IdBits \in 1 .. 30

\* an empty unique_ptr, and a new SubTimeFrame(id)
None == [present |-> FALSE, id |-> 0, msgs |-> 0]
NewStf(id) == [present |-> TRUE, id |-> id, msgs |-> 0]

VARIABLES
  running,       \* mRunning
  accept,        \* mAcceptStfData
  stf,           \* mStf: [id, msgs] or None
  stfFailed,     \* mStf was cleared after an allocation failure
  firstFiltered, \* mFirstFiltered: subspecs whose first HBFrame was kept
  topo,          \* mTopoStfMap: subspec -> [stf, count]
  sTfId,         \* the static topology STF id counter
  physOut,       \* STFs taken with getStf(): [id, msgs, failed]
  topoOut,       \* topology STFs returned: [id, msgs]
  calls, allocFails

vars == <<running, accept, stf, stfFailed, firstFiltered, topo, sTfId,
          physOut, topoOut, calls, allocFails>>

Init ==
  /\ running = TRUE /\ accept = TRUE
  /\ stf = None /\ stfFailed = FALSE /\ firstFiltered = {}
  /\ topo = [s \in SubSpecs |-> [stf |-> None, count |-> 0]]
  /\ sTfId = 1
  /\ physOut = <<>> /\ topoOut = <<>>
  /\ calls = 0 /\ allocFails = 0

\* the TF of the next physics call: the current STF's, or a later one
NextTf ==
  IF stf # None THEN {stf.id}
  ELSE {t \in TfIds : \A i \in DOMAIN physOut : t > physOut[i].id}

\* Blocks of a call that survive the empty-trigger filter (the first
\* HBFrame of an equipment not yet in mFirstFiltered is kept) and the
\* sanity check in drop mode.
KeptCounts(ss, len, ff) ==
  LET keepFirst == ss \notin ff
      lo == IF SanityDrop THEN 0
            ELSE IF ~FilterEmpty THEN len
            ELSE IF keepFirst THEN 1 ELSE 0
  IN lo .. len

\* addHbFrames while mRunning is false: the gate is closed.
AddHbFramesStopped ==
  /\ ~running
  /\ calls < MaxCalls
  /\ calls' = calls + 1
  /\ accept' = FALSE
  /\ UNCHANGED <<running, stf, stfFailed, firstFiltered, topo, sTfId, physOut,
                 topoOut, allocFails>>

\* Mutant of HeaderAllocFails: the partial STF is not cleared.
HeaderAllocFailsNoClear(cur) ==
  /\ allocFails < MaxAllocFail
  /\ allocFails' = allocFails + 1
  /\ accept' = FALSE
  /\ stf' = cur
  /\ stfFailed' = TRUE

\* newHeaderMessage() returns null: mAcceptStfData = false, mStf->clear().
HeaderAllocFails(cur) ==
  /\ allocFails < MaxAllocFail
  /\ allocFails' = allocFails + 1
  /\ accept' = FALSE
  /\ stf' = [cur EXCEPT !.msgs = 0]
  /\ stfFailed' = TRUE

\* addHbFrames with the gate open: a new STF (clearing mFirstFiltered) when
\* there is none, the filters, then one header message for the equipment;
\* if that allocation fails the partial STF is cleared and the gate
\* closed.  An unreadable RDH when the first orbit is unset returns early
\* (after the STF was created).
AddHbFrames(ss, len) ==
  /\ running /\ accept
  /\ calls < MaxCalls
  /\ \E tf \in NextTf :
      LET cur == IF stf = None THEN NewStf(tf) ELSE stf
          ff  == IF stf = None THEN {} ELSE firstFiltered
      IN \/ /\ stf' = cur                         \* RDHReader throws
            /\ firstFiltered' = ff
            /\ UNCHANGED <<accept, stfFailed, allocFails>>
         \/ \E kept \in KeptCounts(ss, len, ff) :
              /\ firstFiltered' =
                   IF FilterEmpty /\ ss \notin ff THEN ff \cup {ss} ELSE ff
              /\ \/ kept > 0 /\ HeaderAllocFails(cur)
                 \/ /\ stf' = [cur EXCEPT !.msgs = @ + kept]
                    /\ UNCHANGED <<accept, stfFailed, allocFails>>
  /\ calls' = calls + 1
  /\ UNCHANGED <<running, topo, sTfId, physOut, topoOut>>

\* newHeaderMessage() returns null in addTopoStfData: mAcceptStfData =
\* false and lStf->clear(); lStfNumMessages keeps its value.
TopoAllocFails(ss, cur, cnt) ==
  /\ allocFails < MaxAllocFail
  /\ allocFails' = allocFails + 1
  /\ accept' = FALSE
  /\ topo' = [topo EXCEPT ![ss] = [stf |-> [cur EXCEPT !.msgs = 0], count |-> cnt]]
  /\ UNCHANGED topoOut

\* Mutant of TopoReturn: lStfNumMessages is not reset.
TopoReturnKeepsCount(ss, done, cnt) ==
  /\ topoOut' = Append(topoOut, done)
  /\ topo' = [topo EXCEPT ![ss] = [stf |-> None, count |-> cnt]]
  /\ UNCHANGED <<accept, allocFails>>

\* The STF reached pMaxNumMessages (its count is cnt): it is moved out of
\* the map and returned, and lStfNumMessages is reset.
TopoReturn(ss, done, cnt) ==
  /\ topoOut' = Append(topoOut, done)
  /\ topo' = [topo EXCEPT ![ss] = [stf |-> None, count |-> 0]]
  /\ UNCHANGED <<accept, allocFails>>

\* addTopoStfData with the gate open: the subspec's STF, created with id
\* sTfId (then sTfId++, wrapping at 2^IdBits) and a zero count when absent,
\* gets one header message and the call's blocks.  If the header
\* allocation fails the STF is cleared and the gate closed; the count is
\* left as it was.  Otherwise the count grows by pHBFrameLen and the STF is
\* returned (and its map entry emptied) once it reaches pMaxNumMessages.
AddTopoStfData(ss, len) ==
  /\ running /\ accept
  /\ calls < MaxCalls
  /\ LET e    == topo[ss]
         new  == e.stf = None
         cur  == IF new THEN NewStf(sTfId) ELSE e.stf
         cnt  == IF new THEN 0 ELSE e.count
         cnt2 == cnt + len
     IN /\ sTfId' = IF new THEN (sTfId + 1) % (2 ^ IdBits) ELSE sTfId
        /\ \/ TopoAllocFails(ss, cur, cnt)
           \/ /\ cnt2 >= MaxNumMessages
              /\ TopoReturn(ss, [cur EXCEPT !.msgs = @ + len], cnt2)
           \/ /\ cnt2 < MaxNumMessages
              /\ topo' = [topo EXCEPT ![ss] =
                            [stf |-> [cur EXCEPT !.msgs = @ + len], count |-> cnt2]]
              /\ UNCHANGED <<accept, topoOut, allocFails>>
  /\ calls' = calls + 1
  /\ UNCHANGED <<running, stf, stfFailed, firstFiltered, physOut>>

\* The readout thread calls getStf(): it takes the physics STF, if any, and
\* opens mAcceptStfData again (the header, outside src/, does this; the
\* re-enable at line 74 and the "dropping data of the current STF" logs
\* rely on it).
GetStf ==
  /\ stf # None \/ ~accept
  /\ physOut' = IF stf # None
                  THEN Append(physOut, [id |-> stf.id, msgs |-> stf.msgs,
                                        failed |-> stfFailed])
                  ELSE physOut
  /\ stf' = None
  /\ stfFailed' = FALSE
  /\ accept' = TRUE
  /\ UNCHANGED <<running, firstFiltered, topo, sTfId, topoOut, calls,
                 allocFails>>

\* The builder is stopped (mRunning = false).
Stop ==
  /\ running
  /\ running' = FALSE
  /\ UNCHANGED <<accept, stf, stfFailed, firstFiltered, topo, sTfId, physOut,
                 topoOut, calls, allocFails>>

Next ==
  \/ AddHbFramesStopped \/ GetStf \/ Stop
  \/ \E ss \in SubSpecs, len \in Lens : AddHbFrames(ss, len) \/ AddTopoStfData(ss, len)

Spec == Init /\ [][Next]_vars

-----------------------------------------------------------------------------
StfRec == [present : BOOLEAN, id : Nat, msgs : Nat]

TypeOK ==
  /\ running \in BOOLEAN /\ accept \in BOOLEAN
  /\ stf \in StfRec /\ stfFailed \in BOOLEAN /\ firstFiltered \subseteq SubSpecs
  /\ \A ss \in SubSpecs : topo[ss].stf \in StfRec /\ topo[ss].count \in Nat
  /\ \A ss \in SubSpecs : topo[ss].stf = None => topo[ss].count = 0
  /\ sTfId \in 0 .. 2 ^ IdBits - 1
  /\ calls \in 0 .. MaxCalls /\ allocFails \in 0 .. MaxAllocFail

\* An STF whose header allocation failed reaches getStf() without any
\* data: no partial physics STF is forwarded, whatever later calls of the
\* same TF bring.
NoPartialPhysStf ==
  \A i \in DOMAIN physOut : physOut[i].failed => physOut[i].msgs = 0

=============================================================================
