--------------------------- MODULE ConsulTunables ---------------------------
(***************************************************************************)
(* The tunable parameters of ConsulConfig<T>                              *)
(* (src/common/discovery/ConfigConsul.h).  ConsulPollingThread wakes at    *)
(* least every 30 s and, holding mTunablesLock and mConsulLock, rebuilds   *)
(* mTunables from the kv items under the global prefix and then the       *)
(* process prefix (a process key overrides a global one of the same name),*)
(* then writes every entry of mTunablesToAdd back to Consul with its       *)
(* default value and clears it.  The get*Param getters, called by the      *)
(* process under mTunablesLock, return the cached value or the default,    *)
(* and queue the default in mTunablesToAdd when the key is missing (or,    *)
(* for the numeric getters, does not parse).                                *)
(*                                                                         *)
(* The operator edits Consul at any time; that is the only writer besides  *)
(* the process.  While the round holds mTunablesLock nobody reads          *)
(* mTunables, so the round builds it in fresh and publishes it when the    *)
(* lock is released (also after an exception, with what was read so far). *)
(* Values are "good" and "bad" (an operator value that does not parse as   *)
(* a number), and "dflt", the default the process writes.                  *)
(***************************************************************************)
EXTENDS Naturals, FiniteSets

CONSTANTS
  Keys,          \* parameter names, 1..n in std::map order
  DataDistKeys,  \* names starting with "DataDist": their home is the global prefix
  Types,         \* getter kinds: "bool", "str", "int" (int64 and uint64)
  MaxOpWrites,   \* operator edits of Consul
  MaxErrors      \* Consul calls that throw

ASSUME Keys \subseteq Nat /\ DataDistKeys \subseteq Keys
ASSUME Types \subseteq {"bool", "str", "int"}

Prefixes == {"Global", "Proc"}   \* keyVec: read global, then per process type
OpVals   == {"good", "bad"}
NoKey    == "none"

\* where the write-back puts a missing parameter
Home(k) == IF k \in DataDistKeys THEN "Global" ELSE "Proc"

VARIABLES
  store,        \* store[p][k]: Consul value of prefix p + k, or NoKey
  marker,       \* marker[p]: the empty prefix key itself was set
  cache,        \* mTunables
  fresh,        \* mTunables while the round holds the lock
  toAdd,        \* keys of mTunablesToAdd (the value is always the default)
  pc,           \* poll thread: "wait", "Global", "Proc", "writeback", "exited"
  running,      \* mRunning
  tunablesRead, \* mTunablesRead
  opWrites, errors

vars == <<store, marker, cache, fresh, toAdd, pc, running, tunablesRead,
          opWrites, errors>>

Empty == [k \in Keys |-> NoKey]

\* The constructor starts the polling thread and waits for mTunablesRead.
Init ==
  /\ store = [p \in Prefixes |-> Empty]
  /\ marker = [p \in Prefixes |-> FALSE]
  /\ cache = Empty /\ fresh = Empty
  /\ toAdd = {}
  /\ pc = "Global"
  /\ running = TRUE /\ tunablesRead = FALSE
  /\ opWrites = 0 /\ errors = 0

\* The operator sets a parameter under either prefix.
OpSet(p, k, v) ==
  /\ opWrites < MaxOpWrites
  /\ opWrites' = opWrites + 1
  /\ store' = [store EXCEPT ![p][k] = v]
  /\ UNCHANGED <<marker, cache, fresh, toAdd, pc, running, tunablesRead, errors>>

\* The loop head: mRunning is checked after wait_for; a new round moves
\* mTunables away and starts from an empty map.
PollWake ==
  /\ pc = "wait"
  /\ pc' = IF running THEN "Global" ELSE "exited"
  /\ fresh' = Empty
  /\ UNCHANGED <<store, marker, cache, toAdd, running, tunablesRead,
                 opWrites, errors>>

\* Mutant of RoundFails: the catch path does not set mTunablesRead.
RoundFailsUnread ==
  /\ errors < MaxErrors
  /\ errors' = errors + 1
  /\ cache' = fresh
  /\ UNCHANGED tunablesRead
  /\ pc' = "wait"

\* A Consul call of the round throws: the catch logs, mTunablesRead is set,
\* and mTunables keeps what the round had read.  mTunablesToAdd stays.
RoundFails ==
  /\ errors < MaxErrors
  /\ errors' = errors + 1
  /\ cache' = fresh
  /\ tunablesRead' = TRUE
  /\ pc' = "wait"

\* Mutant of PollRead: values are inserted (std::map::insert), so a
\* process key no longer overrides the global key of the same name.
PollReadInsert ==
  /\ pc \in Prefixes
  /\ \/ /\ RoundFails
        /\ UNCHANGED <<store, marker, fresh>>
     \/ LET p == pc
            present == {k \in Keys : store[p][k] # NoKey}
        IN /\ IF present = {} /\ ~marker[p]
                THEN /\ marker' = [marker EXCEPT ![p] = TRUE]
                     /\ UNCHANGED fresh
                ELSE /\ fresh' = [k \in Keys |-> IF k \in present /\ fresh[k] = NoKey
                                                  THEN store[p][k] ELSE fresh[k]]
                     /\ UNCHANGED marker
           /\ pc' = IF p = "Global" THEN "Proc" ELSE "writeback"
           /\ UNCHANGED <<cache, tunablesRead, errors>>
        /\ UNCHANGED store
  /\ UNCHANGED <<toAdd, running, opWrites>>

\* kv.items(prefix): an empty result creates the prefix key; otherwise every
\* non-empty value is stored under its name without the prefix.
PollRead ==
  /\ pc \in Prefixes
  /\ \/ /\ RoundFails
        /\ UNCHANGED <<store, marker, fresh>>
     \/ LET p == pc
            present == {k \in Keys : store[p][k] # NoKey}
        IN /\ IF present = {} /\ ~marker[p]
                THEN /\ marker' = [marker EXCEPT ![p] = TRUE]
                     /\ UNCHANGED fresh
                ELSE /\ fresh' = [k \in Keys |-> IF k \in present THEN store[p][k]
                                                                ELSE fresh[k]]
                     /\ UNCHANGED marker
           /\ pc' = IF p = "Global" THEN "Proc" ELSE "writeback"
           /\ UNCHANGED <<cache, tunablesRead, errors>>
        /\ UNCHANGED store
  /\ UNCHANGED <<toAdd, running, opWrites>>

\* The default of each key of mTunablesToAdd, in key order, is set under the
\* key's home prefix, overwriting whatever Consul holds there.
WriteDefaults(ks) ==
  [p \in Prefixes |->
     [k \in Keys |-> IF k \in ks /\ Home(k) = p THEN "dflt" ELSE store[p][k]]]

\* Mutant of PollWriteBack: mTunablesToAdd is cleared even when a kv.set
\* threw.
PollWriteBackClears ==
  /\ pc = "writeback"
  /\ \/ /\ store' = WriteDefaults(toAdd)
        /\ toAdd' = {}
        /\ cache' = fresh
        /\ tunablesRead' = TRUE
        /\ pc' = "wait"
        /\ UNCHANGED errors
     \/ \E j \in toAdd :
          /\ RoundFails
          /\ store' = WriteDefaults({k \in toAdd : k < j})
          /\ toAdd' = {}
  /\ UNCHANGED <<marker, fresh, running, opWrites>>

\* The write-back: all of mTunablesToAdd is written and it is cleared; or a
\* kv.set throws after the keys below j were written.  Then mTunablesRead
\* is set and the lock released by wait_for.
PollWriteBack ==
  /\ pc = "writeback"
  /\ \/ /\ store' = WriteDefaults(toAdd)
        /\ toAdd' = {}
        /\ cache' = fresh
        /\ tunablesRead' = TRUE
        /\ pc' = "wait"
        /\ UNCHANGED errors
     \/ \E j \in toAdd :
          /\ RoundFails
          /\ store' = WriteDefaults({k \in toAdd : k < j})
          /\ UNCHANGED toAdd
  /\ UNCHANGED <<marker, fresh, running, opWrites>>

\* getBoolParam / getStringParam / getInt64Param / getUInt64Param: a missing
\* key, or a numeric one that does not parse, queues the default.
GetParam(k, t) ==
  /\ pc = "wait"          \* the poll thread holds mTunablesLock otherwise
  /\ tunablesRead /\ running
  /\ toAdd' = IF cache[k] = NoKey \/ (t = "int" /\ cache[k] = "bad")
                THEN toAdd \cup {k} ELSE toAdd
  /\ UNCHANGED <<store, marker, cache, fresh, pc, running, tunablesRead,
                 opWrites, errors>>

\* cleanup(): mRunning = false, notify the poll thread and join it.
Cleanup ==
  /\ running
  /\ running' = FALSE
  /\ UNCHANGED <<store, marker, cache, fresh, toAdd, pc, tunablesRead,
                 opWrites, errors>>

Exited == pc = "exited" /\ UNCHANGED vars

Next ==
  \/ \E p \in Prefixes, k \in Keys, v \in OpVals : OpSet(p, k, v)
  \/ PollWake \/ PollRead \/ PollWriteBack
  \/ \E k \in Keys, t \in Types : GetParam(k, t)
  \/ Cleanup \/ Exited

\* wait_for(30 s) returns, and each Consul call returns or throws.  The
\* operator, the getters and cleanup() are not forced.
Fairness == WF_vars(PollWake) /\ WF_vars(PollRead) /\ WF_vars(PollWriteBack)

Spec == Init /\ [][Next]_vars /\ Fairness

-----------------------------------------------------------------------------
Values == OpVals \cup {"dflt", NoKey}

TypeOK ==
  /\ store \in [Prefixes -> [Keys -> Values]]
  /\ marker \in [Prefixes -> BOOLEAN]
  /\ cache \in [Keys -> Values] /\ fresh \in [Keys -> Values]
  /\ toAdd \subseteq Keys
  /\ pc \in Prefixes \cup {"wait", "writeback", "exited"}
  /\ running \in BOOLEAN
  /\ pc = "wait" => tunablesRead
  /\ opWrites \in 0 .. MaxOpWrites /\ errors \in 0 .. MaxErrors

\* what a complete round reads for k: the process prefix overrides the
\* global one
ConsulValue(k) ==
  IF store["Proc"][k] # NoKey THEN store["Proc"][k] ELSE store["Global"][k]

\* A value the operator leaves in Consul while the process runs takes
\* effect: mTunables eventually holds it for good, whatever Consul errors,
\* getters and write-backs happened before (ConsulPollingThread).
ConfiguredValueApplied ==
  \A k \in Keys :
    (<>[](running /\ ConsulValue(k) = "good")) => <>[](cache[k] = "good")

\* A default queued by a getter (mTunablesToAdd) reaches Consul, also when
\* a write-back round fails part way, unless the process is shut down.
MissingDefaultsPublished ==
  \A k \in Keys : (k \in toAdd) ~> (store[Home(k)][k] # NoKey \/ ~running)

\* The process only writes back "missing parameters": it never replaces a
\* valid value the operator has set in Consul with its default.
OperatorValueKept ==
  [][\A p \in Prefixes, k \in Keys : store[p][k] = "good" => store'[p][k] # "dflt"]_store

=============================================================================
