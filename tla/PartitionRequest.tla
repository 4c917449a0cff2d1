-------------------------- MODULE PartitionRequest --------------------------
(***************************************************************************)
(* The partition requests of ConsulConfig<TfSchedulerConfigStatus>         *)
(* (src/common/discovery/ConfigConsul.h, getNewPartitionRequest).  The     *)
(* operator (ECS) writes a request as keys under epn/data-dist/request;    *)
(* the TfScheduler calls getNewPartitionRequest, which, holding            *)
(* mConsulLock:                                                            *)
(*   - reads the items under the prefix (Consul returns them sorted by     *)
(*     key) and returns false if there are fewer than two;                 *)
(*   - with exactly two, checks that they are the partition-id and the     *)
(*     stf-sender-id-list keys, trims the id and rejects an empty one,     *)
(*     splits the list with boost::split (token_compress_on), sorts and    *)
(*     uniques it, and rejects an empty or a non-unique list;              *)
(*   - moves the items, valid or not, to an info prefix: one kv.set of the *)
(*     request time, then kv.set of the copy and kv.erase of the original, *)
(*     key by key;                                                         *)
(*   - catches any exception of a Consul call and returns lReqValid, which *)
(*     is already true for a valid request whose move failed part way.     *)
(* A call that returns before the move changes nothing, and a call that    *)
(* holds mConsulLock is atomic for the process, so the call is one step;   *)
(* the failing Consul call is a nondeterministic point of the move.  The   *)
(* operator, outside the repository, is taken to write a new request only *)
(* when the request prefix is empty, one key per step, in any order.       *)
(***************************************************************************)
EXTENDS Naturals, Sequences, SequencesExt, FiniteSets

CONSTANTS
  MaxReqs,     \* requests the operator writes
  MaxLen,      \* length of the strings the operator writes
  MaxErrors    \* Consul calls that throw

IdKey   == "partition-id"
NameKey == "partition-name"       \* a stray key under the request prefix
ListKey == "stf-sender-id-list"
KeyOrder == <<IdKey, NameKey, ListKey>>   \* the order kv.items returns
ReqKeys == ToSet(KeyOrder)
TimeKey == "request-time"

\* strings as sequences of characters: one id letter and one separator
\* (boost::is_any_of(";,\n\t\r ")), and for the partition id one letter
\* and one blank
Sep == ","
ListVals == BoundedSeq({"a", Sep}, MaxLen)
PidVals == BoundedSeq({"p", " "}, MaxLen)
ValsOf(k) == CASE k = IdKey -> PidVals [] k = ListKey -> ListVals
                  [] k = NameKey -> {<<"p">>}

\* the request shapes the operator may write: the two keys, a key missing,
\* or a stray key besides them
Shapes == {{IdKey, ListKey}, {IdKey, NameKey}, {IdKey, ListKey, NameKey}}

Absent == [n |-> 0, v |-> <<>>]

VARIABLES
  req,       \* req[k]: the value of request key k ([n: request, v]), or Absent
  toWrite,   \* keys of the operator's current request not yet written
  nReqs,     \* requests the operator has begun
  info,      \* the copies made under the info prefixes: [pfx, key, val]
  accepted,  \* the requests getNewPartitionRequest returned true for
  errors

vars == <<req, toWrite, nReqs, info, accepted, errors>>

\* boost::trim_copy
RECURSIVE TrimLeft(_)
TrimLeft(s) == IF s # <<>> /\ Head(s) = " " THEN TrimLeft(Tail(s)) ELSE s
Trim(s) == Reverse(TrimLeft(Reverse(TrimLeft(s))))

\* boost::split with token_compress_on: adjacent separators delimit no
\* token, but a leading or trailing one still delimits an empty token, and
\* an empty string gives one empty token
RECURSIVE SplitFrom(_, _, _)
SplitFrom(s, cur, afterSep) ==
  CASE s = <<>>                    -> <<cur>>
    [] Head(s) = Sep /\ afterSep   -> SplitFrom(Tail(s), cur, TRUE)
    [] Head(s) = Sep               -> <<cur>> \o SplitFrom(Tail(s), <<>>, TRUE)
    [] OTHER                       -> SplitFrom(Tail(s), Append(cur, Head(s)), FALSE)
Split(s) == SplitFrom(s, <<>>, FALSE)

\* the items kv.items returns, in key order
Items == SelectSeq(KeyOrder, LAMBDA k : req[k] # Absent)

\* the validation of a request of exactly two items
StfSenderIds == Split(req[ListKey].v)
ReqValid ==
  /\ Len(Items) = 2
  /\ req[IdKey] # Absent /\ req[ListKey] # Absent
  /\ Trim(req[IdKey].v) # <<>>
  /\ ToSet(StfSenderIds) # {}
  /\ Len(StfSenderIds) = Cardinality(ToSet(StfSenderIds))

\* the Consul calls of the move, in order
MoveCalls(items) ==
  <<[op |-> "set", key |-> TimeKey]>> \o
  FlattenSeq([i \in 1 .. Len(items) |->
               <<[op |-> "set", key |-> items[i]], [op |-> "erase", key |-> items[i]]>>])

Init ==
  /\ req = [k \in ReqKeys |-> Absent]
  /\ toWrite = {} /\ nReqs = 0
  /\ info = {} /\ accepted = <<>>
  /\ errors = 0

\* The operator begins a request once the request prefix is empty.
OpBegin(shape) ==
  /\ toWrite = {} /\ Items = <<>>
  /\ nReqs < MaxReqs
  /\ toWrite' = shape /\ nReqs' = nReqs + 1
  /\ UNCHANGED <<req, info, accepted, errors>>

\* The operator writes one key of its request.
OpWrite(k, v) ==
  /\ k \in toWrite
  /\ req' = [req EXCEPT ![k] = [n |-> nReqs, v |-> v]]
  /\ toWrite' = toWrite \ {k}
  /\ UNCHANGED <<nReqs, info, accepted, errors>>

\* getNewPartitionRequest with two or more items: validate, then move the
\* items; the Consul calls before the failing one (f) take effect.
GetNewPartitionRequest ==
  LET items == Items
      calls == MoveCalls(items)
      pfx   == IF ReqValid THEN [valid |-> TRUE, pid |-> Trim(req[IdKey].v)]
                          ELSE [valid |-> FALSE, pid |-> <<>>]  \* invalid_requests/<time>
  IN
  /\ Len(items) >= 2
  /\ \E f \in 1 .. Len(calls) + 1 :
       /\ f <= Len(calls) => errors < MaxErrors
       /\ errors' = IF f <= Len(calls) THEN errors + 1 ELSE errors
       /\ LET done == SubSeq(calls, 1, f - 1)
              erased == {done[i].key : i \in {i \in DOMAIN done : done[i].op = "erase"}}
              copied == {done[i].key : i \in {i \in DOMAIN done : done[i].op = "set"}}
          IN /\ req' = [k \in ReqKeys |-> IF k \in erased THEN Absent ELSE req[k]]
             /\ info' = info \cup
                  {[pfx |-> pfx, key |-> k,
                    val |-> IF k = TimeKey THEN Absent ELSE req[k]] : k \in copied}
  /\ accepted' = IF ReqValid
                   THEN Append(accepted, [pidReq |-> req[IdKey].n,
                                          listReq |-> req[ListKey].n,
                                          pid |-> Trim(req[IdKey].v),
                                          ids |-> ToSet(StfSenderIds)])
                   ELSE accepted
  /\ UNCHANGED <<toWrite, nReqs>>

Next ==
  \/ \E s \in Shapes : OpBegin(s)
  \/ \E k \in ReqKeys : \E v \in ValsOf(k) : OpWrite(k, v)
  \/ GetNewPartitionRequest

Spec == Init /\ [][Next]_vars

-----------------------------------------------------------------------------
TypeOK ==
  /\ req \in [ReqKeys -> {Absent} \cup [n : 1 .. MaxReqs, v : BoundedSeq({"a", "p", " ", Sep}, MaxLen)]]
  /\ toWrite \subseteq ReqKeys /\ nReqs \in 0 .. MaxReqs
  /\ errors \in 0 .. MaxErrors

\* What the scheduler is handed: getNewPartitionRequest returns each
\* request the operator wrote at most once (the request is moved away, as
\* "move the partition request if exists" says), with the partition id and
\* the StfSender list of that same request, and with no empty StfSender id
\* ("split, trim, remove empty").
AcceptedRequestsSound ==
  /\ \A i, j \in DOMAIN accepted : i < j => accepted[i].pidReq # accepted[j].pidReq
  /\ \A i \in DOMAIN accepted :
       /\ accepted[i].pidReq = accepted[i].listReq
       /\ <<>> \notin accepted[i].ids

=============================================================================
