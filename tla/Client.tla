------------------------------- MODULE Client -------------------------------
(***************************************************************************)
(* The client library (client/ecRedis.go, client.go, ec.go): EcSet writes  *)
(* an object as one chunk per shard, each by a goroutine with a connection *)
(* of its own, EcGet reads the chunks, decodes the object and writes back  *)
(* the chunks that failed.  With it, what the proxy does for a GET: all    *)
(* lambdas are asked and the first DataShards chunks are passed on, the    *)
(* others are answered without a body (ReqMap, connection.getHandler).     *)
(*                                                                         *)
(* One object; where its chunks are is Placer's subject, how a request     *)
(* reaches a lambda is Instance's.  Here a lambda is a place that has a    *)
(* chunk or has lost it.                                                   *)
(***************************************************************************)
EXTENDS Naturals, FiniteSets, Sequences

CONSTANTS
    Clients, Shards, DataShards,
    Values,      \* the versions of the object, a new one for each EcSet
    None,
    Mixed,       \* what is decoded from chunks of several values
    MaxOps, MaxFailures   \* bounds

ASSUME ClientAssumption ==
    /\ IsFiniteSet(Shards)
    /\ DataShards \in 1..Cardinality(Shards)
    /\ MaxOps \in Nat
    /\ IsFiniteSet(Values) /\ Cardinality(Values) >= MaxOps
    /\ None \notin Clients \cup Values \cup {Mixed}
    /\ Mixed \notin Values
    /\ None \notin Nat

VARIABLES
    \* client
    op,        \* EcSet, EcGet, its recover, or None
    stage,     \* of the goroutine of each shard
    ret,       \* ecRet.Rets
    conns,     \* Conns: open, None (nil), or dead: failed but not nil
    stream,    \* the responses on each connection
    result,    \* the last event, if an operation returned
    \* proxy and lambdas
    calls,     \* requests of a shard that have not been answered
    reqMap,    \* global.ReqMap: counters of GETs
    chunk,     \* the chunk of each shard, None when it is lost
    \* history
    settled,   \* the value of an EcSet that has had the object to itself
    alone,     \* the client whose EcSet has had the object to itself so far
    written,   \* the values of all EcSets
    lastReq, ops, failures

clientVars == <<op, stage, ret, result>>
connVars == <<conns, stream>>
proxyVars == <<calls, reqMap, chunk>>
historyVars == <<settled, alone>>
counters == <<written, lastReq, ops, failures>>
vars == <<clientVars, connVars, proxyVars, historyVars, counters>>

Parity == Cardinality(Shards) - DataShards
ReqIds == 1..(2 * MaxOps)
Chunks == Values \cup {Mixed}

\* What is written: chunks of a value; nothing by a GET; "nil", what decode may return.
Written == Chunks \cup {None, "nil"}
Operation == [kind : {"set", "get", "recover"}, req : Nat, write : Written]
Call == [client : Clients, req : Nat, write : Written, at : {"proxy", "lambda"}, live : BOOLEAN]

ASSUME OutcomeAssumption ==
    /\ (Chunks \cup {None}) \cap {"error", "stored", "late", "nil", "ok"} = {}
    /\ None \notin Operation

Init ==
    /\ op = [c \in Clients |-> None]
    /\ stage = [c \in Clients |-> [i \in Shards |-> "done"]]
    /\ ret = [c \in Clients |-> [i \in Shards |-> None]]
    /\ conns = [c \in Clients |-> [i \in Shards |-> "open"]]
    /\ stream = [c \in Clients |-> [i \in Shards |-> <<>>]]
    /\ result = None
    /\ calls = [i \in Shards |-> {}]
    /\ reqMap = [r \in ReqIds |-> None]
    /\ chunk = [i \in Shards |-> None]
    /\ settled = None /\ alone = None
    /\ written = {} /\ lastReq = 0 /\ ops = 0 /\ failures = 0

(***************************************************************************)
(* Operations.                                                             *)
(***************************************************************************)

\* An operation with a new request id: a goroutine for each of the given shards.
Begin(c, kind, write, shards) ==
    /\ lastReq' = lastReq + 1
    /\ op' = [op EXCEPT ![c] = [kind |-> kind, req |-> lastReq', write |-> write]]
    /\ stage' = [stage EXCEPT ![c] = [i \in Shards |-> IF i \in shards THEN "start" ELSE "done"]]
    /\ ret' = [ret EXCEPT ![c] = [i \in Shards |-> None]]

Writing(i) == {m.write : m \in calls[i]} \ {None}

Quiet(c) == /\ \A b \in Clients \ {c} : op[b] = None
            /\ \A i \in Shards : Writing(i) = {}

\* encode: what is split into chunks, the parity chunks with them, is a new value.
NewValue == CHOOSE v \in Values : v \notin written

EcSet(c) ==
    /\ op[c] = None /\ ops < MaxOps
    /\ ops' = ops + 1
    /\ Begin(c, "set", NewValue, Shards)
    /\ written' = written \cup {NewValue}
    /\ result' = None
    /\ settled' = None
    /\ alone' = IF Quiet(c) THEN c ELSE None
    /\ UNCHANGED <<connVars, proxyVars, failures>>

EcGet(c) ==
    /\ op[c] = None /\ ops < MaxOps
    /\ ops' = ops + 1
    /\ Begin(c, "get", None, Shards)
    /\ result' = None
    /\ alone' = None
    /\ UNCHANGED <<settled, written, connVars, proxyVars, failures>>

Waited(c) == \A i \in Shards : stage[c][i] = "done"

\* Faulty variant: errors of the goroutines are not looked at.
NoneFailed(c) == {}

\* The shards whose goroutine set an error.
Failed(c) == {i \in Shards : ret[c][i] = "error"}

\* Those that brought a chunk.
Got(c) == {i \in Shards : ret[c][i] \in Chunks}

\* The operation returns.
Discard(c) ==
    /\ op' = [op EXCEPT ![c] = None]
    /\ ret' = [ret EXCEPT ![c] = [i \in Shards |-> None]]

\* EcSet and recover return.
EndSet(c) ==
    /\ op[c] # None /\ op[c].kind \in {"set", "recover"} /\ Waited(c)
    /\ Discard(c)
    /\ IF op[c].kind = "set"
       THEN /\ result' = IF Failed(c) = {} THEN "ok" ELSE "error"
            /\ settled' = IF alone = c /\ Failed(c) = {} THEN op[c].write ELSE settled
            /\ alone' = IF alone = c THEN None ELSE alone
       ELSE UNCHANGED <<result, historyVars>>
    /\ UNCHANGED <<stage, connVars, proxyVars, written, lastReq, ops, failures>>

\* The values whose chunks were read, and what the chunks decode to: DataShards chunks of
\* one value, that value.
Read(c) == {ret[c][i] : i \in Got(c)}

Object(c) == IF Cardinality(Read(c)) = 1 /\ Cardinality(Got(c)) >= DataShards
             THEN CHOOSE v \in Read(c) : TRUE ELSE Mixed

\* Faulty variant: too few chunks are no error.
EnoughForAll(c) == Got(c) # {}

\* Reconstruct has no error.
Reconstructs(c) == Cardinality(Got(c)) >= DataShards

\* Verify: whatever DataShards chunks are, they are a codeword with what is reconstructed
\* from them.
Verifies(c) == Cardinality(Got(c)) = DataShards \/ Cardinality(Read(c)) = 1

\* decode.  Where chunks disagree the error that is returned is nil, and so is the reader.
Decode(c) ==
    IF ~Reconstructs(c) THEN "error"
    ELSE IF Verifies(c) THEN Object(c) ELSE "nil"

\* recover: the chunks that failed are written.
Recover(c) == Begin(c, "recover", Decode(c), Failed(c))

\* EcGet decodes, and recovers the chunks that failed before it returns.
EndGet(c) ==
    /\ op[c] # None /\ op[c].kind = "get" /\ Waited(c)
    /\ result' = Decode(c)
    /\ IF Decode(c) = "error" \/ Failed(c) = {}
       THEN Discard(c) /\ UNCHANGED <<stage, lastReq>>
       ELSE Recover(c)
    /\ UNCHANGED <<connVars, proxyVars, historyVars, written, ops, failures>>

(***************************************************************************)
(* A goroutine of a client: set, get and rec.                              *)
(***************************************************************************)
Working(c, i, s) == op[c] # None /\ stage[c][i] = s

Return(c, i, r) ==
    /\ ret' = [ret EXCEPT ![c][i] = r]
    /\ stage' = [stage EXCEPT ![c][i] = "done"]

\* validate: a connection that is nil is made again.
Validate(c, i) ==
    /\ conns[c][i] # "dead"
    /\ conns' = [conns EXCEPT ![c][i] = "open"]

\* The request is written.  HandleSet passes a SET on as it reads it.
Send(c, i) ==
    LET Arrival == IF op[c].write = None THEN "proxy" ELSE "lambda" IN
    /\ Working(c, i, "start")
    /\ Validate(c, i)
    /\ calls' = [calls EXCEPT ![i] = @ \cup {[client |-> c, req |-> op[c].req, write |-> op[c].write,
                                              at |-> Arrival, live |-> TRUE]}]
    /\ stage' = [stage EXCEPT ![c][i] = "sent"]
    /\ UNCHANGED <<op, ret, result, stream, reqMap, chunk, historyVars, counters>>

\* validate cannot connect; or the connection failed, but neither at EOF nor by a timeout:
\* it is not nil, no request can be written to it, and it is never replaced.
SendFails(c, i) ==
    /\ Working(c, i, "start") /\ conns[c][i] # "open"
    /\ Return(c, i, "error")
    /\ UNCHANGED <<op, result, connVars, proxyVars, historyVars, counters>>

\* rec.  An error has no request id.
Receive(c, i) ==
    /\ Working(c, i, "sent") /\ stream[c][i] # <<>>
    /\ stream' = [stream EXCEPT ![c][i] = Tail(@)]
    /\ LET h == Head(stream[c][i]) IN
       Return(c, i, IF h.body = "error" \/ h.req # op[c].req THEN "error"  \* or ErrUnexpectedResponse
                    ELSE IF h.body = "late" THEN None ELSE h.body)
    /\ UNCHANGED <<op, result, conns, proxyVars, historyVars, counters>>

\* What is on the way to and from a connection that is closed has nowhere to go, and may
\* be lost: a SET whose body is not complete is.
Cut(c, i) ==
    /\ stream' = [stream EXCEPT ![c][i] = <<>>]
    /\ \E lost \in SUBSET {m \in calls[i] : m.client = c} :
         calls' = [calls EXCEPT ![i] = {IF m.client = c THEN [m EXCEPT !.live = FALSE] ELSE m
                                         : m \in @ \ lost}]

\* Faulty variant: the connection is kept.
NoDisconnect(c, i) == UNCHANGED <<connVars, calls>>

\* disconnect.
Disconnect(c, i) ==
    /\ conns' = [conns EXCEPT ![c][i] = None]
    /\ Cut(c, i)

\* No answer is to come.
Overdue(c, i) == stream[c][i] = <<>> /\ \A m \in calls[i] : ~(m.client = c /\ m.live)

Fault == failures < MaxFailures /\ failures' = failures + 1

\* The read deadline passes: because nothing comes, or before it comes.
Timeout(c, i) ==
    /\ Working(c, i, "sent") /\ stream[c][i] = <<>>
    /\ IF Overdue(c, i) THEN UNCHANGED failures ELSE Fault
    /\ Disconnect(c, i)
    /\ Return(c, i, "error")
    /\ UNCHANGED <<op, result, reqMap, chunk, historyVars, written, lastReq, ops>>

\* The proxy closes the connection: EOF.  (A write that times out ends the same way.)
Eof(c, i) ==
    /\ Working(c, i, "sent")
    /\ Fault
    /\ Disconnect(c, i)
    /\ Return(c, i, "error")
    /\ UNCHANGED <<op, result, reqMap, chunk, historyVars, written, lastReq, ops>>

\* The connection is reset.
Reset(c, i) ==
    /\ Working(c, i, "sent")
    /\ Fault
    /\ conns' = [conns EXCEPT ![c][i] = "dead"]
    /\ Cut(c, i)
    /\ Return(c, i, "error")
    /\ UNCHANGED <<op, result, reqMap, chunk, historyVars, written, lastReq, ops>>

(***************************************************************************)
(* The proxy and a lambda.                                                 *)
(***************************************************************************)

\* HandleGet.
Handle(i, m) ==
    /\ m.at = "proxy"
    /\ calls' = [calls EXCEPT ![i] = (@ \ {m}) \cup {[m EXCEPT !.at = "lambda"]}]
    /\ reqMap' = [reqMap EXCEPT ![m.req] = IF @ = None THEN 0 ELSE @]
    /\ UNCHANGED <<clientVars, connVars, chunk, historyVars, counters>>

\* Faulty variant: a request can be answered twice.
AnswerTwice(i, m, body) ==
    /\ calls' = [calls EXCEPT ![i] = @ \ {m}]
    /\ stream' = IF m.live THEN [stream EXCEPT ![m.client][i] = @ \o <<[req |-> m.req, body |-> body],
                                                                        [req |-> m.req, body |-> "error"]>>]
                 ELSE stream

\* The request is answered, on the connection it came from.
Answer(i, m, body) ==
    /\ calls' = [calls EXCEPT ![i] = @ \ {m}]
    /\ stream' = IF m.live THEN [stream EXCEPT ![m.client][i] = Append(@, [req |-> m.req, body |-> body])]
                 ELSE stream

\* The lambda stores a chunk.
StoreChunk(i, m) ==
    /\ m.at = "lambda" /\ m.write # None
    /\ chunk' = [chunk EXCEPT ![i] = m.write]
    /\ Answer(i, m, "stored")
    /\ UNCHANGED <<clientVars, conns, reqMap, historyVars, counters>>

\* Faulty variant: the counter is not needed once the chunks are enough.
CountToEnough(r) ==
    reqMap' = [reqMap EXCEPT ![r] = IF @ + 1 = DataShards THEN None ELSE @ + 1]

\* The counter is deleted with the last chunk, unless that is the last one wanted.
Count(r) ==
    reqMap' = [reqMap EXCEPT ![r] = IF @ + 1 > DataShards /\ @ + 1 = DataShards + Parity THEN None
                                    ELSE @ + 1]

\* Faulty variant: one chunk too many.
EnoughAndOne(r) == reqMap[r] > DataShards

\* "Check if chunks are enough? Shortcut response if YES."
Enough(r) == reqMap[r] >= DataShards

\* The lambda returns a chunk: connection.getHandler.
FetchChunk(i, m) ==
    /\ m.at = "lambda" /\ m.write = None /\ chunk[i] # None
    /\ IF reqMap[m.req] = None
       THEN calls' = [calls EXCEPT ![i] = @ \ {m}] /\ UNCHANGED <<reqMap, stream>>  \* "Request not found"
       ELSE Count(m.req) /\ Answer(i, m, IF Enough(m.req) THEN "late" ELSE chunk[i])
    /\ UNCHANGED <<clientVars, conns, chunk, historyVars, counters>>

\* The proxy or the lambda does not find the chunk.
NotFound(i, m) ==
    /\ m.at = "lambda" /\ m.write = None /\ chunk[i] = None
    /\ Answer(i, m, "error")
    /\ UNCHANGED <<clientVars, conns, reqMap, chunk, historyVars, counters>>

\* The request fails between the proxy and the lambda, before or after it is executed.
CallFails(i, m) ==
    /\ m.at = "lambda"
    /\ Fault
    /\ chunk' \in {chunk, IF m.write = None THEN chunk ELSE [chunk EXCEPT ![i] = m.write]}
    /\ Answer(i, m, "error")
    /\ UNCHANGED <<clientVars, conns, reqMap, historyVars, written, lastReq, ops>>

\* A chunk that was counted does not get through: the copy to the client fails.
BodyFails(i, m) ==
    /\ m.at = "lambda" /\ m.write = None /\ chunk[i] # None
    /\ reqMap[m.req] # None /\ ~Enough(m.req)
    /\ Fault
    /\ Count(m.req)
    /\ calls' = [calls EXCEPT ![i] = @ \ {m}]
    /\ UNCHANGED <<clientVars, connVars, chunk, historyVars, written, lastReq, ops>>

\* The provider reclaims the lambda.
Reclaim(i) ==
    /\ chunk[i] # None
    /\ Fault
    /\ chunk' = [chunk EXCEPT ![i] = None]
    /\ UNCHANGED <<clientVars, connVars, calls, reqMap, historyVars, written, lastReq, ops>>

Proxy(i) == \E m \in calls[i] : Handle(i, m) \/ StoreChunk(i, m) \/ FetchChunk(i, m) \/ NotFound(i, m)

Goroutine(c, i) == Send(c, i) \/ SendFails(c, i) \/ Receive(c, i)
                   \/ Timeout(c, i) \/ Eof(c, i) \/ Reset(c, i)

Next ==
    \/ \E c \in Clients :
        \/ EcSet(c) \/ EcGet(c) \/ EndSet(c) \/ EndGet(c)
        \/ \E i \in Shards : Goroutine(c, i)
    \/ \E i \in Shards :
        \/ Proxy(i) \/ Reclaim(i)
        \/ \E m \in calls[i] : CallFails(i, m) \/ BodyFails(i, m)

Spec == Init /\ [][Next]_vars

(***************************************************************************)
(* Properties.                                                             *)
(***************************************************************************)

\* Types; a connection has at most one response.
TypeOK ==
    /\ op \in [Clients -> {None} \cup Operation] /\ lastReq \in {0} \cup ReqIds
    /\ stage \in [Clients -> [Shards -> {"start", "sent", "done"}]]
    /\ ret \in [Clients -> [Shards -> Chunks \cup {None, "error", "stored"}]]
    /\ conns \in [Clients -> [Shards -> {"open", None, "dead"}]]
    /\ \A c \in Clients, i \in Shards :
        /\ stream[c][i] \in Seq([req : 1..lastReq, body : Chunks \cup {"error", "stored", "late"}])
        /\ Len(stream[c][i]) <= 1
    /\ result \in Chunks \cup {None, "ok", "error", "nil"}
    /\ calls \in [Shards -> SUBSET Call]
    /\ \A i \in Shards : \A m \in calls[i] : m.req \in 1..lastReq /\ m.write # "nil"
    /\ reqMap \in [ReqIds -> {None} \cup 0..Cardinality(Shards)]
    /\ chunk \in [Shards -> Chunks \cup {None}]
    /\ written \subseteq Values
    /\ settled \in Values \cup {None} /\ alone \in Clients \cup {None}

\* A response that a client reads is the answer to its current request: timeouts never leave
\* an old response on a connection that is used again.
OwnResponse ==
    \A c \in Clients, i \in Shards : stream[c][i] # <<>> =>
        Working(c, i, "sent") /\ Head(stream[c][i]).req = op[c].req

\* A chunk that a lambda returns finds the counter of its request in ReqMap.
CounterFound ==
    \A i \in Shards : \A m \in calls[i] : m.at = "lambda" /\ m.write = None => reqMap[m.req] # None

\* No more than DataShards chunks reach the client, whatever the order in which lambdas
\* answer: decode has nothing to compare, and its verification cannot fail.
AtMostEnough ==
    \A c \in Clients : op[c] # None /\ op[c].kind = "get" => Cardinality(Got(c)) <= DataShards

\* Once an EcSet that had the object to itself has succeeded, all chunks are its chunks or
\* lost, and what is still to be written are its chunks, until the next EcSet: recovery
\* writes no other.
SettledStore ==
    settled # None => \A i \in Shards : {chunk[i]} \cup Writing(i) \subseteq {settled, None}

\* And an EcGet returns its value or fails.
SettledReads == settled # None /\ result \notin {None, "ok", "error"} => result = settled

\* An EcGet that returns an object returns what some EcSet wrote: chunks of several values
\* do not pass the verification.
NeverMixed == result # Mixed
=============================================================================
