---------------------------- MODULE ClientProofs ----------------------------
(***************************************************************************)
(* Invariance proofs for Client, for any number of clients and shards, any *)
(* number of needed shards, of operations and of failures.                 *)
(***************************************************************************)
EXTENDS Client, FiniteSetTheorems, SequenceTheorems, TLAPS

Body == Chunks \cup {"nil", "error", "stored", "late"}
Response == [req : Nat, body : Body]

\* The types the proofs need; the bounds of counters are not among them.
Types ==
    /\ op \in [Clients -> {None} \cup Operation]
    /\ stage \in [Clients -> [Shards -> {"start", "sent", "done"}]]
    /\ ret \in [Clients -> [Shards -> Written \cup {"error", "stored"}]]
    /\ stream \in [Clients -> [Shards -> Seq(Response)]]
    /\ calls \in [Shards -> SUBSET Call]
    /\ chunk \in [Shards -> Written]
    /\ settled \in Values \cup {None} /\ alone \in Clients \cup {None}
    /\ lastReq \in Nat /\ ops \in Nat

\* There is a new value for each EcSet.
ValuesInv ==
    /\ written \subseteq Values /\ IsFiniteSet(written)
    /\ Cardinality(written) <= ops

\* The request of a goroutine: either it is under way, and is the only one the proxy will
\* answer to this goroutine, or its response is.
Tracked(c, i) ==
    /\ \A m \in calls[i] : m.client = c /\ m.live =>
        /\ stage[c][i] = "sent" /\ stream[c][i] = <<>>
        /\ m.req = op[c].req /\ m.write = op[c].write
        /\ \A n \in calls[i] : n.client = c /\ n.live => n = m
    /\ stream[c][i] # <<>> =>
        /\ stage[c][i] = "sent" /\ Len(stream[c][i]) = 1
        /\ Head(stream[c][i]).req = op[c].req
        /\ op[c].write # None => Head(stream[c][i]).body \in {"stored", "error"}

\* An idle client has no goroutine and no result left.
AtRest(c) ==
    /\ op[c] = None => \A i \in Shards : stage[c][i] = "done" /\ ret[c][i] = None
    /\ op[c] # None /\ op[c].kind = "set" => op[c].write \in Values

RequestInv == \A c \in Clients : AtRest(c) /\ \A i \in Shards : Tracked(c, i)

\* While an EcSet has the object to itself its chunks are the only ones that are written,
\* and a shard that was answered holds its chunk, unless it was lost since.
Alone(c) ==
    /\ settled = None
    /\ op[c] # None /\ op[c].kind = "set"
    /\ \A b \in Clients : b # c => op[b] = None
    /\ \A i \in Shards :
        /\ \A m \in calls[i] : m.write \in {op[c].write, None}
        /\ ret[c][i] = "stored" => chunk[i] \in {op[c].write, None}
        /\ stream[c][i] # <<>> /\ Head(stream[c][i]).body = "stored" => chunk[i] \in {op[c].write, None}
        /\ stage[c][i] = "done" => ret[c][i] \in {"stored", "error"}

\* Then every chunk that is stored, on its way, read or decoded is of its value.
Settled(v) ==
    /\ alone = None
    /\ result \in {None, "ok", "error", v}
    /\ \A c \in Clients :
        /\ op[c] # None => op[c].kind # "set" /\ op[c].write \in {v, None}
        /\ \A i \in Shards :
            /\ ret[c][i] \in {v, None, "error", "stored"}
            /\ stream[c][i] # <<>> => Head(stream[c][i]).body \in {v, "error", "stored", "late"}
    /\ \A i \in Shards :
        /\ chunk[i] \in {v, None}
        /\ \A m \in calls[i] : m.write \in {v, None}

SettledInv ==
    /\ \A c \in Clients : alone = c => Alone(c)
    /\ \A v \in Values : settled = v => Settled(v)

IInv == Types /\ ValuesInv /\ RequestInv /\ SettledInv

-----------------------------------------------------------------------------
\* The outcomes of requests are no chunks, and something is needed to decode an object.
LEMMA ConstantFacts ==
    /\ {"error", "stored", "late", "nil", "ok", None} \cap Chunks = {}
    /\ None \notin {"error", "stored", "late", "nil", "ok"}
    /\ None \notin Operation /\ None \notin Clients
    /\ Values \subseteq Chunks
    /\ DataShards \in Nat \ {0}
  <1>1. Cardinality(Shards) \in Nat
    BY ClientAssumption, FS_CardinalityType
  <1> QED
    BY <1>1, ClientAssumption, OutcomeAssumption DEF Chunks

\* What decode returns.
LEMMA DecodeType ==
    ASSUME Types, NEW c \in Clients
    PROVE  Decode(c) \in Chunks \cup {"error", "nil"}
  <1>1. Read(c) \subseteq Chunks
    BY DEF Read, Got
  <1>2. ASSUME Cardinality(Read(c)) = 1 PROVE Read(c) # {}
    BY <1>2, FS_EmptySet
  <1>3. Object(c) \in Chunks
    BY <1>1, <1>2 DEF Object, Chunks
  <1> QED
    BY <1>3 DEF Decode

\* If the chunks that were read are of one value, an EcGet returns it or fails.
LEMMA DecodeSettled ==
    ASSUME Types, NEW v \in Values, Settled(v), NEW c \in Clients
    PROVE  Decode(c) \in {"error", v}
  <1>1. CASE Reconstructs(c)
    <2>1. Got(c) # {}
      BY <1>1, ConstantFacts, FS_EmptySet DEF Reconstructs
    <2>2. \A i \in Got(c) : ret[c][i] = v
      BY ConstantFacts DEF Got, Settled
    <2>3. Read(c) = {v}
      BY <2>1, <2>2 DEF Read
    <2>4. Cardinality(Read(c)) = 1
      BY <2>3, FS_Singleton
    <2>5. Object(c) = v
      BY <1>1, <2>3, <2>4 DEF Object, Reconstructs
    <2> QED
      BY <1>1, <2>4, <2>5 DEF Decode, Verifies
  <1>2. CASE ~Reconstructs(c)
    BY <1>2 DEF Decode
  <1> QED
    BY <1>1, <1>2

\* A connection with one response.
LEMMA OneResponse ==
    ASSUME NEW R, NEW s \in Seq(R), Len(s) = 1
    PROVE  Head(s) \in R /\ Tail(s) = <<>>
  <1>1. Head(s) \in R
    OBVIOUS
  <1>2. Tail(s) \in Seq(R) /\ Len(Tail(s)) = 0
    OBVIOUS
  <1> QED
    BY <1>1, <1>2, EmptySeq

\* A goroutine whose own state does not change and for which no request is added.
LEMMA SameTracked ==
    ASSUME NEW c, NEW i, Tracked(c, i),
           op'[c] = op[c], stage'[c][i] = stage[c][i], stream'[c][i] = stream[c][i],
           \A m \in calls'[i] : m.client = c /\ m.live => m \in calls[i]
    PROVE  Tracked(c, i)'
  BY DEF Tracked

\* A new request of a client whose goroutines have ended.
LEMMA BeginTracked ==
    ASSUME Types, RequestInv, NEW c \in Clients, Waited(c),
           NEW kind \in {"set", "get", "recover"}, NEW write \in Written, NEW shards \in SUBSET Shards,
           kind = "set" => write \in Values,
           Begin(c, kind, write, shards), UNCHANGED <<connVars, calls>>
    PROVE  /\ RequestInv'
           /\ op' \in [Clients -> {None} \cup Operation]
           /\ stage' \in [Clients -> [Shards -> {"start", "sent", "done"}]]
           /\ ret' \in [Clients -> [Shards -> Written \cup {"error", "stored"}]]
           /\ lastReq' \in Nat
           /\ op'[c] = [kind |-> kind, req |-> lastReq + 1, write |-> write] /\ op'[c] \in Operation
           /\ \A b \in Clients : b # c => op'[b] = op[b] /\ ret'[b] = ret[b] /\ stage'[b] = stage[b]
           /\ \A i \in Shards : ret'[c][i] = None /\ stage'[c][i] = IF i \in shards THEN "start" ELSE "done"
  <1>1. op'[c] = [kind |-> kind, req |-> lastReq + 1, write |-> write] /\ op'[c] \in Operation
    BY DEF Begin, Types, Operation
  <1>2. /\ op' \in [Clients -> {None} \cup Operation]
        /\ stage' \in [Clients -> [Shards -> {"start", "sent", "done"}]]
        /\ ret' \in [Clients -> [Shards -> Written \cup {"error", "stored"}]]
        /\ lastReq' \in Nat
    BY <1>1 DEF Begin, Types, Operation, Written
  <1>3. /\ \A b \in Clients : b # c => op'[b] = op[b] /\ ret'[b] = ret[b] /\ stage'[b] = stage[b]
        /\ \A i \in Shards : ret'[c][i] = None /\ stage'[c][i] = IF i \in shards THEN "start" ELSE "done"
    BY DEF Begin, Types
  <1>4. \A i \in Shards : stream[c][i] = <<>> /\ \A m \in calls[i] : ~(m.client = c /\ m.live)
    BY DEF RequestInv, Tracked, Waited
  <1>5. stream' = stream /\ calls' = calls
    BY DEF connVars
  <1>6. ASSUME NEW b \in Clients PROVE AtRest(b)' /\ \A i \in Shards : Tracked(b, i)'
    <2>1. CASE b = c
      BY <1>1, <1>3, <1>4, <1>5, <2>1, ConstantFacts DEF AtRest, Tracked
    <2>2. CASE b # c
      BY <1>3, <1>5, <2>2 DEF RequestInv, AtRest, Tracked
    <2> QED
      BY <2>1, <2>2
  <1> QED
    BY <1>1, <1>2, <1>3, <1>6 DEF RequestInv

\* An operation returns.
LEMMA DiscardTracked ==
    ASSUME Types, RequestInv, NEW c \in Clients, Waited(c),
           Discard(c), UNCHANGED <<stage, connVars, calls>>
    PROVE  /\ RequestInv'
           /\ op' \in [Clients -> {None} \cup Operation]
           /\ ret' \in [Clients -> [Shards -> Written \cup {"error", "stored"}]]
           /\ op'[c] = None /\ \A i \in Shards : ret'[c][i] = None
           /\ \A b \in Clients : b # c => op'[b] = op[b] /\ ret'[b] = ret[b]
  <1>1. /\ op' \in [Clients -> {None} \cup Operation]
        /\ ret' \in [Clients -> [Shards -> Written \cup {"error", "stored"}]]
        /\ op'[c] = None /\ \A i \in Shards : ret'[c][i] = None
        /\ \A b \in Clients : b # c => op'[b] = op[b] /\ ret'[b] = ret[b]
    BY DEF Discard, Types, Written
  <1>2. \A i \in Shards : stream[c][i] = <<>> /\ \A m \in calls[i] : ~(m.client = c /\ m.live)
    BY DEF RequestInv, Tracked, Waited
  <1>3. ASSUME NEW b \in Clients PROVE AtRest(b)' /\ \A i \in Shards : Tracked(b, i)'
    <2>1. CASE b = c
      BY <1>1, <1>2, <2>1 DEF AtRest, Tracked, Waited, connVars
    <2>2. CASE b # c
      BY <1>1, <2>2 DEF RequestInv, AtRest, Tracked, connVars
    <2> QED
      BY <2>1, <2>2
  <1> QED
    BY <1>1, <1>3 DEF RequestInv

\* A goroutine returns because its request failed: the connection is cut off.
LEMMA CutTracked ==
    ASSUME Types, RequestInv, NEW c \in Clients, NEW i \in Shards, Working(c, i, "sent"),
           Cut(c, i), Return(c, i, "error"), UNCHANGED op
    PROVE  /\ RequestInv'
           /\ stream' \in [Clients -> [Shards -> Seq(Response)]]
           /\ calls' \in [Shards -> SUBSET Call]
           /\ \A j \in Shards : \A m \in calls'[j] : \E n \in calls[j] : m.write = n.write
           /\ \A b \in Clients, j \in Shards : stream'[b][j] = stream[b][j] \/ stream'[b][j] = <<>>
  <1>1. PICK lost \in SUBSET {m \in calls[i] : m.client = c} :
          calls' = [calls EXCEPT ![i] = {IF m.client = c THEN [m EXCEPT !.live = FALSE] ELSE m
                                          : m \in @ \ lost}]
    BY DEF Cut
  <1> DEFINE New == {IF m.client = c THEN [m EXCEPT !.live = FALSE] ELSE m : m \in calls[i] \ lost}
  <1>2. calls'[i] = New /\ \A j \in Shards : j # i => calls'[j] = calls[j]
    BY <1>1 DEF Types
  <1>3. ASSUME NEW m \in New
        PROVE  /\ m \in Call
               /\ m.client = c => ~m.live
               /\ m.client # c => m \in calls[i]
               /\ \E n \in calls[i] : m.write = n.write
    <2>1. PICK n \in calls[i] \ lost : m = IF n.client = c THEN [n EXCEPT !.live = FALSE] ELSE n
      BY <1>3
    <2>2. n \in Call
      BY DEF Types
    <2> QED
      BY <2>1, <2>2 DEF Call
  <1>4. calls' \in [Shards -> SUBSET Call]
    <2>1. New \in SUBSET Call
      BY <1>3
    <2> QED
      BY <1>1, <2>1 DEF Types
  <1>5. /\ stream' \in [Clients -> [Shards -> Seq(Response)]]
        /\ stream'[c][i] = <<>>
        /\ \A b \in Clients, j \in Shards : b # c \/ j # i => stream'[b][j] = stream[b][j]
    BY DEF Cut, Types
  <1>6. /\ stage'[c][i] = "done" /\ ret'[c][i] = "error"
        /\ \A b \in Clients, j \in Shards : b # c \/ j # i => stage'[b][j] = stage[b][j] /\ ret'[b][j] = ret[b][j]
    BY DEF Return, Types
  <1>7. ASSUME NEW b \in Clients PROVE AtRest(b)' /\ \A j \in Shards : Tracked(b, j)'
    <2>1. AtRest(b)'
      BY <1>6 DEF RequestInv, AtRest, Working
    <2>2. ASSUME NEW j \in Shards PROVE Tracked(b, j)'
      <3>1. CASE b = c /\ j = i
        BY <1>2, <1>3, <1>5, <3>1 DEF Tracked
      <3>2. CASE b # c /\ j = i
        <4>1. \A m \in calls'[i] : m.client = b => m \in calls[i]
          BY <1>2, <1>3, <3>2
        <4>2. Tracked(b, j) /\ stream'[b][j] = stream[b][j] /\ stage'[b][j] = stage[b][j]
          BY <1>5, <1>6, <3>2 DEF RequestInv
        <4> QED
          BY <4>1, <4>2, <3>2, SameTracked
      <3>3. CASE j # i
        <4>1. Tracked(b, j) /\ stream'[b][j] = stream[b][j] /\ stage'[b][j] = stage[b][j]
          BY <1>5, <1>6, <3>3 DEF RequestInv
        <4>2. calls'[j] = calls[j]
          BY <1>2, <3>3
        <4> QED
          BY <4>1, <4>2, SameTracked
      <3> QED
        BY <3>1, <3>2, <3>3
    <2> QED
      BY <2>1, <2>2
  <1>8. \A j \in Shards : \A m \in calls'[j] : \E n \in calls[j] : m.write = n.write
    BY <1>2, <1>3
  <1> QED
    BY <1>4, <1>5, <1>7, <1>8 DEF RequestInv

\* A request is answered.
LEMMA AnswerTracked ==
    ASSUME Types, RequestInv, NEW i \in Shards, NEW m \in calls[i], NEW body \in Body,
           Answer(i, m, body), UNCHANGED <<op, stage, ret>>,
           m.write # None => body \in {"stored", "error"}
    PROVE  /\ RequestInv'
           /\ stream' \in [Clients -> [Shards -> Seq(Response)]]
           /\ calls' \in [Shards -> SUBSET Call]
           /\ \A j \in Shards : calls'[j] \subseteq calls[j]
           /\ \A c \in Clients, j \in Shards :
                \/ stream'[c][j] = stream[c][j]
                \/ /\ j = i /\ c = m.client /\ m.live /\ stream[c][j] = <<>>
                   /\ Head(stream'[c][j]) = [req |-> m.req, body |-> body]
  <1> DEFINE r == [req |-> m.req, body |-> body]
  <1>1. m \in Call /\ m.client \in Clients /\ r \in Response
    BY DEF Types, Call, Response
  <1>2. /\ calls' \in [Shards -> SUBSET Call]
        /\ calls'[i] = calls[i] \ {m}
        /\ \A j \in Shards : j # i => calls'[j] = calls[j]
    BY DEF Answer, Types
  <1>3. CASE ~m.live
    <2>1. stream' = stream
      BY <1>3 DEF Answer
    <2>2. ASSUME NEW b \in Clients PROVE AtRest(b)' /\ \A j \in Shards : Tracked(b, j)'
      BY <1>2, <2>1 DEF RequestInv, AtRest, Tracked
    <2> QED
      BY <1>2, <2>1, <2>2 DEF RequestInv, Types
  <1>4. CASE m.live
    <2> DEFINE c == m.client
    <2>1. /\ stage[c][i] = "sent" /\ stream[c][i] = <<>>
          /\ m.req = op[c].req /\ m.write = op[c].write
          /\ \A n \in calls[i] : n.client = c /\ n.live => n = m
      BY <1>1, <1>4 DEF RequestInv, Tracked
    <2>2. Append(stream[c][i], r) \in Seq(Response) /\ Append(stream[c][i], r) = <<r>>
      BY <1>1, <2>1
    <2>3. stream' = [stream EXCEPT ![c][i] = Append(@, r)]
      BY <1>4 DEF Answer
    <2>4. /\ stream' \in [Clients -> [Shards -> Seq(Response)]]
          /\ stream'[c][i] = <<r>>
          /\ \A b \in Clients, j \in Shards : b # c \/ j # i => stream'[b][j] = stream[b][j]
      BY <1>1, <2>2, <2>3 DEF Types
    <2>5. /\ Head(stream'[c][i]) = r /\ Len(stream'[c][i]) = 1
      BY <2>4
    <2>6. ASSUME NEW b \in Clients PROVE AtRest(b)' /\ \A j \in Shards : Tracked(b, j)'
      <3>1. AtRest(b)'
        BY DEF RequestInv, AtRest
      <3>2. ASSUME NEW j \in Shards PROVE Tracked(b, j)'
        <4>1. CASE b = c /\ j = i
          BY <1>2, <2>1, <2>5, <4>1 DEF Tracked
        <4>2. CASE b # c \/ j # i
          <5>1. Tracked(b, j) /\ \A n \in calls'[j] : n \in calls[j]
            BY <1>2 DEF RequestInv
          <5>2. stream'[b][j] = stream[b][j]
            BY <2>4, <4>2
          <5> QED
            BY <5>1, <5>2, SameTracked
        <4> QED
          BY <4>1, <4>2
      <3> QED
        BY <3>1, <3>2
    <2> QED
      BY <1>2, <1>4, <2>1, <2>4, <2>5, <2>6 DEF RequestInv
  <1> QED
    BY <1>3, <1>4

\* A request is dropped without an answer.
LEMMA DropTracked ==
    ASSUME Types, RequestInv, NEW i \in Shards, NEW m \in calls[i],
           calls' = [calls EXCEPT ![i] = @ \ {m}], UNCHANGED <<op, stage, ret, stream>>
    PROVE  /\ RequestInv'
           /\ calls' \in [Shards -> SUBSET Call]
           /\ \A j \in Shards : calls'[j] \subseteq calls[j]
  <1>1. /\ calls' \in [Shards -> SUBSET Call]
        /\ \A j \in Shards : calls'[j] \subseteq calls[j]
    BY DEF Types
  <1>2. ASSUME NEW b \in Clients PROVE AtRest(b)' /\ \A j \in Shards : Tracked(b, j)'
    BY <1>1 DEF RequestInv, AtRest, Tracked
  <1> QED
    BY <1>1, <1>2 DEF RequestInv

-----------------------------------------------------------------------------
\* What the proxy and the lambdas do, whichever the request: a chunk is written or lost, and
\* a response has the chunk that is stored.
LEMMA ProxySettled ==
    ASSUME Types, SettledInv, UNCHANGED <<clientVars, historyVars>>,
           NEW i \in Shards, NEW body \in Body, NEW w,
           w = None \/ \E n \in calls[i] : w = n.write,
           \A j \in Shards : \A n \in calls'[j] : \E k \in calls[j] : n.write = k.write,
           \A j \in Shards : chunk'[j] \in {chunk[j], w, None},
           \A c \in Clients, j \in Shards :
                stream'[c][j] = stream[c][j] \/ (j = i /\ Head(stream'[c][j]).body = body),
           body \in Chunks \cup {"nil"} => body = chunk[i] /\ chunk[i] # None,
           body = "stored" => chunk'[i] = w
    PROVE  SettledInv'
  <1>1. ASSUME NEW c \in Clients, alone' = c PROVE Alone(c)'
    <2>1. Alone(c) /\ w \in {op[c].write, None}
      BY <1>1 DEF SettledInv, Alone, historyVars
    <2>2. op' = op /\ ret' = ret /\ stage' = stage /\ settled' = settled
      BY DEF clientVars, historyVars
    <2>3. ASSUME NEW j \in Shards
          PROVE  /\ chunk[j] \in {op[c].write, None} => chunk'[j] \in {op[c].write, None}
                 /\ \A m \in calls'[j] : m.write \in {op[c].write, None}
      BY <2>1 DEF Alone
    <2>4. ASSUME NEW j \in Shards, stream'[c][j] # <<>>, Head(stream'[c][j]).body = "stored"
          PROVE  chunk'[j] \in {op[c].write, None}
      <3>1. CASE stream'[c][j] = stream[c][j]
        BY <2>1, <2>3, <2>4, <3>1 DEF Alone
      <3>2. CASE stream'[c][j] # stream[c][j]
        BY <2>1, <2>4, <3>2
      <3> QED
        BY <3>1, <3>2
    <2> QED
      BY <2>1, <2>2, <2>3, <2>4 DEF Alone
  <1>2. ASSUME NEW v \in Values, settled' = v PROVE Settled(v)'
    <2>1. Settled(v) /\ w \in {v, None}
      BY <1>2 DEF SettledInv, Settled, historyVars
    <2>2. op' = op /\ ret' = ret /\ result' = result /\ alone' = alone
      BY DEF clientVars, historyVars
    <2>3. ASSUME NEW j \in Shards
          PROVE  chunk'[j] \in {v, None} /\ \A m \in calls'[j] : m.write \in {v, None}
      BY <2>1 DEF Settled
    <2>4. ASSUME NEW c \in Clients, NEW j \in Shards, stream'[c][j] # <<>>
          PROVE  Head(stream'[c][j]).body \in {v, "error", "stored", "late"}
      <3>1. body \in {v, "error", "stored", "late"}
        BY <2>1 DEF Body, Settled
      <3> QED
        BY <2>1, <2>4, <3>1 DEF Settled
    <2> QED
      BY <2>1, <2>2, <2>3, <2>4 DEF Settled
  <1> QED
    BY <1>1, <1>2 DEF SettledInv

\* A goroutine returns, with an error or with what the response brought.
LEMMA ReturnSettled ==
    ASSUME Types, SettledInv, NEW c \in Clients, NEW i \in Shards, op[c] # None,
           NEW r \in Written \cup {"error", "stored"},
           Return(c, i, r), UNCHANGED <<op, result, chunk, historyVars>>,
           \A j \in Shards : \A n \in calls'[j] : \E k \in calls[j] : n.write = k.write,
           \A b \in Clients, j \in Shards : stream'[b][j] = stream[b][j] \/ stream'[b][j] = <<>>,
           Alone(c) => r \in {"stored", "error"} /\ (r = "stored" => chunk[i] \in {op[c].write, None}),
           \A v \in Values : Settled(v) => r \in {v, None, "error", "stored"}
    PROVE  SettledInv'
  <1>1. /\ stage'[c][i] = "done" /\ ret'[c][i] = r
        /\ \A b \in Clients, j \in Shards : b # c \/ j # i => stage'[b][j] = stage[b][j] /\ ret'[b][j] = ret[b][j]
    BY DEF Return, Types
  <1>2. ASSUME NEW a \in Clients, alone' = a PROVE Alone(a)'
    <2>1. Alone(a) /\ settled' = None
      BY <1>2 DEF SettledInv, historyVars, Alone
    <2>2. a = c
      BY <2>1 DEF Alone
    <2>3. ASSUME NEW j \in Shards
          PROVE  /\ \A m \in calls'[j] : m.write \in {op[c].write, None}
                 /\ ret'[c][j] = "stored" => chunk[j] \in {op[c].write, None}
                 /\ stream'[c][j] # <<>> /\ Head(stream'[c][j]).body = "stored" => chunk[j] \in {op[c].write, None}
                 /\ stage'[c][j] = "done" => ret'[c][j] \in {"stored", "error"}
      <3>1. \A m \in calls'[j] : m.write \in {op[c].write, None}
        BY <2>1, <2>2 DEF Alone
      <3>2. stream'[c][j] # <<>> /\ Head(stream'[c][j]).body = "stored" => chunk[j] \in {op[c].write, None}
        BY <2>1, <2>2 DEF Alone
      <3>3. /\ ret'[c][j] = "stored" => chunk[j] \in {op[c].write, None}
            /\ stage'[c][j] = "done" => ret'[c][j] \in {"stored", "error"}
        BY <1>1, <2>1, <2>2 DEF Alone
      <3> QED
        BY <3>1, <3>2, <3>3
    <2> QED
      BY <2>1, <2>2, <2>3 DEF Alone
  <1>3. ASSUME NEW v \in Values, settled' = v PROVE Settled(v)'
    <2>1. Settled(v) /\ alone' = alone /\ r \in {v, None, "error", "stored"}
      BY <1>3 DEF SettledInv, historyVars
    <2>2. \A j \in Shards : \A m \in calls'[j] : m.write \in {v, None}
      BY <2>1 DEF Settled
    <2>3. ASSUME NEW b \in Clients, NEW j \in Shards
          PROVE  /\ ret'[b][j] \in {v, None, "error", "stored"}
                 /\ stream'[b][j] # <<>> => Head(stream'[b][j]).body \in {v, "error", "stored", "late"}
      <3>1. ret'[b][j] \in {v, None, "error", "stored"}
        BY <1>1, <2>1 DEF Settled
      <3>2. stream'[b][j] # <<>> => Head(stream'[b][j]).body \in {v, "error", "stored", "late"}
        BY <2>1 DEF Settled
      <3> QED
        BY <3>1, <3>2
    <2> QED
      BY <2>1, <2>2, <2>3 DEF Settled
  <1> QED
    BY <1>2, <1>3 DEF SettledInv

-----------------------------------------------------------------------------
(***************************************************************************)
(* The actions.                                                            *)
(***************************************************************************)
\* Every initial state satisfies the invariant.
LEMMA InitInv == Init => IInv
  <1> SUFFICES ASSUME Init PROVE IInv
    OBVIOUS
  <1>1. Types
    BY DEF Init, Types, Written
  <1>2. ValuesInv
    BY FS_EmptySet DEF Init, ValuesInv
  <1>3. RequestInv
    BY DEF Init, RequestInv, AtRest, Tracked
  <1>4. SettledInv
    BY ConstantFacts DEF Init, SettledInv, Chunks
  <1> QED
    BY <1>1, <1>2, <1>3, <1>4 DEF IInv

\* As long as an EcSet may begin there is a value for it.
LEMMA NewValueType ==
    ASSUME Types, ValuesInv, ops < MaxOps
    PROVE  NewValue \in Values \ written
  <1>1. Cardinality(Values) \in Nat /\ ops \in Nat /\ MaxOps \in Nat /\ Cardinality(Values) >= MaxOps
    BY ClientAssumption, FS_CardinalityType DEF Types
  <1>2. written # Values
    BY <1>1 DEF ValuesInv
  <1>3. \E v \in Values : v \notin written
    BY <1>2 DEF ValuesInv
  <1> QED
    BY <1>3 DEF NewValue

\* EcSet: a new value, and the only writer if every client is idle.
LEMMA EcSetStep ==
    ASSUME IInv, NEW c \in Clients, EcSet(c)
    PROVE  IInv'
  <1> USE DEF IInv
  <1>1. NewValue \in Values \ written
    BY NewValueType DEF EcSet
  <1>2. Waited(c)
    BY DEF RequestInv, AtRest, Waited, EcSet
  <1>3. NewValue \in Written /\ Begin(c, "set", NewValue, Shards) /\ UNCHANGED <<connVars, calls>>
    BY <1>1, ConstantFacts DEF EcSet, proxyVars, Written
  <1>4. /\ RequestInv'
        /\ op' \in [Clients -> {None} \cup Operation]
        /\ stage' \in [Clients -> [Shards -> {"start", "sent", "done"}]]
        /\ ret' \in [Clients -> [Shards -> Written \cup {"error", "stored"}]]
        /\ lastReq' \in Nat
        /\ op'[c] = [kind |-> "set", req |-> lastReq + 1, write |-> NewValue] /\ op'[c] \in Operation
        /\ \A b \in Clients : b # c => op'[b] = op[b] /\ ret'[b] = ret[b] /\ stage'[b] = stage[b]
        /\ \A i \in Shards : ret'[c][i] = None /\ stage'[c][i] = IF i \in Shards THEN "start" ELSE "done"
    BY <1>1, <1>2, <1>3, BeginTracked
  <1>5. Types'
    BY <1>4 DEF Types, EcSet, connVars, proxyVars
  <1>6. ValuesInv'
    <2>1. Cardinality(written \cup {NewValue}) = Cardinality(written) + 1 /\ IsFiniteSet(written \cup {NewValue})
      BY <1>1, FS_AddElement DEF ValuesInv
    <2>2. Cardinality(written) \in Nat
      BY FS_CardinalityType DEF ValuesInv
    <2> QED
      BY <1>1, <2>1, <2>2 DEF ValuesInv, EcSet, Types
  <1>7. SettledInv'
    <2>1. settled' = None
      BY DEF EcSet
    <2>2. ASSUME NEW a \in Clients, alone' = a PROVE Alone(a)'
      <3>1. a = c /\ Quiet(c)
        BY <2>2, ConstantFacts DEF EcSet
      <3>2. \A b \in Clients : b # c => op'[b] = None
        BY <3>1, <1>4 DEF Quiet
      <3>3. \A i \in Shards : \A m \in calls'[i] : m.write = None
        BY <3>1, <1>3 DEF Quiet, Writing
      <3>4. \A i \in Shards : stream'[c][i] = <<>>
        BY <1>2, <1>3 DEF RequestInv, Tracked, Waited, connVars
      <3>5. op'[c] # None /\ op'[c].kind = "set"
        BY <1>4, ConstantFacts
      <3>6. \A i \in Shards : ret'[c][i] # "stored" /\ stage'[c][i] # "done"
        BY <1>4, ConstantFacts
      <3> QED
        BY <2>1, <3>1, <3>2, <3>3, <3>4, <3>5, <3>6 DEF Alone
    <2> QED
      BY <2>1, <2>2, ConstantFacts DEF SettledInv
  <1> QED
    BY <1>4, <1>5, <1>6, <1>7

\* EcGet: a new request, which writes nothing.
LEMMA EcGetStep ==
    ASSUME IInv, NEW c \in Clients, EcGet(c)
    PROVE  IInv'
  <1> USE DEF IInv
  <1>1. Waited(c)
    BY DEF RequestInv, AtRest, Waited, EcGet
  <1>2. None \in Written /\ Begin(c, "get", None, Shards) /\ UNCHANGED <<connVars, calls>>
    BY DEF EcGet, proxyVars, Written
  <1>3. /\ RequestInv'
        /\ op' \in [Clients -> {None} \cup Operation]
        /\ stage' \in [Clients -> [Shards -> {"start", "sent", "done"}]]
        /\ ret' \in [Clients -> [Shards -> Written \cup {"error", "stored"}]]
        /\ lastReq' \in Nat
        /\ op'[c] = [kind |-> "get", req |-> lastReq + 1, write |-> None]
        /\ \A b \in Clients : b # c => op'[b] = op[b] /\ ret'[b] = ret[b] /\ stage'[b] = stage[b]
        /\ \A i \in Shards : ret'[c][i] = None
    BY <1>1, <1>2, BeginTracked
  <1>4. Types'
    BY <1>3 DEF Types, EcGet, connVars, proxyVars
  <1>5. ValuesInv'
    <2>1. Cardinality(written) \in Nat
      BY FS_CardinalityType DEF ValuesInv
    <2> QED
      BY <2>1 DEF ValuesInv, EcGet, Types
  <1>6. SettledInv'
    <2>1. alone' = None /\ settled' = settled /\ result' = None
      BY DEF EcGet
    <2>2. ASSUME NEW v \in Values, settled' = v PROVE Settled(v)'
      <3>1. Settled(v)
        BY <2>1, <2>2 DEF SettledInv
      <3>2. chunk' = chunk /\ calls' = calls /\ stream' = stream
        BY DEF EcGet, connVars, proxyVars
      <3> QED
        BY <1>3, <2>1, <3>1, <3>2 DEF Settled
    <2> QED
      BY <2>1, <2>2, ConstantFacts DEF SettledInv
  <1> QED
    BY <1>3, <1>4, <1>5, <1>6

\* EcSet returns: alone, with all its shards stored, it settles the object.
LEMMA EndSetStep ==
    ASSUME IInv, NEW c \in Clients, EndSet(c)
    PROVE  IInv'
  <1> USE DEF IInv
  <1>1. /\ op[c] # None /\ op[c].kind \in {"set", "recover"} /\ Waited(c)
        /\ Discard(c) /\ UNCHANGED <<stage, connVars, calls>>
        /\ UNCHANGED <<chunk, written, lastReq, ops>>
    BY DEF EndSet, proxyVars
  <1>2. /\ RequestInv'
        /\ op' \in [Clients -> {None} \cup Operation]
        /\ ret' \in [Clients -> [Shards -> Written \cup {"error", "stored"}]]
        /\ op'[c] = None /\ \A i \in Shards : ret'[c][i] = None
        /\ \A b \in Clients : b # c => op'[b] = op[b] /\ ret'[b] = ret[b]
    BY <1>1, DiscardTracked
  <1>3. stream' = stream /\ calls' = calls /\ chunk' = chunk /\ stage' = stage
    BY <1>1 DEF connVars
  <1>4. op[c].kind = "set" => op[c].write \in Values
    BY <1>1 DEF RequestInv, AtRest
  <1>5. alone' \in {alone, None} /\ settled' \in {settled, op[c].write}
    BY DEF EndSet, historyVars
  <1>6. Types'
    <2>1. settled' \in Values \cup {None}
      BY <1>4 DEF EndSet, historyVars, Types
    <2>2. alone' \in Clients \cup {None}
      BY <1>5 DEF Types
    <2> QED
      BY <1>1, <1>2, <1>3, <2>1, <2>2 DEF Types
  <1>7. ValuesInv'
    BY <1>1 DEF ValuesInv
  <1>8. ASSUME NEW a \in Clients, alone' = a PROVE Alone(a)'
    <2>1. Alone(a)
      BY <1>5, <1>8, ConstantFacts DEF SettledInv
    <2>2. a = c
      BY <1>1, <2>1 DEF Alone
    <2>3. alone' = None
      BY <1>5, <1>8, <2>1, <2>2, ConstantFacts DEF EndSet, Alone
    <2> QED
      BY <1>8, <2>3, ConstantFacts
  <1>9. ASSUME NEW v \in Values, settled' = v PROVE Settled(v)'
    <2>1. CASE alone = c /\ Failed(c) = {} /\ op[c].kind = "set"
      <3>1. Alone(c)
        BY <2>1 DEF SettledInv
      <3>2. v = op[c].write /\ alone' = None /\ result' = "ok"
        BY <1>9, <2>1 DEF EndSet
      <3>3. \A i \in Shards : ret[c][i] = "stored"
        BY <1>1, <2>1, <3>1 DEF Alone, Waited, Failed
      <3>4. \A i \in Shards : chunk[i] \in {v, None} /\ \A m \in calls[i] : m.write \in {v, None}
        BY <3>1, <3>2, <3>3 DEF Alone
      <3>5. \A b \in Clients : op'[b] = None
        BY <1>2, <3>1 DEF Alone
      <3>6. \A b \in Clients, i \in Shards : ret'[b][i] = None /\ stream'[b][i] = <<>>
        BY <3>5, <1>2 DEF RequestInv, AtRest, Tracked
      <3> QED
        BY <1>3, <3>2, <3>4, <3>5, <3>6 DEF Settled
    <2>2. CASE ~(alone = c /\ Failed(c) = {} /\ op[c].kind = "set")
      <3>1. settled = v
        BY <1>9, <2>2 DEF EndSet, historyVars
      <3>2. Settled(v)
        BY <3>1 DEF SettledInv
      <3>3. op[c].kind # "set"
        BY <1>1, <3>2 DEF Settled
      <3>4. result' = result /\ alone' = alone
        BY <3>3 DEF EndSet, historyVars
      <3> QED
        BY <1>2, <1>3, <3>2, <3>4 DEF Settled
    <2> QED
      BY <2>1, <2>2
  <1> QED
    BY <1>2, <1>6, <1>7, <1>8, <1>9 DEF SettledInv

\* EcGet returns, or goes on with recover, which writes what was decoded.
LEMMA EndGetStep ==
    ASSUME IInv, NEW c \in Clients, EndGet(c)
    PROVE  IInv'
  <1> USE DEF IInv
  <1>1. /\ op[c] # None /\ op[c].kind = "get" /\ Waited(c)
        /\ result' = Decode(c)
        /\ UNCHANGED <<connVars, calls>>
        /\ UNCHANGED <<chunk, written, ops, settled, alone>>
    BY DEF EndGet, proxyVars, historyVars
  <1>2. stream' = stream /\ calls' = calls
    BY <1>1 DEF connVars
  <1>3. ValuesInv'
    BY <1>1 DEF ValuesInv
  <1>4. alone \notin Clients
    BY <1>1 DEF SettledInv, Alone
  <1>5. \A v \in Values : settled = v => Settled(v) /\ Decode(c) \in {"error", v}
    BY DecodeSettled DEF SettledInv
  <1>6. CASE Decode(c) = "error" \/ Failed(c) = {}
    <2>1. Discard(c) /\ stage' = stage /\ lastReq' = lastReq
      BY <1>6 DEF EndGet
    <2>2. /\ RequestInv'
          /\ op' \in [Clients -> {None} \cup Operation]
          /\ ret' \in [Clients -> [Shards -> Written \cup {"error", "stored"}]]
          /\ op'[c] = None /\ \A i \in Shards : ret'[c][i] = None
          /\ \A b \in Clients : b # c => op'[b] = op[b] /\ ret'[b] = ret[b]
      BY <1>1, <2>1, DiscardTracked
    <2>3. Types'
      BY <1>1, <1>2, <2>1, <2>2 DEF Types
    <2>4. ASSUME NEW v \in Values, settled' = v PROVE Settled(v)'
      <3>1. Settled(v) /\ result' \in {"error", v}
        BY <1>1, <1>5, <2>4
      <3> QED
        BY <1>1, <1>2, <2>2, <3>1 DEF Settled
    <2> QED
      BY <1>1, <1>3, <1>4, <2>2, <2>3, <2>4 DEF SettledInv
  <1>7. CASE Decode(c) # "error" /\ Failed(c) # {}
    <2>1. Decode(c) \in Written
      BY <1>7, DecodeType DEF Written
    <2>2. Begin(c, "recover", Decode(c), Failed(c)) /\ Failed(c) \in SUBSET Shards
      BY <1>7 DEF EndGet, Recover, Failed
    <2>3. /\ RequestInv'
          /\ op' \in [Clients -> {None} \cup Operation]
          /\ stage' \in [Clients -> [Shards -> {"start", "sent", "done"}]]
          /\ ret' \in [Clients -> [Shards -> Written \cup {"error", "stored"}]]
          /\ lastReq' \in Nat
          /\ op'[c] = [kind |-> "recover", req |-> lastReq + 1, write |-> Decode(c)]
          /\ \A b \in Clients : b # c => op'[b] = op[b] /\ ret'[b] = ret[b] /\ stage'[b] = stage[b]
          /\ \A i \in Shards : ret'[c][i] = None
      BY <1>1, <2>1, <2>2, BeginTracked
    <2>4. Types'
      BY <1>1, <1>2, <2>3 DEF Types
    <2>5. ASSUME NEW v \in Values, settled' = v PROVE Settled(v)'
      <3>1. Settled(v) /\ Decode(c) = v
        BY <1>1, <1>5, <1>7, <2>5
      <3>2. op'[c].kind # "set" /\ op'[c].write = v
        BY <2>3, <3>1
      <3> QED
        BY <1>1, <1>2, <2>3, <3>1, <3>2 DEF Settled
    <2> QED
      BY <1>1, <1>3, <1>4, <2>3, <2>4, <2>5 DEF SettledInv
  <1> QED
    BY <1>6, <1>7

\* The request of a goroutine is sent.
LEMMA SendStep ==
    ASSUME IInv, NEW c \in Clients, NEW i \in Shards, Send(c, i)
    PROVE  IInv'
  <1> USE DEF IInv
  <1> DEFINE new == [client |-> c, req |-> op[c].req, write |-> op[c].write,
                     at |-> IF op[c].write = None THEN "proxy" ELSE "lambda", live |-> TRUE]
  <1>1. op[c] # None /\ op[c] \in Operation /\ stage[c][i] = "start"
    BY DEF Send, Working, Types
  <1>2. new \in Call
    BY <1>1 DEF Call, Operation
  <1>3. calls' = [calls EXCEPT ![i] = @ \cup {new}] /\ stage' = [stage EXCEPT ![c][i] = "sent"]
    BY DEF Send
  <1>4. UNCHANGED <<op, ret, result, stream, chunk, settled, alone, written, lastReq, ops>>
    BY DEF Send, historyVars, counters
  <1>5. Types'
    BY <1>2, <1>3, <1>4 DEF Types
  <1>6. ValuesInv'
    BY <1>4 DEF ValuesInv
  <1>7. /\ stage'[c][i] = "sent" /\ calls'[i] = calls[i] \cup {new}
        /\ \A b \in Clients, j \in Shards : b # c \/ j # i => stage'[b][j] = stage[b][j]
        /\ \A j \in Shards : j # i => calls'[j] = calls[j]
    BY <1>3 DEF Types
  <1>8. stream[c][i] = <<>> /\ \A m \in calls[i] : ~(m.client = c /\ m.live)
    BY <1>1 DEF RequestInv, Tracked
  <1>9. RequestInv'
    <2>1. ASSUME NEW b \in Clients PROVE AtRest(b)'
      BY <1>1, <1>4, <1>7, <2>1 DEF RequestInv, AtRest
    <2>2. ASSUME NEW b \in Clients, NEW j \in Shards PROVE Tracked(b, j)'
      <3>1. CASE b = c /\ j = i
        <4>1. \A m \in calls'[i] : m.client = c /\ m.live => m = new
          BY <1>7, <1>8
        <4>2. new.req = op'[c].req /\ new.write = op'[c].write /\ stream'[c][i] = <<>>
          BY <1>4, <1>8
        <4> HIDE DEF new
        <4> QED
          BY <1>7, <4>1, <4>2, <3>1 DEF Tracked
      <3>2. CASE b # c \/ j # i
        <4>1. \A m \in calls'[j] : m.client = b /\ m.live => m \in calls[j]
          BY <1>7, <3>2
        <4>2. Tracked(b, j) /\ stage'[b][j] = stage[b][j]
          BY <1>7, <3>2 DEF RequestInv
        <4> QED
          BY <1>4, <4>1, <4>2, SameTracked
      <3> QED
        BY <3>1, <3>2
    <2> QED
      BY <2>1, <2>2 DEF RequestInv
  <1>10. SettledInv'
    <2>1. ASSUME NEW a \in Clients, alone' = a PROVE Alone(a)'
      <3>1. Alone(a) /\ a = c
        BY <1>1, <1>4, <2>1 DEF SettledInv, Alone
      <3>2. \A j \in Shards : \A m \in calls'[j] : m.write \in {op[c].write, None}
        BY <1>7, <3>1 DEF Alone
      <3>3. \A j \in Shards : stage'[c][j] = "done" => ret'[c][j] \in {"stored", "error"}
        BY <1>4, <1>7, <3>1 DEF Alone
      <3> QED
        BY <1>4, <3>1, <3>2, <3>3 DEF Alone
    <2>2. ASSUME NEW v \in Values, settled' = v PROVE Settled(v)'
      <3>1. Settled(v)
        BY <1>4, <2>2 DEF SettledInv
      <3>2. \A j \in Shards : \A m \in calls'[j] : m.write \in {v, None}
        BY <1>1, <1>7, <3>1 DEF Settled
      <3> QED
        BY <1>4, <3>1, <3>2 DEF Settled
    <2> QED
      BY <2>1, <2>2 DEF SettledInv
  <1> QED
    BY <1>5, <1>6, <1>9, <1>10

\* Types of a goroutine that returns.
LEMMA ReturnType ==
    ASSUME Types, NEW c \in Clients, NEW i \in Shards, NEW r \in Written \cup {"error", "stored"},
           Return(c, i, r)
    PROVE  /\ stage' \in [Clients -> [Shards -> {"start", "sent", "done"}]]
           /\ ret' \in [Clients -> [Shards -> Written \cup {"error", "stored"}]]
           /\ stage'[c][i] = "done"
           /\ \A b \in Clients, j \in Shards : b # c \/ j # i => stage'[b][j] = stage[b][j] /\ ret'[b][j] = ret[b][j]
  BY DEF Types, Return

\* It is not sent: there is no connection.
LEMMA SendFailsStep ==
    ASSUME IInv, NEW c \in Clients, NEW i \in Shards, SendFails(c, i)
    PROVE  IInv'
  <1> USE DEF IInv
  <1>1. op[c] # None /\ stage[c][i] = "start" /\ Return(c, i, "error")
    BY DEF SendFails, Working
  <1>2. UNCHANGED <<op, result, stream, calls, chunk, historyVars, written, lastReq, ops>>
    BY DEF SendFails, connVars, proxyVars, counters
  <1>3. /\ stage' \in [Clients -> [Shards -> {"start", "sent", "done"}]]
        /\ ret' \in [Clients -> [Shards -> Written \cup {"error", "stored"}]]
        /\ \A b \in Clients, j \in Shards : b # c \/ j # i => stage'[b][j] = stage[b][j] /\ ret'[b][j] = ret[b][j]
    BY <1>1, ReturnType
  <1>4. Types' /\ ValuesInv'
    BY <1>2, <1>3 DEF Types, ValuesInv, historyVars
  <1>5. RequestInv'
    <2>1. ASSUME NEW b \in Clients PROVE AtRest(b)'
      BY <1>1, <1>2, <1>3, <2>1 DEF RequestInv, AtRest
    <2>2. ASSUME NEW b \in Clients, NEW j \in Shards PROVE Tracked(b, j)'
      <3>1. CASE b = c /\ j = i
        BY <1>1, <1>2, <3>1 DEF RequestInv, Tracked
      <3>2. CASE b # c \/ j # i
        BY <1>2, <1>3, <3>2, SameTracked DEF RequestInv
      <3> QED
        BY <3>1, <3>2
    <2> QED
      BY <2>1, <2>2 DEF RequestInv
  <1>6. SettledInv'
    BY <1>1, <1>2, ReturnSettled
  <1> QED
    BY <1>4, <1>5, <1>6

\* A goroutine reads the response of its request.
LEMMA ReceiveStep ==
    ASSUME IInv, NEW c \in Clients, NEW i \in Shards, Receive(c, i)
    PROVE  IInv'
  <1> USE DEF IInv
  <1> DEFINE h == Head(stream[c][i])
             r == IF h.body = "error" \/ h.req # op[c].req THEN "error"
                  ELSE IF h.body = "late" THEN None ELSE h.body
  <1>1. op[c] # None /\ stage[c][i] = "sent" /\ stream[c][i] # <<>> /\ Return(c, i, r)
    BY DEF Receive, Working
  <1>2. UNCHANGED <<op, result, calls, chunk, historyVars, written, lastReq, ops>>
    BY DEF Receive, proxyVars, counters
  <1>3. stream[c][i] \in Seq(Response) /\ Len(stream[c][i]) = 1 /\ h.req = op[c].req
    BY <1>1 DEF Types, RequestInv, Tracked
  <1>4. h \in Response /\ Tail(stream[c][i]) = <<>>
    BY <1>3, OneResponse
  <1>5. r \in Written \cup {"error", "stored"}
    BY <1>4 DEF Response, Body, Written
  <1>6. /\ stage' \in [Clients -> [Shards -> {"start", "sent", "done"}]]
        /\ ret' \in [Clients -> [Shards -> Written \cup {"error", "stored"}]]
        /\ stage'[c][i] = "done"
        /\ \A b \in Clients, j \in Shards : b # c \/ j # i => stage'[b][j] = stage[b][j] /\ ret'[b][j] = ret[b][j]
    BY <1>1, <1>5, ReturnType
  <1>7. /\ stream' \in [Clients -> [Shards -> Seq(Response)]]
        /\ stream'[c][i] = <<>>
        /\ \A b \in Clients, j \in Shards : b # c \/ j # i => stream'[b][j] = stream[b][j]
    <2>1. stream' = [stream EXCEPT ![c][i] = Tail(@)]
      BY DEF Receive
    <2>2. <<>> \in Seq(Response)
      OBVIOUS
    <2> QED
      BY <1>4, <2>1, <2>2 DEF Types
  <1>8. Types' /\ ValuesInv'
    BY <1>2, <1>6, <1>7 DEF Types, ValuesInv, historyVars
  <1>9. RequestInv'
    <2>1. ASSUME NEW b \in Clients PROVE AtRest(b)'
      BY <1>1, <1>2, <1>6, <2>1 DEF RequestInv, AtRest
    <2>2. ASSUME NEW b \in Clients, NEW j \in Shards PROVE Tracked(b, j)'
      <3>1. CASE b = c /\ j = i
        BY <1>1, <1>2, <1>7, <3>1 DEF RequestInv, Tracked
      <3>2. CASE b # c \/ j # i
        BY <1>2, <1>6, <1>7, <3>2, SameTracked DEF RequestInv
      <3> QED
        BY <3>1, <3>2
    <2> QED
      BY <2>1, <2>2 DEF RequestInv
  <1>10. Alone(c) => r \in {"stored", "error"} /\ (r = "stored" => chunk[i] \in {op[c].write, None})
    <2> SUFFICES ASSUME Alone(c)
                 PROVE  r \in {"stored", "error"} /\ (r = "stored" => chunk[i] \in {op[c].write, None})
      OBVIOUS
    <2>1. op[c].write # None
      BY ConstantFacts DEF Alone, RequestInv, AtRest
    <2>2. h.body \in {"stored", "error"}
      BY <1>1, <2>1 DEF RequestInv, Tracked
    <2>3. r = h.body
      BY <1>3, <2>2
    <2> QED
      BY <1>1, <2>2, <2>3 DEF Alone
  <1>11. \A v \in Values : Settled(v) => r \in {v, None, "error", "stored"}
    BY <1>1 DEF Settled
  <1>12. SettledInv'
    BY <1>1, <1>2, <1>5, <1>7, <1>10, <1>11, ReturnSettled
  <1> QED
    BY <1>8, <1>9, <1>12

\* A timeout, EOF and a reset.
LEMMA CutStep ==
    ASSUME IInv, NEW c \in Clients, NEW i \in Shards, Working(c, i, "sent"),
           Cut(c, i), Return(c, i, "error"),
           UNCHANGED <<op, result, chunk, historyVars, written, lastReq, ops>>
    PROVE  IInv'
  <1> USE DEF IInv
  <1>1. /\ RequestInv'
        /\ stream' \in [Clients -> [Shards -> Seq(Response)]]
        /\ calls' \in [Shards -> SUBSET Call]
        /\ \A j \in Shards : \A m \in calls'[j] : \E n \in calls[j] : m.write = n.write
        /\ \A b \in Clients, j \in Shards : stream'[b][j] = stream[b][j] \/ stream'[b][j] = <<>>
    BY CutTracked
  <1>2. /\ stage' \in [Clients -> [Shards -> {"start", "sent", "done"}]]
        /\ ret' \in [Clients -> [Shards -> Written \cup {"error", "stored"}]]
    BY ReturnType
  <1>3. Types' /\ ValuesInv'
    BY <1>1, <1>2 DEF Types, ValuesInv, historyVars
  <1>4. SettledInv'
    BY <1>1, ReturnSettled DEF Working
  <1> QED
    BY <1>1, <1>3, <1>4

\* The proxy hands a request to a lambda.
LEMMA HandleStep ==
    ASSUME IInv, NEW i \in Shards, NEW m \in calls[i], Handle(i, m)
    PROVE  IInv'
  <1> USE DEF IInv
  <1> DEFINE new == [m EXCEPT !.at = "lambda"]
  <1>1. m \in Call /\ new \in Call /\ new.client = m.client /\ new.live = m.live /\ new.req = m.req /\ new.write = m.write
    <2>1. m \in Call
      BY DEF Types
    <2> QED
      BY <2>1 DEF Call
  <1>2. UNCHANGED <<op, stage, ret, result, stream, chunk, historyVars, written, lastReq, ops>>
    BY DEF Handle, clientVars, connVars, counters
  <1>3. /\ calls'[i] = (calls[i] \ {m}) \cup {new}
        /\ \A j \in Shards : j # i => calls'[j] = calls[j]
        /\ calls' \in [Shards -> SUBSET Call]
    BY <1>1 DEF Handle, Types
  <1> HIDE DEF new
  <1>4. Types' /\ ValuesInv'
    BY <1>2, <1>3 DEF Types, ValuesInv, historyVars
  <1>5. RequestInv'
    <2>1. ASSUME NEW b \in Clients PROVE AtRest(b)'
      BY <1>2 DEF RequestInv, AtRest
    <2>2. ASSUME NEW b \in Clients, NEW j \in Shards PROVE Tracked(b, j)'
      <3>1. CASE j = i /\ b = m.client /\ m.live
        <4>1. /\ stage[b][i] = "sent" /\ stream[b][i] = <<>>
              /\ m.req = op[b].req /\ m.write = op[b].write
              /\ \A n \in calls[i] : n.client = b /\ n.live => n = m
          BY <3>1 DEF RequestInv, Tracked
        <4>2. \A n \in calls'[i] : n.client = b /\ n.live => n = new
          BY <1>3, <4>1
        <4> QED
          BY <1>1, <1>2, <3>1, <4>1, <4>2 DEF Tracked
      <3>2. CASE ~(j = i /\ b = m.client /\ m.live)
        <4>1. \A n \in calls'[j] : n.client = b /\ n.live => n \in calls[j]
          BY <1>1, <1>3, <3>2
        <4> QED
          BY <1>2, <4>1, SameTracked DEF RequestInv
      <3> QED
        BY <3>1, <3>2
    <2> QED
      BY <2>1, <2>2 DEF RequestInv
  <1>6. SettledInv'
    <2>1. \A j \in Shards : \A n \in calls'[j] : \E k \in calls[j] : n.write = k.write
      BY <1>1, <1>3
    <2>2. "late" \in Body /\ "late" \notin Chunks \cup {"nil"}
      BY ConstantFacts DEF Body
    <2>3. UNCHANGED <<clientVars, historyVars>>
      BY DEF Handle
    <2> QED
      BY <1>2, <2>1, <2>2, <2>3, ProxySettled
  <1> QED
    BY <1>4, <1>5, <1>6

\* A request is answered, and a chunk may have been written.
LEMMA AnswerStep ==
    ASSUME IInv, NEW i \in Shards, NEW m \in calls[i], NEW body \in Body, Answer(i, m, body),
           UNCHANGED <<clientVars, historyVars, written, lastReq, ops>>,
           m.write # None => body \in {"stored", "error"},
           chunk' \in {chunk, [chunk EXCEPT ![i] = m.write]},
           body \in Chunks \cup {"nil"} => body = chunk[i] /\ chunk[i] # None,
           body = "stored" => chunk' = [chunk EXCEPT ![i] = m.write]
    PROVE  IInv'
  <1> USE DEF IInv
  <1>1. UNCHANGED <<op, stage, ret>>
    BY DEF clientVars
  <1>2. /\ RequestInv'
        /\ stream' \in [Clients -> [Shards -> Seq(Response)]]
        /\ calls' \in [Shards -> SUBSET Call]
        /\ \A j \in Shards : calls'[j] \subseteq calls[j]
        /\ \A c \in Clients, j \in Shards :
             \/ stream'[c][j] = stream[c][j]
             \/ /\ j = i /\ c = m.client /\ m.live /\ stream[c][j] = <<>>
                /\ Head(stream'[c][j]) = [req |-> m.req, body |-> body]
    BY <1>1, AnswerTracked
  <1>3. m.write \in Written
    BY DEF Types, Call
  <1>4. Types' /\ ValuesInv'
    BY <1>1, <1>2, <1>3 DEF Types, ValuesInv, historyVars
  <1>5. SettledInv'
    <2>1. \A j \in Shards : chunk'[j] \in {chunk[j], m.write, None}
      BY DEF Types
    <2>2. body = "stored" => chunk'[i] = m.write
      BY DEF Types
    <2>3. \A j \in Shards : \A n \in calls'[j] : \E k \in calls[j] : n.write = k.write
      BY <1>2
    <2>4. \A c \in Clients, j \in Shards :
             stream'[c][j] = stream[c][j] \/ (j = i /\ Head(stream'[c][j]).body = body)
      BY <1>2
    <2>5. UNCHANGED <<clientVars, historyVars>> /\ \E n \in calls[i] : m.write = n.write
      OBVIOUS
    <2> QED
      BY <2>1, <2>2, <2>3, <2>4, <2>5, ProxySettled
  <1> QED
    BY <1>2, <1>4, <1>5

\* A request is dropped.
LEMMA DropStep ==
    ASSUME IInv, NEW i \in Shards, NEW m \in calls[i],
           calls' = [calls EXCEPT ![i] = @ \ {m}],
           UNCHANGED <<clientVars, connVars, chunk, historyVars, written, lastReq, ops>>
    PROVE  IInv'
  <1> USE DEF IInv
  <1>1. UNCHANGED <<op, stage, ret, stream>>
    BY DEF clientVars, connVars
  <1>2. /\ RequestInv'
        /\ calls' \in [Shards -> SUBSET Call]
        /\ \A j \in Shards : calls'[j] \subseteq calls[j]
    BY <1>1, DropTracked
  <1>3. Types' /\ ValuesInv'
    BY <1>1, <1>2 DEF Types, ValuesInv, historyVars
  <1>4. SettledInv'
    <2>1. "late" \in Body /\ "late" \notin Chunks \cup {"nil"}
      BY ConstantFacts DEF Body
    <2>2. \A j \in Shards : \A n \in calls'[j] : \E k \in calls[j] : n.write = k.write
      BY <1>2
    <2>3. UNCHANGED <<clientVars, historyVars>>
      OBVIOUS
    <2> QED
      BY <1>1, <2>1, <2>2, <2>3, ProxySettled
  <1> QED
    BY <1>2, <1>3, <1>4

\* A lambda stores a chunk.
LEMMA StoreChunkStep ==
    ASSUME IInv, NEW i \in Shards, NEW m \in calls[i], StoreChunk(i, m)
    PROVE  IInv'
  <1>1. "stored" \in Body /\ "stored" \notin Chunks \cup {"nil"}
    BY ConstantFacts DEF Body
  <1>2. Answer(i, m, "stored") /\ chunk' = [chunk EXCEPT ![i] = m.write]
    BY DEF StoreChunk
  <1>3. UNCHANGED <<clientVars, historyVars, written, lastReq, ops>>
    BY DEF StoreChunk, counters
  <1> QED
    BY <1>1, <1>2, <1>3, AnswerStep

\* A lambda sends the chunk it stores.
LEMMA FetchChunkStep ==
    ASSUME IInv, NEW i \in Shards, NEW m \in calls[i], FetchChunk(i, m)
    PROVE  IInv'
  <1>1. m.write = None /\ chunk[i] # None /\ chunk' = chunk
    BY DEF FetchChunk
  <1>2. UNCHANGED <<clientVars, historyVars, written, lastReq, ops>> /\ conns' = conns
    BY DEF FetchChunk, counters
  <1>3. CASE reqMap[m.req] = None
    BY <1>1, <1>2, <1>3, DropStep DEF FetchChunk, connVars
  <1>4. CASE reqMap[m.req] # None
    <2>1. PICK body \in {"late", chunk[i]} : Answer(i, m, body)
      BY <1>4 DEF FetchChunk
    <2>2. body \in Body
      BY <1>1, <2>1 DEF IInv, Types, Body, Written
    <2>3. body \in Chunks \cup {"nil"} => body = chunk[i]
      BY <2>1, ConstantFacts
    <2>4. body # "stored"
      BY <2>1, ConstantFacts DEF IInv, Types, Written
    <2> QED
      BY <1>1, <1>2, <2>1, <2>2, <2>3, <2>4, AnswerStep
  <1> QED
    BY <1>3, <1>4

\* A request that fails, having been executed or not.
LEMMA ErrorStep ==
    ASSUME IInv, NEW i \in Shards, NEW m \in calls[i], NotFound(i, m) \/ CallFails(i, m)
    PROVE  IInv'
  <1>1. "error" \in Body /\ "error" \notin Chunks \cup {"nil"}
    BY ConstantFacts DEF Body
  <1>2. Answer(i, m, "error") /\ chunk' \in {chunk, [chunk EXCEPT ![i] = m.write]}
    BY DEF NotFound, CallFails
  <1>3. UNCHANGED <<clientVars, historyVars, written, lastReq, ops>>
    BY DEF NotFound, CallFails, counters
  <1> QED
    BY <1>1, <1>2, <1>3, AnswerStep

\* A chunk is lost with its lambda, or evicted.
LEMMA ReclaimStep ==
    ASSUME IInv, NEW i \in Shards, Reclaim(i)
    PROVE  IInv'
  <1> USE DEF IInv
  <1>1. /\ UNCHANGED <<op, stage, ret, stream, calls, written, lastReq, ops>>
        /\ UNCHANGED <<clientVars, historyVars>>
        /\ chunk' = [chunk EXCEPT ![i] = None]
    BY DEF Reclaim, clientVars, connVars
  <1>2. Types' /\ ValuesInv'
    BY <1>1 DEF Types, ValuesInv, historyVars, Written
  <1>3. RequestInv'
    BY <1>1 DEF RequestInv, AtRest, Tracked
  <1>4. SettledInv'
    <2>1. "late" \in Body /\ "late" \notin Chunks \cup {"nil"}
      BY ConstantFacts DEF Body
    <2>2. \A j \in Shards : chunk'[j] \in {chunk[j], None}
      BY <1>1 DEF Types
    <2> QED
      BY <1>1, <2>1, <2>2, ProxySettled
  <1> QED
    BY <1>2, <1>3, <1>4

\* Nothing changes.
LEMMA StutterStep ==
    ASSUME IInv, UNCHANGED vars
    PROVE  IInv'
  BY DEF IInv, Types, ValuesInv, RequestInv, AtRest, Tracked, SettledInv, Alone, Settled,
         vars, clientVars, connVars, proxyVars, historyVars, counters

\* Every step preserves it.
LEMMA NextInv == IInv /\ [Next]_vars => IInv'
  <1> SUFFICES ASSUME IInv, [Next]_vars PROVE IInv'
    OBVIOUS
  <1>1. CASE UNCHANGED vars
    BY <1>1, StutterStep
  <1>2. ASSUME NEW c \in Clients, EcSet(c) \/ EcGet(c) \/ EndSet(c) \/ EndGet(c) PROVE IInv'
    BY <1>2, EcSetStep, EcGetStep, EndSetStep, EndGetStep
  <1>3. ASSUME NEW c \in Clients, NEW i \in Shards, Goroutine(c, i) PROVE IInv'
    <2>1. CASE Send(c, i) \/ SendFails(c, i) \/ Receive(c, i)
      BY <2>1, SendStep, SendFailsStep, ReceiveStep
    <2>2. CASE Timeout(c, i)
      BY <2>2, CutStep DEF Timeout, Disconnect
    <2>3. CASE Eof(c, i)
      BY <2>3, CutStep DEF Eof, Disconnect
    <2>4. CASE Reset(c, i)
      BY <2>4, CutStep DEF Reset
    <2> QED
      BY <1>3, <2>1, <2>2, <2>3, <2>4 DEF Goroutine
  <1>4. ASSUME NEW i \in Shards, Proxy(i) PROVE IInv'
    BY <1>4, HandleStep, StoreChunkStep, FetchChunkStep, ErrorStep DEF Proxy
  <1>5. ASSUME NEW i \in Shards, NEW m \in calls[i], CallFails(i, m) \/ BodyFails(i, m) PROVE IInv'
    <2>1. CASE CallFails(i, m)
      BY <2>1, ErrorStep
    <2>2. CASE BodyFails(i, m)
      BY <2>2, DropStep DEF BodyFails
    <2> QED
      BY <1>5, <2>1, <2>2
  <1> QED
    BY <1>1, <1>2, <1>3, <1>4, <1>5, ReclaimStep DEF Next

\* Every response is of a request that a goroutine still waits for, and the chunks of a
\* settled object are of one value, wherever they are (EcSet, EcGet, set, get, rec).
THEOREM Inductive == Spec => []IInv
  BY InitInv, NextInv, PTL DEF Spec

-----------------------------------------------------------------------------
\* A response that a client reads is the answer to its current request (rec), however many
\* requests of the connection have timed out before.
THEOREM ResponsesMatch == Spec => []OwnResponse
  <1>1. IInv => OwnResponse
    BY DEF IInv, RequestInv, AtRest, Tracked, OwnResponse, Working
  <1> QED
    BY <1>1, Inductive, PTL

\* After an EcSet that had the object to itself, no chunk of another value is stored or on
\* its way to a lambda, until the next EcSet: recover (EcGet) writes none.
THEOREM StoreStaysSettled == Spec => []SettledStore
  <1>1. IInv => SettledStore
    <2> SUFFICES ASSUME IInv, settled # None PROVE SettledStore
      BY DEF SettledStore
    <2>1. settled \in Values /\ Settled(settled)
      BY DEF IInv, Types, SettledInv
    <2> QED
      BY <2>1 DEF SettledStore, Settled, Writing
  <1> QED
    BY <1>1, Inductive, PTL

\* And an EcGet returns its value or fails (decode).
THEOREM ReadsStaySettled == Spec => []SettledReads
  <1>1. IInv => SettledReads
    <2> SUFFICES ASSUME IInv, settled # None PROVE SettledReads
      BY DEF SettledReads
    <2>1. settled \in Values /\ Settled(settled)
      BY DEF IInv, Types, SettledInv
    <2> QED
      BY <2>1 DEF SettledReads, Settled
  <1> QED
    BY <1>1, Inductive, PTL
=============================================================================
