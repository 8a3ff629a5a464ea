--------------------------- MODULE ClientCounting ---------------------------
(***************************************************************************)
(* The counters of Client: how many chunks of an EcGet are passed on, what *)
(* that means for decode, and the types, for any number of clients and     *)
(* shards, any number of needed shards, of operations and of failures.     *)
(***************************************************************************)
EXTENDS ClientProofs

\* An EcGet is under way.
Reading(c) == op[c] # None /\ op[c].kind = "get"
Readers == {c \in Clients : Reading(c)}

\* Request ids are the number of the request, and there is a counter for each: an EcGet that
\* has not ended has the id of its recovery ahead of it.
NumberInv ==
    /\ ops \in 0..MaxOps
    /\ IsFiniteSet(Readers)
    /\ lastReq + Cardinality(Readers) <= 2 * ops
    /\ \A c \in Clients : op[c] # None => op[c].req \in 1..lastReq
    /\ \A b, c \in Clients : op[b] # None /\ op[c] # None /\ op[b].req = op[c].req => b = c
    /\ \A i \in Shards : \A m \in calls[i] : m.req \in 1..lastReq

\* A request is sent once to each shard.
Once(i) ==
    \A m \in calls[i] :
        /\ \A n \in calls[i] : n.req = m.req => n = m
        /\ \A c \in Clients : op[c] # None /\ op[c].req = m.req => stage[c][i] # "start"

OnceInv == \A i \in Shards : Once(i)

\* The shards that can still be asked for a chunk of request r, or have not answered it.
Pending(r) ==
    {i \in Shards : \/ \E m \in calls[i] : m.req = r
                    \/ \E c \in Clients : op[c] # None /\ op[c].req = r /\ stage[c][i] = "start"}

\* The shards whose chunk was passed on to client c.
Passed(c) ==
    {i \in Shards : \/ ret[c][i] \in Chunks
                    \/ stream[c][i] # <<>> /\ Head(stream[c][i]).body \in Chunks}

\* The counter of a request counts shards that are not pending, and it is deleted when none
\* is left.
CounterInv ==
    /\ reqMap \in [ReqIds -> {None} \cup 0..Cardinality(Shards)]
    /\ \A r \in ReqIds : reqMap[r] # None =>
        r <= lastReq /\ reqMap[r] + Cardinality(Pending(r)) <= Cardinality(Shards)

\* It counts the chunks that were passed on, too; after it was deleted it is not made again.
PassedInv ==
    \A c \in Clients : Reading(c) =>
        /\ Cardinality(Passed(c)) <= DataShards
        /\ reqMap[op[c].req] # None => Cardinality(Passed(c)) <= reqMap[op[c].req]
        /\ reqMap[op[c].req] = None => Passed(c) = {} \/ Pending(op[c].req) = {}

\* What is written and what is read are chunks: decode never returns nil.
ValueInv ==
    /\ \A c \in Clients : op[c] # None => op[c].write # "nil"
    /\ ret \in [Clients -> [Shards -> Chunks \cup {None, "error", "stored"}]]
    /\ conns \in [Clients -> [Shards -> {"open", None, "dead"}]]
    /\ \A c \in Clients, i \in Shards : stream[c][i] # <<>> => Head(stream[c][i]).body # "nil"
    /\ result \in Chunks \cup {None, "ok", "error", "nil"}
    /\ \A i \in Shards : \A m \in calls[i] : m.write # "nil"
    /\ chunk \in [Shards -> Chunks \cup {None}]

CInv == /\ NumberInv /\ OnceInv /\ CounterInv /\ CounterFound
        /\ PassedInv /\ ValueInv

-----------------------------------------------------------------------------
\* Cardinalities of sets of shards.
LEMMA ShardFacts ==
    /\ Cardinality(Shards) \in Nat
    /\ \A S \in SUBSET Shards : IsFiniteSet(S) /\ Cardinality(S) \in 0..Cardinality(Shards)
    /\ \A S, T \in SUBSET Shards : S \subseteq T => Cardinality(S) <= Cardinality(T)
    /\ \A S \in SUBSET Shards : Cardinality(S) = 0 <=> S = {}
  <1>1. IsFiniteSet(Shards) /\ Cardinality(Shards) \in Nat
    BY ClientAssumption, FS_CardinalityType
  <1>2. ASSUME NEW S \in SUBSET Shards PROVE IsFiniteSet(S) /\ Cardinality(S) \in 0..Cardinality(Shards)
    BY <1>1, FS_Subset, FS_CardinalityType
  <1>3. ASSUME NEW S \in SUBSET Shards, NEW T \in SUBSET Shards, S \subseteq T
        PROVE  Cardinality(S) <= Cardinality(T)
    BY <1>2, <1>3, FS_Subset
  <1>4. ASSUME NEW S \in SUBSET Shards PROVE Cardinality(S) = 0 <=> S = {}
    BY <1>2, FS_EmptySet
  <1> QED
    BY <1>1, <1>2, <1>3, <1>4

\* One shard more, and one shard less.
LEMMA ShardCount ==
    ASSUME NEW S \in SUBSET Shards, NEW i \in Shards
    PROVE  /\ Cardinality(S \cup {i}) <= Cardinality(S) + 1
           /\ i \in S => Cardinality(S \ {i}) = Cardinality(S) - 1
  BY SMTT(30), ShardFacts, FS_AddElement, FS_RemoveElement

\* Every request in use has its place in ReqMap.
LEMMA NumberBound ==
    ASSUME NEW n \in Nat, NEW S, IsFiniteSet(S), NEW k \in 0..MaxOps, n + Cardinality(S) <= 2 * k
    PROVE  n \in {0} \cup ReqIds /\ \A r \in 1..n : r \in ReqIds
  <1>1. Cardinality(S) \in Nat /\ MaxOps \in Nat
    BY FS_CardinalityType, ClientAssumption
  <1> QED
    BY <1>1 DEF ReqIds

\* In particular those of the operations and of the calls.
LEMMA NumberFacts ==
    ASSUME Types, NumberInv
    PROVE  /\ lastReq \in {0} \cup ReqIds
           /\ \A r \in 1..lastReq : r \in ReqIds
           /\ \A c \in Clients : op[c] # None => op[c].req \in ReqIds
           /\ \A i \in Shards : \A m \in calls[i] : m.req \in ReqIds
  <1>1. lastReq \in {0} \cup ReqIds /\ \A r \in 1..lastReq : r \in ReqIds
    BY NumberBound DEF Types, NumberInv
  <1> QED
    BY <1>1 DEF NumberInv

\* Chunks a client has were passed on to it.
LEMMA PendingFacts ==
    /\ \A r : Pending(r) \in SUBSET Shards
    /\ \A c : Passed(c) \in SUBSET Shards
    /\ \A c : Got(c) \subseteq Passed(c)
  BY DEF Pending, Passed, Got

\* A step that counts nothing: a request is not sent twice, no shard becomes pending and no
\* chunk is passed on, unless it belongs to a new operation.
LEMMA Kept ==
    ASSUME Types, Types', CInv, NumberInv', reqMap' = reqMap, lastReq' >= lastReq,
           \A i \in Shards : \A m \in calls'[i] :
                \E n \in calls[i] : n.req = m.req /\ n.at = m.at /\ n.write = m.write,
           \A i \in Shards : \A m, n \in calls'[i] : m.req = n.req => m = n,
           \A c \in Clients : op'[c] # None => op'[c] = op[c] \/ op'[c].req > lastReq,
           \A c \in Clients, i \in Shards :
                op'[c] # None /\ op'[c] = op[c] /\ stage'[c][i] = "start" => stage[c][i] = "start",
           \A c \in Clients : Reading(c)' =>
                \/ op'[c] = op[c] /\ Passed(c)' \subseteq Passed(c)
                \/ op'[c].req > lastReq /\ Passed(c)' = {}
    PROVE  OnceInv' /\ CounterInv' /\ CounterFound' /\ PassedInv'
  <1> USE DEF CInv
  <1>1. lastReq \in Nat /\ lastReq' \in Nat /\ \A i \in Shards : \A m \in calls'[i] : m.req \in 1..lastReq
    <2>1. lastReq \in Nat /\ lastReq' \in Nat
      BY DEF Types
    <2>2. ASSUME NEW i \in Shards, NEW m \in calls'[i] PROVE m.req \in 1..lastReq
      <3>1. PICK n \in calls[i] : n.req = m.req
        OBVIOUS
      <3> QED
        BY <3>1 DEF NumberInv
    <2> QED
      BY <2>1, <2>2
  <1>2. ASSUME NEW r \in 1..lastReq PROVE Pending(r)' \subseteq Pending(r)
    BY <1>1, <1>2 DEF Pending
  <1>3. OnceInv'
    <2> SUFFICES ASSUME NEW i \in Shards, NEW m \in calls'[i], NEW c \in Clients,
                        op'[c] # None, op'[c].req = m.req, stage'[c][i] = "start"
                 PROVE  FALSE
      BY DEF OnceInv, Once
    <2>1. op'[c] = op[c] /\ stage[c][i] = "start"
      BY <1>1
    <2>2. PICK n \in calls[i] : n.req = m.req
      OBVIOUS
    <2> QED
      BY <2>1, <2>2 DEF OnceInv, Once
  <1>4. CounterInv'
    <2> SUFFICES ASSUME NEW r \in ReqIds, reqMap[r] # None
                 PROVE  r <= lastReq' /\ reqMap[r] + Cardinality(Pending(r)') <= Cardinality(Shards)
      BY DEF CounterInv
    <2>1. r \in 1..lastReq /\ reqMap[r] \in Nat
      BY <1>1, ShardFacts DEF CounterInv, ReqIds
    <2>2. reqMap[r] + Cardinality(Pending(r)) <= Cardinality(Shards)
      BY DEF CounterInv
    <2>3. /\ Cardinality(Pending(r)') <= Cardinality(Pending(r))
          /\ Cardinality(Pending(r)') \in Nat /\ Cardinality(Pending(r)) \in Nat
      <3>1. Pending(r)' \in SUBSET Shards /\ Pending(r) \in SUBSET Shards
        BY DEF Pending
      <3> QED
        BY <1>2, <2>1, <3>1, ShardFacts
    <2> QED
      BY <1>1, <2>1, <2>2, <2>3, ShardFacts
  <1>5. CounterFound'
    BY DEF CounterFound
  <1>6. PassedInv'
    <2> SUFFICES ASSUME NEW c \in Clients, Reading(c)'
                 PROVE  /\ Cardinality(Passed(c)') <= DataShards
                        /\ reqMap[op'[c].req] # None => Cardinality(Passed(c)') <= reqMap[op'[c].req]
                        /\ reqMap[op'[c].req] = None => Passed(c)' = {} \/ Pending(op[c].req)' = {}
      BY DEF PassedInv
    <2>1. Passed(c)' \in SUBSET Shards /\ Passed(c) \in SUBSET Shards
      BY DEF Passed
    <2>2. CASE op'[c].req > lastReq /\ Passed(c)' = {}
      <3>1. Cardinality(Passed(c)') = 0
        BY <2>2, FS_EmptySet
      <3>2. op'[c].req \in ReqIds
        <4>1. \A r \in 1..lastReq' : r \in ReqIds
          BY NumberBound DEF Types, NumberInv
        <4> QED
          BY <4>1 DEF Reading, NumberInv
      <3>3. reqMap[op'[c].req] = None
        BY <1>1, <2>2, <3>2 DEF CounterInv, ReqIds
      <3> QED
        BY <2>2, <3>1, <3>3, ConstantFacts
    <2>3. CASE op'[c] = op[c] /\ Passed(c)' \subseteq Passed(c)
      <3>1. Reading(c) /\ op[c].req \in 1..lastReq /\ op[c].req \in ReqIds
        BY <2>3, NumberFacts DEF Reading, NumberInv
      <3>2. Cardinality(Passed(c)') <= Cardinality(Passed(c))
        BY <2>1, <2>3, ShardFacts
      <3>3. Cardinality(Passed(c)') \in Nat /\ Cardinality(Passed(c)) \in Nat
        BY <2>1, ShardFacts
      <3>4. reqMap[op[c].req] # None => reqMap[op[c].req] \in Nat
        BY <3>1, ShardFacts DEF CounterInv
      <3>5. Pending(op[c].req) = {} => Pending(op[c].req)' = {}
        BY <1>2, <2>3, <3>1
      <3>6. /\ Cardinality(Passed(c)) <= DataShards
            /\ reqMap[op[c].req] # None => Cardinality(Passed(c)) <= reqMap[op[c].req]
            /\ reqMap[op[c].req] = None => Passed(c) = {} \/ Pending(op[c].req) = {}
        BY <3>1 DEF PassedInv
      <3>7. Cardinality(Passed(c)') <= DataShards
        BY <3>2, <3>3, <3>6, ConstantFacts
      <3>8. reqMap[op[c].req] # None => Cardinality(Passed(c)') <= reqMap[op[c].req]
        BY <3>2, <3>3, <3>4, <3>6
      <3> QED
        BY <2>3, <3>5, <3>6, <3>7, <3>8
    <2> QED
      BY <2>2, <2>3
  <1> QED
    BY <1>3, <1>4, <1>5, <1>6

\* A counter for a shard that has answered: it is deleted only when no shard is pending, and
\* a chunk is passed on only while it is below DataShards.
LEMMA CountKept ==
    ASSUME Types, Types', RequestInv, CInv, NEW i \in Shards, NEW m \in calls[i],
           reqMap[m.req] # None, Count(m.req),
           \A j \in Shards : calls'[j] = IF j = i THEN calls[j] \ {m} ELSE calls[j],
           UNCHANGED <<op, stage, ret, lastReq>>, NEW body,
           \A c \in Clients, j \in Shards :
                \/ stream'[c][j] = stream[c][j]
                \/ /\ j = i /\ c = m.client /\ m.live
                   /\ Head(stream'[c][j]) = [req |-> m.req, body |-> body],
           body \in Chunks => ~Enough(m.req)
    PROVE  OnceInv' /\ CounterInv' /\ CounterFound' /\ PassedInv'
  <1> USE DEF CInv
  <1> DEFINE r == m.req
             k == reqMap[r]
             N == Cardinality(Shards)
  <1>1. r \in ReqIds /\ r <= lastReq /\ k \in Nat /\ N \in Nat /\ DataShards \in Nat
    <2>1. r \in ReqIds
      BY NumberFacts
    <2> QED
      BY <2>1, ShardFacts, ConstantFacts DEF CounterInv
  <1>2. reqMap'[r] = IF k + 1 > DataShards /\ k + 1 = N THEN None ELSE k + 1
    <2>1. DataShards + Parity = N
      BY <1>1 DEF Parity
    <2> QED
      BY <1>1, <2>1 DEF Count, CounterInv
  <1>3. \A q \in ReqIds : q # r => reqMap'[q] = reqMap[q]
    BY DEF Count, CounterInv
  <1>4. \A j \in Shards : calls'[j] \subseteq calls[j]
    OBVIOUS
  <1>5. \A q : Pending(q)' \subseteq Pending(q)
    BY <1>4 DEF Pending
  <1>6. i \in Pending(r) /\ i \notin Pending(r)'
    <2>1. i \in Pending(r)
      BY DEF Pending
    <2>2. ASSUME NEW n \in calls'[i] PROVE n.req # r
      BY <2>2 DEF OnceInv, Once
    <2>3. ASSUME NEW c \in Clients, op[c] # None, op[c].req = r PROVE stage[c][i] # "start"
      BY <2>3 DEF OnceInv, Once
    <2> QED
      BY <2>1, <2>2, <2>3 DEF Pending
  <1>7. /\ Cardinality(Pending(r)') \in Nat /\ k + 1 + Cardinality(Pending(r)') <= N
    <2>1. Pending(r) \in SUBSET Shards /\ Pending(r)' \in SUBSET Shards
      BY DEF Pending
    <2>2. Pending(r)' \subseteq Pending(r) \ {i}
      BY <1>5, <1>6
    <2>3. Cardinality(Pending(r) \ {i}) = Cardinality(Pending(r)) - 1
      BY <1>6, <2>1, ShardCount
    <2>4. Cardinality(Pending(r)') <= Cardinality(Pending(r) \ {i})
      BY <2>1, <2>2, ShardFacts
    <2>5. /\ Cardinality(Pending(r)') \in Nat /\ Cardinality(Pending(r)) \in Nat
          /\ Cardinality(Pending(r) \ {i}) \in Nat
      BY <2>1, ShardFacts
    <2>6. k + Cardinality(Pending(r)) <= N
      BY <1>1 DEF CounterInv
    <2> QED
      BY <1>1, <2>3, <2>4, <2>5, <2>6
  <1>8. reqMap'[r] = None => Pending(r)' = {}
    <2>1. k + 1 \in Nat /\ None \notin Nat
      BY <1>1, ClientAssumption
    <2>2. reqMap'[r] = None => k + 1 = N
      BY <1>2, <2>1
    <2>3. reqMap'[r] = None => Cardinality(Pending(r)') = 0
      BY <1>1, <1>7, <2>2
    <2>4. Pending(r)' \in SUBSET Shards
      BY DEF Pending
    <2> QED
      BY <2>3, <2>4, ShardFacts
  <1>9. reqMap' \in [ReqIds -> {None} \cup 0..N]
    <2>1. k + 1 \in 0..N
      BY <1>1, <1>7
    <2>2. reqMap'[r] \in {None} \cup 0..N
      BY <1>2, <2>1
    <2>3. reqMap' = [reqMap EXCEPT ![r] = reqMap'[r]]
      BY <1>1 DEF Count, CounterInv
    <2> QED
      BY <1>1, <2>2, <2>3 DEF CounterInv
  <1> HIDE DEF N
  <1>10. OnceInv'
    BY <1>4 DEF OnceInv, Once
  <1>11. CounterInv'
    <2> SUFFICES ASSUME NEW q \in ReqIds, reqMap'[q] # None
                 PROVE  q <= lastReq /\ reqMap'[q] + Cardinality(Pending(q)') <= N
      BY <1>9 DEF CounterInv, N
    <2>1. CASE q = r
      BY <1>1, <1>2, <1>7, <2>1
    <2>2. CASE q # r
      <3>1. reqMap'[q] = reqMap[q] /\ reqMap[q] \in Nat
        BY <1>3, <2>2, ShardFacts DEF CounterInv
      <3>2. q <= lastReq /\ reqMap[q] + Cardinality(Pending(q)) <= N
        BY <3>1 DEF CounterInv, N
      <3>3. /\ Cardinality(Pending(q)') <= Cardinality(Pending(q))
            /\ Cardinality(Pending(q)') \in Nat /\ Cardinality(Pending(q)) \in Nat
        <4>1. Pending(q)' \in SUBSET Shards /\ Pending(q) \in SUBSET Shards
          BY DEF Pending
        <4> QED
          BY <1>5, <4>1, ShardFacts
      <3> QED
        BY <1>1, <3>1, <3>2, <3>3
    <2> QED
      BY <2>1, <2>2
  <1>12. CounterFound'
    <2> SUFFICES ASSUME NEW j \in Shards, NEW n \in calls'[j], n.at = "lambda", n.write = None
                 PROVE  reqMap'[n.req] # None
      BY DEF CounterFound
    <2>1. n \in calls[j] /\ n.req \in ReqIds /\ reqMap[n.req] # None
      BY <1>4, NumberFacts DEF CounterFound
    <2>2. n.req = r => Pending(r)' # {}
      BY DEF Pending
    <2> QED
      BY <1>3, <1>8, <2>1, <2>2
  <1>13. PassedInv'
    <2> SUFFICES ASSUME NEW c \in Clients, Reading(c)
                 PROVE  /\ Cardinality(Passed(c)') <= DataShards
                        /\ reqMap'[op[c].req] # None => Cardinality(Passed(c)') <= reqMap'[op[c].req]
                        /\ reqMap'[op[c].req] = None => Passed(c)' = {} \/ Pending(op[c].req)' = {}
      BY DEF PassedInv, Reading
    <2>1. op[c].req \in ReqIds /\ Passed(c) \in SUBSET Shards /\ Passed(c)' \in SUBSET Shards
      BY NumberFacts DEF Reading, Passed
    <2>2. /\ Cardinality(Passed(c)) <= DataShards
          /\ reqMap[op[c].req] # None => Cardinality(Passed(c)) <= reqMap[op[c].req]
          /\ reqMap[op[c].req] = None => Passed(c) = {} \/ Pending(op[c].req) = {}
      BY DEF PassedInv
    <2>3. Cardinality(Passed(c)) \in Nat /\ Cardinality(Passed(c)') \in Nat
      BY <2>1, ShardFacts
    <2>4. ASSUME NEW j \in Shards, j \in Passed(c)', j \notin Passed(c)
          PROVE  j = i /\ c = m.client /\ m.live /\ body \in Chunks
      <3>1. ret[c][j] \notin Chunks /\ stream'[c][j] # stream[c][j] /\ Head(stream'[c][j]).body \in Chunks
        BY <2>4 DEF Passed
      <3>2. j = i /\ c = m.client /\ m.live /\ Head(stream'[c][j]) = [req |-> m.req, body |-> body]
        BY <3>1
      <3> QED
        BY <3>1, <3>2
    <2>5. CASE op[c].req # r
      <3>1. Passed(c)' \subseteq Passed(c)
        <4>1. m.live /\ c = m.client => m.req = op[c].req
          BY DEF RequestInv, Tracked
        <4> QED
          BY <2>1, <2>4, <2>5, <4>1
      <3>2. Cardinality(Passed(c)') <= Cardinality(Passed(c))
        BY <2>1, <3>1, ShardFacts
      <3>3. reqMap'[op[c].req] = reqMap[op[c].req]
        BY <1>3, <2>1, <2>5
      <3>4. reqMap[op[c].req] # None => reqMap[op[c].req] \in Nat
        BY <2>1, ShardFacts DEF CounterInv
      <3>5. Pending(op[c].req) = {} => Pending(op[c].req)' = {}
        BY <1>5
      <3>6. Cardinality(Passed(c)') <= DataShards
        BY <1>1, <2>2, <2>3, <3>2
      <3>7. reqMap[op[c].req] # None => Cardinality(Passed(c)') <= reqMap[op[c].req]
        BY <2>2, <2>3, <3>2, <3>4
      <3> QED
        BY <2>2, <3>1, <3>3, <3>5, <3>6, <3>7
    <2>6. CASE op[c].req = r
      <3>1. Cardinality(Passed(c)) <= DataShards /\ Cardinality(Passed(c)) <= k
        BY <2>2, <2>6
      <3>2. /\ Cardinality(Passed(c)') <= DataShards /\ Cardinality(Passed(c)') <= k + 1
        <4>1. CASE body \in Chunks
          <5>1. k < DataShards
            BY <1>1, <4>1 DEF Enough
          <5>2. Cardinality(Passed(c)') <= Cardinality(Passed(c) \cup {i})
            BY <2>1, <2>4, ShardFacts
          <5>3. Cardinality(Passed(c) \cup {i}) <= Cardinality(Passed(c)) + 1
            BY <2>1, ShardCount
          <5>4. Cardinality(Passed(c) \cup {i}) \in Nat
            BY <2>1, ShardFacts
          <5> QED
            BY <1>1, <2>3, <3>1, <5>1, <5>2, <5>3, <5>4
        <4>2. CASE body \notin Chunks
          <5>1. Cardinality(Passed(c)') <= Cardinality(Passed(c))
            BY <2>1, <2>4, <4>2, ShardFacts
          <5> QED
            BY <1>1, <2>3, <3>1, <5>1
        <4> QED
          BY <4>1, <4>2
      <3>3. reqMap'[r] # None => reqMap'[r] = k + 1
        BY <1>2
      <3> QED
        BY <1>8, <2>6, <3>2, <3>3
    <2> QED
      BY <2>5, <2>6
  <1> QED
    BY <1>10, <1>11, <1>12, <1>13

\* HandleGet makes the counter of a request of which no chunk was passed on yet.
LEMMA HandleKept ==
    ASSUME Types, Types', CInv, NEW i \in Shards, NEW m \in calls[i], Handle(i, m)
    PROVE  OnceInv' /\ CounterInv' /\ CounterFound' /\ PassedInv'
  <1> USE DEF CInv
  <1> DEFINE r == m.req
             new == [m EXCEPT !.at = "lambda"]
  <1>1. r \in ReqIds /\ r \in 1..lastReq /\ lastReq \in Nat
    BY NumberFacts DEF NumberInv, Types
  <1>2. new.req = r
    BY DEF Types, Call
  <1>3. UNCHANGED <<op, stage, ret, stream, lastReq>>
    BY DEF Handle, clientVars, connVars, counters
  <1>4. \A j \in Shards : calls'[j] = IF j = i THEN (calls[j] \ {m}) \cup {new} ELSE calls[j]
    BY DEF Handle, Types
  <1>5. /\ reqMap' = [reqMap EXCEPT ![r] = IF @ = None THEN 0 ELSE @]
    BY DEF Handle
  <1>6. /\ reqMap'[r] = IF reqMap[r] = None THEN 0 ELSE reqMap[r]
        /\ \A q \in ReqIds : q # r => reqMap'[q] = reqMap[q]
    BY <1>1, <1>5 DEF CounterInv
  <1>7. reqMap' \in [ReqIds -> {None} \cup 0..Cardinality(Shards)]
    BY <1>1, <1>5, ShardFacts DEF CounterInv
  <1> HIDE DEF new
  <1>8. \A q : Pending(q)' \subseteq Pending(q)
    BY <1>2, <1>3, <1>4 DEF Pending
  <1>9. OnceInv'
    <2> SUFFICES ASSUME NEW j \in Shards PROVE Once(j)'
      BY DEF OnceInv
    <2>1. CASE j = i
      <3>1. \A n \in calls'[i] : n = new \/ (n \in calls[i] /\ n # m)
        <4>1. calls'[i] = (calls[i] \ {m}) \cup {new}
          BY <1>4
        <4> QED
          BY <4>1
      <3>2. ASSUME NEW n \in calls'[i], NEW o \in calls'[i], o.req = n.req PROVE o = n
        BY <1>2, <3>1, <3>2 DEF OnceInv, Once
      <3>3. ASSUME NEW n \in calls'[i], NEW c \in Clients, op[c] # None, op[c].req = n.req
            PROVE  stage[c][i] # "start"
        BY <1>2, <3>1, <3>3 DEF OnceInv, Once
      <3> QED
        BY <1>3, <2>1, <3>2, <3>3 DEF Once
    <2>2. CASE j # i
      BY <1>3, <1>4, <2>2 DEF OnceInv, Once
    <2> QED
      BY <2>1, <2>2
  <1>10. CounterInv'
    <2> SUFFICES ASSUME NEW q \in ReqIds, reqMap'[q] # None
                 PROVE  q <= lastReq /\ reqMap'[q] + Cardinality(Pending(q)') <= Cardinality(Shards)
      BY <1>3, <1>7 DEF CounterInv
    <2>1. /\ Cardinality(Pending(q)') <= Cardinality(Pending(q))
          /\ Cardinality(Pending(q)') \in 0..Cardinality(Shards) /\ Cardinality(Pending(q)) \in Nat
      <3>1. Pending(q)' \in SUBSET Shards /\ Pending(q) \in SUBSET Shards
        BY DEF Pending
      <3> QED
        BY <1>8, <3>1, ShardFacts
    <2>2. CASE reqMap[q] # None
      <3>1. /\ reqMap'[q] = reqMap[q] /\ reqMap[q] \in Nat /\ q <= lastReq
            /\ reqMap[q] + Cardinality(Pending(q)) <= Cardinality(Shards)
        BY <1>6, <2>2, ShardFacts DEF CounterInv
      <3> QED
        BY <2>1, <3>1, ShardFacts
    <2>3. CASE reqMap[q] = None
      <3>1. q = r /\ reqMap'[q] = 0
        BY <1>6, <2>3
      <3> QED
        BY <1>1, <2>1, <3>1, ShardFacts
    <2> QED
      BY <2>2, <2>3
  <1>11. CounterFound'
    <2>1. \A q \in ReqIds : reqMap[q] # None \/ q = r => reqMap'[q] # None
      BY <1>6, ClientAssumption
    <2> SUFFICES ASSUME NEW j \in Shards, NEW n \in calls'[j], n.at = "lambda", n.write = None
                 PROVE  reqMap'[n.req] # None
      BY DEF CounterFound
    <2>2. n \in calls[j] \/ n = new
      BY <1>4
    <2>3. n \in calls[j] => n.req \in ReqIds /\ reqMap[n.req] # None
      BY NumberFacts DEF CounterFound
    <2> QED
      BY <1>1, <1>2, <2>1, <2>2, <2>3
  <1>12. PassedInv'
    <2> SUFFICES ASSUME NEW c \in Clients, Reading(c)
                 PROVE  /\ Cardinality(Passed(c)) <= DataShards
                        /\ reqMap'[op[c].req] # None => Cardinality(Passed(c)) <= reqMap'[op[c].req]
                        /\ reqMap'[op[c].req] = None => Passed(c) = {} \/ Pending(op[c].req)' = {}
      BY <1>3 DEF PassedInv, Reading, Passed
    <2>1. /\ Cardinality(Passed(c)) <= DataShards
          /\ reqMap[op[c].req] # None => Cardinality(Passed(c)) <= reqMap[op[c].req]
          /\ reqMap[op[c].req] = None => Passed(c) = {} \/ Pending(op[c].req) = {}
      BY DEF PassedInv
    <2>2. op[c].req \in ReqIds
      BY NumberFacts DEF Reading
    <2>3. CASE reqMap[op[c].req] = None /\ op[c].req = r
      <3>1. i \in Pending(r)
        BY DEF Pending
      <3>2. Cardinality(Passed(c)) = 0
        BY <2>1, <2>3, <3>1, FS_EmptySet
      <3>3. reqMap'[op[c].req] = 0 /\ None # 0
        BY <1>6, <2>3, ClientAssumption
      <3> QED
        BY <2>1, <3>2, <3>3
    <2>4. CASE ~(reqMap[op[c].req] = None /\ op[c].req = r)
      <3>1. reqMap'[op[c].req] = reqMap[op[c].req]
        BY <1>6, <2>2, <2>4
      <3>2. Pending(op[c].req) = {} => Pending(op[c].req)' = {}
        BY <1>3, <1>8
      <3> QED
        BY <2>1, <3>1, <3>2
    <2> QED
      BY <2>3, <2>4
  <1> QED
    BY <1>9, <1>10, <1>11, <1>12

\* A goroutine sends its request: the shard stays pending.
LEMMA SendKept ==
    ASSUME Types, Types', CInv, NEW c \in Clients, NEW i \in Shards, Send(c, i)
    PROVE  OnceInv' /\ CounterInv' /\ CounterFound' /\ PassedInv'
  <1> USE DEF CInv
  <1> DEFINE at == IF op[c].write = None THEN "proxy" ELSE "lambda"
             new == [client |-> c, req |-> op[c].req, write |-> op[c].write, at |-> at, live |-> TRUE]
  <1>1. op[c] # None /\ stage[c][i] = "start"
    BY DEF Send, Working
  <1>2. UNCHANGED <<op, ret, stream, reqMap, lastReq>>
    BY DEF Send, counters
  <1>3. \A j \in Shards : calls'[j] = IF j = i THEN calls[j] \cup {new} ELSE calls[j]
    BY DEF Send, Types
  <1>4. \A b \in Clients, j \in Shards : stage'[b][j] = IF b = c /\ j = i THEN "sent" ELSE stage[b][j]
    BY DEF Send, Types
  <1>5. new.req = op[c].req /\ (new.at = "lambda" => new.write # None)
    BY DEF at
  <1> HIDE DEF new
  <1>6. \A q : Pending(q)' \subseteq Pending(q)
    <2> SUFFICES ASSUME NEW q, NEW j \in Shards, j \in Pending(q)' PROVE j \in Pending(q)
      BY DEF Pending
    <2>1. CASE \E m \in calls'[j] : m.req = q
      <3>1. PICK m \in calls'[j] : m.req = q
        BY <2>1
      <3>2. m \in calls[j] \/ (j = i /\ q = op[c].req)
        BY <1>3, <1>5, <3>1
      <3> QED
        BY <1>1, <3>1, <3>2 DEF Pending
    <2>2. CASE \E b \in Clients : op'[b] # None /\ op'[b].req = q /\ stage'[b][j] = "start"
      BY <1>2, <1>4, <2>2 DEF Pending
    <2> QED
      BY <2>1, <2>2 DEF Pending
  <1>7. OnceInv'
    <2> SUFFICES ASSUME NEW j \in Shards PROVE Once(j)'
      BY DEF OnceInv
    <2>1. CASE j = i
      <3>1. \A n \in calls'[i] : n = new \/ n \in calls[i]
        <4>1. calls'[i] = calls[i] \cup {new}
          BY <1>3
        <4> QED
          BY <4>1
      <3>2. \A n \in calls[i] : n.req # op[c].req
        BY <1>1 DEF OnceInv, Once
      <3>3. ASSUME NEW n \in calls'[i], NEW o \in calls'[i], o.req = n.req PROVE o = n
        BY <1>5, <3>1, <3>2, <3>3 DEF OnceInv, Once
      <3>4. ASSUME NEW n \in calls'[i], NEW b \in Clients, op[b] # None, op[b].req = n.req
            PROVE  stage'[b][i] # "start"
        <4>1. CASE n \in calls[i]
          BY <1>4, <3>4, <4>1 DEF OnceInv, Once
        <4>2. CASE n = new
          <5>1. b = c
            BY <1>1, <1>5, <3>4, <4>2 DEF NumberInv
          <5> QED
            BY <1>4, <5>1
        <4> QED
          BY <3>1, <4>1, <4>2
      <3> QED
        BY <1>2, <2>1, <3>3, <3>4 DEF Once
    <2>2. CASE j # i
      <3>1. calls'[j] = calls[j] /\ \A b \in Clients : stage'[b][j] = stage[b][j]
        BY <1>3, <1>4, <2>2
      <3> QED
        BY <1>2, <3>1 DEF OnceInv, Once
    <2> QED
      BY <2>1, <2>2
  <1>8. CounterInv'
    <2> SUFFICES ASSUME NEW q \in ReqIds, reqMap[q] # None
                 PROVE  reqMap[q] + Cardinality(Pending(q)') <= Cardinality(Shards)
      BY <1>2 DEF CounterInv
    <2>1. reqMap[q] \in Nat /\ reqMap[q] + Cardinality(Pending(q)) <= Cardinality(Shards)
      BY ShardFacts DEF CounterInv
    <2>2. /\ Cardinality(Pending(q)') <= Cardinality(Pending(q))
          /\ Cardinality(Pending(q)') \in Nat /\ Cardinality(Pending(q)) \in Nat
      <3>1. Pending(q)' \in SUBSET Shards /\ Pending(q) \in SUBSET Shards
        BY DEF Pending
      <3> QED
        BY <1>6, <3>1, ShardFacts
    <2> QED
      BY <2>1, <2>2, ShardFacts
  <1>9. CounterFound'
    <2> SUFFICES ASSUME NEW j \in Shards, NEW n \in calls'[j], n.at = "lambda", n.write = None
                 PROVE  reqMap[n.req] # None
      BY <1>2 DEF CounterFound
    <2>1. n \in calls[j]
      BY <1>3, <1>5
    <2> QED
      BY <2>1 DEF CounterFound
  <1>10. PassedInv'
    <2> SUFFICES ASSUME NEW b \in Clients, Reading(b)
                 PROVE  /\ Cardinality(Passed(b)) <= DataShards
                        /\ reqMap[op[b].req] # None => Cardinality(Passed(b)) <= reqMap[op[b].req]
                        /\ reqMap[op[b].req] = None => Passed(b) = {} \/ Pending(op[b].req)' = {}
      BY <1>2 DEF PassedInv, Reading, Passed
    <2>1. Pending(op[b].req) = {} => Pending(op[b].req)' = {}
      BY <1>2, <1>6
    <2> QED
      BY <2>1 DEF PassedInv
  <1> QED
    BY <1>7, <1>8, <1>9, <1>10

\* The operations of the clients do not change.
LEMMA NumberKept ==
    ASSUME Types, NumberInv, UNCHANGED <<op, lastReq, ops>>,
           \A i \in Shards : \A m \in calls'[i] : m.req \in 1..lastReq
    PROVE  NumberInv'
  <1>1. Readers' = Readers
    BY DEF Readers, Reading
  <1> QED
    BY <1>1 DEF NumberInv

\* An operation begins: its request has a new id.
LEMMA BeginKept ==
    ASSUME Types, Types', RequestInv, CInv, NEW c \in Clients, Waited(c),
           NEW kind \in {"set", "get", "recover"}, NEW write \in Written, NEW shards \in SUBSET Shards,
           Begin(c, kind, write, shards), UNCHANGED <<connVars, proxyVars>>,
           ops' \in 0..MaxOps, IsFiniteSet(Readers'),
           lastReq + 1 + Cardinality(Readers') <= 2 * ops'
    PROVE  NumberInv' /\ OnceInv' /\ CounterInv' /\ CounterFound' /\ PassedInv'
  <1> USE DEF CInv
  <1>1. lastReq \in Nat /\ lastReq' = lastReq + 1
    BY DEF Types, Begin
  <1>2. op'[c].req = lastReq + 1 /\ \A b \in Clients : b # c => op'[b] = op[b]
    BY DEF Begin, Types
  <1>3. /\ \A b \in Clients, i \in Shards : b # c => stage'[b][i] = stage[b][i] /\ ret'[b][i] = ret[b][i]
        /\ \A i \in Shards : ret'[c][i] = None
    BY DEF Begin, Types
  <1>4. UNCHANGED <<stream, calls, reqMap>>
    BY DEF connVars, proxyVars
  <1>5. NumberInv'
    <2>1. \A b \in Clients : op[b] # None => op[b].req \in 1..lastReq
      BY DEF NumberInv
    <2>2. \A b \in Clients : op'[b] # None => op'[b].req \in 1..lastReq'
      BY <1>1, <1>2, <2>1
    <2>3. ASSUME NEW a \in Clients, NEW b \in Clients, op'[a] # None, op'[b] # None, op'[a].req = op'[b].req
          PROVE  a = b
      BY <1>1, <1>2, <2>1, <2>3 DEF NumberInv
    <2>4. \A i \in Shards : \A m \in calls'[i] : m.req \in 1..lastReq'
      BY <1>1, <1>4 DEF NumberInv
    <2> QED
      BY <1>1, <2>2, <2>3, <2>4 DEF NumberInv
  <1>6. Passed(c)' = {}
    <2>1. \A i \in Shards : stream[c][i] = <<>>
      BY DEF RequestInv, Tracked, Waited
    <2> QED
      BY <1>3, <1>4, <2>1, ConstantFacts DEF Passed
  <1>7. ASSUME NEW b \in Clients, b # c
        PROVE  Passed(b)' = Passed(b)
    BY <1>3, <1>4, <1>7 DEF Passed
  <1>8. op'[c] # op[c] \/ op[c] = None
    BY <1>1, <1>2 DEF NumberInv
  <1>9. lastReq' >= lastReq /\ op'[c].req > lastReq
    BY <1>1, <1>2
  <1>10. /\ \A b \in Clients : op'[b] # None => op'[b] = op[b] \/ op'[b].req > lastReq
         /\ \A b \in Clients, i \in Shards :
                op'[b] # None /\ op'[b] = op[b] /\ stage'[b][i] = "start" => stage[b][i] = "start"
         /\ \A b \in Clients : Reading(b)' =>
                \/ op'[b] = op[b] /\ Passed(b)' \subseteq Passed(b)
                \/ op'[b].req > lastReq /\ Passed(b)' = {}
    BY <1>2, <1>3, <1>6, <1>7, <1>8, <1>9
  <1>11. /\ \A i \in Shards : \A m \in calls'[i] :
                \E n \in calls[i] : n.req = m.req /\ n.at = m.at /\ n.write = m.write
         /\ \A i \in Shards : \A m, n \in calls'[i] : m.req = n.req => m = n
    BY <1>4 DEF OnceInv, Once
  <1>12. OnceInv' /\ CounterInv' /\ CounterFound' /\ PassedInv'
    BY <1>4, <1>5, <1>9, <1>10, <1>11, Kept
  <1> QED
    BY <1>5, <1>12

\* An operation returns: nothing of it is left but its requests.
LEMMA DiscardKept ==
    ASSUME Types, Types', CInv, NEW c \in Clients, op[c] # None, Discard(c),
           UNCHANGED <<stage, connVars, proxyVars, lastReq, ops>>
    PROVE  NumberInv' /\ OnceInv' /\ CounterInv' /\ CounterFound' /\ PassedInv'
  <1> USE DEF CInv
  <1>1. op'[c] = None /\ \A b \in Clients : b # c => op'[b] = op[b]
    BY DEF Discard, Types
  <1>2. \A b \in Clients : b # c => ret'[b] = ret[b]
    BY DEF Discard, Types
  <1>3. UNCHANGED <<stage, stream, calls, reqMap, lastReq, ops>>
    BY DEF connVars, proxyVars
  <1>4. lastReq \in Nat /\ ops \in Nat
    BY DEF Types
  <1>5. IsFiniteSet(Readers') /\ lastReq + Cardinality(Readers') <= 2 * ops
    <2>1. Readers' \subseteq Readers
      BY <1>1 DEF Readers, Reading
    <2>2. /\ IsFiniteSet(Readers') /\ Cardinality(Readers') <= Cardinality(Readers)
          /\ Cardinality(Readers') \in Nat /\ Cardinality(Readers) \in Nat
      BY <2>1, FS_Subset, FS_CardinalityType DEF NumberInv
    <2> QED
      BY <1>4, <2>2 DEF NumberInv
  <1>6. NumberInv'
    BY <1>1, <1>3, <1>5 DEF NumberInv
  <1>7. \A b \in Clients : b # c => Passed(b)' = Passed(b)
    BY <1>2, <1>3 DEF Passed
  <1>8. \A b \in Clients : Reading(b)' => op'[b] = op[b] /\ Passed(b)' \subseteq Passed(b)
    BY <1>1, <1>7 DEF Reading
  <1>9. /\ \A i \in Shards : \A m \in calls'[i] :
                \E n \in calls[i] : n.req = m.req /\ n.at = m.at /\ n.write = m.write
        /\ \A i \in Shards : \A m, n \in calls'[i] : m.req = n.req => m = n
    BY <1>3 DEF OnceInv, Once
  <1>10. lastReq' >= lastReq
    BY <1>3, <1>4
  <1>11. OnceInv' /\ CounterInv' /\ CounterFound' /\ PassedInv'
    BY <1>1, <1>3, <1>6, <1>8, <1>9, <1>10, Kept
  <1> QED
    BY <1>6, <1>11

\* A step that changes no operation, sends no request and passes no chunk on.
LEMMA QuietKept ==
    ASSUME Types, Types', CInv, UNCHANGED <<op, reqMap, lastReq, ops>>,
           \A i \in Shards : \A m \in calls'[i] :
                \E n \in calls[i] : n.req = m.req /\ n.at = m.at /\ n.write = m.write,
           \A i \in Shards : \A m, n \in calls'[i] : m.req = n.req => m = n,
           \A c \in Clients, i \in Shards : stage'[c][i] = "start" => stage[c][i] = "start",
           \A c \in Clients : Reading(c) => Passed(c)' \subseteq Passed(c)
    PROVE  NumberInv' /\ OnceInv' /\ CounterInv' /\ CounterFound' /\ PassedInv'
  <1> USE DEF CInv
  <1>1. ASSUME NEW i \in Shards, NEW m \in calls'[i] PROVE m.req \in 1..lastReq
    <2>1. PICK n \in calls[i] : n.req = m.req
      OBVIOUS
    <2> QED
      BY <2>1 DEF NumberInv
  <1>2. NumberInv'
    BY <1>1, NumberKept
  <1>3. lastReq' >= lastReq
    BY DEF Types
  <1>4. \A c \in Clients : Reading(c)' => op'[c] = op[c] /\ Passed(c)' \subseteq Passed(c)
    BY DEF Reading
  <1>5. OnceInv' /\ CounterInv' /\ CounterFound' /\ PassedInv'
    BY <1>2, <1>3, <1>4, Kept
  <1> QED
    BY <1>2, <1>5

\* What decode has to compare: too many chunks are never passed on.
LEMMA EnoughAtMost ==
    ASSUME PassedInv, NEW c \in Clients, Reading(c)
    PROVE  Cardinality(Got(c)) <= DataShards
  <1>1. /\ Cardinality(Got(c)) <= Cardinality(Passed(c)) /\ Cardinality(Passed(c)) <= DataShards
        /\ Cardinality(Got(c)) \in Nat /\ Cardinality(Passed(c)) \in Nat
    BY PendingFacts, ShardFacts DEF PassedInv
  <1> QED
    BY <1>1, ConstantFacts

\* Therefore it never returns nil.
LEMMA DecodeNotNil ==
    ASSUME Types, PassedInv, NEW c \in Clients, Reading(c)
    PROVE  Decode(c) \in Chunks \cup {"error"} /\ "nil" \notin Chunks
  <1>1. Cardinality(Got(c)) <= DataShards /\ Cardinality(Got(c)) \in Nat /\ DataShards \in Nat
    BY EnoughAtMost, PendingFacts, ShardFacts, ConstantFacts
  <1>2. Reconstructs(c) => Verifies(c)
    BY <1>1 DEF Reconstructs, Verifies
  <1>3. Object(c) \in Chunks
    <2>1. Read(c) \subseteq Chunks
      BY DEF Read, Got
    <2>2. Cardinality(Read(c)) = 1 => Read(c) # {}
      BY FS_EmptySet
    <2> QED
      BY <2>1, <2>2 DEF Object, Chunks
  <1> QED
    BY <1>2, <1>3, ConstantFacts DEF Decode

\* In the beginning nothing is counted.
LEMMA InitCount == Init => CInv
  <1> SUFFICES ASSUME Init PROVE CInv
    OBVIOUS
  <1>1. \A c \in Clients : op[c] = None
    BY DEF Init
  <1>2. \A i \in Shards : calls[i] = {}
    BY DEF Init
  <1>3. NumberInv
    <2>1. Readers = {}
      BY <1>1 DEF Readers, Reading
    <2>2. IsFiniteSet(Readers) /\ Cardinality(Readers) = 0
      BY <2>1, FS_EmptySet
    <2>3. ops = 0 /\ lastReq = 0 /\ MaxOps \in Nat
      BY ClientAssumption DEF Init
    <2> QED
      BY <1>1, <1>2, <2>2, <2>3 DEF NumberInv
  <1>4. OnceInv /\ CounterFound
    BY <1>2 DEF OnceInv, Once, CounterFound
  <1>5. CounterInv
    BY DEF Init, CounterInv
  <1>6. PassedInv
    BY <1>1 DEF PassedInv, Reading
  <1>7. ValueInv
    <2>1. \A c \in Clients, i \in Shards : stream[c][i] = <<>>
      BY DEF Init
    <2>2. /\ ret \in [Clients -> [Shards -> Chunks \cup {None, "error", "stored"}]]
          /\ conns \in [Clients -> [Shards -> {"open", None, "dead"}]]
          /\ chunk \in [Shards -> Chunks \cup {None}]
          /\ result \in Chunks \cup {None, "ok", "error", "nil"}
      BY DEF Init
    <2> QED
      BY <1>1, <1>2, <2>1, <2>2 DEF ValueInv
  <1> QED
    BY <1>3, <1>4, <1>5, <1>6, <1>7 DEF CInv

\* The values an operation begins with.
LEMMA BeginValues ==
    ASSUME Types, ValueInv, NEW c \in Clients, NEW kind, NEW write, write # "nil", NEW shards,
           Begin(c, kind, write, shards), UNCHANGED <<connVars, proxyVars>>,
           result' \in Chunks \cup {None, "ok", "error", "nil"}
    PROVE  ValueInv'
  <1>1. op'[c].write = write /\ \A b \in Clients : b # c => op'[b] = op[b]
    BY DEF Begin, Types
  <1>2. ret' \in [Clients -> [Shards -> Chunks \cup {None, "error", "stored"}]]
    BY DEF Begin, ValueInv
  <1>3. UNCHANGED <<conns, stream, calls, chunk>>
    BY DEF connVars, proxyVars
  <1> QED
    BY <1>1, <1>2, <1>3 DEF ValueInv

\* EcSet and EcGet.
LEMMA BeginCount ==
    ASSUME IInv, IInv', CInv, NEW c \in Clients, EcSet(c) \/ EcGet(c)
    PROVE  CInv'
  <1> USE DEF IInv, CInv
  <1>1. op[c] = None /\ ops \in 0..MaxOps /\ ops < MaxOps /\ ops' = ops + 1 /\ MaxOps \in Nat
    BY ClientAssumption DEF EcSet, EcGet, NumberInv
  <1>2. Waited(c)
    BY <1>1 DEF RequestInv, AtRest, Waited
  <1>3. UNCHANGED <<connVars, proxyVars>> /\ result' = None
    BY DEF EcSet, EcGet
  <1>4. lastReq \in Nat /\ lastReq + Cardinality(Readers) <= 2 * ops /\ IsFiniteSet(Readers)
        /\ Cardinality(Readers) \in Nat
    BY FS_CardinalityType DEF Types, NumberInv
  <1>5. c \notin Readers
    BY <1>1 DEF Readers, Reading
  <1>6. ops' \in 0..MaxOps
    BY <1>1
  <1>7. CASE EcSet(c)
    <2>1. Begin(c, "set", NewValue, Shards) /\ NewValue \in Values
      BY <1>7, NewValueType DEF EcSet
    <2>2. NewValue \in Written /\ NewValue # "nil"
      BY <2>1, ConstantFacts DEF Written
    <2>3. Readers' = Readers
      <3>1. op'[c].kind = "set" /\ \A b \in Clients : b # c => op'[b] = op[b]
        BY <2>1 DEF Begin, Types
      <3> QED
        BY <1>5, <3>1 DEF Readers, Reading
    <2>4. IsFiniteSet(Readers') /\ lastReq + 1 + Cardinality(Readers') <= 2 * ops'
      BY <1>1, <1>4, <2>3
    <2>5. NumberInv' /\ OnceInv' /\ CounterInv' /\ CounterFound' /\ PassedInv'
      BY <1>2, <1>3, <1>6, <2>1, <2>2, <2>4, BeginKept
    <2>6. ValueInv'
      BY <1>3, <2>1, <2>2, BeginValues
    <2> QED
      BY <2>5, <2>6
  <1>8. CASE EcGet(c)
    <2>1. Begin(c, "get", None, Shards)
      BY <1>8 DEF EcGet
    <2>2. None \in Written /\ None # "nil"
      BY ConstantFacts DEF Written
    <2>3. Readers' = Readers \cup {c}
      <3>1. op'[c] = [kind |-> "get", req |-> lastReq', write |-> None] /\ \A b \in Clients : b # c => op'[b] = op[b]
        BY <2>1 DEF Begin, Types
      <3>2. op'[c] # None
        <4>1. op'[c] \in Operation
          BY <2>2, <3>1 DEF Types, Operation
        <4> QED
          BY <4>1, ConstantFacts
      <3> QED
        BY <3>1, <3>2 DEF Readers, Reading
    <2>4. IsFiniteSet(Readers') /\ Cardinality(Readers') = Cardinality(Readers) + 1
      BY <1>4, <1>5, <2>3, FS_AddElement
    <2>5. lastReq + 1 + Cardinality(Readers') <= 2 * ops'
      BY <1>1, <1>4, <2>4
    <2>6. NumberInv' /\ OnceInv' /\ CounterInv' /\ CounterFound' /\ PassedInv'
      BY <1>2, <1>3, <1>6, <2>1, <2>2, <2>4, <2>5, BeginKept
    <2>7. ValueInv'
      BY <1>3, <2>1, <2>2, BeginValues
    <2> QED
      BY <2>6, <2>7
  <1> QED
    BY <1>7, <1>8

\* What is left when an operation returns.
LEMMA DiscardValues ==
    ASSUME Types, ValueInv, NEW c \in Clients, Discard(c), UNCHANGED <<connVars, proxyVars>>,
           result' \in Chunks \cup {None, "ok", "error", "nil"}
    PROVE  ValueInv'
  <1>1. op'[c] = None /\ \A b \in Clients : b # c => op'[b] = op[b]
    BY DEF Discard, Types
  <1>2. ret' \in [Clients -> [Shards -> Chunks \cup {None, "error", "stored"}]]
    BY DEF Discard, ValueInv
  <1>3. UNCHANGED <<conns, stream, calls, chunk>>
    BY DEF connVars, proxyVars
  <1> QED
    BY <1>1, <1>2, <1>3 DEF ValueInv

\* EcSet and recover return.
LEMMA EndSetCount ==
    ASSUME IInv, IInv', CInv, NEW c \in Clients, EndSet(c)
    PROVE  CInv'
  <1> USE DEF IInv, CInv
  <1>1. op[c] # None /\ Discard(c) /\ UNCHANGED <<stage, connVars, proxyVars, lastReq, ops>>
    BY DEF EndSet
  <1>2. NumberInv' /\ OnceInv' /\ CounterInv' /\ CounterFound' /\ PassedInv'
    BY <1>1, DiscardKept
  <1>3. result' \in Chunks \cup {None, "ok", "error", "nil"}
    BY DEF EndSet, ValueInv
  <1>4. ValueInv'
    BY <1>1, <1>3, DiscardValues
  <1> QED
    BY <1>2, <1>4

\* EcGet returns, or goes on to write the chunks that failed: its recovery takes the id that
\* was kept for it.
LEMMA EndGetCount ==
    ASSUME IInv, IInv', CInv, NEW c \in Clients, EndGet(c)
    PROVE  CInv'
  <1> USE DEF IInv, CInv
  <1>1. Reading(c) /\ op[c] # None /\ Waited(c) /\ result' = Decode(c)
    BY DEF EndGet, Reading
  <1>2. Decode(c) \in Chunks \cup {"error"} /\ "nil" \notin Chunks
    BY <1>1, DecodeNotNil
  <1>3. UNCHANGED <<connVars, proxyVars, ops>>
    BY DEF EndGet
  <1>4. result' \in Chunks \cup {None, "ok", "error", "nil"}
    BY <1>1, <1>2
  <1>5. CASE Discard(c) /\ UNCHANGED <<stage, lastReq>>
    <2>1. NumberInv' /\ OnceInv' /\ CounterInv' /\ CounterFound' /\ PassedInv'
      BY <1>1, <1>3, <1>5, DiscardKept
    <2>2. ValueInv'
      BY <1>3, <1>4, <1>5, DiscardValues
    <2> QED
      BY <2>1, <2>2
  <1>6. CASE Recover(c)
    <2>1. Begin(c, "recover", Decode(c), Failed(c)) /\ Failed(c) \in SUBSET Shards
      BY <1>6 DEF Recover, Failed
    <2>2. Decode(c) \in Written
      <3>1. Decode(c) \in Chunks \/ "error" = Decode(c)
        BY <1>2
      <3>2. Decode(c) # "error"
        BY <1>6, <1>1 DEF EndGet, Recover, Begin, Discard
      <3> QED
        BY <3>1, <3>2 DEF Written
    <2>3. Readers' = Readers \ {c}
      <3>1. op'[c].kind = "recover" /\ \A b \in Clients : b # c => op'[b] = op[b]
        BY <2>1 DEF Begin, Types
      <3> QED
        BY <3>1 DEF Readers, Reading
    <2>4. /\ IsFiniteSet(Readers') /\ Cardinality(Readers') = Cardinality(Readers) - 1
          /\ Cardinality(Readers) \in Nat
      <3>1. c \in Readers /\ IsFiniteSet(Readers)
        BY <1>1 DEF NumberInv, Readers
      <3> QED
        BY <2>3, <3>1, FS_RemoveElement, FS_CardinalityType
    <2>5. lastReq + 1 + Cardinality(Readers') <= 2 * ops' /\ ops' \in 0..MaxOps
      BY <1>3, <2>4 DEF NumberInv, Types
    <2>6. NumberInv' /\ OnceInv' /\ CounterInv' /\ CounterFound' /\ PassedInv'
      BY <1>1, <1>3, <2>1, <2>2, <2>4, <2>5, BeginKept
    <2>7. ValueInv'
      BY <1>2, <1>3, <1>4, <2>1, BeginValues
    <2> QED
      BY <2>6, <2>7
  <1> QED
    BY <1>5, <1>6 DEF EndGet

\* A goroutine returns: what it got was passed on before.
LEMMA ReturnKept ==
    ASSUME Types, Types', CInv, NEW c \in Clients, NEW i \in Shards, NEW r, Return(c, i, r),
           UNCHANGED <<op, reqMap, lastReq, ops>>,
           r \in Chunks => i \in Passed(c),
           \A b \in Clients, j \in Shards : stream'[b][j] = stream[b][j] \/ stream'[b][j] = <<>>,
           \A j \in Shards : \A m \in calls'[j] :
                \E n \in calls[j] : n.req = m.req /\ n.at = m.at /\ n.write = m.write,
           \A j \in Shards : \A m, n \in calls'[j] : m.req = n.req => m = n
    PROVE  NumberInv' /\ OnceInv' /\ CounterInv' /\ CounterFound' /\ PassedInv'
  <1>1. /\ \A b \in Clients, j \in Shards : stage'[b][j] = IF b = c /\ j = i THEN "done" ELSE stage[b][j]
        /\ \A b \in Clients, j \in Shards : ret'[b][j] = IF b = c /\ j = i THEN r ELSE ret[b][j]
    BY DEF Return, Types
  <1>2. ASSUME NEW b \in Clients PROVE Passed(b)' \subseteq Passed(b)
    <2> SUFFICES ASSUME NEW j \in Shards, j \in Passed(b)' PROVE j \in Passed(b)
      BY DEF Passed
    <2>1. CASE ret'[b][j] \in Chunks
      BY <1>1, <2>1 DEF Passed
    <2>2. CASE stream'[b][j] # <<>> /\ Head(stream'[b][j]).body \in Chunks
      BY <2>2 DEF Passed
    <2> QED
      BY <2>1, <2>2 DEF Passed
  <1>3. \A b \in Clients, j \in Shards : stage'[b][j] = "start" => stage[b][j] = "start"
    BY <1>1
  <1> QED
    BY <1>2, <1>3, QuietKept

\* And what it got is a chunk, nothing, or the outcome of its request.
LEMMA ReturnValues ==
    ASSUME Types, ValueInv, NEW c \in Clients, NEW i \in Shards,
           NEW r \in Chunks \cup {None, "error", "stored"}, Return(c, i, r),
           UNCHANGED <<op, result, chunk>>,
           conns' \in [Clients -> [Shards -> {"open", None, "dead"}]],
           \A b \in Clients, j \in Shards : stream'[b][j] = stream[b][j] \/ stream'[b][j] = <<>>,
           \A j \in Shards : \A m \in calls'[j] : \E n \in calls[j] : m.write = n.write
    PROVE  ValueInv'
  <1>1. ret' \in [Clients -> [Shards -> Chunks \cup {None, "error", "stored"}]]
    BY DEF Return, ValueInv
  <1>2. \A j \in Shards : \A m \in calls'[j] : m.write # "nil"
    BY DEF ValueInv
  <1>3. ASSUME NEW b \in Clients, NEW j \in Shards, stream'[b][j] # <<>>
        PROVE  Head(stream'[b][j]).body # "nil"
    <2>1. stream'[b][j] = stream[b][j]
      BY <1>3
    <2> QED
      BY <1>3, <2>1 DEF ValueInv
  <1> QED
    BY <1>1, <1>2, <1>3 DEF ValueInv

\* A goroutine sends its request.
LEMMA SendCount ==
    ASSUME IInv, IInv', CInv, NEW c \in Clients, NEW i \in Shards, Send(c, i)
    PROVE  CInv'
  <1> USE DEF IInv, CInv
  <1>1. OnceInv' /\ CounterInv' /\ CounterFound' /\ PassedInv'
    BY SendKept
  <1> DEFINE at == IF op[c].write = None THEN "proxy" ELSE "lambda"
             new == [client |-> c, req |-> op[c].req, write |-> op[c].write, at |-> at, live |-> TRUE]
  <1>2. \A j \in Shards : \A m \in calls'[j] : m \in calls[j] \/ m = new
    BY DEF Send, Types
  <1>3. op[c] # None /\ new.req = op[c].req /\ new.write = op[c].write
    BY DEF Send, Working
  <1>4. UNCHANGED <<op, ret, result, stream, chunk, lastReq, ops>>
    BY DEF Send, counters
  <1> HIDE DEF new
  <1>5. NumberInv'
    <2>1. op[c].req \in 1..lastReq
      BY <1>3 DEF NumberInv
    <2>2. \A j \in Shards : \A m \in calls'[j] : m.req \in 1..lastReq
      BY <1>2, <1>3, <2>1 DEF NumberInv
    <2> QED
      BY <1>4, <2>2, NumberKept
  <1>6. ValueInv'
    <2>1. conns' \in [Clients -> [Shards -> {"open", None, "dead"}]]
      BY DEF Send, Validate, ValueInv
    <2>2. \A j \in Shards : \A m \in calls'[j] : m.write # "nil"
      BY <1>2, <1>3 DEF ValueInv
    <2> QED
      BY <1>4, <2>1, <2>2 DEF ValueInv
  <1> QED
    BY <1>1, <1>5, <1>6

\* It cannot.
LEMMA SendFailsCount ==
    ASSUME IInv, IInv', CInv, NEW c \in Clients, NEW i \in Shards, SendFails(c, i)
    PROVE  CInv'
  <1> USE DEF IInv, CInv
  <1>1. Return(c, i, "error") /\ UNCHANGED <<op, result, conns, stream, calls, reqMap, chunk, lastReq, ops>>
    BY DEF SendFails, connVars, proxyVars, counters
  <1>2. \A j \in Shards : \A m, n \in calls'[j] : m.req = n.req => m = n
    BY <1>1 DEF OnceInv, Once
  <1>3. "error" \notin Chunks
    BY ConstantFacts
  <1>4. NumberInv' /\ OnceInv' /\ CounterInv' /\ CounterFound' /\ PassedInv'
    BY <1>1, <1>2, <1>3, ReturnKept
  <1>5. conns' \in [Clients -> [Shards -> {"open", None, "dead"}]]
    BY <1>1 DEF ValueInv
  <1>6. ValueInv'
    BY <1>1, <1>5, ReturnValues
  <1> QED
    BY <1>4, <1>6

\* It reads its response.
LEMMA ReceiveCount ==
    ASSUME IInv, IInv', CInv, NEW c \in Clients, NEW i \in Shards, Receive(c, i)
    PROVE  CInv'
  <1> USE DEF IInv, CInv
  <1> DEFINE h == Head(stream[c][i])
             r == IF h.body = "error" \/ h.req # op[c].req THEN "error"
                  ELSE IF h.body = "late" THEN None ELSE h.body
  <1>1. stream[c][i] # <<>> /\ Return(c, i, r) /\ stream' = [stream EXCEPT ![c][i] = Tail(@)]
    BY DEF Receive
  <1>2. UNCHANGED <<op, result, conns, calls, reqMap, chunk, lastReq, ops>>
    BY DEF Receive, proxyVars, counters
  <1>3. stream[c][i] \in Seq(Response) /\ Len(stream[c][i]) = 1
    BY <1>1 DEF Types, RequestInv, Tracked
  <1>4. h \in Response /\ Tail(stream[c][i]) = <<>>
    BY <1>3, OneResponse
  <1>5. h.body # "nil"
    BY <1>1 DEF ValueInv
  <1>6. r \in Chunks \cup {None, "error", "stored"}
    BY <1>4, <1>5 DEF Response, Body
  <1>7. r \in Chunks => i \in Passed(c)
    <2>1. r \in Chunks => r = h.body
      BY ConstantFacts
    <2> QED
      BY <1>1, <2>1 DEF Passed
  <1>8. \A b \in Clients, j \in Shards : stream'[b][j] = stream[b][j] \/ stream'[b][j] = <<>>
    BY <1>1, <1>4 DEF Types
  <1> HIDE DEF r
  <1>9. \A j \in Shards : \A m, n \in calls'[j] : m.req = n.req => m = n
    BY <1>2 DEF OnceInv, Once
  <1>10. NumberInv' /\ OnceInv' /\ CounterInv' /\ CounterFound' /\ PassedInv'
    BY <1>1, <1>2, <1>7, <1>8, <1>9, ReturnKept
  <1>11. conns' \in [Clients -> [Shards -> {"open", None, "dead"}]]
    BY <1>2 DEF ValueInv
  <1>12. ValueInv'
    BY <1>1, <1>2, <1>6, <1>8, <1>11, ReturnValues
  <1> QED
    BY <1>10, <1>12

\* A timeout, EOF and a reset: calls are lost or no longer answered.
LEMMA CutCount ==
    ASSUME IInv, IInv', CInv, NEW c \in Clients, NEW i \in Shards, Cut(c, i), Return(c, i, "error"),
           UNCHANGED <<op, result, reqMap, chunk, lastReq, ops>>,
           conns' \in [Clients -> [Shards -> {"open", None, "dead"}]]
    PROVE  CInv'
  <1> USE DEF IInv, CInv
  <1>1. PICK lost \in SUBSET {m \in calls[i] : m.client = c} :
          calls' = [calls EXCEPT ![i] = {IF m.client = c THEN [m EXCEPT !.live = FALSE] ELSE m
                                          : m \in @ \ lost}]
    BY DEF Cut
  <1> DEFINE Off(m) == IF m.client = c THEN [m EXCEPT !.live = FALSE] ELSE m
  <1>2. calls'[i] = {Off(m) : m \in calls[i] \ lost} /\ \A j \in Shards : j # i => calls'[j] = calls[j]
    BY <1>1 DEF Types
  <1>3. ASSUME NEW m \in calls[i] PROVE Off(m).req = m.req /\ Off(m).at = m.at /\ Off(m).write = m.write
    BY <1>3 DEF Types, Call
  <1> HIDE DEF Off
  <1>4. ASSUME NEW j \in Shards, NEW m \in calls'[j]
        PROVE  \E n \in calls[j] : n.req = m.req /\ n.at = m.at /\ n.write = m.write
    BY <1>2, <1>3, <1>4
  <1>5. ASSUME NEW j \in Shards, NEW m \in calls'[j], NEW n \in calls'[j], m.req = n.req PROVE m = n
    <2>1. CASE j = i
      <3>1. PICK m0 \in calls[i], n0 \in calls[i] : m = Off(m0) /\ n = Off(n0)
        BY <1>2, <1>5, <2>1
      <3>2. m0 = n0
        BY <1>3, <1>5, <3>1 DEF OnceInv, Once
      <3> QED
        BY <3>1, <3>2
    <2>2. CASE j # i
      BY <1>2, <1>5, <2>2 DEF OnceInv, Once
    <2> QED
      BY <2>1, <2>2
  <1>6. \A b \in Clients, j \in Shards : stream'[b][j] = stream[b][j] \/ stream'[b][j] = <<>>
    BY DEF Cut, Types
  <1>7. "error" \notin Chunks
    BY ConstantFacts
  <1>8. NumberInv' /\ OnceInv' /\ CounterInv' /\ CounterFound' /\ PassedInv'
    BY <1>4, <1>5, <1>6, <1>7, ReturnKept
  <1>9. \A j \in Shards : \A m \in calls'[j] : \E n \in calls[j] : m.write = n.write
    BY <1>4
  <1>10. ValueInv'
    BY <1>6, <1>9, ReturnValues
  <1> QED
    BY <1>8, <1>10

\* A request is answered without a chunk.
LEMMA AnswerCount ==
    ASSUME IInv, IInv', CInv, NEW i \in Shards, NEW m \in calls[i], NEW body \in {"stored", "error"},
           Answer(i, m, body), UNCHANGED <<clientVars, conns, reqMap, lastReq, ops>>,
           chunk' \in {chunk, IF m.write = None THEN chunk ELSE [chunk EXCEPT ![i] = m.write]}
    PROVE  CInv'
  <1> USE DEF IInv, CInv
  <1>1. UNCHANGED <<op, stage, ret, result>>
    BY DEF clientVars
  <1>2. body \in Body /\ body \notin Chunks /\ body # "nil"
    BY ConstantFacts DEF Body
  <1>3. /\ \A j \in Shards : calls'[j] \subseteq calls[j]
        /\ \A c \in Clients, j \in Shards :
             \/ stream'[c][j] = stream[c][j]
             \/ Head(stream'[c][j]) = [req |-> m.req, body |-> body]
    BY <1>1, <1>2, AnswerTracked
  <1>4. \A c \in Clients : Passed(c)' \subseteq Passed(c)
    BY <1>1, <1>2, <1>3 DEF Passed
  <1>5. \A j \in Shards : \A n, o \in calls'[j] : n.req = o.req => n = o
    BY <1>3 DEF OnceInv, Once
  <1>6. NumberInv' /\ OnceInv' /\ CounterInv' /\ CounterFound' /\ PassedInv'
    BY <1>1, <1>3, <1>4, <1>5, QuietKept
  <1>7. ValueInv'
    <2>1. m.write \in Chunks \cup {None}
      <3>1. m.write \in Written /\ m.write # "nil"
        BY DEF Types, Call, ValueInv
      <3> QED
        BY <3>1 DEF Written
    <2>2. chunk' \in [Shards -> Chunks \cup {None}]
      BY <2>1 DEF ValueInv
    <2>3. \A c \in Clients, j \in Shards : stream'[c][j] # <<>> => Head(stream'[c][j]).body # "nil"
      BY <1>2, <1>3 DEF ValueInv
    <2>4. \A j \in Shards : \A n \in calls'[j] : n.write # "nil"
      BY <1>3 DEF ValueInv
    <2> QED
      BY <1>1, <2>2, <2>3, <2>4 DEF ValueInv
  <1> QED
    BY <1>6, <1>7

\* The proxy hands a request to a lambda.
LEMMA HandleCount ==
    ASSUME IInv, IInv', CInv, NEW i \in Shards, NEW m \in calls[i], Handle(i, m)
    PROVE  CInv'
  <1> USE DEF IInv, CInv
  <1>1. OnceInv' /\ CounterInv' /\ CounterFound' /\ PassedInv'
    BY HandleKept
  <1> DEFINE new == [m EXCEPT !.at = "lambda"]
  <1>2. \A j \in Shards : \A n \in calls'[j] : n \in calls[j] \/ (n = new /\ j = i)
    BY DEF Handle, Types
  <1>3. new.req = m.req /\ new.write = m.write
    BY DEF Types, Call
  <1>4. UNCHANGED <<op, ret, result, conns, stream, chunk, lastReq, ops>>
    BY DEF Handle, clientVars, connVars, counters
  <1> HIDE DEF new
  <1>5. \A j \in Shards : \A n \in calls'[j] : n.req \in 1..lastReq
    BY <1>2, <1>3 DEF NumberInv
  <1>6. NumberInv'
    BY <1>4, <1>5, NumberKept
  <1>7. ValueInv'
    BY <1>2, <1>3, <1>4 DEF ValueInv
  <1> QED
    BY <1>1, <1>6, <1>7

\* A lambda returns a chunk that is counted: passed on, answered late, or lost on its way.
LEMMA ChunkCount ==
    ASSUME IInv, IInv', CInv, NEW i \in Shards, NEW m \in calls[i], FetchChunk(i, m) \/ BodyFails(i, m)
    PROVE  CInv'
  <1> USE DEF IInv, CInv
  <1>1. UNCHANGED <<op, stage, ret, result, conns, chunk, lastReq, ops>>
    BY DEF FetchChunk, BodyFails, clientVars, connVars, counters
  <1>2. reqMap[m.req] # None /\ Count(m.req) /\ chunk[i] # None
    BY DEF FetchChunk, BodyFails, CounterFound
  <1>3. \A j \in Shards : calls'[j] = IF j = i THEN calls[j] \ {m} ELSE calls[j]
    BY <1>2 DEF FetchChunk, BodyFails, Answer, Types
  <1>4. chunk[i] \in Chunks
    BY <1>2 DEF ValueInv
  <1>5. PICK body \in Chunks \cup {"late"} :
            /\ body \in Chunks => ~Enough(m.req)
            /\ \A c \in Clients, j \in Shards :
                \/ stream'[c][j] = stream[c][j]
                \/ /\ j = i /\ c = m.client /\ m.live
                   /\ Head(stream'[c][j]) = [req |-> m.req, body |-> body]
    <2>1. "late" \notin Chunks /\ "late" \in Body /\ chunk[i] \in Body
      BY <1>4, ConstantFacts DEF Body
    <2>2. CASE BodyFails(i, m)
      <3>1. stream' = stream
        BY <2>2 DEF BodyFails, connVars
      <3> QED
        BY <2>1, <3>1
    <2>3. CASE FetchChunk(i, m)
      <3> DEFINE body == IF Enough(m.req) THEN "late" ELSE chunk[i]
      <3>1. Answer(i, m, body) /\ m.write = None
        BY <1>2, <2>3 DEF FetchChunk
      <3>2. body \in Body /\ body \in Chunks \cup {"late"} /\ (body \in Chunks => ~Enough(m.req))
        BY <1>4, <2>1
      <3> HIDE DEF body
      <3>3. \A c \in Clients, j \in Shards :
                \/ stream'[c][j] = stream[c][j]
                \/ /\ j = i /\ c = m.client /\ m.live
                   /\ Head(stream'[c][j]) = [req |-> m.req, body |-> body]
        BY <1>1, <3>1, <3>2, AnswerTracked
      <3> QED
        BY <3>2, <3>3
    <2> QED
      BY <2>2, <2>3
  <1>6. OnceInv' /\ CounterInv' /\ CounterFound' /\ PassedInv'
    <2>1. Types /\ Types' /\ RequestInv /\ CInv
      OBVIOUS
    <2> HIDE DEF IInv, CInv
    <2> QED
      BY <1>1, <1>2, <1>3, <1>5, <2>1, CountKept
  <1>7. \A j \in Shards : \A n \in calls'[j] : n \in calls[j]
    BY <1>3
  <1>8. \A j \in Shards : \A n \in calls'[j] : n.req \in 1..lastReq
    BY <1>7 DEF NumberInv
  <1>9. NumberInv'
    BY <1>1, <1>8, NumberKept
  <1>10. ValueInv'
    <2>1. \A c \in Clients, j \in Shards : stream'[c][j] # <<>> => Head(stream'[c][j]).body # "nil"
      BY <1>5, ConstantFacts DEF ValueInv
    <2> QED
      BY <1>1, <1>7, <2>1 DEF ValueInv
  <1> QED
    BY <1>6, <1>9, <1>10

\* A chunk is lost.
LEMMA ReclaimCount ==
    ASSUME IInv, IInv', CInv, NEW i \in Shards, Reclaim(i)
    PROVE  CInv'
  <1> USE DEF IInv, CInv
  <1>1. UNCHANGED <<op, stage, ret, result, conns, stream, calls, reqMap, lastReq, ops>>
    BY DEF Reclaim, clientVars, connVars
  <1>2. \A c \in Clients : Passed(c)' \subseteq Passed(c)
    BY <1>1 DEF Passed
  <1>3. \A j \in Shards : \A n, o \in calls'[j] : n.req = o.req => n = o
    BY <1>1 DEF OnceInv, Once
  <1>4. NumberInv' /\ OnceInv' /\ CounterInv' /\ CounterFound' /\ PassedInv'
    BY <1>1, <1>2, <1>3, QuietKept
  <1>5. chunk' \in [Shards -> Chunks \cup {None}]
    BY DEF Reclaim, ValueInv
  <1>6. ValueInv'
    BY <1>1, <1>5 DEF ValueInv
  <1> QED
    BY <1>4, <1>6

\* Nothing changes.
LEMMA StutterCount ==
    ASSUME CInv, UNCHANGED vars
    PROVE  CInv'
  <1>1. UNCHANGED <<op, stage, ret, result, conns, stream, calls, reqMap, chunk, lastReq, ops>>
    BY DEF vars, clientVars, connVars, proxyVars, counters
  <1>2. NumberInv' /\ OnceInv'
    BY <1>1 DEF CInv, NumberInv, Readers, Reading, OnceInv, Once
  <1>3. CounterInv' /\ CounterFound'
    BY <1>1 DEF CInv, CounterInv, Pending, CounterFound
  <1>4. PassedInv'
    BY <1>1 DEF CInv, PassedInv, Reading, Passed, Pending
  <1>5. ValueInv'
    BY <1>1 DEF CInv, ValueInv
  <1> QED
    BY <1>2, <1>3, <1>4, <1>5 DEF CInv

\* Every step preserves it.
LEMMA NextCount == IInv /\ IInv' /\ CInv /\ [Next]_vars => CInv'
  <1> SUFFICES ASSUME IInv, IInv', CInv, [Next]_vars PROVE CInv'
    OBVIOUS
  <1>1. CASE UNCHANGED vars
    BY <1>1, StutterCount
  <1>2. ASSUME NEW c \in Clients, EcSet(c) \/ EcGet(c) \/ EndSet(c) \/ EndGet(c) PROVE CInv'
    BY <1>2, BeginCount, EndSetCount, EndGetCount
  <1>3. ASSUME NEW c \in Clients, NEW i \in Shards, Goroutine(c, i) PROVE CInv'
    <2>1. CASE Send(c, i) \/ SendFails(c, i) \/ Receive(c, i)
      BY <2>1, SendCount, SendFailsCount, ReceiveCount
    <2>2. CASE Timeout(c, i) \/ Eof(c, i)
      <3>1. /\ Cut(c, i) /\ Return(c, i, "error") /\ conns' = [conns EXCEPT ![c][i] = None]
            /\ UNCHANGED <<op, result, reqMap, chunk, lastReq, ops>>
        BY <2>2 DEF Timeout, Eof, Disconnect
      <3>2. conns' \in [Clients -> [Shards -> {"open", None, "dead"}]]
        BY <3>1 DEF CInv, ValueInv
      <3> QED
        BY <3>1, <3>2, CutCount
    <2>3. CASE Reset(c, i)
      <3>1. /\ Cut(c, i) /\ Return(c, i, "error") /\ conns' = [conns EXCEPT ![c][i] = "dead"]
            /\ UNCHANGED <<op, result, reqMap, chunk, lastReq, ops>>
        BY <2>3 DEF Reset
      <3>2. conns' \in [Clients -> [Shards -> {"open", None, "dead"}]]
        BY <3>1 DEF CInv, ValueInv
      <3> QED
        BY <3>1, <3>2, CutCount
    <2> QED
      BY <1>3, <2>1, <2>2, <2>3 DEF Goroutine
  <1>4. ASSUME NEW i \in Shards, NEW m \in calls[i],
               StoreChunk(i, m) \/ NotFound(i, m) \/ CallFails(i, m)
        PROVE  CInv'
    <2>1. UNCHANGED <<clientVars, conns, reqMap, lastReq, ops>>
      BY <1>4 DEF StoreChunk, NotFound, CallFails, counters
    <2>2. /\ Answer(i, m, "stored") \/ Answer(i, m, "error")
          /\ chunk' \in {chunk, IF m.write = None THEN chunk ELSE [chunk EXCEPT ![i] = m.write]}
      BY <1>4 DEF StoreChunk, NotFound, CallFails
    <2> QED
      BY <2>1, <2>2, AnswerCount
  <1>5. ASSUME NEW i \in Shards, Proxy(i) PROVE CInv'
    BY <1>4, <1>5, HandleCount, ChunkCount DEF Proxy
  <1>6. ASSUME NEW i \in Shards, NEW m \in calls[i], CallFails(i, m) \/ BodyFails(i, m) PROVE CInv'
    BY <1>4, <1>6, ChunkCount
  <1> QED
    BY <1>1, <1>2, <1>3, <1>5, <1>6, ReclaimCount DEF Next

\* Requests are numbered, sent once and counted once, and what is passed on is counted
\* (EcSet, EcGet, HandleGet, getHandler).
THEOREM CountInductive == Spec => []CInv
  BY Inductive, InitCount, NextCount, PTL DEF Spec

-----------------------------------------------------------------------------
\* A chunk that a lambda returns finds its counter (getHandler): the counter is deleted with
\* the last chunk of its request, so that "Request not found" is never the answer.
THEOREM CountersAreFound == Spec => []CounterFound
  <1>1. CInv => CounterFound
    BY DEF CInv
  <1> QED
    BY <1>1, CountInductive, PTL

\* No more than DataShards chunks reach the client (getHandler, "chunks are enough"), so
\* that decode never finds chunks that disagree.
THEOREM NeverTooMany == Spec => []AtMostEnough
  <1>1. CInv => AtMostEnough
    BY EnoughAtMost DEF CInv, AtMostEnough, Reading
  <1> QED
    BY <1>1, CountInductive, PTL

\* A sequence of one response, and what the response is known to be.
LEMMA NarrowResponse ==
    ASSUME NEW R, NEW Q, NEW s \in Seq(R), Len(s) = 1, Head(s) \in Q
    PROVE  s \in Seq(Q)
  <1>1. s = <<Head(s)>>
    OBVIOUS
  <1>2. \A x \in Q : <<x>> \in Seq(Q)
    OBVIOUS
  <1> QED
    BY <1>1, <1>2, Zenon

\* All variables keep their types: a connection has at most one response, a counter does not
\* exceed the number of shards, request ids stay below the bound of ReqMap, and no chunk that
\* is written is the nil that decode may return (recover).
THEOREM TypeCorrect == Spec => []TypeOK
  <1>1. IInv /\ CInv => TypeOK
    <2> SUFFICES ASSUME IInv, CInv PROVE TypeOK
      OBVIOUS
    <2> USE DEF IInv, CInv
    <2>1. lastReq \in {0} \cup ReqIds
      BY NumberFacts
    <2>2. ASSUME NEW c \in Clients, NEW i \in Shards
          PROVE  /\ stream[c][i] \in Seq([req : 1..lastReq, body : Chunks \cup {"error", "stored", "late"}])
                 /\ Len(stream[c][i]) <= 1
      <3> DEFINE Resp == [req : 1..lastReq, body : Chunks \cup {"error", "stored", "late"}]
                 s == stream[c][i]
      <3>1. CASE s = <<>>
        BY <3>1
      <3>2. CASE s # <<>>
        <4>1. s \in Seq(Response) /\ Len(s) = 1 /\ Head(s).req = op[c].req /\ stage[c][i] = "sent"
          BY <3>2 DEF Types, RequestInv, Tracked
        <4>2. op[c].req \in 1..lastReq
          BY <4>1 DEF RequestInv, AtRest, NumberInv
        <4>3. Head(s) \in Response /\ Head(s).body # "nil"
          BY <3>2, <4>1 DEF ValueInv
        <4>4. Head(s) \in Resp
          BY <4>1, <4>2, <4>3 DEF Response, Body
        <4> HIDE DEF s, Resp
        <4>5. s \in Seq(Resp) /\ Len(s) <= 1
          BY <4>1, <4>4, NarrowResponse
        <4> QED
          BY <4>5 DEF s, Resp
      <3> QED
        BY <3>1, <3>2
    <2>3. \A i \in Shards : \A m \in calls[i] : m.req \in 1..lastReq /\ m.write # "nil"
      BY DEF NumberInv, ValueInv
    <2> QED
      BY <2>1, <2>2, <2>3 DEF TypeOK, Types, ValuesInv, ValueInv, CounterInv
  <1> QED
    BY <1>1, Inductive, CountInductive, PTL
=============================================================================
