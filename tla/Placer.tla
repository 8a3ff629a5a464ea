------------------------------- MODULE Placer -------------------------------
(***************************************************************************)
(* The proxy's object placement (proxy/server): the meta store, the slice  *)
(* allocator of the instance group, the Clock-LRU Placer with its two      *)
(* arrays, and the SET and GET handlers that drive it, together with the   *)
(* client operations (client/ecRedis.go) that produce the SET traffic.     *)
(*                                                                         *)
(* A client keeps one connection per shard, and the proxy serves every     *)
(* connection from a goroutine of its own, so a handler is the pair        *)
(* <<client, chunk>>.  All handlers of one EcSet run concurrently; with    *)
(* several clients, so do handlers of different objects.                   *)
(*                                                                         *)
(* A handler takes meta.mu and then the Placer's mu; every stretch of code *)
(* between two lock operations, and every iteration of a loop executed     *)
(* under the Placer's mu, is one action.  The loops are unrolled that way  *)
(* because meta.Deleted is also read outside the Placer's mu.              *)
(*                                                                         *)
(* Array positions: Go index i of objects[x] is TLA+ index i; the reserved *)
(* Go element 0 is left out, so Go's len(objects[x]) is Len(objects[x])+1. *)
(***************************************************************************)
EXTENDS Integers, Sequences, FiniteSets, FiniteSetsExt

CONSTANTS
    Keys,          \* object keys
    Clients,       \* client processes
    Nil,           \* the nil pointer
    NumChunks,     \* chunks per object: dataChunks + parityChunks
    DataShards,    \* chunks needed to decode an object
    NumInstances,  \* NumLambdaClusters: instances in the group
    SliceSize,     \* MaxLambdaStores of the client, sent as randBase
    Capacity,      \* InstanceCapacity
    Overhead,      \* InstanceOverhead
    Sizes,         \* chunk sizes the clients use
    Modulus,       \* 2^w of the unsigned size counter
    ShardsMayFail, \* whether a client may fail to reach the proxy for a shard
    MaxOps         \* bound: client operations in a behaviour

ASSUME ChunkAssumption == /\ NumChunks \in Nat \ {0}
                          /\ DataShards \in 1..NumChunks
ASSUME GroupAssumption == /\ NumInstances \in Nat
                          /\ SliceSize \in NumChunks..NumInstances
ASSUME SizeAssumption == /\ Modulus \in Nat \ {0}
                         /\ Capacity \in 0..(Modulus - 1)
                         /\ Overhead \in 0..(Modulus - 1)
                         /\ Sizes \subseteq Nat \ {0}
ASSUME OpsAssumption == MaxOps \in Nat /\ ShardsMayFail \in BOOLEAN

Chunks == 0..(NumChunks - 1)
Instances == 0..(NumInstances - 1)
Handlers == Clients \X Chunks
Placements == [Chunks -> Instances]
ClientOps == [key: Keys, size: Sizes, index: Placements]

\* nil is none of the things a pointer of the program may point to.
ASSUME NilAssumption == /\ Nil \notin Keys
                        /\ Nil \notin Instances
                        /\ Nil \notin Handlers
                        /\ Nil \notin Placements
                        /\ Nil \notin ClientOps

VARIABLES
    \* MetaStore and Meta, one record per key, split by field
    inStore,       \* the key has an entry in metaMap
    placement,     \* Meta.Placement
    chunkSize,     \* Meta.ChunkSize
    deleted,       \* Meta.Deleted
    base,          \* Meta.slice.base, Nil until slice.once has run
    metaMu,        \* Meta.mu: its holder or Nil
    \* PlacerMeta; a nil placerMeta is the same as a fresh one
    confirmed,     \* the chunks whose confirmed[] entry is true
    visited,
    pos,           \* [2]int, 0 when not on that array
    swapMap,
    \* Placer and Group
    objects, cursor, cursorBound, primary, placerMu,
    sliceBase,     \* Group.sliceBase modulo the group's size
    size,          \* lambdastore.Meta.size of each instance
    \* SET handlers
    pc,
    post,          \* the meta that postProcess will drop, or Nil
    idx,           \* index of the loop the handler is in
    \* clients and lambdas
    ec,            \* the client's latest operation, Nil before the first
    ops,           \* operations started so far, bounded by MaxOps
    stored         \* bytes of chunk <<key, chunk>> on each lambda, 0 if none

metaVars == <<inStore, placement, chunkSize, deleted, base>>
pmVars == <<confirmed, visited, pos, swapMap>>
clockVars == <<objects, cursor, cursorBound, primary>>
lockVars == <<metaMu, placerMu>>
groupVars == <<sliceBase, size>>
handlerVars == <<pc, post, idx>>
clientVars == <<ec, ops>>
vars == <<metaVars, pmVars, clockVars, lockVars, groupVars, handlerVars,
          clientVars, stored>>

KeyOf(h) == ec[h[1]].key
ChunkOf(h) == h[2]
secondary == 1 - primary
Idle(cl) == \A c \in Chunks : pc[<<cl, c>>] = "idle"

(***************************************************************************)
(* Group and instance sizes: proxy/server/group.go, lambdastore/meta.go.   *)
(***************************************************************************)

\* slice.once has not run: nextSlice hands out the next base.
NextBase(k) == IF base[k] = Nil THEN sliceBase ELSE base[k]

GetIndex(k, lambdaId) == (NextBase(k) + lambdaId) % NumInstances

\* Faulty variant: the base is not taken modulo the size of the group.
TakeSliceUnbounded(k) ==
    /\ base' = [base EXCEPT ![k] = NextBase(k)]
    /\ sliceBase' = IF base[k] = Nil THEN sliceBase + SliceSize ELSE sliceBase

\* The effect of slice.GetIndex on the slice and on the group.
TakeSlice(k) ==
    /\ base' = [base EXCEPT ![k] = NextBase(k)]
    /\ sliceBase' = IF base[k] = Nil THEN (sliceBase + SliceSize) % NumInstances
                                     ELSE sliceBase

\* atomic.AddUint64 with a possibly negative int64.
AddUint(x, delta) == (x + delta) % Modulus
IncreaseSize(x, inc) == AddUint(x, inc)
DecreaseSize(x, dec) == AddUint(x, 0 - dec)

\* Faulty variant: a chunk may fill the instance completely.
IsAvailableInclusive(i, k) == AddUint(size[i], chunkSize[k]) <= Capacity

IsAvailable(i, k) == AddUint(size[i], chunkSize[k]) < Capacity

-----------------------------------------------------------------------------
Init ==
    /\ inStore = [k \in Keys |-> FALSE]
    /\ placement = [k \in Keys |-> [c \in Chunks |-> 0]]
    /\ chunkSize = [k \in Keys |-> 0]
    /\ deleted = [k \in Keys |-> FALSE]
    /\ base = [k \in Keys |-> Nil]
    /\ metaMu = [k \in Keys |-> Nil]
    /\ confirmed = [k \in Keys |-> {}]
    /\ visited = [k \in Keys |-> FALSE]
    /\ pos = [k \in Keys |-> [x \in 0..1 |-> 0]]
    /\ swapMap = [k \in Keys |-> Nil]
    /\ objects = [x \in 0..1 |-> << >>]
    /\ cursor = 0
    /\ cursorBound = 0
    /\ primary = 0
    /\ placerMu = Nil
    /\ sliceBase = 0
    /\ size = [i \in Instances |-> Overhead]
    /\ pc = [h \in Handlers |-> "idle"]
    /\ post = [h \in Handlers |-> Nil]
    /\ idx = [h \in Handlers |-> 0]
    /\ ec = [cl \in Clients |-> Nil]
    /\ ops = 0
    /\ stored = [i \in Instances |-> [kc \in Keys \X Chunks |-> 0]]

(***************************************************************************)
(* Clients.                                                                *)
(***************************************************************************)

\* A client runs one operation at a time: EcSet and recover wait for every shard.
Start(cl, op, shards) ==
    /\ Idle(cl)
    /\ ops < MaxOps
    /\ ops' = ops + 1
    /\ ec' = [ec EXCEPT ![cl] = op]
    /\ pc' = [h \in Handlers |-> IF h[1] = cl /\ h[2] \in shards THEN "insert" ELSE pc[h]]
    /\ UNCHANGED <<metaVars, pmVars, clockVars, lockVars, groupVars, post, idx, stored>>

\* random: the first n ids of a permutation, so no two shards share an id.
RandomIndex == {index \in [Chunks -> 0..(SliceSize - 1)] :
                    \A c, d \in Chunks : index[c] = index[d] => c = d}

\* The shards whose SET reaches the proxy; validate or the write may fail for the others.
Reached == IF ShardsMayFail THEN SUBSET Chunks \ {{}} ELSE {Chunks}

EcSet(cl, k, s) ==
    \E index \in RandomIndex, shards \in Reached :
        Start(cl, [key |-> k, size |-> s, index |-> index], shards)

\* EcGet decoded the object although the GET of some chunks failed, and SETs those
\* chunks again, always with lambdaId 0.  The object may have been evicted meanwhile.
Recover(cl, k) ==
    /\ inStore[k]
    /\ \E failed \in SUBSET Chunks \ {{}} :
          /\ Chunks \ failed \subseteq confirmed[k]
          /\ Cardinality(Chunks \ failed) >= DataShards
          /\ \E s \in Sizes :
                /\ \E c \in Chunks \ failed : stored[placement[k][c]][<<k, c>>] = s
                /\ Start(cl, [key |-> k, size |-> s, index |-> [c \in Chunks |-> 0]], failed)

(***************************************************************************)
(* HandleSet.  First NewMeta and MetaStore.GetOrInsert, before any lock.   *)
(***************************************************************************)

Insert(h) ==
    LET k == KeyOf(h)
        c == ChunkOf(h)
    IN
    /\ pc[h] = "insert"
    /\ pc' = [pc EXCEPT ![h] = "lock"]
    /\ IF inStore[k]
       THEN UNCHANGED <<inStore, placement, chunkSize>>
       ELSE /\ inStore' = [inStore EXCEPT ![k] = TRUE]
            /\ placement' = [placement EXCEPT ![k] = [d \in Chunks |->
                                IF d = c THEN ec[h[1]].index[c] ELSE 0]]
            /\ chunkSize' = [chunkSize EXCEPT ![k] = ec[h[1]].size]
    /\ UNCHANGED <<deleted, base, pmVars, clockVars, lockVars, groupVars, post, idx,
                   clientVars, stored>>

(***************************************************************************)
(* Placer.GetOrInsert up to the Placer's lock.                             *)
(***************************************************************************)

\* Faulty variant: the earlier decision for the chunk is not looked at.
IsConfirmedForgotten(h) == FALSE

IsConfirmed(h) == ~deleted[KeyOf(h)] /\ ChunkOf(h) \in confirmed[KeyOf(h)]

\* The chunk was set before: its place is kept, and the lock is released again.
AlreadyConfirmed(h) ==
    LET k == KeyOf(h)
    IN
    /\ pc[h] = "lock"
    /\ metaMu[k] = Nil
    /\ IsConfirmed(h)
    /\ pc' = [pc EXCEPT ![h] = "check"]
    /\ UNCHANGED <<metaVars, pmVars, clockVars, lockVars, groupVars, post, idx,
                   clientVars, stored>>

\* A meta found evicted starts over with a fresh placerMeta.
LockMeta(h) ==
    LET k == KeyOf(h)
    IN
    /\ pc[h] = "lock"
    /\ metaMu[k] = Nil
    /\ ~IsConfirmed(h)
    /\ metaMu' = [metaMu EXCEPT ![k] = h]
    /\ pc' = [pc EXCEPT ![h] = "placer"]
    /\ IF deleted[k]
       THEN /\ deleted' = [deleted EXCEPT ![k] = FALSE]
            /\ confirmed' = [confirmed EXCEPT ![k] = {}]
            /\ visited' = [visited EXCEPT ![k] = FALSE]
            /\ pos' = [pos EXCEPT ![k] = [x \in 0..1 |-> 0]]
            /\ swapMap' = [swapMap EXCEPT ![k] = Nil]
       ELSE UNCHANGED <<deleted, pmVars>>
    /\ UNCHANGED <<inStore, placement, chunkSize, base, clockVars, placerMu, groupVars,
                   post, idx, clientVars, stored>>

(***************************************************************************)
(* Placer.GetOrInsert after both locks are held, and its four outcomes.    *)
(***************************************************************************)

EnterPlacer(h) == pc[h] = "placer" /\ placerMu = Nil

\* Faulty variant: the meta stays locked.
ReturnLocked(h) ==
    /\ pc' = [pc EXCEPT ![h] = "check"]
    /\ UNCHANGED metaMu
    /\ placerMu' = Nil

\* Both deferred unlocks.  The handler goes on in HandleSet.
Return(h) ==
    /\ pc' = [pc EXCEPT ![h] = "check"]
    /\ metaMu' = [metaMu EXCEPT ![KeyOf(h)] = Nil]
    /\ placerMu' = Nil

\* placerMeta.confirm(chunk) at instance i.
Confirm(h, i) ==
    /\ placement' = [placement EXCEPT ![KeyOf(h)][ChunkOf(h)] = i]
    /\ confirmed' = [confirmed EXCEPT ![KeyOf(h)] = @ \cup {ChunkOf(h)}]

\* Faulty variant: the flag is not looked at again under the Placer's lock.
EvictedUnchecked(h) == FALSE

\* The double check: the object was evicted while the handler waited for the lock.
Evicted(h) == deleted[KeyOf(h)]

EvictedMeanwhile(h) ==
    /\ EnterPlacer(h)
    /\ Evicted(h)
    /\ Return(h)
    /\ UNCHANGED <<metaVars, pmVars, clockVars, groupVars, post, idx, clientVars, stored>>

\* An earlier chunk has evicted an object: take over the place of its chunk.
TakeSwapped(h) ==
    LET k == KeyOf(h)
    IN
    /\ EnterPlacer(h)
    /\ ~Evicted(h)
    /\ swapMap[k] # Nil
    /\ Confirm(h, swapMap[k][ChunkOf(h)])
    /\ Return(h)
    /\ UNCHANGED <<inStore, chunkSize, deleted, base, visited, pos, swapMap, clockVars,
                   groupVars, post, idx, clientVars, stored>>

AddObject(k) ==
    /\ pos' = [pos EXCEPT ![k][primary] = Len(objects[primary]) + 1]
    /\ visited' = [visited EXCEPT ![k] = TRUE]
    /\ objects' = [objects EXCEPT ![primary] = Append(@, k)]

\* The assigned instance has room for the chunk.
Place(h) ==
    LET k == KeyOf(h)
        i == GetIndex(k, ec[h[1]].index[ChunkOf(h)])
    IN
    /\ EnterPlacer(h)
    /\ ~Evicted(h)
    /\ swapMap[k] = Nil
    /\ IsAvailable(i, k)
    /\ TakeSlice(k)
    /\ Confirm(h, i)
    /\ IF pos[k][primary] = 0 THEN AddObject(k) ELSE UNCHANGED <<pos, visited, objects>>
    /\ size' = [size EXCEPT ![i] = IncreaseSize(@, chunkSize[k])]
    /\ Return(h)
    /\ UNCHANGED <<inStore, chunkSize, deleted, swapMap, cursor, cursorBound, primary,
                   post, idx, clientVars, stored>>

\* The assigned instance is full: look for an object to evict, keeping both locks.
Overweight(h) ==
    LET k == KeyOf(h)
        i == GetIndex(k, ec[h[1]].index[ChunkOf(h)])
    IN
    /\ EnterPlacer(h)
    /\ ~Evicted(h)
    /\ swapMap[k] = Nil
    /\ ~IsAvailable(i, k)
    /\ TakeSlice(k)
    /\ placerMu' = h
    /\ pc' = [pc EXCEPT ![h] = "clock"]
    /\ UNCHANGED <<inStore, placement, chunkSize, deleted, pmVars, clockVars, metaMu, size,
                   post, idx, clientVars, stored>>

(***************************************************************************)
(* NextAvailableObject, repeated until it finds an object.                 *)
(***************************************************************************)

\* Every clock step leaves these alone.
ClockUnchanged == UNCHANGED <<inStore, placement, chunkSize, base, confirmed, lockVars,
                              groupVars, clientVars, stored>>

\* Faulty variant: the bound forgets that element 0 is reserved.
BoundTooLarge == Len(objects[primary]) + 2

\* len(p.objects[p.primary]), fixed for the whole pass.
Bound == Len(objects[primary]) + 1

\* A new pass: empty the secondary array, fix the bound of the cursor.
ClockStart(h) ==
    /\ pc[h] = "clock"
    /\ cursor = 0
    /\ objects' = [objects EXCEPT ![secondary] = << >>]
    /\ cursorBound' = Bound
    /\ cursor' = 1
    /\ UNCHANGED <<deleted, visited, pos, swapMap, primary, handlerVars>>
    /\ ClockUnchanged

AtSlot(h) == pc[h] = "clock" /\ cursor # 0 /\ cursor < cursorBound

Slot == objects[primary][cursor]

ClockSkip(h) ==
    /\ AtSlot(h)
    /\ Slot = Nil
    /\ cursor' = cursor + 1
    /\ UNCHANGED <<objects, cursorBound, primary, deleted, visited, pos, swapMap, handlerVars>>
    /\ ClockUnchanged

\* Faulty variant: the clock hand does not clear the flag.
AgeNever(m, k) == visited

\* visited after the clock hand passed m on behalf of k: only a complete object
\* other than k loses its second chance.
Age(m, k) == IF m # k /\ confirmed[m] = Chunks
             THEN [visited EXCEPT ![m] = FALSE]
             ELSE visited

\* Faulty variant: the position is that of the element before.
CopiedPosBefore(m) == [pos EXCEPT ![m][secondary] = Len(objects[secondary])]

\* Position of m once it is appended to the secondary array.
CopiedPos(m) == [pos EXCEPT ![m][secondary] = Len(objects[secondary]) + 1]

\* An object that stays is copied to the secondary array.
ClockPass(h) ==
    LET k == KeyOf(h)
        m == Slot
    IN
    /\ AtSlot(h)
    /\ m # Nil
    /\ m = k \/ visited[m]
    /\ visited' = Age(m, k)
    /\ pos' = CopiedPos(m)
    /\ objects' = [objects EXCEPT ![secondary] = Append(@, m)]
    /\ cursor' = cursor + 1
    /\ UNCHANGED <<cursorBound, primary, deleted, swapMap, handlerVars>>
    /\ ClockUnchanged

\* Faulty variant: the old slot is not cleared.
ReplacedTwice(k) == [objects[primary] EXCEPT ![cursor] = k]

\* The primary array once k has left its old slot for the slot of the cursor.
\* Position 0, "not on the array", is the reserved element of the Go slice.
Replaced(k) ==
    LET old == pos[k][primary]
    IN [n \in 1..Len(objects[primary]) |->
            IF n = cursor THEN k ELSE IF n = old THEN Nil ELSE objects[primary][n]]

\* The candidate is found: k takes its slot and its chunks' places.
ClockEvict(h) ==
    LET k == KeyOf(h)
        m == Slot
    IN
    /\ AtSlot(h)
    /\ m # Nil
    /\ m # k
    /\ ~visited[m]
    /\ deleted' = [deleted EXCEPT ![m] = TRUE]
    /\ swapMap' = [swapMap EXCEPT ![k] = placement[m]]
    /\ visited' = [visited EXCEPT ![k] = TRUE]
    /\ pos' = [pos EXCEPT ![k] = [x \in 0..1 |-> IF x = primary THEN cursor
                                                 ELSE Len(objects[secondary]) + 1]]
    /\ objects' = [x \in 0..1 |-> IF x = primary THEN Replaced(k)
                                                 ELSE Append(objects[secondary], k)]
    /\ cursor' = cursor + 1
    /\ post' = [post EXCEPT ![h] = m]
    /\ idx' = [idx EXCEPT ![h] = 0]
    /\ pc' = [pc EXCEPT ![h] = "relocate"]
    /\ UNCHANGED <<cursorBound, primary>>
    /\ ClockUnchanged

\* The cursor has reached its bound without success.
ClockBound(h) ==
    /\ pc[h] = "clock"
    /\ cursor # 0
    /\ cursor >= cursorBound
    /\ idx' = [idx EXCEPT ![h] = cursor]
    /\ pc' = [pc EXCEPT ![h] = "tail"]
    /\ UNCHANGED <<clockVars, deleted, visited, pos, swapMap, post>>
    /\ ClockUnchanged

\* Objects added since the pass started are copied as well.
ClockTail(h) ==
    LET m == objects[primary][idx[h]]
    IN
    /\ pc[h] = "tail"
    /\ idx[h] <= Len(objects[primary])
    /\ IF m = Nil
       THEN UNCHANGED <<pos, objects>>
       ELSE /\ pos' = CopiedPos(m)
            /\ objects' = [objects EXCEPT ![secondary] = Append(@, m)]
    /\ idx' = [idx EXCEPT ![h] = @ + 1]
    /\ UNCHANGED <<cursor, cursorBound, primary, deleted, visited, swapMap, pc, post>>
    /\ ClockUnchanged

\* The arrays change roles, and the search starts over.
ClockSwitch(h) ==
    /\ pc[h] = "tail"
    /\ idx[h] > Len(objects[primary])
    /\ cursor' = 0
    /\ primary' = secondary
    /\ idx' = [idx EXCEPT ![h] = 0]
    /\ pc' = [pc EXCEPT ![h] = "clock"]
    /\ UNCHANGED <<objects, cursorBound, deleted, visited, pos, swapMap, post>>
    /\ ClockUnchanged

(***************************************************************************)
(* The rest of GetOrInsert after a successful search.                      *)
(***************************************************************************)

\* Faulty variant: a confirmed chunk is charged again at the victim's instance.
ExchangedAlways(x, k, m, d) == IncreaseSize(x, chunkSize[k] - chunkSize[m])

\* What the object k gains and its victim m loses at the instance of victim chunk d.
Exchanged(x, k, m, d) == IF d \notin confirmed[k]
                         THEN IncreaseSize(x, chunkSize[k] - chunkSize[m])
                         ELSE DecreaseSize(x, chunkSize[m])

\* One iteration over swapMap: exchange the reservations of chunk idx[h].
Relocate(h) ==
    LET k == KeyOf(h)
        d == idx[h]
    IN
    /\ pc[h] = "relocate"
    /\ d < NumChunks
    /\ size' = [size EXCEPT ![swapMap[k][d]] = Exchanged(@, k, post[h], d)]
    /\ idx' = [idx EXCEPT ![h] = d + 1]
    /\ UNCHANGED <<metaVars, pmVars, clockVars, lockVars, sliceBase, pc, post, clientVars,
                   stored>>

Relocated(h) ==
    LET k == KeyOf(h)
    IN
    /\ pc[h] = "relocate"
    /\ idx[h] = NumChunks
    /\ Confirm(h, swapMap[k][ChunkOf(h)])
    /\ idx' = [idx EXCEPT ![h] = 0]
    /\ Return(h)
    /\ UNCHANGED <<inStore, chunkSize, deleted, base, visited, pos, swapMap, clockVars,
                   groupVars, post, clientVars, stored>>

(***************************************************************************)
(* The rest of HandleSet, without any lock.  A request put on an           *)
(* instance's channel is applied to the lambda at once: the channel and    *)
(* the connection behind it keep the order of requests.                    *)
(***************************************************************************)

\* meta.Deleted is read without a lock: reply with an error.
NotSet(h) ==
    /\ pc[h] = "check"
    /\ deleted[KeyOf(h)]
    /\ pc' = [pc EXCEPT ![h] = "idle"]
    /\ post' = [post EXCEPT ![h] = Nil]
    /\ UNCHANGED <<metaVars, pmVars, clockVars, lockVars, groupVars, idx, clientVars, stored>>

\* Faulty variant: the victim is never dropped from the lambdas.
IsSetNoDrop(h) ==
    /\ pc[h] = "check"
    /\ ~deleted[KeyOf(h)]
    /\ pc' = [pc EXCEPT ![h] = "send"]
    /\ post' = [post EXCEPT ![h] = Nil]
    /\ UNCHANGED <<metaVars, pmVars, clockVars, lockVars, groupVars, idx, clientVars, stored>>

IsSet(h) ==
    /\ pc[h] = "check"
    /\ ~deleted[KeyOf(h)]
    /\ pc' = [pc EXCEPT ![h] = IF post[h] = Nil THEN "send" ELSE "drop"]
    /\ UNCHANGED <<metaVars, pmVars, clockVars, lockVars, groupVars, post, idx, clientVars,
                   stored>>

\* One iteration of dropEvicted, which reads the victim's live Placement.
DropEvicted(h) ==
    LET m == post[h]
        d == idx[h]
    IN
    /\ pc[h] = "drop"
    /\ stored' = [stored EXCEPT ![placement[m][d]][<<m, d>>] = 0]
    /\ IF d + 1 < NumChunks
       THEN /\ idx' = [idx EXCEPT ![h] = d + 1]
            /\ UNCHANGED <<pc, post>>
       ELSE /\ idx' = [idx EXCEPT ![h] = 0]
            /\ pc' = [pc EXCEPT ![h] = "send"]
            /\ post' = [post EXCEPT ![h] = Nil]
    /\ UNCHANGED <<metaVars, pmVars, clockVars, lockVars, groupVars, clientVars>>

\* The chunk goes to where the meta's Placement says now.
Send(h) ==
    LET k == KeyOf(h)
        c == ChunkOf(h)
    IN
    /\ pc[h] = "send"
    /\ stored' = [stored EXCEPT ![placement[k][c]][<<k, c>>] = ec[h[1]].size]
    /\ pc' = [pc EXCEPT ![h] = "idle"]
    /\ UNCHANGED <<metaVars, pmVars, clockVars, lockVars, groupVars, post, idx, clientVars>>

(***************************************************************************)
(* HandleGet of a chunk the placer knows: Placer.Get touches the object.   *)
(* It holds both locks only to set one flag, so it is one step; a GET that *)
(* misses changes nothing.                                                 *)
(***************************************************************************)

Get(k, c) ==
    /\ inStore[k]
    /\ metaMu[k] = Nil
    /\ placerMu = Nil
    /\ ~deleted[k]
    /\ c \in confirmed[k]
    /\ visited' = [visited EXCEPT ![k] = TRUE]
    /\ UNCHANGED <<metaVars, confirmed, pos, swapMap, clockVars, lockVars, groupVars,
                   handlerVars, clientVars, stored>>

-----------------------------------------------------------------------------
Clock(h) == \/ ClockStart(h) \/ ClockSkip(h) \/ ClockPass(h) \/ ClockEvict(h)
            \/ ClockBound(h) \/ ClockTail(h) \/ ClockSwitch(h)

HandleSet(h) ==
    \/ Insert(h) \/ AlreadyConfirmed(h) \/ LockMeta(h)
    \/ EvictedMeanwhile(h) \/ TakeSwapped(h) \/ Place(h) \/ Overweight(h)
    \/ Clock(h)
    \/ Relocate(h) \/ Relocated(h)
    \/ NotSet(h) \/ IsSet(h) \/ DropEvicted(h) \/ Send(h)

Next ==
    \/ \E cl \in Clients, k \in Keys, s \in Sizes : EcSet(cl, k, s)
    \/ \E cl \in Clients, k \in Keys : Recover(cl, k)
    \/ \E h \in Handlers : HandleSet(h)
    \/ \E k \in Keys, c \in Chunks : Get(k, c)

Spec == Init /\ [][Next]_vars

\* A goroutine that can run is run, and Go's mutexes do not starve a waiter.
FairSpec == Spec /\ \A h \in Handlers : WF_vars(HandleSet(h))

-----------------------------------------------------------------------------
(***************************************************************************)
(* Properties.                                                             *)
(***************************************************************************)

MetaType ==
    /\ inStore \in [Keys -> BOOLEAN]
    /\ placement \in [Keys -> Placements]
    /\ chunkSize \in [Keys -> Nat]
    /\ deleted \in [Keys -> BOOLEAN]
    /\ base \in [Keys -> Instances \cup {Nil}]

PlacerMetaType ==
    /\ confirmed \in [Keys -> SUBSET Chunks]
    /\ visited \in [Keys -> BOOLEAN]
    /\ pos \in [Keys -> [0..1 -> Nat]]
    /\ swapMap \in [Keys -> Placements \cup {Nil}]

ClockType ==
    /\ objects \in [0..1 -> Seq(Keys \cup {Nil})]
    /\ cursor \in Nat
    /\ cursorBound \in Nat
    /\ primary \in 0..1

LockType ==
    /\ metaMu \in [Keys -> Handlers \cup {Nil}]
    /\ placerMu \in Handlers \cup {Nil}

GroupType ==
    /\ sliceBase \in Instances
    /\ size \in [Instances -> 0..(Modulus - 1)]

HandlerType ==
    /\ pc \in [Handlers -> {"idle", "insert", "lock", "placer", "clock", "tail", "relocate",
                            "check", "drop", "send"}]
    /\ post \in [Handlers -> Keys \cup {Nil}]
    /\ idx \in [Handlers -> Nat]

ClientType ==
    /\ ec \in [Clients -> ClientOps \cup {Nil}]
    /\ ops \in 0..MaxOps
    /\ stored \in [Instances -> [Keys \X Chunks -> Nat]]

\* The types of all variables; the size counters are within their width.
TypeOK == MetaType /\ PlacerMetaType /\ ClockType /\ LockType /\ GroupType /\ HandlerType
          /\ ClientType

InPlacer == {"clock", "tail", "relocate"}

\* Each lock is held by exactly the handler whose program counter says so, and the
\* meta a handler has locked is the one of its own key.
LockInv ==
    /\ \A h \in Handlers : pc[h] \in InPlacer <=> placerMu = h
    /\ \A h \in Handlers, k \in Keys :
          metaMu[k] = h <=> pc[h] \in InPlacer \cup {"placer"} /\ KeyOf(h) = k

\* The slice expressions of NextAvailableObject, objects[primary][cursor:cursorBound] and
\* objects[primary][cursor:], stay within the array, although the cursor is kept between
\* searches while other handlers add objects.
ClockInBounds ==
    /\ cursor # 0 => cursor <= cursorBound /\ cursorBound <= Len(objects[primary]) + 1
    /\ \A h \in Handlers : pc[h] = "tail" =>
          cursor # 0 /\ idx[h] \in cursor..(Len(objects[primary]) + 1)

\* The position a live object records for the primary array is the position of that
\* object, through every compaction and switch of the arrays: the unset of the old
\* position never hits another object and never leaves the array.
PosExact ==
    \A k \in Keys : ~deleted[k] /\ pos[k][primary] # 0 =>
        /\ pos[k][primary] \in 1..Len(objects[primary])
        /\ objects[primary][pos[k][primary]] = k

\* "Confirmed chunk will not move": a chunk keeps its instance for as long as it stays
\* confirmed, although later chunks of the object evict others and are relocated.
PlacementStable ==
    [][\A k \in Keys : \A c \in confirmed[k] \cap confirmed'[k] :
            placement'[k][c] = placement[k][c]]_vars

Alive(k) == confirmed[k] # {} /\ ~deleted[k]
Slots(k) == {n \in 1..Len(objects[primary]) : objects[primary][n] = k}

\* Between searches the primary array holds every live object exactly once, at the
\* position its meta records, and no evicted object: a second or stale entry would let
\* the clock evict an object twice or without its second chance.
ListExact ==
    placerMu = Nil => \A k \in Keys : Slots(k) = IF Alive(k) THEN {pos[k][primary]} ELSE {}

\* The chunks with space reserved at instance i: the confirmed ones placed there and
\* the ones the object will take over there from its victim.
Reserved(i) == {kc \in Keys \X Chunks :
    LET k == kc[1]
        c == kc[2]
    IN /\ ~deleted[k]
       /\ \/ c \in confirmed[k] /\ placement[k][c] = i
          \/ c \notin confirmed[k] /\ swapMap[k] # Nil /\ swapMap[k][c] = i}

\* The size counter of every instance is its overhead plus what is reserved there, in its
\* width: it is only ever changed by differences, of either sign where an object takes the
\* place of one of another size, so any mistake would stay for ever.
Accounting ==
    (\A h \in Handlers : pc[h] # "relocate") =>
        \A i \in Instances :
            size[i] = (Overhead + MapThenSumSet(LAMBDA kc : chunkSize[kc[1]], Reserved(i)))
                      % Modulus

\* An object that takes the place of a smaller one is not asked whether it fits, so that an
\* instance may be filled beyond its capacity, and again with every exchange.  What stays
\* limited is the number of its chunks: never more than have room in chunks of some size
\* that is in use, hence of the smallest one.
NotCrowded ==
    (\A h \in Handlers : pc[h] # "relocate") =>
        \A i \in Instances : Reserved(i) # {} =>
            \E s \in Sizes : Overhead + s * Cardinality(Reserved(i)) < Capacity

\* When no SET is in progress the lambdas hold exactly the chunks the placer would look
\* for: nothing confirmed was dropped with a victim and nothing evicted was left behind.
StoreExact ==
    (\A h \in Handlers : pc[h] = "idle") =>
        \A i \in Instances, k \in Keys, c \in Chunks :
            stored[i][<<k, c>>] # 0 <=> ~deleted[k] /\ c \in confirmed[k] /\ placement[k][c] = i

\* No chunk is placed for an object that is evicted: a handler that waited for the
\* Placer's lock while its object was evicted gives up.
EvictedNotPlaced ==
    [][\A k \in Keys : deleted[k] => confirmed'[k] \subseteq confirmed[k]]_vars

\* Every SET that reaches the proxy is answered: the search for an object to evict ends
\* and no handler waits for a lock for ever.
SetsFinish == \A h \in Handlers : pc[h] = "insert" ~> pc[h] = "idle"
=============================================================================
