-------------------------- MODULE PlacerAccounting --------------------------
(***************************************************************************)
(* The list, the counters and the lambdas' chunks of Placer when one       *)
(* client writes and all its shards reach the proxy, for any number of     *)
(* keys, chunks, instances and operations.  With two clients, or shards    *)
(* that fail, these properties do not hold.                                *)
(***************************************************************************)
EXTENDS PlacerProofs, FiniteSetTheorems

\* One client writes, and every shard of its operations reaches the proxy.
OneWriter == (\E cl \in Clients : Clients = {cl}) /\ ShardsMayFail = FALSE

\* No counter can wrap around: as many chunks as there is capacity, and one more, of a size
\* that no chunk exceeds, fit into its width.
WideCounters == \E top \in Nat : /\ \A s \in Sizes : s <= top
                                 /\ Overhead + top * (Capacity + 1) < Modulus

-----------------------------------------------------------------------------
Busy(k) == \E h \in Handlers : pc[h] # "idle" /\ KeyOf(h) = k
Early == {"insert", "lock"}
Late == {"check", "drop", "send"}
Relocating(k) == \E h \in Handlers : pc[h] = "relocate" /\ KeyOf(h) = k

\* An operation confirms every chunk of its object: a chunk that is not confirmed yet has a
\* handler that will, and an object that was evicted before is set anew by all of them.
WholeInv ==
    \A k \in Keys :
        /\ Busy(k) /\ deleted[k] => \A h \in Handlers : pc[h] \in Early
        /\ Busy(k) /\ ~deleted[k] =>
              \A h \in Handlers : ChunkOf(h) \notin confirmed[k] => pc[h] \in Early \cup Locked
        /\ ~Busy(k) /\ ~deleted[k] => confirmed[k] = {} \/ confirmed[k] = Chunks

\* What a handler has behind it, and what a meta without confirmed chunks looks like.
StageInv ==
    /\ \A h \in Handlers :
          /\ pc[h] \in Late => ChunkOf(h) \in confirmed[KeyOf(h)]
          /\ pc[h] \in {"clock", "tail"} => swapMap[KeyOf(h)] = Nil
          /\ post[h] # Nil => /\ pc[h] \in {"relocate", "check", "drop"}
                              /\ post[h] # KeyOf(h)
                              /\ deleted[post[h]]
                              /\ confirmed[post[h]] = Chunks
    /\ \A k \in Keys : ~deleted[k] /\ confirmed[k] = {} /\ ~Relocating(k) =>
          swapMap[k] = Nil /\ \A x \in 0..1 : pos[k][x] = 0

\* Slot n of array x holds an object that is not evicted and records this slot.
Exact(x, n) ==
    objects[x][n] # Nil => ~deleted[objects[x][n]] /\ pos[objects[x][n]][x] = n

\* The list: both arrays are exact, the secondary one has copies of slots the cursor has
\* passed, and an object that still looks for room is the last one.
ListInv ==
    /\ \A n \in 1..Len(objects[primary]) : Exact(primary, n)
    /\ cursor # 0 => \A n \in 1..Len(objects[secondary]) :
          LET k == objects[secondary][n]
          IN k # Nil /\ Exact(secondary, n) /\ pos[k][primary] # 0 /\ Passed(pos[k][primary])
    /\ \A k \in Keys : ~deleted[k] /\ (confirmed[k] # {} \/ Relocating(k)) => pos[k][primary] # 0
    /\ \A k \in Keys : ~deleted[k] /\ confirmed[k] # Chunks /\ swapMap[k] = Nil =>
          /\ pos[k][primary] \in {0, Len(objects[primary])}
          /\ pos[k][primary] # 0 /\ Passed(pos[k][primary]) =>
                pos[k][secondary] = Len(objects[secondary])

\* A handler will still drop chunk c of the victim k; a handler sets chunk c of k.
Dropping(k, c) == \E h \in Handlers : post[h] = k /\ (pc[h] = "drop" => idx[h] <= c)
Setting(k, c) == \E h \in Handlers : pc[h] # "idle" /\ KeyOf(h) = k /\ ChunkOf(h) = c

\* What the lambdas hold: confirmed chunks where they are placed, and chunks of a victim
\* until it is dropped.
StoredInv ==
    \A k \in Keys, c \in Chunks :
        /\ \A i \in Instances : stored[i][<<k, c>>] # 0 =>
              c \in confirmed[k] /\ placement[k][c] = i /\ (~deleted[k] \/ Dropping(k, c))
        /\ ~deleted[k] /\ c \in confirmed[k] /\ stored[placement[k][c]][<<k, c>>] = 0 =>
              Setting(k, c)

OneInv == WholeInv /\ StageInv /\ ListInv /\ StoredInv

\* Chunk c of the victim k still counts at instance i: the relocation has not come to it.
Owed(k, c, i) ==
    \E h \in Handlers :
        pc[h] = "relocate" /\ post[h] = k /\ idx[h] <= c /\ swapMap[KeyOf(h)][c] = i

\* The relocation has not come to chunk c of the object k that takes the victim's place.
Pending(k, c) == \E h \in Handlers : pc[h] = "relocate" /\ KeyOf(h) = k /\ idx[h] <= c

Charged(k, c, i) ==
    /\ ~deleted[k]
    /\ \/ c \in confirmed[k] /\ placement[k][c] = i
       \/ c \notin confirmed[k] /\ swapMap[k] # Nil /\ swapMap[k][c] = i /\ ~Pending(k, c)

\* The chunks that count at instance i, in the middle of a relocation too.
Held(i) == {kc \in Keys \X Chunks : Charged(kc[1], kc[2], i) \/ Owed(kc[1], kc[2], i)}

\* The bytes of the chunks S of objects with chunks of sizes w, and how many there are.  A sum
\* over S is this cardinality, which the theorems on finite sets say everything about.
Bytes(S, w) == {b \in S \X Nat : 1 <= b[2] /\ b[2] <= w[b[1][1]]}
Weight(S, w) == Cardinality(Bytes(S, w))

\* Every counter is exact at every step, modulo its width.
SizeInv ==
    \A i \in Instances :
        /\ IsFiniteSet(Held(i)) /\ IsFiniteSet(Bytes(Held(i), chunkSize))
        /\ size[i] = (Overhead + Weight(Held(i), chunkSize)) % Modulus

\* The chunks that count have sizes in use, and those of the smallest size would fit.
CrowdInv ==
    /\ \A k \in Keys : inStore[k] => chunkSize[k] \in Sizes
    /\ \A i \in Instances : Held(i) # {} =>
          \E s \in Sizes : Overhead + s * Cardinality(Held(i)) < Capacity

-----------------------------------------------------------------------------
(***************************************************************************)
(* One operation at a time.                                                *)
(***************************************************************************)

\* All handlers are those of one client: they have the same key, and one chunk each.
LEMMA OneKey ==
    ASSUME OneWriter
    PROVE  /\ \A g, h \in Handlers : g[1] = h[1] /\ KeyOf(g) = KeyOf(h)
           /\ \A g, h \in Handlers : ChunkOf(g) = ChunkOf(h) => g = h
           /\ \A c \in Chunks : \E h \in Handlers : ChunkOf(h) = c
           /\ \A h \in Handlers : ChunkOf(h) \in Chunks
  <1>1. PICK cl \in Clients : Clients = {cl}
    BY DEF OneWriter
  <1>2. \A h \in Handlers : h = <<cl, h[2]>> /\ h[1] = cl /\ h[2] \in Chunks
    BY <1>1 DEF Handlers
  <1>3. \A c \in Chunks : <<cl, c>> \in Handlers /\ ChunkOf(<<cl, c>>) = c
    BY DEF Handlers, ChunkOf
  <1> QED
    BY <1>2, <1>3 DEF KeyOf, ChunkOf

\* A handler that is not idle is at work for the only key with an operation.
LEMMA OnlyBusy ==
    ASSUME OneWriter, TypeOK, HandlerInv, NEW h \in Handlers, pc[h] # "idle"
    PROVE  /\ KeyOf(h) \in Keys
           /\ Busy(KeyOf(h))
           /\ \A k : Busy(k) => k = KeyOf(h)
           /\ \A k : Relocating(k) => k = KeyOf(h)
  <1>1. KeyOf(h) \in Keys
    BY HandlerFacts
  <1>2. \A g \in Handlers : KeyOf(g) = KeyOf(h)
    BY OneKey
  <1> QED
    BY <1>1, <1>2 DEF Busy, Relocating

\* What a step of a handler does to the handlers.
LEMMA HandlerMoves ==
    ASSUME TypeOK, NEW h \in Handlers, HandleSet(h)
    PROVE  /\ ec' = ec
           /\ \A g \in Handlers : KeyOf(g)' = KeyOf(g)
           /\ pc[h] # "idle"
           /\ \A g \in Handlers \ {h} : pc'[g] = pc[g] /\ post'[g] = post[g] /\ idx'[g] = idx[g]
  <1>1. ec' = ec
    BY ClientUnchanged DEF clientVars
  <1>2. \A g \in Handlers \ {h} : pc'[g] = pc[g] /\ post'[g] = post[g] /\ idx'[g] = idx[g]
    BY DEF TypeOK, HandlerType, HandleSet, Clock, Insert, AlreadyConfirmed, LockMeta,
           EvictedMeanwhile, TakeSwapped, Place, Overweight, ClockStart, ClockSkip, ClockPass,
           ClockEvict, ClockBound, ClockTail, ClockSwitch, Relocate, Relocated, NotSet, IsSet,
           DropEvicted, Send, Return, handlerVars
  <1>3. pc[h] # "idle"
    BY DEF HandleSet, Clock, Insert, AlreadyConfirmed, LockMeta, EvictedMeanwhile, TakeSwapped,
           Place, Overweight, ClockStart, ClockSkip, ClockPass, ClockEvict, ClockBound,
           ClockTail, ClockSwitch, AtSlot, Relocate, Relocated, NotSet, IsSet, DropEvicted, Send,
           EnterPlacer
  <1> QED
    BY <1>1, <1>2, <1>3 DEF KeyOf

\* What a step of a handler does to a meta: a chunk is confirmed, a meta found evicted is
\* started over, or a victim is marked.
Confirms(h) ==
    /\ pc[h] \in {"placer", "relocate"} /\ pc'[h] = "check" /\ ~deleted[KeyOf(h)]
    /\ confirmed' = [confirmed EXCEPT ![KeyOf(h)] = @ \cup {ChunkOf(h)}]
    /\ \E i \in Instances : placement' = [placement EXCEPT ![KeyOf(h)][ChunkOf(h)] = i]
    /\ UNCHANGED <<deleted, swapMap, inStore>>

StartsOver(h) ==
    /\ pc[h] = "lock" /\ pc'[h] = "placer" /\ deleted[KeyOf(h)]
    /\ deleted' = [deleted EXCEPT ![KeyOf(h)] = FALSE]
    /\ confirmed' = [confirmed EXCEPT ![KeyOf(h)] = {}]
    /\ pos' = [pos EXCEPT ![KeyOf(h)] = [x \in 0..1 |-> 0]]
    /\ swapMap' = [swapMap EXCEPT ![KeyOf(h)] = Nil]
    /\ UNCHANGED <<placement, inStore, post>>

\* Every step of a handler is one of these three or leaves the confirmed chunks alone.
LEMMA MetaMoves ==
    ASSUME TypeOK, HandlerInv, NEW h \in Handlers, HandleSet(h)
    PROVE  \/ (TakeSwapped(h) \/ Place(h) \/ Relocated(h)) /\ Confirms(h)
           \/ LockMeta(h) /\ StartsOver(h)
           \/ ClockEvict(h) /\ UNCHANGED confirmed
           \/ /\ UNCHANGED <<confirmed, deleted, swapMap>>
              /\ \/ LockMeta(h) /\ ~deleted[KeyOf(h)] /\ UNCHANGED pmVars
                 \/ Insert(h) \/ AlreadyConfirmed(h) \/ EvictedMeanwhile(h) \/ Overweight(h)
                 \/ ClockStart(h) \/ ClockSkip(h) \/ ClockPass(h) \/ ClockBound(h)
                 \/ ClockTail(h) \/ ClockSwitch(h) \/ Relocate(h) \/ NotSet(h) \/ IsSet(h)
                 \/ DropEvicted(h) \/ Send(h)
  <1> USE DEF TypeOK, HandlerType, MetaType, PlacerMetaType
  <1>1. ASSUME TakeSwapped(h) \/ Place(h) \/ Relocated(h) PROVE Confirms(h)
    <2>1. pc[h] # "idle" /\ KeyOf(h) \in Keys /\ ChunkOf(h) \in Chunks
      BY <1>1, HandlerFacts DEF TakeSwapped, Place, Relocated, EnterPlacer
    <2>2. \E i \in Instances : Confirm(h, i)
      <3>1. CASE TakeSwapped(h) \/ Relocated(h)
        <4>1. swapMap[KeyOf(h)] \in Placements
          BY <1>1, <2>1, <3>1 DEF TakeSwapped, Relocated, HandlerInv
        <4> QED
          BY <2>1, <3>1, <4>1 DEF TakeSwapped, Relocated, Placements
      <3>2. CASE Place(h)
        <4>1. base[KeyOf(h)] \in Int \/ base[KeyOf(h)] = Nil
          BY <2>1 DEF Instances
        <4>2. ec[h[1]].index[ChunkOf(h)] \in Int /\ sliceBase \in Int
          BY <2>1, HandlerFacts DEF Instances, GroupType
        <4>3. GetIndex(KeyOf(h), ec[h[1]].index[ChunkOf(h)]) \in Instances
          BY <4>1, <4>2, ConstantFacts DEF GetIndex, NextBase
        <4> QED
          BY <3>2, <4>3 DEF Place
      <3> QED
        BY <1>1, <3>1, <3>2
    <2>3. ~deleted[KeyOf(h)] /\ pc[h] \in {"placer", "relocate"} /\ pc'[h] = "check"
          /\ UNCHANGED <<deleted, swapMap, inStore>>
      BY <1>1 DEF TakeSwapped, Place, Relocated, EnterPlacer, Evicted, HandlerInv, InPlacer,
                  Return
    <2> QED
      BY <2>2, <2>3 DEF Confirms, Confirm
  <1>2. ASSUME LockMeta(h), deleted[KeyOf(h)] PROVE StartsOver(h)
    BY <1>2 DEF LockMeta, StartsOver
  <1>3. ASSUME LockMeta(h), ~deleted[KeyOf(h)]
        PROVE  UNCHANGED <<confirmed, deleted, swapMap>> /\ UNCHANGED pmVars
    BY <1>3 DEF LockMeta, pmVars
  <1>4. ASSUME ClockEvict(h) PROVE UNCHANGED confirmed
    BY <1>4 DEF ClockEvict, ClockUnchanged
  <1>5. ASSUME \/ Insert(h) \/ AlreadyConfirmed(h) \/ EvictedMeanwhile(h) \/ Overweight(h)
               \/ ClockStart(h) \/ ClockSkip(h) \/ ClockPass(h) \/ ClockBound(h)
               \/ ClockTail(h) \/ ClockSwitch(h) \/ Relocate(h) \/ NotSet(h) \/ IsSet(h)
               \/ DropEvicted(h) \/ Send(h)
        PROVE  UNCHANGED <<confirmed, deleted, swapMap>>
    BY <1>5 DEF Insert, AlreadyConfirmed, EvictedMeanwhile, Overweight, ClockStart, ClockSkip,
                ClockPass, ClockBound, ClockTail, ClockSwitch, ClockUnchanged, Relocate, NotSet,
                IsSet, DropEvicted, Send, metaVars, pmVars
  <1> QED
    BY <1>1, <1>2, <1>3, <1>4, <1>5 DEF HandleSet, Clock

\* A lambda has a chunk of the object where the meta says.
Kept(k) == \E c \in Chunks : stored[placement[k][c]][<<k, c>>] # 0

\* A client begins an operation when all handlers are idle. It reaches all shards; a
\* recovery, of an object of which a lambda has a chunk, all those whose chunk is not confirmed.
LEMMA BeginFacts ==
    ASSUME OneWriter, TypeOK,
           \/ \E cl \in Clients, k \in Keys, s \in Sizes : EcSet(cl, k, s)
           \/ \E cl \in Clients, k \in Keys : Recover(cl, k)
    PROVE  /\ \A h \in Handlers : pc[h] = "idle" /\ pc'[h] \in {"idle", "insert"}
           /\ UNCHANGED <<metaVars, pmVars, clockVars, lockVars, groupVars, post, idx, stored>>
           /\ \A k \in Keys : Busy(k)' => \A h \in Handlers :
                  pc'[h] = "insert" \/ (Kept(k) /\ ChunkOf(h) \in confirmed[k])
  <1>1. \A cl \in Clients, h \in Handlers : h = <<cl, h[2]>> /\ h[1] = cl /\ h[2] \in Chunks
    BY DEF OneWriter, Handlers
  <1>2. ASSUME NEW cl \in Clients, NEW op \in ClientOps, NEW shards \in SUBSET Chunks,
               Start(cl, op, shards)
        PROVE  /\ \A h \in Handlers : pc[h] = "idle" /\ pc'[h] \in {"idle", "insert"}
               /\ UNCHANGED <<metaVars, pmVars, clockVars, lockVars, groupVars, post, idx, stored>>
               /\ \A h \in Handlers : pc'[h] = "insert" <=> ChunkOf(h) \in shards
               /\ \A k \in Keys : Busy(k)' => k = op.key
    <2>1. \A h \in Handlers : pc[h] = "idle"
      BY <1>1, <1>2 DEF Start, Idle
    <2>2. \A h \in Handlers : pc'[h] = IF ChunkOf(h) \in shards THEN "insert" ELSE "idle"
      BY <1>1, <1>2, <2>1 DEF Start, ChunkOf
    <2>3. \A h \in Handlers : KeyOf(h)' = op.key
      BY <1>1, <1>2 DEF Start, KeyOf, TypeOK, ClientType
    <2>4. UNCHANGED <<metaVars, pmVars, clockVars, lockVars, groupVars, post, idx, stored>>
      BY <1>2 DEF Start
    <2> QED
      BY <2>1, <2>2, <2>3, <2>4 DEF Busy
  <1>3. ASSUME NEW cl \in Clients, NEW k \in Keys, NEW s \in Sizes, EcSet(cl, k, s)
        PROVE  \E op \in ClientOps : Start(cl, op, Chunks)
    <2>1. PICK index \in RandomIndex, shards \in Reached :
                 Start(cl, [key |-> k, size |-> s, index |-> index], shards)
      BY <1>3 DEF EcSet
    <2>2. [key |-> k, size |-> s, index |-> index] \in ClientOps
      BY ConstantFacts DEF ClientOps
    <2>3. shards = Chunks
      BY DEF Reached, OneWriter
    <2> QED
      BY <2>1, <2>2, <2>3
  <1>4. ASSUME NEW cl \in Clients, NEW k \in Keys, Recover(cl, k)
        PROVE  /\ Kept(k)
               /\ \E op \in ClientOps, failed \in SUBSET Chunks :
                     Start(cl, op, failed) /\ op.key = k /\ Chunks \ failed \subseteq confirmed[k]
    <2>1. PICK failed \in SUBSET Chunks \ {{}}, s \in Sizes :
                 /\ Chunks \ failed \subseteq confirmed[k]
                 /\ \E c \in Chunks \ failed : stored[placement[k][c]][<<k, c>>] = s
                 /\ Start(cl, [key |-> k, size |-> s, index |-> [c \in Chunks |-> 0]], failed)
      BY <1>4 DEF Recover
    <2>2. [key |-> k, size |-> s, index |-> [c \in Chunks |-> 0]] \in ClientOps
      BY ConstantFacts DEF ClientOps
    <2>3. Kept(k)
      BY <2>1, SizeAssumption DEF Kept
    <2> QED
      BY <2>1, <2>2, <2>3
  <1>5. \A h \in Handlers : ChunkOf(h) \in Chunks
    BY <1>1 DEF ChunkOf, OneWriter
  <1>6. CASE \E cl \in Clients, k \in Keys, s \in Sizes : EcSet(cl, k, s)
    <2>1. PICK cl \in Clients, op \in ClientOps : Start(cl, op, Chunks)
      BY <1>3, <1>6
    <2> QED
      BY <1>2, <1>5, <2>1
  <1>7. CASE \E cl \in Clients, k \in Keys : Recover(cl, k)
    <2>1. PICK cl \in Clients, k \in Keys : Recover(cl, k)
      BY <1>7
    <2>2. PICK op \in ClientOps, failed \in SUBSET Chunks :
                 Start(cl, op, failed) /\ op.key = k /\ Chunks \ failed \subseteq confirmed[k]
      BY <1>4, <2>1
    <2> QED
      BY <1>2, <1>4, <1>5, <2>1, <2>2
  <1> QED
    BY <1>6, <1>7

\* Every step keeps an operation whole.
LEMMA WholeStep ==
    ASSUME OneWriter, IInv, WholeInv, StageInv, StoredInv, [Next]_vars
    PROVE  WholeInv'
  <1> USE DEF IInv, TypeOK, HandlerType, MetaType, PlacerMetaType
  <1>1. CASE UNCHANGED vars
    BY <1>1 DEF WholeInv, Busy, KeyOf, vars, metaVars, pmVars, handlerVars, clientVars
  <1>2. CASE \/ \E cl \in Clients, k \in Keys, s \in Sizes : EcSet(cl, k, s)
             \/ \E cl \in Clients, k \in Keys : Recover(cl, k)
    <2>1. /\ \A h \in Handlers : pc[h] = "idle"
          /\ UNCHANGED <<deleted, confirmed>>
          /\ \A k \in Keys : Busy(k)' => \A h \in Handlers :
                 pc'[h] = "insert" \/ (Kept(k) /\ ChunkOf(h) \in confirmed[k])
      BY <1>2, BeginFacts DEF metaVars, pmVars
    <2>2. \A k : ~Busy(k)
      BY <2>1 DEF Busy
    <2>3. ASSUME NEW k \in Keys, Kept(k) PROVE ~deleted[k]
      <3>1. PICK c \in Chunks : stored[placement[k][c]][<<k, c>>] # 0
        BY <2>3 DEF Kept
      <3>2. placement[k][c] \in Instances
        BY DEF Placements
      <3>3. \A h \in Handlers : post[h] = Nil
        BY <2>1 DEF StageInv
      <3>4. ~Dropping(k, c)
        BY <3>3, NilAssumption DEF Dropping
      <3> QED
        BY <3>1, <3>2, <3>4 DEF StoredInv
    <2> QED
      BY <2>1, <2>2, <2>3 DEF WholeInv, Early
  <1>3. CASE \E k \in Keys, c \in Chunks : Get(k, c)
    BY <1>3 DEF Get, WholeInv, Busy, KeyOf, metaVars, handlerVars, clientVars
  <1>4. ASSUME NEW h \in Handlers, HandleSet(h)
        PROVE  WholeInv'
    <2>0. PICK kk \in Keys : kk = KeyOf(h)
      BY <1>4, HandlerMoves, OnlyBusy
    <2>1. /\ \A g \in Handlers : KeyOf(g)' = kk /\ KeyOf(g) = kk
          /\ pc[h] # "idle"
          /\ \A g \in Handlers \ {h} : pc'[g] = pc[g]
      BY <1>4, <2>0, HandlerMoves, OneKey
    <2>2. Busy(kk)
      BY <2>1 DEF Busy
    <2>3. \A k \in Keys \ {kk} : ~Busy(k) /\ ~Busy(k)'
      BY <2>1 DEF Busy
    <2>4. \A c \in Chunks : \E g \in Handlers : ChunkOf(g) = c
      BY OneKey
    <2>5. /\ deleted[kk] => \A g \in Handlers : pc[g] \in Early
          /\ ~deleted[kk] =>
                \A g \in Handlers : ChunkOf(g) \notin confirmed[kk] => pc[g] \in Early \cup Locked
      BY <2>2 DEF WholeInv
    <2>6. ASSUME Confirms(h) PROVE WholeInv'
      <3>1. /\ deleted' = deleted /\ ~deleted[kk] /\ pc'[h] = "check"
            /\ confirmed' = [confirmed EXCEPT ![kk] = @ \cup {ChunkOf(h)}]
        BY <2>0, <2>6 DEF Confirms
      <3>2. Busy(kk)'
        BY <2>1, <3>1 DEF Busy
      <3>3. \A g \in Handlers : ChunkOf(g) \notin confirmed'[kk] => g # h /\ pc'[g] \in Early \cup Locked
        BY <2>1, <2>2, <2>5, <3>1
      <3> QED
        BY <2>2, <2>3, <3>1, <3>2, <3>3 DEF WholeInv
    <2>7. ASSUME StartsOver(h) PROVE WholeInv'
      <3>1. /\ deleted[kk] /\ deleted' = [deleted EXCEPT ![kk] = FALSE] /\ pc'[h] = "placer"
            /\ confirmed' = [confirmed EXCEPT ![kk] = {}]
        BY <2>0, <2>7 DEF StartsOver
      <3>2. Busy(kk)'
        BY <2>1, <3>1 DEF Busy
      <3>3. \A g \in Handlers : pc'[g] \in Early \cup Locked
        BY <2>1, <2>5, <3>1 DEF Locked
      <3> QED
        BY <2>2, <2>3, <3>1, <3>2, <3>3 DEF WholeInv
    <2>8. ASSUME ClockEvict(h), UNCHANGED confirmed PROVE WholeInv'
      <3>1. PICK m : /\ m # kk /\ deleted' = [deleted EXCEPT ![m] = TRUE]
                     /\ pc[h] = "clock" /\ pc'[h] = "relocate"
        BY <2>0, <2>8 DEF ClockEvict, AtSlot
      <3>2. Busy(kk)' /\ ~deleted[kk]
        BY <2>1, <2>5, <3>1 DEF Busy, Early
      <3>3. \A g \in Handlers : ChunkOf(g) \notin confirmed[kk] => pc'[g] \in Early \cup Locked
        BY <2>1, <2>5, <3>1, <3>2 DEF Locked, InPlacer
      <3>4. \A k \in Keys : ~deleted'[k] => ~deleted[k]
        BY <3>1
      <3>5. ~deleted'[kk]
        BY <3>1, <3>2, <2>2
      <3> QED
        BY <2>2, <2>3, <2>8, <3>2, <3>3, <3>4, <3>5 DEF WholeInv
    <2>9. ASSUME UNCHANGED <<confirmed, deleted>>,
                 \/ LockMeta(h) /\ ~deleted[kk]
                 \/ Insert(h) \/ AlreadyConfirmed(h) \/ EvictedMeanwhile(h) \/ Overweight(h)
                 \/ ClockStart(h) \/ ClockSkip(h) \/ ClockPass(h) \/ ClockBound(h)
                 \/ ClockTail(h) \/ ClockSwitch(h) \/ Relocate(h) \/ NotSet(h) \/ IsSet(h)
                 \/ DropEvicted(h) \/ Send(h)
          PROVE  WholeInv'
      <3>1. deleted[kk] => pc'[h] \in Early
        <4>1. deleted[kk] => pc[h] \in Early
          BY <2>5
        <4> QED
          BY <2>0, <2>9, <4>1 DEF Early, LockMeta, Insert, AlreadyConfirmed, IsConfirmed,
             EvictedMeanwhile, EnterPlacer, Overweight, ClockStart, ClockSkip, ClockPass, ClockBound, ClockTail,
             ClockSwitch, AtSlot, Relocate, NotSet, IsSet, DropEvicted, Send
      <3>2. ~deleted[kk] /\ ChunkOf(h) \notin confirmed[kk] => pc'[h] \in Early \cup Locked
        <4>1. ~deleted[kk] /\ ChunkOf(h) \notin confirmed[kk] => pc[h] \in Early \cup Locked
          BY <2>5
        <4> QED
          BY <2>0, <2>9, <4>1 DEF Early, Locked, InPlacer, LockMeta, Insert, AlreadyConfirmed, IsConfirmed,
             EvictedMeanwhile, Evicted, EnterPlacer, Overweight, ClockStart, ClockSkip, ClockPass, ClockBound, ClockTail,
             ClockSwitch, AtSlot, Relocate, NotSet, IsSet, DropEvicted, Send, handlerVars
      <3>3. \A g \in Handlers : /\ deleted[kk] => pc'[g] \in Early
                                /\ ~deleted[kk] /\ ChunkOf(g) \notin confirmed[kk] => pc'[g] \in Early \cup Locked
        BY <2>1, <2>5, <3>1, <3>2
      <3>4. ASSUME ~Busy(kk)', ~deleted[kk] PROVE confirmed[kk] = Chunks
        <4>1. \A g \in Handlers : pc'[g] = "idle"
          BY <2>1, <3>4 DEF Busy
        <4>2. \A g \in Handlers : ChunkOf(g) \in confirmed[kk]
          BY <3>3, <3>4, <4>1 DEF Early, Locked, InPlacer
        <4>3. confirmed[kk] \subseteq Chunks
          BY <2>0
        <4>4. Chunks \subseteq confirmed[kk]
          BY <2>4, <4>2
        <4> QED
          BY <4>3, <4>4
      <3> QED
        BY <2>2, <2>3, <2>9, <3>3, <3>4 DEF WholeInv
    <2> QED
      BY <1>4, <2>6, <2>7, <2>8, <2>9, <2>0, MetaMoves
  <1> QED
    BY <1>1, <1>2, <1>3, <1>4 DEF Next

\* An object without an operation that is not complete was never placed.
LEMMA FreshOrWhole ==
    ASSUME WholeInv, StageInv, NEW k \in Keys, ~Busy(k), ~deleted[k], confirmed[k] # Chunks
    PROVE  confirmed[k] = {} /\ swapMap[k] = Nil /\ \A x \in 0..1 : pos[k][x] = 0
  <1>1. ~Relocating(k)
    BY DEF Busy, Relocating
  <1> QED
    BY <1>1 DEF WholeInv, StageInv

\* An object in a slot of the primary array other than that of a handler in the clock is
\* complete.
LEMMA ListedWhole ==
    ASSUME OneWriter, IInv, WholeInv, StageInv, ListInv, NEW h \in Handlers,
           pc[h] \in {"clock", "tail"}, NEW n \in 1..Len(objects[primary]), NEW m \in Keys,
           objects[primary][n] = m
    PROVE  /\ ~deleted[m] /\ pos[m][primary] = n /\ confirmed[m] # {}
           /\ m # KeyOf(h) => confirmed[m] = Chunks
  <1>1. ~deleted[m] /\ pos[m][primary] = n
    BY NilAssumption DEF ListInv, Exact
  <1>2. ~Relocating(m)
    <2>1. \A g \in Handlers : pc[g] \in InPlacer => g = h
      BY Exclusion DEF IInv, InPlacer
    <2> QED
      BY <2>1 DEF Relocating, InPlacer
  <1>3. primary \in 0..1 /\ n # 0
    BY DEF IInv, TypeOK, ClockType
  <1>4. confirmed[m] # {}
    BY <1>1, <1>2, <1>3 DEF StageInv
  <1>5. m # KeyOf(h) => ~Busy(m)
    BY OnlyBusy DEF IInv
  <1> QED
    BY <1>1, <1>4, <1>5 DEF WholeInv

\* Every step keeps what lies behind the handlers.
LEMMA StageStep ==
    ASSUME OneWriter, IInv, IInv', WholeInv, StageInv, ListInv, [Next]_vars
    PROVE  StageInv'
  <1> USE DEF TypeOK, HandlerType, MetaType, PlacerMetaType
  <1>0. TypeOK /\ TypeOK' /\ HandlerInv /\ LockInv
    BY DEF IInv
  <1>1. CASE UNCHANGED vars
    BY <1>1 DEF StageInv, Relocating, KeyOf, vars, metaVars, pmVars, handlerVars, clientVars
  <1>2. CASE \/ \E cl \in Clients, k \in Keys, s \in Sizes : EcSet(cl, k, s)
             \/ \E cl \in Clients, k \in Keys : Recover(cl, k)
    <2>1. /\ \A h \in Handlers : pc[h] = "idle" /\ pc'[h] \in {"idle", "insert"}
          /\ UNCHANGED <<deleted, confirmed, swapMap, pos, post>>
      BY <1>0, <1>2, BeginFacts DEF metaVars, pmVars
    <2>2. \A h \in Handlers : post[h] = Nil
      BY <2>1 DEF StageInv
    <2>3. \A k : ~Relocating(k) /\ ~Relocating(k)'
      BY <2>1 DEF Relocating
    <2> QED
      BY <2>1, <2>2, <2>3 DEF StageInv, Late
  <1>3. CASE \E k \in Keys, c \in Chunks : Get(k, c)
    BY <1>3 DEF Get, StageInv, Relocating, KeyOf, metaVars, handlerVars, clientVars
  <1>4. ASSUME NEW h \in Handlers, HandleSet(h)
        PROVE  StageInv'
    <2>0. PICK kk \in Keys : kk = KeyOf(h)
      BY <1>0, <1>4, HandlerMoves, OnlyBusy
    <2>1. /\ \A g \in Handlers : KeyOf(g)' = kk /\ KeyOf(g) = kk
          /\ pc[h] # "idle"
          /\ \A g \in Handlers \ {h} : pc'[g] = pc[g] /\ post'[g] = post[g]
      BY <1>0, <1>4, <2>0, HandlerMoves, OneKey
    <2>2. Busy(kk)
      BY <2>1 DEF Busy
    <2>3. deleted[kk] => \A g \in Handlers : pc[g] \in Early
      BY <2>2 DEF WholeInv
    <2>4. \A k \in Keys \ {kk} : ~Relocating(k) /\ ~Relocating(k)'
      BY <2>1 DEF Relocating
    <2>5. Relocating(kk) <=> \E g \in Handlers : pc[g] = "relocate"
      BY <2>1 DEF Relocating
    <2>6. Relocating(kk)' <=> \E g \in Handlers : pc'[g] = "relocate"
      BY <2>1 DEF Relocating
    <2>7. ASSUME Confirms(h), TakeSwapped(h) \/ Place(h) \/ Relocated(h) PROVE StageInv'
      <3>1. /\ UNCHANGED <<deleted, swapMap>> /\ ~deleted[kk] /\ pc'[h] = "check"
            /\ confirmed' = [confirmed EXCEPT ![kk] = @ \cup {ChunkOf(h)}]
            /\ pc[h] \in {"placer", "relocate"}
        BY <2>0, <2>7 DEF Confirms
      <3>2. UNCHANGED post /\ \A k \in Keys \ {kk} : pos'[k] = pos[k]
        BY <1>0, <2>0, <2>7 DEF TakeSwapped, Place, AddObject, Relocated, pmVars
      <3>3. \A k \in Keys : confirmed[k] \subseteq confirmed'[k] /\ (k # kk => confirmed'[k] = confirmed[k])
        BY <1>0, <3>1
      <3>4. ChunkOf(h) \in confirmed'[kk]
        BY <1>0, <3>1
      <3>5. ASSUME NEW g \in Handlers
            PROVE  /\ pc'[g] \in Late => ChunkOf(g) \in confirmed'[kk]
                   /\ pc'[g] \in {"clock", "tail"} => swapMap'[kk] = Nil
                   /\ post'[g] # Nil => /\ pc'[g] \in {"relocate", "check", "drop"}
                                        /\ post'[g] # kk /\ deleted'[post'[g]]
                                        /\ confirmed'[post'[g]] = Chunks
        <4>1. post[g] # Nil => post[g] \in Keys /\ post[g] # kk
          BY <1>0, <2>1 DEF StageInv
        <4>2. CASE g = h
          BY <2>1, <3>1, <3>2, <3>3, <3>4, <4>1, <4>2 DEF StageInv
        <4>3. CASE g # h
          BY <2>1, <3>1, <3>2, <3>3, <4>1, <4>3 DEF StageInv
        <4> QED
          BY <4>2, <4>3
      <3> QED
        BY <2>1, <2>4, <3>1, <3>2, <3>3, <3>4, <3>5 DEF StageInv
    <2>8. ASSUME StartsOver(h) PROVE StageInv'
      <3>1. /\ deleted[kk] /\ deleted' = [deleted EXCEPT ![kk] = FALSE] /\ pc'[h] = "placer"
            /\ confirmed' = [confirmed EXCEPT ![kk] = {}]
            /\ pos' = [pos EXCEPT ![kk] = [x \in 0..1 |-> 0]]
            /\ swapMap' = [swapMap EXCEPT ![kk] = Nil]
            /\ UNCHANGED post
        BY <2>0, <2>8 DEF StartsOver
      <3>2. \A g \in Handlers : pc'[g] \in {"insert", "lock", "placer"} /\ pc[g] \in Early
        BY <2>1, <2>3, <3>1 DEF Early
      <3>3. \A g \in Handlers : post'[g] = Nil
        BY <3>1, <3>2 DEF StageInv, Early
      <3>4. \A k \in Keys \ {kk} : UNCHANGED <<deleted[k], confirmed[k], pos[k], swapMap[k]>>
        BY <3>1
      <3>5. swapMap'[kk] = Nil /\ \A x \in 0..1 : pos'[kk][x] = 0
        BY <1>0, <3>1
      <3> QED
        BY <2>4, <3>2, <3>3, <3>4, <3>5 DEF StageInv, Late
    <2>9. ASSUME ClockEvict(h), UNCHANGED confirmed PROVE StageInv'
      <3>1. PICK m \in Keys : m = Slot /\ cursor \in 1..Len(objects[primary])
        BY <1>0, <2>9, SlotFacts DEF ClockEvict, IInv
      <3>2. /\ m # kk /\ deleted' = [deleted EXCEPT ![m] = TRUE]
            /\ pc[h] = "clock" /\ pc'[h] = "relocate"
            /\ swapMap' = [swapMap EXCEPT ![kk] = placement[m]]
            /\ post' = [post EXCEPT ![h] = m]
            /\ \A k \in Keys \ {kk} : pos'[k] = pos[k]
        BY <1>0, <2>0, <2>9, <3>1 DEF ClockEvict, AtSlot
      <3>3. confirmed[m] = Chunks
        BY <2>0, <3>1, <3>2, ListedWhole DEF Slot
      <3>4. \A g \in Handlers \ {h} : pc[g] \notin InPlacer
        BY <1>0, <3>2, Exclusion DEF InPlacer
      <3>5. ASSUME NEW g \in Handlers
            PROVE  /\ pc'[g] \in Late => ChunkOf(g) \in confirmed'[kk]
                   /\ pc'[g] \notin {"clock", "tail"}
                   /\ post'[g] # Nil => /\ pc'[g] \in {"relocate", "check", "drop"}
                                        /\ post'[g] # kk /\ deleted'[post'[g]]
                                        /\ confirmed'[post'[g]] = Chunks
        <4>1. CASE g = h
          BY <1>0, <2>9, <3>2, <3>3, <4>1 DEF Late
        <4>2. CASE g # h
          <5>1. post[g] # Nil => post[g] \in Keys
            BY <1>0
          <5> QED
            BY <1>0, <2>1, <2>9, <3>2, <3>4, <4>2, <5>1 DEF StageInv, InPlacer
        <4> QED
          BY <4>1, <4>2
      <3>6. \A k \in Keys \ {kk} : swapMap'[k] = swapMap[k] /\ (~deleted'[k] => ~deleted[k])
        BY <3>2
      <3>7. Relocating(kk)'
        BY <2>6, <3>2
      <3> QED
        BY <2>1, <2>4, <2>9, <3>2, <3>5, <3>6, <3>7 DEF StageInv
    <2>10. ASSUME UNCHANGED <<confirmed, deleted, swapMap>>,
                  ClockPass(h) \/ ClockTail(h)
           PROVE  StageInv'
      <3>1. UNCHANGED <<pc, post>> /\ pc[h] \in {"clock", "tail"}
        BY <2>10 DEF ClockPass, ClockTail, AtSlot, handlerVars
      <3>2. \A k \in Keys : confirmed[k] = {} => pos'[k] = pos[k]
        <4>1. CASE ClockPass(h)
          <5>1. PICK m \in Keys : m = Slot /\ cursor \in 1..Len(objects[primary])
            BY <1>0, <4>1, SlotFacts DEF ClockPass, IInv
          <5>2. confirmed[m] # {} /\ pos' = CopiedPos(m)
            BY <3>1, <4>1, <5>1, ListedWhole DEF Slot, ClockPass
          <5> QED
            BY <5>2 DEF CopiedPos
        <4>2. CASE ClockTail(h)
          <5>0. pc[h] = "tail" /\ idx[h] \in 1..Len(objects[primary]) /\ objects[primary] \in Seq(Keys \cup {Nil})
            BY SMTT(30), <1>0, <4>2 DEF ClockTail, IInv, ClockInBounds, ClockType
          <5>1. CASE objects[primary][idx[h]] = Nil
            BY <4>2, <5>1 DEF ClockTail
          <5>2. CASE objects[primary][idx[h]] # Nil
            <6>1. PICK m \in Keys : m = objects[primary][idx[h]]
              BY <5>0, <5>2
            <6>2. confirmed[m] # {} /\ pos' = CopiedPos(m)
              BY <4>2, <5>0, <5>2, <6>1, ListedWhole DEF ClockTail
            <6> QED
              BY <6>2 DEF CopiedPos
          <5> QED
            BY <5>1, <5>2
        <4> QED
          BY <2>10, <4>1, <4>2
      <3>3. \A k \in Keys : Relocating(k)' <=> Relocating(k)
        BY <2>4, <2>5, <2>6, <3>1
      <3> QED
        BY <2>1, <2>10, <3>1, <3>2, <3>3 DEF StageInv
    <2>11. ASSUME UNCHANGED <<confirmed, deleted, swapMap>>,
                 \/ LockMeta(h) /\ ~deleted[kk] /\ UNCHANGED pmVars
                 \/ Insert(h) \/ AlreadyConfirmed(h) \/ EvictedMeanwhile(h) \/ Overweight(h)
                 \/ ClockStart(h) \/ ClockSkip(h) \/ ClockBound(h) \/ ClockSwitch(h)
                 \/ Relocate(h) \/ NotSet(h) \/ IsSet(h) \/ DropEvicted(h) \/ Send(h)
          PROVE  StageInv'
      <3>1. UNCHANGED pos
        BY <2>11 DEF LockMeta, Insert, AlreadyConfirmed, EvictedMeanwhile, Overweight, ClockStart,
             ClockSkip, ClockBound, ClockSwitch, Relocate, NotSet, IsSet, DropEvicted, Send, pmVars
      <3>2. pc[h] = "relocate" <=> pc'[h] = "relocate"
        BY <1>0, <2>11 DEF LockMeta, Insert, AlreadyConfirmed, EvictedMeanwhile, EnterPlacer, Return,
             Overweight, ClockStart, ClockSkip, ClockBound, ClockSwitch, AtSlot, Relocate, NotSet, IsSet,
             DropEvicted, Send, handlerVars
      <3>3. \A k \in Keys : Relocating(k)' <=> Relocating(k)
        BY <2>1, <2>4, <2>5, <2>6, <3>2
      <3>4. /\ pc'[h] \in Late => pc[h] \in Late \/ ChunkOf(h) \in confirmed[kk]
            /\ pc'[h] \in {"clock", "tail"} => pc[h] \in {"clock", "tail"} \/ swapMap[kk] = Nil
        BY ZenonT(30), <1>0, <2>0, <2>3, <2>11 DEF Late, Early, LockMeta, Insert, AlreadyConfirmed, IsConfirmed,
             EvictedMeanwhile, EnterPlacer, Evicted, Return, Overweight, ClockStart, ClockSkip, ClockBound,
             ClockSwitch, AtSlot, Relocate, NotSet, IsSet, DropEvicted, Send, handlerVars
      <3>5. post'[h] # Nil => /\ post'[h] = post[h]
                              /\ pc[h] \in {"relocate", "check", "drop"} =>
                                    pc'[h] \in {"relocate", "check", "drop"}
        BY <1>0, <2>11 DEF LockMeta, Insert, AlreadyConfirmed, EvictedMeanwhile, EnterPlacer, Return,
             Overweight, ClockStart, ClockSkip, ClockBound, ClockSwitch, AtSlot, Relocate, NotSet, IsSet,
             DropEvicted, Send, handlerVars
      <3>6. \A g \in Handlers :
               /\ pc'[g] \in Late => pc[g] \in Late \/ ChunkOf(g) \in confirmed[kk]
               /\ pc'[g] \in {"clock", "tail"} => pc[g] \in {"clock", "tail"} \/ swapMap[kk] = Nil
               /\ post'[g] # Nil => /\ post'[g] = post[g]
                                    /\ pc[g] \in {"relocate", "check", "drop"} =>
                                          pc'[g] \in {"relocate", "check", "drop"}
        BY <2>1, <3>4, <3>5
      <3> QED
        BY <2>1, <2>11, <3>1, <3>3, <3>6 DEF StageInv
    <2> QED
      BY <1>0, <1>4, <2>0, <2>7, <2>8, <2>9, <2>10, <2>11, MetaMoves
  <1> QED
    BY <1>1, <1>2, <1>3, <1>4 DEF Next

(***************************************************************************)
(* The list.                                                               *)
(***************************************************************************)

\* Steps outside Place and the clock change neither the arrays nor what the metas of the
\* objects on them record.
LEMMA QuietMeta ==
    ASSUME OneWriter, IInv, WholeInv, StageInv, ListInv, [Next]_vars,
           ~\E h \in Handlers : Place(h) \/ Clock(h)
    PROVE  \A k \in Keys :
              \/ /\ ~deleted[k] /\ ~deleted'[k] /\ UNCHANGED <<pos[k], swapMap[k]>>
                 /\ confirmed[k] \subseteq confirmed'[k]
                 /\ confirmed'[k] # {} \/ Relocating(k)' => confirmed[k] # {} \/ Relocating(k)
              \/ deleted'[k]
              \/ ~Relocating(k)' /\ confirmed'[k] = {} /\ \A x \in 0..1 : pos'[k][x] = 0
  <1> USE DEF TypeOK, HandlerType, MetaType, PlacerMetaType
  <1>0. TypeOK /\ HandlerInv /\ LockInv
    BY DEF IInv
  <1>1. ASSUME UNCHANGED <<deleted, pos, swapMap, confirmed>>,
               \A k \in Keys : Relocating(k)' => Relocating(k)
        PROVE  \A k \in Keys :
              \/ /\ ~deleted[k] /\ ~deleted'[k] /\ UNCHANGED <<pos[k], swapMap[k]>>
                 /\ confirmed[k] \subseteq confirmed'[k]
                 /\ confirmed'[k] # {} \/ Relocating(k)' => confirmed[k] # {} \/ Relocating(k)
              \/ deleted'[k]
    BY <1>1
  <1>2. CASE UNCHANGED vars
    <2>1. \A k \in Keys : Relocating(k)' <=> Relocating(k)
      BY <1>2 DEF Relocating, KeyOf, vars, handlerVars, clientVars
    <2> QED
      BY <1>1, <1>2, <2>1 DEF vars, metaVars, pmVars
  <1>3. CASE \/ \E cl \in Clients, k \in Keys, s \in Sizes : EcSet(cl, k, s)
             \/ \E cl \in Clients, k \in Keys : Recover(cl, k)
    <2>1. \A h \in Handlers : pc'[h] \in {"idle", "insert"}
      BY <1>0, <1>3, BeginFacts
    <2>2. UNCHANGED <<deleted, pos, swapMap, confirmed>>
      BY <1>0, <1>3, BeginFacts DEF metaVars, pmVars
    <2>3. \A k \in Keys : ~Relocating(k)'
      BY <2>1 DEF Relocating
    <2> QED
      BY <1>1, <2>2, <2>3
  <1>4. CASE \E k \in Keys, c \in Chunks : Get(k, c)
    <2>1. \A k \in Keys : Relocating(k)' <=> Relocating(k)
      BY <1>4 DEF Get, Relocating, KeyOf, handlerVars, clientVars
    <2> QED
      BY <1>1, <1>4, <2>1 DEF Get, metaVars
  <1>5. ASSUME NEW h \in Handlers, HandleSet(h)
        PROVE  \A k \in Keys :
              \/ /\ ~deleted[k] /\ ~deleted'[k] /\ UNCHANGED <<pos[k], swapMap[k]>>
                 /\ confirmed[k] \subseteq confirmed'[k]
                 /\ confirmed'[k] # {} \/ Relocating(k)' => confirmed[k] # {} \/ Relocating(k)
              \/ deleted'[k]
              \/ ~Relocating(k)' /\ confirmed'[k] = {} /\ \A x \in 0..1 : pos'[k][x] = 0
    <2>0. PICK kk \in Keys : kk = KeyOf(h)
      BY <1>0, <1>5, HandlerMoves, OnlyBusy
    <2>1. /\ \A g \in Handlers : KeyOf(g)' = kk /\ KeyOf(g) = kk
          /\ \A g \in Handlers \ {h} : pc'[g] = pc[g]
          /\ pc[h] # "idle"
      BY <1>0, <1>5, <2>0, HandlerMoves, OneKey
    <2>2. \A k \in Keys : (Relocating(k) <=> k = kk /\ \E g \in Handlers : pc[g] = "relocate")
                          /\ (Relocating(k)' <=> k = kk /\ \E g \in Handlers : pc'[g] = "relocate")
      BY <2>1 DEF Relocating
    <2>3. deleted[kk] => \A g \in Handlers : pc[g] \in Early
      BY <2>1 DEF WholeInv, Busy
    <2>4. CASE StartsOver(h)
      <3>1. /\ deleted[kk] /\ deleted' = [deleted EXCEPT ![kk] = FALSE] /\ pc'[h] = "placer"
            /\ confirmed' = [confirmed EXCEPT ![kk] = {}]
            /\ pos' = [pos EXCEPT ![kk] = [x \in 0..1 |-> 0]]
            /\ swapMap' = [swapMap EXCEPT ![kk] = Nil]
        BY <2>0, <2>4 DEF StartsOver
      <3>2. \A g \in Handlers : pc'[g] # "relocate"
        BY <2>1, <2>3, <3>1 DEF Early
      <3>3. /\ confirmed'[kk] = {} /\ \A x \in 0..1 : pos'[kk][x] = 0
            /\ \A k \in Keys \ {kk} : UNCHANGED <<deleted[k], confirmed[k], pos[k], swapMap[k]>>
        BY <1>0, <3>1
      <3> QED
        BY <1>0, <2>2, <3>2, <3>3
    <2>5. CASE Confirms(h) /\ (TakeSwapped(h) \/ Relocated(h))
      <3>1. /\ UNCHANGED <<deleted, swapMap>> /\ ~deleted[kk] /\ pc'[h] = "check"
            /\ confirmed' = [confirmed EXCEPT ![kk] = @ \cup {ChunkOf(h)}]
        BY <2>0, <2>5 DEF Confirms
      <3>2. UNCHANGED pos
        BY <2>5 DEF TakeSwapped, Relocated
      <3>3. confirmed[kk] # {} \/ Relocating(kk)
        <4>1. CASE Relocated(h)
          BY <2>2, <4>1 DEF Relocated
        <4>2. CASE TakeSwapped(h)
          BY <2>0, <3>1, <4>2 DEF TakeSwapped, StageInv
        <4> QED
          BY <2>5, <4>1, <4>2
      <3>4. \A k \in Keys : Relocating(k)' => Relocating(k)
        BY <2>1, <2>2, <3>1
      <3>5. \A k \in Keys : confirmed[k] \subseteq confirmed'[k] /\ (k # kk => confirmed'[k] = confirmed[k])
        BY <1>0, <3>1
      <3> QED
        BY <1>0, <3>1, <3>2, <3>3, <3>4, <3>5
    <2>6. CASE /\ UNCHANGED <<confirmed, deleted, swapMap>>
               /\ \/ LockMeta(h) /\ ~deleted[kk] /\ UNCHANGED pmVars
                  \/ Insert(h) \/ AlreadyConfirmed(h) \/ EvictedMeanwhile(h) \/ Overweight(h)
                  \/ Relocate(h) \/ NotSet(h) \/ IsSet(h) \/ DropEvicted(h) \/ Send(h)
      <3>1. UNCHANGED pos
        BY <2>6 DEF LockMeta, Insert, AlreadyConfirmed, EvictedMeanwhile, Overweight, Relocate,
             NotSet, IsSet, DropEvicted, Send, pmVars
      <3>2. pc'[h] = "relocate" => pc[h] = "relocate"
        BY <1>0, <2>6 DEF LockMeta, Insert, AlreadyConfirmed, EvictedMeanwhile, Return,
             Overweight, Relocate, NotSet, IsSet, DropEvicted, Send
      <3>3. \A k \in Keys : Relocating(k)' => Relocating(k)
        BY <2>1, <2>2, <3>2
      <3> QED
        BY <1>1, <2>6, <3>1, <3>3
    <2> QED
      BY <1>0, <1>5, <2>0, <2>4, <2>5, <2>6, MetaMoves DEF Clock
  <1> QED
    BY <1>2, <1>3, <1>4, <1>5 DEF Next

\* The list after such a step.
LEMMA QuietList ==
    ASSUME OneWriter, IInv, IInv', WholeInv, StageInv, ListInv, [Next]_vars,
           ~\E h \in Handlers : Place(h) \/ Clock(h)
    PROVE  ListInv'
  <1> USE DEF TypeOK, HandlerType, MetaType, PlacerMetaType, ClockType
  <1>0. TypeOK /\ TypeOK' /\ primary \in 0..1 /\ secondary \in 0..1
    BY DEF IInv, secondary
  <1>1. ClockQuiet
    BY <1>0, QuietSteps
  <1>2. /\ UNCHANGED <<objects, cursor, primary, secondary>>
        /\ \A n : Passed(n)' <=> Passed(n)
    BY <1>1 DEF ClockQuiet, Passed, secondary
  <1>3. \A k \in Keys :
              \/ /\ ~deleted[k] /\ ~deleted'[k] /\ UNCHANGED <<pos[k], swapMap[k]>>
                 /\ confirmed[k] \subseteq confirmed'[k]
                 /\ confirmed'[k] # {} \/ Relocating(k)' => confirmed[k] # {} \/ Relocating(k)
              \/ deleted'[k]
              \/ ~Relocating(k)' /\ confirmed'[k] = {} /\ \A x \in 0..1 : pos'[k][x] = 0
    BY QuietMeta
  <1>4. \A k \in Keys : ~deleted[k] => ~deleted'[k] /\ pos'[k] = pos[k]
    <2>1. CASE UNCHANGED <<deleted, pos>>
      BY <2>1
    <2>2. ASSUME NEW h \in Handlers, LockMeta(h) 
          PROVE  \A k \in Keys : ~deleted[k] => ~deleted'[k] /\ pos'[k] = pos[k]
      BY <1>0, <2>2 DEF LockMeta, pmVars
    <2>3. CASE UNCHANGED vars \/ \E k \in Keys, c \in Chunks : Get(k, c)
      BY <2>1, <2>3 DEF vars, Get, metaVars, pmVars
    <2>4. CASE \/ \E cl \in Clients, k \in Keys, s \in Sizes : EcSet(cl, k, s)
               \/ \E cl \in Clients, k \in Keys : Recover(cl, k)
      BY <1>0, <2>1, <2>4, BeginFacts DEF metaVars, pmVars
    <2>5. ASSUME NEW h \in Handlers,
               \/ Insert(h) \/ AlreadyConfirmed(h) \/ EvictedMeanwhile(h)
               \/ TakeSwapped(h) \/ Overweight(h)
               \/ Relocate(h) \/ Relocated(h) \/ NotSet(h) \/ IsSet(h) \/ DropEvicted(h)
               \/ Send(h)
          PROVE  UNCHANGED <<deleted, pos>>
      BY <2>5 DEF Insert, AlreadyConfirmed, EvictedMeanwhile, TakeSwapped, Overweight, Relocate,
                  Relocated, NotSet, IsSet, DropEvicted, Send, metaVars, pmVars
    <2> QED
      BY <2>1, <2>2, <2>3, <2>4, <2>5 DEF Next, HandleSet
  <1>5. \A x \in 0..1 : \A n \in 1..Len(objects[x]) : Exact(x, n) => Exact(x, n)'
    <2> SUFFICES ASSUME NEW x \in 0..1, NEW n \in 1..Len(objects[x]), Exact(x, n), objects[x][n] # Nil
                 PROVE  ~deleted'[objects[x][n]] /\ pos'[objects[x][n]][x] = n
      BY <1>2 DEF Exact
    <2>1. objects[x][n] \in Keys
      BY <1>0
    <2> QED
      BY <1>4, <2>1 DEF Exact
  <1>6. ASSUME cursor # 0, NEW n \in 1..Len(objects[secondary])
        PROVE  \E k \in Keys : /\ k = objects[secondary][n] /\ Exact(secondary, n)'
                              /\ pos'[k][primary] # 0 /\ Passed(pos[k][primary])'
    <2>1. PICK k \in Keys : k = objects[secondary][n]
      BY <1>0, <1>6 DEF ListInv
    <2>2. Exact(secondary, n) /\ pos[k][primary] # 0 /\ Passed(pos[k][primary])
      BY <1>6, <2>1 DEF ListInv
    <2>3. ~deleted[k] /\ pos'[k] = pos[k]
      BY <1>4, <2>1, <2>2, NilAssumption DEF Exact
    <2>4. Exact(secondary, n)'
      BY <1>0, <1>2, <1>5, <1>6, <2>2 DEF Exact
    <2>5. Passed(pos[k][primary])'
      BY <1>2, <2>2, <2>3
    <2> QED
      BY <2>1, <2>2, <2>3, <2>4, <2>5
  <1>7. \A k \in Keys : ~deleted'[k] /\ (confirmed'[k] # {} \/ Relocating(k)') => pos'[k][primary] # 0
    BY <1>0, <1>3 DEF ListInv
  <1>8. ASSUME NEW k \in Keys, ~deleted'[k], confirmed'[k] # Chunks, swapMap'[k] = Nil
        PROVE  /\ pos'[k][primary] \in {0, Len(objects[primary])}
               /\ pos'[k][primary] # 0 /\ Passed(pos'[k][primary]) =>
                    pos'[k][secondary] = Len(objects[secondary])
    <2>1. CASE pos'[k][primary] = 0
      BY <2>1
    <2>2. CASE pos'[k][primary] # 0
      <3>1. /\ ~deleted[k] /\ UNCHANGED <<pos[k], swapMap[k]>> /\ confirmed[k] \subseteq confirmed'[k]
        BY <1>0, <1>3, <1>8, <2>2
      <3>2. confirmed[k] # Chunks /\ pos'[k] = pos[k] /\ swapMap[k] = Nil
        <4>1. confirmed'[k] \subseteq Chunks
          BY <1>0
        <4>2. confirmed[k] # Chunks
          BY <1>8, <3>1, <4>1
        <4> QED
          BY <1>8, <3>1, <4>2
      <3>3. /\ pos[k][primary] \in {0, Len(objects[primary])}
            /\ pos[k][primary] # 0 /\ Passed(pos[k][primary]) =>
                    pos[k][secondary] = Len(objects[secondary])
        BY <3>1, <3>2 DEF ListInv
      <3> QED
        BY <3>2, <3>3
    <2> QED
      BY <2>1, <2>2
  <1>9. \A n \in 1..Len(objects[primary]) : Exact(primary, n)'
    BY <1>0, <1>2, <1>5 DEF ListInv, Exact
  <1>10. ASSUME NEW k \in Keys, ~deleted'[k], confirmed'[k] # Chunks, swapMap'[k] = Nil
         PROVE  /\ pos'[k][primary] \in {0, Len(objects[primary])}
                /\ pos'[k][primary] # 0 /\ Passed(pos[k][primary])' =>
                     pos'[k][secondary] = Len(objects[secondary])
    BY <1>2, <1>8, <1>10
  <1> QED
    BY <1>2, <1>6, <1>7, <1>9, <1>10, NilAssumption DEF ListInv

\* An object is appended to the primary array: the only one that looks for room.
LEMMA PlaceList ==
    ASSUME OneWriter, IInv, WholeInv, StageInv, ListInv, NEW h \in Handlers, Place(h)
    PROVE  ListInv'
  <1> USE DEF TypeOK, HandlerType, MetaType, PlacerMetaType, ClockType
  <1>0. TypeOK /\ HandlerInv /\ LockInv /\ ClockInBounds
    BY DEF IInv
  <1>1. /\ primary \in 0..1 /\ secondary \in 0..1 /\ primary # secondary /\ primary' = primary
        /\ secondary' = secondary /\ UNCHANGED <<cursor, deleted, swapMap>>
    BY <1>0 DEF Place, secondary
  <1>2. PICK kk \in Keys : kk = KeyOf(h)
    BY <1>0, HandlerFacts DEF Place, EnterPlacer
  <1>3. /\ \A g \in Handlers : KeyOf(g)' = kk /\ KeyOf(g) = kk
        /\ \A g \in Handlers \ {h} : pc'[g] = pc[g]
    BY <1>0, <1>2, HandlerMoves, OneKey DEF HandleSet
  <1>4. /\ pc[h] = "placer" /\ placerMu = Nil /\ pc'[h] = "check" /\ ~deleted[kk] /\ swapMap[kk] = Nil
        /\ confirmed' = [confirmed EXCEPT ![kk] = @ \cup {ChunkOf(h)}]
    BY <1>0, <1>2 DEF Place, EnterPlacer, Return, Confirm, Evicted
  <1>5. \A g \in Handlers : pc[g] \notin InPlacer
    BY <1>0, <1>4, NilAssumption DEF LockInv
  <1>6. \A k : ~Relocating(k) /\ ~Relocating(k)'
    BY <1>3, <1>4, <1>5 DEF Relocating, InPlacer
  <1>7. \A n : /\ Passed(n) <=> cursor # 0 /\ n < cursor
               /\ Passed(n)' <=> cursor # 0 /\ n < cursor
    BY <1>1, <1>3, <1>4, <1>5 DEF Passed, InPlacer
  <1>8. \A k \in Keys \ {kk} : confirmed'[k] = confirmed[k] /\ ~Busy(k)
    BY <1>3, <1>4 DEF Busy
  <1>9. CASE pos[kk][primary] # 0
    <2>1. UNCHANGED <<pos, objects>>
      BY <1>2, <1>9 DEF Place
    <2>2. \A x \in 0..1 : \A n : Exact(x, n)' <=> Exact(x, n)
      BY <1>1, <2>1 DEF Exact
    <2>3. \A k \in Keys : confirmed[k] \subseteq confirmed'[k] /\ (confirmed'[k] # {} => k = kk \/ confirmed[k] # {})
      BY <1>0, <1>4
    <2>4. \A k \in Keys : confirmed'[k] # Chunks => confirmed[k] # Chunks
      <3> SUFFICES ASSUME NEW k \in Keys, confirmed[k] = Chunks PROVE confirmed'[k] = Chunks
        OBVIOUS
      <3>1. ChunkOf(h) \in Chunks
        BY OneKey
      <3> QED
        BY <1>0, <1>4, <3>1
    <2>5. \A n : Passed(n)' <=> Passed(n)
      BY <1>7
    <2> QED
      BY <1>1, <1>6, <1>9, <2>1, <2>2, <2>3, <2>4, <2>5 DEF ListInv
  <1>10. CASE pos[kk][primary] = 0
    <2> DEFINE L == Len(objects[primary])
    <2>1. /\ pos' = [pos EXCEPT ![kk][primary] = L + 1]
          /\ objects' = [objects EXCEPT ![primary] = Append(@, kk)]
      BY <1>2, <1>10 DEF Place, AddObject
    <2>2. objects[primary] \in Seq(Keys \cup {Nil}) /\ L \in Nat
      BY <1>0, <1>1
    <2>3. /\ objects'[primary] = Append(objects[primary], kk) /\ Len(objects'[primary]) = L + 1
          /\ objects'[secondary] = objects[secondary]
          /\ \A n \in 1..L : objects'[primary][n] = objects[primary][n]
          /\ objects'[primary][L + 1] = kk
      BY <1>0, <1>1, <2>1, <2>2
    <2>4. /\ pos'[kk][primary] = L + 1
          /\ \A k \in Keys \ {kk} : pos'[k] = pos[k]
      BY <1>0, <1>1, <2>1
    <2> HIDE DEF L
    <2>5. ASSUME NEW n \in 1..(L + 1) PROVE Exact(primary, n)'
      <3>1. CASE n = L + 1
        BY <1>1, <1>4, <2>3, <2>4, <3>1 DEF Exact
      <3>2. CASE n \in 1..L /\ objects[primary][n] # Nil
        <4>1. objects[primary][n] \in Keys
          BY <2>2, <3>2 DEF L
        <4>2. Exact(primary, n)
          BY <3>2 DEF ListInv, L
        <4>3. objects[primary][n] # kk
          BY <1>10, <3>2, <4>2 DEF Exact
        <4> QED
          BY <1>1, <2>3, <2>4, <3>2, <4>1, <4>2, <4>3 DEF Exact
      <3>3. CASE n \in 1..L /\ objects[primary][n] = Nil
        BY <1>1, <2>3, <3>3 DEF Exact
      <3> QED
        BY <2>2, <3>1, <3>2, <3>3
    <2>6. ASSUME cursor # 0, NEW n \in 1..Len(objects[secondary])
          PROVE  \E k \in Keys : /\ k = objects[secondary][n] /\ Exact(secondary, n)'
                                 /\ pos'[k][primary] # 0 /\ Passed(pos[k][primary])'
      <3>1. objects[secondary][n] # Nil /\ Exact(secondary, n)
        BY <2>6 DEF ListInv
      <3>2. PICK k \in Keys : k = objects[secondary][n]
        BY <1>0, <1>1, <3>1
      <3>3. pos[k][primary] # 0 /\ Passed(pos[k][primary])
        BY <2>6, <3>2 DEF ListInv
      <3>4. k # kk /\ pos'[k] = pos[k]
        BY <1>10, <2>4, <3>3
      <3>5. Exact(secondary, n)'
        BY <1>1, <2>3, <3>1, <3>2, <3>4 DEF Exact
      <3>6. Passed(pos[k][primary])'
        <4>1. cursor # 0 /\ pos[k][primary] < cursor
          BY <1>7, <3>3
        <4> QED
          BY <1>1, <3>4, <4>1 DEF Passed
      <3> QED
        BY <3>2, <3>3, <3>4, <3>5, <3>6
    <2>7. \A k \in Keys : ~deleted[k] /\ confirmed'[k] # {} => pos'[k][primary] # 0
      BY <1>8, <2>2, <2>4 DEF ListInv
    <2>8. ASSUME NEW k \in Keys, ~deleted[k], confirmed'[k] # Chunks, swapMap[k] = Nil
          PROVE  /\ pos'[k][primary] \in {0, L + 1}
                 /\ pos'[k][primary] # 0 => ~Passed(pos[k][primary])'
      <3>1. CASE k = kk
        <4>1. ~(cursor # 0 /\ L + 1 < cursor)
          BY <1>0, <2>2 DEF ClockInBounds, L
        <4>2. ~Passed(pos[k][primary])'
          BY <1>1, <1>3, <1>4, <1>5, <2>4, <3>1, <4>1 DEF Passed, InPlacer
        <4> QED
          BY <2>4, <3>1, <4>2
      <3>2. CASE k # kk
        BY <1>1, <1>8, <2>4, <2>8, <3>2, FreshOrWhole
      <3> QED
        BY <3>1, <3>2
    <2> QED
      BY <1>1, <1>6, <2>3, <2>5, <2>6, <2>7, <2>8, NilAssumption DEF ListInv
  <1> QED
    BY <1>9, <1>10

\* The clock's hand goes on by one slot, which it copies to the secondary array.
LEMMA CopyList ==
    ASSUME OneWriter, IInv, WholeInv, StageInv, ListInv, NEW h \in Handlers,
           pc[h] \in {"clock", "tail"}, NEW q \in 1..Len(objects[primary]), NEW m \in Keys,
           objects[primary][q] = m, cursor # 0, cursor' # 0,
           UNCHANGED <<primary, deleted, confirmed, swapMap, pc, ec>>,
           pos' = CopiedPos(m), objects' = [objects EXCEPT ![secondary] = Append(@, m)],
           \A n \in Nat : n >= q => ~Passed(n),
           \A n \in Nat : Passed(n)' <=> Passed(n) \/ n = q
    PROVE  ListInv'
  <1> USE DEF TypeOK, HandlerType, MetaType, PlacerMetaType, ClockType
  <1>0. TypeOK
    BY DEF IInv
  <1>1. /\ primary \in 0..1 /\ secondary \in 0..1 /\ primary # secondary
        /\ secondary' = secondary
    BY <1>0 DEF secondary
  <1> DEFINE L == Len(objects[secondary])
  <1>2. objects[secondary] \in Seq(Keys \cup {Nil}) /\ L \in Nat
    BY <1>0, <1>1
  <1>3. /\ objects'[primary] = objects[primary] /\ Len(objects'[secondary]) = L + 1
        /\ \A n \in 1..L : objects'[secondary][n] = objects[secondary][n]
        /\ objects'[secondary][L + 1] = m
    BY <1>0, <1>1, <1>2
  <1>4. /\ pos'[m][secondary] = L + 1
        /\ \A k \in Keys : pos'[k][primary] = pos[k][primary] /\ pos[k][primary] \in Nat
        /\ \A k \in Keys \ {m} : pos'[k] = pos[k]
    BY <1>0, <1>1 DEF CopiedPos
  <1> HIDE DEF L
  <1>5. ~deleted[m] /\ pos[m][primary] = q
    BY ListedWhole
  <1>6. ASSUME NEW n \in 1..Len(objects[primary]) PROVE Exact(primary, n)'
    <2>1. Exact(primary, n)
      BY DEF ListInv
    <2>2. objects[primary][n] \in Keys \cup {Nil}
      BY <1>0, <1>1
    <2> QED
      BY <1>1, <1>3, <1>4, <2>1, <2>2 DEF Exact
  <1>7. ASSUME NEW n \in 1..(L + 1)
        PROVE  \E k \in Keys : /\ k = objects'[secondary][n] /\ Exact(secondary, n)'
                               /\ pos'[k][primary] # 0 /\ Passed(pos[k][primary])'
    <2>1. CASE n = L + 1
      <3>1. Exact(secondary, n)'
        BY <1>1, <1>3, <1>4, <1>5, <2>1 DEF Exact
      <3>2. Passed(q)' /\ q # 0
        OBVIOUS
      <3>3. Passed(pos[m][primary])'
        BY <1>4, <1>5, <3>2
      <3> QED
        BY <1>3, <1>4, <1>5, <2>1, <3>1, <3>2, <3>3
    <2>2. CASE n \in 1..L
      <3>1. objects[secondary][n] # Nil /\ Exact(secondary, n)
        BY <2>2 DEF ListInv, L
      <3>2. PICK k \in Keys : k = objects[secondary][n]
        BY <1>2, <2>2, <3>1 DEF L
      <3>3. pos[k][primary] # 0 /\ Passed(pos[k][primary])
        BY <2>2, <3>2 DEF ListInv, L
      <3>4. k # m
        BY <1>5, <3>3
      <3>5. Exact(secondary, n)'
        BY <1>1, <1>3, <1>4, <2>2, <3>1, <3>2, <3>4 DEF Exact
      <3>6. Passed(pos[k][primary])'
        BY <1>4, <3>3
      <3> QED
        BY <1>3, <1>4, <2>2, <3>2, <3>3, <3>5, <3>6
    <2>3. n = L + 1 \/ n \in 1..L
      BY <1>2
    <2> QED
      BY <2>1, <2>2, <2>3
  <1>8. \A k : Relocating(k)' <=> Relocating(k)
    BY DEF Relocating, KeyOf
  <1>9. ASSUME NEW k \in Keys, ~deleted[k], confirmed[k] # Chunks, swapMap[k] = Nil,
               pos[k][primary] # 0
        PROVE  /\ pos'[k][primary] = Len(objects[primary])
               /\ Passed(pos[k][primary])' => pos'[k][secondary] = L + 1
    <2>1. pos[k][primary] = Len(objects[primary])
      BY <1>9 DEF ListInv
    <2>2. ~Passed(pos[k][primary])
      BY <1>4, <2>1
    <2>3. CASE pos[k][primary] = q
      <3>1. OnArray(primary, k)
        BY <1>9 DEF IInv, PosInv
      <3>2. k = m
        BY <2>3, <3>1 DEF OnArray
      <3> QED
        BY <1>4, <2>1, <3>2
    <2>4. CASE pos[k][primary] # q
      BY <1>4, <2>1, <2>2, <2>4
    <2> QED
      BY <2>3, <2>4
  <1>10. \A k \in Keys : ~deleted[k] /\ (confirmed[k] # {} \/ Relocating(k)) => pos'[k][primary] # 0
    BY <1>4 DEF ListInv
  <1>11. \A k \in Keys : ~deleted[k] /\ confirmed[k] # Chunks /\ swapMap[k] = Nil =>
          /\ pos'[k][primary] \in {0, Len(objects[primary])}
          /\ pos'[k][primary] # 0 /\ Passed(pos[k][primary])' => pos'[k][secondary] = L + 1
    BY <1>4, <1>9
  <1> QED
    BY <1>1, <1>3, <1>6, <1>7, <1>8, <1>10, <1>11, NilAssumption DEF ListInv

\* The hand passes an empty slot.
LEMMA SkipList ==
    ASSUME OneWriter, IInv, WholeInv, StageInv, ListInv,
           NEW q \in 1..Len(objects[primary]), objects[primary][q] = Nil, cursor # 0, cursor' # 0,
           UNCHANGED <<primary, deleted, confirmed, swapMap, pc, ec, pos, objects>>,
           \A n \in Nat : Passed(n)' <=> Passed(n) \/ n = q
    PROVE  ListInv'
  <1> USE DEF TypeOK, HandlerType, MetaType, PlacerMetaType, ClockType
  <1>0. TypeOK /\ primary \in 0..1 /\ secondary' = secondary
    BY DEF IInv, secondary
  <1>1. \A x, n : Exact(x, n)' <=> Exact(x, n)
    BY DEF Exact
  <1>2. \A k : Relocating(k)' <=> Relocating(k)
    BY DEF Relocating, KeyOf
  <1>3. ASSUME NEW k \in Keys, ~deleted[k], pos[k][primary] # 0
        PROVE  Passed(pos[k][primary])' <=> Passed(pos[k][primary])
    <2>1. OnArray(primary, k)
      BY <1>3 DEF IInv, PosInv
    <2>2. pos[k][primary] # q /\ pos[k][primary] \in Nat /\ pos'[k][primary'] = pos[k][primary]
      BY <1>0, <2>1, NilAssumption DEF OnArray
    <2> QED
      BY <2>2
  <1>4. ASSUME NEW n \in 1..Len(objects[secondary])
        PROVE  \E k \in Keys : /\ k = objects[secondary][n] /\ Exact(secondary, n)'
                               /\ pos[k][primary] # 0 /\ Passed(pos[k][primary])'
    <2>1. objects[secondary][n] # Nil /\ Exact(secondary, n)
      BY DEF ListInv
    <2>2. PICK k \in Keys : k = objects[secondary][n]
      BY <1>0, <2>1 DEF secondary
    <2>3. pos[k][primary] # 0 /\ Passed(pos[k][primary])
      BY <2>2 DEF ListInv
    <2>6. ~deleted[k]
      BY <2>1, <2>2 DEF Exact
    <2>4. Exact(secondary, n)'
      BY <1>0, <1>1, <2>1 DEF Exact
    <2>5. Passed(pos[k][primary])'
      BY <1>3, <2>3, <2>6
    <2> QED
      BY <2>2, <2>3, <2>4, <2>5
  <1>5. \A n \in 1..Len(objects[primary]) : Exact(primary, n)'
    BY <1>1 DEF ListInv, Exact
  <1> QED
    BY <1>0, <1>2, <1>3, <1>4, <1>5, NilAssumption DEF ListInv

\* An object takes the slot of its victim. It was the last of the list, so that the hand
\* has not passed it and no copy of it is left behind.
LEMMA EvictList ==
    ASSUME OneWriter, IInv, WholeInv, StageInv, ListInv, NEW h \in Handlers, ClockEvict(h)
    PROVE  ListInv'
  <1> USE DEF TypeOK, HandlerType, MetaType, PlacerMetaType, ClockType
  <1>0. TypeOK /\ HandlerInv /\ LockInv /\ ClockInBounds /\ PosInv
    BY DEF IInv
  <1>1. /\ primary \in 0..1 /\ secondary \in 0..1 /\ primary # secondary /\ primary' = primary
        /\ secondary' = secondary
    BY <1>0 DEF ClockEvict, secondary
  <1>2. PICK kk \in Keys, m \in Keys : kk = KeyOf(h) /\ m = Slot
    BY <1>0, SlotFacts, HandlerFacts DEF ClockEvict, AtSlot
  <1> DEFINE P == objects[primary]
             S == objects[secondary]
  <1>3. /\ cursor \in 1..Len(P) /\ P[cursor] = m /\ m # kk /\ cursor' = cursor + 1
        /\ pc[h] = "clock" /\ pc'[h] = "relocate" /\ cursor # 0
        /\ deleted' = [deleted EXCEPT ![m] = TRUE]
        /\ swapMap' = [swapMap EXCEPT ![kk] = placement[m]]
        /\ UNCHANGED confirmed
    BY <1>0, <1>2, SlotFacts DEF ClockEvict, AtSlot, Slot, ClockUnchanged
  <1>4. /\ P \in Seq(Keys \cup {Nil}) /\ S \in Seq(Keys \cup {Nil}) /\ Len(P) \in Nat /\ Len(S) \in Nat
    BY <1>0, <1>1
  <1>5. /\ Len(objects'[primary]) = Len(P) /\ Len(objects'[secondary]) = Len(S) + 1
        /\ \A n \in 1..Len(P) : objects'[primary][n] =
               IF n = cursor THEN kk ELSE IF n = pos[kk][primary] THEN Nil ELSE P[n]
        /\ \A n \in 1..Len(S) : objects'[secondary][n] = S[n]
        /\ objects'[secondary][Len(S) + 1] = kk
    <2>1. objects' = [x \in 0..1 |-> IF x = primary THEN Replaced(kk) ELSE Append(S, kk)]
      BY <1>2 DEF ClockEvict
    <2>2. objects'[primary] = Replaced(kk) /\ objects'[secondary] = Append(S, kk)
      BY <1>1, <2>1
    <2> QED
      BY <1>4, <2>2 DEF Replaced
  <1>6. /\ pos'[kk][primary] = cursor /\ pos'[kk][secondary] = Len(S) + 1
        /\ \A k \in Keys \ {kk} : pos'[k] = pos[k]
        /\ \A k \in Keys : pos[k][primary] \in Nat
    <2>1. pos' = [pos EXCEPT ![kk] = [x \in 0..1 |-> IF x = primary THEN cursor ELSE Len(S) + 1]]
      BY <1>2 DEF ClockEvict
    <2> QED
      BY <1>0, <1>1, <2>1
  <1> HIDE DEF P, S
  <1>7. ~deleted[m] /\ pos[m][primary] = cursor
    BY <1>2, <1>3, ListedWhole DEF P
  <1>8. \A g \in Handlers \ {h} : pc[g] \notin InPlacer /\ pc'[g] = pc[g]
    BY <1>0, <1>3, Exclusion, HandlerMoves DEF InPlacer, HandleSet, Clock
  <1>9. \A n : /\ Passed(n) <=> n < cursor
               /\ Passed(n)' <=> n < cursor + 1
    BY <1>3, <1>8 DEF Passed, InPlacer
  <1>10. ~deleted[kk] /\ confirmed[kk] # Chunks /\ swapMap[kk] = Nil
    <2>1. ChunkOf(h) \notin confirmed[kk] /\ ChunkOf(h) \in Chunks /\ ~deleted[kk]
      BY <1>0, <1>2, <1>3, OneKey DEF HandlerInv, Locked, InPlacer
    <2> QED
      BY <1>2, <1>3, <2>1 DEF StageInv
  <1>11. \A k \in Keys : k # m => (deleted'[k] <=> deleted[k])
    BY <1>0, <1>3
  <1>12. ASSUME NEW n \in 1..Len(P) PROVE Exact(primary, n)'
    <2>1. CASE n = cursor
      BY <1>1, <1>3, <1>5, <1>6, <1>10, <1>11, <2>1 DEF Exact
    <2>2. CASE n # cursor /\ (n = pos[kk][primary] \/ P[n] = Nil)
      BY <1>1, <1>5, <2>2 DEF Exact
    <2>3. CASE n # cursor /\ n # pos[kk][primary] /\ P[n] # Nil
      <3>1. Exact(primary, n) /\ P[n] \in Keys
        BY <1>4, <2>3 DEF ListInv, P
      <3>2. ~deleted[P[n]] /\ pos[P[n]][primary] = n
        BY <2>3, <3>1 DEF Exact, P
      <3>3. P[n] # kk /\ P[n] # m
        BY <1>7, <2>3, <3>2
      <3>4. objects'[primary][n] = P[n]
        BY <1>5, <2>3
      <3> QED
        BY <1>1, <1>6, <1>11, <3>1, <3>2, <3>3, <3>4 DEF Exact
    <2> QED
      BY <2>1, <2>2, <2>3
  <1>13. ASSUME NEW n \in 1..(Len(S) + 1)
         PROVE  \E k \in Keys : /\ k = objects'[secondary][n] /\ Exact(secondary, n)'
                                /\ pos'[k][primary] # 0 /\ Passed(pos[k][primary])'
    <2>1. CASE n = Len(S) + 1
      <3>1. Exact(secondary, n)'
        BY <1>1, <1>3, <1>5, <1>6, <1>10, <1>11, <2>1 DEF Exact
      <3>2. Passed(pos[kk][primary])'
        BY <1>1, <1>3, <1>6 DEF Passed
      <3> QED
        BY <1>3, <1>5, <1>6, <2>1, <3>1, <3>2
    <2>2. CASE n \in 1..Len(S)
      <3>1. S[n] # Nil /\ Exact(secondary, n)
        BY <1>3, <2>2 DEF ListInv, S
      <3>2. PICK k \in Keys : k = S[n]
        BY <1>4, <2>2, <3>1
      <3>3. pos[k][primary] # 0 /\ Passed(pos[k][primary])
        BY <1>3, <2>2, <3>2 DEF ListInv, S
      <3>4. pos[k][primary] < cursor /\ k # m
        BY <1>7, <1>9, <3>3, <1>3
      <3>5. k # kk
        <4>1. pos[kk][primary] \in {0, Len(P)}
          BY <1>10 DEF ListInv, P
        <4> QED
          BY <1>3, <1>4, <3>3, <3>4, <4>1
      <3>6. ~deleted[k] /\ pos[k][secondary] = n
        BY <3>1, <3>2 DEF Exact, S
      <3>7. Exact(secondary, n)'
        BY <1>1, <1>5, <1>6, <1>11, <2>2, <3>2, <3>4, <3>5, <3>6 DEF Exact
      <3>8. Passed(pos[k][primary])'
        <4>1. pos'[k][primary'] = pos[k][primary]
          BY <1>1, <1>6, <3>5
        <4> QED
          BY <1>3, <1>6, <3>4, <4>1 DEF Passed
      <3> QED
        BY <1>5, <1>6, <2>2, <3>2, <3>3, <3>5, <3>7, <3>8
    <2>3. n = Len(S) + 1 \/ n \in 1..Len(S)
      BY <1>4
    <2> QED
      BY <2>1, <2>2, <2>3
  <1>14. ASSUME NEW k \in Keys, ~deleted'[k], confirmed'[k] # {} \/ Relocating(k)'
         PROVE  pos'[k][primary] # 0
    <2>1. CASE k = kk
      BY <1>3, <1>6, <2>1
    <2>2. CASE k # kk
      <3>1. k # m /\ ~deleted[k]
        BY <1>0, <1>3, <1>11, <1>14
      <3>2. ~Relocating(k)'
        BY <1>2, <2>2, OneKey, ClientUnchanged DEF Relocating, KeyOf, clientVars, HandleSet, Clock
      <3> QED
        BY <1>3, <1>6, <1>14, <2>2, <3>1, <3>2 DEF ListInv
    <2> QED
      BY <2>1, <2>2
  <1>15. ASSUME NEW k \in Keys, ~deleted'[k], confirmed'[k] # Chunks, swapMap'[k] = Nil
         PROVE  pos'[k][primary] = 0
    <2>1. k # kk
      <3>1. placement[m] \in Placements
        BY <1>0
      <3> QED
        BY <1>0, <1>3, <1>15, <3>1, NilAssumption
    <2>2. k # m /\ ~deleted[k] /\ ~Busy(k)
      BY <1>0, <1>2, <1>3, <1>11, <1>15, <2>1, OnlyBusy
    <2>3. \A x \in 0..1 : pos[k][x] = 0
      BY <1>3, <1>15, <2>2, FreshOrWhole
    <2> QED
      BY <1>1, <1>6, <2>1, <2>3
  <1> QED
    BY <1>1, <1>5, <1>12, <1>13, <1>14, <1>15, NilAssumption DEF ListInv

\* The hand has passed every slot, and the arrays change roles.
LEMMA SwitchList ==
    ASSUME OneWriter, IInv, WholeInv, StageInv, ListInv, NEW h \in Handlers, ClockSwitch(h)
    PROVE  ListInv'
  <1> USE DEF TypeOK, HandlerType, MetaType, PlacerMetaType, ClockType
  <1>0. TypeOK /\ HandlerInv /\ LockInv /\ ClockInBounds /\ PosInv
    BY DEF IInv
  <1>1. /\ primary \in 0..1 /\ secondary \in 0..1 /\ primary' = secondary /\ secondary' = primary
        /\ UNCHANGED <<objects, deleted, pos, swapMap, confirmed>> /\ cursor' = 0
        /\ pc[h] = "tail" /\ idx[h] > Len(objects[primary]) /\ pc'[h] = "clock"
    BY <1>0 DEF ClockSwitch, secondary, ClockUnchanged
  <1>2. cursor # 0 /\ \A n \in 1..Len(objects[primary]) : Passed(n)
    BY <1>0, <1>1 DEF ClockInBounds, Passed
  <1>3. ASSUME NEW k \in Keys, ~deleted[k], pos[k][primary] # 0
        PROVE  Passed(pos[k][primary]) /\ pos[k][secondary] # 0
    <2>1. OnArray(primary, k)
      BY <1>0, <1>3 DEF PosInv
    <2>2. Passed(pos[k][primary])
      BY <1>2, <2>1 DEF OnArray
    <2>3. OnArray(secondary, k)
      BY <1>0, <1>3, <2>2 DEF PosInv
    <2> QED
      BY <2>2, <2>3 DEF OnArray
  <1>4. ASSUME NEW k \in Keys, ~deleted[k], pos[k][primary] = 0
        PROVE  pos[k][secondary] = 0
    <2> SUFFICES ASSUME pos[k][secondary] # 0 PROVE FALSE
      OBVIOUS
    <2>1. OnArray(secondary, k)
      BY <1>0, <1>2, <1>4 DEF PosInv
    <2> QED
      BY <1>2, <1>4, <2>1 DEF OnArray, ListInv
  <1>5. \A n \in 1..Len(objects[secondary]) : Exact(primary, n)'
    BY <1>1, <1>2 DEF ListInv, Exact
  <1>6. \A k : Relocating(k)' <=> Relocating(k)
    <2>1. \A g \in Handlers : pc'[g] = "relocate" <=> pc[g] = "relocate"
      BY <1>0, <1>1 DEF ClockSwitch
    <2>2. ec' = ec
      BY DEF ClockSwitch, ClockUnchanged, clientVars
    <2> QED
      BY <2>1, <2>2 DEF Relocating, KeyOf
  <1>7. \A n : ~Passed(n)'
    BY <1>1 DEF Passed
  <1>8. \A k \in Keys : ~deleted[k] /\ confirmed[k] # Chunks /\ swapMap[k] = Nil =>
           pos[k][secondary] \in {0, Len(objects[secondary])}
    BY <1>3, <1>4 DEF ListInv
  <1>9. \A k \in Keys : ~deleted[k] /\ (confirmed[k] # {} \/ Relocating(k)) => pos[k][secondary] # 0
    BY <1>3 DEF ListInv
  <1>10. \A k \in Keys : ~Passed(pos[k][primary])'
    BY <1>1 DEF Passed
  <1> QED
    BY <1>1, <1>5, <1>6, <1>8, <1>9, <1>10 DEF ListInv

\* Every step keeps the list exact.
LEMMA ListStep ==
    ASSUME OneWriter, IInv, IInv', WholeInv, StageInv, ListInv, [Next]_vars
    PROVE  ListInv'
  <1> USE DEF TypeOK, HandlerType, MetaType, PlacerMetaType, ClockType
  <1>0. TypeOK /\ HandlerInv /\ LockInv /\ ClockInBounds
    BY DEF IInv
  <1>1. CASE ~\E h \in Handlers : Place(h) \/ Clock(h)
    BY <1>1, QuietList
  <1>2. ASSUME NEW h \in Handlers, Place(h) PROVE ListInv'
    BY <1>2, PlaceList
  <1>3. ASSUME NEW h \in Handlers, Clock(h) PROVE ListInv'
    <2>1. pc[h] \in {"clock", "tail"}
      BY <1>3 DEF Clock, ClockStart, ClockSkip, ClockPass, ClockEvict, ClockBound, ClockTail,
                  ClockSwitch, AtSlot
    <2>2. \A g \in Handlers \ {h} : pc[g] # "tail"
      BY <1>0, <2>1, Exclusion DEF InPlacer
    <2>3. UNCHANGED confirmed /\ ec' = ec
      BY <1>3 DEF Clock, ClockStart, ClockSkip, ClockPass, ClockEvict, ClockBound, ClockTail,
                  ClockSwitch, ClockUnchanged, clientVars
    <2>4. primary \in 0..1 /\ secondary \in 0..1 /\ primary # secondary
      BY <1>0 DEF secondary
    <2>5. CASE ClockStart(h)
      <3>1. /\ objects' = [objects EXCEPT ![secondary] = << >>] /\ cursor' = 1
            /\ UNCHANGED <<primary, deleted, pos, swapMap, pc, idx>> /\ pc[h] = "clock"
        BY <2>5 DEF ClockStart, handlerVars
      <3>2. objects'[primary] = objects[primary] /\ objects'[secondary] = << >> /\ secondary' = secondary
        BY <1>0, <2>4, <3>1 DEF secondary
      <3>3. \A k \in Keys : pos[k][primary] # 0 => ~Passed(pos[k][primary])'
        BY <1>0, <2>2, <2>4, <3>1 DEF Passed
      <3>4. \A n : Exact(primary, n)' <=> Exact(primary, n)
        BY <3>1, <3>2 DEF Exact
      <3>5. \A k : Relocating(k)' <=> Relocating(k)
        BY <2>3, <3>1 DEF Relocating, KeyOf
      <3> QED
        BY <2>3, <3>1, <3>2, <3>3, <3>4, <3>5 DEF ListInv
    <2>6. CASE ClockSkip(h)
      <3>1. /\ cursor \in 1..Len(objects[primary]) /\ objects[primary][cursor] = Nil
            /\ cursor' = cursor + 1 /\ cursor # 0 /\ pc[h] = "clock"
            /\ UNCHANGED <<primary, deleted, swapMap, pc, idx, pos, objects>>
        BY <1>0, <2>6, SlotFacts DEF ClockSkip, AtSlot, Slot, handlerVars
      <3>2. \A n \in Nat : Passed(n)' <=> Passed(n) \/ n = cursor
        BY <1>0, <2>2, <3>1 DEF Passed
      <3>3. cursor' # 0
        BY <3>1
      <3> QED
        BY <2>3, <3>1, <3>2, <3>3, SkipList
    <2>7. CASE ClockPass(h)
      <3>1. PICK m \in Keys : m = Slot
        BY <1>0, <2>7, SlotFacts DEF ClockPass
      <3>2. /\ cursor \in 1..Len(objects[primary]) /\ objects[primary][cursor] = m
            /\ cursor' = cursor + 1 /\ cursor # 0 /\ pc[h] = "clock"
            /\ UNCHANGED <<primary, deleted, swapMap, pc, idx>>
            /\ pos' = CopiedPos(m) /\ objects' = [objects EXCEPT ![secondary] = Append(@, m)]
        BY <1>0, <2>7, <3>1, SlotFacts DEF ClockPass, AtSlot, Slot, handlerVars
      <3>3. \A n \in Nat : /\ n >= cursor => ~Passed(n)
                           /\ Passed(n)' <=> Passed(n) \/ n = cursor
        BY <1>0, <2>2, <3>2 DEF Passed
      <3>4. cursor' # 0
        BY <3>2
      <3> QED
        BY <2>3, <3>2, <3>3, <3>4, CopyList
    <2>8. CASE ClockTail(h)
      <3>1. /\ idx[h] \in 1..Len(objects[primary]) /\ cursor <= idx[h] /\ cursor # 0
            /\ pc[h] = "tail" /\ idx' = [idx EXCEPT ![h] = idx[h] + 1]
            /\ UNCHANGED <<primary, cursor, deleted, swapMap, pc>>
        BY <1>0, <2>8 DEF ClockTail, ClockInBounds
      <3>2. \A n \in Nat : /\ n >= idx[h] => ~Passed(n)
                           /\ Passed(n)' <=> Passed(n) \/ n = idx[h]
        BY <1>0, <2>2, <3>1 DEF Passed
      <3>3. CASE objects[primary][idx[h]] = Nil
        <4>1. UNCHANGED <<pos, objects>>
          BY <2>8, <3>3 DEF ClockTail
        <4> QED
          BY <2>3, <3>1, <3>2, <3>3, <4>1, SkipList
      <3>4. CASE objects[primary][idx[h]] # Nil
        <4>1. PICK m \in Keys : m = objects[primary][idx[h]]
          BY <1>0, <2>4, <3>1, <3>4
        <4>2. pos' = CopiedPos(m) /\ objects' = [objects EXCEPT ![secondary] = Append(@, m)]
          BY <2>8, <3>4, <4>1 DEF ClockTail
        <4> QED
          BY <2>3, <3>1, <3>2, <4>1, <4>2, CopyList
      <3> QED
        BY <3>3, <3>4
    <2>9. CASE ClockBound(h)
      <3>1. /\ UNCHANGED <<objects, primary, cursor, deleted, pos, swapMap>>
            /\ pc[h] = "clock" /\ pc' = [pc EXCEPT ![h] = "tail"]
            /\ idx' = [idx EXCEPT ![h] = cursor]
        BY <2>9 DEF ClockBound, clockVars
      <3>2. \A n : Passed(n)' <=> Passed(n)
        BY <1>0, <2>2, <3>1 DEF Passed
      <3>3. secondary' = secondary /\ \A x, n : Exact(x, n)' <=> Exact(x, n)
        BY <3>1 DEF Exact, secondary
      <3>4. \A k : Relocating(k)' <=> Relocating(k)
        BY <1>0, <2>3, <3>1 DEF Relocating, KeyOf
      <3> QED
        BY <2>3, <3>1, <3>2, <3>3, <3>4 DEF ListInv
    <2>10. CASE ClockSwitch(h)
      BY <2>10, SwitchList
    <2>11. CASE ClockEvict(h)
      BY <2>11, EvictList
    <2> QED
      BY <1>3, <2>5, <2>6, <2>7, <2>8, <2>9, <2>10, <2>11 DEF Clock
  <1> QED
    BY <1>1, <1>2, <1>3

-----------------------------------------------------------------------------
(***************************************************************************)
(* The lambdas' chunks.                                                    *)
(***************************************************************************)

\* A step of a handler keeps the chunks the handlers will drop and those they set, except
\* for the chunk that it drops or sends itself.
LEMMA WorkLeft ==
    ASSUME OneWriter, IInv, StageInv, NEW h \in Handlers, HandleSet(h),
           NEW k \in Keys, NEW c \in Chunks
    PROVE  /\ Dropping(k, c) => Dropping(k, c)' \/ NotSet(h)
                                \/ (DropEvicted(h) /\ k = post[h] /\ c = idx[h])
           /\ Setting(k, c) => Setting(k, c)' \/ NotSet(h)
                               \/ (Send(h) /\ k = KeyOf(h) /\ c = ChunkOf(h))
  <1> USE DEF TypeOK, HandlerType
  <1>0. TypeOK /\ HandlerInv
    BY DEF IInv
  <1>1. /\ \A g \in Handlers : KeyOf(g)' = KeyOf(g)
        /\ \A g \in Handlers \ {h} : pc'[g] = pc[g] /\ post'[g] = post[g] /\ idx'[g] = idx[g]
    BY <1>0, HandlerMoves
  <1>2. pc'[h] = "idle" => NotSet(h) \/ Send(h)
    BY <1>0, HandlerMoves DEF HandleSet, Clock, Insert, AlreadyConfirmed, LockMeta, EvictedMeanwhile,
           TakeSwapped, Place, Overweight, ClockStart, ClockSkip, ClockPass, ClockEvict, ClockBound,
           ClockTail, ClockSwitch, Relocate, Relocated, IsSet, DropEvicted, Return, handlerVars
  <1>3. Setting(k, c) => Setting(k, c)' \/ NotSet(h)
                         \/ (Send(h) /\ k = KeyOf(h) /\ c = ChunkOf(h))
    <2> SUFFICES ASSUME NEW g \in Handlers, pc[g] # "idle", KeyOf(g) = k, ChunkOf(g) = c,
                        ~NotSet(h), ~(Send(h) /\ k = KeyOf(h) /\ c = ChunkOf(h))
                 PROVE  Setting(k, c)'
      BY DEF Setting
    <2>1. pc'[g] # "idle"
      BY <1>1, <1>2
    <2>2. KeyOf(g)' = k /\ ChunkOf(g)' = c
      BY <1>1 DEF ChunkOf
    <2> QED
      BY <2>1, <2>2 DEF Setting
  <1>4. Dropping(k, c) => Dropping(k, c)' \/ NotSet(h)
                          \/ (DropEvicted(h) /\ k = post[h] /\ c = idx[h])
    <2> SUFFICES ASSUME NEW g \in Handlers, post[g] = k, pc[g] = "drop" => idx[g] <= c,
                        ~NotSet(h), ~(DropEvicted(h) /\ k = post[h] /\ c = idx[h])
                 PROVE  Dropping(k, c)'
      BY DEF Dropping
    <2>1. CASE g # h
      BY <1>1, <2>1 DEF Dropping
    <2>2. CASE g = h
      <3>0. post[h] # Nil /\ pc[h] \in {"relocate", "check", "drop"} /\ c <= NumChunks - 1
            /\ c \in Nat /\ NumChunks \in Nat
        BY <2>2, NilAssumption, ChunkAssumption DEF StageInv, Chunks
      <3>1. CASE DropEvicted(h)
        <4>1. pc[h] = "drop" /\ idx[h] < c /\ idx[h] \in Nat
          BY <1>0, <2>2, <3>0, <3>1 DEF DropEvicted
        <4>2. idx[h] + 1 < NumChunks
          BY <3>0, <4>1
        <4>3. idx' = [idx EXCEPT ![h] = idx[h] + 1] /\ UNCHANGED <<pc, post>>
          BY <3>1, <4>2 DEF DropEvicted
        <4>4. post'[h] = k /\ idx'[h] <= c
          BY <1>0, <2>2, <3>0, <4>1, <4>3
        <4> QED
          BY <4>4 DEF Dropping
      <3>2. CASE Relocate(h) \/ Relocated(h) \/ IsSet(h)
        <4>1. post'[h] = k
          BY <2>2, <3>2 DEF Relocate, Relocated, IsSet
        <4>2. pc'[h] = "drop" => idx'[h] = 0
          BY <1>0, <3>2 DEF Relocate, Relocated, IsSet, HandlerInv, Return
        <4> QED
          BY <3>0, <4>1, <4>2 DEF Dropping
      <3> QED
        BY <3>0, <3>1, <3>2 DEF HandleSet, Clock, Insert, AlreadyConfirmed, LockMeta, EvictedMeanwhile,
           TakeSwapped, Place, Overweight, EnterPlacer, ClockStart, ClockSkip, ClockPass, ClockEvict,
           ClockBound, ClockTail, ClockSwitch, AtSlot, Send
    <2> QED
      BY <2>1, <2>2
  <1> QED
    BY <1>3, <1>4

\* Every step keeps what the lambdas hold.
LEMMA StoredStep ==
    ASSUME OneWriter, IInv, WholeInv, StageInv, ListInv, StoredInv, [Next]_vars
    PROVE  StoredInv'
  <1> USE DEF TypeOK, HandlerType, MetaType, PlacerMetaType
  <1>0. TypeOK /\ HandlerInv /\ LockInv /\ StoreInv
    BY DEF IInv
  <1>1. CASE UNCHANGED vars
    <2>1. \A k, c : (Dropping(k, c)' <=> Dropping(k, c)) /\ (Setting(k, c)' <=> Setting(k, c))
      BY <1>1 DEF Dropping, Setting, KeyOf, ChunkOf, vars, handlerVars, clientVars
    <2> QED
      BY <1>1, <2>1 DEF StoredInv, vars, metaVars, pmVars
  <1>2. CASE \/ \E cl \in Clients, k \in Keys, s \in Sizes : EcSet(cl, k, s)
             \/ \E cl \in Clients, k \in Keys : Recover(cl, k)
    <2>1. /\ \A h \in Handlers : pc[h] = "idle" /\ pc'[h] \in {"idle", "insert"}
          /\ UNCHANGED <<deleted, confirmed, placement, stored, post>>
      BY <1>0, <1>2, BeginFacts DEF metaVars, pmVars
    <2>2. \A h \in Handlers : post[h] = Nil
      BY <2>1 DEF StageInv
    <2>3. \A k \in Keys, c \in Chunks : ~Dropping(k, c) /\ ~Setting(k, c)
      BY <2>1, <2>2, NilAssumption DEF Dropping, Setting
    <2> QED
      BY <2>1, <2>3 DEF StoredInv
  <1>3. CASE \E k \in Keys, c \in Chunks : Get(k, c)
    <2>1. \A k, c : (Dropping(k, c)' <=> Dropping(k, c)) /\ (Setting(k, c)' <=> Setting(k, c))
      BY <1>3 DEF Get, Dropping, Setting, KeyOf, ChunkOf, handlerVars, clientVars
    <2>2. UNCHANGED <<deleted, confirmed, placement, stored>>
      BY <1>3 DEF Get, metaVars
    <2> QED
      BY <2>1, <2>2 DEF StoredInv
  <1>4. ASSUME NEW h \in Handlers, HandleSet(h)
        PROVE  StoredInv'
    <2>0. PICK kk \in Keys, cc \in Chunks : kk = KeyOf(h) /\ cc = ChunkOf(h)
      BY <1>0, <1>4, HandlerMoves, OnlyBusy, HandlerFacts
    <2>1. /\ \A g \in Handlers : KeyOf(g)' = kk /\ KeyOf(g) = kk
          /\ pc[h] # "idle"
          /\ \A g \in Handlers \ {h} : pc'[g] = pc[g] /\ post'[g] = post[g]
      BY <1>0, <1>4, <2>0, HandlerMoves, OneKey
    <2>2. deleted[kk] => \A g \in Handlers : pc[g] \in Early
      BY <2>1 DEF WholeInv, Busy
    <2>3. \A k \in Keys, c \in Chunks :
             /\ Dropping(k, c) => Dropping(k, c)' \/ NotSet(h)
                                  \/ (DropEvicted(h) /\ k = post[h] /\ c = idx[h])
             /\ Setting(k, c) => Setting(k, c)' \/ NotSet(h)
                                 \/ (Send(h) /\ k = kk /\ c = cc)
      BY <1>4, <2>0, WorkLeft
    <2>4. ~NotSet(h)
      BY <2>0, <2>2 DEF NotSet, Early
    <2>5. ASSUME Confirms(h), TakeSwapped(h) \/ Place(h) \/ Relocated(h) PROVE StoredInv'
      <3>1. PICK i \in Instances : placement' = [placement EXCEPT ![kk][cc] = i]
        BY <2>0, <2>5 DEF Confirms
      <3>2. /\ UNCHANGED <<deleted, stored>> /\ pc[h] \in Locked /\ pc'[h] = "check"
            /\ confirmed' = [confirmed EXCEPT ![kk] = @ \cup {cc}]
        BY <2>0, <2>5 DEF Confirms, TakeSwapped, Place, Relocated, EnterPlacer, Locked, InPlacer
      <3>3. cc \notin confirmed[kk] /\ ~DropEvicted(h) /\ ~Send(h)
        BY <1>0, <2>0, <3>2 DEF HandlerInv, DropEvicted, Send, Locked, InPlacer
      <3>4. \A k \in Keys, c \in Chunks : ~(k = kk /\ c = cc) =>
               placement'[k][c] = placement[k][c] /\ (c \in confirmed'[k] <=> c \in confirmed[k])
        BY <1>0, <3>1, <3>2 DEF Placements
      <3>5. Setting(kk, cc)'
        BY <2>0, <2>1, <3>2 DEF Setting, ChunkOf
      <3>6. ASSUME NEW k \in Keys, NEW c \in Chunks
            PROVE  /\ \A j \in Instances : stored'[j][<<k, c>>] # 0 =>
                         /\ c \in confirmed'[k] /\ placement'[k][c] = j
                         /\ ~deleted'[k] \/ Dropping(k, c)'
                   /\ ~deleted'[k] /\ c \in confirmed'[k]
                      /\ stored'[placement'[k][c]][<<k, c>>] = 0 => Setting(k, c)'
        <4>1. CASE k = kk /\ c = cc
          BY <3>2, <3>3, <3>5, <4>1 DEF StoredInv
        <4>2. CASE ~(k = kk /\ c = cc)
          BY <2>3, <2>4, <3>2, <3>3, <3>4, <4>2 DEF StoredInv
        <4> QED
          BY <4>1, <4>2
      <3> QED
        BY <3>6 DEF StoredInv
    <2>6. ASSUME StartsOver(h), LockMeta(h) PROVE StoredInv'
      <3>1. /\ deleted[kk] /\ deleted' = [deleted EXCEPT ![kk] = FALSE] /\ pc[h] = "lock"
            /\ confirmed' = [confirmed EXCEPT ![kk] = {}]
            /\ UNCHANGED <<placement, stored>>
        BY <2>0, <2>6 DEF StartsOver, LockMeta
      <3>2. \A g \in Handlers : post[g] = Nil
        BY <2>2, <3>1 DEF StageInv, Early
      <3>3. \A c \in Chunks, i \in Instances : stored[i][<<kk, c>>] = 0
        BY <3>1, <3>2, NilAssumption DEF StoredInv, Dropping
      <3>4. ~DropEvicted(h) /\ ~Send(h)
        BY <3>1 DEF DropEvicted, Send
      <3>5. ASSUME NEW k \in Keys, NEW c \in Chunks
            PROVE  /\ \A j \in Instances : stored'[j][<<k, c>>] # 0 =>
                         /\ c \in confirmed'[k] /\ placement'[k][c] = j
                         /\ ~deleted'[k] \/ Dropping(k, c)'
                   /\ ~deleted'[k] /\ c \in confirmed'[k]
                      /\ stored'[placement'[k][c]][<<k, c>>] = 0 => Setting(k, c)'
        <4>1. CASE k = kk
          BY <1>0, <3>1, <3>3, <4>1 DEF StoredInv
        <4>2. CASE k # kk
          BY <2>3, <2>4, <3>1, <3>4, <4>2 DEF StoredInv
        <4> QED
          BY <4>1, <4>2
      <3> QED
        BY <3>5 DEF StoredInv
    <2>7. ASSUME ClockEvict(h), UNCHANGED confirmed PROVE StoredInv'
      <3>1. PICK m \in Keys : m = Slot
        BY <1>0, <2>7, SlotFacts DEF ClockEvict, IInv
      <3>2. /\ m # kk /\ deleted' = [deleted EXCEPT ![m] = TRUE]
            /\ pc[h] = "clock" /\ pc'[h] = "relocate" /\ post'[h] = m
            /\ UNCHANGED <<placement, stored>>
        BY <1>0, <2>0, <2>7, <3>1 DEF ClockEvict, AtSlot, ClockUnchanged
      <3>3. \A c \in Chunks : Dropping(m, c)'
        BY <3>2 DEF Dropping
      <3>4. ~DropEvicted(h) /\ ~Send(h)
        BY <3>2 DEF DropEvicted, Send
      <3>5. \A k \in Keys : k # m => deleted'[k] = deleted[k]
        BY <1>0, <3>2
      <3>6. deleted'[m]
        BY <1>0, <3>2
      <3>7. ASSUME NEW k \in Keys, NEW c \in Chunks
            PROVE  /\ \A j \in Instances : stored'[j][<<k, c>>] # 0 =>
                         /\ c \in confirmed'[k] /\ placement'[k][c] = j
                         /\ ~deleted'[k] \/ Dropping(k, c)'
                   /\ ~deleted'[k] /\ c \in confirmed'[k]
                      /\ stored'[placement'[k][c]][<<k, c>>] = 0 => Setting(k, c)'
        <4>1. CASE k = m
          BY <2>7, <3>2, <3>3, <3>6, <4>1 DEF StoredInv
        <4>2. CASE k # m
          BY <2>3, <2>4, <2>7, <3>2, <3>4, <3>5, <4>2 DEF StoredInv
        <4> QED
          BY <4>1, <4>2
      <3> QED
        BY <3>7 DEF StoredInv
    <2>8. ASSUME UNCHANGED <<confirmed, deleted>>, Insert(h) PROVE StoredInv'
      <3>1. /\ UNCHANGED stored /\ pc[h] = "insert"
            /\ \A k \in Keys : inStore[k] \/ k # kk => placement'[k] = placement[k]
        BY <1>0, <2>0, <2>8 DEF Insert
      <3>2. \A k \in Keys, c \in Chunks : c \in confirmed[k] => placement'[k] = placement[k]
        BY <1>0, <3>1 DEF StoreInv
      <3>3. ~DropEvicted(h) /\ ~Send(h)
        BY <3>1 DEF DropEvicted, Send
      <3>4. ASSUME NEW k \in Keys, NEW c \in Chunks
            PROVE  /\ \A j \in Instances : stored'[j][<<k, c>>] # 0 =>
                         /\ c \in confirmed'[k] /\ placement'[k][c] = j
                         /\ ~deleted'[k] \/ Dropping(k, c)'
                   /\ ~deleted'[k] /\ c \in confirmed'[k]
                      /\ stored'[placement'[k][c]][<<k, c>>] = 0 => Setting(k, c)'
        BY <2>3, <2>4, <2>8, <3>1, <3>2, <3>3 DEF StoredInv
      <3> QED
        BY <3>4 DEF StoredInv
    <2>9. ASSUME UNCHANGED <<confirmed, deleted>>, DropEvicted(h) PROVE StoredInv'
      <3>1. PICK m \in Keys, d \in Chunks : m = post[h] /\ d = idx[h]
        BY <1>0, <2>9, ChunkAssumption DEF DropEvicted, HandlerInv, Chunks
      <3>2. /\ UNCHANGED placement
            /\ stored' = [stored EXCEPT ![placement[m][d]][<<m, d>>] = 0]
            /\ pc[h] = "drop" /\ ~Send(h)
        BY <2>9, <3>1 DEF DropEvicted, Send, metaVars
      <3>3. deleted[m] /\ m # Nil
        BY <3>1, NilAssumption DEF StageInv
      <3>4. stored \in [Instances -> [Keys \X Chunks -> Nat]] /\ placement[m][d] \in Instances
        <4>1. placement[m] \in Placements
          BY <1>0
        <4>2. placement[m][d] \in Instances
          BY <4>1 DEF Placements
        <4> QED
          BY <1>0, <4>2 DEF ClientType
      <3>5. ASSUME NEW j \in Instances, NEW k \in Keys, NEW c \in Chunks
            PROVE  stored'[j][<<k, c>>] = IF j = placement[m][d] /\ k = m /\ c = d THEN 0
                                                  ELSE stored[j][<<k, c>>]
        <4>1. <<k, c>> \in Keys \X Chunks /\ (<<k, c>> = <<m, d>> <=> k = m /\ c = d)
          OBVIOUS
        <4> QED
          BY <3>2, <3>4, <4>1
      <3>6. ASSUME NEW k \in Keys, NEW c \in Chunks
            PROVE  /\ \A j \in Instances : stored'[j][<<k, c>>] # 0 =>
                         /\ c \in confirmed'[k] /\ placement'[k][c] = j
                         /\ ~deleted'[k] \/ Dropping(k, c)'
                   /\ ~deleted'[k] /\ c \in confirmed'[k]
                      /\ stored'[placement'[k][c]][<<k, c>>] = 0 => Setting(k, c)'
        <4>1. placement[k][c] \in Instances
          BY <1>0 DEF Placements
        <4>2. CASE k = m /\ c = d
          BY <2>9, <3>2, <3>3, <3>5, <4>2 DEF StoredInv
        <4>3. CASE ~(k = m /\ c = d)
          <5>1. \A j \in Instances : stored'[j][<<k, c>>] = stored[j][<<k, c>>]
            BY <3>5, <4>3
          <5>2. Dropping(k, c) => Dropping(k, c)'
            BY <2>3, <2>4, <3>1, <4>3
          <5>3. Setting(k, c) => Setting(k, c)'
            BY <2>3, <2>4, <3>2
          <5> QED
            BY <2>9, <3>2, <4>1, <5>1, <5>2, <5>3 DEF StoredInv
        <4> QED
          BY <4>2, <4>3
      <3> QED
        BY <3>6 DEF StoredInv
    <2>10. ASSUME UNCHANGED <<confirmed, deleted>>, Send(h) PROVE StoredInv'
      <3>1. PICK s \in Nat \ {0} : s = ec[h[1]].size
        BY <1>0, <2>1, HandlerFacts, SizeAssumption
      <3>2. /\ UNCHANGED placement
            /\ stored' = [stored EXCEPT ![placement[kk][cc]][<<kk, cc>>] = s]
            /\ pc[h] = "send" /\ ~DropEvicted(h)
        BY <2>0, <2>10, <3>1 DEF DropEvicted, Send, metaVars
      <3>3. cc \in confirmed[kk] /\ ~deleted[kk]
        BY <2>0, <2>2, <3>2 DEF StageInv, Late, Early
      <3>4. stored \in [Instances -> [Keys \X Chunks -> Nat]] /\ placement[kk][cc] \in Instances
        <4>1. placement[kk] \in Placements
          BY <1>0
        <4> QED
          BY <1>0, <4>1 DEF ClientType, Placements
      <3>5. ASSUME NEW j \in Instances, NEW k \in Keys, NEW c \in Chunks
            PROVE  stored'[j][<<k, c>>] = IF j = placement[kk][cc] /\ k = kk /\ c = cc THEN s
                                                  ELSE stored[j][<<k, c>>]
        <4>1. <<k, c>> \in Keys \X Chunks /\ (<<k, c>> = <<kk, cc>> <=> k = kk /\ c = cc)
          OBVIOUS
        <4> QED
          BY <3>2, <3>4, <4>1
      <3>6. ASSUME NEW k \in Keys, NEW c \in Chunks
            PROVE  /\ \A j \in Instances : stored'[j][<<k, c>>] # 0 =>
                         /\ c \in confirmed'[k] /\ placement'[k][c] = j
                         /\ ~deleted'[k] \/ Dropping(k, c)'
                   /\ ~deleted'[k] /\ c \in confirmed'[k]
                      /\ stored'[placement'[k][c]][<<k, c>>] = 0 => Setting(k, c)'
        <4>1. placement[k][c] \in Instances
          BY <1>0 DEF Placements
        <4>2. CASE k = kk /\ c = cc
          BY <2>10, <3>1, <3>2, <3>3, <3>4, <3>5, <4>2 DEF StoredInv
        <4>3. CASE ~(k = kk /\ c = cc)
          BY <2>3, <2>4, <2>10, <3>2, <3>5, <4>1, <4>3 DEF StoredInv
        <4> QED
          BY <4>2, <4>3
      <3> QED
        BY <3>6 DEF StoredInv
    <2>11. ASSUME UNCHANGED <<confirmed, deleted>>,
                  \/ LockMeta(h) /\ ~deleted[KeyOf(h)] /\ UNCHANGED pmVars
                  \/ AlreadyConfirmed(h) \/ EvictedMeanwhile(h) \/ Overweight(h)
                  \/ ClockStart(h) \/ ClockSkip(h) \/ ClockPass(h) \/ ClockBound(h)
                  \/ ClockTail(h) \/ ClockSwitch(h) \/ Relocate(h) \/ IsSet(h)
           PROVE  StoredInv'
      <3>1. UNCHANGED <<placement, stored>> /\ ~DropEvicted(h) /\ ~Send(h)
        BY <2>11 DEF LockMeta, AlreadyConfirmed, EvictedMeanwhile, EnterPlacer, Overweight, ClockStart,
               ClockSkip, ClockPass, ClockBound, ClockTail, ClockSwitch, AtSlot, ClockUnchanged, Relocate,
               IsSet, DropEvicted, Send, metaVars
      <3> QED
        BY <2>3, <2>4, <2>11, <3>1 DEF StoredInv
    <2> QED
      BY <1>0, <1>4, <2>4, <2>5, <2>6, <2>7, <2>8, <2>9, <2>10, <2>11, MetaMoves
  <1> QED
    BY <1>1, <1>2, <1>3, <1>4 DEF Next

-----------------------------------------------------------------------------
(***************************************************************************)
(* The size counters.                                                      *)
(***************************************************************************)

\* The bytes of one chunk more.
LEMMA WeightAdd ==
    ASSUME NEW S, NEW w, NEW x, x \notin S, w[x[1]] \in Nat, IsFiniteSet(Bytes(S, w))
    PROVE  /\ IsFiniteSet(Bytes(S \cup {x}, w))
           /\ Weight(S, w) \in Nat
           /\ Weight(S \cup {x}, w) = Weight(S, w) + w[x[1]]
  <1> DEFINE n == w[x[1]]
             B == {x} \X (1..n)
  <1>1. IsFiniteSet({x}) /\ Cardinality({x}) = 1
    BY FS_Singleton
  <1>2. IsFiniteSet(1..n) /\ Cardinality(1..n) = n
    <2>1. ASSUME NEW m \in Nat
          PROVE  IsFiniteSet(1..m) /\ Cardinality(1..m) = m
      <3>1. IsFiniteSet(1..m) /\ Cardinality(1..m) = IF 1 > m THEN 0 ELSE m - 1 + 1
        BY FS_Interval
      <3> QED
        BY <3>1
    <2> QED
      BY <2>1
  <1>3. IsFiniteSet(B) /\ Cardinality(B) = n
    <2>1. ASSUME NEW X, NEW I, IsFiniteSet(X), IsFiniteSet(I), Cardinality(X) = 1, Cardinality(I) = n
          PROVE  IsFiniteSet(X \X I) /\ Cardinality(X \X I) = n
      <3>1. IsFiniteSet(X \X I) /\ Cardinality(X \X I) = Cardinality(X) * Cardinality(I)
        BY <2>1, FS_Product
      <3> QED
        BY <2>1, <3>1
    <2> QED
      BY <1>1, <1>2, <2>1
  <1>4. Bytes(S \cup {x}, w) = Bytes(S, w) \cup B
    <2>1. ASSUME NEW b PROVE b \in Bytes(S \cup {x}, w) <=> b \in Bytes(S, w) \cup B
      BY DEF Bytes
    <2> QED
      BY <2>1
  <1>5. Bytes(S, w) \cap B = {}
    BY DEF Bytes
  <1>6. Cardinality({}) = 0 /\ Cardinality(Bytes(S, w)) \in Nat
    BY FS_EmptySet, FS_CardinalityType
  <1> HIDE DEF B
  <1>7. /\ IsFiniteSet(Bytes(S, w) \cup B)
        /\ Cardinality(Bytes(S, w) \cup B)
              = Cardinality(Bytes(S, w)) + Cardinality(B) - Cardinality(Bytes(S, w) \cap B)
    BY <1>3, FS_Union
  <1>8. Cardinality(Bytes(S, w) \cup B) = Cardinality(Bytes(S, w)) + n
    <2>1. Cardinality(Bytes(S, w) \cap B) = 0
      BY <1>5, <1>6
    <2>2. n \in Nat
      OBVIOUS
    <2> HIDE DEF n
    <2> QED
      BY <1>3, <1>6, <1>7, <2>1, <2>2
  <1> QED
    BY <1>4, <1>6, <1>7, <1>8 DEF Weight

\* The bytes of one chunk less.
LEMMA WeightRemove ==
    ASSUME NEW S, NEW w, NEW x \in S, w[x[1]] \in Nat, IsFiniteSet(Bytes(S, w))
    PROVE  /\ IsFiniteSet(Bytes(S \ {x}, w))
           /\ Weight(S \ {x}, w) \in Nat
           /\ Weight(S, w) = Weight(S \ {x}, w) + w[x[1]]
  <1>1. Bytes(S \ {x}, w) \in SUBSET Bytes(S, w)
    BY DEF Bytes
  <1>2. IsFiniteSet(Bytes(S \ {x}, w))
    BY <1>1, FS_Subset
  <1>3. (S \ {x}) \cup {x} = S /\ x \notin S \ {x}
    OBVIOUS
  <1>4. /\ Weight(S \ {x}, w) \in Nat
        /\ Weight((S \ {x}) \cup {x}, w) = Weight(S \ {x}, w) + w[x[1]]
    BY <1>2, <1>3, WeightAdd
  <1> QED
    BY <1>2, <1>3, <1>4

\* The same for chunk c of object k.
LEMMA PairAdd ==
    ASSUME NEW S, NEW w, NEW k, NEW c, <<k, c>> \notin S, w[k] \in Nat, IsFiniteSet(Bytes(S, w))
    PROVE  /\ IsFiniteSet(Bytes(S \cup {<<k, c>>}, w))
           /\ Weight(S \cup {<<k, c>>}, w) = Weight(S, w) + w[k]
  <1> DEFINE x == <<k, c>>
  <1>1. x[1] = k /\ x \notin S
    OBVIOUS
  <1> HIDE DEF x
  <1>2. /\ IsFiniteSet(Bytes(S \cup {x}, w))
        /\ Weight(S \cup {x}, w) = Weight(S, w) + w[k]
    BY <1>1, WeightAdd
  <1> QED
    BY <1>2 DEF x

\* And without chunk c of object k.
LEMMA PairRemove ==
    ASSUME NEW S, NEW w, NEW k, NEW c, <<k, c>> \in S, w[k] \in Nat, IsFiniteSet(Bytes(S, w))
    PROVE  /\ IsFiniteSet(Bytes(S \ {<<k, c>>}, w))
           /\ Weight(S \ {<<k, c>>}, w) \in Nat
           /\ Weight(S, w) = Weight(S \ {<<k, c>>}, w) + w[k]
  <1> DEFINE x == <<k, c>>
  <1>1. x[1] = k /\ x \in S
    OBVIOUS
  <1> HIDE DEF x
  <1>2. /\ IsFiniteSet(Bytes(S \ {x}, w))
        /\ Weight(S \ {x}, w) \in Nat
        /\ Weight(S, w) = Weight(S \ {x}, w) + w[k]
    BY <1>1, WeightRemove
  <1> QED
    BY <1>2 DEF x

\* The bytes of the same chunks, whatever the sizes of other objects.
LEMMA WeightSame ==
    ASSUME NEW S, NEW w, NEW v, \A x \in S : w[x[1]] = v[x[1]]
    PROVE  Bytes(S, w) = Bytes(S, v) /\ Weight(S, w) = Weight(S, v)
  BY DEF Bytes, Weight

\* The sum of the sizes of finitely many chunks is the number of their bytes: MapThenSumSet is
\* a recursive function on the subsets, and a smallest subset on which it differs would have
\* one chunk more than a smaller one.
LEMMA WeightSum ==
  ASSUME NEW S, IsFiniteSet(S), IsFiniteSet(Bytes(S, chunkSize)),
         \A kc \in S : chunkSize[kc[1]] \in Nat
  PROVE  MapThenSumSet(LAMBDA kc : chunkSize[kc[1]], S) = Weight(S, chunkSize)
  <1> DEFINE Pick(s) == CHOOSE x \in s : TRUE
             Step(f) == [s \in SUBSET S |-> IF s = {} THEN 0 ELSE chunkSize[Pick(s)[1]] + f[s \ {Pick(s)}]]
             g == [s \in SUBSET S |-> Weight(s, chunkSize)]
             f == CHOOSE f : f = Step(f)
  <1>1. \A s \in SUBSET S : IsFiniteSet(s) /\ IsFiniteSet(Bytes(s, chunkSize))
    <2>1. \A s \in SUBSET S : Bytes(s, chunkSize) \in SUBSET Bytes(S, chunkSize)
      BY DEF Bytes
    <2> QED
      BY <2>1, FS_Subset
  <1>2. ASSUME NEW s \in SUBSET S, s # {}
        PROVE  /\ Pick(s) \in s /\ s \ {Pick(s)} \in SUBSET S
               /\ Weight(s, chunkSize) = chunkSize[Pick(s)[1]] + Weight(s \ {Pick(s)}, chunkSize)
    <2>1. Pick(s) \in s
      BY <1>2
    <2> HIDE DEF Pick
    <2>2. chunkSize[Pick(s)[1]] \in Nat /\ IsFiniteSet(Bytes(s, chunkSize))
      BY <1>1, <2>1
    <2>3. /\ Weight(s \ {Pick(s)}, chunkSize) \in Nat
          /\ Weight(s, chunkSize) = Weight(s \ {Pick(s)}, chunkSize) + chunkSize[Pick(s)[1]]
      BY <2>1, <2>2, WeightRemove
    <2> QED
      BY <2>1, <2>2, <2>3
  <1>3. Weight({}, chunkSize) = 0
    <2>1. Bytes({}, chunkSize) = {}
      BY DEF Bytes
    <2> QED
      BY <2>1, FS_EmptySet DEF Weight
  <1> HIDE DEF Pick
  <1>4. g = Step(g)
    <2>1. ASSUME NEW s \in SUBSET S
          PROVE  g[s] = IF s = {} THEN 0 ELSE chunkSize[Pick(s)[1]] + g[s \ {Pick(s)}]
      <3>1. CASE s = {}
        BY <1>3, <3>1
      <3>2. CASE s # {}
        BY <1>2, <3>2
      <3> QED
        BY <3>1, <3>2
    <2> QED
      BY <2>1
  <1>5. f = Step(f)
    <2> HIDE DEF Step, g
    <2> QED
      BY <1>4
  <1> DEFINE T == {s \in SUBSET S : f[s] # g[s]}
  <1>6. T = {}
    <2> SUFFICES ASSUME T # {} PROVE FALSE
      OBVIOUS
    <2>1. T \subseteq FiniteSubsetsOf(S)
      BY <1>1 DEF FiniteSubsetsOf
    <2>2. PICK s \in T : \A t \in T : ~(<<t, s>> \in StrictSubsetOrdering(S))
      BY <2>1, FS_StrictSubsetOrderingWellFounded, WFMin
    <2> DEFINE r == s \ {Pick(s)}
    <2>3. s \in SUBSET S /\ f[s] # g[s]
      OBVIOUS
    <2>4. f[s] = IF s = {} THEN 0 ELSE chunkSize[Pick(s)[1]] + f[r]
      BY <1>5, <2>3
    <2>5. g[s] = IF s = {} THEN 0 ELSE chunkSize[Pick(s)[1]] + g[r]
      BY <1>4, <2>3
    <2>6. s # {} /\ f[r] # g[r]
      BY <2>3, <2>4, <2>5
    <2>7. r \in T /\ <<r, s>> \in StrictSubsetOrdering(S)
      BY <1>2, <2>3, <2>6 DEF StrictSubsetOrdering
    <2> QED
      BY <2>2, <2>7
  <1>7. f[S] = g[S]
    BY <1>6
  <1>8. MapThenSumSet(LAMBDA kc : chunkSize[kc[1]], S) = f[S]
    BY Zenon DEF MapThenSumSet, MapThenFoldSet, Pick
  <1> QED
    BY <1>7, <1>8

\* Division with remainder.
LEMMA Quotient ==
    ASSUME NEW M \in Nat \ {0}, NEW x \in Int
    PROVE  x = M * (x \div M) + (x % M) /\ x \div M \in Int /\ x % M \in 0..(M - 1)
  OBVIOUS

\* The remainder is the only one.
LEMMA OneRemainder ==
    ASSUME NEW M \in Nat \ {0}, NEW a \in Int, NEW b \in Int, NEW r \in 0..(M - 1),
           NEW t \in 0..(M - 1), M * a + r = M * b + t
    PROVE  r = t
  <1>1. M * (a - b) = t - r
    OBVIOUS
  <1>2. CASE a - b >= 1
    <2>1. M * (a - b) >= M
      BY <1>2
    <2> QED
      BY <1>1, <2>1
  <1>3. CASE a - b <= -1
    <2>1. M * (a - b) <= -M
      BY <1>3
    <2> QED
      BY <1>1, <2>1
  <1>4. CASE a = b
    BY <1>1, <1>4
  <1> QED
    BY <1>2, <1>3, <1>4

\* The counter after a difference is the sum after that difference, in the counter's width.
LEMMA CounterAdds ==
    ASSUME NEW x \in Int, NEW d \in Int
    PROVE  AddUint(x % Modulus, d) = (x + d) % Modulus
  <1>0. PICK M \in Nat \ {0} : M = Modulus
    BY SizeAssumption
  <1> DEFINE q == x \div M
             r == x % M
             y == r + d
             z == x + d
  <1>1. x = M * q + r /\ q \in Int /\ r \in Int
    BY Quotient
  <1>2. y \in Int /\ z \in Int /\ z = M * q + y
    BY <1>1
  <1> HIDE DEF y, z
  <1>3. PICK p \in Int, t \in 0..(M - 1) : y = M * p + t /\ t = y % M
    BY <1>2, Quotient
  <1>4. PICK pp \in Int, tt \in 0..(M - 1) : z = M * pp + tt /\ tt = z % M
    BY <1>2, Quotient
  <1> HIDE DEF q, r
  <1>5. M * (q + p) = M * q + M * p /\ q + p \in Int
    BY <1>1
  <1>6. M * pp + tt = M * (q + p) + t
    BY <1>1, <1>2, <1>3, <1>4, <1>5
  <1>7. tt = t
    BY <1>5, <1>6, OneRemainder
  <1> QED
    BY <1>0, <1>3, <1>4, <1>7 DEF y, z, r, AddUint

\* What counts at an instance, chunk by chunk.
LEMMA HeldSame ==
    ASSUME NEW i, \A k \in Keys, c \in Chunks :
              (Charged(k, c, i) \/ Owed(k, c, i))' <=> Charged(k, c, i) \/ Owed(k, c, i)
    PROVE  Held(i)' = Held(i)
  <1>1. \A kc \in Keys \X Chunks : kc[1] \in Keys /\ kc[2] \in Chunks
    OBVIOUS
  <1> QED
    BY <1>1 DEF Held

\* Only a handler that relocates owes chunks.
LEMMA NothingOwed ==
    /\ (\A h \in Handlers : pc[h] # "relocate") =>
          \A k, c : ~Pending(k, c) /\ \A i : ~Owed(k, c, i)
    /\ (\A h \in Handlers : pc'[h] # "relocate") =>
          \A k, c : ~Pending(k, c)' /\ \A i : ~Owed(k, c, i)'
  BY DEF Owed, Pending

\* While one handler is inside the Placer no other one relocates.
LEMMA OneRelocates ==
    ASSUME IInv, NEW h \in Handlers, HandleSet(h), pc[h] \in InPlacer \/ placerMu = Nil
    PROVE  \A g \in Handlers \ {h} : pc[g] # "relocate" /\ pc'[g] # "relocate"
  <1>1. TypeOK /\ HandlerInv /\ LockInv
    BY DEF IInv
  <1>2. \A g \in Handlers \ {h} : pc[g] \notin InPlacer
    BY <1>1, Exclusion, NilAssumption DEF LockInv
  <1>3. \A g \in Handlers \ {h} : pc'[g] = pc[g]
    BY <1>1, HandlerMoves
  <1> QED
    BY <1>2, <1>3 DEF InPlacer

\* A chunk confirmed at the place it takes over from the victim counts as before.
LEMMA TakeOver ==
    ASSUME OneWriter, IInv, StageInv, NEW h \in Handlers, TakeSwapped(h) \/ Relocated(h),
           HandleSet(h), NEW i \in Instances
    PROVE  Held(i)' = Held(i)
  <1> USE DEF TypeOK, HandlerType, MetaType, PlacerMetaType
  <1>0. TypeOK /\ HandlerInv /\ LockInv
    BY DEF IInv
  <1>1. PICK kk \in Keys, cc \in Chunks : kk = KeyOf(h) /\ cc = ChunkOf(h)
    BY <1>0, HandlerMoves, OnlyBusy, HandlerFacts
  <1>2. /\ placement' = [placement EXCEPT ![kk][cc] = swapMap[kk][cc]]
        /\ confirmed' = [confirmed EXCEPT ![kk] = @ \cup {cc}]
        /\ UNCHANGED <<deleted, swapMap>> /\ swapMap[kk] # Nil /\ pc'[h] # "relocate"
        /\ pc[h] \in Locked
    BY <1>0, <1>1 DEF TakeSwapped, Relocated, Confirm, EnterPlacer, HandlerInv, Return, Locked, InPlacer
  <1>3. cc \notin confirmed[kk]
    BY <1>0, <1>1, <1>2 DEF HandlerInv
  <1>4. \A g \in Handlers \ {h} : pc[g] # "relocate" /\ pc'[g] # "relocate"
    BY OneRelocates DEF TakeSwapped, Relocated, EnterPlacer, InPlacer
  <1>5. \A k, c : ~Pending(k, c)' /\ \A j : ~Owed(k, c, j)'
    BY <1>2, <1>4, NothingOwed
  <1>6. \A k \in Keys, c \in Chunks : ~Pending(k, c) /\ \A j : ~Owed(k, c, j)
    <2>1. CASE TakeSwapped(h)
      <3>1. pc[h] # "relocate"
        BY <2>1 DEF TakeSwapped, EnterPlacer
      <3> QED
        BY <1>4, <3>1, NothingOwed
    <2>2. CASE Relocated(h)
      <3>1. \A c \in Chunks : ~(idx[h] <= c)
        BY <2>2, ChunkAssumption DEF Relocated, Chunks
      <3> QED
        BY <1>4, <3>1 DEF Owed, Pending
    <2> QED
      BY <2>1, <2>2
  <1>7. ASSUME NEW k \in Keys, NEW c \in Chunks PROVE Charged(k, c, i)' <=> Charged(k, c, i)
    <2>1. CASE k = kk /\ c = cc
      <3>1. c \in confirmed'[k] /\ placement'[k][c] = swapMap[k][c]
        BY <1>0, <1>2, <2>1 DEF Placements
      <3> QED
        BY <1>2, <1>3, <1>6, <2>1, <3>1 DEF Charged
    <2>2. CASE ~(k = kk /\ c = cc)
      <3>1. placement'[k][c] = placement[k][c] /\ (c \in confirmed'[k] <=> c \in confirmed[k])
        BY <1>0, <1>2, <2>2 DEF Placements
      <3> QED
        BY <1>2, <1>5, <1>6, <3>1 DEF Charged
    <2> QED
      BY <2>1, <2>2
  <1> QED
    BY <1>5, <1>6, <1>7, HeldSame

\* A chunk that is placed counts at its instance from then on.
LEMMA PlaceHeld ==
    ASSUME OneWriter, IInv, StageInv, NEW h \in Handlers, Place(h), HandleSet(h)
    PROVE  \E k \in Keys, c \in Chunks, j \in Instances :
              /\ k = KeyOf(h) /\ <<k, c>> \notin Held(j) /\ Held(j)' = Held(j) \cup {<<k, c>>}
              /\ \A i \in Instances : i # j => Held(i)' = Held(i)
              /\ size' = [size EXCEPT ![j] = IncreaseSize(@, chunkSize[k])]
              /\ AddUint(size[j], chunkSize[k]) < Capacity
  <1> USE DEF TypeOK, HandlerType, MetaType, PlacerMetaType
  <1>0. TypeOK /\ HandlerInv /\ LockInv
    BY DEF IInv
  <1>1. PICK kk \in Keys, cc \in Chunks : kk = KeyOf(h) /\ cc = ChunkOf(h)
    BY <1>0, HandlerMoves, OnlyBusy, HandlerFacts
  <1>2. PICK j \in Instances : j = GetIndex(kk, ec[h[1]].index[cc])
    <2>1. pc[h] # "idle"
      BY DEF Place, EnterPlacer
    <2>2. base[kk] \in Int \/ base[kk] = Nil
      BY <1>0 DEF Instances
    <2>3. ec[h[1]].index[cc] \in Int /\ sliceBase \in Int
      BY <1>0, <1>1, <2>1, HandlerFacts DEF Instances, GroupType
    <2>4. GetIndex(kk, ec[h[1]].index[cc]) \in Instances
      BY <2>2, <2>3, ConstantFacts DEF GetIndex, NextBase
    <2> QED
      BY <2>4
  <1>3. /\ placement' = [placement EXCEPT ![kk][cc] = j]
        /\ confirmed' = [confirmed EXCEPT ![kk] = @ \cup {cc}]
        /\ UNCHANGED <<deleted, swapMap>> /\ swapMap[kk] = Nil /\ ~deleted[kk]
        /\ pc[h] = "placer" /\ pc'[h] # "relocate"
        /\ size' = [size EXCEPT ![j] = IncreaseSize(@, chunkSize[kk])]
        /\ AddUint(size[j], chunkSize[kk]) < Capacity
    BY <1>0, <1>1, <1>2 DEF Place, Confirm, EnterPlacer, Evicted, Return, IsAvailable
  <1>4. cc \notin confirmed[kk]
    BY <1>0, <1>1, <1>3 DEF HandlerInv, Locked
  <1>5. \A g \in Handlers \ {h} : pc[g] # "relocate" /\ pc'[g] # "relocate"
    BY OneRelocates DEF Place, EnterPlacer
  <1>6. /\ \A k, c : ~Pending(k, c)' /\ ~Pending(k, c)
        /\ \A k, c, i : ~Owed(k, c, i)' /\ ~Owed(k, c, i)
    BY <1>3, <1>5, NothingOwed
  <1>7. ASSUME NEW k \in Keys, NEW c \in Chunks, NEW i \in Instances
        PROVE  Charged(k, c, i)' <=> Charged(k, c, i) \/ (k = kk /\ c = cc /\ i = j)
    <2>1. CASE k = kk /\ c = cc
      <3>1. c \in confirmed'[k] /\ placement'[k][c] = j
        BY <1>0, <1>3, <2>1 DEF Placements
      <3> QED
        BY <1>3, <1>4, <2>1, <3>1 DEF Charged
    <2>2. CASE ~(k = kk /\ c = cc)
      <3>1. placement'[k][c] = placement[k][c] /\ (c \in confirmed'[k] <=> c \in confirmed[k])
        BY <1>0, <1>3, <2>2 DEF Placements
      <3> QED
        BY <1>3, <1>6, <2>2, <3>1 DEF Charged
    <2> QED
      BY <2>1, <2>2
  <1>8. \A i \in Instances : i # j => Held(i)' = Held(i)
    BY <1>6, <1>7, HeldSame
  <1>9. ~Charged(kk, cc, j)
    BY <1>3, <1>4 DEF Charged
  <1>10. <<kk, cc>> \notin Held(j)
    BY <1>6, <1>9 DEF Held
  <1>11. Held(j)' = Held(j) \cup {<<kk, cc>>}
    <2>1. \A kc \in Keys \X Chunks : kc[1] \in Keys /\ kc[2] \in Chunks /\ kc = <<kc[1], kc[2]>>
      OBVIOUS
    <2>2. \A kc \in Keys \X Chunks : kc \in Held(j)' <=> kc \in Held(j) \/ kc = <<kk, cc>>
      BY <1>6, <1>7, <2>1 DEF Held
    <2>3. Held(j) \subseteq Keys \X Chunks /\ Held(j)' \subseteq Keys \X Chunks
      BY DEF Held
    <2> QED
      BY <2>2, <2>3
  <1> QED
    BY <1>1, <1>3, <1>8, <1>10, <1>11

\* The victim's chunks are owed, and those of the object that takes their place are pending:
\* what counts stays the same.
LEMMA EvictHeld ==
    ASSUME OneWriter, IInv, WholeInv, StageInv, ListInv, NEW h \in Handlers, ClockEvict(h),
           HandleSet(h), NEW i \in Instances
    PROVE  Held(i)' = Held(i)
  <1> USE DEF TypeOK, HandlerType, MetaType, PlacerMetaType
  <1>0. TypeOK /\ HandlerInv /\ LockInv
    BY DEF IInv
  <1>1. PICK kk \in Keys : kk = KeyOf(h)
    BY <1>0, HandlerMoves, OnlyBusy
  <1>2. PICK m \in Keys : m = Slot /\ cursor \in 1..Len(objects[primary])
    BY <1>0, SlotFacts DEF ClockEvict, IInv
  <1>3. /\ m # kk /\ deleted' = [deleted EXCEPT ![m] = TRUE]
        /\ pc[h] = "clock" /\ pc'[h] = "relocate" /\ post'[h] = m /\ idx'[h] = 0
        /\ swapMap' = [swapMap EXCEPT ![kk] = placement[m]]
        /\ UNCHANGED <<placement, confirmed>>
    BY <1>0, <1>1, <1>2 DEF ClockEvict, AtSlot, ClockUnchanged
  <1>4. /\ ~deleted[m] /\ confirmed[m] = Chunks
        /\ ~deleted[kk] /\ swapMap[kk] = Nil
    <2>1. ~deleted[m] /\ confirmed[m] = Chunks
      BY <1>1, <1>2, <1>3, ListedWhole DEF Slot
    <2> QED
      BY <1>0, <1>1, <1>3, <2>1 DEF HandlerInv, StageInv, InPlacer
  <1>5. \A g \in Handlers \ {h} : pc[g] # "relocate" /\ pc'[g] # "relocate"
    BY <1>3, OneRelocates DEF InPlacer
  <1>6. \A k, c : ~Pending(k, c) /\ ~Owed(k, c, i)
    BY <1>3, <1>5, NothingOwed
  <1>7. KeyOf(h)' = kk
    BY <1>0, <1>1, HandlerMoves
  <1>8. swapMap'[kk] = placement[m]
    BY <1>0, <1>3
  <1>9. ASSUME NEW k \in Keys, NEW c \in Chunks
        PROVE  /\ Owed(k, c, i)' <=> k = m /\ placement[m][c] = i
               /\ Pending(k, c)' <=> k = kk
    <2>1. 0 <= c
      BY DEF Chunks
    <2>2. Owed(k, c, i)' <=> /\ pc'[h] = "relocate" /\ post'[h] = k /\ idx'[h] <= c
                             /\ swapMap'[KeyOf(h)'][c] = i
      BY <1>5 DEF Owed
    <2>3. Pending(k, c)' <=> pc'[h] = "relocate" /\ KeyOf(h)' = k /\ idx'[h] <= c
      BY <1>5 DEF Pending
    <2> QED
      BY <1>3, <1>7, <1>8, <2>1, <2>2, <2>3
  <1>10. ASSUME NEW k \in Keys, NEW c \in Chunks
         PROVE  (Charged(k, c, i) \/ Owed(k, c, i))' <=> Charged(k, c, i) \/ Owed(k, c, i)
    <2>1. CASE k = m
      <3>1. deleted'[m]
        BY <1>0, <1>3
      <3>2. ~Charged(m, c, i)' /\ (Charged(m, c, i) <=> placement[m][c] = i)
        BY <1>4, <3>1 DEF Charged
      <3> QED
        BY <1>6, <1>9, <2>1, <3>2
    <2>2. CASE k = kk
      <3>1. deleted'[kk] = deleted[kk] /\ Pending(kk, c)'
        BY <1>0, <1>3, <1>9
      <3>2. /\ Charged(kk, c, i)' <=> c \in confirmed[kk] /\ placement[kk][c] = i
            /\ Charged(kk, c, i) <=> c \in confirmed[kk] /\ placement[kk][c] = i
        BY <1>3, <1>4, <3>1 DEF Charged
      <3> QED
        BY <1>3, <1>6, <1>9, <2>2, <3>2
    <2>3. CASE k # m /\ k # kk
      <3>1. deleted'[k] = deleted[k] /\ swapMap'[k] = swapMap[k]
        BY <1>0, <1>3, <2>3
      <3>2. Charged(k, c, i)' <=> Charged(k, c, i)
        BY <1>3, <1>6, <1>9, <2>3, <3>1 DEF Charged
      <3> QED
        BY <1>6, <1>9, <2>3, <3>2
    <2> QED
      BY <2>1, <2>2, <2>3
  <1> QED
    BY <1>10, HeldSame

\* One iteration of the relocation gives the victim's chunk back, and takes its place for a
\* chunk that has no other.
LEMMA RelocateHeld ==
    ASSUME OneWriter, IInv, StageInv, NEW h \in Handlers, Relocate(h), HandleSet(h)
    PROVE  \E k \in Keys, m \in Keys, d \in Chunks, j \in Instances :
              /\ k = KeyOf(h) /\ inStore[k] /\ inStore[m]
              /\ size' = [size EXCEPT ![j] = Exchanged(@, k, m, d)]
              /\ \A i \in Instances : i # j => Held(i)' = Held(i)
              /\ <<m, d>> \in Held(j)
              /\ d \in confirmed[k] => Held(j)' = Held(j) \ {<<m, d>>}
              /\ d \notin confirmed[k] => /\ <<k, d>> \notin Held(j)
                                         /\ Held(j)' = (Held(j) \ {<<m, d>>}) \cup {<<k, d>>}
  <1> USE DEF TypeOK, HandlerType, MetaType, PlacerMetaType
  <1>0. TypeOK /\ HandlerInv /\ LockInv /\ StoreInv
    BY DEF IInv
  <1>1. PICK kk \in Keys : kk = KeyOf(h)
    BY <1>0, HandlerMoves, OnlyBusy
  <1>2. pc[h] = "relocate" /\ swapMap[kk] \in Placements /\ post[h] \in Keys /\ idx[h] \in Chunks
    <2>1. pc[h] = "relocate" /\ swapMap[kk] # Nil /\ post[h] # Nil /\ idx[h] < NumChunks
      BY <1>0, <1>1 DEF Relocate, HandlerInv
    <2> QED
      BY <1>0, <2>1, ChunkAssumption DEF Chunks
  <1>3. PICK m \in Keys, d \in Chunks, j \in Instances :
              m = post[h] /\ d = idx[h] /\ j = swapMap[kk][d]
    BY <1>2 DEF Placements
  <1>4. /\ size' = [size EXCEPT ![j] = Exchanged(@, kk, m, d)]
        /\ pc' = pc /\ post' = post /\ idx'[h] = d + 1
        /\ UNCHANGED <<deleted, placement, confirmed, swapMap>>
    BY <1>0, <1>1, <1>3 DEF Relocate, metaVars, pmVars
  <1>5. inStore[kk] /\ inStore[m] /\ deleted[m] /\ ~deleted[kk] /\ m # kk
    <2>1. deleted[m] /\ confirmed[m] = Chunks
      BY <1>3, NilAssumption DEF StageInv
    <2>2. ~deleted[kk]
      BY <1>0, <1>1, <1>2 DEF HandlerInv, InPlacer
    <2> QED
      BY <1>0, <1>1, <1>2, <2>1, <2>2, ConstantFacts DEF StoreInv
  <1>6. \A g \in Handlers \ {h} : pc[g] # "relocate" /\ pc'[g] # "relocate"
    BY <1>2, OneRelocates DEF InPlacer
  <1>7. KeyOf(h)' = kk
    BY <1>0, <1>1, HandlerMoves
  <1>8. ASSUME NEW k \in Keys, NEW c \in Chunks, NEW i \in Instances
        PROVE  /\ Owed(k, c, i) <=> k = m /\ d <= c /\ swapMap[kk][c] = i
               /\ Owed(k, c, i)' <=> k = m /\ d + 1 <= c /\ swapMap[kk][c] = i
               /\ Pending(k, c) <=> k = kk /\ d <= c
               /\ Pending(k, c)' <=> k = kk /\ d + 1 <= c
    <2>1. /\ Owed(k, c, i) <=> /\ pc[h] = "relocate" /\ post[h] = k /\ idx[h] <= c
                               /\ swapMap[KeyOf(h)][c] = i
          /\ Pending(k, c) <=> pc[h] = "relocate" /\ KeyOf(h) = k /\ idx[h] <= c
      BY <1>6 DEF Owed, Pending
    <2>2. /\ Owed(k, c, i)' <=> /\ pc'[h] = "relocate" /\ post'[h] = k /\ idx'[h] <= c
                                /\ swapMap'[KeyOf(h)'][c] = i
          /\ Pending(k, c)' <=> pc'[h] = "relocate" /\ KeyOf(h)' = k /\ idx'[h] <= c
      BY <1>6 DEF Owed, Pending
    <2> QED
      BY <1>1, <1>2, <1>3, <1>4, <1>7, <2>1, <2>2
  <1>9. ASSUME NEW k \in Keys, NEW c \in Chunks, NEW i \in Instances
        PROVE  /\ Owed(k, c, i)' <=> Owed(k, c, i) /\ ~(k = m /\ c = d /\ i = j)
               /\ k = m /\ c = d /\ i = j => Owed(k, c, i)
               /\ Pending(k, c)' <=> Pending(k, c) /\ ~(k = kk /\ c = d)
               /\ k = kk /\ c = d => Pending(k, c)
    <2>1. c \in Int /\ d \in Int /\ (d + 1 <= c <=> d <= c /\ c # d)
      BY DEF Chunks
    <2> QED
      BY <1>3, <1>8, <2>1
  <1>10. ASSUME NEW k \in Keys, NEW c \in Chunks, NEW i \in Instances
         PROVE  /\ Charged(k, c, i)' <=> \/ Charged(k, c, i)
                                         \/ k = kk /\ c = d /\ i = j /\ d \notin confirmed[kk]
                /\ k = kk /\ c = d /\ d \notin confirmed[kk] => ~Charged(k, c, i)
                /\ k = m => ~Charged(k, c, i)
    <2>1. swapMap[kk] # Nil
      BY <1>2, NilAssumption
    <2>2. CASE k = kk /\ c = d
      BY <1>3, <1>4, <1>5, <1>9, <2>1, <2>2 DEF Charged
    <2>3. CASE ~(k = kk /\ c = d)
      BY <1>4, <1>5, <1>9, <2>3 DEF Charged
    <2> QED
      BY <2>2, <2>3
  <1>11. ASSUME NEW i \in Instances, i # j PROVE Held(i)' = Held(i)
    BY <1>9, <1>10, <1>11, HeldSame
  <1>12. \A kc \in Keys \X Chunks : kc[1] \in Keys /\ kc[2] \in Chunks /\ kc = <<kc[1], kc[2]>>
    OBVIOUS
  <1>13. Held(j) \subseteq Keys \X Chunks /\ Held(j)' \subseteq Keys \X Chunks
    BY DEF Held
  <1>14. <<m, d>> \in Held(j) /\ (d \notin confirmed[kk] => <<kk, d>> \notin Held(j))
    <2>1. Owed(m, d, j) /\ ~Owed(kk, d, j)
      BY <1>5, <1>8, <1>9
    <2> QED
      BY <1>10, <2>1 DEF Held
  <1>15. ASSUME NEW kc \in Keys \X Chunks
         PROVE  kc \in Held(j)' <=> \/ kc \in Held(j) /\ kc # <<m, d>>
                                    \/ d \notin confirmed[kk] /\ kc = <<kk, d>>
    <2>1. kc[1] \in Keys /\ kc[2] \in Chunks /\ kc = <<kc[1], kc[2]>>
      BY <1>12
    <2>2. kc \in Held(j) <=> Charged(kc[1], kc[2], j) \/ Owed(kc[1], kc[2], j)
      BY DEF Held
    <2>3. kc \in Held(j)' <=> Charged(kc[1], kc[2], j)' \/ Owed(kc[1], kc[2], j)'
      BY DEF Held
    <2> QED
      BY <1>9, <1>10, <2>1, <2>2, <2>3
  <1>16. d \in confirmed[kk] => Held(j)' = Held(j) \ {<<m, d>>}
    BY <1>13, <1>15
  <1>17. d \notin confirmed[kk] => Held(j)' = (Held(j) \ {<<m, d>>}) \cup {<<kk, d>>}
    BY <1>13, <1>15
  <1> QED
    BY <1>1, <1>4, <1>5, <1>11, <1>14, <1>16, <1>17

\* A step that leaves what counts alone, one that places a chunk, and one that relocates one.
Rests ==
    /\ UNCHANGED size /\ \A i \in Instances : Held(i)' = Held(i)
    /\ \A k \in Keys : inStore[k] => UNCHANGED <<inStore[k], chunkSize[k]>>
    /\ \A k \in Keys : ~inStore[k] /\ inStore'[k] => chunkSize'[k] \in Sizes

Adds ==
    /\ UNCHANGED <<inStore, chunkSize>>
    /\ \E k \in Keys, c \in Chunks, j \in Instances :
          /\ inStore[k] /\ <<k, c>> \notin Held(j) /\ Held(j)' = Held(j) \cup {<<k, c>>}
          /\ \A i \in Instances : i # j => Held(i)' = Held(i)
          /\ size' = [size EXCEPT ![j] = IncreaseSize(@, chunkSize[k])]
          /\ AddUint(size[j], chunkSize[k]) < Capacity

Exchanges ==
    /\ UNCHANGED <<inStore, chunkSize>>
    /\ \E k \in Keys, m \in Keys, d \in Chunks, j \in Instances :
          /\ inStore[k] /\ inStore[m]
          /\ size' = [size EXCEPT ![j] = Exchanged(@, k, m, d)]
          /\ \A i \in Instances : i # j => Held(i)' = Held(i)
          /\ <<m, d>> \in Held(j)
          /\ d \in confirmed[k] => Held(j)' = Held(j) \ {<<m, d>>}
          /\ d \notin confirmed[k] => /\ <<k, d>> \notin Held(j)
                                     /\ Held(j)' = (Held(j) \ {<<m, d>>}) \cup {<<k, d>>}

\* Every step is one of the three.
LEMMA HeldStep ==
    ASSUME OneWriter, IInv, WholeInv, StageInv, ListInv, [Next]_vars
    PROVE  Rests \/ Adds \/ Exchanges
  <1> USE DEF TypeOK, HandlerType, MetaType, PlacerMetaType
  <1>0. TypeOK /\ HandlerInv /\ LockInv /\ StoreInv
    BY DEF IInv
  <1>r. ASSUME UNCHANGED <<size, inStore, chunkSize>>, \A i \in Instances : Held(i)' = Held(i)
        PROVE  Rests
    BY <1>r DEF Rests
  <1>1. CASE UNCHANGED vars
    <2>1. \A k, c, i : (Charged(k, c, i)' <=> Charged(k, c, i)) /\ (Owed(k, c, i)' <=> Owed(k, c, i))
      BY <1>1 DEF Charged, Owed, Pending, KeyOf, vars, metaVars, pmVars, handlerVars, clientVars
    <2> QED
      BY <1>1, <1>r, <2>1, HeldSame DEF vars, metaVars, groupVars
  <1>2. CASE \/ \E cl \in Clients, k \in Keys, s \in Sizes : EcSet(cl, k, s)
             \/ \E cl \in Clients, k \in Keys : Recover(cl, k)
    <2>1. /\ \A h \in Handlers : pc[h] # "relocate" /\ pc'[h] # "relocate"
          /\ UNCHANGED <<deleted, confirmed, placement, swapMap, size, inStore, chunkSize>>
      BY <1>0, <1>2, BeginFacts DEF metaVars, pmVars, groupVars
    <2>2. /\ \A k, c : ~Pending(k, c)' /\ ~Pending(k, c)
          /\ \A k, c, i : ~Owed(k, c, i)' /\ ~Owed(k, c, i)
      BY <2>1, NothingOwed
    <2>3. \A k, c, i : Charged(k, c, i)' <=> Charged(k, c, i)
      BY <2>1, <2>2 DEF Charged
    <2> QED
      BY <1>r, <2>1, <2>2, <2>3, HeldSame
  <1>3. CASE \E k \in Keys, c \in Chunks : Get(k, c)
    <2>1. UNCHANGED <<deleted, confirmed, placement, swapMap, size, inStore, chunkSize, pc, post, idx, ec>>
      BY <1>3 DEF Get, metaVars, groupVars, handlerVars, clientVars
    <2>2. \A k, c, i : (Charged(k, c, i)' <=> Charged(k, c, i)) /\ (Owed(k, c, i)' <=> Owed(k, c, i))
      BY <2>1 DEF Charged, Owed, Pending, KeyOf
    <2> QED
      BY <1>r, <2>1, <2>2, HeldSame
  <1>4. ASSUME NEW h \in Handlers, HandleSet(h)
        PROVE  Rests \/ Adds \/ Exchanges
    <2>0. PICK kk \in Keys : kk = KeyOf(h)
      BY <1>0, <1>4, HandlerMoves, OnlyBusy
    <2>1. /\ \A g \in Handlers : KeyOf(g)' = kk /\ KeyOf(g) = kk
          /\ pc[h] # "idle"
          /\ \A g \in Handlers \ {h} : pc'[g] = pc[g] /\ post'[g] = post[g] /\ idx'[g] = idx[g]
      BY <1>0, <1>4, <2>0, HandlerMoves, OneKey
    <2>2. ASSUME UNCHANGED <<confirmed, swapMap>>, pc[h] # "relocate", pc'[h] # "relocate"
          PROVE  \A k, c : /\ Pending(k, c)' <=> Pending(k, c)
                           /\ \A i : Owed(k, c, i)' <=> Owed(k, c, i)
      BY <2>1, <2>2 DEF Owed, Pending
    <2>3. CASE TakeSwapped(h) \/ Relocated(h)
      <3>1. UNCHANGED <<size, inStore, chunkSize>>
        BY <2>3 DEF TakeSwapped, Relocated, groupVars
      <3> QED
        BY <1>4, <1>r, <2>3, <3>1, TakeOver
    <2>4. CASE Place(h)
      <3>1. UNCHANGED <<inStore, chunkSize>> /\ pc[h] = "placer"
        BY <2>4 DEF Place, EnterPlacer
      <3>2. inStore[kk]
        BY <1>0, <2>0, <3>1 DEF StoreInv
      <3> QED
        BY <1>4, <2>0, <2>4, <3>1, <3>2, PlaceHeld DEF Adds
    <2>5. CASE LockMeta(h) /\ StartsOver(h)
      <3>1. /\ deleted[kk] /\ deleted' = [deleted EXCEPT ![kk] = FALSE]
            /\ confirmed' = [confirmed EXCEPT ![kk] = {}]
            /\ swapMap' = [swapMap EXCEPT ![kk] = Nil]
            /\ UNCHANGED <<placement, size, inStore, chunkSize>> /\ pc'[h] = "placer"
        BY <2>0, <2>5 DEF StartsOver, LockMeta, groupVars
      <3>2. \A g \in Handlers : pc[g] # "relocate" /\ pc'[g] # "relocate"
        BY <2>1, <3>1 DEF WholeInv, Busy, Early
      <3>3. /\ \A k, c : ~Pending(k, c)' /\ ~Pending(k, c)
            /\ \A k, c, i : ~Owed(k, c, i)' /\ ~Owed(k, c, i)
        BY <3>2, NothingOwed
      <3>4. ASSUME NEW k \in Keys, NEW c \in Chunks, NEW i \in Instances
            PROVE  Charged(k, c, i)' <=> Charged(k, c, i)
        <4>1. CASE k = kk
          <5>1. confirmed'[k] = {} /\ swapMap'[k] = Nil
            BY <1>0, <3>1, <4>1
          <5> QED
            BY <3>1, <4>1, <5>1 DEF Charged
        <4>2. CASE k # kk
          BY <3>1, <3>3, <4>2 DEF Charged
        <4> QED
          BY <4>1, <4>2
      <3> QED
        BY <1>r, <3>1, <3>3, <3>4, HeldSame
    <2>6. CASE ClockEvict(h)
      <3>1. UNCHANGED <<size, inStore, chunkSize>>
        BY <2>6 DEF ClockEvict, ClockUnchanged, groupVars
      <3> QED
        BY <1>4, <1>r, <2>6, <3>1, EvictHeld
    <2>7. CASE Relocate(h)
      <3>1. UNCHANGED <<inStore, chunkSize>>
        BY <2>7 DEF Relocate, metaVars
      <3> QED
        BY <1>4, <2>7, <3>1, RelocateHeld DEF Exchanges
    <2>8. CASE UNCHANGED <<confirmed, deleted, swapMap>> /\ Insert(h)
      <3>1. /\ UNCHANGED size /\ pc[h] = "insert" /\ pc'[h] = "lock"
            /\ \A k \in Keys : inStore[k] \/ k # kk =>
                  UNCHANGED <<placement[k], chunkSize[k], inStore[k]>>
            /\ ~inStore[kk] => chunkSize'[kk] = ec[h[1]].size
        BY <1>0, <2>0, <2>8 DEF Insert, groupVars
      <3>2. ec[h[1]].size \in Sizes
        BY <1>0, <2>1, HandlerFacts
      <3>3. \A k \in Keys, c \in Chunks : c \in confirmed[k] => placement'[k] = placement[k]
        BY <1>0, <3>1 DEF StoreInv
      <3>4. \A k, c : (Pending(k, c)' <=> Pending(k, c)) /\ \A i : Owed(k, c, i)' <=> Owed(k, c, i)
        BY <2>2, <2>8, <3>1
      <3>5. \A k \in Keys, c \in Chunks, i \in Instances : Charged(k, c, i)' <=> Charged(k, c, i)
        BY <2>8, <3>3, <3>4 DEF Charged
      <3>6. \A i \in Instances : Held(i)' = Held(i)
        BY <3>4, <3>5, HeldSame
      <3> QED
        BY <3>1, <3>2, <3>6 DEF Rests
    <2>9. CASE /\ UNCHANGED <<confirmed, deleted, swapMap>>
               /\ \/ LockMeta(h) /\ ~deleted[KeyOf(h)] /\ UNCHANGED pmVars
                  \/ AlreadyConfirmed(h) \/ EvictedMeanwhile(h) \/ Overweight(h)
                  \/ ClockStart(h) \/ ClockSkip(h) \/ ClockPass(h) \/ ClockBound(h)
                  \/ ClockTail(h) \/ ClockSwitch(h) \/ NotSet(h) \/ IsSet(h)
                  \/ DropEvicted(h) \/ Send(h)
      <3>1. UNCHANGED <<placement, size, inStore, chunkSize>>
        BY <2>9 DEF LockMeta, AlreadyConfirmed, EvictedMeanwhile, Overweight, ClockStart, ClockSkip,
               ClockPass, ClockBound, ClockTail, ClockSwitch, ClockUnchanged, NotSet, IsSet,
               DropEvicted, Send, metaVars, groupVars
      <3>2. pc[h] # "relocate" /\ pc'[h] # "relocate"
        BY <1>0, <2>9 DEF LockMeta, AlreadyConfirmed, EvictedMeanwhile, EnterPlacer, Overweight,
               ClockStart, ClockSkip, ClockPass, ClockBound, ClockTail, ClockSwitch, AtSlot, NotSet,
               IsSet, DropEvicted, Send, Return, handlerVars
      <3>3. \A k, c : (Pending(k, c)' <=> Pending(k, c)) /\ \A i : Owed(k, c, i)' <=> Owed(k, c, i)
        BY <2>2, <2>9, <3>2
      <3>4. \A k, c, i : Charged(k, c, i)' <=> Charged(k, c, i)
        BY <2>9, <3>1, <3>3 DEF Charged
      <3> QED
        BY <1>r, <3>1, <3>3, <3>4, HeldSame
    <2> QED
      BY <1>0, <1>4, <2>3, <2>4, <2>5, <2>6, <2>7, <2>8, <2>9, MetaMoves
  <1> QED
    BY <1>1, <1>2, <1>3, <1>4 DEF Next

\* The object of a chunk that counts is in the meta store.
LEMMA HeldStored ==
    ASSUME IInv, StageInv, NEW i \in Instances, NEW kc \in Held(i)
    PROVE  kc[1] \in Keys /\ inStore[kc[1]] /\ chunkSize[kc[1]] \in Nat
  <1>1. TypeOK /\ StoreInv
    BY DEF IInv
  <1>2. PICK k \in Keys, c \in Chunks : k = kc[1] /\ c = kc[2] /\ (Charged(k, c, i) \/ Owed(k, c, i))
    BY DEF Held
  <1>3. CASE Owed(k, c, i)
    <2>1. confirmed[k] = Chunks
      BY <1>2, <1>3, NilAssumption DEF Owed, StageInv
    <2> QED
      BY <1>1, <1>2, <2>1, ConstantFacts DEF StoreInv, TypeOK, MetaType
  <1>4. CASE Charged(k, c, i)
    <2>1. ~deleted[k] /\ (confirmed[k] # {} \/ swapMap[k] # Nil)
      BY <1>4 DEF Charged
    <2>2. confirmed[k] # {} \/ Relocating(k)
      BY <1>2, <2>1 DEF StageInv
    <2>3. inStore[k]
      BY <1>1, <1>2, <2>2 DEF StoreInv, Relocating
    <2> QED
      BY <1>1, <1>2, <2>3 DEF TypeOK, MetaType
  <1> QED
    BY <1>2, <1>3, <1>4

\* Every step keeps the counters exact.
LEMMA SizeStep ==
    ASSUME IInv, StageInv, SizeInv, Rests \/ Adds \/ Exchanges
    PROVE  SizeInv'
  <1>0. /\ chunkSize \in [Keys -> Nat] /\ size \in [Instances -> 0..(Modulus - 1)]
        /\ Overhead \in Nat /\ Modulus \in Nat
    BY SizeAssumption DEF IInv, TypeOK, MetaType, GroupType
  <1>1. ASSUME NEW i \in Instances
        PROVE  /\ IsFiniteSet(Held(i)) /\ IsFiniteSet(Bytes(Held(i), chunkSize))
               /\ size[i] = (Overhead + Weight(Held(i), chunkSize)) % Modulus
               /\ Weight(Held(i), chunkSize) \in Nat
    BY FS_CardinalityType DEF SizeInv, Weight
  <1>2. CASE Rests
    <2>1. ASSUME NEW i \in Instances
          PROVE  /\ Bytes(Held(i), chunkSize)' = Bytes(Held(i), chunkSize)
                 /\ Weight(Held(i), chunkSize)' = Weight(Held(i), chunkSize)
      <3>1. Held(i)' = Held(i)
        BY <1>2 DEF Rests
      <3>2. \A x \in Held(i) : chunkSize'[x[1]] = chunkSize[x[1]]
        BY <1>2, HeldStored DEF Rests
      <3>3. /\ Bytes(Held(i), chunkSize') = Bytes(Held(i), chunkSize)
            /\ Weight(Held(i), chunkSize') = Weight(Held(i), chunkSize)
        BY <3>2, WeightSame
      <3>4. /\ Bytes(Held(i), chunkSize)' = Bytes(Held(i)', chunkSize')
            /\ Weight(Held(i), chunkSize)' = Weight(Held(i)', chunkSize')
        BY DEF Bytes, Weight
      <3> QED
        BY <3>1, <3>3, <3>4
    <2> QED
      BY <1>1, <1>2, <2>1 DEF SizeInv, Rests
  <1>3. ASSUME UNCHANGED chunkSize, NEW j \in Instances,
               \A i \in Instances : i # j => Held(i)' = Held(i) /\ size'[i] = size[i],
               IsFiniteSet(Held(j)'), IsFiniteSet(Bytes(Held(j)', chunkSize)),
               size'[j] = (Overhead + Weight(Held(j)', chunkSize)) % Modulus
        PROVE  SizeInv'
    <2>1. ASSUME NEW i \in Instances
          PROVE  /\ Bytes(Held(i), chunkSize)' = Bytes(Held(i)', chunkSize)
                 /\ Weight(Held(i), chunkSize)' = Weight(Held(i)', chunkSize)
      BY <1>3 DEF Bytes, Weight
    <2> QED
      BY <1>1, <1>3, <2>1 DEF SizeInv
  <1>4. CASE Adds
    <2>1. PICK k \in Keys, c \in Chunks, j \in Instances :
              /\ inStore[k] /\ <<k, c>> \notin Held(j) /\ Held(j)' = Held(j) \cup {<<k, c>>}
              /\ \A i \in Instances : i # j => Held(i)' = Held(i)
              /\ size' = [size EXCEPT ![j] = IncreaseSize(@, chunkSize[k])]
      BY <1>4 DEF Adds
    <2>2. UNCHANGED chunkSize
      BY <1>4 DEF Adds
    <2>3. /\ size'[j] = AddUint(size[j], chunkSize[k])
          /\ \A i \in Instances : i # j => size'[i] = size[i]
      BY <1>0, <2>1 DEF IncreaseSize
    <2>4. IsFiniteSet(Held(j)')
      BY <1>1, <2>1, FS_AddElement
    <2>5. /\ IsFiniteSet(Bytes(Held(j)', chunkSize))
          /\ Weight(Held(j)', chunkSize) = Weight(Held(j), chunkSize) + chunkSize[k]
      <3>1. <<k, c>> \notin Held(j) /\ chunkSize[k] \in Nat /\ IsFiniteSet(Bytes(Held(j), chunkSize))
        BY <1>0, <1>1, <2>1
      <3>2. /\ IsFiniteSet(Bytes(Held(j) \cup {<<k, c>>}, chunkSize))
            /\ Weight(Held(j) \cup {<<k, c>>}, chunkSize) = Weight(Held(j), chunkSize) + chunkSize[k]
        BY <3>1, PairAdd
      <3>3. Held(j)' = Held(j) \cup {<<k, c>>}
        BY <2>1
      <3> QED
        BY <3>2, <3>3
    <2>6. size'[j] = (Overhead + Weight(Held(j), chunkSize) + chunkSize[k]) % Modulus
      BY <1>0, <1>1, <2>3, CounterAdds
    <2>7. Overhead + Weight(Held(j), chunkSize) + chunkSize[k] = Overhead + Weight(Held(j)', chunkSize)
      BY <1>0, <1>1, <2>5
    <2> QED
      BY <1>3, <2>1, <2>2, <2>3, <2>4, <2>5, <2>6, <2>7
  <1>5. CASE Exchanges
    <2>1. PICK k \in Keys, m \in Keys, d \in Chunks, j \in Instances :
              /\ size' = [size EXCEPT ![j] = Exchanged(@, k, m, d)]
              /\ \A i \in Instances : i # j => Held(i)' = Held(i)
              /\ <<m, d>> \in Held(j)
              /\ d \in confirmed[k] => Held(j)' = Held(j) \ {<<m, d>>}
              /\ d \notin confirmed[k] => /\ <<k, d>> \notin Held(j)
                                         /\ Held(j)' = (Held(j) \ {<<m, d>>}) \cup {<<k, d>>}
      BY <1>5, ZenonT(30) DEF Exchanges
    <2> DEFINE R == Held(j) \ {<<m, d>>}
    <2>2. UNCHANGED chunkSize
      BY <1>5 DEF Exchanges
    <2>3. /\ size'[j] = Exchanged(size[j], k, m, d)
          /\ \A i \in Instances : i # j => size'[i] = size[i]
      BY <1>0, <2>1
    <2>4. /\ IsFiniteSet(R) /\ IsFiniteSet(Bytes(R, chunkSize)) /\ Weight(R, chunkSize) \in Nat
          /\ Weight(Held(j), chunkSize) = Weight(R, chunkSize) + chunkSize[m]
      <3>1. IsFiniteSet(R)
        BY <1>1, FS_RemoveElement
      <3>2. /\ IsFiniteSet(Bytes(R, chunkSize)) /\ Weight(R, chunkSize) \in Nat
            /\ Weight(Held(j), chunkSize) = Weight(R, chunkSize) + chunkSize[m]
        BY <1>0, <1>1, <2>1, PairRemove
      <3> QED
        BY <3>1, <3>2
    <2> HIDE DEF R
    <2>5. CASE d \in confirmed[k]
      <3>1. Held(j)' = R
        BY <2>1, <2>5 DEF R
      <3>2. size'[j] = AddUint(size[j], 0 - chunkSize[m])
        BY <2>3, <2>5 DEF Exchanged, DecreaseSize
      <3>3. size'[j] = (Overhead + Weight(Held(j), chunkSize) + (0 - chunkSize[m])) % Modulus
        BY <1>0, <1>1, <3>2, CounterAdds
      <3>4. Overhead + Weight(Held(j), chunkSize) + (0 - chunkSize[m]) = Overhead + Weight(R, chunkSize)
        BY <1>0, <1>1, <2>4
      <3> QED
        BY <1>3, <2>1, <2>2, <2>3, <2>4, <3>1, <3>3, <3>4
    <2>6. CASE d \notin confirmed[k]
      <3>1. Held(j)' = R \cup {<<k, d>>} /\ <<k, d>> \notin R
        BY <2>1, <2>6 DEF R
      <3>2. size'[j] = AddUint(size[j], chunkSize[k] - chunkSize[m])
        BY <2>3, <2>6 DEF Exchanged, IncreaseSize
      <3>3. size'[j] = (Overhead + Weight(Held(j), chunkSize) + (chunkSize[k] - chunkSize[m])) % Modulus
        BY <1>0, <1>1, <3>2, CounterAdds
      <3>4. /\ IsFiniteSet(Held(j)') /\ IsFiniteSet(Bytes(Held(j)', chunkSize))
            /\ Weight(Held(j)', chunkSize) = Weight(R, chunkSize) + chunkSize[k]
        <4>1. IsFiniteSet(Held(j)')
          BY <2>4, <3>1, FS_AddElement
        <4>2. /\ IsFiniteSet(Bytes(Held(j)', chunkSize))
              /\ Weight(Held(j)', chunkSize) = Weight(R, chunkSize) + chunkSize[k]
          BY <1>0, <2>4, <3>1, PairAdd
        <4> QED
          BY <4>1, <4>2
      <3>5. Overhead + Weight(Held(j), chunkSize) + (chunkSize[k] - chunkSize[m])
                = Overhead + Weight(Held(j)', chunkSize)
        BY <1>0, <1>1, <2>4, <3>4
      <3> QED
        BY <1>3, <2>1, <2>2, <2>3, <3>3, <3>4, <3>5
    <2> QED
      BY <2>5, <2>6
  <1> QED
    BY <1>2, <1>4, <1>5

\* Of the sizes in use one is the smallest.
LEMMA SmallestSize ==
    ASSUME Sizes # {}
    PROVE  \E u \in Sizes : \A v \in Sizes : u <= v
  <1>1. Sizes \subseteq Nat
    BY SizeAssumption
  <1>2. PICK u \in Sizes : \A v \in Sizes : ~(<<v, u>> \in OpToRel(<, Nat))
    BY <1>1, NatLessThanWellFounded, WFMin
  <1>3. ASSUME NEW v \in Sizes PROVE ~(v < u)
    <2>1. v < u => <<v, u>> \in OpToRel(<, Nat)
      BY <1>1 DEF OpToRel
    <2> QED
      BY <1>2, <2>1
  <1> QED
    BY <1>1, <1>3

\* The bytes of chunks whose sizes lie between two bounds.
LEMMA WeightBounds ==
    ASSUME NEW S, NEW w, IsFiniteSet(S), IsFiniteSet(Bytes(S, w)), NEW u \in Nat, NEW top \in Nat,
           \A x \in S : w[x[1]] \in Nat /\ u <= w[x[1]] /\ w[x[1]] <= top
    PROVE  Cardinality(S) * u <= Weight(S, w) /\ Weight(S, w) <= Cardinality(S) * top
  <1>1. \A v \in Nat : IsFiniteSet(1..v) /\ Cardinality(1..v) = v
    BY FS_Interval
  <1>2. ASSUME NEW v \in Nat
        PROVE  IsFiniteSet(S \X (1..v)) /\ Cardinality(S \X (1..v)) = Cardinality(S) * v
    <2>1. ASSUME NEW I, IsFiniteSet(I)
          PROVE  IsFiniteSet(S \X I) /\ Cardinality(S \X I) = Cardinality(S) * Cardinality(I)
      BY <2>1, FS_Product
    <2> QED
      BY <1>1, <2>1
  <1>3. (S \X (1..u)) \in SUBSET Bytes(S, w)
    BY DEF Bytes
  <1>4. Bytes(S, w) \in SUBSET (S \X (1..top))
    BY DEF Bytes
  <1>5. Cardinality(S \X (1..u)) <= Weight(S, w)
    BY <1>3, FS_Subset DEF Weight
  <1>6. Weight(S, w) <= Cardinality(S \X (1..top))
    BY <1>2, <1>4, FS_Subset DEF Weight
  <1> QED
    BY <1>2, <1>5, <1>6

\* A product with a positive number.
LEMMA Times ==
    ASSUME NEW n \in Nat, NEW s \in Nat \ {0}
    PROVE  n <= s * n /\ s * n \in Nat /\ s * (n + 1) = s * n + s
  <1>1. PICK t \in Nat : s = t + 1
    BY s - 1 \in Nat
  <1>2. s * n = t * n + n /\ t * n \in Nat
    BY <1>1
  <1> QED
    BY <1>2

\* No step puts more chunks on an instance than would fit in the smallest size.
LEMMA CrowdStep ==
    ASSUME WideCounters, IInv, StageInv, SizeInv, CrowdInv, Rests \/ Adds \/ Exchanges
    PROVE  CrowdInv'
  <1>0. /\ chunkSize \in [Keys -> Nat] /\ size \in [Instances -> 0..(Modulus - 1)]
        /\ Overhead \in Nat /\ Modulus \in Nat \ {0} /\ Capacity \in Nat /\ Sizes \subseteq Nat \ {0}
    BY SizeAssumption DEF IInv, TypeOK, MetaType, GroupType
  <1>1. ASSUME NEW i \in Instances
        PROVE  /\ IsFiniteSet(Held(i)) /\ Cardinality(Held(i)) \in Nat
               /\ IsFiniteSet(Bytes(Held(i), chunkSize))
               /\ size[i] = (Overhead + Weight(Held(i), chunkSize)) % Modulus
               /\ Weight(Held(i), chunkSize) \in Nat
    BY FS_CardinalityType DEF SizeInv, Weight
  <1>2. CASE Rests
    BY <1>2 DEF CrowdInv, Rests
  <1>3. ASSUME UNCHANGED <<inStore, chunkSize>>, NEW j \in Instances,
               \A i \in Instances : i # j => Held(i)' = Held(i),
               \E s \in Sizes : Overhead + s * Cardinality(Held(j)') < Capacity
        PROVE  CrowdInv'
    BY <1>3 DEF CrowdInv
  <1>4. CASE Adds
    <2>1. PICK k \in Keys, c \in Chunks, j \in Instances :
              /\ inStore[k] /\ <<k, c>> \notin Held(j) /\ Held(j)' = Held(j) \cup {<<k, c>>}
              /\ \A i \in Instances : i # j => Held(i)' = Held(i)
              /\ AddUint(size[j], chunkSize[k]) < Capacity
      BY <1>4 DEF Adds
    <2>2. UNCHANGED <<inStore, chunkSize>>
      BY <1>4 DEF Adds
    <2>3. PICK u \in Sizes : \A v \in Sizes : u <= v
      <3>1. chunkSize[k] \in Sizes
        BY <2>1 DEF CrowdInv
      <3> QED
        BY <3>1, SmallestSize
    <2>4. PICK top \in Nat : (\A s \in Sizes : s <= top) /\ Overhead + top * (Capacity + 1) < Modulus
      BY DEF WideCounters
    <2>5. PICK n \in Nat, W \in Nat, cs \in Nat :
              n = Cardinality(Held(j)) /\ W = Weight(Held(j), chunkSize) /\ cs = chunkSize[k]
      BY <1>0, <1>1
    <2>6. u \in Nat \ {0} /\ u <= cs /\ cs <= top
      BY <1>0, <2>1, <2>3, <2>4, <2>5 DEF CrowdInv
    <2>7. n * u <= W /\ W <= n * top
      <3>1. \A x \in Held(j) : chunkSize[x[1]] \in Nat /\ u <= chunkSize[x[1]] /\ chunkSize[x[1]] <= top
        BY <2>3, <2>4, HeldStored DEF CrowdInv
      <3> QED
        BY <1>1, <2>5, <2>6, <3>1, WeightBounds
    <2>8. n <= Capacity
      <3>1. CASE Held(j) = {}
        BY <1>0, <2>5, <3>1, FS_EmptySet
      <3>2. CASE Held(j) # {}
        <4>1. PICK s \in Sizes : Overhead + s * n < Capacity
          BY <2>5, <3>2 DEF CrowdInv
        <4>2. n <= s * n /\ s * n \in Nat
          BY <1>0, Times
        <4> QED
          BY <1>0, <4>1, <4>2
      <3> QED
        BY <3>1, <3>2
    <2>9. Overhead + W + cs < Modulus
      <3>1. PICK e \in Nat : Capacity = n + e
        BY <1>0, <2>8, Capacity - n \in Nat
      <3>2. top * (Capacity + 1) = n * top + top + top * e
        BY <3>1
      <3>3. PICK p \in Nat, q \in Nat : p = n * top /\ q = top * e
        BY <3>1
      <3>4. Overhead + (p + top + q) < Modulus /\ W <= p
        BY <2>4, <2>7, <3>2, <3>3
      <3> QED
        BY <1>0, <2>6, <3>4
    <2>10. Overhead + W + cs < Capacity
      <3>1. AddUint(size[j], cs) = (Overhead + W + cs) % Modulus
        <4>1. size[j] = (Overhead + W) % Modulus /\ Overhead + W \in Int /\ cs \in Int
          BY <1>0, <1>1, <2>5
        <4> QED
          BY <4>1, CounterAdds
      <3>2. \A y \in 0..(Modulus - 1) : y % Modulus = y
        BY <1>0
      <3>3. Overhead + W + cs \in 0..(Modulus - 1)
        BY <1>0, <2>9
      <3> QED
        BY <2>1, <2>5, <3>1, <3>2, <3>3
    <2>11. Cardinality(Held(j)') = n + 1
      BY <1>1, <2>1, <2>5, FS_AddElement
    <2>12. Overhead + u * (n + 1) < Capacity
      <3>1. u * (n + 1) = n * u + u /\ n * u \in Nat
        BY <2>6
      <3> QED
        BY <1>0, <2>6, <2>7, <2>10, <3>1
    <2> QED
      BY <1>3, <2>1, <2>2, <2>11, <2>12
  <1>5. CASE Exchanges
    <2>1. PICK k \in Keys, m \in Keys, d \in Chunks, j \in Instances :
              /\ \A i \in Instances : i # j => Held(i)' = Held(i)
              /\ <<m, d>> \in Held(j)
              /\ d \in confirmed[k] => Held(j)' = Held(j) \ {<<m, d>>}
              /\ d \notin confirmed[k] => /\ <<k, d>> \notin Held(j)
                                         /\ Held(j)' = (Held(j) \ {<<m, d>>}) \cup {<<k, d>>}
      BY <1>5 DEF Exchanges
    <2> DEFINE R == Held(j) \ {<<m, d>>}
    <2>2. UNCHANGED <<inStore, chunkSize>>
      BY <1>5 DEF Exchanges
    <2>3. PICK s \in Sizes : Overhead + s * Cardinality(Held(j)) < Capacity
      BY <2>1 DEF CrowdInv
    <2>4. IsFiniteSet(R) /\ Cardinality(R) = Cardinality(Held(j)) - 1 /\ Cardinality(R) \in Nat
      BY <1>1, <2>1, FS_RemoveElement, FS_CardinalityType
    <2> HIDE DEF R
    <2>5. PICK n \in Nat : n = Cardinality(R) /\ n + 1 = Cardinality(Held(j))
      BY <1>1, <2>4
    <2>6. Overhead + s * (n + 1) < Capacity /\ Overhead + s * n < Capacity
      <3>1. s * (n + 1) = s * n + s /\ s * n \in Nat /\ s \in Nat
        BY <1>0, Times
      <3> QED
        BY <1>0, <2>3, <2>5, <3>1
    <2>7. Cardinality(Held(j)') = n \/ Cardinality(Held(j)') = n + 1
      <3>1. d \in confirmed[k] => Held(j)' = R
        BY <2>1 DEF R
      <3>2. d \notin confirmed[k] => Held(j)' = R \cup {<<k, d>>} /\ <<k, d>> \notin R
        BY <2>1 DEF R
      <3> QED
        BY <2>4, <2>5, <3>1, <3>2, FS_AddElement
    <2> QED
      BY <1>3, <2>1, <2>2, <2>6, <2>7
  <1> QED
    BY <1>2, <1>4, <1>5

-----------------------------------------------------------------------------
\* The inductive invariant of one writer holds in every behaviour.
THEOREM OneWriterInductive ==
    ASSUME OneWriter
    PROVE  Spec => [](IInv /\ OneInv)
  <1>1. Init => OneInv
    <2> SUFFICES ASSUME Init PROVE OneInv
      OBVIOUS
    <2>1. WholeInv /\ StageInv
      BY ConstantFacts DEF Init, WholeInv, StageInv, Busy, Relocating, Late, Early
    <2>2. ListInv
      <3>1. Len(objects[primary]) = 0 /\ \A k : ~Relocating(k)
        BY DEF Init, Relocating
      <3> QED
        BY <3>1 DEF Init, ListInv
    <2>3. StoredInv
      BY DEF Init, StoredInv
    <2> QED
      BY <2>1, <2>2, <2>3 DEF OneInv
  <1>2. IInv /\ IInv' /\ OneInv /\ [Next]_vars => OneInv'
    BY WholeStep, StageStep, ListStep, StoredStep DEF OneInv
  <1> QED
    BY <1>1, <1>2, Invariance, PTL DEF Spec

\* With one writer the primary array holds every live object once, at the position its meta
\* records, and nothing else: the clock, its compaction and its switch lose no object and
\* leave no stale entry.
THEOREM ListIsExact ==
    ASSUME OneWriter
    PROVE  Spec => []ListExact
  <1>1. IInv /\ OneInv => ListExact
    <2> SUFFICES ASSUME IInv, OneInv, placerMu = Nil, NEW k \in Keys
                 PROVE  Slots(k) = IF Alive(k) THEN {pos[k][primary]} ELSE {}
      BY DEF ListExact
    <2>0. TypeOK /\ HandlerInv /\ LockInv /\ PosInv /\ StageInv /\ ListInv
      BY DEF IInv, OneInv
    <2>1. ~Relocating(k)
      BY <2>0, NilAssumption DEF LockInv, InPlacer, Relocating
    <2>2. primary \in 0..1 /\ Len(objects[primary]) \in Nat
      BY <2>0 DEF TypeOK, ClockType
    <2>3. ASSUME NEW n \in Slots(k) PROVE n = pos[k][primary] /\ Alive(k)
      <3>1. n \in 1..Len(objects[primary]) /\ objects[primary][n] = k
        BY DEF Slots
      <3>2. ~deleted[k] /\ pos[k][primary] = n
        BY <2>0, <3>1, NilAssumption DEF ListInv, Exact
      <3>3. n # 0
        BY <2>2, <3>1
      <3>4. confirmed[k] # {}
        BY <2>0, <2>1, <2>2, <3>2, <3>3 DEF StageInv
      <3> QED
        BY <3>2, <3>4 DEF Alive
    <2>4. ASSUME Alive(k) PROVE pos[k][primary] \in Slots(k)
      <3>1. pos[k][primary] # 0 /\ ~deleted[k]
        BY <2>0, <2>4 DEF ListInv, Alive
      <3> QED
        BY <2>0, <3>1 DEF PosInv, OnArray, Slots
    <2> QED
      BY <2>3, <2>4
  <1> QED
    BY <1>1, OneWriterInductive, PTL

\* With one writer the lambdas hold, between operations, exactly the chunks the placer would
\* look for: postProcess drops every chunk of every victim and no chunk that was set since.
THEOREM StoreIsExact ==
    ASSUME OneWriter
    PROVE  Spec => []StoreExact
  <1>1. IInv /\ OneInv => StoreExact
    <2> SUFFICES ASSUME IInv, OneInv, \A h \in Handlers : pc[h] = "idle",
                        NEW i \in Instances, NEW k \in Keys, NEW c \in Chunks
                 PROVE  stored[i][<<k, c>>] # 0 <=>
                            ~deleted[k] /\ c \in confirmed[k] /\ placement[k][c] = i
      BY DEF StoreExact
    <2>1. \A h \in Handlers : post[h] = Nil
      BY DEF OneInv, StageInv
    <2>2. ~Dropping(k, c) /\ ~Setting(k, c)
      BY <2>1, NilAssumption DEF Dropping, Setting
    <2> QED
      BY <2>2 DEF OneInv, StoredInv
  <1> QED
    BY <1>1, OneWriterInductive, PTL

\* What counts in the initial state.
LEMMA NothingHeld ==
    ASSUME Init, NEW i \in Instances
    PROVE  Held(i) = {}
  <1>1. \A kc \in Keys \X Chunks : kc[1] \in Keys /\ kc[2] \in Chunks
    OBVIOUS
  <1>2. \A k \in Keys, c \in Chunks : ~Charged(k, c, i)
    BY DEF Init, Charged
  <1>3. \A k \in Keys, c \in Chunks : ~Owed(k, c, i)
    BY DEF Init, Owed
  <1> QED
    BY <1>1, <1>2, <1>3 DEF Held

\* With one writer, and objects of any sizes, the counters stay exact in the middle of a
\* relocation too, where each chunk of the victim is exchanged for one of another size.
THEOREM CountersInductive ==
    ASSUME OneWriter
    PROVE  Spec => [](IInv /\ OneInv /\ SizeInv)
  <1>1. Init => SizeInv
    <2> SUFFICES ASSUME Init, NEW i \in Instances
                 PROVE  /\ IsFiniteSet(Held(i)) /\ IsFiniteSet(Bytes(Held(i), chunkSize))
                        /\ size[i] = (Overhead + Weight(Held(i), chunkSize)) % Modulus
      BY DEF SizeInv
    <2>1. Held(i) = {}
      BY NothingHeld
    <2>2. Bytes(Held(i), chunkSize) = {}
      BY <2>1 DEF Bytes
    <2>3. Weight(Held(i), chunkSize) = 0
      BY <2>2, FS_EmptySet DEF Weight
    <2>4. size[i] = Overhead
      BY DEF Init
    <2>5. Modulus \in Nat \ {0} /\ Overhead \in 0..(Modulus - 1)
      BY SizeAssumption
    <2>6. (Overhead + 0) % Modulus = Overhead
      BY <2>5
    <2> QED
      BY <2>1, <2>2, <2>3, <2>4, <2>6, FS_EmptySet
  <1>2. IInv /\ OneInv /\ SizeInv /\ [Next]_vars => SizeInv'
    BY HeldStep, SizeStep DEF OneInv
  <1> QED
    BY <1>1, <1>2, OneWriterInductive, PTL DEF Spec

\* While no handler relocates, what counts is what is reserved.
LEMMA HeldReserved ==
    ASSUME \A h \in Handlers : pc[h] # "relocate", NEW i
    PROVE  Held(i) = Reserved(i)
  <1>1. \A k, c : ~Pending(k, c) /\ ~Owed(k, c, i)
    BY NothingOwed
  <1> QED
    BY <1>1 DEF Held, Reserved, Charged

\* The counter of every instance is its overhead plus what is reserved there, although it is
\* only ever changed by differences, and by a relocation one chunk at a time.
THEOREM CountersAreExact ==
    ASSUME OneWriter
    PROVE  Spec => []Accounting
  <1>1. IInv /\ OneInv /\ SizeInv => Accounting
    <2> SUFFICES ASSUME IInv, OneInv, SizeInv, \A h \in Handlers : pc[h] # "relocate",
                        NEW i \in Instances
                 PROVE  size[i] = (Overhead + MapThenSumSet(LAMBDA kc : chunkSize[kc[1]], Reserved(i)))
                                  % Modulus
      BY DEF Accounting
    <2>1. Held(i) = Reserved(i)
      BY HeldReserved
    <2>2. \A kc \in Reserved(i) : chunkSize[kc[1]] \in Nat
      BY <2>1, HeldStored DEF OneInv
    <2>3. IsFiniteSet(Reserved(i)) /\ IsFiniteSet(Bytes(Reserved(i), chunkSize))
      BY <2>1 DEF SizeInv
    <2>4. MapThenSumSet(LAMBDA kc : chunkSize[kc[1]], Reserved(i)) = Weight(Reserved(i), chunkSize)
      BY <2>2, <2>3, WeightSum
    <2> QED
      BY <2>1, <2>4 DEF SizeInv
  <1> QED
    BY <1>1, CountersInductive, PTL

\* An exchange may fill an instance beyond its capacity, but no instance gets more chunks than
\* would fit in the smallest size, provided that the counters are wide enough not to wrap.
THEOREM CrowdLimited ==
    ASSUME OneWriter, WideCounters
    PROVE  Spec => []NotCrowded
  <1>1. Init => CrowdInv
    BY NothingHeld DEF Init, CrowdInv
  <1>2. IInv /\ OneInv /\ SizeInv /\ CrowdInv /\ [Next]_vars => CrowdInv'
    BY HeldStep, CrowdStep DEF OneInv
  <1>3. CrowdInv => NotCrowded
    BY HeldReserved DEF CrowdInv, NotCrowded
  <1> QED
    BY <1>1, <1>2, <1>3, CountersInductive, PTL DEF Spec

=============================================================================
