---------------------------- MODULE PlacerProofs ----------------------------
(***************************************************************************)
(* Invariance proofs for Placer, for any number of keys, clients, chunks   *)
(* and instances, any sizes and any capacity.                              *)
(***************************************************************************)
EXTENDS Placer, TLAPS

Locked == InPlacer \cup {"placer"}

\* What a handler may rely on at each point of HandleSet.
HandlerInv ==
    \A h \in Handlers :
        /\ pc[h] # "idle" => ec[h[1]] # Nil
        /\ pc[h] \notin {"tail", "relocate", "drop"} => idx[h] = 0
        /\ pc[h] = "relocate" => /\ post[h] # Nil
                                 /\ swapMap[KeyOf(h)] # Nil
                                 /\ idx[h] <= NumChunks
        /\ pc[h] = "drop" => post[h] # Nil /\ idx[h] < NumChunks
        /\ pc[h] \in Locked => ChunkOf(h) \notin confirmed[KeyOf(h)]
        /\ pc[h] \in InPlacer => ~deleted[KeyOf(h)]

-----------------------------------------------------------------------------
\* AddUint stays in the range of the unsigned counter.
LEMMA AddUintType ==
    ASSUME NEW x \in Int, NEW d \in Int
    PROVE  AddUint(x, d) \in 0..(Modulus - 1)
  BY SizeAssumption DEF AddUint

\* Facts about the constants that the type proofs need.
LEMMA ConstantFacts ==
    /\ NumInstances \in Nat \ {0}
    /\ 0 \in Instances
    /\ 0 \in Chunks
    /\ \A x \in Int : x % NumInstances \in Instances
    /\ RandomIndex \subseteq Placements
    /\ [c \in Chunks |-> 0] \in Placements
  <1>1. NumInstances \in Nat \ {0} /\ SliceSize \in Nat /\ SliceSize <= NumInstances
    BY ChunkAssumption, GroupAssumption
  <1>2. 0 \in Instances /\ 0 \in Chunks
    BY <1>1, ChunkAssumption DEF Instances, Chunks
  <1>3. \A x \in Int : x % NumInstances \in Instances
    BY <1>1 DEF Instances
  <1>4. 0..(SliceSize - 1) \subseteq Instances
    BY <1>1 DEF Instances
  <1>5. RandomIndex \subseteq Placements
    BY <1>4 DEF RandomIndex, Placements
  <1> QED
    BY <1>1, <1>2, <1>3, <1>5 DEF Placements

\* A handler that is not idle works for a key.
LEMMA HandlerFacts ==
    ASSUME TypeOK, HandlerInv, NEW h \in Handlers, pc[h] # "idle"
    PROVE  /\ h[1] \in Clients
           /\ ChunkOf(h) \in Chunks
           /\ ec[h[1]] \in ClientOps
           /\ KeyOf(h) \in Keys
           /\ ec[h[1]].size \in Sizes
           /\ ec[h[1]].index \in Placements
           /\ ec[h[1]].index[ChunkOf(h)] \in Instances
  <1>1. h[1] \in Clients /\ ChunkOf(h) \in Chunks
    BY DEF Handlers, ChunkOf
  <1>2. ec[h[1]] \in ClientOps
    BY <1>1 DEF TypeOK, ClientType, HandlerInv
  <1> QED
    BY <1>1, <1>2 DEF ClientOps, KeyOf, Placements

\* The initial state satisfies the type invariant and what handlers rely on.
LEMMA InitInv == Init => TypeOK /\ LockInv /\ HandlerInv
  <1> SUFFICES ASSUME Init PROVE TypeOK /\ LockInv /\ HandlerInv
    OBVIOUS
  <1>1. TypeOK
    BY ConstantFacts, SizeAssumption, OpsAssumption
    DEF Init, TypeOK, MetaType, PlacerMetaType, ClockType, LockType, GroupType, HandlerType,
        ClientType, Placements
  <1>2. LockInv
    BY NilAssumption DEF Init, LockInv, InPlacer
  <1>3. HandlerInv
    BY DEF Init, HandlerInv, Locked, InPlacer
  <1> QED
    BY <1>1, <1>2, <1>3

\* The actions of one handler and of the environment, as the case splits below use them.
LEMMA NextCases ==
    ASSUME Next
    PROVE  \/ \E cl \in Clients, k \in Keys, s \in Sizes : EcSet(cl, k, s)
           \/ \E cl \in Clients, k \in Keys : Recover(cl, k)
           \/ \E k \in Keys, c \in Chunks : Get(k, c)
           \/ \E h \in Handlers :
                 \/ Insert(h) \/ AlreadyConfirmed(h) \/ LockMeta(h)
                 \/ EvictedMeanwhile(h) \/ TakeSwapped(h) \/ Place(h) \/ Overweight(h)
                 \/ ClockStart(h) \/ ClockSkip(h) \/ ClockPass(h) \/ ClockEvict(h)
                 \/ ClockBound(h) \/ ClockTail(h) \/ ClockSwitch(h)
                 \/ Relocate(h) \/ Relocated(h)
                 \/ NotSet(h) \/ IsSet(h) \/ DropEvicted(h) \/ Send(h)
  BY DEF Next, HandleSet, Clock

\* Both client operations start handlers with an operation of the right type.
LEMMA StartFacts ==
    ASSUME \/ \E cl \in Clients, k \in Keys, s \in Sizes : EcSet(cl, k, s)
           \/ \E cl \in Clients, k \in Keys : Recover(cl, k)
    PROVE  \E cl \in Clients, op \in ClientOps, shards \in SUBSET Chunks : Start(cl, op, shards)
  <1>1. CASE \E cl \in Clients, k \in Keys, s \in Sizes : EcSet(cl, k, s)
    <2>1. PICK cl \in Clients, k \in Keys, s \in Sizes : EcSet(cl, k, s)
      BY <1>1
    <2>2. PICK index \in RandomIndex, shards \in Reached :
                 Start(cl, [key |-> k, size |-> s, index |-> index], shards)
      BY <2>1 DEF EcSet
    <2>3. [key |-> k, size |-> s, index |-> index] \in ClientOps
      BY ConstantFacts DEF ClientOps
    <2>4. shards \in SUBSET Chunks
      BY DEF Reached
    <2> QED
      BY <2>2, <2>3, <2>4
  <1>2. CASE \E cl \in Clients, k \in Keys : Recover(cl, k)
    <2>1. PICK cl \in Clients, k \in Keys : Recover(cl, k)
      BY <1>2
    <2>2. PICK failed \in SUBSET Chunks \ {{}}, s \in Sizes :
                 Start(cl, [key |-> k, size |-> s, index |-> [c \in Chunks |-> 0]], failed)
      BY <2>1 DEF Recover
    <2>3. [key |-> k, size |-> s, index |-> [c \in Chunks |-> 0]] \in ClientOps
      BY ConstantFacts DEF ClientOps
    <2> QED
      BY <2>2, <2>3
  <1> QED
    BY <1>1, <1>2


(***************************************************************************)
(* Types, one lemma per group of variables.                                *)
(***************************************************************************)

\* The actions of a handler leave the clients' operations alone.
LEMMA ClientUnchanged ==
    ASSUME NEW h \in Handlers, HandleSet(h)
    PROVE  UNCHANGED clientVars
  BY DEF HandleSet, Clock, Insert, AlreadyConfirmed, LockMeta, EvictedMeanwhile, TakeSwapped,
         Place, Overweight, ClockStart, ClockSkip, ClockPass, ClockEvict, ClockBound, ClockTail,
         ClockSwitch, ClockUnchanged, Relocate, Relocated, NotSet, IsSet, DropEvicted, Send

\* The slot under the clock's hand is a slot of the primary array.
LEMMA SlotFacts ==
    ASSUME TypeOK, ClockInBounds, NEW h \in Handlers, AtSlot(h)
    PROVE  /\ cursor \in 1..Len(objects[primary])
           /\ Slot \in Keys \cup {Nil}
  <1>1. cursor \in 1..Len(objects[primary])
    BY DEF TypeOK, ClockType, ClockInBounds, AtSlot
  <1> QED
    BY <1>1 DEF TypeOK, ClockType, Slot

\* A client starts an operation: only its handlers, its operation and the count change.
LEMMA StartStep ==
    ASSUME TypeOK, NEW cl \in Clients, NEW op \in ClientOps, NEW shards \in SUBSET Chunks,
           Start(cl, op, shards)
    PROVE  TypeOK'
  <1>1. HandlerType'
    BY DEF TypeOK, HandlerType, Start
  <1>2. ClientType'
    <2>1. ec' \in [Clients -> ClientOps \cup {Nil}] /\ UNCHANGED stored
      BY DEF TypeOK, ClientType, Start
    <2>2. ops' \in 0..MaxOps
      BY OpsAssumption DEF TypeOK, ClientType, Start
    <2> QED
      BY <2>1, <2>2 DEF TypeOK, ClientType
  <1>3. MetaType' /\ PlacerMetaType' /\ ClockType' /\ LockType' /\ GroupType'
    BY DEF TypeOK, MetaType, PlacerMetaType, ClockType, LockType, GroupType, Start,
           metaVars, pmVars, clockVars, lockVars, groupVars
  <1> QED
    BY <1>1, <1>2, <1>3 DEF TypeOK

\* A GET changes the visited flag of one object.
LEMMA GetStep ==
    ASSUME TypeOK, NEW k \in Keys, NEW c \in Chunks, Get(k, c)
    PROVE  TypeOK'
  BY DEF TypeOK, MetaType, PlacerMetaType, ClockType, LockType, GroupType, HandlerType,
         ClientType, Get, metaVars, clockVars, lockVars, groupVars, handlerVars, clientVars

\* The program counters, victims and loop indices of the handlers.
LEMMA HandlerTypeStep ==
    ASSUME TypeOK, ClockInBounds, NEW h \in Handlers, HandleSet(h)
    PROVE  HandlerType'
  <1> USE DEF TypeOK, HandlerType
  <1>1. CASE ClockEvict(h)
    <2>1. Slot \in Keys
      BY <1>1, SlotFacts DEF ClockEvict
    <2> QED
      BY <1>1, <2>1 DEF ClockEvict
  <1>2. CASE Insert(h) \/ AlreadyConfirmed(h) \/ LockMeta(h) \/ EvictedMeanwhile(h)
             \/ TakeSwapped(h) \/ Place(h) \/ Overweight(h) \/ NotSet(h) \/ IsSet(h) \/ Send(h)
    BY <1>2 DEF Insert, AlreadyConfirmed, LockMeta, EvictedMeanwhile, TakeSwapped, Place,
                Overweight, NotSet, IsSet, Send, Return
  <1>3. CASE ClockStart(h) \/ ClockSkip(h) \/ ClockPass(h)
    BY <1>3 DEF ClockStart, ClockSkip, ClockPass, handlerVars
  <1>4. CASE ClockBound(h) \/ ClockSwitch(h) \/ Relocated(h)
    <2>1. cursor \in Nat
      BY DEF ClockType
    <2> QED
      BY <1>4, <2>1 DEF ClockBound, ClockSwitch, Relocated, Return
  <1>5. CASE ClockTail(h) \/ Relocate(h)
    <2>1. idx[h] + 1 \in Nat
      OBVIOUS
    <2> QED
      BY <1>5, <2>1 DEF ClockTail, Relocate
  <1>6. CASE DropEvicted(h)
    <2>1. idx[h] + 1 \in Nat
      OBVIOUS
    <2> QED
      BY <1>6, <2>1 DEF DropEvicted
  <1> QED
    BY <1>1, <1>2, <1>3, <1>4, <1>5, <1>6 DEF HandleSet, Clock

\* The operations of the clients and the contents of the lambdas.
LEMMA ClientTypeStep ==
    ASSUME TypeOK, HandlerInv, NEW h \in Handlers, HandleSet(h)
    PROVE  ClientType'
  <1>1. UNCHANGED clientVars
    BY ClientUnchanged
  <1>2. stored' \in [Instances -> [Keys \X Chunks -> Nat]]
    <2>1. CASE DropEvicted(h)
      BY <2>1 DEF DropEvicted, TypeOK, ClientType
    <2>2. CASE Send(h)
      <3>1. pc[h] # "idle"
        BY <2>2 DEF Send
      <3>2. ec[h[1]].size \in Nat
        BY <3>1, HandlerFacts, SizeAssumption
      <3> QED
        BY <2>2, <3>2 DEF Send, TypeOK, ClientType
    <2>3. CASE ~DropEvicted(h) /\ ~Send(h)
      BY <2>3 DEF TypeOK, ClientType, HandleSet, Clock, Insert, AlreadyConfirmed, LockMeta,
                  EvictedMeanwhile, TakeSwapped, Place, Overweight, ClockStart, ClockSkip,
                  ClockPass, ClockEvict, ClockBound, ClockTail, ClockSwitch, ClockUnchanged,
                  Relocate, Relocated, NotSet, IsSet
    <2> QED
      BY <2>1, <2>2, <2>3
  <1> QED
    BY <1>1, <1>2 DEF TypeOK, ClientType, clientVars

\* The lock holders.
LEMMA LockTypeStep ==
    ASSUME TypeOK, NEW h \in Handlers, HandleSet(h)
    PROVE  LockType'
  BY DEF TypeOK, LockType, lockVars, Return, HandleSet, Clock, Insert, AlreadyConfirmed, LockMeta,
         EvictedMeanwhile, TakeSwapped, Place, Overweight, ClockStart, ClockSkip, ClockPass,
         ClockEvict, ClockBound, ClockTail, ClockSwitch, ClockUnchanged, Relocate, Relocated,
         NotSet, IsSet, DropEvicted, Send

\* The slice base stays below the group's size, the size counters within their width.
LEMMA GroupTypeStep ==
    ASSUME TypeOK, HandlerInv, NEW h \in Handlers, HandleSet(h)
    PROVE  GroupType'
  <1> USE DEF TypeOK, GroupType
  <1>1. ASSUME NEW k \in Keys, TakeSlice(k)
        PROVE  sliceBase' \in Instances
    <2>1. sliceBase + SliceSize \in Int
      BY GroupAssumption, ChunkAssumption DEF Instances
    <2> QED
      BY <1>1, <2>1, ConstantFacts DEF TakeSlice
  <1>2. CASE Place(h)
    <2>1. pc[h] # "idle"
      BY <1>2 DEF Place, EnterPlacer
    <2>2. KeyOf(h) \in Keys
      BY <2>1, HandlerFacts
    <2>3. sliceBase' \in Instances
      BY <1>1, <1>2, <2>2 DEF Place
    <2>4. \A i \in Instances : IncreaseSize(size[i], chunkSize[KeyOf(h)]) \in 0..(Modulus - 1)
      BY <2>2, AddUintType, SizeAssumption DEF IncreaseSize, MetaType
    <2> QED
      BY <1>2, <2>3, <2>4 DEF Place
  <1>3. CASE Overweight(h)
    <2>1. KeyOf(h) \in Keys
      BY <1>3, HandlerFacts DEF Overweight, EnterPlacer
    <2> QED
      BY <1>1, <1>3, <2>1 DEF Overweight
  <1>4. CASE Relocate(h)
    <2>1. KeyOf(h) \in Keys /\ post[h] \in Keys
      BY <1>4, HandlerFacts DEF Relocate, HandlerInv, HandlerType
    <2>2. \A i \in Instances :
             Exchanged(size[i], KeyOf(h), post[h], idx[h]) \in 0..(Modulus - 1)
      BY <2>1, AddUintType, SizeAssumption
      DEF Exchanged, IncreaseSize, DecreaseSize, MetaType
    <2> QED
      BY <1>4, <2>2 DEF Relocate
  <1>5. CASE ~Place(h) /\ ~Overweight(h) /\ ~Relocate(h)
    BY <1>5 DEF groupVars, HandleSet, Clock, Insert, AlreadyConfirmed, LockMeta,
                EvictedMeanwhile, TakeSwapped, ClockStart, ClockSkip, ClockPass, ClockEvict,
                ClockBound, ClockTail, ClockSwitch, ClockUnchanged, Relocated, NotSet, IsSet,
                DropEvicted, Send
  <1> QED
    BY <1>2, <1>3, <1>4, <1>5

\* Keys, placements and slice bases of the metas.
LEMMA MetaTypeStep ==
    ASSUME TypeOK, HandlerInv, ClockInBounds, NEW h \in Handlers, HandleSet(h)
    PROVE  MetaType'
  <1> USE DEF TypeOK, MetaType
  <1>1. ASSUME NEW i \in Instances, NEW k \in Keys, NEW c \in Chunks,
               placement' = [placement EXCEPT ![k][c] = i]
        PROVE  placement' \in [Keys -> Placements]
    BY <1>1 DEF Placements
  <1>2. ASSUME NEW k \in Keys, TakeSlice(k)
        PROVE  base' \in [Keys -> Instances \cup {Nil}]
    BY <1>2 DEF TakeSlice, NextBase, GroupType
  <1>3. CASE Insert(h)
    <2>1. /\ KeyOf(h) \in Keys
          /\ ec[h[1]].size \in Nat
          /\ ec[h[1]].index[ChunkOf(h)] \in Instances
      BY <1>3, HandlerFacts, SizeAssumption DEF Insert
    <2>2. [d \in Chunks |-> IF d = ChunkOf(h) THEN ec[h[1]].index[ChunkOf(h)] ELSE 0]
              \in Placements
      BY <2>1, ConstantFacts DEF Placements
    <2>3. placement' \in [Keys -> Placements]
      BY <1>3, <2>1, <2>2 DEF Insert
    <2>4. inStore' \in [Keys -> BOOLEAN] /\ chunkSize' \in [Keys -> Nat]
      BY <1>3, <2>1 DEF Insert
    <2> QED
      BY <1>3, <2>3, <2>4 DEF Insert
  <1>4. CASE LockMeta(h)
    BY <1>4 DEF LockMeta
  <1>5. CASE TakeSwapped(h)
    <2>1. KeyOf(h) \in Keys /\ ChunkOf(h) \in Chunks
      BY <1>5, HandlerFacts DEF TakeSwapped, EnterPlacer
    <2>2. swapMap[KeyOf(h)][ChunkOf(h)] \in Instances
      BY <1>5, <2>1 DEF TakeSwapped, PlacerMetaType, Placements
    <2> QED
      BY <1>1, <1>5, <2>1, <2>2 DEF TakeSwapped, Confirm
  <1>6. CASE Place(h)
    <2>1. /\ KeyOf(h) \in Keys
          /\ ChunkOf(h) \in Chunks
          /\ ec[h[1]].index[ChunkOf(h)] \in Instances
      BY <1>6, HandlerFacts DEF Place, EnterPlacer
    <2>2. NextBase(KeyOf(h)) \in Instances
      BY <2>1 DEF NextBase, GroupType
    <2>3. NextBase(KeyOf(h)) + ec[h[1]].index[ChunkOf(h)] \in Int
      BY <2>1, <2>2 DEF Instances
    <2>4. GetIndex(KeyOf(h), ec[h[1]].index[ChunkOf(h)]) \in Instances
      BY <2>3, ConstantFacts DEF GetIndex
    <2> QED
      BY <1>1, <1>2, <1>6, <2>1, <2>4 DEF Place, Confirm
  <1>7. CASE Overweight(h)
    <2>1. KeyOf(h) \in Keys
      BY <1>7, HandlerFacts DEF Overweight, EnterPlacer
    <2> QED
      BY <1>2, <1>7, <2>1 DEF Overweight
  <1>8. CASE ClockEvict(h)
    BY <1>8 DEF ClockEvict, ClockUnchanged
  <1>9. CASE Relocated(h)
    <2>1. KeyOf(h) \in Keys /\ ChunkOf(h) \in Chunks
      BY <1>9, HandlerFacts DEF Relocated
    <2>2. swapMap[KeyOf(h)][ChunkOf(h)] \in Instances
      BY <1>9, <2>1 DEF Relocated, HandlerInv, PlacerMetaType, Placements
    <2> QED
      BY <1>1, <1>9, <2>1, <2>2 DEF Relocated, Confirm
  <1>10. CASE \/ AlreadyConfirmed(h) \/ EvictedMeanwhile(h) \/ ClockStart(h) \/ ClockSkip(h)
              \/ ClockPass(h) \/ ClockBound(h) \/ ClockTail(h) \/ ClockSwitch(h)
              \/ Relocate(h) \/ NotSet(h) \/ IsSet(h) \/ DropEvicted(h) \/ Send(h)
    BY <1>10 DEF metaVars, AlreadyConfirmed, EvictedMeanwhile, ClockStart, ClockSkip, ClockPass,
                 ClockBound, ClockTail, ClockSwitch, ClockUnchanged, Relocate, NotSet, IsSet,
                 DropEvicted, Send
  <1> QED
    BY <1>3, <1>4, <1>5, <1>6, <1>7, <1>8, <1>9, <1>10 DEF HandleSet, Clock

\* Confirmed chunks, visited flags, positions and swap maps.
LEMMA PlacerMetaTypeStep ==
    ASSUME TypeOK, HandlerInv, ClockInBounds, NEW h \in Handlers, HandleSet(h)
    PROVE  PlacerMetaType'
  <1> USE DEF TypeOK, PlacerMetaType
  <1>1. primary \in 0..1 /\ secondary \in 0..1 /\ objects[primary] \in Seq(Keys \cup {Nil})
        /\ objects[secondary] \in Seq(Keys \cup {Nil})
    BY DEF ClockType, secondary
  <1>2. Len(objects[primary]) + 1 \in Nat /\ Len(objects[secondary]) + 1 \in Nat
    BY <1>1
  <1>3. CASE LockMeta(h)
    <2>1. CASE deleted[KeyOf(h)]
      <3>1. /\ confirmed' = [confirmed EXCEPT ![KeyOf(h)] = {}]
            /\ visited' = [visited EXCEPT ![KeyOf(h)] = FALSE]
            /\ pos' = [pos EXCEPT ![KeyOf(h)] = [x \in 0..1 |-> 0]]
            /\ swapMap' = [swapMap EXCEPT ![KeyOf(h)] = Nil]
        BY <1>3, <2>1 DEF LockMeta
      <3> QED
        BY <3>1
    <2>2. CASE ~deleted[KeyOf(h)]
      BY <1>3, <2>2 DEF LockMeta, pmVars
    <2> QED
      BY <2>1, <2>2
  <1>4. CASE TakeSwapped(h) \/ Relocated(h)
    <2>1. KeyOf(h) \in Keys /\ ChunkOf(h) \in Chunks
      BY <1>4, HandlerFacts DEF TakeSwapped, Relocated, EnterPlacer
    <2> QED
      BY <1>4, <2>1 DEF TakeSwapped, Relocated, Confirm
  <1>5. CASE Place(h)
    <2>1. KeyOf(h) \in Keys /\ ChunkOf(h) \in Chunks
      BY <1>5, HandlerFacts DEF Place, EnterPlacer
    <2>2. confirmed' \in [Keys -> SUBSET Chunks] /\ UNCHANGED swapMap
      BY <1>5, <2>1 DEF Place, Confirm
    <2>3. visited' \in [Keys -> BOOLEAN] /\ pos' \in [Keys -> [0..1 -> Nat]]
      <3>1. CASE pos[KeyOf(h)][primary] = 0
        <4>1. /\ pos' = [pos EXCEPT ![KeyOf(h)][primary] = Len(objects[primary]) + 1]
              /\ visited' = [visited EXCEPT ![KeyOf(h)] = TRUE]
          BY <1>5, <3>1 DEF Place, AddObject
        <4> QED
          BY <1>1, <1>2, <2>1, <4>1
      <3>2. CASE pos[KeyOf(h)][primary] # 0
        BY <1>5, <3>2 DEF Place
      <3> QED
        BY <3>1, <3>2
    <2> QED
      BY <2>2, <2>3
  <1>6. CASE ClockPass(h)
    BY <1>1, <1>2, <1>6 DEF ClockPass, ClockUnchanged, Age, CopiedPos
  <1>7. CASE ClockEvict(h)
    <2>1. Slot \in Keys /\ KeyOf(h) \in Keys /\ cursor \in Nat
      BY <1>7, SlotFacts, HandlerFacts DEF ClockEvict, AtSlot, ClockType
    <2>2. placement[Slot] \in Placements
      BY <2>1 DEF MetaType
    <2>3. swapMap' \in [Keys -> Placements \cup {Nil}] /\ UNCHANGED confirmed
      BY <1>7, <2>1, <2>2 DEF ClockEvict, ClockUnchanged
    <2>4. visited' \in [Keys -> BOOLEAN] /\ pos' \in [Keys -> [0..1 -> Nat]]
      BY <1>2, <1>7, <2>1 DEF ClockEvict
    <2> QED
      BY <2>3, <2>4
  <1>8. CASE ClockTail(h)
    <2>1. UNCHANGED <<confirmed, visited, swapMap>>
      BY <1>8 DEF ClockTail, ClockUnchanged
    <2>2. pos' \in [Keys -> [0..1 -> Nat]]
      <3>1. CASE objects[primary][idx[h]] = Nil
        BY <1>8, <3>1 DEF ClockTail
      <3>2. CASE objects[primary][idx[h]] # Nil
        <4>1. pos' = [pos EXCEPT ![objects[primary][idx[h]]][secondary]
                                 = Len(objects[secondary]) + 1]
          BY <1>8, <3>2 DEF ClockTail, CopiedPos
        <4> QED
          BY <1>1, <1>2, <4>1
      <3> QED
        BY <3>1, <3>2
    <2> QED
      BY <2>1, <2>2
  <1>9. CASE \/ Insert(h) \/ AlreadyConfirmed(h) \/ EvictedMeanwhile(h) \/ Overweight(h)
             \/ ClockStart(h) \/ ClockSkip(h) \/ ClockBound(h) \/ ClockSwitch(h)
             \/ Relocate(h) \/ NotSet(h) \/ IsSet(h) \/ DropEvicted(h) \/ Send(h)
    BY <1>9 DEF pmVars, Insert, AlreadyConfirmed, EvictedMeanwhile, Overweight, ClockStart,
                ClockSkip, ClockBound, ClockSwitch, ClockUnchanged, Relocate, NotSet, IsSet,
                DropEvicted, Send
  <1> QED
    BY <1>3, <1>4, <1>5, <1>6, <1>7, <1>8, <1>9 DEF HandleSet, Clock

\* The two arrays and the cursor.
LEMMA ClockTypeStep ==
    ASSUME TypeOK, HandlerInv, ClockInBounds, NEW h \in Handlers, HandleSet(h)
    PROVE  ClockType'
  <1> USE DEF TypeOK, ClockType
  <1>1. secondary \in 0..1
    BY DEF secondary
  <1>2. ASSUME NEW k \in Keys, NEW x \in 0..1
        PROVE  [objects EXCEPT ![x] = Append(@, k)] \in [0..1 -> Seq(Keys \cup {Nil})]
    OBVIOUS
  <1>3. CASE Place(h)
    <2>1. KeyOf(h) \in Keys
      BY <1>3, HandlerFacts DEF Place, EnterPlacer
    <2>2. CASE pos[KeyOf(h)][primary] = 0
      <3>1. /\ objects' = [objects EXCEPT ![primary] = Append(@, KeyOf(h))]
            /\ UNCHANGED <<cursor, cursorBound, primary>>
        BY <1>3, <2>2 DEF Place, AddObject
      <3> QED
        BY <1>2, <2>1, <3>1
    <2>3. CASE pos[KeyOf(h)][primary] # 0
      BY <1>3, <2>3 DEF Place
    <2> QED
      BY <2>2, <2>3
  <1>4. CASE ClockStart(h)
    BY <1>1, <1>4 DEF ClockStart, ClockUnchanged, Bound
  <1>5. CASE ClockPass(h)
    <2>1. Slot \in Keys
      BY <1>5, SlotFacts DEF ClockPass
    <2> QED
      BY <1>1, <1>2, <1>5, <2>1 DEF ClockPass, ClockUnchanged
  <1>6. CASE ClockEvict(h)
    <2>1. KeyOf(h) \in Keys
      BY <1>6, HandlerFacts DEF ClockEvict, AtSlot
    <2>2. Replaced(KeyOf(h)) \in Seq(Keys \cup {Nil})
      BY <2>1 DEF Replaced
    <2>3. Append(objects[secondary], KeyOf(h)) \in Seq(Keys \cup {Nil})
      BY <1>1, <2>1
    <2>4. objects' \in [0..1 -> Seq(Keys \cup {Nil})]
      BY <1>6, <2>2, <2>3 DEF ClockEvict
    <2> QED
      BY <1>6, <2>4 DEF ClockEvict
  <1>7. CASE ClockTail(h)
    <2>1. idx[h] \in 1..Len(objects[primary])
      BY <1>7 DEF ClockTail, ClockInBounds, HandlerType
    <2>2. objects[primary][idx[h]] \in Keys \cup {Nil}
      BY <2>1
    <2>3. CASE objects[primary][idx[h]] = Nil
      BY <1>7, <2>3 DEF ClockTail
    <2>4. CASE objects[primary][idx[h]] # Nil
      <3>1. /\ objects' = [objects EXCEPT ![secondary] = Append(@, objects[primary][idx[h]])]
            /\ UNCHANGED <<cursor, cursorBound, primary>>
        BY <1>7, <2>4 DEF ClockTail
      <3> QED
        BY <1>1, <1>2, <2>2, <2>4, <3>1
    <2> QED
      BY <2>3, <2>4
  <1>8. CASE ClockSwitch(h)
    BY <1>1, <1>8 DEF ClockSwitch
  <1>9. CASE \/ Insert(h) \/ AlreadyConfirmed(h) \/ LockMeta(h) \/ EvictedMeanwhile(h)
             \/ TakeSwapped(h) \/ Overweight(h) \/ ClockSkip(h) \/ ClockBound(h)
             \/ Relocate(h) \/ Relocated(h) \/ NotSet(h) \/ IsSet(h) \/ DropEvicted(h) \/ Send(h)
    <2>1. CASE Insert(h) \/ AlreadyConfirmed(h) \/ LockMeta(h) \/ EvictedMeanwhile(h)
      BY <2>1 DEF clockVars, Insert, AlreadyConfirmed, LockMeta, EvictedMeanwhile
    <2>2. CASE TakeSwapped(h) \/ Overweight(h) \/ ClockSkip(h) \/ ClockBound(h)
      BY <2>2 DEF clockVars, TakeSwapped, Overweight, ClockSkip, ClockBound
    <2>3. CASE \/ Relocate(h) \/ Relocated(h) \/ NotSet(h) \/ IsSet(h) \/ DropEvicted(h) \/ Send(h)
      BY <2>3 DEF clockVars, Relocate, Relocated, NotSet, IsSet, DropEvicted, Send
    <2> QED
      BY <1>9, <2>1, <2>2, <2>3
  <1> QED
    BY <1>3, <1>4, <1>5, <1>6, <1>7, <1>8, <1>9 DEF HandleSet, Clock

\* Every step keeps the types.
LEMMA TypeStep ==
    ASSUME TypeOK, HandlerInv, ClockInBounds, [Next]_vars
    PROVE  TypeOK'
  <1>1. CASE UNCHANGED vars
    BY <1>1 DEF TypeOK, MetaType, PlacerMetaType, ClockType, LockType, GroupType, HandlerType,
                ClientType, vars, metaVars, pmVars, clockVars, lockVars, groupVars, handlerVars,
                clientVars
  <1>2. CASE \E h \in Handlers : HandleSet(h)
    BY <1>2, MetaTypeStep, PlacerMetaTypeStep, ClockTypeStep, LockTypeStep, GroupTypeStep,
       HandlerTypeStep, ClientTypeStep
    DEF TypeOK
  <1>3. CASE \E k \in Keys, c \in Chunks : Get(k, c)
    BY <1>3, GetStep
  <1>4. CASE \/ \E cl \in Clients, k \in Keys, s \in Sizes : EcSet(cl, k, s)
             \/ \E cl \in Clients, k \in Keys : Recover(cl, k)
    BY <1>4, StartFacts, StartStep
  <1> QED
    BY <1>1, <1>2, <1>3, <1>4 DEF Next

(***************************************************************************)
(* Locks.                                                                  *)
(***************************************************************************)

\* A client's operation changes the key of its own, idle, handlers only.
LEMMA StartKeys ==
    ASSUME TypeOK, NEW cl \in Clients, NEW op \in ClientOps, NEW shards \in SUBSET Chunks,
           Start(cl, op, shards), NEW h \in Handlers
    PROVE  /\ pc[h] # "idle" => pc'[h] = pc[h] /\ ec'[h[1]] = ec[h[1]]
           /\ pc[h] = "idle" => \/ pc'[h] = "idle"
                                \/ pc'[h] = "insert" /\ ec'[h[1]] # Nil
  <1>1. /\ pc' = [g \in Handlers |-> IF g[1] = cl /\ g[2] \in shards THEN "insert" ELSE pc[g]]
        /\ ec' = [ec EXCEPT ![cl] = op]
        /\ \A c \in Chunks : pc[<<cl, c>>] = "idle"
    BY DEF Start, Idle
  <1>2. h[1] \in Clients /\ h[2] \in Chunks /\ h = <<h[1], h[2]>>
    BY DEF Handlers
  <1>3. h[1] = cl => pc[h] = "idle"
    BY <1>1, <1>2
  <1>4. op # Nil
    BY NilAssumption
  <1> QED
    BY <1>1, <1>2, <1>3, <1>4 DEF TypeOK, ClientType

\* The locks agree with the program counters.
LEMMA LockStep ==
    ASSUME TypeOK, LockInv, HandlerInv, [Next]_vars
    PROVE  LockInv'
  <1> USE DEF TypeOK, HandlerType, LockType
  <1>1. CASE UNCHANGED vars
    BY <1>1 DEF LockInv, KeyOf, vars, lockVars, handlerVars, clientVars
  <1>2. CASE \/ \E cl \in Clients, k \in Keys, s \in Sizes : EcSet(cl, k, s)
             \/ \E cl \in Clients, k \in Keys : Recover(cl, k)
    <2>1. PICK cl \in Clients, op \in ClientOps, shards \in SUBSET Chunks :
                 Start(cl, op, shards)
      BY <1>2, StartFacts
    <2>2. UNCHANGED lockVars
      BY <2>1 DEF Start
    <2>3. \A h \in Handlers : /\ pc[h] # "idle" => pc'[h] = pc[h] /\ KeyOf(h)' = KeyOf(h)
                              /\ pc[h] = "idle" => pc'[h] \in {"idle", "insert"}
      BY <2>1, StartKeys DEF KeyOf
    <2> QED
      BY <2>2, <2>3 DEF LockInv, lockVars, InPlacer
  <1>3. CASE \E k \in Keys, c \in Chunks : Get(k, c)
    BY <1>3 DEF Get, LockInv, KeyOf, lockVars, handlerVars, clientVars
  <1>4. ASSUME NEW h \in Handlers, HandleSet(h)
        PROVE  LockInv'
    <2>1. \A g \in Handlers : KeyOf(g)' = KeyOf(g)
      BY <1>4, ClientUnchanged DEF KeyOf, clientVars
    <2>2. CASE Insert(h) \/ AlreadyConfirmed(h) \/ NotSet(h) \/ IsSet(h) \/ DropEvicted(h)
               \/ Send(h)
      BY <2>1, <2>2
      DEF LockInv, InPlacer, lockVars, Insert, AlreadyConfirmed, NotSet, IsSet, DropEvicted, Send
    <2>3. CASE LockMeta(h)
      BY <2>1, <2>3, NilAssumption DEF LockInv, InPlacer, LockMeta
    <2>4. CASE EvictedMeanwhile(h) \/ TakeSwapped(h) \/ Place(h) \/ Relocated(h)
      <3>1. /\ pc' = [pc EXCEPT ![h] = "check"]
            /\ metaMu' = [metaMu EXCEPT ![KeyOf(h)] = Nil]
            /\ placerMu' = Nil
            /\ placerMu = Nil \/ placerMu = h
            /\ pc[h] \in Locked
        BY <2>4 DEF EvictedMeanwhile, TakeSwapped, Place, Relocated, Return, EnterPlacer,
                    LockInv, Locked, InPlacer
      <3> QED
        BY <2>1, <3>1, NilAssumption DEF LockInv, InPlacer, Locked
    <2>5. CASE Overweight(h)
      <3>1. /\ pc[h] = "placer" /\ placerMu = Nil
            /\ pc' = [pc EXCEPT ![h] = "clock"]
            /\ placerMu' = h
            /\ UNCHANGED metaMu
        BY <2>5 DEF Overweight, EnterPlacer
      <3> QED
        BY <2>1, <3>1, NilAssumption DEF LockInv, InPlacer
    <2>6. CASE Clock(h) \/ Relocate(h)
      <3>1. /\ UNCHANGED lockVars
            /\ pc[h] \in InPlacer
            /\ \E v \in InPlacer : pc' = [pc EXCEPT ![h] = v]
        BY <2>6 DEF Clock, ClockStart, ClockSkip, ClockPass, ClockEvict, ClockBound, ClockTail,
                    ClockSwitch, Relocate, AtSlot, ClockUnchanged, handlerVars, InPlacer
      <3> QED
        BY <2>1, <3>1 DEF LockInv, lockVars, InPlacer
    <2> QED
      BY <1>4, <2>2, <2>3, <2>4, <2>5, <2>6 DEF HandleSet
  <1> QED
    BY <1>1, <1>2, <1>3, <1>4 DEF Next

(***************************************************************************)
(* What handlers rely on.                                                  *)
(***************************************************************************)

\* The locks keep other handlers away: no two handlers have locked the meta of one key,
\* and at most one is inside the Placer.
LEMMA Exclusion ==
    ASSUME LockInv, TypeOK, HandlerInv, NEW g \in Handlers, NEW h \in Handlers
    PROVE  /\ pc[g] \in Locked /\ pc[h] \in Locked /\ KeyOf(g) = KeyOf(h) => g = h
           /\ pc[g] \in InPlacer /\ pc[h] \in InPlacer => g = h
  <1>1. pc[g] \in Locked => KeyOf(g) \in Keys
    BY HandlerFacts DEF Locked, InPlacer
  <1> QED
    BY <1>1 DEF LockInv, Locked

\* Every step keeps what the handlers rely on.
LEMMA HandlerStep ==
    ASSUME TypeOK, LockInv, HandlerInv, ClockInBounds, [Next]_vars
    PROVE  HandlerInv'
  <1> USE DEF TypeOK, HandlerType
  <1>1. CASE UNCHANGED vars
    BY <1>1 DEF HandlerInv, KeyOf, ChunkOf, vars, pmVars, metaVars, handlerVars, clientVars
  <1>2. CASE \/ \E cl \in Clients, k \in Keys, s \in Sizes : EcSet(cl, k, s)
             \/ \E cl \in Clients, k \in Keys : Recover(cl, k)
    <2>1. PICK cl \in Clients, op \in ClientOps, shards \in SUBSET Chunks :
                 Start(cl, op, shards)
      BY <1>2, StartFacts
    <2>2. UNCHANGED <<post, idx, swapMap, confirmed, deleted>>
      BY <2>1 DEF Start, pmVars, metaVars
    <2>3. \A h \in Handlers :
             /\ pc[h] # "idle" => /\ pc'[h] = pc[h] /\ KeyOf(h)' = KeyOf(h)
                                  /\ ec'[h[1]] = ec[h[1]]
             /\ pc[h] = "idle" => \/ pc'[h] = "idle"
                                  \/ pc'[h] = "insert" /\ ec'[h[1]] # Nil
      BY <2>1, StartKeys DEF KeyOf
    <2> QED
      BY <2>2, <2>3 DEF HandlerInv, Locked, InPlacer, ChunkOf
  <1>3. CASE \E k \in Keys, c \in Chunks : Get(k, c)
    BY <1>3 DEF Get, HandlerInv, KeyOf, ChunkOf, metaVars, handlerVars, clientVars
  <1>4. ASSUME NEW h \in Handlers, HandleSet(h)
        PROVE  HandlerInv'
    <2>1. ec' = ec /\ \A g \in Handlers : KeyOf(g)' = KeyOf(g)
      BY <1>4, ClientUnchanged DEF KeyOf, clientVars
    <2>2. CASE Insert(h) \/ AlreadyConfirmed(h) \/ EvictedMeanwhile(h) \/ NotSet(h) \/ IsSet(h)
               \/ Send(h)
      <3>1. /\ UNCHANGED <<idx, swapMap, confirmed, deleted>>
            /\ pc[h] \in {"insert", "lock", "placer", "check", "send"}
        BY <2>2 DEF Insert, AlreadyConfirmed, EvictedMeanwhile, NotSet, IsSet, Send,
                    EnterPlacer, pmVars, metaVars
      <3>2. CASE IsSet(h)
        BY <2>1, <3>1, <3>2, ChunkAssumption DEF IsSet, HandlerInv, Locked, InPlacer, ChunkOf
      <3>3. CASE NotSet(h)
        BY <2>1, <3>1, <3>3 DEF NotSet, HandlerInv, Locked, InPlacer, ChunkOf
      <3>4. CASE Insert(h) \/ AlreadyConfirmed(h) \/ EvictedMeanwhile(h) \/ Send(h)
        <4>1. /\ UNCHANGED post
              /\ \E v \in {"lock", "check", "idle"} : pc' = [pc EXCEPT ![h] = v]
          BY <3>4 DEF Insert, AlreadyConfirmed, EvictedMeanwhile, Send, Return
        <4> QED
          BY <2>1, <3>1, <4>1 DEF HandlerInv, Locked, InPlacer, ChunkOf
      <3> QED
        BY <2>2, <3>2, <3>3, <3>4
    <2>3. CASE LockMeta(h)
      <3>1. KeyOf(h) \in Keys /\ ChunkOf(h) \in Chunks
        BY <2>3, HandlerFacts DEF LockMeta
      <3>2. /\ metaMu[KeyOf(h)] = Nil
            /\ pc[h] = "lock" /\ pc' = [pc EXCEPT ![h] = "placer"]
            /\ UNCHANGED <<post, idx>>
            /\ \A k \in Keys \ {KeyOf(h)} : /\ swapMap'[k] = swapMap[k]
                                            /\ confirmed'[k] = confirmed[k]
                                            /\ deleted'[k] = deleted[k]
            /\ ChunkOf(h) \notin confirmed'[KeyOf(h)]
        BY <2>3, <3>1 DEF LockMeta, IsConfirmed, pmVars, PlacerMetaType, MetaType
      <3>3. \A g \in Handlers : pc[g] \in Locked => KeyOf(g) \in Keys \ {KeyOf(h)}
        BY <3>1, <3>2, HandlerFacts, NilAssumption DEF LockInv, Locked, InPlacer
      <3> QED
        BY <2>1, <3>1, <3>2, <3>3 DEF HandlerInv, Locked, InPlacer, ChunkOf
    <2>4. CASE TakeSwapped(h) \/ Place(h) \/ Relocated(h)
      <3>1. KeyOf(h) \in Keys /\ ChunkOf(h) \in Chunks
        BY <2>4, HandlerFacts DEF TakeSwapped, Place, Relocated, EnterPlacer
      <3>2. /\ pc[h] \in Locked /\ pc' = [pc EXCEPT ![h] = "check"]
            /\ UNCHANGED <<post, swapMap, deleted>>
            /\ idx' = [idx EXCEPT ![h] = 0]
            /\ confirmed' = [confirmed EXCEPT ![KeyOf(h)] = @ \cup {ChunkOf(h)}]
        BY <2>4 DEF TakeSwapped, Place, Relocated, Return, EnterPlacer, Confirm, Locked,
                    InPlacer, HandlerInv
      <3>3. \A g \in Handlers \ {h} :
               pc[g] \in Locked => confirmed'[KeyOf(g)] = confirmed[KeyOf(g)]
        BY <3>1, <3>2, Exclusion, HandlerFacts DEF PlacerMetaType
      <3> QED
        BY <2>1, <3>1, <3>2, <3>3 DEF HandlerInv, Locked, InPlacer, ChunkOf
    <2>5. CASE Overweight(h)
      <3>1. /\ pc[h] = "placer" /\ pc' = [pc EXCEPT ![h] = "clock"]
            /\ UNCHANGED <<post, idx, swapMap, confirmed, deleted>>
            /\ ~deleted[KeyOf(h)]
        BY <2>5 DEF Overweight, EnterPlacer, Evicted, pmVars
      <3> QED
        BY <2>1, <3>1 DEF HandlerInv, Locked, InPlacer, ChunkOf
    <2>6. CASE ClockStart(h) \/ ClockSkip(h) \/ ClockPass(h)
      BY <2>1, <2>6 DEF ClockStart, ClockSkip, ClockPass, ClockUnchanged, HandlerInv, ChunkOf,
                        handlerVars
    <2>7. CASE ClockEvict(h)
      <3>1. Slot \in Keys /\ KeyOf(h) \in Keys
        BY <2>7, SlotFacts, HandlerFacts DEF ClockEvict, AtSlot
      <3>2. /\ pc[h] = "clock" /\ pc' = [pc EXCEPT ![h] = "relocate"]
            /\ idx' = [idx EXCEPT ![h] = 0]
            /\ post' = [post EXCEPT ![h] = Slot]
            /\ deleted' = [deleted EXCEPT ![Slot] = TRUE]
            /\ swapMap' = [swapMap EXCEPT ![KeyOf(h)] = placement[Slot]]
            /\ UNCHANGED confirmed
            /\ Slot # KeyOf(h)
        BY <2>7 DEF ClockEvict, AtSlot, ClockUnchanged
      <3>3. placement[Slot] # Nil
        BY <3>1, NilAssumption DEF MetaType
      <3>4. \A g \in Handlers \ {h} : pc[g] \notin InPlacer
        BY <3>2, Exclusion DEF InPlacer
      <3> QED
        BY <2>1, <3>1, <3>2, <3>3, <3>4, NilAssumption, ChunkAssumption
        DEF HandlerInv, Locked, InPlacer, ChunkOf, PlacerMetaType, MetaType
    <2>8. CASE ClockBound(h) \/ ClockTail(h) \/ ClockSwitch(h)
      <3>1. /\ pc[h] \in {"clock", "tail"}
            /\ UNCHANGED <<post, swapMap, confirmed, deleted>>
            /\ \/ pc' = [pc EXCEPT ![h] = "tail"] /\ \E n : idx' = [idx EXCEPT ![h] = n]
               \/ pc' = [pc EXCEPT ![h] = "clock"] /\ idx' = [idx EXCEPT ![h] = 0]
        BY <2>8 DEF ClockBound, ClockTail, ClockSwitch, ClockUnchanged
      <3> QED
        BY <2>1, <3>1 DEF HandlerInv, Locked, InPlacer, ChunkOf
    <2>9. CASE Relocate(h)
      <3>1. /\ pc[h] = "relocate" /\ idx[h] < NumChunks
            /\ UNCHANGED <<pc, post, swapMap, confirmed, deleted>>
            /\ idx' = [idx EXCEPT ![h] = idx[h] + 1]
        BY <2>9 DEF Relocate, pmVars, metaVars
      <3> QED
        BY <2>1, <3>1, ChunkAssumption DEF HandlerInv, Locked, InPlacer, ChunkOf
    <2>10. CASE DropEvicted(h)
      <3>1. /\ pc[h] = "drop"
            /\ UNCHANGED <<swapMap, confirmed, deleted>>
            /\ \/ /\ idx[h] + 1 < NumChunks /\ idx' = [idx EXCEPT ![h] = idx[h] + 1]
                  /\ UNCHANGED <<pc, post>>
               \/ /\ idx' = [idx EXCEPT ![h] = 0] /\ pc' = [pc EXCEPT ![h] = "send"]
                  /\ post' = [post EXCEPT ![h] = Nil]
        BY <2>10 DEF DropEvicted, pmVars, metaVars
      <3> QED
        BY <2>1, <3>1 DEF HandlerInv, Locked, InPlacer, ChunkOf
    <2> QED
      BY <1>4, <2>2, <2>3, <2>4, <2>5, <2>6, <2>7, <2>8, <2>9, <2>10 DEF HandleSet, Clock
  <1> QED
    BY <1>1, <1>2, <1>3, <1>4 DEF Next

(***************************************************************************)
(* The clock's two arrays.                                                 *)
(***************************************************************************)

\* The object k is on array x, at the position it records for that array.
OnArray(x, k) == pos[k][x] \in 1..Len(objects[x]) /\ objects[x][pos[k][x]] = k

\* Slot n of the primary array has been copied to the secondary one in this pass.
Passed(n) ==
    /\ cursor # 0
    /\ n < cursor \/ \E h \in Handlers : pc[h] = "tail" /\ n < idx[h]

\* The inductive form of PosExact: what the secondary array must hold for the positions
\* to be right after the switch.
PosInv ==
    \A k \in Keys : ~deleted[k] =>
        /\ pos[k][primary] # 0 => OnArray(primary, k)
        /\ pos[k][primary] # 0 /\ Passed(pos[k][primary]) => OnArray(secondary, k)
        /\ cursor # 0 /\ pos[k][primary] = 0 /\ pos[k][secondary] # 0 => OnArray(secondary, k)
        /\ cursor = 0 /\ pos[k][primary] = 0 => pos[k][secondary] = 0

\* Steps that touch neither the arrays nor the handler that is inside the Placer.
ClockQuiet ==
    /\ UNCHANGED <<objects, cursor, cursorBound, primary>>
    /\ \A g \in Handlers : pc'[g] = "tail" <=> pc[g] = "tail"
    /\ \A g \in Handlers : pc[g] = "tail" => idx'[g] = idx[g]

\* The client operations, the GET and the handlers outside the clock are such steps.
LEMMA QuietSteps ==
    ASSUME TypeOK, [Next]_vars
    PROVE  \/ ClockQuiet
           \/ \E h \in Handlers : Place(h) \/ Clock(h)
  <1> USE DEF TypeOK, HandlerType
  <1>1. CASE UNCHANGED vars
    BY <1>1 DEF ClockQuiet, vars, clockVars, handlerVars
  <1>2. CASE \/ \E cl \in Clients, k \in Keys, s \in Sizes : EcSet(cl, k, s)
             \/ \E cl \in Clients, k \in Keys : Recover(cl, k)
    <2>1. PICK cl \in Clients, op \in ClientOps, shards \in SUBSET Chunks :
                 Start(cl, op, shards)
      BY <1>2, StartFacts
    <2>2. UNCHANGED clockVars /\ UNCHANGED idx
      BY <2>1 DEF Start
    <2>3. \A g \in Handlers : pc'[g] = "tail" <=> pc[g] = "tail"
      BY <2>1, StartKeys
    <2> QED
      BY <2>2, <2>3 DEF ClockQuiet, clockVars
  <1>3. CASE \E k \in Keys, c \in Chunks : Get(k, c)
    BY <1>3 DEF Get, ClockQuiet, clockVars, handlerVars
  <1>4. ASSUME NEW h \in Handlers,
               \/ Insert(h) \/ AlreadyConfirmed(h) \/ LockMeta(h) \/ EvictedMeanwhile(h)
               \/ TakeSwapped(h) \/ Overweight(h)
               \/ Relocate(h) \/ Relocated(h) \/ NotSet(h) \/ IsSet(h) \/ DropEvicted(h)
               \/ Send(h)
        PROVE  ClockQuiet
    <2>1. UNCHANGED clockVars
      BY <1>4 DEF Insert, AlreadyConfirmed, LockMeta, EvictedMeanwhile, TakeSwapped,
                  Overweight, Relocate, Relocated, NotSet, IsSet, DropEvicted, Send
    <2>2. /\ pc[h] # "tail"
          /\ \E v \in {"lock", "placer", "clock", "relocate", "check", "drop", "send", "idle"} :
                pc' = [pc EXCEPT ![h] = v]
      BY <1>4 DEF Insert, AlreadyConfirmed, LockMeta, EvictedMeanwhile, TakeSwapped,
                  Overweight, Relocate, Relocated, NotSet, IsSet, DropEvicted, Send, Return,
                  EnterPlacer
    <2>3. \E n : idx' = [idx EXCEPT ![h] = n]
      BY <1>4 DEF Insert, AlreadyConfirmed, LockMeta, EvictedMeanwhile, TakeSwapped,
                  Overweight, Relocate, Relocated, NotSet, IsSet, DropEvicted, Send
    <2> QED
      BY <2>1, <2>2, <2>3 DEF ClockQuiet, clockVars
  <1> QED
    BY <1>1, <1>2, <1>3, <1>4 DEF Next, HandleSet

\* The cursor and its bound stay within the primary array.
LEMMA BoundsStep ==
    ASSUME TypeOK, LockInv, HandlerInv, ClockInBounds, [Next]_vars
    PROVE  ClockInBounds'
  <1> USE DEF TypeOK, HandlerType, ClockType
  <1>1. CASE ClockQuiet
    BY <1>1 DEF ClockQuiet, ClockInBounds
  <1>2. ASSUME NEW h \in Handlers, Place(h)
        PROVE  ClockInBounds'
    <2>1. \A g \in Handlers : pc'[g] # "tail"
      BY <1>2, NilAssumption DEF Place, EnterPlacer, Return, LockInv, InPlacer
    <2>2. UNCHANGED <<cursor, cursorBound, primary>>
      BY <1>2 DEF Place
    <2>3. Len(objects'[primary]) >= Len(objects[primary])
      <3>1. CASE pos[KeyOf(h)][primary] = 0
        <4>1. objects' = [objects EXCEPT ![primary] = Append(@, KeyOf(h))]
          BY <1>2, <3>1 DEF Place, AddObject
        <4>2. KeyOf(h) \in Keys \cup {Nil}
          BY <1>2, HandlerFacts DEF Place, EnterPlacer
        <4> QED
          BY <4>1, <4>2
      <3>2. CASE pos[KeyOf(h)][primary] # 0
        BY <1>2, <3>2 DEF Place
      <3> QED
        BY <3>1, <3>2
    <2>4. Len(objects'[primary]) \in Nat
      BY <1>2, ClockTypeStep, <2>2 DEF HandleSet
    <2> QED
      BY <2>1, <2>2, <2>3, <2>4 DEF ClockInBounds
  <1>3. ASSUME NEW h \in Handlers, Clock(h)
        PROVE  ClockInBounds'
    <2>1. pc[h] \in InPlacer
      BY <1>3 DEF Clock, ClockStart, ClockSkip, ClockPass, ClockEvict, ClockBound, ClockTail,
                  ClockSwitch, AtSlot, InPlacer
    <2>2. \A g \in Handlers \ {h} : pc[g] # "tail"
      BY <2>1, Exclusion DEF InPlacer
    <2>3. secondary \in 0..1 /\ secondary # primary
      BY DEF secondary
    <2>4. CASE ClockStart(h)
      BY <2>2, <2>3, <2>4 DEF ClockStart, Bound, ClockInBounds, handlerVars
    <2>5. CASE ClockSkip(h)
      BY <2>2, <2>5 DEF ClockSkip, AtSlot, ClockInBounds, handlerVars
    <2>6. CASE ClockPass(h)
      BY <2>2, <2>3, <2>6 DEF ClockPass, AtSlot, ClockInBounds, handlerVars
    <2>7. CASE ClockEvict(h)
      <3>1. Len(objects'[primary]) = Len(objects[primary])
        BY <2>7 DEF ClockEvict, Replaced
      <3>2. /\ cursor' = cursor + 1 /\ cursor < cursorBound
            /\ UNCHANGED <<cursorBound, primary>>
            /\ pc' = [pc EXCEPT ![h] = "relocate"]
        BY <2>7 DEF ClockEvict, AtSlot
      <3> QED
        BY <2>2, <2>7, <3>1, <3>2 DEF ClockInBounds, ClockEvict, AtSlot
    <2>8. CASE ClockBound(h)
      BY <2>2, <2>8 DEF ClockBound, clockVars, ClockInBounds
    <2>9. CASE ClockTail(h)
      <3>1. objects'[primary] = objects[primary]
        BY <2>3, <2>9 DEF ClockTail
      <3> QED
        BY <2>2, <2>9, <3>1 DEF ClockTail, ClockInBounds
    <2>10. CASE ClockSwitch(h)
      BY <2>2, <2>10 DEF ClockSwitch, ClockInBounds
    <2> QED
      BY <1>3, <2>4, <2>5, <2>6, <2>7, <2>8, <2>9, <2>10 DEF Clock
  <1> QED
    BY <1>1, <1>2, <1>3, QuietSteps

\* No step brings an evicted object back together with its old positions.
LEMMA QuietPos ==
    ASSUME TypeOK, HandlerInv, [Next]_vars, ClockQuiet, ~\E h \in Handlers : Place(h) \/ Clock(h)
    PROVE  \A k \in Keys : ~deleted'[k] =>
              \/ ~deleted[k] /\ pos'[k] = pos[k]
              \/ pos'[k] = [x \in 0..1 |-> 0]
  <1>1. CASE UNCHANGED <<deleted, pos>>
    BY <1>1
  <1>2. ASSUME NEW h \in Handlers, LockMeta(h)
        PROVE  \A k \in Keys : ~deleted'[k] =>
                  \/ ~deleted[k] /\ pos'[k] = pos[k]
                  \/ pos'[k] = [x \in 0..1 |-> 0]
    <2>1. CASE deleted[KeyOf(h)]
      <3>1. /\ pos' = [pos EXCEPT ![KeyOf(h)] = [x \in 0..1 |-> 0]]
            /\ deleted' = [deleted EXCEPT ![KeyOf(h)] = FALSE]
        BY <1>2, <2>1 DEF LockMeta
      <3> QED
        BY <3>1 DEF TypeOK, MetaType, PlacerMetaType
    <2>2. CASE ~deleted[KeyOf(h)]
      BY <1>2, <2>2 DEF LockMeta, pmVars
    <2> QED
      BY <2>1, <2>2
  <1>3. CASE \/ \E cl \in Clients, k \in Keys, s \in Sizes : EcSet(cl, k, s)
             \/ \E cl \in Clients, k \in Keys : Recover(cl, k)
    BY <1>1, <1>3, StartFacts DEF Start, metaVars, pmVars
  <1>4. CASE \E k \in Keys, c \in Chunks : Get(k, c)
    BY <1>1, <1>4 DEF Get, metaVars
  <1>5. ASSUME NEW h \in Handlers,
               \/ Insert(h) \/ AlreadyConfirmed(h) \/ EvictedMeanwhile(h)
               \/ TakeSwapped(h) \/ Overweight(h)
               \/ Relocate(h) \/ Relocated(h) \/ NotSet(h) \/ IsSet(h) \/ DropEvicted(h)
               \/ Send(h)
        PROVE  UNCHANGED <<deleted, pos>>
    BY <1>5 DEF Insert, AlreadyConfirmed, EvictedMeanwhile, TakeSwapped, Overweight, Relocate,
                Relocated, NotSet, IsSet, DropEvicted, Send, metaVars, pmVars
  <1>6. CASE UNCHANGED vars
    BY <1>1, <1>6 DEF vars, metaVars, pmVars
  <1> QED
    BY <1>1, <1>2, <1>3, <1>4, <1>5, <1>6 DEF Next, HandleSet

\* Appending m to the secondary array puts m there and moves no other object.
LEMMA CopyFacts ==
    ASSUME TypeOK, NEW m \in Keys, UNCHANGED primary, pos' = CopiedPos(m),
           objects' = [objects EXCEPT ![secondary] = Append(@, m)]
    PROVE  /\ OnArray(secondary, m)'
           /\ pos'[m][secondary] # 0
           /\ \A k \in Keys : pos'[k][primary] = pos[k][primary]
           /\ \A k \in Keys : OnArray(primary, k) => OnArray(primary, k)'
           /\ \A k \in Keys \ {m} : /\ pos'[k] = pos[k]
                                    /\ OnArray(secondary, k) => OnArray(secondary, k)'
  <1> USE DEF TypeOK, ClockType, PlacerMetaType
  <1>1. primary \in 0..1 /\ secondary \in 0..1 /\ primary # secondary /\ secondary' = secondary
    BY DEF secondary
  <1>2. objects[secondary] \in Seq(Keys \cup {Nil})
    BY <1>1
  <1>3. /\ objects'[primary] = objects[primary]
        /\ objects'[secondary] = Append(objects[secondary], m)
    BY <1>1
  <1>4. /\ pos'[m][secondary] = Len(objects[secondary]) + 1
        /\ pos'[m][primary] = pos[m][primary]
        /\ \A k \in Keys \ {m} : pos'[k] = pos[k]
    BY <1>1 DEF CopiedPos
  <1>5. OnArray(secondary, m)' /\ pos'[m][secondary] # 0
    BY <1>1, <1>2, <1>3, <1>4 DEF OnArray
  <1>6. \A k \in Keys : pos'[k][primary] = pos[k][primary]
    BY <1>4
  <1>7. \A k \in Keys : OnArray(primary, k) => OnArray(primary, k)'
    BY <1>3, <1>6 DEF OnArray
  <1>8. \A k \in Keys \ {m} : OnArray(secondary, k) => OnArray(secondary, k)'
    BY <1>1, <1>2, <1>3, <1>4 DEF OnArray
  <1> QED
    BY <1>4, <1>5, <1>6, <1>7, <1>8

\* Every step keeps the recorded positions right.
LEMMA PosStep ==
    ASSUME TypeOK, LockInv, HandlerInv, ClockInBounds, PosInv, [Next]_vars
    PROVE  PosInv'
  <1> USE DEF TypeOK, HandlerType, ClockType, PlacerMetaType
  <1>1. CASE ~\E h \in Handlers : Place(h) \/ Clock(h)
    <2>1. ClockQuiet
      BY <1>1, QuietSteps
    <2>2. \A n : Passed(n)' <=> Passed(n)
      BY <2>1 DEF ClockQuiet, Passed
    <2>3. UNCHANGED <<objects, cursor, primary>> /\ UNCHANGED secondary
      BY <2>1 DEF ClockQuiet, secondary
    <2>4. \A k \in Keys : ~deleted'[k] =>
              \/ ~deleted[k] /\ pos'[k] = pos[k]
              \/ pos'[k] = [x \in 0..1 |-> 0]
      BY <1>1, <2>1, QuietPos
    <2>5. primary \in 0..1 /\ secondary \in 0..1
      BY DEF secondary
    <2>6. \A k \in Keys, x \in 0..1 : pos'[k] = pos[k] /\ OnArray(x, k) => OnArray(x, k)'
      BY <2>3 DEF OnArray
    <2>7. ASSUME NEW k \in Keys, ~deleted'[k], pos'[k] = [x \in 0..1 |-> 0]
          PROVE  pos'[k][primary] = 0 /\ pos'[k][secondary] = 0
      BY <2>5, <2>7
    <2> QED
      BY <2>2, <2>3, <2>4, <2>5, <2>6, <2>7 DEF PosInv
  <1>2. ASSUME NEW h \in Handlers, Place(h)
        PROVE  PosInv'
    <2>1. PICK kk \in Keys : kk = KeyOf(h)
      BY <1>2, HandlerFacts DEF Place, EnterPlacer
    <2>2. \A g \in Handlers : pc[g] # "tail" /\ pc'[g] # "tail"
      BY <1>2, NilAssumption DEF Place, EnterPlacer, Return, LockInv, InPlacer
    <2>3. UNCHANGED <<cursor, primary, deleted>> /\ UNCHANGED secondary
      BY <1>2 DEF Place, secondary
    <2>4. \A n : Passed(n)' <=> Passed(n)
      BY <2>2, <2>3 DEF Passed
    <2>5. CASE pos[kk][primary] # 0
      <3>1. UNCHANGED <<pos, objects>>
        BY <1>2, <2>1, <2>5 DEF Place
      <3> QED
        BY <2>3, <2>4, <3>1 DEF PosInv, OnArray
    <2>6. CASE pos[kk][primary] = 0
      <3>1. /\ pos' = [pos EXCEPT ![kk][primary] = Len(objects[primary]) + 1]
            /\ objects' = [objects EXCEPT ![primary] = Append(@, kk)]
        BY <1>2, <2>1, <2>6 DEF Place, AddObject
      <3>2. primary \in 0..1 /\ secondary \in 0..1 /\ primary # secondary
        BY DEF secondary
      <3>4. OnArray(primary, kk)' /\ pos'[kk][primary] = Len(objects[primary]) + 1
        <4>1. objects'[primary] = Append(objects[primary], kk)
          BY <3>1, <3>2
        <4>2. pos'[kk][primary] = Len(objects[primary]) + 1
          BY <2>1, <3>1, <3>2
        <4>3. objects[primary] \in Seq(Keys \cup {Nil})
          BY <3>2
        <4> QED
          BY <2>1, <2>3, <4>1, <4>2, <4>3 DEF OnArray
      <3>5. \A k \in Keys \ {kk} :
               /\ pos'[k] = pos[k]
               /\ OnArray(primary, k) => OnArray(primary, k)'
               /\ OnArray(secondary, k) => OnArray(secondary, k)'
        <4>1. \A k \in Keys \ {kk} : pos'[k] = pos[k]
          BY <3>1
        <4>2. objects'[secondary] = objects[secondary]
          BY <3>1, <3>2
        <4>3. objects'[primary] = Append(objects[primary], kk)
          BY <3>1, <3>2
        <4>4. objects[primary] \in Seq(Keys \cup {Nil})
          BY <3>2
        <4>5. \A k \in Keys \ {kk} : OnArray(secondary, k) => OnArray(secondary, k)'
          BY <2>1, <2>3, <4>1, <4>2 DEF OnArray
        <4>6. /\ Len(objects'[primary]) = Len(objects[primary]) + 1
              /\ \A n \in 1..Len(objects[primary]) : objects'[primary][n] = objects[primary][n]
          BY <4>3, <4>4
        <4>7. \A k \in Keys \ {kk} : OnArray(primary, k) => OnArray(primary, k)'
          BY <2>1, <2>3, <4>1, <4>4, <4>6 DEF OnArray
        <4> QED
          BY <4>1, <4>5, <4>7
      <3> QED
        <4>2. cursor # 0 => ~(Len(objects[primary]) + 1 < cursor)
          BY DEF ClockInBounds
        <4>3. \A n : Passed(n) <=> cursor # 0 /\ n < cursor
          BY <2>2 DEF Passed
        <4>4. ASSUME NEW k \in Keys, ~deleted'[k]
              PROVE  /\ pos'[k][primary] # 0 => OnArray(primary, k)'
                     /\ pos'[k][primary] # 0 /\ cursor # 0 /\ pos'[k][primary] < cursor
                           => OnArray(secondary, k)'
                     /\ cursor # 0 /\ pos'[k][primary] = 0 /\ pos'[k][secondary] # 0
                           => OnArray(secondary, k)'
                     /\ cursor = 0 /\ pos'[k][primary] = 0 => pos'[k][secondary] = 0
          <5>1. CASE k = kk
            BY <3>4, <4>2, <5>1
          <5>2. CASE k # kk
            BY <2>3, <3>5, <4>3, <4>4, <5>2 DEF PosInv
          <5> QED
            BY <5>1, <5>2
        <4> QED
          BY <2>2, <2>3, <4>4 DEF PosInv, Passed
    <2> QED
      BY <2>5, <2>6
  <1>3. ASSUME NEW h \in Handlers, Clock(h)
        PROVE  PosInv'
    <2>1. pc[h] \in InPlacer
      BY <1>3 DEF Clock, ClockStart, ClockSkip, ClockPass, ClockEvict, ClockBound, ClockTail,
                  ClockSwitch, AtSlot, InPlacer
    <2>2. \A g \in Handlers \ {h} : pc[g] # "tail"
      BY <2>1, Exclusion DEF InPlacer
    <2>3. primary \in 0..1 /\ secondary \in 0..1 /\ primary # secondary
      BY DEF secondary
    <2>4. CASE ClockStart(h)
      <3>1. /\ objects' = [objects EXCEPT ![secondary] = << >>]
            /\ cursor = 0 /\ cursor' = 1
            /\ UNCHANGED <<primary, deleted, pos, pc, idx>>
            /\ pc[h] = "clock"
        BY <2>4 DEF ClockStart, handlerVars
      <3>2. \A k \in Keys : OnArray(primary, k) => OnArray(primary, k)'
        BY <2>3, <3>1 DEF OnArray
      <3>3. \A n \in Nat \ {0} : ~Passed(n)'
        BY <2>2, <3>1 DEF Passed
      <3>4. \A k \in Keys : pos[k][primary] \in Nat /\ secondary' = secondary
        BY <2>3, <3>1 DEF secondary
      <3> QED
        BY <3>1, <3>2, <3>3, <3>4 DEF PosInv
    <2>5. CASE ClockSkip(h)
      <3>1. /\ cursor # 0 /\ cursor' = cursor + 1
            /\ UNCHANGED <<objects, primary, deleted, pos, pc, idx>>
            /\ pc[h] = "clock" /\ Slot = Nil
        BY <2>5 DEF ClockSkip, AtSlot, handlerVars
      <3>2. \A k \in Keys : pos[k][primary] # 0 /\ ~deleted[k] => pos[k][primary] # cursor
        BY <3>1, NilAssumption DEF PosInv, OnArray, Slot
      <3>3. \A n \in Nat : n # cursor => (Passed(n)' <=> Passed(n))
        BY <2>2, <3>1 DEF Passed
      <3>4. \A k \in Keys : pos[k][primary] \in Nat /\ secondary' = secondary
        BY <2>3, <3>1 DEF secondary
      <3>5. \A k \in Keys, x \in 0..1 : OnArray(x, k)' <=> OnArray(x, k)
        BY <3>1 DEF OnArray
      <3> QED
        BY <2>3, <3>1, <3>2, <3>3, <3>4, <3>5 DEF PosInv
    <2>6. CASE ClockPass(h)
      <3>1. PICK m \in Keys : m = Slot
        BY <2>6, SlotFacts DEF ClockPass
      <3>2. /\ cursor # 0 /\ cursor' = cursor + 1
            /\ UNCHANGED <<primary, deleted, pc, idx>>
            /\ pc[h] = "clock"
            /\ pos' = CopiedPos(m)
            /\ objects' = [objects EXCEPT ![secondary] = Append(@, m)]
        BY <2>6, <3>1 DEF ClockPass, AtSlot, handlerVars
      <3>3. \A k \in Keys : pos[k][primary] = cursor /\ ~deleted[k] => k = m
        BY <3>1, <3>2 DEF PosInv, OnArray, Slot
      <3>4. \A k \in Keys : pos[k][primary] \in Nat /\ secondary' = secondary
        BY <2>3, <3>2 DEF secondary
      <3>5. /\ OnArray(secondary, m)'
            /\ \A k \in Keys : pos'[k][primary] = pos[k][primary]
            /\ \A k \in Keys : OnArray(primary, k) => OnArray(primary, k)'
            /\ \A k \in Keys \ {m} : /\ pos'[k] = pos[k]
                                     /\ OnArray(secondary, k) => OnArray(secondary, k)'
        BY <3>1, <3>2, CopyFacts
      <3>6. ASSUME NEW k \in Keys, ~deleted[k]
            PROVE  /\ pos'[k][primary] # 0 => OnArray(primary, k)'
                   /\ pos'[k][primary] # 0 /\ Passed(pos[k][primary])'
                         => OnArray(secondary, k)'
                   /\ pos'[k][primary] = 0 /\ pos'[k][secondary] # 0
                         => OnArray(secondary, k)'
        <4>1. CASE k = m
          BY <3>5, <3>6, <4>1 DEF PosInv
        <4>2. CASE k # m
          <5>1. pos'[k] = pos[k] /\ pos[k][primary] # cursor
            BY <3>3, <3>5, <3>6, <4>2
          <5>2. Passed(pos[k][primary])' <=> Passed(pos[k][primary])
            BY <2>2, <3>2, <3>4, <5>1 DEF Passed
          <5> QED
            BY <3>2, <3>5, <3>6, <4>2, <5>1, <5>2 DEF PosInv
        <4> QED
          BY <4>1, <4>2
      <3>7. cursor' # 0
        BY <3>2
      <3> QED
        BY <3>2, <3>4, <3>6, <3>7 DEF PosInv
    <2>7. CASE ClockBound(h)
      <3>1. /\ UNCHANGED <<objects, primary, cursor, deleted, pos>>
            /\ pc[h] = "clock" /\ pc' = [pc EXCEPT ![h] = "tail"]
            /\ idx' = [idx EXCEPT ![h] = cursor]
        BY <2>7 DEF ClockBound, clockVars
      <3>2. \A n : Passed(n)' <=> Passed(n)
        BY <2>2, <3>1 DEF Passed
      <3>3. secondary' = secondary /\ \A k \in Keys, x \in 0..1 : OnArray(x, k)' <=> OnArray(x, k)
        BY <3>1 DEF OnArray, secondary
      <3> QED
        BY <2>3, <3>1, <3>2, <3>3 DEF PosInv
    <2>8. CASE ClockTail(h)
      <3>1. /\ cursor # 0 /\ idx[h] \in cursor..Len(objects[primary])
            /\ UNCHANGED <<primary, cursor, deleted, pc>>
            /\ pc[h] = "tail" /\ idx' = [idx EXCEPT ![h] = idx[h] + 1]
        BY <2>8 DEF ClockTail, ClockInBounds
      <3>2. \A n \in Nat : n # idx[h] => (Passed(n)' <=> Passed(n))
        BY <2>2, <3>1 DEF Passed
      <3>3. \A k \in Keys : pos[k][primary] \in Nat /\ secondary' = secondary
        BY <2>3, <3>1 DEF secondary
      <3>4. CASE objects[primary][idx[h]] = Nil
        <4>1. UNCHANGED <<pos, objects>>
          BY <2>8, <3>4 DEF ClockTail
        <4>2. \A k \in Keys : pos[k][primary] # 0 /\ ~deleted[k] => pos[k][primary] # idx[h]
          BY <3>4, NilAssumption DEF PosInv, OnArray
        <4>3. \A k \in Keys, x \in 0..1 : OnArray(x, k)' <=> OnArray(x, k)
          BY <4>1 DEF OnArray
        <4> QED
          BY <2>3, <3>1, <3>2, <3>3, <4>1, <4>2, <4>3 DEF PosInv
      <3>5. CASE objects[primary][idx[h]] # Nil
        <4>1. PICK m \in Keys : m = objects[primary][idx[h]]
          BY <2>3, <3>1, <3>5
        <4>2. /\ pos' = CopiedPos(m)
              /\ objects' = [objects EXCEPT ![secondary] = Append(@, m)]
          BY <2>8, <3>5, <4>1 DEF ClockTail
        <4>3. \A k \in Keys : pos[k][primary] = idx[h] /\ ~deleted[k] => k = m
          <5>1. idx[h] # 0
            BY <3>1
          <5>2. \A k \in Keys : ~deleted[k] /\ pos[k][primary] # 0
                                => objects[primary][pos[k][primary]] = k
            BY DEF PosInv, OnArray
          <5> QED
            BY <4>1, <5>1, <5>2
        <4>4. /\ OnArray(secondary, m)'
              /\ \A k \in Keys : pos'[k][primary] = pos[k][primary]
              /\ \A k \in Keys : OnArray(primary, k) => OnArray(primary, k)'
              /\ \A k \in Keys \ {m} : /\ pos'[k] = pos[k]
                                       /\ OnArray(secondary, k) => OnArray(secondary, k)'
          BY <3>1, <4>1, <4>2, CopyFacts
        <4>5. ASSUME NEW k \in Keys, ~deleted[k]
              PROVE  /\ pos'[k][primary] # 0 => OnArray(primary, k)'
                     /\ pos'[k][primary] # 0 /\ Passed(pos[k][primary])'
                           => OnArray(secondary, k)'
                     /\ pos'[k][primary] = 0 /\ pos'[k][secondary] # 0
                           => OnArray(secondary, k)'
          <5>1. CASE k = m
            BY <4>4, <4>5, <5>1 DEF PosInv
          <5>2. CASE k # m
            <6>1. pos'[k] = pos[k] /\ pos[k][primary] # idx[h]
              BY <4>3, <4>4, <4>5, <5>2
            <6>2. Passed(pos[k][primary])' <=> Passed(pos[k][primary])
              BY <2>2, <3>1, <3>3, <6>1 DEF Passed
            <6> QED
              BY <3>1, <4>4, <4>5, <5>2, <6>1, <6>2 DEF PosInv
          <5> QED
            BY <5>1, <5>2
        <4> QED
          BY <3>1, <3>3, <4>4, <4>5 DEF PosInv
      <3> QED
        BY <3>4, <3>5
    <2>9. CASE ClockSwitch(h)
      <3>1. /\ UNCHANGED <<objects, deleted, pos>>
            /\ cursor' = 0 /\ primary' = secondary /\ secondary' = primary
            /\ pc[h] = "tail" /\ idx[h] > Len(objects[primary])
        BY <2>9 DEF ClockSwitch, secondary
      <3>2. cursor # 0
        BY <3>1 DEF ClockInBounds
      <3>3. \A k \in Keys : ~deleted[k] /\ pos[k][primary] # 0 => Passed(pos[k][primary])
        BY <2>3, <3>1, <3>2 DEF PosInv, OnArray, Passed
      <3>4. \A k \in Keys : ~deleted[k] /\ pos[k][secondary] # 0 => OnArray(secondary, k)
        BY <3>2, <3>3 DEF PosInv
      <3>5. \A k \in Keys : ~deleted[k] /\ pos[k][secondary] = 0 => pos[k][primary] = 0
        BY <2>3, <3>3 DEF PosInv, OnArray
      <3>6. \A k \in Keys, x \in 0..1 : OnArray(x, k)' <=> OnArray(x, k)
        BY <3>1 DEF OnArray
      <3> QED
        BY <2>3, <3>1, <3>4, <3>5, <3>6 DEF PosInv, Passed
    <2>10. CASE ClockEvict(h)
      <3>1. PICK kk \in Keys, m \in Keys : kk = KeyOf(h) /\ m = Slot
        BY <2>10, SlotFacts, HandlerFacts DEF ClockEvict, AtSlot
      <3>2. cursor \in 1..Len(objects[primary]) /\ objects[primary][cursor] = m /\ kk # m
        BY <2>10, <3>1, SlotFacts DEF ClockEvict, Slot
      <3>3. ~deleted[kk]
        BY <2>1, <3>1 DEF HandlerInv
      <3>4. /\ cursor' = cursor + 1 /\ UNCHANGED primary
            /\ deleted' = [deleted EXCEPT ![m] = TRUE]
            /\ pos' = [pos EXCEPT ![kk] = [x \in 0..1 |-> IF x = primary THEN cursor
                                                ELSE Len(objects[secondary]) + 1]]
            /\ objects' = [x \in 0..1 |-> IF x = primary THEN Replaced(kk)
                                          ELSE Append(objects[secondary], kk)]
            /\ pc[h] = "clock" /\ pc' = [pc EXCEPT ![h] = "relocate"]
        BY <2>10, <3>1 DEF ClockEvict, AtSlot
      <3>5. secondary' = secondary /\ \A k \in Keys : pos[k][primary] \in Nat
        BY <2>3, <3>4 DEF secondary
      <3>6. /\ objects'[primary] = Replaced(kk)
            /\ objects'[secondary] = Append(objects[secondary], kk)
            /\ objects[secondary] \in Seq(Keys \cup {Nil})
            /\ pos'[kk][primary] = cursor
            /\ pos'[kk][secondary] = Len(objects[secondary]) + 1
            /\ \A k \in Keys \ {kk} : pos'[k] = pos[k]
        BY <2>3, <3>1, <3>4
      <3>7. OnArray(primary, kk)' /\ OnArray(secondary, kk)'
        <4>1. Len(Replaced(kk)) = Len(objects[primary]) /\ Replaced(kk)[cursor] = kk
          BY <3>2 DEF Replaced
        <4>2. OnArray(primary, kk)'
          BY <3>2, <3>4, <3>6, <4>1 DEF OnArray
        <4>3. OnArray(secondary, kk)'
          BY <3>1, <3>5, <3>6 DEF OnArray
        <4> QED
          BY <4>2, <4>3
      <3>8. ASSUME NEW k \in Keys, k # kk, ~deleted'[k]
            PROVE  /\ ~deleted[k] /\ k # m
                   /\ pos[k][primary] # 0 => OnArray(primary, k)' /\ pos[k][primary] # cursor
                   /\ OnArray(secondary, k) => OnArray(secondary, k)'
        <4>1. ~deleted[k] /\ k # m
          BY <3>1, <3>4, <3>8 DEF MetaType
        <4>2. OnArray(secondary, k) => OnArray(secondary, k)'
          BY SMTT(30), <3>5, <3>6, <3>8 DEF OnArray
        <4>3. ASSUME pos[k][primary] # 0
              PROVE  OnArray(primary, k)' /\ pos[k][primary] # cursor
          <5>1. OnArray(primary, k)
            BY <4>1, <4>3 DEF PosInv
          <5>2. pos[k][primary] # cursor
            BY <3>2, <4>1, <5>1 DEF OnArray
          <5>3. pos[k][primary] # pos[kk][primary]
            BY <3>3, <3>8, <4>3, <5>1 DEF PosInv, OnArray
          <5>4. pos[k][primary] \in 1..Len(objects[primary]) /\ objects[primary][pos[k][primary]] = k
            BY <5>1 DEF OnArray
          <5>5. Replaced(kk)[pos[k][primary]] = k /\ Len(Replaced(kk)) = Len(objects[primary])
            BY <5>2, <5>3, <5>4 DEF Replaced
          <5> QED
            BY <3>4, <3>6, <3>8, <5>2, <5>4, <5>5 DEF OnArray
        <4> QED
          BY <4>1, <4>2, <4>3
      <3>9. cursor # 0 /\ cursor' # 0 /\ cursor \in Nat
        BY <3>2, <3>4
      <3>10. ASSUME NEW k \in Keys, ~deleted'[k]
             PROVE  /\ pos'[k][primary] # 0 => OnArray(primary, k)'
                    /\ pos'[k][primary] # 0 /\ Passed(pos[k][primary])'
                          => OnArray(secondary, k)'
                    /\ pos'[k][primary] = 0 /\ pos'[k][secondary] # 0
                          => OnArray(secondary, k)'
        <4>1. CASE k = kk
          BY <3>7, <4>1
        <4>2. CASE k # kk
          <5>1. /\ ~deleted[k] /\ pos'[k] = pos[k]
                /\ pos[k][primary] # 0 => OnArray(primary, k)' /\ pos[k][primary] # cursor
                /\ OnArray(secondary, k) => OnArray(secondary, k)'
            BY <3>6, <3>8, <3>10, <4>2
          <5>2. pos[k][primary] # 0 => (Passed(pos[k][primary])' <=> Passed(pos[k][primary]))
            BY SMTT(30), <2>2, <3>2, <3>4, <3>5, <5>1 DEF Passed
          <5> QED
            BY <3>9, <5>1, <5>2 DEF PosInv
        <4> QED
          BY <4>1, <4>2
      <3> QED
        BY <3>4, <3>5, <3>9, <3>10 DEF PosInv
    <2> QED
      BY <1>3, <2>4, <2>5, <2>6, <2>7, <2>8, <2>9, <2>10 DEF Clock
  <1> QED
    BY <1>1, <1>2, <1>3

(***************************************************************************)
(* The meta store.                                                         *)
(***************************************************************************)

\* A handler past Insert, and a confirmed chunk, have their key in the meta store.
StoreInv ==
    /\ \A h \in Handlers : pc[h] \notin {"idle", "insert"} => inStore[KeyOf(h)]
    /\ \A k \in Keys : confirmed[k] # {} => inStore[k]

\* Every step but Insert leaves the store alone, and every step confirms chunks only for
\* the key of its handler.
LEMMA StoreStep ==
    ASSUME TypeOK, HandlerInv, StoreInv, [Next]_vars
    PROVE  StoreInv'
  <1> USE DEF TypeOK, HandlerType, MetaType, PlacerMetaType
  <1>1. CASE UNCHANGED vars
    BY <1>1 DEF StoreInv, KeyOf, vars, metaVars, pmVars, handlerVars, clientVars
  <1>2. CASE \/ \E cl \in Clients, k \in Keys, s \in Sizes : EcSet(cl, k, s)
             \/ \E cl \in Clients, k \in Keys : Recover(cl, k)
    <2>1. PICK cl \in Clients, op \in ClientOps, shards \in SUBSET Chunks :
                 Start(cl, op, shards)
      BY <1>2, StartFacts
    <2>2. UNCHANGED <<inStore, confirmed>>
      BY <2>1 DEF Start, metaVars, pmVars
    <2>3. \A h \in Handlers : /\ pc[h] # "idle" => pc'[h] = pc[h] /\ KeyOf(h)' = KeyOf(h)
                              /\ pc[h] = "idle" => pc'[h] \in {"idle", "insert"}
      BY <2>1, StartKeys DEF KeyOf
    <2> QED
      BY <2>2, <2>3 DEF StoreInv
  <1>3. CASE \E k \in Keys, c \in Chunks : Get(k, c)
    BY <1>3 DEF Get, StoreInv, KeyOf, metaVars, handlerVars, clientVars
  <1>4. ASSUME NEW h \in Handlers, HandleSet(h)
        PROVE  StoreInv'
    <2>1. \A g \in Handlers : KeyOf(g)' = KeyOf(g)
      BY <1>4, ClientUnchanged DEF KeyOf, clientVars
    <2>2. CASE Insert(h)
      <3>1. KeyOf(h) \in Keys
        BY <2>2, HandlerFacts DEF Insert
      <3>2. /\ pc' = [pc EXCEPT ![h] = "lock"]
            /\ UNCHANGED confirmed
            /\ inStore'[KeyOf(h)]
            /\ \A k \in Keys : inStore[k] => inStore'[k]
        BY <2>2, <3>1 DEF Insert, pmVars
      <3>3. \A g \in Handlers \ {h} : pc[g] # "idle" => KeyOf(g) \in Keys
        BY HandlerFacts
      <3> QED
        BY <2>1, <3>2, <3>3 DEF StoreInv
    <2>3. CASE ~Insert(h)
      <3>1. UNCHANGED inStore /\ pc[h] \notin {"idle", "insert"}
        BY <1>4, <2>3 DEF HandleSet, Clock, AlreadyConfirmed, LockMeta, EvictedMeanwhile,
              TakeSwapped, Place, Overweight, ClockStart, ClockSkip, ClockPass, ClockEvict,
              ClockBound, ClockTail, ClockSwitch, ClockUnchanged, AtSlot, Relocate, Relocated,
              NotSet, IsSet, DropEvicted, Send, EnterPlacer, metaVars
      <3>2. \A g \in Handlers \ {h} : pc'[g] = pc[g]
        BY <1>4, <2>3 DEF HandleSet, Clock, AlreadyConfirmed, LockMeta, EvictedMeanwhile,
              TakeSwapped, Place, Overweight, ClockStart, ClockSkip, ClockPass, ClockEvict,
              ClockBound, ClockTail, ClockSwitch, Relocate, Relocated, NotSet, IsSet,
              DropEvicted, Send, Return, handlerVars
      <3>3. \A k \in Keys : k # KeyOf(h) => confirmed'[k] = confirmed[k]
        BY <1>4, <2>3 DEF HandleSet, Clock, AlreadyConfirmed, LockMeta, EvictedMeanwhile,
              TakeSwapped, Place, Overweight, ClockStart, ClockSkip, ClockPass, ClockEvict,
              ClockBound, ClockTail, ClockSwitch, ClockUnchanged, Relocate, Relocated, NotSet,
              IsSet, DropEvicted, Send, Confirm, pmVars
      <3> QED
        BY <2>1, <3>1, <3>2, <3>3 DEF StoreInv
    <2> QED
      BY <2>2, <2>3
  <1> QED
    BY <1>1, <1>2, <1>3, <1>4 DEF Next

-----------------------------------------------------------------------------
(***************************************************************************)
(* The inductive invariant and the theorems.                               *)
(***************************************************************************)

IInv == TypeOK /\ LockInv /\ HandlerInv /\ ClockInBounds /\ PosInv /\ StoreInv

\* The inductive invariant holds in every behaviour of the placer.
THEOREM Invariance == Spec => []IInv
  <1>1. Init => IInv
    <2> SUFFICES ASSUME Init PROVE IInv
      OBVIOUS
    <2>1. ClockInBounds /\ PosInv /\ StoreInv
      BY DEF Init, ClockInBounds, PosInv, OnArray, StoreInv, secondary
    <2> QED
      BY <2>1, InitInv DEF IInv
  <1>2. IInv /\ [Next]_vars => IInv'
    BY TypeStep, LockStep, HandlerStep, BoundsStep, PosStep, StoreStep DEF IInv
  <1> QED
    BY <1>1, <1>2, PTL DEF Spec

\* All variables keep their types; in particular every placement is an instance of the
\* group and no size counter leaves its width.
THEOREM TypeCorrect == Spec => []TypeOK
  <1>1. IInv => TypeOK
    BY DEF IInv
  <1> QED
    BY <1>1, Invariance, PTL

\* HandleSet's two locks are held by exactly the handlers that are inside.
THEOREM LocksCorrect == Spec => []LockInv
  <1>1. IInv => LockInv
    BY DEF IInv
  <1> QED
    BY <1>1, Invariance, PTL

\* NextAvailableObject never slices the primary array out of its bounds.
THEOREM CursorInBounds == Spec => []ClockInBounds
  <1>1. IInv => ClockInBounds
    BY DEF IInv
  <1> QED
    BY <1>1, Invariance, PTL

\* A live object's recorded position is its position, across compactions and switches.
THEOREM PositionsExact == Spec => []PosExact
  <1>1. IInv => PosExact
    BY DEF IInv, PosInv, PosExact, OnArray
  <1> QED
    BY <1>1, Invariance, PTL

\* A confirmed chunk keeps its instance, whatever the other handlers do.
THEOREM ConfirmedStay == Spec => PlacementStable
  <1>1. ASSUME IInv, [Next]_vars
        PROVE  \A k \in Keys : \A c \in confirmed[k] \cap confirmed'[k] :
                   placement'[k][c] = placement[k][c]
    <2> USE <1>1 DEF IInv, TypeOK, MetaType, PlacerMetaType
    <2>1. CASE UNCHANGED placement
      BY <2>1
    <2>2. CASE UNCHANGED vars
      BY <2>1, <2>2 DEF vars, metaVars
    <2>3. CASE \/ \E cl \in Clients, k \in Keys, s \in Sizes : EcSet(cl, k, s)
               \/ \E cl \in Clients, k \in Keys : Recover(cl, k)
      BY <2>1, <2>3, StartFacts DEF Start, metaVars
    <2>4. CASE \E k \in Keys, c \in Chunks : Get(k, c)
      BY <2>1, <2>4 DEF Get, metaVars
    <2>5. ASSUME NEW h \in Handlers, Insert(h)
          PROVE  \A k \in Keys : confirmed[k] # {} => placement'[k] = placement[k]
      BY <2>5 DEF Insert, StoreInv
    <2>6. ASSUME NEW h \in Handlers, TakeSwapped(h) \/ Place(h) \/ Relocated(h)
          PROVE  \A k \in Keys : \A c \in confirmed[k] : placement'[k][c] = placement[k][c]
      <3>1. KeyOf(h) \in Keys /\ ChunkOf(h) \in Chunks
        BY <2>6, HandlerFacts DEF TakeSwapped, Place, Relocated, EnterPlacer
      <3>2. ChunkOf(h) \notin confirmed[KeyOf(h)]
        BY <2>6 DEF HandlerInv, Locked, InPlacer, TakeSwapped, Place, Relocated, EnterPlacer
      <3>3. \E i : placement' = [placement EXCEPT ![KeyOf(h)][ChunkOf(h)] = i]
        BY <2>6 DEF TakeSwapped, Place, Relocated, Confirm
      <3> QED
        BY <3>1, <3>2, <3>3 DEF Placements
    <2>7. ASSUME NEW h \in Handlers, HandleSet(h), ~Insert(h), ~TakeSwapped(h), ~Place(h),
                 ~Relocated(h)
          PROVE  UNCHANGED placement
      BY <2>7 DEF HandleSet, Clock, AlreadyConfirmed, LockMeta, EvictedMeanwhile, Overweight,
            ClockStart, ClockSkip, ClockPass, ClockEvict, ClockBound, ClockTail, ClockSwitch,
            ClockUnchanged, Relocate, NotSet, IsSet, DropEvicted, Send, metaVars
    <2> QED
      BY <2>1, <2>2, <2>3, <2>4, <2>5, <2>6, <2>7 DEF Next
  <1>2. IInv /\ [Next]_vars =>
            [\A k \in Keys : \A c \in confirmed[k] \cap confirmed'[k] :
                placement'[k][c] = placement[k][c]]_vars
    BY <1>1
  <1> QED
    BY <1>2, Invariance, PTL DEF Spec, PlacementStable

\* No chunk is confirmed for an evicted object: the double check under the lock suffices.
THEOREM EvictedStayOut == Spec => EvictedNotPlaced
  <1>1. ASSUME IInv, [Next]_vars
        PROVE  \A k \in Keys : deleted[k] => confirmed'[k] \subseteq confirmed[k]
    <2> USE <1>1 DEF IInv, TypeOK, MetaType, PlacerMetaType
    <2>1. CASE UNCHANGED confirmed
      BY <2>1
    <2>2. CASE UNCHANGED vars
      BY <2>1, <2>2 DEF vars, pmVars
    <2>3. CASE \/ \E cl \in Clients, k \in Keys, s \in Sizes : EcSet(cl, k, s)
               \/ \E cl \in Clients, k \in Keys : Recover(cl, k)
      BY <2>1, <2>3, StartFacts DEF Start, pmVars
    <2>4. CASE \E k \in Keys, c \in Chunks : Get(k, c)
      BY <2>1, <2>4 DEF Get
    <2>5. ASSUME NEW h \in Handlers, LockMeta(h)
          PROVE  \A k \in Keys : confirmed'[k] \subseteq confirmed[k]
      BY <2>5 DEF LockMeta, pmVars
    <2>6. ASSUME NEW h \in Handlers, TakeSwapped(h) \/ Place(h) \/ Relocated(h)
          PROVE  \A k \in Keys : deleted[k] => confirmed'[k] = confirmed[k]
      <3>1. ~deleted[KeyOf(h)]
        BY <2>6 DEF HandlerInv, InPlacer, TakeSwapped, Place, Relocated, Evicted
      <3>2. confirmed' = [confirmed EXCEPT ![KeyOf(h)] = @ \cup {ChunkOf(h)}]
        BY <2>6 DEF TakeSwapped, Place, Relocated, Confirm
      <3> QED
        BY <3>1, <3>2
    <2>7. ASSUME NEW h \in Handlers, HandleSet(h), ~LockMeta(h), ~TakeSwapped(h), ~Place(h),
                 ~Relocated(h)
          PROVE  UNCHANGED confirmed
      BY <2>7 DEF HandleSet, Clock, Insert, AlreadyConfirmed, EvictedMeanwhile, Overweight,
            ClockStart, ClockSkip, ClockPass, ClockEvict, ClockBound, ClockTail, ClockSwitch,
            ClockUnchanged, Relocate, NotSet, IsSet, DropEvicted, Send, pmVars
    <2> QED
      BY <2>1, <2>2, <2>3, <2>4, <2>5, <2>6, <2>7 DEF Next
  <1>2. IInv /\ [Next]_vars =>
            [\A k \in Keys : deleted[k] => confirmed'[k] \subseteq confirmed[k]]_vars
    BY <1>1
  <1> QED
    BY <1>2, Invariance, PTL DEF Spec, EvictedNotPlaced
=============================================================================
