# TLA+ verification of InfiniCache

InfiniCache is an object cache whose memory is that of serverless functions. A
client erasure-codes an object into chunks and sends each chunk over a
connection of its own to a proxy; the proxy places the chunks on lambda
instances, keeps the connections to them, evicts objects when instances are
full, and replaces the function behind an instance by migrating its data.

## 1. Inventory

| part | state | operations | talks to |
|---|---|---|---|
| Client (`client/`) | one connection per shard and proxy, consistent-hash ring | `EcSet`, `EcGet`, `recover`, `set`/`get`/`rec` per shard | proxy, one SET/GET stream per shard |
| Proxy handlers (`proxy/server/proxy.go`) | group of instances, ready flag | `HandleSet`, `HandleGet`, `HandleCallback`, `CollectData`, `dropEvicted` | Placer; channels of the instances |
| Placer (`proxy/server/placer.go`, `meta.go`, `metastore.go`, `group.go`) | metas with placement and flags, two object arrays, cursor, slice base | `GetOrInsert`, `Get`, `NextAvailableObject`, `AddObject`, `TouchObject` | instance size counters (`lambdastore/meta.go`) |
| Scheduler (`proxy/server/scheduler.go`) | pool of free deployments, active map | `GetForGroup`, `ReserveForInstance`, `Recycle`, `Clear` | `Instance.Switch` |
| Instance (`proxy/lambdastore/instance.go`) | awake state, connection, validation channel, request channel, cool timer | `Validate`, `HandleRequests`, `triggerLambda`, `flagValidated`, `bye`, `Migrate`, `Switch` | Connection, AWS invoke |
| Connection (`proxy/lambdastore/connection.go`) | the request that waits (`chanWait`), closing signal | `ServeLambda`, `SetResponse`, `SetErrorResponse`, `getHandler`, `setHandler`, pong/bye/initMigrate handlers | lambda; client responses |
| Lambda session (`lambda/handler.go`, `lambda/lifetime/`) | session, timeout, busy count, connection, pong limiter | `HandleRequest`, `Wait`, get/set/del/ping/data/migrate/mhello handlers, `Timeout.*` | proxy connection, migrator |
| Lambda storage (`lambda/storage/`, `lambda/migrator/storage_adapter.go`) | chunk map; adapter that merges local data with data still at the source | `Get`, `Set`, `Del`, `LocalDel`, `Migrate`, `Restore` | migration connection |
| Migrator (`migrator/`, `lambda/migrator/client.go`) | pair of forwarded connections, ready channel | `forward`, `Connect`, `TriggerDestination`, `WaitForMigration`, `SetReady` | both lambdas of a migration |
| Collector, logger, deployment scripts | logs | | not part of the protocol |

What is hard in it:

* **Concurrency.** Every shard of every client is a goroutine in the proxy; the
  chunks of one object race with each other and with the eviction of the
  object. Every instance has a request loop, a connection loop and goroutines
  that invoke the function. A lambda runs the invocation, the command server,
  the timeout goroutine and the migration side by side.
* **Failure and timing.** Lambdas stop by themselves (`bye`), are reclaimed by
  the provider, answer late, and are replaced while requests are under way.
* **Order.** Responses are matched to requests by their order on a connection.
* **Accounting.** Space is reserved by differences on unsigned counters.

## 2. Plan

1. **Placer** (done): meta store, slice allocator, placer with its clock,
   SET and GET handlers, and the SET traffic of clients; properties of the
   clock's list, of the accounting and of the placement; proofs of the
   structural invariants.
2. **Timeout** (done): the lambda's billed-duration timer: `Timeout`, `Session`, the
   waiting invocation, the commands and both sides of a migration; proofs of
   the channel discipline and of the finality of a timeout.
3. **Instance** (done): validation, invocation, sleep and wake-up of a lambda
   instance together with the pipeline of requests and responses of its
   connections; **RequestReply**, what it promises for a request; proofs of `Aligned`,
   `Tracked` and `NeverNil` and of the refinement.
4. **Migration** (done): migrator, storage adapter, the two lambdas and the
   switch of the instance's connection; **ChunkMap**, the map that the pair
   implements for reads and writes during a migration; proofs of `SourceQuiet`, of
   `EndMeansCopied` and of the refinement.
5. **Client** (done): erasure-coded writes, first-d-of-n reads, recovery, the
   proxy's counters and the failures of connections and lambdas.
6. Further proofs (done): the counters of the client's GETs, the type invariant of
   Timeout, and the list, the lambdas' chunks and the accounting of the placer for one
   client.
7. Left: composition of Client with Placer (an eviction between the chunks of a
   read), and of Instance with Timeout (who is asleep when).

Correctness of each part, in short: the placer's list names every live object
once and its counters equal what is placed; a lambda's session ends by itself and
not while it is used; a request to an instance gets exactly one answer, its own;
during a migration no old value and no deleted chunk comes back; a client reads
what was last written or fails.


## 3. Placer

`Placer.tla` models `proxy/server/{placer,meta,metastore,group}.go`, the size
counters of `proxy/lambdastore/meta.go`, `HandleSet`, `HandleGet` and
`dropEvicted` of `proxy/server/proxy.go`, and from `client/ecRedis.go` what
decides which SETs arrive: `EcSet`, `recover` and the shards that fail.

**Actors.** A handler is a pair of a client and a chunk, because a client has one
connection per shard and the proxy one goroutine per connection. A client runs
one operation at a time (`wg.Wait`). Handlers of one operation, and of
different clients, interleave.

**Atomicity.** A handler takes `meta.mu`, then the placer's `mu`. The code
between two lock operations is one action, except that every iteration of a
loop under the placer's lock is an action too: `meta.Deleted` is written under
the placer's lock and read in `HandleSet` without any. `NewMeta` and the meta
store's `GetOrInsert` are one action, since the new meta is invisible until it is
inserted and a duplicate goes back to the pool.

**State.** The fields of `Meta` and `PlacerMeta` are functions on keys; a nil
`placerMeta` is the same as a fresh one. The Go arrays
reserve element 0, so Go index `i` is TLA+ index `i` and `len` is `Len + 1`.
`sliceBase` is kept modulo the group's size, which is all that `nextSlice` uses.
The size counters are unsigned, modulo `Modulus`. `stored` is what the lambdas
hold: a request put on an instance's channel is applied at once, because the
channel and the connection behind it keep the order of requests. Left out:
`visitedAt`, `Reset`, `suggestMap` (written or declared, never read), logging. One
consequence of taking nil for a fresh `placerMeta`: when an evicted object is SET again,
`GetOrInsert` sets the field to nil and allocates a new one under `meta.mu` alone
(placer.go:119 and 131-133). A clock that reaches the object through a stale entry of the list in
between (lines 270, 292) dereferences nil and the proxy panics. The model goes on with a
fresh one there, so it shows the stale entry, which several clients are needed for, and
not the panic. For one client `ListExact` says that there is no stale entry.

**Code to actions.**

| code | actions |
|---|---|
| `client.EcSet`, `recover` | `EcSet`, `Recover` (both through `Start`) |
| `Placer.NewMeta`, `MetaStore.GetOrInsert` | `Insert` |
| `Placer.GetOrInsert` up to `p.mu.Lock` | `AlreadyConfirmed`, `LockMeta` |
| the rest of `GetOrInsert` | `EvictedMeanwhile`, `TakeSwapped`, `Place`, `Overweight`, `Relocate`, `Relocated` |
| `NextAvailableObject` | `ClockStart`, `ClockSkip`, `ClockPass`, `ClockEvict`, `ClockBound`, `ClockTail`, `ClockSwitch` |
| the rest of `HandleSet`, `postProcess`, `dropEvicted` | `NotSet`, `IsSet`, `DropEvicted`, `Send` |
| `Placer.Get`, `TouchObject` | `Get` |

### Runs

| run | instance | result |
|---|---|---|
| `placer_one` | 1 client, 4 keys, chunks of 2 sizes, 3 instances for 2 chunks, 4 operations, fair handlers | `TypeOK`, `ListExact`, `Accounting`, `NotCrowded`, `StoreExact`, `SetsFinish` hold |
| `placer_two` | 2 clients, 4 keys, 2 instances, 3 operations, or 2 more from a state with a stale list entry | `LockInv`, `ClockInBounds`, `PosExact`, `PlacementStable`, `EvictedNotPlaced` hold |
| `placer_duplicate` | 2 clients | `ListExact` violated |
| `placer_livelock` | 1 client whose shards may not all arrive, fair handlers | `SetsFinish` violated |

*Bounds.* Three objects are the fewest with which a search passes one object,
evicts another and inserts a third; an instance has room for two small chunks or a large
one, so that large objects evict from the second operation on and small ones from the fourth,
and the operations that are left switch the arrays, re-SET an evicted object, and recover. Two chunks per object are enough for one to be
placed before and one after an eviction; three instances in slices of two make their loads
uneven, so that this happens with one client too. In `placer_one` new keys are taken in a
fixed order (`InTurn`), which loses nothing, since keys are symmetric, and stands in for
the symmetry that a temporal property does not allow. `MaxOps` bounds the client operations;
nothing else is unbounded. Sizes 1 and 2 with room for two bytes per instance
make small objects give way to large ones and large ones to small ones, so that
the differences of a relocation have both signs. `StaleInit` (in `MCPlacer`) is a state that
the system reaches with four operations of two clients; starting there lets two
more be explored. Keys and clients are symmetric in the runs of two clients, where no
temporal property is checked. Deadlock is checked everywhere: an idle system can
still serve a GET.

*Fairness.* Each handler is weakly fair: a runnable goroutine is run, and Go's
mutexes hand the lock to a waiter that starves. Clients are not fair.

*What the violations say.* `placer_duplicate`: the clock copies the object that
asks for room to the secondary array when it passes it, and appends it once more
when it takes a victim's slot, so after the switch it is listed twice. Later one
entry is evicted and the other remains as a stale entry; evicting the object
again through it hands out space another object already occupies, and with
shards that fail even one client suffices. `placer_livelock`:
incomplete objects never lose their second chance, and the search has no other
way to end.

*Capacity.* `Overweight` compares with the capacity, but the exchange of a victim for the
object that needs room does not: each unconfirmed chunk of the object takes the place of
the victim's chunk whatever the two sizes are ("The size can be replaced safely, too.",
placer.go:185). With two sizes an instance is filled beyond its capacity, by the
difference and again with every exchange; TLC finds it at once if `placer_one` is asked that no
counter passes the capacity. What does stay limited is the number of chunks
(`NotCrowded`): a chunk is added only where there is room for it, and an exchange trades
a chunk for at most one, so an instance never has more chunks than would fit if all had the
smallest size in use. The counters themselves stay exact (`Accounting`), with differences of both
signs. A key also keeps the chunk size of its first SET for ever; no
document speaks of a SET with another size, so it is listed as a hazard only.

### Proofs

`PlacerProofs.tla` proves, for every number of clients, keys, chunks and
instances, every capacity, chunk sizes and width, and any number of operations:

* `TypeCorrect`: `TypeOK`
* `LocksCorrect`: `LockInv`
* `CursorInBounds`: `ClockInBounds`
* `PositionsExact`: `PosExact`
* `ConfirmedStay`: `PlacementStable`
* `EvictedStayOut`: `EvictedNotPlaced`

from the named assumptions of `Placer.tla`: at least one chunk, a slice at least
as large as an object and at most as large as the group, a capacity and an
overhead within the counter's width, positive chunk sizes, and a `Nil` different
from every key, instance, handler, placement and client operation.

The inductive invariant `IInv` is the conjunction of `TypeOK`, `LockInv`,
`ClockInBounds` and three parts the properties need:

* `HandlerInv`: a busy handler's client has an operation; loop indexes are in range
  and zero outside of the loops; a handler that relocates chunks has a victim and a
  swap map, one that drops chunks has a victim; a handler that holds its meta's lock
  has an unconfirmed chunk, and inside the placer its object is not evicted.
* `PosInv`: exact positions for **both** arrays: a live object that is on the primary
  array records its position there, and one the cursor has passed records its
  position on the secondary array, which is what makes `PosExact` survive the
  switch. `PosExact` alone says nothing of the secondary array, so it is not
  inductive.
* `StoreInv`: the keys of busy handlers and of confirmed chunks are in the meta
  store, and a key that is not has the values of a fresh meta.

Each part is a lemma with one step per action.

`ListExact`, `Accounting`, `NotCrowded` and `StoreExact` are not claimed for several
clients or for shards that fail, as the violations show. `PlacerAccounting.tla`, which
extends `PlacerProofs.tla`, proves them for every number of keys, chunks, instances and
operations under the conditions they hold under, each a formula over the constants:

* `OneWriter`: one client writes and all its shards reach the proxy. The chunks of an
  object are still placed by concurrent handlers, and a handler still drops its victim
  while others place, relocate and send.
* `WideCounters`, for the last theorem only: a counter does not wrap around before its
  instance has one chunk more than its capacity in bytes.

| theorem | condition | states |
|---|---|---|
| `ListIsExact` | `OneWriter` | `ListExact` |
| `StoreIsExact` | `OneWriter` | `StoreExact` |
| `CountersAreExact` | `OneWriter` | `Accounting` |
| `CrowdLimited` | `OneWriter`, `WideCounters` | `NotCrowded` |

The run `placer_one` satisfies both. `OneWriterInductive` and
`CountersInductive` prove the inductive invariant, `IInv` with these parts:

* `WholeInv`: while an object is being set, each of its chunks is confirmed or has a
  handler that will confirm it, and between operations a live object has all of its
  chunks or none. This is what fails when a shard does not arrive.
* `StageInv`: what a handler has behind it at each program counter: its chunk is
  confirmed after the placement, no swap map exists while it searches, and its victim is
  another object, evicted and complete; a meta without confirmed chunks is fresh.
* `ListInv`: every entry of both arrays is of a live object that records this position,
  the secondary array has copies only of entries the cursor has passed, and an object
  that still looks for room is the last entry. The last part is what several clients
  break: the object that asks is then passed, copied and listed once more.
* `StoredInv`: a lambda holds a chunk only where it is confirmed and placed, of a live
  object or of a victim whose handler has not dropped that chunk yet; a confirmed chunk
  that no lambda holds has a handler that will send it.
* `SizeInv`: the counter of an instance is the overhead plus the bytes of the chunks that
  count there, modulo its width, whatever sizes the objects have. `Accounting` says nothing during
  a relocation, which gives back the victim's chunks one at a time, so the chunks still to
  be given back (`Owed`) are counted as well. The bytes of a set of chunks are the
  cardinality of the set of their bytes (`Weight`), so that a sum over chunks of different sizes changes
  by what the theorems on finite sets say of adding and removing one (`WeightAdd`,
  `WeightRemove`), and `WeightSum` equates it with the fold of `Accounting`. `CounterAdds`
  carries it through the unsigned additions of negative differences.
* `CrowdInv`: the chunks that count at an instance, those still owed included, would
  fit if they all had the smallest size.

## 4. Timeout

`Timeout.tla` models `lambda/lifetime/timeout.go` and `session.go`, and from
`lambda/handler.go` the invocation (`HandleRequest`, `Wait`) and what each command
does to the session's lifetime.

**Actors.** `validator` is the goroutine `validateTimeout`, `main` the invocation,
one server for each connection, and `migration` the goroutine that
`HandleRequest` starts at the destination of a migration or MIGRATE at its source.

**Atomicity.** The lock is the package's mutex (`Session.Lock`). `due`, `hasReset`,
`disabled`, `active` and `lastExtension` are accessed with and without it, so each
access that another goroutine can observe, and each channel operation, is a step.
`resetLocked` is four: the attempt to send (`Offer`), the receive of an unread
extension (`Consume`), the second send (`Resend`), and setting the flag (`Flag`).

**Time** is relative to now: `phase` is `Since()` modulo `TICK`, `dueLeft` the time
until `due` (0 once passed), `timer` the time until the timer fires, -1 when it is
off. Nothing else of the clock is used by the code. `NewTimeout` computes the first
due time while `start` is the zero time: the duration saturates, `due` overflows and
lies in the past; the double check under the lock is reachable and needed.

| code | actions |
|---|---|
| `validateTimeout` | `Exit`, `Receive`, `Rearm`, `Acknowledge`, `Expire`, `Pass`, `Prolong`, `Send`, `Mark` |
| `Reset`, `ResetWithExtension`, `resetLocked` | `ResetDenied`, `ResetAccepted`, `Offer`, `Consume`, `Resend`, `Flag` |
| `Halt` (`Disable`, `Stop`) | `Disable`, and `Stopped` in the step that follows it |
| `HandleRequest`, `Wait` | `Start`, `Extend`, `WaitDone`, `TakeTimeout`, `Halted`, `Initiate`, `Bye`, `ClearSession` |
| get, set, del | `Request`, `Served`, `Unbusy` |
| ping, data, migrate, lost connection | `Ping`, `Data`/`DataSaved`, `Migrate`/`MigrateStarted`/`MigrateFailed`, `Disconnected` |
| goroutine of a migration | `Join`/`Joined` (destination), `Migrated`/`Interrupted` (source) |
| runtime | `Advance`, `Fire` |

*Scope.* One session. The proxy runs one migration of an instance at a time and
collects data while there is none. Commands that arrive when `HandleRequest` has
returned are left out: the handlers dereference a nil session there (a hazard). `Start` is
an invocation that gets as far as its connection to the proxy; the early returns of
`HandleRequest` before that (no proxy set, the migrator or the proxy cannot be reached)
end a session that no command has seen, and are left out.

| run | instance | result |
|---|---|---|
| `timeout_all` | one connection, all commands | `TypeOK`, `ChannelsReady`, `NoTurningBack`, `TimeoutTaken` hold |
| `timeout_block` | one connection, requests and pings | `ResetReturns` violated |
| `timeout_lost` | no command at all | `WaitEnds` violated |

*Bounds.* `TICK` = 2 and `TICK_ERROR` = 1 give a cycle with a point inside the error
margin and one outside; `EXTEND` = 2 crosses a cycle. One server, the invocation
and the migration are three callers of `Reset`. Time and the busy count are
bounded by themselves.

*Fairness.* Time passes, timers fire, and the validator, the invocation and the
migration are weakly fair, as runnable goroutines are. `TakeTimeout` is strongly
fair: Go hands a value to a receiver that is already parked on the channel, so
the validator cannot take it back for ever. A server finishes a command it has
begun; which commands arrive is not assumed.

*What the violations say.* `timeout_block`: a caller of `Reset` finds the channel
full, the validator reads it without the lock, and the caller waits for an
extension under the lock for ever. `timeout_lost`: the validator handles an
extension before `hasReset` is set for it; the stale flag makes it ignore the next
expiry and no timer is armed any more.

### Proofs

`TimeoutProofs.tla` proves for any number of connections, any cycle and margin,
and any subset of the commands that `ChannelsReady` (`ChannelsAlwaysReady`),
`NoTurningBack` (`TimeoutIsFinal`) and `TypeOK` (`TypeCorrect`) are invariants. The
inductive invariant of the first two has four parts:

* `LockInv`: the lock's holder is the goroutine whose label is inside a critical
  section;
* `MigrationInv`: a migration is started only while its goroutine is idle, so that
  no program counter is overwritten;
* `ChannelInv`: from the drain on, until the send, the channel of timeouts is empty.
  `ChannelsReady` speaks of the send only;
* `FinalInv`: a timeout in the channel, or taken from it, implies the flag `timeout`
  or a validator that still holds the lock and is about to set it. This is why the
  send must happen under the lock: between the send and the flag no `Reset` can
  get in. `NoTurningBack` alone says nothing of the moment before the timeout is taken.

`TypeCorrect` rests on a second inductive invariant, `TypeInv`: `ScalarInv` (clocks,
channels and flags; the validator re-arms only after it received an extension),
`PlaceInv` (the label of a goroutine fits the command it runs) and `CountInv` (the
counter of busy commands is the number of goroutines between `Busy` and `DoneBusy`).
The type of the counter alone is not inductive: that `DoneBusy` never takes it below
zero needs the set it counts. `GetTimeoutType` shows that `getTimeout` is never
negative, whatever margin and cycle.

`TimeoutTaken` is model-checked only.

## 5. Instance

`Instance.tla` models one instance and its connections: `proxy/lambdastore/instance.go`,
`connection.go` and `proxy/types/request.go`.

**Actors.** Two validators (the initial `WarmUp` of `server.New` and `HandleRequests`),
the goroutines `triggerLambda`, and `ServeLambda` for each connection. The function
is external: an invocation runs in an idle container or in a new one, which
connects and sends a pong; a container answers in the order it reads, says bye when
its session ends, may be reclaimed while it is idle, and dies with its connection
(one that connects again is another element of `Conns`).

**State.** `validating` is whether `chanValidated` is open; `signalled` whether
`Connection.closed` is closed; `chanReq` and `chanWait` are channels with one place.
`awake` and `cn` are read and written both with and without locks, which is why the
check for sleep, `tryTriggerLambda`, the reading of `ins.cn` for a warm-up and
`flagValidated` are separate steps. `status` is the client's view of a request.

| code | actions |
|---|---|
| `validate` | `Validate`, `Check`, `TryTriggerLambda`, `ReadConnection`/`WarmedUp`, `Ping`, `PingTimeout`, `Validated`, `Return` |
| `HandleRequests`, `handleRequest` | `Take`, `Cool`, `Push`, `Flush`, `FlushFailed` |
| `triggerLambda` | `Invoke`, `InvokeFailed`, `Retrigger`, `Deactivated` |
| `ServeLambda` | `Closed`, `PongHandler`, `ResponseHandler`, `ErrorHandler`, `ByeHandler`, `Disconnected`, `CloseSocket`, `ClearResponses` |
| function, network, provider (external) | `Answer`, `Bye`, `Reclaim` |
| `HandleSet`, `HandleGet` | `Arrive` |

*Left out:* control commands (DATA; MIGRATE is in Migration); `Instance.Close`, which only the end of the process calls; the counter
that lets the proxy skip the body of a superfluous chunk (in Client); a write deadline that
passes in the middle of a message; the exact time of the cool timer. `tryTriggerLambda` always
starts a goroutine; here it waits for one of `Triggers` to be free, so that their number bounds
the invocations that overlap: two in `instance_all`, one in `instance_live`, where a late return
that puts a running instance to sleep cannot happen.

| run | instance | result |
|---|---|---|
| `instance_all` | a SET and a GET, 2 containers, 2 triggering goroutines, 2 invocations, 1 ping that times out in vain | `TypeOK`, `NeverNil`, `Aligned`, `Tracked` hold |
| `instance_live` | a GET, 2 containers, 1 triggering goroutine, fair | `RequestAnswered` and `AtMostOnce` hold |

*Bounds.* Two requests are needed for one to be answered with the other's response,
two containers for one connection to replace another. `MaxQueue` limits when an
idle container is invoked again, `MaxInvocations` the successful invocations (failed
ones are unbounded), `MaxTimeouts` the pings that time out although the lambda
runs. `MAX_RETRY` is 2 instead of 3: one retry. Containers and triggering
goroutines are symmetric; the temporal run uses no symmetry.

**RequestReply.** `RequestReply.tla` is what an instance promises for a request: it is held,
sent to one lambda, answered by it once and delivered; it may be lost on the way, and the
client is told of an error instead, but what it is told first is final. `AtMostOnce` says
that Instance implements this: `Stage` reads how far a request has got from where it is
(a queue to a lambda, a queue back, `chanReq` or the handler). A request never goes back from
a lambda to `HandleRequests`, so a retry is not a second execution, and an error is made up
by the proxy only for a request whose answer can no longer come. It does not say that a
request answered with an error was not executed, nor that it will not be: while a write
fails, `clearResponses` may answer the request that `HandleRequests` then sends again. Two
invocations do not reach the case that this retry succeeds; the theorem below covers it, and
so does TLC with three invocations, which takes longer than a run should. The write that
breaks off in the middle of a SET, left out above, is outside the claim.

*Fairness.* Goroutines are scheduled. `Take` is strongly fair: the `select` of
`HandleRequests` chooses at random between a request and the timer. A container that
runs answers what it reads and ends its session; one that stays idle is reclaimed.
`RequestAnswered` assumes in addition that no goroutine is left wanting to invoke
the function, which excludes behaviours that fail for ever or exhaust the bound.

*What the runs say.* The order of `chanWait` and the write keeps responses
aligned, although the proxy does not use the ids they carry to match them, and every path out of a connection
answers what it holds. One thing the model shows is listed as a hazard: `Retriable` is
asked once, before the first attempt, so that a SET whose stream broke off is sent
again with the rest of its stream.

### Proofs

`InstanceProofs.tla` proves, for any number of connections, requests, triggering
goroutines, invocations and timeouts and any `MAX_RETRY`:

- `TypeCorrect`: `Spec => []TypeOK`;
- `ConnectionsNeverNil`: `Spec => []NeverNil`;
- `ResponsesAligned`: `Spec => []Aligned`;
- `RequestsTracked`: `Spec => []Tracked`;
- `OnePlace`: `Spec => []OnceInv`, a request is in one place;
- `RequestsAtMostOnce`: `Spec => AtMostOnce`, the refinement of RequestReply.

None of them is inductive as it stands. `IInv` adds to the types and to `Tracked`:

- `NilInv`: an instance that is not asleep has a connection, and a validation that is
  under way has been told of one or still waits (`validating`); `awake` and `cn` are set in
  different steps, so both are needed to keep a validator from using nil;
- `HandlerInv`: `HandleRequests` has a request whenever it is not idle or warming up, and
  a connection when it pushes or flushes;
- `LifeInv`: a connection opens once; when its loop has ended, nothing is on it;
- `OrderInv`: on every connection at most one request is on its way to the lambda or
  answered, it is the one in `chanWait`, and there is none before it is written. This is
  why the ids in a response need not be compared: `Aligned` is the part of it that one sees at the proxy;
- `PushedInv`: what is about to be written is in `chanWait`, or `ServeLambda` has ended
  and answered it (`clearResponses`);
- `ArrivedInv`: no request arrives twice.

The refinement needs in addition `OnceInv`: no two connections have a request in `chanWait`,
the channel and `HandleRequests` have different ones, and what `HandleRequests` has is in a
`chanWait` only while it is being written there. With `OrderInv` it follows that a request
is on its way to at most one lambda, on its way back only when it is not on its way there,
and in neither place when `HandleRequests` may take it up again. `OnWay` and `Back` say
where requests are after a write, an answer or the loss of a connection; every action is
then a step of RequestReply for the one request it moves, or none, because an answer that
comes for a request already told of an error only drops it.

One lemma per action; `AppendOther`, `ReadOther` and their kin say what a message does to
the order on a connection, whatever else is on it.

## 6. Migration and ChunkMap

`Migration.tla` models how the chunks of an instance move from one container to
another while it is used: `lambda/migrator/` (client, storage adapter, intercept
reader), `lambda/storage/storage.go`, `migrator/` (the pair of forwarded
connections), the migrate and mhello handlers and the part of `HandleRequest` that
starts a destination in `lambda/handler.go`, and `Instance.Migrate`.

**Actors.** The proxy, which sends one command at a time on a connection (Instance
has that side in detail); the two lambdas, each with its command server; at the
source also the server of the migration's connection (`WaitForMigration`); at the
destination the adapter's goroutine and the goroutine of `Client.Migrate`. A lambda
is a container: migration is within a deployment (`IN_DEPLOYMENT_MIGRATION`), so that
the destination is any idle container of the function, with what it has in memory, and so
is the container in which the proxy's next invocation runs when the current one has
said bye, lost its connection or died (`Invoke`): the same one, a fresh one, or one that
served the instance before.

**State.** `repo` is `Storage.repo`; a deleted chunk stays in it without its body.
`toSource` and `toDest` are what is on the way through the migrator. `serializer`
and `handling` are the adapter's channel and the command its goroutine handles. A
`storageAdapterCommand` comes from a `sync.Pool` and is back there while `getHandler` still
has to read its key; `taken` is the key that the next user of the pool has written over
it (`TakeCmd`), if the pool gave it that one;
`mpc` and `todo` are where `Client.Migrate` is. The values of keys are model values;
a GET's stream is its value, or an error when it breaks (`Intercepted`).

| code | actions |
|---|---|
| get, set and del handlers | `Serve` on a plain store, `Serialize` on the adapter |
| `initMigrate`, `Instance.Migrate`, migrate handler | `Migrate` |
| `HandleRequest` of the destination | `Hello`, `HelloFailed`, `Join` |
| end of a connection to the proxy, `SetReady` | `Disconnect`, `EndConnection` |
| `Wait` without a migration (bye) | `Sleep` |
| `triggerLambda`, `HandleRequest` of the container that is invoked, `flagValidated` | `Invoke` |
| `WaitForMigration`, mhello | `MHello`, `ServeForwarded`, `EndServing` |
| adapter | `AnswerHere`, `Forward`, `SendFails`, `ReplyError`, `ReplyDone`, `ReplyValue`, `ReplyPanic`, `ReplyClosed`, `StoreCopy`, `AdapterEnds` |
| `Client.Migrate`, `LocalDel`, `Close`, `Restore` | `ReadList`, `ReadFails`, `LocalDel`, `MigrateKey`, `EndMigration`, `Close`, `Restore` |
| forwarded connections | `LinkFails`, and `Closing` in the steps that close a side |
| provider (external) | `Die` |

**The promise.** `ChunkMap.tla` says what the proxy may rely on, whichever container
answers: a command may fail and a GET may miss at any time (it is a cache), but a
GET that finds a chunk finds a value the key had while the GET was under way, that
is, the last acknowledged one or one of a SET that has not been acknowledged. A value
that an acknowledged SET or DEL has replaced never comes back. `Implements` says that
Migration implements it (`INSTANCE ChunkMap WITH Ports <- Lambdas`; `valid` and `may` are
history variables). The promise ends for good in five situations the code does not
guard against:

| | what happens | fails without the exception at |
|---|---|---|
| `Reused` | a container that served the instance before is the destination again, or is invoked again after its successor slept, lost its connection or died, and answers from the chunks it has kept | the run's bounds (each of the two) |
| `Mislaid` | a GET was answered through the adapter; before its copy is stored, the next command takes its `storageAdapterCommand` from the pool and gives it another key; the copy is stored under that key | the run's bounds |
| `Late` | a destination reaches the proxy when its source has gone on, or is gone, and brings an old copy | 2 failures, 4 requests |
| `Torn` | before Migrate has read the list it and the adapter read one connection; a GET gets another key's chunk | 2 keys, 4 requests |
| `Overrun` | `Restore` returns the plain store while the adapter's goroutine is about to store a chunk | 1 key, 6 requests, no failure |

Each of the five is needed: TLC finds a counterexample to `Implements` when it is removed,
at the bounds in the last column. That nothing else is needed at any bounds is the theorem
`Refinement` below.

| run | instance | result |
|---|---|---|
| `migration` | 2 containers, 2 keys, 2 values, 2 migrations, 3 commands, 1 failure or sleep, fair; 1.3 million states | `TypeOK`, `SourceQuiet`, `EndMeansCopied`, `Implements`, `MigrationEnds` hold |

`SourceQuiet`: once the list of keys is made no command of the proxy runs at the
source. `EndMeansCopied`: "End migration" on an open connection means that the
destination has what the source has; keys the list reports as deleted are left out,
because `LocalDel` marks them past the serializer and may hit a chunk that was just
set again. It is claimed while the promise holds: a mislaid copy under a key of the list makes
`migrateHandler` skip that key. `MigrationEnds`: the source does not serve a migration for ever, unless the
destination died before it reached the proxy (`Stranded`): mhello then waits for a
switch of the connection that does not come.

*Bounds.* Three commands are a SET before the migration, a SET or DEL during it and
a GET after it; two keys are needed for one to be copied while the other is used. One
failure is a lost connection, a failed link, a dead container or a sleep, at any moment;
`Invoke` is not bounded. In the second migration the roles are exchanged.

*Fairness.* Goroutines run and connections deliver. Nothing is assumed of clients, of
failures or of when a migration starts.

*Left out.* Failing to reach the migrator or to invoke the destination (Timeout has
the effect on the session); several commands on one connection; the age of a lambda.
A lambda says bye when no command runs at it (`Sleep`). An invocation and the connection it
opens are one step. The read of `cmd.key` that races with its overwriting gives the old or
the new key; a torn Go string would be a key nobody asks for, and is left out, as is the
chunk id, which follows the key. `SendFails` has the failures of a link that is closed: when the body of
a SET breaks off on its way from the proxy, `CopyBulk` in `Client.Send` also fails on an
open link and leaves half a command there, which the source reads on from the next one's
bytes. What is said here is for SETs whose body arrives, or whose connections are closed
with it.

### Proofs

For any sets of lambdas, keys and values and any number of migrations, requests and
failures, from `MigrationAssumption` (the constants' types) and `NilAssumption` (nil is
no command, request or item; a chunk is none of "ok", "error" and "closed"):

| module | theorem | |
|---|---|---|
| `MigrationProofs` | `TypeCorrect` | `Spec => []TypeOK` |
| | `SourceIsQuiet` | `Spec => []SourceQuiet` |
| `MigrationRefinement` | `PromiseInductive` | `Spec => [](promise => PInv)` |
| | `Refinement` | `Spec => Implements`, that is `Spec => Map!Spec` |
| | `EndCopied` | `Spec => EndMeansCopied` |

`IInv` of `MigrationProofs` holds whether or not the promise does. Besides types it has
the connections (`ConnInv`: only the current lambda's is open, and one that is closing
belongs to a lambda that runs), the roles and stages of a migration (`RoleInv`, `StageInv`),
`ReadyInv` (while the source serves, its `ready` channel is closed exactly when its
connection to the proxy is done with, and until then nothing but the hello is ahead in
what it has to read), `ItemInv` (each side has at most one command in the adapter's
hands, the one it waits for) and `CountInv` (an open link carries as many messages as
are waited for). `SourceQuiet` follows from `ReadyInv` and `ConnInv`.

`PInv` of `MigrationRefinement` holds as long as the promise does:

- `PlaceInv`: as long as the proxy uses a source that serves, the destination has no
  connection, and what it has sent to the source changes nothing there; a command that is waited for at the destination
  means that its connection is open;
- `PipeInv`: the link is a pipe with the list first, so that a reply is the reply to what
  the adapter's goroutine handles;
- `QuietInv`: before `ready` the destination has no chunk and no reply;
- `ReplyInv`: a reply on its way says what the source's store has now, although the
  proxy may have switched meanwhile: the source does nothing else;
- `ValidInv`, `GetInv`: what can be read from a lambda that is or may become readable
  (`Reachable`), what a command will put there (`Holds`) and what is on its way to the
  destination (`Moving`) is among the key's valid values, and among those the GET under
  way may find;
- `SetInv`: when a lambda acknowledges a SET or DEL although the proxy has switched, what
  the other lambda holds came after it;
- `CopyInv`: a chunk at the destination, or in the hands of the goroutine that will store
  it, is the source's, unless the source has just
  changed it and the reply is on its way; and Migrate's list misses no chunk. It gives
  `EndMeansCopied`, and the step in which the interceptor stores a copy.

`ValidInv` is the heart of it: `GetInv` alone is what the refinement needs, but is not
inductive, since a later GET may read what no GET reads now. There is one lemma per action
for `PInv` (`...Keeps`), and one per kind of step for the refinement (`...Maps`): an
answer is an `Acknowledge`, `Find` or `Fail` of ChunkMap, or nothing when the proxy has
given up on the command; a step that ends the promise is the last disjunct of
`ChunkMap!Next`; all others leave the abstract state alone. `MigrationEnds` is a
liveness property and stays with TLC.

## 7. Client

`Client.tla` models `client/ecRedis.go`, `client.go` and what the protocol needs of
`ec.go`, together with `HandleGet` and `HandleCallback` of the proxy and the counters in
`ReqMap` by which `connection.getHandler` passes on the first `DataShards` chunks.

**Actors.** Clients, each with a goroutine and a connection per shard and one operation
at a time; the proxy and a lambda for each shard.

**State.** One object. `chunk` says of which version each shard's chunk is, or that it is
lost. A version is a new value for each `EcSet`; what is decoded from chunks of several
versions is `Mixed`. A request is a record in `calls` until it is answered; `live` is
FALSE when its connection has been given up. `stream` holds the responses that have not
been read. `conns` is "dead" for a connection that failed by something else than EOF or
a timeout: `setError` does not set it to nil and `validate` never replaces it.

| code | actions |
|---|---|
| `EcSet`, `EcGet` | `EcSet`, `EcGet`, `EndSet`, `EndGet` (with `Decode` and `Recover`) |
| `set`, `get`, `rec` | `Send`, `SendFails`, `Receive`, `Timeout`, `Eof`, `Reset` |
| `HandleGet`, `getHandler`, `setHandler`, `HandleCallback` | `Handle`, `FetchChunk`, `StoreChunk`, `NotFound` |
| failures between proxy and lambda, of a copy, of a lambda | `CallFails`, `BodyFails`, `Reclaim` |

| run | instance | result |
|---|---|---|
| `client` | 2 clients, 3 shards of which 2 are needed, 3 operations, 1 failure | `TypeOK`, `OwnResponse`, `CounterFound`, `AtMostEnough`, `SettledStore`, `SettledReads` hold |
| `client_mixed` | 1 client | `NeverMixed` violated |

`OwnResponse`: a client never reads the answer to an earlier request. `CounterFound`,
`AtMostEnough`: no order of the lambdas' answers loses the counter or passes on too
many chunks. `SettledStore`, `SettledReads`: after an `EcSet` that overlapped no other
operation, reads return its value and recoveries write its chunks, until the next `EcSet`.
Both need "overlapped no other operation": a recovery that runs together with an `EcSet`
can put an old chunk over a new one.

*What the violation says.* `client_mixed`: two `EcSet`s that fail on a shard each leave
chunks of two versions. The proxy passes on exactly as many chunks as the decoder
needs, so that whatever they are, the verification after the reconstruction succeeds,
and `EcGet` returns a mixture without an error.

*Bounds.* Three operations are two writes and a read, or a write, a read with its
recovery and another read. One failure of any kind per behaviour; a shard that is not
answered in time counts as one. Clients and shards are symmetric. A client may stop
after any operation, so deadlock is not checked; no liveness is claimed.

*Left out.* The hash ring that chooses a proxy, eviction (Placer), and how a request
reaches a lambda (Instance).

### Proofs

`ClientProofs.tla` proves, for any finite set of shards, any number of them that is
needed, and any number of clients, operations and failures:

- `ResponsesMatch`: `Spec => []OwnResponse`;
- `StoreStaysSettled`: `Spec => []SettledStore`;
- `ReadsStaySettled`: `Spec => []SettledReads`.

The assumptions are `ClientAssumption` (the constants' types, a value for each
operation) and `OutcomeAssumption` (an outcome such as "error" is not a chunk), which
TLC evaluates on the runs. The three follow from one inductive invariant, `IInv`:

- `Types`, the types without the bounds of the counters, and `ValuesInv`, by which
  an `EcSet` always finds a value that was not written yet;
- `RequestInv`: a goroutine has at most one request that will be answered, with the
  operation's id and payload, and it is gone from `calls` once its response is in the
  stream (`Tracked`); an idle client has neither (`AtRest`). This is what the closing of a
  connection after a timeout is for: the requests it leaves behind are not live;
- `SettledInv`: while an `EcSet` is alone, no request, those that were given up included,
  writes anything else, and a shard that answered "stored" holds its chunk or none
  (`Alone`); after it, every chunk stored, under way, read or decoded is of its value
  (`Settled`). `SettledStore` alone is not inductive: a response that was read, and the
  value a recovery is about to write, must be known to be of the settled value too.

One lemma per action shows that `IInv` is preserved; `BeginTracked`, `CutTracked`,
`AnswerTracked` and `DropTracked` hold what the actions share.

`ClientCounting.tla` builds on that and proves the counting of chunks for the same
constants:

- `CountersAreFound`: `Spec => []CounterFound`;
- `NeverTooMany`: `Spec => []AtMostEnough`;
- `TypeCorrect`: `Spec => []TypeOK`.

Neither property is inductive. `AtMostEnough` looks at one client, the counter it
depends on is shared by all goroutines of a request and is made and deleted by
`HandleGet` and the handlers of the connections. The inductive invariant `CInv`
(`CountInductive`) says what the counter stands for:

- `NumberInv`: request ids are numbered, no two operations share one, and an `EcGet`
  that has not ended still has the id of its recovery ahead of it;
- `OnceInv`: a request is sent at most once to a shard;
- `CounterInv`: the counter and the shards that can still be asked, or have not answered
  (`Pending`), are together no more than the shards. It follows that a counter which
  reached the number of shards, and was deleted, is not needed any more (`CounterFound`);
- `PassedInv`: the chunks passed on to a client are at most its counter and at most
  `DataShards`, and a deleted counter is not made again for a request that got a chunk;
- `ValueInv`: what is written and read are chunks, so that `decode` never returns nil.

## 8. What is proved, checked, and neither

Proved for all values of the constants: the theorems of sections 3 to 7, that is every
invariant and every action property the runs check, and the refinements of ChunkMap and RequestReply. Four
invariants of the placer are proved under conditions on the constants (section 3). Checked on the
instances above only: the liveness properties (`SetsFinish`, `TimeoutTaken`,
`RequestAnswered`, `MigrationEnds`), because the proof system does not handle fairness
and `ENABLED`. It does not handle modules with RECURSIVE operators either, and the modules
here have none; where a sum over a set is needed, the
cardinality of a set of bytes (`Weight`) takes the place of an induction over data.

Every property of a passing run has a mutant in `PROJECT.json`: a faulty variant of
one definition, kept next to it in the module, under which the run fails.

Not modelled: the pool of the scheduler (with `IN_DEPLOYMENT_MIGRATION` it is used by one
goroutine while the proxy starts and ends), `CollectData` and the DATA command on the
proxy's side, the hash ring of the client, and the erasure code's arithmetic, collectors,
loggers and deployment tools, which have no protocol.

To repeat: `tlc -workers 2 -config <cfg> <module>` for the runs listed in
`PROJECT.json`; `tlapm <module>` for `PlacerProofs.tla`,
`PlacerAccounting.tla` (which extends the former), `TimeoutProofs.tla`,
`InstanceProofs.tla`, `MigrationProofs.tla`, `MigrationRefinement.tla` (which extends
the former), `ClientProofs.tla` and `ClientCounting.tla` (which extends the former).
