----------------------------- MODULE Migration -----------------------------
(***************************************************************************)
(* Moving the chunks of an instance from one lambda to another while       *)
(* clients go on using it (lambda/handler.go, lambda/migrator, lambda/     *)
(* storage, migrator): the source serves a connection through the proxy's  *)
(* migrator, the destination replaces its store by a StorageAdapter that   *)
(* forwards what it does not have, and a goroutine of the destination      *)
(* copies the keys.                                                        *)
(*                                                                         *)
(* A lambda stands for a container of the instance's function: migration   *)
(* is within a deployment (IN_DEPLOYMENT_MIGRATION), so that the           *)
(* destination is any idle container.  Instance has the proxy's side of a  *)
(* connection in detail; here a connection carries one command at a time.  *)
(***************************************************************************)
EXTENDS Naturals, Sequences

CONSTANTS
    Lambdas, Keys, Values,
    First,          \* the lambda behind the instance at the start
    None,
    Absent,         \* no chunk in repo
    Deleted,        \* a chunk whose Body is nil
    MaxMigrations, MaxRequests, MaxFailures   \* bounds

ASSUME MigrationAssumption ==
    /\ First \in Lambdas
    /\ None \notin Lambdas \cup Keys \cup Values
    /\ Absent \notin Values \cup {Deleted}
    /\ Deleted \notin Values

VARIABLES
    \* proxy
    current,    \* the lambda of ins.cn
    conn,       \* each lambda's connection to the proxy
    request,    \* the command a lambda handles for the proxy, None if it is idle
    \* lambdas
    repo,       \* Storage.repo
    running,    \* the lambdas whose invocation has not returned
    joining,    \* the destinations that have not dialled the proxy yet
    \* migration
    source, dest,
    serving,    \* the source is in WaitForMigration
    ready,      \* the source's ready channel is closed
    link,       \* the pair of connections through the migrator
    toSource, toDest,
    \* destination
    adapter,    \* "on" from GetStoreAdapter to Restore; "restored" until its goroutine ends
    serializer, \* commands in the channel or blocked on it
    handling,   \* the command of the adapter's goroutine
    taken,      \* the key written over that of handling, None if there is none
    mpc, todo,  \* the goroutine of Migrate and the keys it has left
    list,       \* the list it has read
    \* history
    valid, may, answer,   \* as in ChunkMap
    promise,
    migrations, requests, failures

proxyVars == <<current, conn, request>>
lambdaVars == <<repo, running, joining>>
sourceVars == <<source, dest, serving, ready>>
linkVars == <<link, toSource, toDest>>
adapterVars == <<adapter, serializer, handling, taken>>
copyVars == <<mpc, todo, list>>
historyVars == <<valid, may, answer>>
counters == <<migrations, requests, failures>>
vars == <<proxyVars, lambdaVars, sourceVars, linkVars, adapterVars, copyVars,
          historyVars, promise, counters>>

\* The commands the proxy waits for.
Pending == [l \in Lambdas |-> IF request[l] = None \/ ~request[l].live THEN None ELSE request[l].cmd]

Map == INSTANCE ChunkMap WITH Ports <- Lambdas, pending <- Pending

Command == Map!Command
HelloCommand == [op |-> "mhello", key |-> None, val |-> None]

\* A command that a lambda handles for the proxy; live: the proxy still waits for it.
Request == [cmd : Command, stage : {"received", "queued"}, live : BOOLEAN]

\* A command of the serializer, the proxy's or that of Migrate, and one in the goroutine's hands.
Item == [by : {"proxy", "migrate"}, cmd : Command]
Handling == [item : Item, stage : {"sent", "store"}, val : Values \cup {None}]

\* nil is no command; the value of a chunk is neither an acknowledgement nor an error.
ASSUME NilAssumption ==
    /\ None \notin Command \cup Request \cup Handling
    /\ Values \cap {"ok", "error", "closed"} = {}

NoKeys == [del |-> {}, get |-> {}]

Init ==
    /\ current = First
    /\ conn = [l \in Lambdas |-> IF l = First THEN "open" ELSE "none"]
    /\ request = [l \in Lambdas |-> None]
    /\ repo = [l \in Lambdas |-> [k \in Keys |-> Absent]]
    /\ running = {First}
    /\ joining = {}
    /\ source = None /\ dest = None
    /\ serving = FALSE /\ ready = FALSE
    /\ link = "none" /\ toSource = <<>> /\ toDest = <<>>
    /\ adapter = "off" /\ serializer = <<>> /\ handling = None /\ taken = None
    /\ mpc = "none" /\ todo = NoKeys /\ list = NoKeys
    /\ valid = [k \in Keys |-> {}] /\ may = [l \in Lambdas |-> {}] /\ answer = None
    /\ promise = TRUE
    /\ migrations = 0 /\ requests = 0 /\ failures = 0

(***************************************************************************)
(* What ends the promise of ChunkMap: five things the code does not guard  *)
(* against, and which really break it.                                     *)
(***************************************************************************)

\* Storage.Get finds a chunk with a body.
Found(l, k) == repo[l][k] \in Values

\* The lambda has served the instance before and has kept its store.
Reused(d) == d # current /\ \E k \in Keys : Found(d, k)

\* A destination reaches the proxy when its source has gone on without it, or is gone.
Late(d) == d # dest \/ current # source \/ ~serving

\* Before it has read the list, Migrate reads the connection side by side with the adapter:
\* one of them gets what is meant for the other.
Torn(reader) == (Head(toDest).kind = "list") # (reader = "migrate")

\* The plain store is back while the adapter's goroutine still handles a command.
Overrun == handling # None

\* The copy of a GET is kept under the key of a command that has taken its storageAdapterCommand.
Mislaid == taken \notin {None, handling.item.cmd.key}

(***************************************************************************)
(* Storage.  DEL leaves the chunk in the map, without its body.            *)
(***************************************************************************)
Del(l, k) == [repo EXCEPT ![l][k] = IF @ = Absent THEN Absent ELSE Deleted]

Put(l, k, v) == [repo EXCEPT ![l][k] = v]

\* What a command does to a lambda's own store.
Applied(l, c) == CASE c.op = "set" -> Put(l, c.key, c.val)
                   [] c.op = "del" -> Del(l, c.key)
                   [] OTHER -> repo

\* What the store answers: the value for a GET, "ok", or "error" for not found.
Result(l, c) == CASE c.op = "set" -> "ok"
                  [] c.op = "del" -> IF repo[l][c.key] = Absent THEN "error" ELSE "ok"
                  [] OTHER -> IF Found(l, c.key) THEN repo[l][c.key] ELSE "error"

(***************************************************************************)
(* Commands of clients.                                                    *)
(***************************************************************************)

\* The lambda runs and has a connection to the proxy.
Connected(l) == l \in running /\ conn[l] = "open"

\* The proxy sends a command to the lambda it is connected to.
Issue(l, c) ==
    /\ l = current /\ Connected(l) /\ request[l] = None
    /\ requests < MaxRequests
    /\ request' = [request EXCEPT ![l] = [cmd |-> c, stage |-> "received", live |-> TRUE]]
    /\ Map!Issue(l, c)
    /\ requests' = requests + 1
    /\ UNCHANGED <<current, conn, lambdaVars, sourceVars, linkVars, adapterVars, copyVars,
                   promise, migrations, failures>>

\* The client learns the outcome, unless it was given up on.
Learn(l, res) ==
    LET c == request[l].cmd IN
    IF ~request[l].live THEN UNCHANGED historyVars
    ELSE /\ answer' = IF res \in Values THEN [val |-> res, may |-> may[l]] ELSE None
         /\ may' = [may EXCEPT ![l] = {}]
         /\ valid' = IF res = "ok" THEN [valid EXCEPT ![c.key] = ({c.val} \ {None}) \cup may[l]]
                     ELSE valid

\* The handlers of get, set and del answer.
Answer(l, res) ==
    /\ request' = [request EXCEPT ![l] = None]
    /\ Learn(l, res)

\* The command is for the adapter.
Adapted(l) == l = dest /\ adapter = "on"

\* The handlers on a plain store.
Serve(l) ==
    /\ request[l] # None /\ request[l].stage = "received"
    /\ ~Adapted(l)
    /\ repo' = Applied(l, request[l].cmd)
    /\ Answer(l, Result(l, request[l].cmd))
    /\ UNCHANGED <<current, conn, running, joining, sourceVars, linkVars, adapterVars, copyVars,
                   promise, counters>>

\* The lambda is the source of a migration that is under way.
Migrating(l) == l = source /\ serving

\* A connection that one side closes: a lambda that sleeps has lost it when it wakes.
Dropped(l) == IF conn[l] = "open" THEN IF l \in running THEN "closing" ELSE "none" ELSE conn[l]

\* The connection fails.  The proxy answers the command under way with an error; the
\* lambda goes on with it.
Disconnect(l) ==
    /\ conn[l] = "open"
    /\ failures < MaxFailures
    /\ failures' = failures + 1
    /\ request' = IF request[l] = None THEN request ELSE [request EXCEPT ![l].live = FALSE]
    /\ conn' = [conn EXCEPT ![l] = Dropped(l)]
    /\ answer' = IF Pending[l] = None THEN answer ELSE None
    /\ may' = [may EXCEPT ![l] = {}]
    /\ UNCHANGED <<current, valid, lambdaVars, sourceVars, linkVars, adapterVars, copyVars,
                   promise, migrations, requests>>

\* Faulty variant: the command under way is not waited for.
ServedAbruptly(l) == conn[l] = "closing"

\* ServeForeignClient returns: the connection is closed and its last command is done.
Served(l) == conn[l] = "closing" /\ request[l] = None

\* Faulty variant: SetReady is forgotten.
EndConnectionSilently(l) ==
    /\ Served(l)
    /\ conn' = [conn EXCEPT ![l] = "none"]
    /\ running' = IF Migrating(l) \/ Adapted(l) THEN running ELSE running \ {l}
    /\ UNCHANGED <<current, request, repo, joining, sourceVars, linkVars, adapterVars,
                   copyVars, historyVars, promise, counters>>

\* The goroutine that served the connection: SetReady, or Done without a migration.
EndConnection(l) ==
    /\ Served(l)
    /\ conn' = [conn EXCEPT ![l] = "none"]
    /\ ready' = (ready \/ Migrating(l))
    /\ running' = IF Migrating(l) \/ Adapted(l) THEN running ELSE running \ {l}
    /\ UNCHANGED <<current, request, repo, joining, source, dest, serving, linkVars, adapterVars,
                   copyVars, historyVars, promise, counters>>

\* Time is not up: "bye", and the invocation returns.  The connection stays.
Sleep(l) ==
    /\ Connected(l) /\ request[l] = None
    /\ ~Migrating(l) /\ ~Adapted(l)
    /\ failures < MaxFailures
    /\ failures' = failures + 1
    /\ running' = running \ {l}
    /\ UNCHANGED <<proxyVars, repo, joining, sourceVars, linkVars, adapterVars, copyVars, historyVars,
                   promise, migrations, requests>>

\* A container of the deployment that is idle: a fresh one, or one that served the instance before.
Idle(d) == d \notin running

\* The proxy needs the instance and invokes its function: any idle container connects.
Invoke(d) ==
    /\ ~Connected(current)
    /\ Idle(d)
    /\ current' = d
    /\ conn' = [conn EXCEPT ![current] = Dropped(current), ![d] = "open"]
    /\ running' = running \cup {d}
    /\ promise' = (promise /\ ~Reused(d))
    /\ UNCHANGED <<request, repo, joining, sourceVars, linkVars, adapterVars, copyVars, historyVars,
                   counters>>

(***************************************************************************)
(* The migration starts.                                                   *)
(***************************************************************************)

\* Time is up and the store is not empty: initMigrate is sent to the proxy.
TimeIsUp(s) ==
    /\ Connected(s) /\ request[s] = None
    /\ \E k \in Keys : repo[s][k] # Absent

\* The migrator listens and has accepted the source.
Listening ==
    /\ link' = "half"
    /\ toSource' = <<>> /\ toDest' = <<>>

\* The source's migrate handler: it connects, invokes the destination and serves.
StartServing(s, d) ==
    /\ source' = s /\ dest' = d
    /\ serving' = TRUE /\ ready' = FALSE
    /\ running' = running \cup {d}
    /\ mpc' = "invoked"

\* Instance.Migrate.
Migrate(s, d) ==
    /\ s = current /\ TimeIsUp(s)
    /\ ~serving /\ adapter = "off" /\ mpc = "none"
    /\ Idle(d)
    /\ migrations < MaxMigrations
    /\ migrations' = migrations + 1
    /\ Listening
    /\ StartServing(s, d)
    /\ promise' = (promise /\ ~Reused(d))
    /\ UNCHANGED <<proxyVars, repo, joining, adapterVars, todo, list, historyVars, requests, failures>>

\* The migrator has accepted the destination and forwards between the two.
Bridged ==
    /\ link = "half"
    /\ link' = "open"

\* HandleRequest of the destination: Connect, Send("mhello"), the adapter, the goroutine.
Hello ==
    /\ mpc = "invoked"
    /\ Bridged
    /\ toSource' = <<HelloCommand>>
    /\ adapter' = "on" /\ serializer' = <<>> /\ handling' = None /\ taken' = None
    /\ mpc' = "hello"
    /\ joining' = joining \cup {dest}
    /\ UNCHANGED <<proxyVars, repo, running, sourceVars, toDest, todo, list, historyVars, promise, counters>>

\* "Failed to connect migrator": the invocation returns.
HelloFailed ==
    /\ mpc = "invoked" /\ link = "closed"
    /\ mpc' = "none"
    /\ running' = running \ {dest}
    /\ UNCHANGED <<proxyVars, repo, joining, sourceVars, linkVars, adapterVars, todo, list, historyVars,
                   promise, counters>>

\* The destination dials the proxy, its pong makes the proxy switch to it (flagValidated)
\* and close the connection it had, once the command under way is answered.
Join(d) ==
    /\ d \in joining
    /\ joining' = joining \ {d}
    /\ current' = d
    /\ conn' = [conn EXCEPT ![d] = "open",
                            ![current] = Dropped(current)]
    /\ promise' = (promise /\ ~Late(d))
    /\ UNCHANGED <<request, repo, running, sourceVars, linkVars, adapterVars, copyVars, historyVars,
                   counters>>

(***************************************************************************)
(* The source serves the migration's connection, one command at a time.    *)
(***************************************************************************)
NextCommand ==
    /\ serving /\ toSource # <<>>
    /\ toSource' = Tail(toSource)

Reply(r) == toDest' = IF link = "open" THEN Append(toDest, r) ELSE toDest

\* The list of keys, the deleted ones first; their order in access time is any order.
KeyList(l) == [del |-> {k \in Keys : repo[l][k] = Deleted},
               get |-> {k \in Keys : Found(l, k)}]

\* "Wait for ready, which means connection to proxy is closed and we are safe to proceed."
SafeToProceed == ready

\* The mhello handler.
MHello ==
    /\ NextCommand /\ Head(toSource) = HelloCommand
    /\ SafeToProceed
    /\ Reply([kind |-> "list", list |-> KeyList(source)])
    /\ UNCHANGED <<proxyVars, lambdaVars, sourceVars, link, adapterVars, copyVars, historyVars,
                   promise, counters>>

\* A command that the adapter forwarded.
ServeForwarded ==
    /\ NextCommand /\ Head(toSource) # HelloCommand
    /\ repo' = Applied(source, Head(toSource))
    /\ Reply([kind |-> "result", result |-> Result(source, Head(toSource))])
    /\ UNCHANGED <<proxyVars, running, joining, sourceVars, link, adapterVars, copyVars, historyVars,
                   promise, counters>>

\* WaitForMigration returns.  If the proxy's connection is gone, the migration has ended and
\* with it the session (the store is kept); otherwise the lambda serves on and may retry.
EndServing ==
    /\ serving /\ link = "closed" /\ toSource = <<>>
    /\ serving' = FALSE
    /\ running' = IF ready THEN running \ {source} ELSE running
    /\ UNCHANGED <<proxyVars, repo, joining, source, dest, ready, linkVars, adapterVars, copyVars,
                   historyVars, promise, counters>>

(***************************************************************************)
(* The connection through the migrator.                                    *)
(***************************************************************************)

\* One side closes, so the migrator closes the other: what is on the way may be lost.
Closing ==
    /\ link' = "closed"
    /\ toDest' \in {toDest, <<>>}

\* The migrator's ListenTimeout, the MigrationTimeout of both connections, or a failure.
LinkFails ==
    /\ link \in {"half", "open"}
    /\ failures < MaxFailures
    /\ failures' = failures + 1
    /\ Closing
    /\ toSource' \in {toSource, <<>>}
    /\ UNCHANGED <<proxyVars, lambdaVars, sourceVars, adapterVars, copyVars, historyVars, promise,
                   migrations, requests>>

(***************************************************************************)
(* A lambda is reclaimed by the provider, or crashes: a fresh container    *)
(* takes its place among the idle ones.                                    *)
(***************************************************************************)
Fresh == [k \in Keys |-> Absent]

Dies(l) ==
    /\ repo' = [repo EXCEPT ![l] = Fresh]
    /\ conn' = [conn EXCEPT ![l] = "none"]
    /\ running' = running \ {l}
    /\ joining' = joining \ {l}
    /\ IF request[l] = None THEN UNCHANGED <<request, historyVars>> ELSE Answer(l, "error")
    /\ serving' = (serving /\ l # source)
    /\ IF l \in {source, dest} /\ link \in {"half", "open"}
       THEN /\ link' = "closed"
            /\ toDest' = IF l = dest THEN <<>> ELSE toDest
            /\ toSource' = IF l = source THEN <<>> ELSE toSource
       ELSE UNCHANGED linkVars
    /\ IF l = dest
       THEN /\ adapter' = "off" /\ serializer' = <<>> /\ handling' = None /\ taken' = None
            /\ mpc' = "none"
       ELSE UNCHANGED <<adapterVars, mpc>>
    /\ UNCHANGED <<current, source, dest, ready, todo, list>>

Die(l) ==
    /\ failures < MaxFailures
    /\ failures' = failures + 1
    /\ Dies(l)
    /\ UNCHANGED <<promise, migrations, requests>>

(***************************************************************************)
(* StorageAdapter.                                                         *)
(***************************************************************************)

\* cmds.Get and cmd.key = key.  The storageAdapterCommand of a GET is back in the pool as soon as
\* its value is passed on, while the goroutine that stores the copy still reads it: a command that
\* takes it, rather than another, gives it a new key.
TakeCmd(k) ==
    taken' \in {taken} \cup (IF handling # None /\ handling.stage = "store" /\ taken = None
                             THEN {k} ELSE {})

\* GetStream, SetStream and Del of the adapter: the command waits for the goroutine.
Serialize(l) ==
    /\ request[l] # None /\ request[l].stage = "received"
    /\ Adapted(l)
    /\ serializer' = Append(serializer, [by |-> "proxy", cmd |-> request[l].cmd])
    /\ request' = [request EXCEPT ![l].stage = "queued"]
    /\ TakeCmd(request[l].cmd.key)
    /\ UNCHANGED <<current, conn, lambdaVars, sourceVars, linkVars, adapter, handling, copyVars,
                   historyVars, promise, counters>>

\* A command of the serializer is done.  Migrate goes on with the next key, unless it was
\* told that the connection is closed.
Complete(i, res) ==
    IF i.by = "proxy" THEN Answer(dest, res) /\ UNCHANGED copyVars
    ELSE /\ mpc' = IF res = "closed" THEN "aborted" ELSE "loop"
         /\ todo' = [todo EXCEPT !.get = @ \ {i.cmd.key}]
         /\ UNCHANGED <<request, list, historyVars>>

\* getHandler and migrateHandler find the chunk here; setHandler and delHandler do not look.
Here(c) == c.op = "get" /\ Found(dest, c.key)

NextItem ==
    /\ adapter # "off" /\ handling = None /\ serializer # <<>>
    /\ serializer' = Tail(serializer)

AnswerHere ==
    /\ NextItem
    /\ Here(Head(serializer).cmd)
    /\ Complete(Head(serializer), repo[dest][Head(serializer).cmd.key])
    /\ UNCHANGED <<current, conn, lambdaVars, sourceVars, linkVars, adapter, taken, handling, promise, counters>>

\* The command is sent to the source; on a connection the peer has closed it is lost.
Forward ==
    /\ NextItem
    /\ ~Here(Head(serializer).cmd)
    /\ toSource' = IF link = "open" THEN Append(toSource, Head(serializer).cmd) ELSE toSource
    /\ handling' = [item |-> Head(serializer), stage |-> "sent", val |-> None]
    /\ UNCHANGED <<proxyVars, lambdaVars, sourceVars, link, toDest, adapter, taken, copyVars, historyVars,
                   promise, counters>>

\* Or Send fails.  To Migrate that is an error like any other.
SendFails ==
    /\ NextItem
    /\ ~Here(Head(serializer).cmd)
    /\ link = "closed"
    /\ Complete(Head(serializer), "error")
    /\ UNCHANGED <<current, conn, lambdaVars, sourceVars, linkVars, adapter, taken, handling, promise, counters>>

\* readGetResponse.  Before Migrate has read the list, both read the same connection.
NextReply ==
    /\ handling # None /\ handling.stage = "sent" /\ toDest # <<>>
    /\ toDest' = Tail(toDest)
    /\ promise' = (promise /\ ~Torn("adapter"))

Outcome == IF Head(toDest).kind = "list" THEN "ok" ELSE Head(toDest).result

ReplyError ==
    /\ NextReply
    /\ Outcome = "error"
    /\ Complete(handling.item, "error")
    /\ handling' = None
    /\ UNCHANGED <<current, conn, lambdaVars, sourceVars, link, toSource, adapter, taken, serializer, counters>>

\* Faulty variant: the source is updated, the local store is not.
ReplyDoneThere ==
    /\ NextReply
    /\ Outcome # "error" /\ handling.item.cmd.op # "get"
    /\ Complete(handling.item, "ok")
    /\ handling' = None
    /\ UNCHANGED <<current, conn, lambdaVars, sourceVars, link, toSource, adapter, taken, serializer,
                   counters>>

\* Faulty variant: a DEL leaves the local copy.
ReplyDoneKeepsCopy ==
    /\ NextReply
    /\ Outcome # "error" /\ handling.item.cmd.op # "get"
    /\ repo' = IF handling.item.cmd.op = "set" THEN Applied(dest, handling.item.cmd) ELSE repo
    /\ Complete(handling.item, "ok")
    /\ handling' = None
    /\ UNCHANGED <<current, conn, running, joining, sourceVars, link, toSource, adapter, taken, serializer,
                   counters>>

\* setHandler and delHandler: the local store follows the source's.
ReplyDone ==
    /\ NextReply
    /\ Outcome # "error" /\ handling.item.cmd.op # "get"
    /\ repo' = Applied(dest, handling.item.cmd)
    /\ Complete(handling.item, "ok")
    /\ handling' = None
    /\ UNCHANGED <<current, conn, running, joining, sourceVars, link, toSource, adapter, taken, serializer,
                   counters>>

\* migrateHandler stores the value; getHandler passes it on first and stores it then.
ReplyValue ==
    /\ NextReply
    /\ Outcome \in Values /\ handling.item.cmd.op = "get"
    /\ IF handling.item.by = "migrate"
       THEN repo' = Put(dest, handling.item.cmd.key, Outcome) /\ handling' = None
       ELSE handling' = [handling EXCEPT !.stage = "store", !.val = Outcome] /\ UNCHANGED repo
    /\ Complete(handling.item, Outcome)
    /\ UNCHANGED <<current, conn, running, joining, sourceVars, link, toSource, adapter, taken, serializer,
                   counters>>

\* A GET that takes another's reply has no stream: the goroutine panics.
ReplyPanic ==
    /\ handling # None /\ handling.stage = "sent" /\ toDest # <<>>
    /\ Outcome = "ok" /\ handling.item.cmd.op = "get"
    /\ Dies(dest)
    /\ promise' = FALSE
    /\ UNCHANGED counters

\* What the interceptor has: the value, or an error if the stream broke.
Intercepted == {handling.val, None}

\* The value has been streamed; the copy is kept unless there was an error, under the key that
\* the command has by now.
StoreCopy ==
    /\ handling # None /\ handling.stage = "store"
    /\ \E v \in Intercepted :
        /\ repo' = IF v = None THEN repo
                   ELSE Put(dest, IF taken = None THEN handling.item.cmd.key ELSE taken, v)
        /\ promise' = (promise /\ ~(v # None /\ Mislaid))
    /\ handling' = None /\ taken' = None
    /\ UNCHANGED <<proxyVars, running, joining, sourceVars, linkVars, adapter, serializer, copyVars,
                   historyVars, counters>>

\* ErrClosed.
ReplyClosed ==
    /\ handling # None /\ handling.stage = "sent" /\ toDest = <<>> /\ link = "closed"
    /\ Complete(handling.item, "closed")
    /\ handling' = None
    /\ UNCHANGED <<current, conn, lambdaVars, sourceVars, linkVars, adapter, taken, serializer, promise, counters>>

\* The goroutine sees done before the command that may be in the channel.
AdapterEnds ==
    /\ adapter = "restored" /\ handling = None
    /\ adapter' = "off" /\ serializer' = <<>>
    /\ UNCHANGED <<proxyVars, lambdaVars, sourceVars, linkVars, handling, taken, copyVars, historyVars,
                   promise, counters>>

Adapter == \/ AnswerHere \/ Forward \/ SendFails \/ ReplyError \/ ReplyDone \/ ReplyValue
           \/ ReplyPanic \/ StoreCopy \/ ReplyClosed \/ AdapterEnds

(***************************************************************************)
(* Migrate, a goroutine of the destination.                                *)
(***************************************************************************)

\* The list, or a reply meant for the adapter, whose second field is no number.
ReadList ==
    /\ mpc = "hello" /\ toDest # <<>>
    /\ toDest' = Tail(toDest)
    /\ IF Head(toDest).kind = "list"
       THEN mpc' = "loop" /\ todo' = Head(toDest).list /\ list' = todo'
       ELSE mpc' = "aborted" /\ UNCHANGED <<todo, list>>
    /\ promise' = (promise /\ ~Torn("migrate"))
    /\ UNCHANGED <<proxyVars, lambdaVars, sourceVars, link, toSource, adapterVars, historyVars, counters>>

ReadFails ==
    /\ mpc = "hello" /\ toDest = <<>> /\ link = "closed"
    /\ mpc' = "aborted"
    /\ UNCHANGED <<proxyVars, lambdaVars, sourceVars, linkVars, adapterVars, todo, list, historyVars,
                   promise, counters>>

\* Chunks deleted at the source are marked here, past the serializer.
LocalDel(k) ==
    /\ mpc = "loop" /\ k \in todo.del
    /\ todo' = [todo EXCEPT !.del = @ \ {k}]
    /\ repo' = Del(dest, k)
    /\ UNCHANGED <<proxyVars, running, joining, sourceVars, linkVars, adapterVars, mpc, list, historyVars,
                   promise, counters>>

\* Faulty variant: the command is not waited for.
MigrateKeyAsync(k) ==
    /\ mpc = "loop" /\ todo.del = {} /\ k \in todo.get
    /\ serializer' = Append(serializer, [by |-> "migrate", cmd |-> [op |-> "get", key |-> k, val |-> None]])
    /\ TakeCmd(k)
    /\ UNCHANGED <<proxyVars, lambdaVars, sourceVars, linkVars, adapter, handling, mpc, todo, list, historyVars,
                   promise, counters>>

\* A key of the list: the goroutine waits for the adapter's.
MigrateKey(k) ==
    /\ mpc = "loop" /\ todo.del = {} /\ k \in todo.get
    /\ mpc' = "waiting"
    /\ serializer' = Append(serializer, [by |-> "migrate", cmd |-> [op |-> "get", key |-> k, val |-> None]])
    /\ TakeCmd(k)
    /\ UNCHANGED <<proxyVars, lambdaVars, sourceVars, linkVars, adapter, handling, todo, list, historyVars,
                   promise, counters>>

\* "End migration".
EndMigration ==
    /\ mpc = "loop" /\ todo.del = {} /\ todo.get = {}
    /\ mpc' = "ended"
    /\ UNCHANGED <<proxyVars, lambdaVars, sourceVars, linkVars, adapterVars, todo, list, historyVars,
                   promise, counters>>

\* The deferred Close.
Close ==
    /\ mpc \in {"ended", "aborted"}
    /\ mpc' = "closed"
    /\ Closing
    /\ UNCHANGED <<proxyVars, lambdaVars, sourceVars, toSource, adapterVars, todo, list, historyVars,
                   promise, counters>>

\* The plain store again, whatever the adapter's goroutine is doing.  The invocation returns if
\* there is no connection to serve any more.
Restore ==
    /\ mpc = "closed"
    /\ mpc' = "none"
    /\ adapter' = "restored"
    /\ running' = IF conn[dest] = "none" /\ dest \notin joining THEN running \ {dest} ELSE running
    /\ promise' = (promise /\ ~Overrun)
    /\ UNCHANGED <<proxyVars, repo, joining, sourceVars, linkVars, serializer, handling, taken, todo, list,
                   historyVars, counters>>

Copy == \/ ReadList \/ ReadFails \/ EndMigration \/ Close \/ Restore
        \/ \E k \in Keys : LocalDel(k) \/ MigrateKey(k)

Next ==
    \/ \E l \in Lambdas :
        \/ \E c \in Command : Issue(l, c)
        \/ Serve(l) \/ Serialize(l) \/ Disconnect(l) \/ EndConnection(l) \/ Join(l) \/ Die(l)
        \/ Sleep(l) \/ Invoke(l)
        \/ \E d \in Lambdas : Migrate(l, d)
    \/ Hello \/ HelloFailed
    \/ MHello \/ ServeForwarded \/ EndServing \/ LinkFails
    \/ Adapter
    \/ Copy

Spec == Init /\ [][Next]_vars

\* Goroutines run, connections deliver; nothing is assumed of clients, of failures or of
\* when a migration starts.
Fairness ==
    /\ \A l \in Lambdas : WF_vars(Serve(l)) /\ WF_vars(Serialize(l)) /\ WF_vars(EndConnection(l))
                         /\ WF_vars(Join(l))
    /\ WF_vars(Hello) /\ WF_vars(HelloFailed)
    /\ WF_vars(MHello) /\ WF_vars(ServeForwarded) /\ WF_vars(EndServing)
    /\ WF_vars(Adapter) /\ WF_vars(Copy)

FairSpec == Spec /\ Fairness

(***************************************************************************)
(* Properties.                                                             *)
(***************************************************************************)
\* Types: requests in flight, at most one command of each side in the serializer, replies.
TypeOK ==
    /\ current \in Lambdas
    /\ conn \in [Lambdas -> {"none", "open", "closing"}]
    /\ request \in [Lambdas -> {None} \cup Request]
    /\ repo \in [Lambdas -> [Keys -> Values \cup {Absent, Deleted}]]
    /\ running \subseteq Lambdas /\ joining \subseteq running
    /\ source \in Lambdas \cup {None} /\ dest \in Lambdas \cup {None}
    /\ serving \in BOOLEAN /\ ready \in BOOLEAN
    /\ link \in {"none", "half", "open", "closed"}
    /\ toSource \in Seq({HelloCommand} \cup Command) /\ Len(toSource) <= 2
    /\ toDest \in Seq([kind : {"list"}, list : [del : SUBSET Keys, get : SUBSET Keys]]
                      \cup [kind : {"result"}, result : Values \cup {"ok", "error"}])
    /\ adapter \in {"off", "on", "restored"}
    /\ serializer \in Seq(Item) /\ Len(serializer) <= 2
    /\ handling \in {None} \cup Handling
    /\ taken \in {None} \cup Keys
    /\ mpc \in {"none", "invoked", "hello", "loop", "waiting", "ended", "aborted", "closed"}
    /\ {todo, list} \subseteq [del : SUBSET Keys, get : SUBSET Keys]
    /\ valid \in [Keys -> SUBSET Values]
    /\ may \in [Lambdas -> SUBSET Values]
    /\ answer \in {None} \cup [val : Values, may : SUBSET Values]
    /\ promise \in BOOLEAN

\* The two lambdas and the adapter implement one map, until the promise ends.
Implements == Map!Spec

\* Once the list of keys is made, no command of the proxy runs at the source.
SourceQuiet ==
    serving /\ toSource # <<>> /\ Head(toSource) # HelloCommand => request[source] = None

\* A migration ends, unless its destination died before it reached the proxy: the mhello
\* handler of the source then waits for a switch that does not come.
Stranded == ~ready /\ dest \notin running

MigrationEnds == serving ~> (~serving \/ Stranded)

\* "End migration" on an open connection: the destination has every chunk the source has,
\* but for the keys in the hands of the adapter.
EndMeansCopied ==
    [][EndMigration /\ link = "open" /\ promise =>
        \A k \in Keys \ list.del : Found(source, k) /\ (handling = None \/ handling.item.cmd.key # k)
            => repo[dest][k] = repo[source][k]]_vars
=============================================================================
