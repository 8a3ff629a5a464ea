-------------------------- MODULE MigrationProofs --------------------------
(***************************************************************************)
(* Proofs about Migration, for any lambdas, keys, values and bounds: types *)
(* and bounds of the queues, and that the source serves the migration's    *)
(* connection only once its own connection to the proxy is done with.      *)
(***************************************************************************)
EXTENDS Migration, TLAPS

\* The types of TypeOK, a part for each group of variables.
ProxyType ==
    /\ current \in Lambdas
    /\ conn \in [Lambdas -> {"none", "open", "closing"}]
    /\ request \in [Lambdas -> {None} \cup Request]

StoreType ==
    /\ repo \in [Lambdas -> [Keys -> Values \cup {Absent, Deleted}]]
    /\ running \subseteq Lambdas /\ joining \subseteq running

SourceType ==
    /\ source \in Lambdas \cup {None} /\ dest \in Lambdas \cup {None}
    /\ serving \in BOOLEAN /\ ready \in BOOLEAN

KeyLists == [del : SUBSET Keys, get : SUBSET Keys]
Replies == [kind : {"list"}, list : KeyLists]
           \cup [kind : {"result"}, result : Values \cup {"ok", "error"}]

LinkType ==
    /\ link \in {"none", "half", "open", "closed"}
    /\ toSource \in Seq({HelloCommand} \cup Command)
    /\ toDest \in Seq(Replies)

AdapterType ==
    /\ adapter \in {"off", "on", "restored"}
    /\ serializer \in Seq(Item)
    /\ handling \in {None} \cup Handling
    /\ taken \in {None} \cup Keys

CopyType ==
    /\ mpc \in {"none", "invoked", "hello", "loop", "waiting", "ended", "aborted", "closed"}
    /\ todo \in KeyLists /\ list \in KeyLists

HistoryType ==
    /\ valid \in [Keys -> SUBSET Values]
    /\ may \in [Lambdas -> SUBSET Values]
    /\ answer \in {None} \cup [val : Values, may : SUBSET Values]
    /\ promise \in BOOLEAN

\* The adapter's goroutine waits for a reply; the goroutine of Migrate has not returned.
Awaiting == handling # None /\ handling.stage = "sent"
Running == mpc \in {"hello", "loop", "waiting", "ended", "aborted", "closed"}

\* The proxy's connections: at most that of the current lambda is open, and the others are of
\* lambdas that run and have not noticed yet.
ConnInv ==
    \A l \in Lambdas : /\ conn[l] = "open" => l = current
                       /\ conn[l] = "closing" => l \in running
                       /\ request[l] # None => conn[l] # "none" /\ l \in running
                       /\ l \in joining => conn[l] = "none" /\ l # current

\* The two lambdas of a migration.
RoleInv ==
    /\ source # None => source # dest /\ source \in Lambdas /\ dest \in Lambdas /\ link # "none"
    /\ source = None => dest = None /\ ~serving /\ link = "none" /\ adapter = "off" /\ mpc = "none"
    /\ serving => source \in running /\ source \notin joining
    /\ adapter = "on" => dest \in running
    /\ mpc = "invoked" => dest \in running \ joining /\ dest # current /\ conn[dest] = "none"

\* The stages of a migration.
StageInv ==
    /\ mpc = "invoked" => link \in {"half", "closed"} /\ adapter = "off"
    /\ link \in {"half", "open"} => serving
    /\ link = "half" => mpc = "invoked" /\ toSource = <<>> /\ toDest = <<>>
    /\ link = "open" => Running /\ mpc # "closed"
    /\ adapter = "on" <=> Running
    /\ adapter = "restored" => link = "closed"
    /\ adapter = "off" => serializer = <<>> /\ handling = None

\* The source waits for the end of its connection to the proxy before it serves the migration's.
ReadyInv ==
    serving =>
        /\ ready <=> conn[source] = "none"
        /\ ~ready => /\ link = "open" => toSource # <<>>
                     /\ toSource # <<>> => Head(toSource) = HelloCommand

\* One command of each side at most: the proxy's is the one it waits for.
Waits(i) == IF i.by = "proxy"
            THEN request[dest] # None /\ request[dest].stage = "queued" /\ request[dest].cmd = i.cmd
            ELSE mpc = "waiting" /\ i.cmd.op = "get" /\ i.cmd.key \in todo.get

ItemInv ==
    /\ \A i \in 1 .. Len(serializer) : Waits(serializer[i])
    /\ \A i, j \in 1 .. Len(serializer) : serializer[i].by = serializer[j].by => i = j
    /\ Awaiting => /\ Waits(handling.item)
                   /\ \A i \in 1 .. Len(serializer) : serializer[i].by # handling.item.by
    /\ handling # None /\ ~Awaiting =>
        handling.item.by = "proxy" /\ handling.item.cmd.op = "get" /\ handling.val \in Values

\* What is on the way through an open link is what is waited for.
CountInv ==
    /\ Len(toSource) <= 2
    /\ link = "open" => Len(toSource) + Len(toDest)
                        = (IF Awaiting THEN 1 ELSE 0) + (IF mpc = "hello" THEN 1 ELSE 0)

IInv == /\ ProxyType /\ StoreType /\ SourceType /\ LinkType /\ AdapterType /\ CopyType /\ HistoryType
        /\ ConnInv /\ RoleInv /\ StageInv /\ ReadyInv /\ ItemInv /\ CountInv

-----------------------------------------------------------------------------
\* A command, whoever sends it.
LEMMA CommandFacts ==
    /\ \A c \in Command : /\ c.op \in {"set", "get", "del"} /\ c.key \in Keys
                          /\ c.op = "set" => c.val \in Values
                          /\ c.op # "set" => c.val = None
                          /\ c # HelloCommand /\ c # None
    /\ \A k \in Keys : [op |-> "get", key |-> k, val |-> None] \in Command
  <1>1. \A c \in Map!Sets : c.op = "set" /\ c.key \in Keys /\ c.val \in Values
    BY DEF Map!Sets
  <1>2. \A c \in Map!Others : c.op \in {"get", "del"} /\ c.key \in Keys /\ c.val = None
    BY DEF Map!Others
  <1>3. \A c \in Command : c \in Map!Sets \/ c \in Map!Others
    BY DEF Command, Map!Command
  <1>4. HelloCommand.op = "mhello"
    BY DEF HelloCommand
  <1>5. ASSUME NEW k \in Keys
        PROVE  [op |-> "get", key |-> k, val |-> None] \in Command
    BY DEF Command, Map!Command, Map!Others
  <1> QED
    BY <1>1, <1>2, <1>3, <1>4, <1>5, NilAssumption

\* A request, an item of the serializer, and one that the adapter's goroutine handles.
LEMMA RequestFacts ==
    /\ None \notin Request /\ None \notin Handling
    /\ \A r \in Request : r.cmd \in Command /\ r.stage \in {"received", "queued"} /\ r.live \in BOOLEAN
    /\ \A i \in Item : i.by \in {"proxy", "migrate"} /\ i.cmd \in Command
    /\ \A h \in Handling : h.item \in Item /\ h.stage \in {"sent", "store"} /\ h.val \in Values \cup {None}
  <1>1. None \notin Request /\ None \notin Handling
    BY NilAssumption
  <1>2. \A r \in Request : r.cmd \in Command /\ r.stage \in {"received", "queued"} /\ r.live \in BOOLEAN
    BY DEF Request
  <1>3. \A i \in Item : i.by \in {"proxy", "migrate"} /\ i.cmd \in Command
    BY DEF Item
  <1>4. \A h \in Handling : h.item \in Item /\ h.stage \in {"sent", "store"} /\ h.val \in Values \cup {None}
    BY DEF Handling
  <1> QED
    BY <1>1, <1>2, <1>3, <1>4

\* What is made of them: a request that is new, queued or given up on, and an item handled.
LEMMA RequestMakers ==
    /\ \A c \in Command : [cmd |-> c, stage |-> "received", live |-> TRUE] \in Request
    /\ \A r \in Request : /\ [r EXCEPT !.stage = "queued"] \in Request
                          /\ [r EXCEPT !.stage = "queued"].stage = "queued"
                          /\ [r EXCEPT !.stage = "queued"].cmd = r.cmd
                          /\ [r EXCEPT !.stage = "queued"].live = r.live
                          /\ [r EXCEPT !.live = FALSE] \in Request
                          /\ [r EXCEPT !.live = FALSE].stage = r.stage
                          /\ [r EXCEPT !.live = FALSE].cmd = r.cmd
                          /\ [r EXCEPT !.live = FALSE].live = FALSE
    /\ \A c \in Command, b \in {"proxy", "migrate"} : [by |-> b, cmd |-> c] \in Item
    /\ \A i \in Item : [item |-> i, stage |-> "sent", val |-> None] \in Handling
    /\ \A h \in Handling, v \in Values : [h EXCEPT !.stage = "store", !.val = v] \in Handling
  <1>1. \A c \in Command : [cmd |-> c, stage |-> "received", live |-> TRUE] \in Request
    BY DEF Request
  <1>2. \A r \in Request : /\ [r EXCEPT !.stage = "queued"] \in Request
                           /\ [r EXCEPT !.stage = "queued"].stage = "queued"
                           /\ [r EXCEPT !.stage = "queued"].cmd = r.cmd
                           /\ [r EXCEPT !.stage = "queued"].live = r.live
    BY DEF Request
  <1>3. \A r \in Request : /\ [r EXCEPT !.live = FALSE] \in Request
                           /\ [r EXCEPT !.live = FALSE].stage = r.stage
                           /\ [r EXCEPT !.live = FALSE].cmd = r.cmd
                           /\ [r EXCEPT !.live = FALSE].live = FALSE
    BY DEF Request
  <1>4. \A c \in Command, b \in {"proxy", "migrate"} : [by |-> b, cmd |-> c] \in Item
    BY DEF Item
  <1>5. \A i \in Item : [item |-> i, stage |-> "sent", val |-> None] \in Handling
    BY DEF Handling
  <1>6. \A h \in Handling, v \in Values : [h EXCEPT !.stage = "store", !.val = v] \in Handling
    BY DEF Handling
  <1> QED
    BY <1>1, <1>2, <1>3, <1>4, <1>5, <1>6

\* What the store holds after a command, and answers.
LEMMA StoreFacts ==
    ASSUME StoreType, NEW l \in Lambdas, NEW c \in Command
    PROVE  /\ Applied(l, c) \in [Lambdas -> [Keys -> Values \cup {Absent, Deleted}]]
           /\ Result(l, c) \in Values \cup {"ok", "error"}
  <1>1. c.op \in {"set", "get", "del"} /\ c.key \in Keys /\ (c.op = "set" => c.val \in Values)
    BY CommandFacts
  <1> QED
    BY <1>1 DEF StoreType, Applied, Put, Del, Result, Found

\* The client's side of a command that ends, whatever its result.
LEMMA LearnFacts ==
    ASSUME ProxyType, HistoryType, NEW l \in Lambdas, request[l] # None, NEW res, Learn(l, res),
           promise' \in BOOLEAN
    PROVE  HistoryType'
  <1>1. request[l] \in Request
    BY DEF ProxyType
  <1>2. request[l].cmd.key \in Keys /\ request[l].cmd.val \in Values \cup {None}
    BY <1>1, RequestFacts, CommandFacts
  <1>3. CASE ~request[l].live
    BY <1>3 DEF HistoryType, Learn, historyVars
  <1>4. CASE request[l].live
    <2>1. answer' \in {None} \cup [val : Values, may : SUBSET Values]
      BY <1>4 DEF HistoryType, Learn
    <2>2. may' \in [Lambdas -> SUBSET Values]
      BY <1>4 DEF HistoryType, Learn
    <2>3. ({request[l].cmd.val} \ {None}) \cup may[l] \in SUBSET Values
      BY <1>2 DEF HistoryType
    <2>4. valid' \in [Keys -> SUBSET Values]
      BY <1>2, <1>4, <2>3 DEF HistoryType, Learn
    <2> QED
      BY <2>1, <2>2, <2>4 DEF HistoryType
  <1> QED
    BY <1>3, <1>4

\* The handler's answer frees the lambda for the next command.
LEMMA AnswerFacts ==
    ASSUME ProxyType, HistoryType, NEW l \in Lambdas, request[l] # None, NEW res, Answer(l, res),
           promise' \in BOOLEAN
    PROVE  /\ HistoryType'
           /\ request' \in [Lambdas -> {None} \cup Request]
           /\ request'[l] = None
           /\ \A m \in Lambdas \ {l} : request'[m] = request[m]
  <1>1. HistoryType'
    BY LearnFacts DEF Answer
  <1> QED
    BY <1>1 DEF ProxyType, Answer

\* The next command of the serializer.
LEMMA HeadItem ==
    ASSUME AdapterType, ItemInv, serializer # <<>>
    PROVE  /\ Head(serializer) \in Item /\ Waits(Head(serializer))
           /\ Tail(serializer) \in Seq(Item) /\ Len(Tail(serializer)) = Len(serializer) - 1
           /\ \A i \in 1 .. Len(Tail(serializer)) : /\ Tail(serializer)[i] = serializer[i + 1]
                                                    /\ i + 1 \in 1 .. Len(serializer)
                                                    /\ Tail(serializer)[i].by # Head(serializer).by
                                                    /\ Tail(serializer)[i] \in Item
  <1>1. serializer \in Seq(Item) /\ Len(serializer) >= 1
    BY DEF AdapterType
  <1>2. Head(serializer) = serializer[1] /\ 1 \in 1 .. Len(serializer)
    BY <1>1
  <1>3. Waits(Head(serializer))
    BY <1>2 DEF ItemInv
  <1>4. /\ Tail(serializer) \in Seq(Item) /\ Len(Tail(serializer)) = Len(serializer) - 1
        /\ \A i \in 1 .. Len(Tail(serializer)) : /\ Tail(serializer)[i] = serializer[i + 1]
                                                 /\ i + 1 \in 1 .. Len(serializer)
    BY <1>1
  <1>5. \A i \in 1 .. Len(Tail(serializer)) : serializer[i + 1].by # serializer[1].by
    BY <1>2, <1>4 DEF ItemInv
  <1> QED
    BY <1>1, <1>2, <1>3, <1>4, <1>5

\* Complete: an item that waited, of the proxy or of Migrate, is done.
LEMMA CompleteFacts ==
    ASSUME ProxyType, HistoryType, CopyType, RoleInv, adapter # "off", NEW i \in Item, Waits(i),
           NEW res, Complete(i, res), promise' \in BOOLEAN
    PROVE  /\ dest \in Lambdas /\ HistoryType' /\ CopyType'
           /\ request' \in [Lambdas -> {None} \cup Request]
           /\ \A m \in Lambdas \ {dest} : request'[m] = request[m]
           /\ i.by = "proxy" => request'[dest] = None /\ mpc' = mpc /\ todo' = todo
           /\ i.by # "proxy" => /\ request' = request /\ mpc = "waiting" /\ mpc' \in {"aborted", "loop"}
           /\ list' = list
  <1>1. dest \in Lambdas
    BY DEF RoleInv
  <1>2. CASE i.by = "proxy"
    <2>1. request[dest] # None /\ Answer(dest, res) /\ UNCHANGED copyVars
      BY <1>2 DEF Waits, Complete
    <2>2. CopyType' /\ UNCHANGED <<mpc, todo, list>>
      BY <2>1 DEF copyVars, CopyType
    <2> QED
      BY <1>1, <1>2, <2>1, <2>2, AnswerFacts
  <1>3. CASE i.by # "proxy"
    <2>1. /\ mpc' \in {"aborted", "loop"} /\ todo' = [todo EXCEPT !.get = @ \ {i.cmd.key}]
          /\ UNCHANGED <<request, list, valid, may, answer>> /\ mpc = "waiting"
      BY <1>3 DEF Waits, Complete, historyVars
    <2>2. todo' \in KeyLists
      BY <2>1 DEF CopyType, KeyLists
    <2>3. CopyType' /\ HistoryType'
      BY <2>1, <2>2 DEF CopyType, HistoryType
    <2> QED
      BY <1>1, <1>3, <2>1, <2>3 DEF ProxyType
  <1> QED
    BY <1>2, <1>3

\* What Complete preserves, whether the item comes from the serializer or from the goroutine's hands.
LEMMA CompleteKeeps ==
    ASSUME ProxyType, HistoryType, CopyType, ConnInv, RoleInv, adapter # "off",
           NEW i \in Item, Waits(i), NEW res, Complete(i, res), promise' \in BOOLEAN,
           UNCHANGED <<current, conn, running, joining, source, dest, serving, link, adapter>>
    PROVE  ProxyType' /\ HistoryType' /\ CopyType' /\ ConnInv' /\ RoleInv'
  <1>1. /\ request' \in [Lambdas -> {None} \cup Request]
        /\ dest \in Lambdas /\ \A m \in Lambdas \ {dest} : request'[m] = request[m]
        /\ i.by = "proxy" => request'[dest] = None /\ mpc' = mpc
        /\ i.by # "proxy" => request' = request /\ mpc = "waiting" /\ mpc' \in {"aborted", "loop"}
        /\ HistoryType' /\ CopyType'
    BY CompleteFacts
  <1>2. ProxyType'
    BY <1>1 DEF ProxyType
  <1>3. \A l \in Lambdas : request'[l] # None => request[l] # None
    BY <1>1
  <1>4. ConnInv'
    BY <1>3 DEF ConnInv
  <1>5. RoleInv'
    BY <1>1 DEF RoleInv
  <1> QED
    BY <1>1, <1>2, <1>4, <1>5

\* A command of the serializer that is done without the source.
LEMMA HeadDone ==
    ASSUME IInv, NextItem, NEW res, Complete(Head(serializer), res), UNCHANGED <<handling, taken>>,
           UNCHANGED <<current, conn, repo, running, joining, source, dest, serving, ready,
                       link, toSource, toDest, adapter, promise>>
    PROVE  IInv'
  <1> DEFINE i == Head(serializer)
  <1>1. /\ i \in Item /\ Waits(i) /\ adapter # "off" /\ handling = None
        /\ serializer' = Tail(serializer) /\ Tail(serializer) \in Seq(Item)
        /\ \A j \in 1 .. Len(Tail(serializer)) : /\ Tail(serializer)[j] = serializer[j + 1]
                                                 /\ j + 1 \in 1 .. Len(serializer)
                                                 /\ Tail(serializer)[j].by # i.by
                                                 /\ Tail(serializer)[j] \in Item
    BY HeadItem DEF IInv, NextItem
  <1>2. promise' \in BOOLEAN
    BY DEF IInv, HistoryType
  <1>3. ProxyType' /\ HistoryType' /\ CopyType' /\ ConnInv' /\ RoleInv'
    BY <1>1, <1>2, CompleteKeeps DEF IInv
  <1>4. /\ i.by = "proxy" => mpc' = mpc /\ todo' = todo
        /\ i.by # "proxy" => request' = request /\ mpc = "waiting" /\ mpc' \in {"aborted", "loop"}
    BY <1>1, <1>2, CompleteFacts DEF IInv
  <1>5. StoreType' /\ SourceType' /\ LinkType' /\ ReadyInv'
    BY DEF IInv, StoreType, SourceType, LinkType, ReadyInv
  <1>6. AdapterType'
    BY <1>1 DEF IInv, AdapterType
  <1>7. StageInv' /\ CountInv'
    BY <1>1, <1>4 DEF IInv, StageInv, Running, CountInv, Awaiting
  <1>8. ItemInv'
    <2>1. \A j \in 1 .. Len(Tail(serializer)) : Waits(Tail(serializer)[j]) /\ Tail(serializer)[j].by # i.by
      BY <1>1 DEF IInv, ItemInv
    <2>2. \A it \in Item : Waits(it) /\ it.by # i.by => Waits(it)'
      BY <1>1, <1>4, RequestFacts DEF Waits
    <2>3. \A j, m \in 1 .. Len(Tail(serializer)) :
             Tail(serializer)[j].by = Tail(serializer)[m].by => j = m
      BY <1>1 DEF IInv, ItemInv
    <2>4. \A j \in 1 .. Len(serializer') : Waits(serializer[j])'
      BY <1>1, <2>1, <2>2
    <2> QED
      BY <1>1, <2>3, <2>4 DEF ItemInv, Awaiting
  <1> QED
    BY <1>3, <1>5, <1>6, <1>7, <1>8 DEF IInv

\* The command in the goroutine's hands is done; a value may be left to be stored.
LEMMA HandledDone ==
    ASSUME IInv, Awaiting, NEW res, Complete(handling.item, res), promise' \in BOOLEAN,
           \/ handling' = None
           \/ /\ handling.item.by = "proxy" /\ handling.item.cmd.op = "get"
              /\ handling' \in Handling /\ handling'.item = handling.item
              /\ handling'.stage = "store" /\ handling'.val \in Values,
           (link # "open" /\ toDest' = toDest) \/ (toDest # <<>> /\ toDest' = Tail(toDest)),
           repo' \in [Lambdas -> [Keys -> Values \cup {Absent, Deleted}]],
           UNCHANGED <<current, conn, running, joining, source, dest, serving, ready,
                       link, toSource, adapter, taken, serializer>>
    PROVE  IInv'
  <1> DEFINE i == handling.item
  <1>1. handling \in Handling /\ i \in Item /\ Waits(i) /\ adapter # "off"
    BY RequestFacts DEF IInv, Awaiting, ItemInv, AdapterType, StageInv
  <1>2. ProxyType' /\ HistoryType' /\ CopyType' /\ ConnInv' /\ RoleInv'
    BY <1>1, CompleteKeeps DEF IInv
  <1>3. /\ i.by = "proxy" => mpc' = mpc /\ todo' = todo
        /\ i.by # "proxy" => request' = request /\ mpc = "waiting" /\ mpc' \in {"aborted", "loop"}
    BY <1>1, CompleteFacts DEF IInv
  <1>4. StoreType' /\ SourceType' /\ ReadyInv'
    BY DEF IInv, StoreType, SourceType, ReadyInv
  <1>5. toDest' \in Seq(Replies)
    <2>1. toDest # <<>> => Tail(toDest) \in Seq(Replies)
      BY DEF IInv, LinkType
    <2> QED
      BY <2>1 DEF IInv, LinkType
  <1>6. LinkType' /\ AdapterType'
    BY <1>1, <1>5 DEF IInv, LinkType, AdapterType
  <1>7. ~Awaiting'
    BY DEF Awaiting
  <1>8. StageInv'
    BY <1>1, <1>3 DEF IInv, StageInv, Running
  <1>9. CountInv'
    <2>1. CASE link # "open"
      BY <2>1 DEF IInv, CountInv
    <2>2. CASE link = "open"
      <3>1. Len(toDest') = Len(toDest) - 1 /\ Len(toSource) \in Nat /\ Len(toDest) \in Nat
        BY <2>2 DEF IInv, LinkType
      <3>2. mpc' = "hello" <=> mpc = "hello"
        BY <1>1, <1>3, RequestFacts
      <3> QED
        BY <1>7, <2>2, <3>1, <3>2 DEF IInv, CountInv
    <2> QED
      BY <2>1, <2>2
  <1>10. ItemInv'
    <2>1. \A j \in 1 .. Len(serializer) : Waits(serializer[j]) /\ serializer[j].by # i.by /\ serializer[j] \in Item
      BY DEF IInv, ItemInv, AdapterType
    <2>2. \A j \in 1 .. Len(serializer) : Waits(serializer[j])'
      BY <1>1, <1>3, <2>1, RequestFacts DEF Waits
    <2> QED
      BY <1>7, <2>2, RequestFacts DEF IInv, ItemInv
  <1> QED
    BY <1>2, <1>4, <1>6, <1>8, <1>9, <1>10 DEF IInv

\* A lambda that is gone, with its store, its connections and what it was handling.
LEMMA DiesFacts ==
    ASSUME IInv, NEW l \in Lambdas, Dies(l), promise' \in BOOLEAN
    PROVE  IInv'
  <1> USE DEF IInv, Dies
  <1>1. /\ HistoryType' /\ request' \in [Lambdas -> {None} \cup Request]
        /\ request'[l] = None /\ \A m \in Lambdas \ {l} : request'[m] = request[m]
    <2>1. CASE request[l] = None
      BY <2>1 DEF HistoryType, ProxyType, historyVars
    <2>2. CASE request[l] # None
      BY <2>2, AnswerFacts
    <2> QED
      BY <2>1, <2>2
  <1>2. ProxyType' /\ StoreType' /\ SourceType'
    BY <1>1 DEF ProxyType, StoreType, SourceType, Fresh
  <1>3. /\ l = dest => adapter' = "off" /\ serializer' = <<>> /\ handling' = None /\ mpc' = "none"
        /\ l # dest => UNCHANGED <<adapter, serializer, handling, mpc>>
    BY DEF adapterVars
  <1>4. /\ l \in {source, dest} /\ link \in {"half", "open"} => link' = "closed"
        /\ ~(l \in {source, dest} /\ link \in {"half", "open"}) => UNCHANGED <<link, toSource, toDest>>
        /\ toSource' = toSource \/ (l = source /\ toSource' = <<>>)
        /\ toDest' = toDest \/ (l = dest /\ toDest' = <<>>)
    BY DEF linkVars
  <1>5. LinkType' /\ AdapterType' /\ CopyType'
    <2>1. <<>> \in Seq({HelloCommand} \cup Command) /\ <<>> \in Seq(Replies) /\ <<>> \in Seq(Item)
      OBVIOUS
    <2>2. link' \in {link, "closed"} /\ toSource' \in {toSource, <<>>} /\ toDest' \in {toDest, <<>>}
      BY <1>4 DEF LinkType
    <2>3. LinkType'
      BY <2>1, <2>2 DEF LinkType
    <2>4. /\ adapter' \in {adapter, "off"} /\ serializer' \in {serializer, <<>>}
          /\ handling' \in {handling, None} /\ taken' \in {taken, None} /\ mpc' \in {mpc, "none"}
          /\ UNCHANGED <<todo, list>>
      BY <1>3 DEF adapterVars
    <2>5. AdapterType' /\ CopyType'
      BY <2>1, <2>4 DEF AdapterType, CopyType
    <2> QED
      BY <2>3, <2>5
  <1>6. ConnInv'
    <2>1. /\ conn'[l] = "none"
          /\ \A m \in Lambdas \ {l} : conn'[m] = conn[m] /\ (m \in running' <=> m \in running)
      BY DEF ProxyType
    <2>2. joining' = joining \ {l} /\ UNCHANGED current
      OBVIOUS
    <2> QED
      BY <1>1, <2>1, <2>2 DEF ConnInv
  <1>7. RoleInv'
    BY <1>3, <1>4 DEF RoleInv, ProxyType, StoreType, StageInv, LinkType
  <1>8. StageInv'
    BY <1>3, <1>4 DEF StageInv, Running, RoleInv, LinkType
  <1>9. ReadyInv'
    BY <1>4 DEF ReadyInv, ProxyType, RoleInv, StageInv
  <1>10. ItemInv'
    <2>1. CASE l = dest
      BY <1>3, <2>1 DEF ItemInv, Awaiting
    <2>2. CASE l # dest
      <3>1. UNCHANGED <<adapter, serializer, handling, mpc, todo, dest>>
        BY <1>3, <2>2
      <3>2. dest \in Lambdas => request'[dest] = request[dest]
        BY <1>1, <2>2
      <3>3. adapter # "off" => dest \in Lambdas
        BY DEF RoleInv
      <3>4. CASE adapter = "off"
        BY <3>1, <3>4 DEF StageInv, ItemInv, Awaiting
      <3>5. CASE adapter # "off"
        BY <3>1, <3>2, <3>3, <3>5 DEF ItemInv, Awaiting, Waits
      <3> QED
        BY <3>4, <3>5
    <2> QED
      BY <2>1, <2>2
  <1>11. CountInv'
    BY <1>3, <1>4 DEF CountInv, Awaiting, StageInv, RoleInv, LinkType
  <1> QED
    BY <1>1, <1>2, <1>5, <1>6, <1>7, <1>8, <1>9, <1>10, <1>11

\* Issue: the proxy writes a command only to the open connection of the current lambda, when it is idle.
LEMMA IssueStep ==
    ASSUME IInv, NEW l \in Lambdas, NEW c \in Command, Issue(l, c)
    PROVE  IInv'
  <1> USE DEF IInv, Issue, Connected, Map!Issue, lambdaVars, sourceVars, linkVars, adapterVars, copyVars
  <1>1. ProxyType'
    BY RequestMakers DEF ProxyType
  <1>2. HistoryType'
    <2>1. c.key \in Keys /\ c.val \in Values \cup {None}
      BY CommandFacts
    <2>2. valid' \in [Keys -> SUBSET Values]
      BY <2>1 DEF HistoryType
    <2>3. \A k \in Keys : Map!Coming(k) \subseteq Values
      <3>1. ASSUME NEW k \in Keys, NEW p \in Map!Using(k)
            PROVE  Pending[p].val \in Values \cup {None}
        <4>1. Pending[p] # None /\ p \in Lambdas
          BY DEF Map!Using
        <4>2. request[p] \in Request /\ Pending[p] = request[p].cmd
          BY <4>1 DEF Pending, ProxyType
        <4> QED
          BY <4>2, RequestFacts, CommandFacts
      <3> QED
        BY <3>1 DEF Map!Coming
    <2>4. may' \in [Lambdas -> SUBSET Values]
      <3>1. \A q \in Lambdas : may'[q] \subseteq Values
        BY <2>1, <2>3 DEF HistoryType
      <3>2. may' = [q \in Lambdas |-> may'[q]]
        OBVIOUS
      <3> QED
        BY <3>1, <3>2
    <2> QED
      BY <2>2, <2>4 DEF HistoryType
  <1>3. ConnInv'
    BY DEF ConnInv, ProxyType, StoreType, RoleInv, ReadyInv
  <1>4. ItemInv'
    BY DEF ItemInv, Awaiting, Waits, AdapterType, ProxyType, CopyType, StageInv, Running, RoleInv
  <1>5. (StoreType /\ SourceType /\ LinkType /\ AdapterType /\ CopyType /\ RoleInv /\ StageInv /\ ReadyInv /\ CountInv)'
    BY DEF StoreType, SourceType, LinkType, AdapterType, CopyType, RoleInv, StageInv, Running,
       ReadyInv, CountInv, Awaiting
  <1> QED
    BY <1>1, <1>2, <1>3, <1>4, <1>5

\* Serve: a handler on the plain store answers; the adapter holds no command of that lambda.
LEMMA ServeStep ==
    ASSUME IInv, NEW l \in Lambdas, Serve(l)
    PROVE  IInv'
  <1> USE DEF IInv, Serve, sourceVars, linkVars, adapterVars, copyVars, counters
  <1>1. request[l] \in Request /\ request[l].cmd \in Command
    BY RequestFacts DEF ProxyType
  <1>2. promise' \in BOOLEAN
    BY DEF HistoryType
  <1>3. /\ HistoryType' /\ request' \in [Lambdas -> {None} \cup Request]
        /\ request'[l] = None /\ \A m \in Lambdas \ {l} : request'[m] = request[m]
    BY <1>2, AnswerFacts
  <1>4. ProxyType'
    BY <1>3 DEF ProxyType
  <1>5. StoreType'
    BY <1>1, StoreFacts DEF StoreType
  <1>6. HistoryType'
    BY <1>3
  <1>7. ConnInv'
    BY <1>3 DEF ConnInv
  <1>8. ItemInv'
    BY <1>3 DEF ItemInv, Awaiting, Waits, StageInv, RoleInv, AdapterType, ProxyType
  <1>9. (SourceType /\ LinkType /\ AdapterType /\ CopyType /\ RoleInv /\ StageInv /\ ReadyInv /\ CountInv)'
    BY DEF SourceType, LinkType, AdapterType, CopyType, RoleInv, StageInv, Running, ReadyInv,
       CountInv, Awaiting
  <1> QED
    BY <1>4, <1>5, <1>6, <1>7, <1>8, <1>9

\* Serialize: the adapter queues the proxy's command, which was the only one not queued yet.
LEMMA SerializeStep ==
    ASSUME IInv, NEW l \in Lambdas, Serialize(l)
    PROVE  IInv'
  <1> USE DEF IInv, Serialize, Adapted, lambdaVars, sourceVars, linkVars, copyVars, historyVars,
     counters
  <1> DEFINE i == [by |-> "proxy", cmd |-> request[l].cmd]
  <1>1. /\ request[l] \in Request /\ l = dest /\ adapter = "on"
        /\ request[l].cmd \in Command
    BY RequestFacts DEF ProxyType
  <1>2. i \in Item /\ serializer' = Append(serializer, i) /\ i.by = "proxy" /\ i.cmd = request[l].cmd
    BY <1>1, RequestMakers
  <1>3. /\ request'[l] = [request[l] EXCEPT !.stage = "queued"]
        /\ \A m \in Lambdas \ {l} : request'[m] = request[m]
        /\ request' \in [Lambdas -> {None} \cup Request]
    BY <1>1, RequestMakers DEF ProxyType
  <1>4. /\ request'[l] # None /\ request'[l].stage = "queued" /\ request'[l].cmd = i.cmd
    <2>1. \A r \in Request : r # None
      BY RequestFacts
    <2>2. /\ [request[l] EXCEPT !.stage = "queued"] \in Request
          /\ [request[l] EXCEPT !.stage = "queued"].stage = "queued"
          /\ [request[l] EXCEPT !.stage = "queued"].cmd = request[l].cmd
      BY ONLY <1>1, RequestMakers
    <2> QED
      BY ONLY <1>2, <1>3, <2>1, <2>2
  <1>5. ProxyType'
    BY <1>3 DEF ProxyType
  <1>6. AdapterType'
    BY <1>1, <1>2, CommandFacts DEF AdapterType, TakeCmd
  <1>7. ConnInv'
    BY <1>1, <1>3, RequestFacts DEF ConnInv
  <1>8. StageInv'
    BY <1>1, <1>2, <1>3, <1>4 DEF StageInv, Running, LinkType, CopyType, AdapterType, RoleInv,
       ItemInv, Waits, Awaiting
  <1>9. ItemInv'
    <2>1. \A it \in Item : Waits(it) => it.by # "proxy" /\ Waits(it)'
      BY <1>1, RequestFacts DEF Waits
    <2>2. /\ Len(serializer') = Len(serializer) + 1 /\ serializer'[Len(serializer) + 1] = i
          /\ \A j \in 1 .. Len(serializer) : serializer'[j] = serializer[j] /\ serializer[j] \in Item
          /\ Len(serializer) \in Nat
      BY <1>2 DEF AdapterType
    <2>3. Waits(i)'
      BY <1>1, <1>2, <1>4 DEF Waits
    <2>4. \A j \in 1 .. Len(serializer) : Waits(serializer[j])
      BY DEF ItemInv
    <2>5. \A j \in 1 .. Len(serializer') : Waits(serializer[j])'
      BY <2>1, <2>2, <2>3, <2>4
    <2>6. \A j, m \in 1 .. Len(serializer') : serializer'[j].by = serializer'[m].by => j = m
      BY <1>2, <2>1, <2>2, <2>4 DEF ItemInv
    <2>7. Awaiting => Waits(handling.item)' /\ handling.item.by # "proxy"
      BY <2>1, RequestFacts DEF ItemInv, Awaiting, AdapterType
    <2>8. UNCHANGED handling /\ (Awaiting' <=> Awaiting)
      BY DEF Awaiting
    <2>9. Awaiting => \A j \in 1 .. Len(serializer') : serializer'[j].by # handling.item.by
      BY <1>2, <2>2, <2>7 DEF ItemInv
    <2> QED
      BY <2>5, <2>6, <2>7, <2>8, <2>9 DEF ItemInv
  <1>10. (StoreType /\ SourceType /\ LinkType /\ CopyType /\ HistoryType /\ RoleInv /\ ReadyInv /\ CountInv)'
    BY DEF StoreType, SourceType, LinkType, CopyType, HistoryType, RoleInv, ReadyInv,
       CountInv, Awaiting
  <1> QED
    BY <1>5, <1>6, <1>7, <1>8, <1>9, <1>10

\* Disconnect: the command under way is given up on, but goes on; the connection is closing.
LEMMA DisconnectStep ==
    ASSUME IInv, NEW l \in Lambdas, Disconnect(l)
    PROVE  IInv'
  <1> USE DEF IInv, Disconnect, Dropped, lambdaVars, sourceVars, linkVars, adapterVars, copyVars
  <1>1. /\ request' \in [Lambdas -> {None} \cup Request]
        /\ \A m \in Lambdas : request'[m] = None <=> request[m] = None
        /\ \A m \in Lambdas : request[m] # None => request'[m].stage = request[m].stage /\ request'[m].cmd = request[m].cmd
    <2>1. request[l] # None => request[l] \in Request
      BY DEF ProxyType
    <2>2. CASE request[l] = None
      BY <2>2 DEF ProxyType
    <2>3. CASE request[l] # None
      <3>1. request' = [request EXCEPT ![l] = [request[l] EXCEPT !.live = FALSE]]
        BY <2>3
      <3>2. /\ [request[l] EXCEPT !.live = FALSE] \in Request
            /\ [request[l] EXCEPT !.live = FALSE].stage = request[l].stage
            /\ [request[l] EXCEPT !.live = FALSE].cmd = request[l].cmd
        BY ONLY <2>1, <2>3, RequestMakers
      <3>3. /\ request'[l] = [request[l] EXCEPT !.live = FALSE]
            /\ \A m \in Lambdas \ {l} : request'[m] = request[m]
            /\ request' \in [Lambdas -> {None} \cup Request]
        BY ONLY <3>1, <3>2, ProxyType DEF ProxyType
      <3>4. \A r \in Request : r # None
        BY RequestFacts
      <3> QED
        BY ONLY <2>3, <3>2, <3>3, <3>4
    <2> QED
      BY <2>2, <2>3
  <1>2. ProxyType'
    BY <1>1 DEF ProxyType
  <1>3. HistoryType'
    BY <1>1 DEF HistoryType
  <1>4. ConnInv'
    BY <1>1 DEF ConnInv, ProxyType, StoreType, RoleInv, ReadyInv
  <1>5. RoleInv'
    BY <1>1 DEF RoleInv, StoreType, ProxyType, ConnInv, StageInv, SourceType, LinkType,
       CopyType, Running
  <1>6. ReadyInv'
    BY <1>1 DEF ReadyInv, ProxyType, ConnInv, LinkType, RoleInv, StageInv, SourceType
  <1>7. ItemInv'
    <2>1. adapter # "off" => dest \in Lambdas
      BY DEF RoleInv
    <2>2. \A it \in Item : adapter # "off" /\ Waits(it) => Waits(it)'
      BY <1>1, <2>1 DEF Waits
    <2>3. \A j \in 1 .. Len(serializer) : serializer[j] \in Item
      BY DEF AdapterType
    <2>4. Awaiting => handling.item \in Item
      BY RequestFacts DEF AdapterType, Awaiting
    <2> QED
      BY <2>2, <2>3, <2>4 DEF ItemInv, Awaiting, StageInv
  <1>8. (StoreType /\ SourceType /\ LinkType /\ AdapterType /\ CopyType /\ StageInv /\ CountInv)'
    BY DEF StoreType, SourceType, LinkType, AdapterType, CopyType, StageInv, Running,
       CountInv, Awaiting
  <1> QED
    BY <1>2, <1>3, <1>4, <1>5, <1>6, <1>7, <1>8

\* EndConnection: SetReady, exactly when the connection of a source is gone.
LEMMA EndConnectionStep ==
    ASSUME IInv, NEW l \in Lambdas, EndConnection(l)
    PROVE  IInv'
  <1> USE DEF IInv, EndConnection, Served, Migrating, Adapted, linkVars, adapterVars, copyVars,
     historyVars, counters
  <1>1. ProxyType'
    BY DEF ProxyType
  <1>2. StoreType'
    BY DEF StoreType, ProxyType, ConnInv, RoleInv
  <1>3. SourceType'
    BY DEF SourceType
  <1>4. ConnInv'
    BY DEF ConnInv, ProxyType, StoreType, RoleInv, ReadyInv
  <1>5. RoleInv'
    BY DEF RoleInv, StoreType, ProxyType, ConnInv, StageInv, SourceType, LinkType, CopyType,
       Running
  <1>6. ReadyInv'
    BY DEF ReadyInv, ProxyType, ConnInv, LinkType, RoleInv, StageInv, SourceType
  <1>7. (LinkType /\ AdapterType /\ CopyType /\ HistoryType /\ StageInv /\ ItemInv /\ CountInv)'
    BY DEF LinkType, AdapterType, CopyType, HistoryType, StageInv, Running, ItemInv, Awaiting,
       Waits, CountInv
  <1> QED
    BY <1>1, <1>2, <1>3, <1>4, <1>5, <1>6, <1>7

\* Sleep: the invocation of an idle lambda that takes no part in a migration returns.
LEMMA SleepStep ==
    ASSUME IInv, NEW l \in Lambdas, Sleep(l)
    PROVE  IInv'
  <1> USE DEF IInv, Sleep, Connected, Migrating, Adapted, proxyVars, sourceVars, linkVars, adapterVars,
     copyVars, historyVars
  <1>1. StoreType'
    BY DEF StoreType, ProxyType, ConnInv
  <1>2. ConnInv'
    BY DEF ConnInv
  <1>3. RoleInv'
    BY DEF RoleInv
  <1>4. (ProxyType /\ SourceType /\ LinkType /\ AdapterType /\ CopyType /\ HistoryType)'
    BY DEF ProxyType, SourceType, LinkType, AdapterType, CopyType, HistoryType
  <1>5. (StageInv /\ ReadyInv /\ ItemInv /\ CountInv)'
    BY DEF StageInv, Running, ReadyInv, ItemInv, Awaiting, Waits, CountInv
  <1> QED
    BY <1>1, <1>2, <1>3, <1>4, <1>5

\* Invoke: the container was idle, so it takes no part in a migration.
LEMMA InvokeStep ==
    ASSUME IInv, NEW d \in Lambdas, Invoke(d)
    PROVE  IInv'
  <1> USE DEF IInv, Invoke, Connected, Idle, Dropped, sourceVars, linkVars, adapterVars, copyVars,
     historyVars, counters
  <1>1. ProxyType'
    BY DEF ProxyType
  <1>2. StoreType'
    BY DEF StoreType
  <1>3. HistoryType'
    BY DEF HistoryType
  <1>4. ConnInv'
    BY DEF ConnInv, ProxyType, StoreType
  <1>5. RoleInv'
    BY DEF RoleInv, StoreType, ProxyType
  <1>6. ReadyInv'
    BY DEF ReadyInv, ProxyType, RoleInv
  <1>7. (SourceType /\ LinkType /\ AdapterType /\ CopyType /\ StageInv /\ ItemInv /\ CountInv)'
    BY DEF SourceType, LinkType, AdapterType, CopyType, StageInv, Running, ItemInv, Awaiting,
       Waits, CountInv
  <1> QED
    BY <1>1, <1>2, <1>3, <1>4, <1>5, <1>6, <1>7

\* Join: a destination that dials the proxy takes over, and the connection it replaces is closing.
LEMMA JoinStep ==
    ASSUME IInv, NEW d \in Lambdas, Join(d)
    PROVE  IInv'
  <1> USE DEF IInv, Join, Dropped, sourceVars, linkVars, adapterVars, copyVars, historyVars, counters
  <1>1. ProxyType'
    BY DEF ProxyType
  <1>2. StoreType'
    BY DEF StoreType, ProxyType, ConnInv, RoleInv
  <1>3. HistoryType'
    BY DEF HistoryType
  <1>4. ConnInv'
    BY DEF ConnInv, ProxyType, StoreType, RoleInv, ReadyInv
  <1>5. RoleInv'
    BY DEF RoleInv, StoreType, ProxyType, ConnInv, StageInv, SourceType, LinkType, CopyType,
       Running
  <1>6. ReadyInv'
    BY DEF ReadyInv, ProxyType, ConnInv, LinkType, RoleInv, StageInv, SourceType
  <1>7. (SourceType /\ LinkType /\ AdapterType /\ CopyType /\ StageInv /\ ItemInv /\ CountInv)'
    BY DEF SourceType, LinkType, AdapterType, CopyType, StageInv, Running, ItemInv, Awaiting,
       Waits, CountInv
  <1> QED
    BY <1>1, <1>2, <1>3, <1>4, <1>5, <1>6, <1>7

\* Die: a lambda is reclaimed.
LEMMA DieStep ==
    ASSUME IInv, NEW l \in Lambdas, Die(l)
    PROVE  IInv'
  <1>1. promise' \in BOOLEAN
    BY DEF IInv, HistoryType, Die
  <1> QED
    BY <1>1, DiesFacts DEF Die

\* Migrate: the destination was idle, so it is not the current lambda and has no connection.
LEMMA MigrateStep ==
    ASSUME IInv, NEW s \in Lambdas, NEW d \in Lambdas, Migrate(s, d)
    PROVE  IInv'
  <1> USE DEF IInv, Migrate, TimeIsUp, Connected, Idle, Listening, StartServing, proxyVars,
     adapterVars, historyVars
  <1>1. StoreType'
    BY DEF StoreType, ProxyType, ConnInv, RoleInv
  <1>2. SourceType'
    BY DEF SourceType
  <1>3. LinkType'
    BY DEF LinkType
  <1>4. CopyType'
    BY DEF CopyType
  <1>5. HistoryType'
    BY DEF HistoryType
  <1>6. ConnInv'
    BY DEF ConnInv, ProxyType, StoreType, RoleInv, ReadyInv
  <1>7. RoleInv'
    BY MigrationAssumption DEF RoleInv, StoreType, ProxyType, ConnInv, StageInv, SourceType,
       LinkType, CopyType, Running
  <1>8. StageInv'
    BY DEF StageInv, Running, LinkType, CopyType, AdapterType, RoleInv, ItemInv, Waits, Awaiting
  <1>9. ReadyInv'
    BY DEF ReadyInv, ProxyType, ConnInv, LinkType, RoleInv, StageInv, SourceType
  <1>10. ItemInv'
    BY DEF ItemInv, Awaiting, Waits, AdapterType, ProxyType, CopyType, StageInv, Running, RoleInv
  <1>11. CountInv'
    BY DEF CountInv, Awaiting, LinkType, StageInv, AdapterType, CopyType, Running, ItemInv, Waits
  <1>12. (ProxyType /\ AdapterType)'
    BY DEF ProxyType, AdapterType
  <1> QED
    BY <1>1, <1>2, <1>3, <1>4, <1>5, <1>6, <1>7, <1>8, <1>9, <1>10, <1>11, <1>12

\* Hello: the destination's first words on the link, and the adapter and the goroutine of Migrate start.
LEMMA HelloStep ==
    ASSUME IInv, Hello
    PROVE  IInv'
  <1> USE DEF IInv, Hello, Bridged, proxyVars, sourceVars, historyVars, counters
  <1>1. StoreType'
    BY DEF StoreType, ProxyType, ConnInv, RoleInv
  <1>2. LinkType'
    BY DEF LinkType
  <1>3. AdapterType'
    BY DEF AdapterType
  <1>4. CopyType'
    BY DEF CopyType
  <1>5. ConnInv'
    BY DEF ConnInv, ProxyType, StoreType, RoleInv, ReadyInv
  <1>6. RoleInv'
    BY DEF RoleInv, StoreType, ProxyType, ConnInv, StageInv, SourceType, LinkType, CopyType,
       Running
  <1>7. StageInv'
    BY DEF StageInv, Running, LinkType, CopyType, AdapterType, RoleInv, ItemInv, Waits, Awaiting
  <1>8. ReadyInv'
    BY DEF ReadyInv, ProxyType, ConnInv, LinkType, RoleInv, StageInv, SourceType
  <1>9. ItemInv'
    BY DEF ItemInv, Awaiting, Waits, AdapterType, ProxyType, CopyType, StageInv, Running, RoleInv
  <1>10. CountInv'
    BY DEF CountInv, Awaiting, LinkType, StageInv, AdapterType, CopyType, Running, ItemInv, Waits
  <1>11. (ProxyType /\ SourceType /\ HistoryType)'
    BY DEF ProxyType, SourceType, HistoryType
  <1> QED
    BY <1>1, <1>2, <1>3, <1>4, <1>5, <1>6, <1>7, <1>8, <1>9, <1>10, <1>11

\* HelloFailed: the invocation of a destination that could not reach the migrator returns.
LEMMA HelloFailedStep ==
    ASSUME IInv, HelloFailed
    PROVE  IInv'
  <1> USE DEF IInv, HelloFailed, proxyVars, sourceVars, linkVars, adapterVars, historyVars,
     counters
  <1>1. StoreType'
    BY DEF StoreType, ProxyType, ConnInv, RoleInv
  <1>2. CopyType'
    BY DEF CopyType
  <1>3. ConnInv'
    BY DEF ConnInv, ProxyType, StoreType, RoleInv, ReadyInv
  <1>4. RoleInv'
    BY DEF RoleInv, StoreType, ProxyType, ConnInv, StageInv, SourceType, LinkType, CopyType,
       Running
  <1>5. StageInv'
    BY DEF StageInv, Running, LinkType, CopyType, AdapterType, RoleInv, ItemInv, Waits, Awaiting
  <1>6. ItemInv'
    BY DEF ItemInv, Awaiting, Waits, AdapterType, ProxyType, CopyType, StageInv, Running, RoleInv
  <1>7. CountInv'
    BY DEF CountInv, Awaiting, LinkType, StageInv, AdapterType, CopyType, Running, ItemInv, Waits
  <1>8. (ProxyType /\ SourceType /\ LinkType /\ AdapterType /\ HistoryType /\ ReadyInv)'
    BY DEF ProxyType, SourceType, LinkType, AdapterType, HistoryType, ReadyInv
  <1> QED
    BY <1>1, <1>2, <1>3, <1>4, <1>5, <1>6, <1>7, <1>8

\* MHello: the list takes the place of the hello on the link.
LEMMA MHelloStep ==
    ASSUME IInv, MHello
    PROVE  IInv'
  <1> USE DEF IInv, MHello, NextCommand, Reply, SafeToProceed, proxyVars, lambdaVars,
     sourceVars, adapterVars, copyVars, historyVars, counters
  <1>1. LinkType'
    <2>1. Tail(toSource) \in Seq({HelloCommand} \cup Command)
      BY DEF LinkType
    <2>2. [kind |-> "list", list |-> KeyList(source)] \in Replies
      BY DEF Replies, KeyLists, KeyList
    <2>3. toDest' \in Seq(Replies)
      BY <2>2 DEF LinkType
    <2> QED
      BY <2>1, <2>3 DEF LinkType
  <1>2. StageInv'
    BY DEF StageInv, Running, LinkType, CopyType, AdapterType, RoleInv, ItemInv, Waits, Awaiting
  <1>3. ReadyInv'
    BY DEF ReadyInv, ProxyType, ConnInv, LinkType, RoleInv, StageInv, SourceType
  <1>4. CountInv'
    BY DEF CountInv, Awaiting, LinkType, StageInv, AdapterType, CopyType, Running, ItemInv, Waits
  <1>5. (ProxyType /\ StoreType /\ SourceType /\ AdapterType /\ CopyType /\ HistoryType /\ ConnInv /\ RoleInv /\ ItemInv)'
    BY DEF ProxyType, StoreType, SourceType, AdapterType, CopyType, HistoryType, ConnInv,
       RoleInv, ItemInv, Awaiting, Waits
  <1> QED
    BY <1>1, <1>2, <1>3, <1>4, <1>5

\* ServeForwarded: the reply takes the place of the command on the link.
LEMMA ServeForwardedStep ==
    ASSUME IInv, ServeForwarded
    PROVE  IInv'
  <1> USE DEF IInv, ServeForwarded, NextCommand, Reply, proxyVars, sourceVars, adapterVars,
     copyVars, historyVars, counters
  <1>1. Head(toSource) \in Command /\ source \in Lambdas
    BY DEF LinkType, RoleInv
  <1>2. StoreType'
    BY <1>1, StoreFacts DEF StoreType
  <1>3. LinkType'
    <2>1. Tail(toSource) \in Seq({HelloCommand} \cup Command)
      BY DEF LinkType
    <2>2. [kind |-> "result", result |-> Result(source, Head(toSource))] \in Replies
      BY <1>1, StoreFacts DEF Replies
    <2>3. toDest' \in Seq(Replies)
      BY <2>2 DEF LinkType
    <2> QED
      BY <2>1, <2>3 DEF LinkType
  <1>4. StageInv'
    BY <1>1 DEF StageInv, Running, LinkType, CopyType, AdapterType, RoleInv, ItemInv, Waits,
       Awaiting
  <1>5. ReadyInv'
    BY <1>1 DEF ReadyInv, ProxyType, ConnInv, LinkType, RoleInv, StageInv, SourceType
  <1>6. CountInv'
    BY <1>1 DEF CountInv, Awaiting, LinkType, StageInv, AdapterType, CopyType, Running,
       ItemInv, Waits
  <1>7. (ProxyType /\ SourceType /\ AdapterType /\ CopyType /\ HistoryType /\ ConnInv /\ RoleInv /\ ItemInv)'
    BY DEF ProxyType, SourceType, AdapterType, CopyType, HistoryType, ConnInv, RoleInv,
       ItemInv, Awaiting, Waits
  <1> QED
    BY <1>2, <1>3, <1>4, <1>5, <1>6, <1>7

\* EndServing: WaitForMigration returns once the link is closed.
LEMMA EndServingStep ==
    ASSUME IInv, EndServing
    PROVE  IInv'
  <1> USE DEF IInv, EndServing, proxyVars, linkVars, adapterVars, copyVars, historyVars, counters
  <1>1. StoreType'
    BY DEF StoreType, ProxyType, ConnInv, RoleInv
  <1>2. SourceType'
    BY DEF SourceType
  <1>3. ConnInv'
    BY DEF ConnInv, ProxyType, StoreType, RoleInv, ReadyInv
  <1>4. RoleInv'
    BY DEF RoleInv, StoreType, ProxyType, ConnInv, StageInv, SourceType, LinkType, CopyType,
       Running
  <1>5. StageInv'
    BY DEF StageInv, Running, LinkType, CopyType, AdapterType, RoleInv, ItemInv, Waits, Awaiting
  <1>6. ReadyInv'
    BY DEF ReadyInv, ProxyType, ConnInv, LinkType, RoleInv, StageInv, SourceType
  <1>7. (ProxyType /\ LinkType /\ AdapterType /\ CopyType /\ HistoryType /\ ItemInv /\ CountInv)'
    BY DEF ProxyType, LinkType, AdapterType, CopyType, HistoryType, ItemInv, Awaiting, Waits,
       CountInv
  <1> QED
    BY <1>1, <1>2, <1>3, <1>4, <1>5, <1>6, <1>7

\* LinkFails: the migrator closes the link, and what is on the way may be lost.
LEMMA LinkFailsStep ==
    ASSUME IInv, LinkFails
    PROVE  IInv'
  <1> USE DEF IInv, LinkFails, Closing, proxyVars, lambdaVars, sourceVars, adapterVars,
     copyVars, historyVars
  <1>1. LinkType'
    <2>1. <<>> \in Seq({HelloCommand} \cup Command) /\ <<>> \in Seq(Replies)
      OBVIOUS
    <2> QED
      BY <2>1 DEF LinkType
  <1>2. RoleInv'
    BY DEF RoleInv, StoreType, ProxyType, ConnInv, StageInv, SourceType, LinkType, CopyType,
       Running
  <1>3. StageInv'
    BY DEF StageInv, Running, LinkType, CopyType, AdapterType, RoleInv, ItemInv, Waits, Awaiting
  <1>4. ReadyInv'
    BY DEF ReadyInv, ProxyType, ConnInv, LinkType, RoleInv, StageInv, SourceType
  <1>5. CountInv'
    BY DEF CountInv, Awaiting, LinkType, StageInv, AdapterType, CopyType, Running, ItemInv, Waits
  <1>6. (ProxyType /\ StoreType /\ SourceType /\ AdapterType /\ CopyType /\ HistoryType /\ ConnInv /\ ItemInv)'
    BY DEF ProxyType, StoreType, SourceType, AdapterType, CopyType, HistoryType, ConnInv,
       ItemInv, Awaiting, Waits
  <1> QED
    BY <1>1, <1>2, <1>3, <1>4, <1>5, <1>6

\* AnswerHere: the adapter finds the chunk in the destination's own store.
LEMMA AnswerHereStep ==
    ASSUME IInv, AnswerHere
    PROVE  IInv'
  <1>1. /\ UNCHANGED <<current, conn, repo, running, joining, source, dest, serving, ready>>
        /\ UNCHANGED <<link, toSource, toDest, adapter, promise, handling, taken>>
    BY DEF AnswerHere, lambdaVars, sourceVars, linkVars
  <1> QED
    BY <1>1, HeadDone DEF AnswerHere

\* Forward: the adapter's goroutine sends the next command and waits for its reply.
LEMMA ForwardStep ==
    ASSUME IInv, Forward
    PROVE  IInv'
  <1> USE DEF IInv, Forward, NextItem, proxyVars, lambdaVars, sourceVars, copyVars, historyVars,
     counters
  <1> DEFINE i == Head(serializer)
             h == [item |-> i, stage |-> "sent", val |-> None]
  <1>1. /\ i \in Item /\ Waits(i) /\ handling = None /\ serializer' = Tail(serializer)
        /\ Tail(serializer) \in Seq(Item)
        /\ \A j \in 1 .. Len(Tail(serializer)) : /\ Tail(serializer)[j] = serializer[j + 1]
                                                 /\ j + 1 \in 1 .. Len(serializer)
                                                 /\ Tail(serializer)[j].by # i.by
                                                 /\ Tail(serializer)[j] \in Item
    BY HeadItem
  <1>2. h \in Handling /\ handling' = h /\ h.item = i /\ h.stage = "sent"
    BY <1>1, RequestMakers
  <1>3. Awaiting' /\ ~Awaiting
    BY <1>1, <1>2, RequestFacts DEF Awaiting
  <1>4. i.cmd \in Command
    BY <1>1, RequestFacts
  <1>5. LinkType'
    <2>1. Append(toSource, i.cmd) \in Seq({HelloCommand} \cup Command)
      BY <1>4 DEF LinkType
    <2> QED
      BY <2>1 DEF LinkType
  <1>6. AdapterType'
    BY <1>1, <1>2 DEF AdapterType
  <1>7. StageInv'
    BY <1>1, <1>2, <1>3, <1>4 DEF StageInv, Running, LinkType, CopyType, AdapterType, RoleInv,
       ItemInv, Waits, Awaiting
  <1>8. ReadyInv'
    <2>1. CASE link # "open"
      BY <2>1 DEF ReadyInv
    <2>2. CASE link = "open" /\ toSource # <<>>
      <3>1. Append(toSource, i.cmd) # <<>> /\ Head(Append(toSource, i.cmd)) = Head(toSource)
        BY <2>2, <1>4 DEF LinkType
      <3>2. toSource' = Append(toSource, i.cmd)
        BY <2>2
      <3> QED
        BY <2>2, <3>1, <3>2 DEF ReadyInv
    <2>3. CASE link = "open" /\ toSource = <<>>
      BY <2>3 DEF ReadyInv
    <2> QED
      BY <2>1, <2>2, <2>3
  <1>9. ItemInv'
    <2>1. \A it \in Item : Waits(it)' <=> Waits(it)
      BY DEF Waits
    <2>2. \A j \in 1 .. Len(serializer') : /\ Waits(serializer[j])' /\ serializer'[j].by # h.item.by
      BY <1>1, <1>2, <2>1 DEF ItemInv
    <2>3. \A j, m \in 1 .. Len(Tail(serializer)) :
             Tail(serializer)[j].by = Tail(serializer)[m].by => j = m
      BY <1>1 DEF ItemInv
    <2>4. Waits(handling.item)'
      BY <1>1, <1>2, <2>1
    <2> QED
      BY <1>1, <1>2, <1>3, <2>2, <2>3, <2>4 DEF ItemInv
  <1>10. CountInv'
    <2>1. Len(toSource) \in Nat /\ Len(toDest) \in Nat /\ Len(Append(toSource, i.cmd)) = Len(toSource) + 1
      BY <1>4 DEF LinkType
    <2> QED
      BY <1>3, <2>1 DEF CountInv
  <1>11. (ProxyType /\ StoreType /\ SourceType /\ CopyType /\ HistoryType /\ ConnInv /\ RoleInv)'
    BY DEF ProxyType, StoreType, SourceType, CopyType, HistoryType, ConnInv, RoleInv
  <1> QED
    BY <1>5, <1>6, <1>7, <1>8, <1>9, <1>10, <1>11

\* SendFails: the next command cannot be sent.
LEMMA SendFailsStep ==
    ASSUME IInv, SendFails
    PROVE  IInv'
  <1>1. /\ UNCHANGED <<current, conn, repo, running, joining, source, dest, serving, ready>>
        /\ UNCHANGED <<link, toSource, toDest, adapter, promise, handling, taken>>
    BY DEF SendFails, lambdaVars, sourceVars, linkVars
  <1> QED
    BY <1>1, HeadDone DEF SendFails

\* ReplyError: the source has answered with an error.
LEMMA ReplyErrorStep ==
    ASSUME IInv, ReplyError
    PROVE  IInv'
  <1>1. Awaiting /\ handling \in Handling /\ handling.item \in Item /\ handling.item.cmd \in Command
    BY RequestFacts DEF IInv, AdapterType, Awaiting, ReplyError, NextReply
  <1>2. /\ UNCHANGED <<current, conn, running, joining, source, dest, serving, ready>>
        /\ UNCHANGED <<link, toSource, adapter, taken, serializer>>
    BY DEF ReplyError, lambdaVars, sourceVars
  <1>3. promise' \in BOOLEAN
    BY DEF IInv, HistoryType, ReplyError, NextReply
  <1>4. dest \in Lambdas
    BY <1>1, RequestFacts DEF IInv, Awaiting, StageInv, RoleInv
  <1>5. repo' \in [Lambdas -> [Keys -> Values \cup {Absent, Deleted}]]
    BY DEF IInv, StoreType, ReplyError, lambdaVars
  <1> QED
    BY <1>1, <1>2, <1>3, <1>5, HandledDone DEF ReplyError, NextReply

\* ReplyDone: the source has done a SET or DEL, and the destination's store follows.
LEMMA ReplyDoneStep ==
    ASSUME IInv, ReplyDone
    PROVE  IInv'
  <1>1. Awaiting /\ handling \in Handling /\ handling.item \in Item /\ handling.item.cmd \in Command
    BY RequestFacts DEF IInv, AdapterType, Awaiting, ReplyDone, NextReply
  <1>2. /\ UNCHANGED <<current, conn, running, joining, source, dest, serving, ready>>
        /\ UNCHANGED <<link, toSource, adapter, taken, serializer>>
    BY DEF ReplyDone, lambdaVars, sourceVars
  <1>3. promise' \in BOOLEAN
    BY DEF IInv, HistoryType, ReplyDone, NextReply
  <1>4. dest \in Lambdas
    BY <1>1, RequestFacts DEF IInv, Awaiting, StageInv, RoleInv
  <1>5. repo' \in [Lambdas -> [Keys -> Values \cup {Absent, Deleted}]]
    BY <1>1, <1>4, StoreFacts DEF IInv, ReplyDone
  <1> QED
    BY <1>1, <1>2, <1>3, <1>5, HandledDone DEF ReplyDone, NextReply

\* ReplyValue: the source has sent a value; for the proxy's GET it is stored afterwards.
LEMMA ReplyValueStep ==
    ASSUME IInv, ReplyValue
    PROVE  IInv'
  <1>1. Awaiting /\ handling \in Handling /\ handling.item \in Item /\ handling.item.cmd \in Command
    BY RequestFacts DEF IInv, AdapterType, Awaiting, ReplyValue, NextReply
  <1>2. /\ UNCHANGED <<current, conn, running, joining, source, dest, serving, ready>>
        /\ UNCHANGED <<link, toSource, adapter, taken, serializer>>
    BY DEF ReplyValue, lambdaVars, sourceVars
  <1>3. promise' \in BOOLEAN
    BY DEF IInv, HistoryType, ReplyValue, NextReply
  <1>4. dest \in Lambdas
    BY <1>1, RequestFacts DEF IInv, Awaiting, StageInv, RoleInv
  <1>5. repo' \in [Lambdas -> [Keys -> Values \cup {Absent, Deleted}]]
    <2>1. handling.item.cmd.key \in Keys
      BY <1>1, CommandFacts
    <2> QED
      BY <1>4, <2>1 DEF IInv, StoreType, ReplyValue, Put
  <1>6. \/ handling' = None
        \/ /\ handling.item.by = "proxy" /\ handling.item.cmd.op = "get"
           /\ handling' \in Handling /\ handling'.item = handling.item
           /\ handling'.stage = "store" /\ handling'.val \in Values
    <2>1. CASE handling.item.by = "migrate"
      BY <2>1 DEF ReplyValue
    <2>2. CASE handling.item.by # "migrate"
      <3>1. /\ handling' = [handling EXCEPT !.stage = "store", !.val = Outcome] /\ Outcome \in Values
            /\ handling.item.by = "proxy" /\ handling.item.cmd.op = "get"
        BY <1>1, <2>2, RequestFacts DEF ReplyValue
      <3> QED
        BY <1>1, <3>1, RequestMakers DEF Handling
    <2> QED
      BY <2>1, <2>2
  <1>7. toDest # <<>> /\ toDest' = Tail(toDest) /\ Complete(handling.item, Outcome)
    BY DEF ReplyValue, NextReply
  <1> QED
    BY <1>1, <1>2, <1>3, <1>5, <1>6, <1>7, HandledDone

\* ReplyPanic: a GET that takes another's reply kills the destination.
LEMMA ReplyPanicStep ==
    ASSUME IInv, ReplyPanic
    PROVE  IInv'
  <1>1. dest \in Lambdas
    BY DEF IInv, ReplyPanic, StageInv, RoleInv
  <1> QED
    BY <1>1, DiesFacts DEF ReplyPanic

\* StoreCopy: the value that was passed on is kept, or its stream broke.
LEMMA StoreCopyStep ==
    ASSUME IInv, StoreCopy
    PROVE  IInv'
  <1> USE DEF IInv, StoreCopy, Intercepted, proxyVars, sourceVars, linkVars, copyVars,
     historyVars, counters
  <1>1. StoreType'
    <2>1. /\ handling \in Handling /\ handling.item.cmd.key \in Keys /\ handling.val \in Values \cup {None}
          /\ taken # None => taken \in Keys
      BY RequestFacts, CommandFacts DEF AdapterType
    <2>2. dest \in Lambdas
      BY DEF StageInv, RoleInv
    <2> QED
      BY <2>1, <2>2 DEF StoreType, Put
  <1>2. AdapterType' /\ HistoryType'
    BY DEF AdapterType, HistoryType
  <1>3. StageInv'
    BY DEF StageInv, Running, LinkType, CopyType, AdapterType, RoleInv, ItemInv, Waits, Awaiting
  <1>4. ItemInv'
    BY DEF ItemInv, Awaiting, Waits, AdapterType, ProxyType, CopyType, StageInv, Running, RoleInv
  <1>5. CountInv'
    BY DEF CountInv, Awaiting, LinkType, StageInv, AdapterType, CopyType, Running, ItemInv, Waits
  <1>6. (ProxyType /\ SourceType /\ LinkType /\ CopyType /\ ConnInv /\ RoleInv /\ ReadyInv)'
    BY DEF ProxyType, SourceType, LinkType, CopyType, ConnInv, RoleInv, ReadyInv
  <1> QED
    BY <1>1, <1>2, <1>3, <1>4, <1>5, <1>6

\* ReplyClosed: the link is closed and no reply is left.
LEMMA ReplyClosedStep ==
    ASSUME IInv, ReplyClosed
    PROVE  IInv'
  <1>1. Awaiting
    BY DEF Awaiting, ReplyClosed
  <1>2. /\ UNCHANGED <<current, conn, running, joining, source, dest, serving, ready>>
        /\ UNCHANGED <<link, toSource, toDest, adapter, taken, serializer>> /\ link # "open"
    BY DEF ReplyClosed, lambdaVars, sourceVars, linkVars
  <1>3. promise' \in BOOLEAN /\ repo' \in [Lambdas -> [Keys -> Values \cup {Absent, Deleted}]]
    BY DEF IInv, HistoryType, StoreType, ReplyClosed, lambdaVars
  <1> QED
    BY <1>1, <1>2, <1>3, HandledDone DEF ReplyClosed

\* AdapterEnds: the adapter's goroutine returns, and a command left in the channel is dropped.
LEMMA AdapterEndsStep ==
    ASSUME IInv, AdapterEnds
    PROVE  IInv'
  <1> USE DEF IInv, AdapterEnds, proxyVars, lambdaVars, sourceVars, linkVars, copyVars,
     historyVars, counters
  <1>1. AdapterType'
    BY DEF AdapterType
  <1>2. RoleInv'
    BY DEF RoleInv, StoreType, ProxyType, ConnInv, StageInv, SourceType, LinkType, CopyType,
       Running
  <1>3. StageInv'
    BY DEF StageInv, Running, LinkType, CopyType, AdapterType, RoleInv, ItemInv, Waits, Awaiting
  <1>4. ItemInv'
    BY DEF ItemInv, Awaiting, Waits, AdapterType, ProxyType, CopyType, StageInv, Running, RoleInv
  <1>5. (ProxyType /\ StoreType /\ SourceType /\ LinkType /\ CopyType /\ HistoryType /\ ConnInv /\ ReadyInv /\ CountInv)'
    BY DEF ProxyType, StoreType, SourceType, LinkType, CopyType, HistoryType, ConnInv,
       ReadyInv, CountInv, Awaiting
  <1> QED
    BY <1>1, <1>2, <1>3, <1>4, <1>5

\* ReadList: the goroutine of Migrate takes the first reply, the list or not.
LEMMA ReadListStep ==
    ASSUME IInv, ReadList
    PROVE  IInv'
  <1> USE DEF IInv, ReadList, proxyVars, lambdaVars, sourceVars, adapterVars, historyVars,
     counters
  <1>1. LinkType'
    BY DEF LinkType
  <1>2. CopyType'
    <2>1. Head(toDest) \in Replies
      BY DEF LinkType
    <2>2. Head(toDest).kind = "list" => Head(toDest).list \in KeyLists
      BY <2>1 DEF Replies
    <2> QED
      BY <2>2 DEF CopyType
  <1>3. HistoryType'
    BY DEF HistoryType
  <1>4. RoleInv'
    BY DEF RoleInv, StoreType, ProxyType, ConnInv, StageInv, SourceType, LinkType, CopyType,
       Running
  <1>5. StageInv'
    BY DEF StageInv, Running, LinkType, CopyType, AdapterType, RoleInv, ItemInv, Waits, Awaiting
  <1>6. ItemInv'
    BY DEF ItemInv, Awaiting, Waits, AdapterType, ProxyType, CopyType, StageInv, Running, RoleInv
  <1>7. CountInv'
    BY DEF CountInv, Awaiting, LinkType, StageInv, AdapterType, CopyType, Running, ItemInv, Waits
  <1>8. (ProxyType /\ StoreType /\ SourceType /\ AdapterType /\ ConnInv /\ ReadyInv)'
    BY DEF ProxyType, StoreType, SourceType, AdapterType, ConnInv, ReadyInv
  <1> QED
    BY <1>1, <1>2, <1>3, <1>4, <1>5, <1>6, <1>7, <1>8

\* ReadFails: the link is closed before the list has come.
LEMMA ReadFailsStep ==
    ASSUME IInv, ReadFails
    PROVE  IInv'
  <1> USE DEF IInv, ReadFails, proxyVars, lambdaVars, sourceVars, linkVars, adapterVars,
     historyVars, counters
  <1>1. CopyType'
    BY DEF CopyType
  <1>2. RoleInv'
    BY DEF RoleInv, StoreType, ProxyType, ConnInv, StageInv, SourceType, LinkType, CopyType,
       Running
  <1>3. StageInv'
    BY DEF StageInv, Running, LinkType, CopyType, AdapterType, RoleInv, ItemInv, Waits, Awaiting
  <1>4. ItemInv'
    BY DEF ItemInv, Awaiting, Waits, AdapterType, ProxyType, CopyType, StageInv, Running, RoleInv
  <1>5. CountInv'
    BY DEF CountInv, Awaiting, LinkType, StageInv, AdapterType, CopyType, Running, ItemInv, Waits
  <1>6. (ProxyType /\ StoreType /\ SourceType /\ LinkType /\ AdapterType /\ HistoryType /\ ConnInv /\ ReadyInv)'
    BY DEF ProxyType, StoreType, SourceType, LinkType, AdapterType, HistoryType, ConnInv, ReadyInv
  <1> QED
    BY <1>1, <1>2, <1>3, <1>4, <1>5, <1>6

\* LocalDel: a chunk deleted at the source is marked at the destination.
LEMMA LocalDelStep ==
    ASSUME IInv, NEW k \in Keys, LocalDel(k)
    PROVE  IInv'
  <1> USE DEF IInv, LocalDel, proxyVars, sourceVars, linkVars, adapterVars, historyVars, counters
  <1>1. StoreType'
    <2>1. dest \in Lambdas
      BY DEF StageInv, Running, RoleInv
    <2> QED
      BY <2>1 DEF StoreType, Del
  <1>2. CopyType'
    BY DEF CopyType, KeyLists
  <1>3. ItemInv'
    BY DEF ItemInv, Awaiting, Waits, AdapterType, ProxyType, CopyType, StageInv, Running, RoleInv
  <1>4. (ProxyType /\ SourceType /\ LinkType /\ AdapterType /\ HistoryType /\ ConnInv /\ RoleInv /\ StageInv /\ ReadyInv /\ CountInv)'
    BY DEF ProxyType, SourceType, LinkType, AdapterType, HistoryType, ConnInv, RoleInv,
       StageInv, Running, ReadyInv, CountInv, Awaiting
  <1> QED
    BY <1>1, <1>2, <1>3, <1>4

\* MigrateKey: the goroutine of Migrate queues the GET of a key, its only command.
LEMMA MigrateKeyStep ==
    ASSUME IInv, NEW k \in Keys, MigrateKey(k)
    PROVE  IInv'
  <1> USE DEF IInv, MigrateKey, proxyVars, lambdaVars, sourceVars, linkVars, historyVars, counters
  <1>1. AdapterType'
    <2>1. [by |-> "migrate", cmd |-> [op |-> "get", key |-> k, val |-> None]] \in Item
      BY CommandFacts, RequestMakers
    <2> QED
      BY <2>1 DEF AdapterType, TakeCmd
  <1>2. CopyType'
    BY DEF CopyType
  <1>3. RoleInv'
    BY DEF RoleInv, StoreType, ProxyType, ConnInv, StageInv, SourceType, LinkType, CopyType,
       Running
  <1>4. StageInv'
    BY DEF StageInv, Running, LinkType, CopyType, AdapterType, RoleInv, ItemInv, Waits, Awaiting
  <1>5. ItemInv'
    BY DEF ItemInv, Awaiting, Waits, AdapterType, ProxyType, CopyType, StageInv, Running, RoleInv
  <1>6. CountInv'
    BY DEF CountInv, Awaiting, LinkType, StageInv, AdapterType, CopyType, Running, ItemInv, Waits
  <1>7. (ProxyType /\ StoreType /\ SourceType /\ LinkType /\ HistoryType /\ ConnInv /\ ReadyInv)'
    BY DEF ProxyType, StoreType, SourceType, LinkType, HistoryType, ConnInv, ReadyInv
  <1> QED
    BY <1>1, <1>2, <1>3, <1>4, <1>5, <1>6, <1>7

\* EndMigration: no key is left.
LEMMA EndMigrationStep ==
    ASSUME IInv, EndMigration
    PROVE  IInv'
  <1> USE DEF IInv, EndMigration, proxyVars, lambdaVars, sourceVars, linkVars, adapterVars,
     historyVars, counters
  <1>1. CopyType'
    BY DEF CopyType
  <1>2. RoleInv'
    BY DEF RoleInv, StoreType, ProxyType, ConnInv, StageInv, SourceType, LinkType, CopyType,
       Running
  <1>3. StageInv'
    BY DEF StageInv, Running, LinkType, CopyType, AdapterType, RoleInv, ItemInv, Waits, Awaiting
  <1>4. ItemInv'
    BY DEF ItemInv, Awaiting, Waits, AdapterType, ProxyType, CopyType, StageInv, Running, RoleInv
  <1>5. CountInv'
    BY DEF CountInv, Awaiting, LinkType, StageInv, AdapterType, CopyType, Running, ItemInv, Waits
  <1>6. (ProxyType /\ StoreType /\ SourceType /\ LinkType /\ AdapterType /\ HistoryType /\ ConnInv /\ ReadyInv)'
    BY DEF ProxyType, StoreType, SourceType, LinkType, AdapterType, HistoryType, ConnInv, ReadyInv
  <1> QED
    BY <1>1, <1>2, <1>3, <1>4, <1>5, <1>6

\* Close: the deferred Close of the goroutine of Migrate.
LEMMA CloseStep ==
    ASSUME IInv, Close
    PROVE  IInv'
  <1> USE DEF IInv, Close, Closing, proxyVars, lambdaVars, sourceVars, adapterVars, historyVars,
     counters
  <1>1. LinkType'
    <2>1. <<>> \in Seq({HelloCommand} \cup Command) /\ <<>> \in Seq(Replies)
      OBVIOUS
    <2> QED
      BY <2>1 DEF LinkType
  <1>2. CopyType'
    BY DEF CopyType
  <1>3. RoleInv'
    BY DEF RoleInv, StoreType, ProxyType, ConnInv, StageInv, SourceType, LinkType, CopyType,
       Running
  <1>4. StageInv'
    BY DEF StageInv, Running, LinkType, CopyType, AdapterType, RoleInv, ItemInv, Waits, Awaiting
  <1>5. ReadyInv'
    BY DEF ReadyInv, ProxyType, ConnInv, LinkType, RoleInv, StageInv, SourceType
  <1>6. ItemInv'
    BY DEF ItemInv, Awaiting, Waits, AdapterType, ProxyType, CopyType, StageInv, Running, RoleInv
  <1>7. CountInv'
    BY DEF CountInv, Awaiting, LinkType, StageInv, AdapterType, CopyType, Running, ItemInv, Waits
  <1>8. (ProxyType /\ StoreType /\ SourceType /\ AdapterType /\ HistoryType /\ ConnInv)'
    BY DEF ProxyType, StoreType, SourceType, AdapterType, HistoryType, ConnInv
  <1> QED
    BY <1>1, <1>2, <1>3, <1>4, <1>5, <1>6, <1>7, <1>8

\* Restore: the plain store is back; the adapter's goroutine may still be at work.
LEMMA RestoreStep ==
    ASSUME IInv, Restore
    PROVE  IInv'
  <1> USE DEF IInv, Restore, proxyVars, sourceVars, linkVars, historyVars, counters
  <1>1. AdapterType'
    BY DEF AdapterType
  <1>2. CopyType'
    BY DEF CopyType
  <1>3. HistoryType'
    BY DEF HistoryType
  <1>4. RoleInv'
    BY DEF RoleInv, StoreType, ProxyType, ConnInv, StageInv, SourceType, LinkType, CopyType,
       Running
  <1>5. StageInv'
    BY DEF StageInv, Running, LinkType, CopyType, AdapterType, RoleInv, ItemInv, Waits, Awaiting
  <1>6. ItemInv'
    BY DEF ItemInv, Awaiting, Waits, AdapterType, ProxyType, CopyType, StageInv, Running, RoleInv
  <1>7. CountInv'
    BY DEF CountInv, Awaiting, LinkType, StageInv, AdapterType, CopyType, Running, ItemInv, Waits
  <1>8. StoreType' /\ ConnInv'
    BY DEF StoreType, ConnInv
  <1>9. (ProxyType /\ SourceType /\ LinkType /\ ReadyInv)'
    BY DEF ProxyType, SourceType, LinkType, ReadyInv
  <1> QED
    BY <1>1, <1>2, <1>3, <1>4, <1>5, <1>6, <1>7, <1>8, <1>9

\* Init: the first lambda is connected, nothing is stored and nobody migrates.
LEMMA InitInv == Init => IInv
  <1> SUFFICES ASSUME Init
               PROVE  IInv
    OBVIOUS
  <1> USE MigrationAssumption DEF Init
  <1>1. ProxyType /\ StoreType /\ SourceType /\ HistoryType
    BY DEF ProxyType, StoreType, SourceType, HistoryType
  <1>2. LinkType /\ AdapterType
    BY DEF LinkType, AdapterType
  <1>3. CopyType
    BY DEF CopyType, KeyLists, NoKeys
  <1>4. ConnInv /\ RoleInv /\ StageInv /\ ReadyInv
    BY DEF ConnInv, RoleInv, StageInv, ReadyInv, Running
  <1>5. ItemInv /\ CountInv
    BY DEF ItemInv, CountInv, Awaiting
  <1> QED
    BY <1>1, <1>2, <1>3, <1>4, <1>5 DEF IInv

\* Every step keeps IInv: one lemma for each action.
LEMMA NextInv == IInv /\ [Next]_vars => IInv'
  <1> SUFFICES ASSUME IInv, [Next]_vars
               PROVE  IInv'
    OBVIOUS
  <1>1. ASSUME NEW l \in Lambdas, NEW c \in Command, Issue(l, c)
        PROVE  IInv'
    BY <1>1, IssueStep
  <1>2. ASSUME NEW l \in Lambdas,
               \/ Serve(l) \/ Serialize(l) \/ Disconnect(l) \/ EndConnection(l) \/ Join(l) \/ Die(l)
               \/ Sleep(l) \/ Invoke(l)
        PROVE  IInv'
    BY <1>2, ServeStep, SerializeStep, DisconnectStep, EndConnectionStep, JoinStep, DieStep, SleepStep,
       InvokeStep
  <1>3. ASSUME NEW l \in Lambdas, NEW d \in Lambdas, Migrate(l, d)
        PROVE  IInv'
    BY <1>3, MigrateStep
  <1>4. CASE Hello \/ HelloFailed \/ MHello \/ ServeForwarded \/ EndServing \/ LinkFails
    BY <1>4, HelloStep, HelloFailedStep, MHelloStep, ServeForwardedStep, EndServingStep,
       LinkFailsStep
  <1>5. CASE Adapter
    BY <1>5, AnswerHereStep, ForwardStep, SendFailsStep, ReplyErrorStep, ReplyDoneStep,
       ReplyValueStep,
       ReplyPanicStep, StoreCopyStep, ReplyClosedStep, AdapterEndsStep DEF Adapter
  <1>6. CASE Copy
    BY <1>6, ReadListStep, ReadFailsStep, EndMigrationStep, CloseStep, RestoreStep, LocalDelStep,
       MigrateKeyStep DEF Copy
  <1>7. CASE UNCHANGED vars
    BY <1>7 DEF IInv, ProxyType, StoreType, SourceType, LinkType, AdapterType, CopyType,
       HistoryType,
       ConnInv, RoleInv, StageInv, ReadyInv, ItemInv, CountInv, Awaiting, Running, Waits,
       vars, proxyVars, lambdaVars, sourceVars, linkVars, adapterVars, copyVars, historyVars
  <1> QED
    BY <1>1, <1>2, <1>3, <1>4, <1>5, <1>6, <1>7 DEF Next

\* IInv holds in every state of every behaviour, whatever dies, disconnects or times out.
THEOREM Inductive == Spec => []IInv
  <1>1. Init => IInv
    BY InitInv
  <1>2. IInv /\ [Next]_vars => IInv'
    BY NextInv
  <1> QED
    BY <1>1, <1>2, PTL DEF Spec

\* TypeOK: types, and that neither the serializer (of the adapter) nor the connection to the source
\* ever holds more than two commands, one of the proxy's and one of the goroutine of Migrate.
THEOREM TypeCorrect == Spec => []TypeOK
  <1>1. IInv => TypeOK
    <2> SUFFICES ASSUME IInv
                 PROVE  TypeOK
      OBVIOUS
    <2>1. serializer \in Seq(Item) /\ Len(serializer) <= 2
      <3>1. serializer \in Seq(Item)
        BY DEF IInv, AdapterType
      <3>2. ASSUME Len(serializer) > 2
            PROVE  FALSE
        <4>1. 1 \in 1 .. Len(serializer) /\ 2 \in 1 .. Len(serializer) /\ 3 \in 1 .. Len(serializer)
          BY <3>1, <3>2
        <4>2. /\ serializer[1] \in Item /\ serializer[2] \in Item /\ serializer[3] \in Item
          BY <3>1, <4>1
        <4>3. /\ serializer[1].by # serializer[2].by /\ serializer[1].by # serializer[3].by
              /\ serializer[2].by # serializer[3].by
          BY <4>1 DEF IInv, ItemInv
        <4> QED
          BY <4>2, <4>3, RequestFacts
      <3> QED
        BY <3>1, <3>2
    <2>2. Len(toSource) <= 2
      BY DEF IInv, CountInv
    <2> QED
      BY <2>1, <2>2 DEF IInv, TypeOK, ProxyType, StoreType, SourceType, LinkType,
         AdapterType, CopyType,
         HistoryType, KeyLists, Replies
  <1> QED
    BY <1>1, Inductive, PTL

\* SourceQuiet: when a command that the adapter forwarded is next at the source, no command of the
\* proxy runs there, as the mhello handler waits for ready, which is closed after ServeForeignClient.
THEOREM SourceIsQuiet == Spec => []SourceQuiet
  <1>1. IInv => SourceQuiet
    <2> SUFFICES ASSUME IInv, serving, toSource # <<>>, Head(toSource) # HelloCommand
                 PROVE  request[source] = None
      BY DEF SourceQuiet
    <2>1. ready /\ conn[source] = "none"
      BY DEF IInv, ReadyInv
    <2>2. source \in Lambdas
      BY DEF IInv, RoleInv
    <2> QED
      BY <2>1, <2>2 DEF IInv, ConnInv
  <1> QED
    BY <1>1, Inductive, PTL
=============================================================================
