------------------------ MODULE MigrationRefinement ------------------------
(***************************************************************************)
(* The refinement of ChunkMap by Migration, for any lambdas, keys, values  *)
(* and bounds: as long as the promise holds, the two lambdas, the adapter  *)
(* and the goroutine of Migrate together behave as one map.                *)
(***************************************************************************)
EXTENDS MigrationProofs

\* As long as the proxy uses a source that serves, the destination has no command of the proxy's;
\* it has one that is waited for only when the proxy uses it.
PlaceInv ==
    /\ serving /\ current = source =>
        /\ conn[dest] = "none"
        /\ \A i \in 1 .. Len(toSource) : toSource[i] = HelloCommand \/ toSource[i].op = "get"
    /\ adapter # "off" /\ Pending[dest] # None => conn[dest] = "open"

\* The link is a pipe: the hello or the list first, while Migrate waits for it, then the command
\* of the adapter's goroutine or its reply.
PipeInv ==
    /\ Awaiting => handling.val = None
    /\ adapter # "off" =>
        /\ Len(toDest) <= (IF Awaiting THEN 1 ELSE 0) + (IF mpc = "hello" THEN 1 ELSE 0)
        /\ \A i \in 1 .. Len(toDest) :
            toDest[i].kind = IF i = 1 /\ mpc = "hello" THEN "list" ELSE "result"
        /\ link = "open" => \A i \in 1 .. Len(toSource) :
            toSource[i] = IF Len(toDest) + i = 1 /\ mpc = "hello" THEN HelloCommand ELSE handling.item.cmd
    /\ adapter = "restored" => toDest = <<>> /\ (handling # None => Awaiting)

\* Before the source's connection is done with, nothing has come from it.
QuietInv ==
    /\ serving /\ ~ready => toDest = <<>> /\ (handling # None => Awaiting)
    /\ mpc = "invoked" \/ (serving /\ ~ready /\ (current = source \/ link = "open")) =>
        \A k \in Keys : ~Found(dest, k)

\* A result on its way to the adapter: it is what the source's store has, while the link is open.
Among(q, r) == \E i \in 1 .. Len(q) : q[i].kind = "result" /\ q[i].result = r
Replied(r) == Among(toDest, r)

ReplyInv ==
    adapter # "off" /\ link = "open" => \A r \in Values \cup {"ok", "error"} : Replied(r) =>
        LET c == handling.item.cmd IN
        /\ c.op = "get" => r = Result(source, c)
        /\ c.op = "set" => r = "ok" /\ repo[source][c.key] = c.val
        /\ c.op = "del" => r \notin Values /\ (r = "ok" => ~Found(source, c.key))

MayInv == \A l \in Lambdas : Pending[l] = None => may[l] = {}

\* The lambdas that the proxy may read from, now or later, directly or through the adapter.
Reachable(l) ==
    \/ l = current
    \/ l = source /\ link = "open" /\ current = dest
    \/ l = dest /\ current = source /\ serving

\* Lambda l has value v for key k, or will have it.
Holds(l, k, v) == \/ repo[l][k] = v
                  \/ request[l] # None /\ request[l].cmd.key = k /\ request[l].cmd.val = v

\* Value v of key k is on its way to the destination.
Moving(k, v) == /\ Reachable(dest) /\ handling # None /\ handling.item.cmd.key = k
                /\ handling.val = v \/ Replied(v)

Somewhere(k, v) == Moving(k, v) \/ \E m \in Lambdas : Reachable(m) /\ Holds(m, k, v)
Elsewhere(l, k, v) == Moving(k, v) \/ \E m \in Lambdas \ {l} : Reachable(m) /\ Holds(m, k, v)

\* What can still be read is valid, and was so since the GET under way began.
ValidInv == \A k \in Keys, v \in Values : Somewhere(k, v) => v \in valid[k]

Reading(l, k) == Pending[l] # None /\ Pending[l].op = "get" /\ Pending[l].key = k

GetInv == \A l \in Lambdas, k \in Keys, v \in Values : Reading(l, k) =>
            /\ repo[l][k] = v => v \in may[l]
            /\ l = current /\ Somewhere(k, v) => v \in may[l]

\* A SET or DEL that a lambda finishes after the switch leaves only what came after it.
Writing(l, k) == Pending[l] # None /\ Pending[l].op # "get" /\ Pending[l].key = k

SetInv == \A l \in Lambdas, k \in Keys, v \in Values :
            Writing(l, k) /\ l # current /\ Elsewhere(l, k, v) => v \in may[l]

\* The source has done a SET or DEL that the destination's store has not followed yet.
Changing(k) == handling # None /\ handling.item.cmd.key = k /\ handling.item.cmd.op # "get" /\ Replied("ok")

\* What the destination has of the source's chunks.
CopyInv ==
    link = "open" =>
        /\ \A k \in Keys : Found(dest, k) /\ ~Changing(k) => repo[dest][k] = repo[source][k]
        /\ mpc \in {"loop", "waiting", "ended"} =>
            /\ todo.del \subseteq list.del
            /\ \A k \in Keys : Found(source, k) /\ k \notin list.del \cup todo.get /\ ~Changing(k)
                    => repo[dest][k] = repo[source][k]
        /\ \A i \in 1 .. Len(toDest) : toDest[i].kind = "list" =>
            \A k \in Keys : Found(source, k) /\ ~Changing(k) => k \in toDest[i].list.get
        /\ handling # None /\ ~Awaiting => handling.val = repo[source][handling.item.cmd.key]

PInv == /\ PlaceInv /\ PipeInv /\ QuietInv /\ ReplyInv /\ MayInv
        /\ ValidInv /\ GetInv /\ SetInv /\ CopyInv

-----------------------------------------------------------------------------
\* Results in a queue of replies, when one is taken from it or added to it.
LEMMA AmongFacts ==
    /\ \A r : ~Among(<<>>, r)
    /\ \A q \in Seq(Replies), r \in Values \cup {"ok", "error"} :
        /\ q # <<>> /\ Among(Tail(q), r) => Among(q, r)
        /\ \A x \in Replies : Among(Append(q, x), r) <=> Among(q, r) \/ (x.kind = "result" /\ x.result = r)
  <1>1. \A r : ~Among(<<>>, r)
    BY DEF Among
  <1>2. ASSUME NEW q \in Seq(Replies), NEW r, q # <<>>, Among(Tail(q), r)
        PROVE  Among(q, r)
    <2>1. PICK i \in 1 .. Len(Tail(q)) : Tail(q)[i].kind = "result" /\ Tail(q)[i].result = r
      BY <1>2 DEF Among
    <2>2. i + 1 \in 1 .. Len(q) /\ Tail(q)[i] = q[i + 1]
      BY <1>2
    <2> QED
      BY <2>1, <2>2 DEF Among
  <1>3. ASSUME NEW q \in Seq(Replies), NEW r, NEW x \in Replies
        PROVE  Among(Append(q, x), r) <=> Among(q, r) \/ (x.kind = "result" /\ x.result = r)
    <2>1. /\ Len(Append(q, x)) = Len(q) + 1 /\ Append(q, x)[Len(q) + 1] = x /\ Len(q) \in Nat
          /\ \A i \in 1 .. Len(q) : Append(q, x)[i] = q[i]
      OBVIOUS
    <2> QED
      BY <2>1 DEF Among
  <1> QED
    BY <1>1, <1>2, <1>3

\* The command the proxy waits for.
LEMMA PendingFacts ==
    ASSUME ProxyType, NEW l \in Lambdas
    PROVE  /\ Pending[l] # None <=> request[l] # None /\ request[l].live
           /\ Pending[l] # None => Pending[l] = request[l].cmd /\ Pending[l] \in Command
           /\ request[l] # None => request[l] \in Request
  <1>1. request[l] # None => request[l] \in Request
    BY DEF ProxyType
  <1>2. request[l] # None => request[l].cmd \in Command /\ request[l].cmd # None /\ request[l].live \in BOOLEAN
    BY <1>1, RequestFacts, CommandFacts
  <1> QED
    BY <1>1, <1>2 DEF Pending

\* A lambda whose request stays is waited for as before.
LEMMA PendingKept ==
    ASSUME NEW l \in Lambdas, request'[l] = request[l]
    PROVE  Pending'[l] = Pending[l]
  BY DEF Pending

\* The proxy's command is at the destination only when that is the current lambda.
LEMMA DestFacts ==
    ASSUME IInv, PInv, adapter # "off"
    PROVE  /\ dest \in Lambdas /\ source \in Lambdas /\ source # dest
           /\ Pending[dest] # None => current = dest
           /\ request[dest] # None /\ Reachable(dest) => current = dest
           /\ \A l \in Lambdas : Reachable(l) /\ l # current => l \in {source, dest} /\ current \in {source, dest}
           /\ link = "open" /\ ready => request[source] = None
           /\ link = "open" => serving
  <1>1. dest \in Lambdas /\ source \in Lambdas /\ source # dest
    BY DEF IInv, RoleInv, SourceType
  <1>2. /\ Pending[dest] # None => current = dest
        /\ request[dest] # None /\ Reachable(dest) => current = dest
    BY <1>1 DEF IInv, ConnInv, PInv, PlaceInv, Reachable
  <1>3. \A l \in Lambdas : Reachable(l) /\ l # current => l \in {source, dest} /\ current \in {source, dest}
    BY DEF Reachable
  <1>4. link = "open" => serving
    BY DEF IInv, StageInv
  <1>5. link = "open" /\ ready => request[source] = None
    BY <1>1, <1>4 DEF IInv, ReadyInv, ConnInv
  <1> QED
    BY <1>1, <1>2, <1>3, <1>4, <1>5

\* Steps that leave the roles and the connections alone, and start no command.
LEMMA PlaceKept ==
    ASSUME IInv, PlaceInv, UNCHANGED <<current, conn, source, dest, serving, toSource>>,
           adapter' # "off" => adapter # "off",
           \A m \in Lambdas : Pending'[m] \in {None, Pending[m]}
    PROVE  PlaceInv'
  <1>1. adapter # "off" => dest \in Lambdas
    BY DEF IInv, RoleInv
  <1>2. adapter' # "off" /\ Pending'[dest] # None => conn'[dest] = "open"
    BY <1>1 DEF PlaceInv
  <1>3. serving' /\ current' = source' =>
            /\ conn'[dest'] = "none"
            /\ \A i \in 1 .. Len(toSource') : toSource'[i] = HelloCommand \/ toSource'[i].op = "get"
    BY DEF PlaceInv
  <1> QED
    BY <1>2, <1>3 DEF PlaceInv

\* What is in the pipe.
LEMMA PipeFacts ==
    ASSUME IInv, PInv, adapter # "off"
    PROVE  /\ toDest # <<>> => (serving => ready) /\ adapter = "on"
           /\ \A r : Replied(r) => Awaiting /\ toDest # <<>> /\ (link = "open" => toSource = <<>>)
           /\ link = "open" /\ ~Awaiting => \A i \in 1 .. Len(toSource) : toSource[i] = HelloCommand
           /\ Awaiting => handling \in Handling /\ handling.item \in Item /\ handling.item.cmd \in Command
                          /\ handling.val = None /\ Waits(handling.item)
           /\ handling # None => handling \in Handling /\ handling.item \in Item /\ handling.item.cmd \in Command
                                 /\ handling.val \in Values \cup {None}
  <1>1. toDest # <<>> => (serving => ready) /\ adapter = "on"
    BY DEF PInv, QuietInv, PipeInv, IInv, AdapterType
  <1>2. handling # None => handling \in Handling /\ handling.item \in Item /\ handling.item.cmd \in Command
                           /\ handling.val \in Values \cup {None}
    BY RequestFacts DEF IInv, AdapterType
  <1>3. Awaiting => handling.val = None /\ Waits(handling.item) /\ handling # None
    BY DEF PInv, PipeInv, IInv, ItemInv, Awaiting
  <1>4. toSource \in Seq({HelloCommand} \cup Command) /\ toDest \in Seq(Replies)
    BY DEF IInv, LinkType
  <1>5. ASSUME NEW r, Replied(r)
        PROVE  Awaiting /\ toDest # <<>> /\ (link = "open" => toSource = <<>>)
    <2>1. PICK i \in 1 .. Len(toDest) : toDest[i].kind = "result"
      BY <1>5 DEF Replied, Among
    <2>2. ~(i = 1 /\ mpc = "hello")
      BY <2>1 DEF PInv, PipeInv
    <2>3. Len(toDest) <= (IF Awaiting THEN 1 ELSE 0) + (IF mpc = "hello" THEN 1 ELSE 0)
      BY DEF PInv, PipeInv
    <2>4. link = "open" => Len(toSource) + Len(toDest)
                           = (IF Awaiting THEN 1 ELSE 0) + (IF mpc = "hello" THEN 1 ELSE 0)
      BY DEF IInv, CountInv
    <2>5. Awaiting /\ toDest # <<>> /\ (link = "open" => Len(toSource) = 0)
      BY <1>4, <2>2, <2>3, <2>4
    <2> QED
      BY <1>4, <2>5
  <1>6. ASSUME link = "open", ~Awaiting, NEW i \in 1 .. Len(toSource)
        PROVE  toSource[i] = HelloCommand
    <2>1. Len(toSource) + Len(toDest) = IF mpc = "hello" THEN 1 ELSE 0
      BY <1>6 DEF IInv, CountInv
    <2>2. Len(toDest) + i = 1 /\ mpc = "hello"
      BY <1>4, <2>1
    <2> QED
      BY <1>6, <2>2 DEF PInv, PipeInv
  <1> QED
    BY <1>1, <1>2, <1>3, <1>5, <1>6

\* A reply that the adapter's goroutine takes, and which is its own.
LEMMA ReplyFacts ==
    ASSUME IInv, PInv, NextReply, promise'
    PROVE  /\ mpc # "hello" /\ toDest' = <<>> /\ Awaiting /\ adapter = "on" /\ (serving => ready)
           /\ Outcome \in Values \cup {"ok", "error"} /\ Replied(Outcome)
           /\ \A r : Replied(r) => r = Outcome
           /\ link = "open" => toSource = <<>>
  <1>1. Awaiting /\ toDest # <<>> /\ toDest' = Tail(toDest) /\ Head(toDest).kind # "list"
    BY DEF NextReply, Awaiting, Torn
  <1>2. adapter # "off"
    BY <1>1 DEF IInv, StageInv, Awaiting
  <1>3. adapter = "on" /\ (serving => ready)
    BY <1>1, <1>2, PipeFacts
  <1>4. toDest \in Seq(Replies) /\ Head(toDest) = toDest[1] /\ 1 \in 1 .. Len(toDest)
    BY <1>1 DEF IInv, LinkType
  <1>5. mpc # "hello" /\ Head(toDest).kind = "result"
    BY <1>1, <1>2, <1>4 DEF PInv, PipeInv
  <1>6. Len(toDest) = 1
    <2>1. Len(toDest) <= 1
      BY <1>1, <1>2, <1>5 DEF PInv, PipeInv
    <2>2. Len(toDest) \in Nat /\ Len(toDest) >= 1
      BY <1>4
    <2>3. \A n \in Nat : n <= 1 /\ n >= 1 => n = 1
      OBVIOUS
    <2> QED
      BY <2>1, <2>2, <2>3, Zenon
  <1>7. toDest' = <<>>
    BY <1>1, <1>4, <1>6
  <1>8. Outcome = toDest[1].result /\ toDest[1] \in Replies
    BY <1>4, <1>5 DEF Outcome
  <1>9. Outcome \in Values \cup {"ok", "error"}
    BY <1>4, <1>5, <1>8 DEF Replies
  <1>10. Replied(Outcome) /\ \A r : Replied(r) => r = Outcome
    BY <1>4, <1>5, <1>6, <1>8 DEF Replied, Among
  <1>11. link = "open" => toSource = <<>>
    BY <1>2, <1>10, PipeFacts
  <1> QED
    BY <1>1, <1>3, <1>5, <1>7, <1>9, <1>10, <1>11

\* Values that are nowhere new, for commands that are waited for as before: the invariants stay.
LEMMA DataKept ==
    ASSUME ValidInv, GetInv, SetInv, current' = current,
           \A k \in Keys, v \in Values : Somewhere(k, v)' => Somewhere(k, v),
           \A l \in Lambdas \ {current}, k \in Keys, v \in Values :
               Writing(l, k)' /\ Elsewhere(l, k, v)' => Elsewhere(l, k, v),
           \A l \in Lambdas : Pending'[l] = None \/ (Pending'[l] = Pending[l] /\ may'[l] = may[l]),
           \A l \in Lambdas, k \in Keys, v \in Values : Reading(l, k)' /\ repo'[l][k] = v =>
               repo[l][k] = v \/ (l = current /\ Somewhere(k, v)),
           \A k \in Keys, v \in Values : Somewhere(k, v)' /\ v \in valid[k] => v \in valid'[k]
    PROVE  ValidInv' /\ GetInv' /\ SetInv'
  <1>1. ValidInv'
    BY DEF ValidInv
  <1>2. \A l \in Lambdas, k \in Keys : /\ Reading(l, k)' => Reading(l, k) /\ may'[l] = may[l]
                                       /\ Writing(l, k)' => Writing(l, k) /\ may'[l] = may[l]
    BY DEF Reading, Writing
  <1>3. GetInv'
    BY <1>2 DEF GetInv
  <1>4. SetInv'
    BY <1>2 DEF SetInv
  <1> QED
    BY <1>1, <1>3, <1>4

\* The same, lambda by lambda: what a lambda has new was moving.
LEMMA NothingNew ==
    ASSUME ValidInv, GetInv, SetInv, current' = current,
           \A m \in Lambdas, k \in Keys, v \in Values : Reachable(m)' /\ Holds(m, k, v)' =>
               (Reachable(m) /\ Holds(m, k, v)) \/ Moving(k, v),
           \A k \in Keys, v \in Values : Moving(k, v)' => Moving(k, v),
           \A l \in Lambdas : Pending'[l] = None \/ (Pending'[l] = Pending[l] /\ may'[l] = may[l]),
           \A l \in Lambdas, k \in Keys, v \in Values : Reading(l, k)' /\ repo'[l][k] = v =>
               repo[l][k] = v \/ (l = current /\ Moving(k, v)),
           \A k \in Keys, v \in Values : Somewhere(k, v)' /\ v \in valid[k] => v \in valid'[k]
    PROVE  ValidInv' /\ GetInv' /\ SetInv'
  <1>1. \A k \in Keys, v \in Values : Somewhere(k, v)' => Somewhere(k, v)
    BY DEF Somewhere
  <1>2. \A l \in Lambdas \ {current}, k \in Keys, v \in Values : Elsewhere(l, k, v)' => Elsewhere(l, k, v)
    BY DEF Elsewhere
  <1>3. \A k \in Keys, v \in Values : Moving(k, v) => Somewhere(k, v)
    BY DEF Somewhere
  <1> QED
    BY <1>1, <1>2, <1>3, DataKept

\* The same when no command starts or ends.
LEMMA NothingMoves ==
    ASSUME ValidInv, GetInv, SetInv, UNCHANGED <<current, request, valid, may>>,
           \A m \in Lambdas, k \in Keys, v \in Values : Reachable(m)' /\ Holds(m, k, v)' =>
               (Reachable(m) /\ Holds(m, k, v)) \/ Moving(k, v),
           \A k \in Keys, v \in Values : Moving(k, v)' => Moving(k, v),
           \A l \in Lambdas, k \in Keys, v \in Values : Reading(l, k)' /\ repo'[l][k] = v =>
               repo[l][k] = v \/ (l = current /\ Moving(k, v))
    PROVE  ValidInv' /\ GetInv' /\ SetInv'
  <1>1. \A l \in Lambdas : Pending'[l] = Pending[l] /\ may'[l] = may[l]
    BY PendingKept
  <1>2. \A k \in Keys, v \in Values : Somewhere(k, v)' /\ v \in valid[k] => v \in valid'[k]
    OBVIOUS
  <1> QED
    BY <1>1, <1>2, NothingNew

\* An answer: the command is not waited for any more, and changes what is valid if it is acknowledged.
LEMMA AnswerEffect ==
    ASSUME IInv, MayInv, NEW l \in Lambdas, request[l] # None, NEW res, Answer(l, res)
    PROVE  /\ MayInv' /\ request'[l] = None /\ \A m \in Lambdas \ {l} : request'[m] = request[m]
           /\ \A m \in Lambdas : Pending'[m] = None \/ (Pending'[m] = Pending[m] /\ may'[m] = may[m])
           /\ res # "ok" \/ Pending[l] = None => valid' = valid
           /\ Pending[l] # None => \A k \in Keys \ {request[l].cmd.key} : valid'[k] = valid[k]
           /\ Pending[l] # None /\ res = "ok" =>
                valid'[request[l].cmd.key] = ({request[l].cmd.val} \ {None}) \cup may[l]
  <1>1. request \in [Lambdas -> {None} \cup Request] /\ valid \in [Keys -> SUBSET Values]
        /\ may \in [Lambdas -> SUBSET Values]
    BY DEF IInv, ProxyType, HistoryType
  <1>2. request'[l] = None /\ \A m \in Lambdas \ {l} : request'[m] = request[m]
    BY <1>1 DEF Answer
  <1>3. Pending'[l] = None
    BY <1>2 DEF Pending
  <1>4. \A m \in Lambdas \ {l} : Pending'[m] = Pending[m]
    BY <1>2, PendingKept
  <1>5. Pending[l] # None <=> request[l].live
    BY PendingFacts DEF IInv
  <1>6. request[l].cmd.key \in Keys
    BY <1>1, RequestFacts, CommandFacts
  <1>7. CASE ~request[l].live
    <2>1. UNCHANGED <<valid, may, answer>>
      BY <1>7 DEF Answer, Learn, historyVars
    <2>2. MayInv'
      BY <1>3, <1>4, <1>5, <1>7, <2>1 DEF MayInv
    <2> QED
      BY <1>2, <1>3, <1>4, <1>5, <1>7, <2>1, <2>2
  <1>8. CASE request[l].live
    <2>1. /\ may'[l] = {} /\ \A m \in Lambdas \ {l} : may'[m] = may[m]
          /\ res # "ok" => valid' = valid
          /\ \A k \in Keys \ {request[l].cmd.key} : valid'[k] = valid[k]
          /\ res = "ok" => valid'[request[l].cmd.key] = ({request[l].cmd.val} \ {None}) \cup may[l]
      BY <1>1, <1>6, <1>8 DEF Answer, Learn
    <2>2. MayInv'
      BY <1>3, <1>4, <2>1 DEF MayInv
    <2> QED
      BY <1>2, <1>3, <1>4, <1>5, <1>8, <2>1, <2>2
  <1> QED
    BY <1>7, <1>8

\* The same for Complete: the command of the proxy is answered, or Migrate goes on.
LEMMA CompleteEffect ==
    ASSUME IInv, MayInv, adapter # "off", NEW i \in Item, Waits(i), NEW res, Complete(i, res)
    PROVE  /\ MayInv' /\ \A m \in Lambdas : request'[m] \in {None, request[m]}
           /\ \A m \in Lambdas : Pending'[m] = None \/ (Pending'[m] = Pending[m] /\ may'[m] = may[m])
           /\ res # "ok" \/ i.by # "proxy" \/ Pending[dest] = None => valid' = valid
           /\ i.by = "proxy" /\ Pending[dest] # None => \A k \in Keys \ {i.cmd.key} : valid'[k] = valid[k]
           /\ i.by = "proxy" /\ Pending[dest] # None /\ res = "ok" =>
                valid'[i.cmd.key] = ({i.cmd.val} \ {None}) \cup may[dest]
           /\ i.by = "proxy" => request'[dest] = None
  <1>1. dest \in Lambdas
    BY DEF IInv, RoleInv
  <1>2. CASE i.by = "proxy"
    <2>1. request[dest] # None /\ Answer(dest, res) /\ request[dest].cmd = i.cmd
      BY <1>2 DEF Waits, Complete
    <2> QED
      BY <1>1, <1>2, <2>1, AnswerEffect
  <1>3. CASE i.by # "proxy"
    <2>1. UNCHANGED <<request, valid, may, answer>>
      BY <1>3 DEF Complete, historyVars
    <2>2. \A m \in Lambdas : Pending'[m] = Pending[m]
      BY <2>1, PendingKept
    <2> QED
      BY <1>3, <2>1, <2>2 DEF MayInv
  <1> QED
    BY <1>2, <1>3

\* A command on a lambda's store: it has no value that it had not, or that the command does not bring.
LEMMA AppliedFacts ==
    ASSUME StoreType, NEW l \in Lambdas, NEW c \in Command, repo' = Applied(l, c)
    PROVE  /\ \A m \in Lambdas \ {l} : repo'[m] = repo[m]
           /\ \A k \in Keys \ {c.key} : repo'[l][k] = repo[l][k]
           /\ c.op = "get" => repo' = repo
           /\ c.op = "set" => repo'[l][c.key] = c.val
           /\ c.op = "del" => repo'[l][c.key] \notin Values
           /\ \A k \in Keys, v \in Values : repo'[l][k] = v => repo[l][k] = v \/ (k = c.key /\ c.val = v)
           /\ c.op = "del" /\ Result(l, c) = "error" => \A k \in Keys : repo'[l][k] = repo[l][k]
  <1>1. c.op \in {"set", "get", "del"} /\ c.key \in Keys
    BY CommandFacts
  <1>2. CASE c.op = "set"
    BY <1>1, <1>2, MigrationAssumption DEF StoreType, Applied, Put
  <1>3. CASE c.op = "del"
    BY <1>1, <1>3, MigrationAssumption DEF StoreType, Applied, Del, Result
  <1>4. CASE c.op = "get"
    BY <1>1, <1>4 DEF Applied
  <1> QED
    BY <1>1, <1>2, <1>3, <1>4

\* The answer of a store: "ok" for a SET or DEL, a value only for a GET.
LEMMA ResultFacts ==
    ASSUME NEW l \in Lambdas, NEW c \in Command
    PROVE  /\ Result(l, c) = "ok" => c.op # "get"
           /\ Result(l, c) \in Values => c.op = "get" /\ Result(l, c) = repo[l][c.key]
           /\ c.op = "set" => Result(l, c) = "ok"
           /\ c.op = "del" => Result(l, c) \notin Values
           /\ c.op = "get" /\ Found(l, c.key) => Result(l, c) = repo[l][c.key]
  <1>1. c.op \in {"set", "get", "del"}
    BY CommandFacts
  <1>2. "ok" \notin Values /\ "error" \notin Values
    BY NilAssumption
  <1> QED
    BY <1>1, <1>2 DEF Result, Found

\* Before the list is made: nothing is at the destination, Migrate waits for the list.
LEMMA NotReadyFacts ==
    ASSUME IInv, PInv, link = "open", ~ready
    PROVE  /\ mpc = "hello" /\ toDest = <<>> /\ (handling # None => Awaiting)
           /\ \A k \in Keys : ~Found(dest, k)
  <1>1. serving /\ adapter # "off"
    BY DEF IInv, StageInv
  <1>2. toDest = <<>> /\ (handling # None => Awaiting) /\ \A k \in Keys : ~Found(dest, k)
    BY <1>1 DEF PInv, QuietInv
  <1>3. toSource # <<>> /\ Head(toSource) = HelloCommand /\ toSource \in Seq({HelloCommand} \cup Command)
    BY <1>1 DEF IInv, ReadyInv, LinkType
  <1>4. toSource[1] = HelloCommand /\ 1 \in 1 .. Len(toSource)
    BY <1>3
  <1>5. mpc # "hello" => toSource[1] = handling.item.cmd
    BY <1>1, <1>4 DEF PInv, PipeInv
  <1>6. mpc # "hello" => Awaiting
    BY <1>2, <1>4 DEF IInv, CountInv
  <1>7. Awaiting => handling.item.cmd \in Command
    BY <1>1, PipeFacts
  <1> QED
    BY <1>2, <1>4, <1>5, <1>6, <1>7, CommandFacts

\* A current lambda on its plain store is the only one that can be read from.
LEMMA PlainAlone ==
    ASSUME IInv, PInv, request[current] # None, ~Adapted(current)
    PROVE  \A k \in Keys, v \in Values :
             /\ ~Moving(k, v)
             /\ \A m \in Lambdas \ {current} : Reachable(m) => ~Holds(m, k, v)
  <1>1. current \in Lambdas /\ conn[current] # "none"
    BY DEF IInv, ProxyType, ConnInv
  <1>2. serving /\ current = source => ~ready
    BY <1>1 DEF IInv, ReadyInv
  <1>3. link = "open" => adapter = "on"
    BY DEF IInv, StageInv
  <1>4. link = "open" => current # dest
    BY <1>3 DEF Adapted
  <1>5. ASSUME NEW k \in Keys, NEW v \in Values, NEW m \in Lambdas \ {current}, Reachable(m)
        PROVE  ~Holds(m, k, v)
    <2>1. m = dest /\ current = source /\ serving
      BY <1>4, <1>5 DEF Reachable
    <2>2. ~Found(dest, k)
      BY <1>2, <2>1 DEF PInv, QuietInv
    <2>3. request[dest] = None
      BY <2>1 DEF PInv, PlaceInv, IInv, ConnInv
    <2> QED
      BY <2>1, <2>2, <2>3 DEF Holds, Found
  <1>6. ASSUME NEW k \in Keys, NEW v \in Values, Moving(k, v)
        PROVE  FALSE
    <2>1. handling # None /\ Reachable(dest) /\ (handling.val = v \/ Replied(v))
      BY <1>6 DEF Moving
    <2>2. adapter # "off"
      BY <2>1 DEF IInv, StageInv
    <2>3. CASE dest = current
      <3>1. adapter = "restored"
        BY <2>2, <2>3 DEF Adapted, IInv, AdapterType
      <3>2. toDest = <<>> /\ Awaiting /\ handling.val = None
        BY <2>1, <3>1 DEF PInv, PipeInv
      <3> QED
        BY <2>1, <3>2, AmongFacts, MigrationAssumption DEF Replied
    <2>4. CASE dest # current
      <3>1. current = source /\ serving
        BY <2>1, <2>2, <2>4, DestFacts DEF Reachable
      <3>2. toDest = <<>> /\ Awaiting /\ handling.val = None
        BY <1>2, <2>1, <3>1 DEF PInv, QuietInv, PipeInv
      <3> QED
        BY <2>1, <3>2, AmongFacts, MigrationAssumption DEF Replied
    <2> QED
      BY <2>3, <2>4
  <1> QED
    BY <1>5, <1>6

\* What Migrate has left to do, when a command is done.
LEMMA CompleteTodo ==
    ASSUME IInv, adapter # "off", NEW i \in Item, Waits(i), NEW res, Complete(i, res)
    PROVE  /\ list' = list /\ todo'.del = todo.del
           /\ \A k \in Keys : k \in todo.get => k \in todo'.get \/ (i.by # "proxy" /\ k = i.cmd.key)
           /\ i.by = "proxy" => mpc' = mpc
           /\ i.by # "proxy" => mpc = "waiting" /\ mpc' \in {"loop", "aborted"} /\ i.cmd.op = "get"
  <1>1. todo \in KeyLists
    BY DEF IInv, CopyType
  <1>2. CASE i.by = "proxy"
    BY <1>2 DEF Complete, copyVars
  <1>3. CASE i.by # "proxy"
    <2>1. /\ mpc' \in {"aborted", "loop"} /\ todo' = [todo EXCEPT !.get = @ \ {i.cmd.key}]
          /\ list' = list /\ mpc = "waiting" /\ i.cmd.op = "get"
      BY <1>3 DEF Complete, Waits
    <2> QED
      BY <1>1, <1>3, <2>1 DEF KeyLists
  <1> QED
    BY <1>2, <1>3

\* A value is put into a store.
LEMMA PutFacts ==
    ASSUME StoreType, NEW l \in Lambdas, NEW k \in Keys, NEW v \in Values, repo' = Put(l, k, v)
    PROVE  /\ repo'[l][k] = v /\ \A j \in Keys \ {k} : repo'[l][j] = repo[l][j]
           /\ \A m \in Lambdas \ {l} : repo'[m] = repo[m]
  BY DEF StoreType, Put

\* Issue: the proxy's command is new; its value becomes valid when it is sent.
LEMMA IssueKeeps ==
    ASSUME IInv, PInv, promise', IInv', NEW l \in Lambdas, NEW c \in Command, Issue(l, c)
    PROVE  PInv'
  <1> USE DEF IInv, PInv, Issue, Connected, lambdaVars, sourceVars, linkVars, adapterVars, copyVars
  <1>1. /\ c.key \in Keys /\ c # None /\ c.val \in Values \cup {None} /\ (c.op = "get" => c.val = None)
        /\ l = current
    BY CommandFacts
  <1>2. /\ request'[l] = [cmd |-> c, stage |-> "received", live |-> TRUE]
        /\ \A m \in Lambdas \ {l} : request'[m] = request[m]
        /\ request[l] = None
    BY DEF ProxyType
  <1>3. /\ Pending'[l] = c /\ \A m \in Lambdas \ {l} : Pending'[m] = Pending[m]
    BY <1>2, PendingKept DEF Map!Issue, Pending
  <1>4. /\ valid'[c.key] = valid[c.key] \cup ({c.val} \ {None})
        /\ \A k \in Keys \ {c.key} : valid'[k] = valid[k]
    BY <1>1 DEF Map!Issue, HistoryType
  <1>5. /\ c.op = "get" => may'[l] = valid[c.key]
        /\ \A q \in Lambdas \ {l} : may'[q] = IF Pending[q] # None /\ Pending[q].key = c.key
                                          THEN may[q] \cup ({c.val} \ {None}) ELSE may[q]
    BY DEF Map!Issue, Map!Using
  <1>6. MayInv'
    BY <1>1, <1>3, <1>5 DEF MayInv
  <1>7. /\ \A m \in Lambdas : Reachable(m)' <=> Reachable(m)
        /\ \A k \in Keys, v \in Values : Moving(k, v)' <=> Moving(k, v)
    BY DEF Reachable, Moving, Replied
  <1>8. \A m \in Lambdas, k \in Keys, v \in Values :
            Holds(m, k, v)' => Holds(m, k, v) \/ (m = l /\ k = c.key /\ v = c.val)
    BY <1>2 DEF Holds
  <1>9. /\ \A k \in Keys, v \in Values : Somewhere(k, v)' => Somewhere(k, v) \/ (k = c.key /\ v = c.val)
        /\ \A m \in Lambdas, k \in Keys, v \in Values :
            Elsewhere(m, k, v)' => Elsewhere(m, k, v) \/ (k = c.key /\ v = c.val)
    BY <1>7, <1>8 DEF Somewhere, Elsewhere
  <1>10. ValidInv'
    BY <1>1, <1>4, <1>9, MigrationAssumption DEF ValidInv
  <1>11. GetInv'
    <2> SUFFICES ASSUME NEW m \in Lambdas, NEW k \in Keys, NEW v \in Values, Reading(m, k)'
                 PROVE  /\ repo'[m][k] = v => v \in may'[m]
                        /\ m = current' /\ Somewhere(k, v)' => v \in may'[m]
      BY DEF GetInv
    <2>1. CASE m = l
      <3>1. c.op = "get" /\ c.key = k
        BY <1>3, <2>1 DEF Reading
      <3>2. Somewhere(k, v) => v \in may'[m]
        BY <1>5, <2>1, <3>1 DEF ValidInv
      <3>3. repo[m][k] = v => Somewhere(k, v)
        BY <1>1, <2>1 DEF Somewhere, Reachable, Holds
      <3>4. v # c.val
        BY <1>1, <3>1, MigrationAssumption
      <3> QED
        BY <1>9, <3>2, <3>3, <3>4
    <2>2. CASE m # l
      <3>1. Reading(m, k) /\ may[m] \subseteq may'[m]
        BY <1>3, <1>5, <2>2 DEF Reading
      <3> QED
        BY <1>1, <2>2, <3>1 DEF GetInv
    <2> QED
      BY <2>1, <2>2
  <1>12. SetInv'
    <2> SUFFICES ASSUME NEW m \in Lambdas, NEW k \in Keys, NEW v \in Values, Writing(m, k)', m # l,
                        Elsewhere(m, k, v)'
                 PROVE  v \in may'[m]
      BY <1>1 DEF SetInv
    <2>1. Writing(m, k) /\ Pending[m] # None /\ Pending[m].key = k
      BY <1>3 DEF Writing
    <2>2. Elsewhere(m, k, v) => v \in may[m]
      BY <1>1, <2>1 DEF SetInv
    <2> QED
      BY <1>5, <1>9, <2>1, <2>2, MigrationAssumption
  <1>13. (PipeInv /\ QuietInv /\ ReplyInv /\ CopyInv)'
    BY DEF PipeInv, Awaiting, QuietInv, Found, ReplyInv, Replied, Result, CopyInv, Changing
  <1>14. PlaceInv'
    <2>1. adapter # "off" => dest \in Lambdas
      BY DEF RoleInv
    <2>2. /\ UNCHANGED <<current, conn, source, dest, serving, toSource, adapter>>
          /\ conn[l] = "open"
      OBVIOUS
    <2>3. adapter # "off" /\ Pending'[dest] # None => conn[dest] = "open"
      BY <1>3, <2>1, <2>2 DEF PlaceInv
    <2> QED
      BY <2>2, <2>3 DEF PlaceInv
  <1> QED
    BY <1>6, <1>10, <1>11, <1>12, <1>13, <1>14

\* Serve: a handler on the plain store answers.  An acknowledged SET or DEL is the last word on its
\* key: the lambda is the only one that can be read from, or the other's values are allowed for.
LEMMA ServeKeeps ==
    ASSUME IInv, PInv, promise', IInv', NEW l \in Lambdas, Serve(l)
    PROVE  PInv'
  <1> USE DEF IInv, PInv, Serve, sourceVars, linkVars, adapterVars, copyVars, counters
  <1> DEFINE c == request[l].cmd
  <1>1. request[l] \in Request /\ c \in Command /\ c.key \in Keys
    BY RequestFacts, CommandFacts DEF ProxyType
  <1>2. /\ MayInv' /\ request'[l] = None /\ \A m \in Lambdas \ {l} : request'[m] = request[m]
        /\ \A m \in Lambdas : Pending'[m] = None \/ (Pending'[m] = Pending[m] /\ may'[m] = may[m])
        /\ Result(l, c) # "ok" \/ Pending[l] = None => valid' = valid
        /\ Pending[l] # None => \A k \in Keys \ {c.key} : valid'[k] = valid[k]
        /\ Pending[l] # None /\ Result(l, c) = "ok" => valid'[c.key] = ({c.val} \ {None}) \cup may[l]
    BY AnswerEffect
  <1>3. /\ \A m \in Lambdas \ {l} : repo'[m] = repo[m]
        /\ c.op = "set" => repo'[l][c.key] = c.val
        /\ c.op = "del" => repo'[l][c.key] \notin Values
        /\ \A k \in Keys, v \in Values : repo'[l][k] = v => repo[l][k] = v \/ (k = c.key /\ c.val = v)
    BY <1>1, AppliedFacts
  <1>4. conn[l] # "none"
    BY DEF ConnInv
  <1>5. l = dest => link # "open" /\ mpc # "invoked" /\ (serving => current # source)
    BY <1>4 DEF Adapted, StageInv, RoleInv, PlaceInv
  <1>6. l = source /\ link = "open" => ~ready
    BY <1>4 DEF StageInv, ReadyInv
  <1>7. QuietInv'
    <2>1. mpc = "invoked" \/ serving => dest \in Lambdas
      BY DEF RoleInv
    <2> QED
      BY <1>3, <1>5, <2>1 DEF QuietInv, Found, Awaiting
  <1>8. ReplyInv'
    <2>1. ASSUME adapter # "off", link = "open", toDest # <<>>
          PROVE  repo'[source] = repo[source]
      <3>1. ready /\ source \in Lambdas
        BY <2>1, DestFacts, PipeFacts
      <3> QED
        BY <1>3, <1>6, <2>1, <3>1
    <2>2. UNCHANGED <<adapter, link, toDest, handling, source>>
      OBVIOUS
    <2>3. ReplyInv
      OBVIOUS
    <2> HIDE DEF IInv, PInv, Serve
    <2>4. CASE toDest = <<>>
      <3>1. \A r : ~Replied(r)'
        BY <2>2, <2>4, AmongFacts DEF Replied
      <3> QED
        BY <3>1 DEF ReplyInv
    <2>5. CASE toDest # <<>>
      BY <2>1, <2>2, <2>3, <2>5 DEF ReplyInv, Replied, Result, Found
    <2> QED
      BY <2>4, <2>5
  <1>9. MayInv'
    BY <1>2
  <1>10. ValidInv' /\ GetInv' /\ SetInv'
    <2>1. \A m \in Lambdas : Reachable(m)' <=> Reachable(m)
      BY DEF Reachable
    <2>2. \A m \in Lambdas, k \in Keys, v \in Values : Holds(m, k, v)' => Holds(m, k, v)
      BY <1>2, <1>3 DEF Holds
    <2>3. \A k \in Keys, v \in Values : Moving(k, v)' <=> Moving(k, v)
      BY DEF Moving, Reachable, Replied
    <2>4. \A m \in Lambdas, k \in Keys, v \in Values : Reading(m, k)' /\ repo'[m][k] = v => repo[m][k] = v
      <3>1. \A m \in Lambdas, k \in Keys : Reading(m, k)' => m # l
        BY <1>2 DEF Reading, Pending
      <3> QED
        BY <1>3, <3>1
    <2>5. ASSUME NEW k \in Keys, NEW v \in Values, Somewhere(k, v)', v \in valid[k]
          PROVE  v \in valid'[k]
      <3>1. CASE Pending[l] = None \/ Result(l, c) # "ok" \/ k # c.key
        BY <1>2, <2>5, <3>1
      <3>2. CASE Pending[l] # None /\ Result(l, c) = "ok" /\ k = c.key
        <4>1. c.op # "get" /\ c.op \in {"set", "get", "del"}
          BY <1>1, <3>2, ResultFacts, CommandFacts
        <4>2. Holds(l, k, v)' => v = c.val
          BY <1>2, <1>3, <3>2, <4>1 DEF Holds
        <4>3. Holds(l, k, v)' \/ Elsewhere(l, k, v)
          BY <2>1, <2>2, <2>3, <2>5 DEF Somewhere, Elsewhere
        <4>4. Elsewhere(l, k, v) => v \in may[l]
          <5>1. CASE l = current
            BY <5>1, PlainAlone DEF Elsewhere
          <5>2. CASE l # current
            <6>1. Writing(l, k)
              BY <1>1, <3>2, <4>1, PendingFacts DEF Writing
            <6> QED
              BY <5>2, <6>1 DEF SetInv
          <5> QED
            BY <5>1, <5>2
        <4> QED
          BY <1>2, <3>2, <4>2, <4>3, <4>4, MigrationAssumption
      <3> QED
        BY <3>1, <3>2
    <2>6. current' = current
      OBVIOUS
    <2> QED
      BY <1>2, <2>1, <2>2, <2>3, <2>4, <2>5, <2>6, NothingNew
  <1>11. CopyInv'
    <2> SUFFICES ASSUME link = "open"
                 PROVE  CopyInv'
      BY DEF CopyInv
    <2>1. dest \in Lambdas /\ source \in Lambdas /\ repo'[dest] = repo[dest]
      BY <1>3, <1>5 DEF StageInv, RoleInv
    <2>2. CASE l = source
      BY <1>6, <2>1, <2>2, NotReadyFacts DEF CopyInv, Found, Awaiting, Changing
    <2>3. CASE l # source
      BY <1>3, <2>1, <2>3 DEF CopyInv, Found, Awaiting, Changing, Replied
    <2> QED
      BY <2>2, <2>3
  <1>12. PlaceInv'
    BY <1>2, PlaceKept
  <1>13. PipeInv'
    BY DEF PipeInv, Awaiting
  <1> QED
    BY <1>7, <1>8, <1>9, <1>10, <1>11, <1>12, <1>13

\* Serialize: the command goes to the adapter's channel, and the proxy waits for it as before.
LEMMA SerializeKeeps ==
    ASSUME IInv, PInv, promise', IInv', NEW l \in Lambdas, Serialize(l)
    PROVE  PInv'
  <1> USE DEF IInv, PInv, Serialize, Adapted, lambdaVars, sourceVars, linkVars, copyVars,
     historyVars, counters
  <1>1. /\ request[l] \in Request /\ request'[l] = [request[l] EXCEPT !.stage = "queued"]
        /\ \A m \in Lambdas \ {l} : request'[m] = request[m]
    BY DEF ProxyType
  <1>2. request'[l] # None /\ request'[l].cmd = request[l].cmd /\ request'[l].live = request[l].live
    <2>0. request[l] \in Request
      BY <1>1
    <2>1. /\ [request[l] EXCEPT !.stage = "queued"] \in Request
          /\ [request[l] EXCEPT !.stage = "queued"].cmd = request[l].cmd
          /\ [request[l] EXCEPT !.stage = "queued"].live = request[l].live
      BY ONLY <2>0, RequestMakers, Zenon
    <2>2. \A r \in Request : r # None
      BY RequestFacts
    <2> QED
      BY ONLY <1>1, <2>1, <2>2
  <1>3. \A m \in Lambdas : Pending'[m] = Pending[m]
    BY <1>1, <1>2 DEF Pending
  <1>4. MayInv'
    BY <1>3 DEF MayInv
  <1>5. ValidInv' /\ GetInv' /\ SetInv'
    <2>1. \A m \in Lambdas : Reachable(m)' <=> Reachable(m)
      BY DEF Reachable
    <2>2. \A m \in Lambdas, k \in Keys, v \in Values : Holds(m, k, v)' => Holds(m, k, v)
      BY <1>1, <1>2 DEF Holds
    <2>3. \A k \in Keys, v \in Values : Moving(k, v)' <=> Moving(k, v)
      BY DEF Moving, Reachable, Replied
    <2> QED
      BY <1>3, <2>1, <2>2, <2>3, NothingNew
  <1>6. PlaceInv'
    BY <1>3, PlaceKept
  <1>7. PipeInv'
    BY DEF PipeInv, Awaiting
  <1>8. (QuietInv /\ ReplyInv)'
    BY DEF QuietInv, Found, Awaiting, ReplyInv, Replied, Result
  <1>9. CopyInv'
    BY DEF CopyInv, Changing, Replied, Awaiting, Found
  <1> QED
    BY <1>4, <1>5, <1>6, <1>7, <1>8, <1>9

\* Disconnect: the proxy gives up on the command; the lambda may still carry it out.
LEMMA DisconnectKeeps ==
    ASSUME IInv, PInv, promise', IInv', NEW l \in Lambdas, Disconnect(l)
    PROVE  PInv'
  <1> USE DEF IInv, PInv, Disconnect, Dropped, lambdaVars, sourceVars, linkVars, adapterVars,
     copyVars
  <1>1. \A m \in Lambdas : /\ request[m] = None <=> request'[m] = None
                           /\ request[m] # None => request'[m].cmd = request[m].cmd
    <2>1. CASE request[l] = None
      BY <2>1
    <2>2. CASE request[l] # None
      <3>1. /\ request[l] \in Request /\ request'[l] = [request[l] EXCEPT !.live = FALSE]
            /\ \A m \in Lambdas \ {l} : request'[m] = request[m]
        BY <2>2 DEF ProxyType
      <3>0. request[l] \in Request
        BY <3>1
      <3>2. /\ [request[l] EXCEPT !.live = FALSE] \in Request
            /\ [request[l] EXCEPT !.live = FALSE].cmd = request[l].cmd
        BY ONLY <3>0, RequestMakers, Zenon
      <3>3. \A r \in Request : r # None
        BY RequestFacts
      <3> QED
        BY ONLY <2>2, <3>1, <3>2, <3>3
    <2> QED
      BY <2>1, <2>2
  <1>2. Pending'[l] = None /\ \A m \in Lambdas \ {l} : Pending'[m] = Pending[m]
    <2>1. \A m \in Lambdas \ {l} : request'[m] = request[m]
      BY DEF ProxyType
    <2>2. \A m \in Lambdas \ {l} : Pending'[m] = Pending[m]
      BY <2>1, PendingKept
    <2>3. CASE request[l] = None
      BY <1>1, <2>3 DEF Pending
    <2>4. CASE request[l] # None
      <3>1. request[l] \in Request /\ request'[l] = [request[l] EXCEPT !.live = FALSE]
        BY <2>4 DEF ProxyType
      <3>0. request[l] \in Request
        BY <3>1
      <3>2. [request[l] EXCEPT !.live = FALSE].live = FALSE
        BY ONLY <3>0, RequestMakers, Zenon
      <3> QED
        BY <2>2, <3>1, <3>2 DEF Pending
    <2> QED
      BY <2>2, <2>3, <2>4
  <1>3. may'[l] = {} /\ \A m \in Lambdas \ {l} : may'[m] = may[m]
    BY DEF HistoryType
  <1>4. PlaceInv'
    BY <1>1, <1>2, <1>3 DEF PlaceInv, RoleInv, ConnInv, ProxyType, StageInv, LinkType
  <1>5. MayInv'
    BY <1>2, <1>3 DEF MayInv
  <1>6. ValidInv' /\ GetInv' /\ SetInv'
    <2>1. \A m \in Lambdas : Reachable(m)' <=> Reachable(m)
      BY DEF Reachable
    <2>2. \A m \in Lambdas, k \in Keys, v \in Values : Holds(m, k, v)' => Holds(m, k, v)
      BY <1>1 DEF Holds
    <2>3. \A k \in Keys, v \in Values : Moving(k, v)' <=> Moving(k, v)
      BY DEF Moving, Reachable, Replied
    <2> QED
      BY <1>2, <1>3, <2>1, <2>2, <2>3, NothingNew
  <1>7. (PipeInv /\ QuietInv /\ ReplyInv)'
    BY DEF PipeInv, Awaiting, QuietInv, Found, ReplyInv, Replied, Result
  <1>8. CopyInv'
    BY DEF CopyInv, Changing, Replied, Awaiting, Found
  <1> QED
    BY <1>4, <1>5, <1>6, <1>7, <1>8

\* EndConnection: SetReady; the source's stores and replies stay.
LEMMA EndConnectionKeeps ==
    ASSUME IInv, PInv, promise', IInv', NEW l \in Lambdas, EndConnection(l)
    PROVE  PInv'
  <1> USE DEF IInv, PInv, EndConnection, Served, Migrating, Adapted, linkVars, adapterVars,
     copyVars, historyVars, counters
  <1>1. PlaceInv'
    BY DEF PlaceInv, Pending, RoleInv, ConnInv, ProxyType, StageInv, LinkType
  <1>2. QuietInv'
    BY DEF QuietInv, Found, Awaiting, RoleInv, StageInv, Running, ProxyType, StoreType, ReadyInv
  <1>3. (PipeInv /\ ReplyInv)'
    BY DEF PipeInv, Awaiting, ReplyInv, Replied, Result, Found
  <1>4. (MayInv /\ ValidInv /\ GetInv /\ SetInv)'
    BY DEF MayInv, Pending, ValidInv, GetInv, SetInv, Reachable, Holds, Moving, Somewhere,
       Elsewhere, Reading, Writing, Replied
  <1>5. CopyInv'
    BY DEF CopyInv, Changing, Replied, Awaiting, Found
  <1> QED
    BY <1>1, <1>2, <1>3, <1>4, <1>5

\* Join: the proxy switches from the source to the destination, which has nothing the source's last
\* command could overtake, as the source has not sent anything before ready.
LEMMA JoinKeeps ==
    ASSUME IInv, PInv, promise', IInv', NEW d \in Lambdas, Join(d)
    PROVE  PInv'
  <1> USE DEF IInv, PInv, Join, Dropped, sourceVars, linkVars, adapterVars, copyVars, historyVars, counters
  <1>1. d = dest /\ current = source /\ serving /\ current' = dest /\ source # dest /\ dest \in Lambdas
    BY DEF Late, RoleInv
  <1>2. request[dest] = None
    BY <1>1 DEF ConnInv
  <1>3. UNCHANGED <<request, repo, source, dest, serving, ready, link, toSource, toDest, adapter, handling,
                    mpc, valid, may>>
    OBVIOUS
  <1>4. PlaceInv'
    BY <1>1, <1>3 DEF PlaceInv, Pending, StageInv, RoleInv
  <1>5. QuietInv'
    BY <1>1, <1>2, <1>3 DEF QuietInv, Found, Awaiting, RoleInv, StageInv, Running, ProxyType,
       StoreType, ReadyInv
  <1>6. ValidInv' /\ GetInv' /\ SetInv'
    <2>1. \A m \in Lambdas : Reachable(m)' => Reachable(m)
      BY <1>1, <1>3 DEF Reachable
    <2>2. \A m \in Lambdas : Pending'[m] = Pending[m]
      BY <1>3, PendingKept
    <2>3. \A m \in Lambdas, k \in Keys, v \in Values : Holds(m, k, v)' <=> Holds(m, k, v)
      BY <1>3 DEF Holds
    <2>4. \A k \in Keys, v \in Values : Moving(k, v)' => Moving(k, v)
      BY <1>1, <1>3 DEF Moving, Reachable, Replied
    <2>5. \A k \in Keys, v \in Values : Somewhere(k, v)' => Somewhere(k, v)
      BY <2>1, <2>3, <2>4 DEF Somewhere
    <2>6. Pending[dest] = None
      BY <1>1, <1>2, PendingFacts
    <2>7. ValidInv' /\ GetInv'
      BY <1>1, <1>3, <2>2, <2>5, <2>6 DEF ValidInv, GetInv, Reading
    <2>8. SetInv'
      <3> SUFFICES ASSUME NEW m \in Lambdas, NEW k \in Keys, NEW v \in Values, Writing(m, k)',
                          Elsewhere(m, k, v)'
                   PROVE  v \in may[m]
        BY <1>3 DEF SetInv
      <3>1. Writing(m, k) /\ m # dest /\ request[m] # None
        BY <2>2, <2>6, PendingFacts DEF Writing
      <3>2. CASE m = source
        <4>1. ~ready
          BY <1>1, <3>1, <3>2 DEF ConnInv, ReadyInv
        <4>2. ~Found(dest, k) /\ toDest = <<>> /\ (handling # None => Awaiting)
          BY <1>1, <4>1 DEF QuietInv
        <4>3. handling # None => handling.val = None
          BY <4>2 DEF PipeInv
        <4>4. ~Moving(k, v)
          BY <4>2, <4>3, AmongFacts, MigrationAssumption DEF Moving, Replied
        <4>5. \A n \in Lambdas \ {source} : Reachable(n)' => n = dest
          BY <1>1, <1>3 DEF Reachable
        <4>6. ~Holds(dest, k, v)
          BY <1>2, <4>2 DEF Holds, Found
        <4> QED
          BY <2>3, <2>4, <3>2, <4>4, <4>5, <4>6 DEF Elsewhere
      <3>3. CASE m # source
        <4>1. Elsewhere(m, k, v)
          BY <2>1, <2>3, <2>4 DEF Elsewhere
        <4> QED
          BY <1>1, <3>1, <3>3, <4>1 DEF SetInv
      <3> QED
        BY <3>2, <3>3
    <2> QED
      BY <2>7, <2>8
  <1>7. (PipeInv /\ ReplyInv /\ MayInv /\ CopyInv)'
    BY DEF PipeInv, Awaiting, ReplyInv, Replied, Result, Found, MayInv, Pending, CopyInv, Changing
  <1> QED
    BY <1>4, <1>5, <1>6, <1>7

\* Sleep: the invocation returns; nothing that can be read changes.
LEMMA SleepKeeps ==
    ASSUME IInv, PInv, promise', IInv', NEW l \in Lambdas, Sleep(l)
    PROVE  PInv'
  <1>1. PInv /\ UNCHANGED <<current, conn, request, repo, source, dest, serving, ready, link, toSource, toDest,
                            adapter, handling, mpc, todo, list, valid, may>>
    BY DEF Sleep, proxyVars, sourceVars, linkVars, adapterVars, copyVars, historyVars
  <1>2. PlaceInv' /\ PipeInv' /\ QuietInv'
    BY <1>1 DEF PInv, PlaceInv, Pending, PipeInv, QuietInv, Awaiting, Found
  <1>3. ReplyInv'
    BY <1>1 DEF PInv, ReplyInv, Replied, Result, Found
  <1>4. MayInv' /\ ValidInv' /\ GetInv' /\ SetInv'
    BY <1>1 DEF PInv, MayInv, Pending, ValidInv, GetInv, SetInv, Reachable, Holds, Moving,
       Somewhere, Elsewhere, Reading, Writing, Replied
  <1>5. CopyInv'
    BY <1>1 DEF PInv, CopyInv, Changing, Replied, Awaiting, Found
  <1> QED
    BY <1>2, <1>3, <1>4, <1>5 DEF PInv

\* Invoke: the container that connects was the current one, or has no chunk; no other can be read from.
LEMMA InvokeKeeps ==
    ASSUME IInv, PInv, promise', IInv', NEW d \in Lambdas, Invoke(d)
    PROVE  PInv'
  <1> USE DEF IInv, PInv
  <1>1. /\ UNCHANGED <<request, repo, source, dest, serving, ready, link, toSource, toDest, adapter, handling,
                       mpc, todo, list, valid, may>>
        /\ current' = d /\ d \notin running /\ ~Connected(current) /\ ~Reused(d)
    BY DEF Invoke, Idle, sourceVars, linkVars, adapterVars, copyVars, historyVars
  <1>2. request[d] = None /\ Pending[d] = None
    BY <1>1, PendingFacts DEF ConnInv
  <1>3. /\ serving => d # source
        /\ adapter = "on" \/ link = "open" => d # dest
    BY <1>1 DEF RoleInv, StageInv
  <1>4. \A m \in Lambdas : Reachable(m)' => m = d
    BY <1>1, <1>3 DEF Reachable
  <1>5. \A m \in Lambdas : Pending'[m] = Pending[m]
    BY <1>1, PendingKept
  <1>6. ASSUME NEW m \in Lambdas, NEW k \in Keys, NEW v \in Values, Reachable(m)', Holds(m, k, v)'
        PROVE  m = d /\ d = current /\ Holds(m, k, v)
    BY <1>1, <1>2, <1>4, <1>6 DEF Holds, Reused, Found
  <1>7. ASSUME NEW k \in Keys, NEW v \in Values
        PROVE  ~Moving(k, v)'
    <2> SUFFICES ASSUME Moving(k, v)'
                 PROVE  FALSE
      OBVIOUS
    <2>1. Reachable(dest)' /\ handling # None /\ (handling.val = v \/ Replied(v))
      BY <1>1 DEF Moving, Replied
    <2>2. adapter # "off"
      BY <2>1 DEF StageInv
    <2>3. adapter = "restored"
      BY <1>1, <1>3, <1>4, <2>1, <2>2, DestFacts DEF AdapterType
    <2>4. toDest = <<>> /\ handling.val = None
      BY <2>1, <2>3 DEF PipeInv
    <2> QED
      BY <2>1, <2>4, AmongFacts, MigrationAssumption DEF Replied
  <1>8. PlaceInv'
    <2>1. adapter # "off" => Pending[dest] = None
      <3> SUFFICES ASSUME adapter # "off", Pending[dest] # None
                   PROVE  FALSE
        OBVIOUS
      <3>1. dest \in Lambdas /\ current = dest /\ conn[dest] = "open"
        BY DestFacts DEF PlaceInv
      <3>2. dest \in running
        BY <3>1, PendingFacts DEF ConnInv
      <3> QED
        BY <1>1, <3>1, <3>2 DEF Connected
    <2>2. adapter # "off" => dest \in Lambdas
      BY DEF RoleInv
    <2>3. ~(serving' /\ current' = source')
      BY <1>1, <1>3
    <2>4. ~(adapter' # "off" /\ Pending'[dest'] # None)
      BY <1>1, <1>5, <2>1, <2>2
    <2> QED
      BY <2>3, <2>4 DEF PlaceInv
  <1>9. QuietInv'
    BY <1>1, <1>3 DEF QuietInv, Found, Awaiting
  <1>10. ValidInv' /\ GetInv' /\ SetInv'
    <2>1. \A k \in Keys, v \in Values : Somewhere(k, v)' => Somewhere(k, v)
      BY <1>6, <1>7 DEF Somewhere, Reachable
    <2>2. ValidInv'
      BY <1>1, <2>1 DEF ValidInv
    <2>3. GetInv'
      BY <1>1, <1>2, <1>5 DEF GetInv, Reading
    <2>4. SetInv'
      <3> SUFFICES ASSUME NEW m \in Lambdas, NEW k \in Keys, NEW v \in Values, Writing(m, k)',
                          m # d, Elsewhere(m, k, v)'
                   PROVE  v \in may[m]
        BY <1>1 DEF SetInv
      <3>1. Writing(m, k)
        BY <1>5 DEF Writing
      <3>2. Elsewhere(m, k, v) /\ d = current
        BY <1>6, <1>7 DEF Elsewhere, Reachable
      <3> QED
        BY <3>1, <3>2 DEF SetInv
    <2> QED
      BY <2>2, <2>3, <2>4
  <1>11. (PipeInv /\ ReplyInv)'
    BY <1>1 DEF PipeInv, Awaiting, ReplyInv, Replied, Result, Found
  <1>12. MayInv'
    BY <1>1, <1>5 DEF MayInv
  <1>13. CopyInv'
    BY <1>1 DEF CopyInv, Changing, Replied, Awaiting, Found
  <1> QED
    BY <1>8, <1>9, <1>10, <1>11, <1>12, <1>13

\* Die: the lambda's store and what was on its way to it are gone, and nothing is new.
LEMMA DieKeeps ==
    ASSUME IInv, PInv, promise', IInv', NEW l \in Lambdas, Die(l)
    PROVE  PInv'
  <1> USE DEF IInv, PInv, Die, Dies
  <1>1. /\ MayInv' /\ request'[l] = None /\ \A m \in Lambdas \ {l} : request'[m] = request[m]
        /\ \A m \in Lambdas : Pending'[m] = None \/ (Pending'[m] = Pending[m] /\ may'[m] = may[m])
        /\ valid' = valid
    <2>1. CASE request[l] = None
      <3>1. UNCHANGED <<request, valid, may>>
        BY <2>1 DEF historyVars
      <3>2. \A m \in Lambdas : Pending'[m] = Pending[m]
        BY <3>1, PendingKept
      <3> QED
        BY <2>1, <3>1, <3>2 DEF MayInv
    <2>2. CASE request[l] # None
      <3>1. Answer(l, "error") /\ "error" # "ok"
        BY <2>2
      <3> QED
        BY <2>2, <3>1, AnswerEffect
    <2> QED
      BY <2>1, <2>2
  <1>2. /\ l = dest => adapter' = "off" /\ handling' = None /\ mpc' = "none"
        /\ l # dest => UNCHANGED <<adapter, handling, mpc>>
    BY DEF adapterVars
  <1>3. /\ l \in {source, dest} /\ link \in {"half", "open"} => link' = "closed"
        /\ ~(l \in {source, dest} /\ link \in {"half", "open"}) => UNCHANGED <<link, toSource, toDest>>
        /\ toSource' = toSource \/ (l = source /\ toSource' = <<>>)
        /\ toDest' = toDest \/ (l = dest /\ toDest' = <<>>)
    BY DEF linkVars
  <1>4. /\ \A m \in Lambdas \ {l} : repo'[m] = repo[m]
        /\ \A k \in Keys : repo'[l][k] \notin Values
    BY MigrationAssumption DEF StoreType, Fresh
  <1>5. /\ UNCHANGED <<current, source, dest, ready, todo, list>>
        /\ serving' => serving /\ l # source
        /\ conn' = [conn EXCEPT ![l] = "none"]
    OBVIOUS
  <1>6. link' \in {link, "closed"} /\ (link' = "open" => l \notin {source, dest} /\ UNCHANGED <<toSource, toDest>>)
    BY <1>3
  <1>7. PlaceInv'
    <2>1. \A m \in Lambdas : conn'[m] = IF m = l THEN "none" ELSE conn[m]
      BY <1>5 DEF ProxyType
    <2>2. serving' /\ current = source => conn'[dest] = "none"
      <3>1. serving => dest \in Lambdas
        BY DEF RoleInv
      <3> QED
        BY <1>5, <2>1, <3>1 DEF PlaceInv
    <2>3. serving' /\ current = source => toSource' = toSource
      BY <1>3, <1>5
    <2>4. adapter' # "off" /\ Pending'[dest] # None => conn'[dest] = "open"
      <3>1. adapter' # "off" => l # dest /\ adapter # "off" /\ dest \in Lambdas
        BY <1>2 DEF RoleInv
      <3> QED
        BY <1>1, <2>1, <3>1 DEF PlaceInv
    <2> QED
      BY <1>5, <2>2, <2>3, <2>4 DEF PlaceInv
  <1>8. PipeInv'
    <2>1. l # dest => UNCHANGED <<toDest, handling, adapter, mpc>>
      BY <1>2, <1>3
    <2>2. CASE l = dest
      BY <1>2, <2>2 DEF PipeInv, Awaiting
    <2>3. CASE l # dest
      BY <1>6, <2>1, <2>3 DEF PipeInv, Awaiting
    <2> QED
      BY <2>2, <2>3
  <1>9. QuietInv'
    <2>1. mpc = "invoked" \/ serving => dest \in Lambdas
      BY DEF RoleInv
    <2>2. \A k \in Keys : dest \in Lambdas /\ ~Found(dest, k) => ~Found(dest, k)'
      BY <1>4, <1>5 DEF Found
    <2>3. (handling # None => Awaiting) => (handling' # None => Awaiting')
      BY <1>2 DEF Awaiting
    <2>4. toDest = <<>> => toDest' = <<>>
      BY <1>3
    <2>5. mpc' = "invoked" => mpc = "invoked"
      BY <1>2
    <2>6. serving' /\ ~ready' => toDest' = <<>> /\ (handling' # None => Awaiting')
      BY <1>5, <2>3, <2>4 DEF QuietInv
    <2>7. ASSUME mpc' = "invoked" \/ (serving' /\ ~ready' /\ (current' = source' \/ link' = "open")),
                 NEW k \in Keys
          PROVE  ~Found(dest, k)'
      <3>1. mpc = "invoked" \/ (serving /\ ~ready /\ (current = source \/ link = "open"))
        BY <1>5, <1>6, <2>5, <2>7
      <3> QED
        BY <2>1, <2>2, <3>1 DEF QuietInv
    <2> QED
      BY <2>6, <2>7 DEF QuietInv
  <1>10. ReplyInv' /\ CopyInv'
    <2>1. CASE link' # "open"
      BY <2>1 DEF ReplyInv, CopyInv
    <2>2. CASE link' = "open"
      <3>1. UNCHANGED <<link, toDest, adapter, handling, mpc, todo, list, source, dest>>
        BY <1>2, <1>5, <1>6, <2>2
      <3>2. repo'[source] = repo[source] /\ repo'[dest] = repo[dest]
        BY <1>4, <1>6, <2>2, <3>1 DEF StageInv, RoleInv
      <3>3. ReplyInv'
        BY <3>1, <3>2 DEF ReplyInv, Replied, Result, Found
      <3>4. CopyInv'
        BY <3>1, <3>2 DEF CopyInv, Changing, Replied, Awaiting, Found
      <3> QED
        BY <3>3, <3>4
    <2> QED
      BY <2>1, <2>2
  <1>11. ValidInv' /\ GetInv' /\ SetInv'
    <2>1. \A m \in Lambdas : Reachable(m)' => Reachable(m)
      BY <1>5, <1>6 DEF Reachable
    <2>2. \A m \in Lambdas, k \in Keys, v \in Values : Holds(m, k, v)' => Holds(m, k, v)
      BY <1>1, <1>4 DEF Holds
    <2>3. \A k \in Keys, v \in Values : Moving(k, v)' => Moving(k, v)
      <3>1. CASE l = dest
        BY <1>2, <3>1 DEF Moving
      <3>2. CASE l # dest
        <4>1. UNCHANGED <<toDest, handling>>
          BY <1>2, <1>3, <3>2
        <4>2. Reachable(dest)' => Reachable(dest)
          BY <1>5, <1>6 DEF Reachable
        <4> QED
          BY <4>1, <4>2 DEF Moving, Replied
      <3> QED
        BY <3>1, <3>2
    <2>4. \A m \in Lambdas, k \in Keys, v \in Values : Reading(m, k)' /\ repo'[m][k] = v => repo[m][k] = v
      BY <1>4
    <2> QED
      BY <1>1, <1>5, <2>1, <2>2, <2>3, <2>4, NothingNew
  <1> QED
    BY <1>1, <1>7, <1>8, <1>9, <1>10, <1>11

\* Migrate: the destination's store is empty, or the promise ends.
LEMMA MigrateKeeps ==
    ASSUME IInv, PInv, promise', IInv', NEW s \in Lambdas, NEW d \in Lambdas, Migrate(s, d)
    PROVE  PInv'
  <1> USE DEF IInv, PInv, Migrate, TimeIsUp, Connected, Idle, Listening, StartServing, proxyVars,
     adapterVars, historyVars
  <1>1. /\ \A k \in Keys : ~Found(d, k)
        /\ handling = None /\ handling' = None /\ s # d /\ request[d] = None
    BY DEF Reused, StageInv, ConnInv, ProxyType
  <1>2. /\ UNCHANGED <<current, repo, request, valid, may, adapter>> /\ source' = s /\ dest' = d /\ s = current
        /\ link' = "half" /\ toDest' = <<>> /\ toSource' = <<>> /\ serving'
    OBVIOUS
  <1>3. PlaceInv'
    BY <1>1, <1>2 DEF PlaceInv, RoleInv, ConnInv, ProxyType, StageInv, LinkType
  <1>4. PipeInv'
    BY <1>1, <1>2 DEF PipeInv, Awaiting, StageInv, LinkType, Running, AdapterType, CountInv
  <1>5. QuietInv'
    BY <1>1, <1>2 DEF QuietInv, Found
  <1>6. ReplyInv'
    BY <1>1, <1>2 DEF ReplyInv, Replied, Result, Found, RoleInv, StageInv, StoreType
  <1>7. ValidInv' /\ GetInv' /\ SetInv'
    <2>1. \A m \in Lambdas, k \in Keys, v \in Values : Reachable(m)' /\ Holds(m, k, v)' =>
              Reachable(m) /\ Holds(m, k, v)
      BY <1>1, <1>2 DEF Reachable, Holds, Found
    <2>2. \A k \in Keys, v \in Values : Moving(k, v)' => Moving(k, v)
      BY <1>1, <1>2 DEF Moving, Reachable, Replied
    <2>3. UNCHANGED <<current, request, valid, may, repo>>
      OBVIOUS
    <2> QED
      BY <2>1, <2>2, <2>3, NothingMoves
  <1>8. CopyInv'
    BY <1>1, <1>2 DEF CopyInv, Found, Changing, Replied, Awaiting, RoleInv, StageInv, Running
  <1>9. (MayInv)'
    BY DEF MayInv, Pending
  <1> QED
    BY <1>3, <1>4, <1>5, <1>6, <1>7, <1>8, <1>9

\* Hello: the link opens with the hello on it; the adapter is on, with nothing to do.
LEMMA HelloKeeps ==
    ASSUME IInv, PInv, promise', IInv', Hello
    PROVE  PInv'
  <1> USE DEF IInv, PInv, Hello, Bridged, proxyVars, sourceVars, historyVars, counters
  <1>1. /\ toDest = <<>> /\ handling' = None /\ current # dest /\ link' = "open" /\ mpc' = "hello"
        /\ \A k \in Keys : ~Found(dest, k)
    BY DEF StageInv, RoleInv, QuietInv
  <1>2. UNCHANGED <<current, repo, request, valid, may, source, dest, serving, toDest>>
    OBVIOUS
  <1>3. PlaceInv'
    BY <1>1, <1>2 DEF PlaceInv, Pending, RoleInv, ConnInv, ProxyType, StageInv, LinkType
  <1>4. PipeInv'
    BY <1>1, <1>2 DEF PipeInv, Awaiting, StageInv, LinkType, Running, AdapterType, CountInv
  <1>5. QuietInv'
    BY <1>1, <1>2 DEF QuietInv, Found, Awaiting, RoleInv, StageInv, Running, ProxyType,
       StoreType, ReadyInv
  <1>6. ReplyInv'
    BY <1>1, <1>2, AmongFacts DEF ReplyInv, Replied
  <1>7. ValidInv' /\ GetInv' /\ SetInv'
    <2>1. \A m \in Lambdas, k \in Keys, v \in Values : Reachable(m)' /\ Holds(m, k, v)' =>
              Reachable(m) /\ Holds(m, k, v)
      BY <1>1, <1>2 DEF Reachable, Holds
    <2>2. \A k \in Keys, v \in Values : Moving(k, v)' => Moving(k, v)
      BY <1>1, <1>2 DEF Moving, Reachable, Replied
    <2>3. UNCHANGED <<current, request, valid, may, repo>>
      OBVIOUS
    <2> QED
      BY <2>1, <2>2, <2>3, NothingMoves
  <1>8. CopyInv'
    BY <1>1, <1>2 DEF CopyInv, Found
  <1>9. (MayInv)'
    BY DEF MayInv, Pending
  <1> QED
    BY <1>3, <1>4, <1>5, <1>6, <1>7, <1>8, <1>9

\* HelloFailed: the migrator is gone, the invocation returns.
LEMMA HelloFailedKeeps ==
    ASSUME IInv, PInv, promise', IInv', HelloFailed
    PROVE  PInv'
  <1> USE DEF IInv, PInv, HelloFailed, proxyVars, sourceVars, linkVars, adapterVars,
     historyVars, counters
  <1>1. PlaceInv'
    BY DEF PlaceInv, RoleInv, ConnInv, ProxyType, StageInv, LinkType
  <1>2. PipeInv'
    BY DEF PipeInv, Awaiting, StageInv, LinkType, Running, AdapterType, CountInv
  <1>3. QuietInv'
    BY DEF QuietInv, Found, Awaiting, RoleInv, StageInv, Running, ProxyType, StoreType, ReadyInv
  <1>4. CopyInv'
    BY DEF CopyInv, Found, Changing, Replied, Awaiting, RoleInv, StageInv, Running
  <1>5. (ReplyInv /\ MayInv /\ ValidInv /\ GetInv /\ SetInv)'
    BY DEF ReplyInv, Replied, Result, Found, MayInv, Pending, ValidInv, GetInv, SetInv,
       Reachable, Holds, Moving, Somewhere, Elsewhere, Reading, Writing
  <1> QED
    BY <1>1, <1>2, <1>3, <1>4, <1>5

\* MHello: the list has every chunk that the source has.
LEMMA MHelloKeeps ==
    ASSUME IInv, PInv, promise', IInv', MHello
    PROVE  PInv'
  <1> USE DEF IInv, PInv, MHello, NextCommand, Reply, SafeToProceed, proxyVars, lambdaVars,
     sourceVars, adapterVars, copyVars, historyVars, counters
  <1>1. serving /\ toSource # <<>> /\ ready /\ source \in Lambdas /\ request[source] = None /\ dest \in Lambdas
        /\ toSource \in Seq({HelloCommand} \cup Command) /\ toDest \in Seq(Replies) /\ source # dest
    BY DEF ReadyInv, ConnInv, RoleInv, LinkType
  <1> DEFINE x == [kind |-> "list", list |-> KeyList(source)]
  <1>2. /\ toDest' = IF link = "open" THEN Append(toDest, x) ELSE toDest
        /\ toSource' = Tail(toSource) /\ x \in Replies /\ x.kind = "list"
        /\ UNCHANGED <<current, source, dest, serving, ready, link, adapter, handling, mpc, todo, list, repo,
                       request, valid, may>>
    BY DEF Replies, KeyLists, KeyList
  <1>3. link = "open" => adapter = "on" /\ mpc = "hello" /\ toDest = <<>> /\ toDest' = <<x>>
    <2> SUFFICES ASSUME link = "open"
                 PROVE  adapter = "on" /\ mpc = "hello" /\ toDest = <<>> /\ toDest' = <<x>>
      OBVIOUS
    <2>1. adapter = "on"
      BY DEF StageInv
    <2>2. toSource[1] = HelloCommand /\ 1 \in 1 .. Len(toSource)
      BY <1>1
    <2>3. ~(Len(toDest) + 1 = 1 /\ mpc = "hello") => toSource[1] = handling.item.cmd
      BY <2>1, <2>2 DEF PipeInv
    <2>4. ~(Len(toDest) + 1 = 1 /\ mpc = "hello") => Awaiting
      BY <1>1, <2>2 DEF CountInv
    <2>5. Awaiting => handling.item.cmd # HelloCommand
      BY <2>1, PipeFacts, CommandFacts
    <2>6. Len(toDest) + 1 = 1 /\ mpc = "hello"
      BY <2>2, <2>3, <2>4, <2>5
    <2>7. toDest = <<>>
      BY <1>1, <2>6
    <2> QED
      BY <1>2, <2>1, <2>6, <2>7
  <1>4. \A r \in Values \cup {"ok", "error"} : Replied(r)' <=> Replied(r)
    BY <1>1, <1>2, AmongFacts DEF Replied
  <1>5. PlaceInv'
    BY <1>1, <1>2, <1>3, <1>4 DEF PlaceInv, Pending, RoleInv, ConnInv, ProxyType, StageInv, LinkType
  <1>6. PipeInv'
    <2>1. CASE link # "open"
      BY <1>2, <2>1 DEF PipeInv, Awaiting
    <2>2. CASE link = "open"
      <3>1. Len(toDest') = 1 /\ toDest'[1].kind = "list" /\ adapter = "on" /\ mpc = "hello"
        BY <1>2, <1>3, <2>2
      <3>2. \A i \in 1 .. Len(Tail(toSource)) : /\ Tail(toSource)[i] = toSource[i + 1] /\ i + 1 \in 1 .. Len(toSource)
                                                /\ i \in Nat /\ i >= 1
        BY <1>1
      <3>3. \A i \in 1 .. Len(toSource) : i >= 2 => toSource[i] = handling.item.cmd
        BY <1>3, <2>2 DEF PipeInv
      <3>4. \A i \in 1 .. Len(Tail(toSource)) : Tail(toSource)[i] = handling.item.cmd /\ 1 + i # 1
        BY <3>2, <3>3
      <3>5. Awaiting => handling.val = None
        BY DEF PipeInv
      <3> QED
        BY <1>2, <3>1, <3>4, <3>5 DEF PipeInv, Awaiting
    <2> QED
      BY <2>1, <2>2
  <1>7. QuietInv'
    BY <1>1, <1>2 DEF QuietInv, Found, StageInv
  <1>8. ReplyInv'
    BY <1>2, <1>4 DEF ReplyInv, Result, Found
  <1>9. ValidInv' /\ GetInv' /\ SetInv'
    <2>1. \A m \in Lambdas, k \in Keys, v \in Values : Reachable(m)' /\ Holds(m, k, v)' =>
              Reachable(m) /\ Holds(m, k, v)
      BY <1>2 DEF Reachable, Holds
    <2>2. \A k \in Keys, v \in Values : Moving(k, v)' => Moving(k, v)
      BY <1>2, <1>4 DEF Moving, Reachable
    <2> QED
      BY <1>2, <2>1, <2>2, NothingMoves
  <1>10. CopyInv'
    <2> SUFFICES ASSUME link = "open"
                 PROVE  CopyInv'
      BY <1>2 DEF CopyInv
    <2>1. \A k \in Keys : Changing(k)' <=> Changing(k)
      BY <1>2, <1>4 DEF Changing
    <2>2. \A k \in Keys : Found(source, k) => k \in x.list.get
      BY DEF KeyList
    <2>3. Len(toDest') = 1 /\ toDest'[1] = x
      BY <1>3
    <2> QED
      BY <1>2, <1>3, <2>1, <2>2, <2>3 DEF CopyInv, Found, Awaiting
  <1>11. (MayInv)'
    BY DEF MayInv, Pending
  <1> QED
    BY <1>5, <1>6, <1>7, <1>8, <1>9, <1>10, <1>11

\* ServeForwarded: the source carries out the adapter's command; its reply tells what its store has.
LEMMA ServeForwardedKeeps ==
    ASSUME IInv, PInv, promise', IInv', ServeForwarded
    PROVE  PInv'
  <1> USE DEF IInv, PInv, ServeForwarded, NextCommand, Reply, proxyVars, sourceVars,
     adapterVars, copyVars, historyVars, counters
  <1>1. serving /\ toSource # <<>> /\ ready /\ source \in Lambdas /\ request[source] = None /\ dest \in Lambdas
        /\ toSource \in Seq({HelloCommand} \cup Command) /\ toDest \in Seq(Replies) /\ source # dest
    BY DEF ReadyInv, ConnInv, RoleInv, LinkType
  <1>0. PICK c \in Command : c = Head(toSource) /\ c # HelloCommand
    BY <1>1
  <1> DEFINE x == [kind |-> "result", result |-> Result(source, c)]
  <1>2. /\ c \in Command /\ c.key \in Keys /\ c = toSource[1] /\ 1 \in 1 .. Len(toSource) /\ c # HelloCommand
    BY <1>0, <1>1, CommandFacts
  <1>3. /\ toDest' = IF link = "open" THEN Append(toDest, x) ELSE toDest
        /\ toSource' = Tail(toSource) /\ x \in Replies /\ x.kind = "result" /\ x.result = Result(source, c)
        /\ UNCHANGED <<current, source, dest, serving, ready, link, adapter, handling, mpc, todo, list,
                       request, valid, may>>
    BY <1>0, <1>1, <1>2, StoreFacts DEF Replies
  <1>4. /\ \A m \in Lambdas \ {source} : repo'[m] = repo[m]
        /\ \A k \in Keys \ {c.key} : repo'[source][k] = repo[source][k]
        /\ c.op = "get" => repo' = repo
        /\ c.op = "set" => repo'[source][c.key] = c.val
        /\ c.op = "del" => repo'[source][c.key] \notin Values
        /\ \A k \in Keys, v \in Values : repo'[source][k] = v => repo[source][k] = v \/ (k = c.key /\ c.val = v)
        /\ c.op = "del" /\ Result(source, c) = "error" => \A k \in Keys : repo'[source][k] = repo[source][k]
    BY <1>0, <1>1, <1>2, AppliedFacts
  <1>5. link = "open" => adapter = "on" /\ Awaiting /\ c = handling.item.cmd /\ \A r : ~Replied(r)
    <2> SUFFICES ASSUME link = "open"
                 PROVE  adapter = "on" /\ Awaiting /\ c = handling.item.cmd /\ \A r : ~Replied(r)
      OBVIOUS
    <2>1. adapter = "on"
      BY DEF StageInv
    <2>2. \A r : ~Replied(r)
      BY <1>1, <2>1, PipeFacts
    <2>3. ~(Len(toDest) + 1 = 1 /\ mpc = "hello") /\ c = handling.item.cmd
      BY <1>2, <2>1 DEF PipeInv
    <2>4. Awaiting
      BY <1>2, <2>1, PipeFacts
    <2> QED
      BY <2>1, <2>2, <2>3, <2>4
  <1>6. \A r \in Values \cup {"ok", "error"} :
            Replied(r)' => (link = "open" /\ r = Result(source, c)) \/ (link # "open" /\ Replied(r))
    <2> HIDE DEF x
    <2> SUFFICES ASSUME NEW r \in Values \cup {"ok", "error"}
                 PROVE  Replied(r)' => (link = "open" /\ r = Result(source, c)) \/ (link # "open" /\ Replied(r))
      OBVIOUS
    <2>1. CASE link = "open"
      <3>1. Among(Append(toDest, x), r) <=> Among(toDest, r) \/ (x.kind = "result" /\ x.result = r)
        BY <1>1, <1>3, AmongFacts
      <3> QED
        BY <1>3, <1>5, <2>1, <3>1 DEF Replied
    <2>2. CASE link # "open"
      BY <1>3, <2>2 DEF Replied
    <2> QED
      BY <2>1, <2>2
  <1>7. PlaceInv'
    BY <1>1, <1>3 DEF PlaceInv, Pending
  <1>8. PipeInv'
    BY <1>1, <1>2, <1>3, <1>4, <1>5, <1>6 DEF PipeInv, Awaiting, StageInv, LinkType, Running,
       AdapterType, CountInv
  <1>9. QuietInv'
    BY <1>1, <1>3, <1>4 DEF QuietInv, Found, StageInv
  <1>10. ReplyInv'
    <2> SUFFICES ASSUME link = "open", NEW r \in Values \cup {"ok", "error"}, r = Result(source, c)
                 PROVE  /\ c.op = "get" => r = Result(source, c)'
                        /\ c.op = "set" => r = "ok" /\ repo'[source][c.key] = c.val
                        /\ c.op = "del" => r \notin Values /\ (r = "ok" => ~Found(source, c.key)')
      BY <1>3, <1>5, <1>6 DEF ReplyInv
    <2>1. c.op = "get" => r = Result(source, c)'
      BY <1>3, <1>4, <1>5 DEF Result, Found
    <2> QED
      BY <1>1, <1>2, <1>3, <1>4, <2>1, ResultFacts DEF Found
  <1>11. ValidInv' /\ GetInv' /\ SetInv'
    <2>1. \A m \in Lambdas : Reachable(m)' <=> Reachable(m)
      BY <1>3 DEF Reachable
    <2>2. \A m \in Lambdas \ {source}, k \in Keys, v \in Values : Holds(m, k, v)' => Holds(m, k, v)
      BY <1>3, <1>4 DEF Holds
    <2>3. ASSUME NEW k \in Keys, NEW v \in Values, Reachable(source), Holds(source, k, v)'
          PROVE  Holds(source, k, v) \/ (current = dest /\ Holds(dest, k, v))
      <3>1. repo'[source][k] = v
        BY <1>1, <1>3, <2>3 DEF Holds
      <3>2. CASE repo[source][k] = v
        BY <3>2 DEF Holds
      <3>3. CASE k = c.key /\ c.val = v /\ repo[source][k] # v
        <4>1. c.op = "set"
          BY <1>2, <3>3, CommandFacts, MigrationAssumption
        <4>2. link = "open" /\ current = dest
          <5>1. CASE current = source
            <6>1. c.op = "get"
              BY <1>1, <1>2, <5>1 DEF PlaceInv
            <6> QED
              BY <4>1, <6>1
          <5>2. CASE current # source
            BY <1>1, <2>3, <5>2 DEF Reachable
          <5> QED
            BY <5>1, <5>2
        <4>3. Waits(handling.item) /\ adapter # "off" /\ handling.item \in Item
          BY <1>5, <4>2, PipeFacts
        <4>4. request[dest] # None /\ request[dest].cmd = c
          BY <1>5, <4>1, <4>2, <4>3, RequestFacts DEF Waits
        <4> QED
          BY <3>3, <4>2, <4>4 DEF Holds
      <3> QED
        BY <1>4, <3>1, <3>2, <3>3
    <2>4. ASSUME NEW k \in Keys, NEW v \in Values, Moving(k, v)'
          PROVE  Moving(k, v) \/ (Reachable(source) /\ Holds(source, k, v))
      <3>1. /\ Reachable(dest) /\ handling # None /\ handling.item.cmd.key = k
            /\ handling.val = v \/ Replied(v)'
        BY <1>3, <2>4 DEF Moving, Reachable
      <3>2. CASE handling.val = v \/ Replied(v)
        BY <3>1, <3>2 DEF Moving
      <3>3. CASE link = "open" /\ v = Result(source, c)
        <4>1. v = repo[source][c.key] /\ c.key = k
          BY <1>1, <1>2, <1>5, <3>1, <3>3, ResultFacts
        <4>2. adapter # "off"
          BY <3>3 DEF StageInv
        <4>3. Reachable(source)
          BY <3>1, <3>3, <4>2, DestFacts DEF Reachable
        <4> QED
          BY <4>1, <4>3 DEF Holds
      <3> QED
        BY <1>6, <3>1, <3>2, <3>3
    <2>5. \A k \in Keys, v \in Values : Somewhere(k, v)' => Somewhere(k, v)
      BY <1>1, <2>1, <2>2, <2>3, <2>4 DEF Somewhere, Reachable
    <2>6. Pending[source] = None
      BY <1>1, PendingFacts
    <2>7. \A m \in Lambdas : Pending'[m] = Pending[m] /\ may'[m] = may[m]
      BY <1>3, PendingKept
    <2>8. ASSUME NEW m \in Lambdas \ {current}, NEW k \in Keys, NEW v \in Values,
                 Writing(m, k)', Elsewhere(m, k, v)'
          PROVE  Elsewhere(m, k, v)
      <3>1. m # source
        BY <2>6, <2>7, <2>8 DEF Writing
      <3> QED
        BY <1>1, <2>1, <2>2, <2>3, <2>4, <2>8, <3>1 DEF Elsewhere, Reachable
    <2>9. \A m \in Lambdas, k \in Keys, v \in Values : Reading(m, k)' /\ repo'[m][k] = v => repo[m][k] = v
      BY <1>4, <2>6, <2>7 DEF Reading
    <2> QED
      BY <1>3, <2>5, <2>7, <2>8, <2>9, DataKept
  <1>12. CopyInv'
    <2> SUFFICES ASSUME link = "open"
                 PROVE  CopyInv'
      BY <1>3 DEF CopyInv
    <2>1. \A k \in Keys : ~Changing(k)
      BY <1>5 DEF Changing
    <2>2. Result(source, c) = "ok" => Replied("ok")'
      <3> HIDE DEF x
      <3>1. Among(Append(toDest, x), "ok") <=> Among(toDest, "ok") \/ (x.kind = "result" /\ x.result = "ok")
        BY <1>1, <1>3, AmongFacts
      <3> QED
        BY <1>3, <3>1 DEF Replied
    <2>3. \A k \in Keys : repo'[source][k] = repo[source][k] \/ Changing(k)'
      <3>1. c.op \in {"set", "get", "del"}
        BY <1>2, CommandFacts
      <3>2. c.op = "set" => Result(source, c) = "ok"
        BY <3>1 DEF Result
      <3>3. c.op = "del" => Result(source, c) \in {"ok", "error"}
        BY <3>1 DEF Result
      <3>4. c.op # "get" /\ Result(source, c) = "ok" => Changing(c.key)'
        BY <1>3, <1>5, <2>2 DEF Changing, Awaiting
      <3> QED
        BY <1>4, <3>1, <3>2, <3>3, <3>4
    <2>4. \A i \in 1 .. Len(toDest') : toDest'[i].kind = "list" => i \in 1 .. Len(toDest) /\ toDest'[i] = toDest[i]
      BY <1>1, <1>3
    <2>5. repo'[dest] = repo[dest]
      BY <1>1, <1>4
    <2>6. Awaiting'
      BY <1>3, <1>5 DEF Awaiting
    <2> QED
      BY SMTT(30), <1>3, <2>1, <2>3, <2>4, <2>5, <2>6 DEF CopyInv, Found
  <1>13. (MayInv)'
    BY DEF MayInv, Pending
  <1> QED
    BY <1>7, <1>8, <1>9, <1>10, <1>11, <1>12, <1>13

\* EndServing: the source is not read from any more.
LEMMA EndServingKeeps ==
    ASSUME IInv, PInv, promise', IInv', EndServing
    PROVE  PInv'
  <1> USE DEF IInv, PInv, EndServing, proxyVars, linkVars, adapterVars, copyVars, historyVars,
     counters
  <1>1. PlaceInv'
    BY DEF PlaceInv, Pending, RoleInv, ConnInv, ProxyType, StageInv, LinkType
  <1>2. QuietInv'
    BY DEF QuietInv, Found, Awaiting, RoleInv, StageInv, Running, ProxyType, StoreType, ReadyInv
  <1>3. ValidInv' /\ GetInv' /\ SetInv'
    BY DEF ValidInv, GetInv, SetInv, Reachable, Holds, Moving, Somewhere, Elsewhere, Replied,
       Reading, Writing, Pending, RoleInv, StageInv
  <1>4. (PipeInv /\ ReplyInv /\ MayInv /\ CopyInv)'
    BY DEF PipeInv, Awaiting, ReplyInv, Replied, Result, Found, MayInv, Pending, CopyInv, Changing
  <1> QED
    BY <1>1, <1>2, <1>3, <1>4

\* LinkFails: what is on the way may be lost, and nothing is new.
LEMMA LinkFailsKeeps ==
    ASSUME IInv, PInv, promise', IInv', LinkFails
    PROVE  PInv'
  <1> USE DEF IInv, PInv, LinkFails, Closing, proxyVars, lambdaVars, sourceVars, adapterVars,
     copyVars, historyVars
  <1>1. PlaceInv'
    BY DEF PlaceInv, Pending, RoleInv, ConnInv, ProxyType, StageInv, LinkType
  <1>2. PipeInv'
    BY DEF PipeInv, Awaiting, StageInv, LinkType, Running, AdapterType, CountInv
  <1>3. QuietInv'
    BY DEF QuietInv, Found, Awaiting, RoleInv, StageInv, Running, ProxyType, StoreType, ReadyInv
  <1>4. ReplyInv'
    BY DEF ReplyInv, Replied, Result, Found, RoleInv, StageInv, StoreType
  <1>5. ValidInv' /\ GetInv' /\ SetInv'
    <2>1. \A k \in Keys, v \in Values : Replied(v)' => Replied(v)
      BY AmongFacts DEF Replied
    <2>2. \A m \in Lambdas, k \in Keys, v \in Values : Reachable(m)' /\ Holds(m, k, v)' =>
              Reachable(m) /\ Holds(m, k, v)
      BY DEF Reachable, Holds
    <2>3. \A k \in Keys, v \in Values : Moving(k, v)' => Moving(k, v)
      BY <2>1 DEF Moving, Reachable
    <2>4. UNCHANGED <<current, request, valid, may, repo>>
      OBVIOUS
    <2> QED
      BY <2>2, <2>3, <2>4, NothingMoves
  <1>6. CopyInv'
    BY DEF CopyInv, Found, Changing, Replied, Awaiting, RoleInv, StageInv, Running
  <1>7. (MayInv)'
    BY DEF MayInv, Pending
  <1> QED
    BY <1>1, <1>2, <1>3, <1>4, <1>5, <1>6, <1>7

\* AnswerHere: getHandler and migrateHandler have the chunk in the local store.
LEMMA AnswerHereKeeps ==
    ASSUME IInv, PInv, promise', IInv', AnswerHere
    PROVE  PInv'
  <1> USE DEF IInv, PInv, AnswerHere, NextItem, lambdaVars, sourceVars, linkVars, counters
  <1> DEFINE i == Head(serializer)
  <1>1. i \in Item /\ Waits(i) /\ adapter # "off" /\ handling = None
    BY HeadItem
  <1>2. Complete(i, repo[dest][i.cmd.key]) /\ repo[dest][i.cmd.key] # "ok"
    BY NilAssumption DEF Here, Found
  <1>3. /\ list' = list /\ todo'.del = todo.del
        /\ \A k \in Keys : k \in todo.get => k \in todo'.get \/ (i.by # "proxy" /\ k = i.cmd.key)
        /\ i.by = "proxy" => mpc' = mpc
        /\ i.by # "proxy" => mpc = "waiting" /\ mpc' \in {"loop", "aborted"} /\ i.cmd.op = "get"
    BY <1>1, <1>2, CompleteTodo
  <1>4. /\ MayInv' /\ \A m \in Lambdas : request'[m] \in {None, request[m]}
        /\ \A m \in Lambdas : Pending'[m] = None \/ (Pending'[m] = Pending[m] /\ may'[m] = may[m])
        /\ valid' = valid
    BY <1>1, <1>2, CompleteEffect
  <1>5. UNCHANGED <<current, conn, repo, source, dest, serving, ready, link, toSource, toDest, adapter, handling>>
    OBVIOUS
  <1>6. PlaceInv'
    BY <1>4, <1>5, PlaceKept
  <1>7. PipeInv'
    BY <1>1, <1>3, <1>5 DEF PipeInv, Awaiting
  <1>8. QuietInv'
    BY <1>1, <1>3, <1>5 DEF QuietInv, Found, Awaiting
  <1>9. MayInv'
    BY <1>4
  <1>10. ValidInv' /\ GetInv' /\ SetInv'
    <2>1. \A m \in Lambdas : Reachable(m)' <=> Reachable(m)
      BY <1>5 DEF Reachable
    <2>2. \A m \in Lambdas, k \in Keys, v \in Values : Holds(m, k, v)' => Holds(m, k, v)
      BY <1>4, <1>5 DEF Holds
    <2>3. \A k \in Keys, v \in Values : ~Moving(k, v)'
      BY <1>1, <1>5 DEF Moving
    <2>4. current' = current /\ repo' = repo
      BY <1>5
    <2> QED
      BY <1>4, <2>1, <2>2, <2>3, <2>4, NothingNew
  <1>11. CopyInv'
    <2>1. \A k \in Keys : ~Changing(k) /\ ~Changing(k)'
      BY <1>1, <1>5 DEF Changing
    <2>2. Found(dest, i.cmd.key)
      BY DEF Here
    <2> QED
      BY <1>1, <1>3, <1>5, <2>1, <2>2 DEF CopyInv, Found, Awaiting
  <1>12. (ReplyInv)'
    BY DEF ReplyInv, Replied, Result, Found
  <1> QED
    BY <1>6, <1>7, <1>8, <1>9, <1>10, <1>11, <1>12

\* Forward: the command goes to the source, behind the hello at most.
LEMMA ForwardKeeps ==
    ASSUME IInv, PInv, promise', IInv', Forward
    PROVE  PInv'
  <1> USE DEF IInv, PInv, Forward, NextItem, proxyVars, lambdaVars, sourceVars, copyVars,
     historyVars, counters
  <1> DEFINE i == Head(serializer)
             h == [item |-> i, stage |-> "sent", val |-> None]
  <1>1. i \in Item /\ Waits(i) /\ adapter # "off" /\ handling = None /\ i.cmd \in Command
    BY HeadItem, RequestFacts
  <1>2. handling' = h /\ h.item = i /\ h.stage = "sent" /\ h.val = None /\ h \in Handling
    <2>1. i \in Item
      BY <1>1
    <2>2. h \in Handling
      BY ONLY <2>1, RequestMakers, Zenon
    <2> QED
      BY <2>2
  <1>3. Awaiting' /\ ~Awaiting
    BY <1>1, <1>2, RequestFacts DEF Awaiting
  <1>4. \A r : ~Replied(r)
    BY <1>1, <1>3, PipeFacts
  <1>5. /\ UNCHANGED <<current, conn, repo, request, source, dest, serving, ready, link, toDest, adapter, mpc, todo, list,
                       valid, may>>
        /\ toSource' = IF link = "open" THEN Append(toSource, i.cmd) ELSE toSource
    OBVIOUS
  <1>6. \A r : ~Replied(r)'
    BY <1>4, <1>5 DEF Replied
  <1>7. /\ toSource \in Seq({HelloCommand} \cup Command) /\ toDest \in Seq(Replies)
        /\ Len(Append(toSource, i.cmd)) = Len(toSource) + 1 /\ Len(toSource) \in Nat /\ Len(toDest) \in Nat
        /\ Append(toSource, i.cmd)[Len(toSource) + 1] = i.cmd
        /\ \A j \in 1 .. Len(toSource) : Append(toSource, i.cmd)[j] = toSource[j]
    BY <1>1 DEF LinkType
  <1>8. PlaceInv'
    <2>1. serving /\ current = source => i.cmd.op = "get"
      <3>1. dest \in Lambdas
        BY <1>1, DestFacts
      <3>2. serving /\ current = source => request[dest] = None
        BY <3>1 DEF PlaceInv, ConnInv
      <3> QED
        BY <1>1, <3>2, RequestFacts DEF Waits
    <2>2. serving /\ current = source =>
            \A j \in 1 .. Len(toSource') : toSource'[j] = HelloCommand \/ toSource'[j].op = "get"
      BY <1>5, <1>7, <2>1 DEF PlaceInv
    <2> QED
      BY <1>5, <2>2 DEF PlaceInv, Pending
  <1>9. PipeInv'
    <2>1. Len(toDest) <= IF mpc = "hello" THEN 1 ELSE 0
      BY <1>1, <1>3 DEF PipeInv
    <2>2. \A j \in 1 .. Len(toDest) : toDest[j].kind = IF j = 1 /\ mpc = "hello" THEN "list" ELSE "result"
      BY <1>1 DEF PipeInv
    <2>3. CASE link = "open"
      <3>1. Len(toSource) + Len(toDest) = IF mpc = "hello" THEN 1 ELSE 0
        BY <1>3, <2>3 DEF CountInv
      <3>2. \A j \in 1 .. Len(toSource) : toSource[j] = HelloCommand
        BY <1>1, <1>3, <2>3, PipeFacts
      <3>3. \A j \in 1 .. Len(Append(toSource, i.cmd)) : Append(toSource, i.cmd)[j] =
              IF Len(toDest) + j = 1 /\ mpc = "hello" THEN HelloCommand ELSE i.cmd
        BY <1>7, <3>1, <3>2
      <3> QED
        BY <1>2, <1>3, <1>5, <1>7, <2>1, <2>2, <2>3, <3>3 DEF PipeInv
    <2>4. CASE link # "open"
      BY <1>2, <1>3, <1>5, <1>7, <2>1, <2>2, <2>4 DEF PipeInv
    <2> QED
      BY <2>3, <2>4
  <1>10. QuietInv'
    BY <1>3, <1>5 DEF QuietInv, Found
  <1>11. ReplyInv'
    BY <1>6 DEF ReplyInv
  <1>12. ValidInv' /\ GetInv' /\ SetInv'
    <2>1. \A m \in Lambdas, k \in Keys, v \in Values : Reachable(m)' /\ Holds(m, k, v)' =>
              Reachable(m) /\ Holds(m, k, v)
      BY <1>5 DEF Reachable, Holds
    <2>2. \A k \in Keys, v \in Values : ~Moving(k, v)'
      BY <1>2, <1>6, MigrationAssumption DEF Moving
    <2> QED
      BY <1>5, <2>1, <2>2, NothingMoves
  <1>13. CopyInv'
    <2>1. \A k \in Keys : ~Changing(k) /\ ~Changing(k)'
      BY <1>4, <1>6 DEF Changing
    <2> QED
      BY <1>3, <1>5, <2>1 DEF CopyInv, Found
  <1>14. (MayInv)'
    BY DEF MayInv, Pending
  <1> QED
    BY <1>8, <1>9, <1>10, <1>11, <1>12, <1>13, <1>14

\* SendFails: the connection is closed, the command fails.
LEMMA SendFailsKeeps ==
    ASSUME IInv, PInv, promise', IInv', SendFails
    PROVE  PInv'
  <1> USE DEF IInv, PInv, SendFails, NextItem, lambdaVars, sourceVars, linkVars, counters
  <1> DEFINE i == Head(serializer)
  <1>1. i \in Item /\ Waits(i) /\ adapter # "off" /\ handling = None
    BY HeadItem
  <1>2. Complete(i, "error") /\ "error" # "ok"
    BY <1>1
  <1>3. /\ list' = list /\ todo'.del = todo.del
        /\ \A k \in Keys : k \in todo.get => k \in todo'.get \/ (i.by # "proxy" /\ k = i.cmd.key)
        /\ i.by = "proxy" => mpc' = mpc
        /\ i.by # "proxy" => mpc = "waiting" /\ mpc' \in {"loop", "aborted"} /\ i.cmd.op = "get"
    BY <1>1, <1>2, CompleteTodo
  <1>4. /\ MayInv' /\ \A m \in Lambdas : request'[m] \in {None, request[m]}
        /\ \A m \in Lambdas : Pending'[m] = None \/ (Pending'[m] = Pending[m] /\ may'[m] = may[m])
        /\ valid' = valid
    BY <1>1, <1>2, CompleteEffect
  <1>5. UNCHANGED <<current, conn, repo, source, dest, serving, ready, link, toSource, toDest, adapter, handling>>
    OBVIOUS
  <1>6. PlaceInv'
    BY <1>4, <1>5, PlaceKept
  <1>7. PipeInv'
    BY <1>1, <1>3, <1>5 DEF PipeInv, Awaiting
  <1>8. QuietInv'
    BY <1>1, <1>3, <1>5 DEF QuietInv, Found, Awaiting
  <1>9. MayInv'
    BY <1>4
  <1>10. ValidInv' /\ GetInv' /\ SetInv'
    <2>1. \A m \in Lambdas : Reachable(m)' <=> Reachable(m)
      BY <1>5 DEF Reachable
    <2>2. \A m \in Lambdas, k \in Keys, v \in Values : Holds(m, k, v)' => Holds(m, k, v)
      BY <1>4, <1>5 DEF Holds
    <2>3. \A k \in Keys, v \in Values : ~Moving(k, v)'
      BY <1>1, <1>5 DEF Moving
    <2>4. current' = current /\ repo' = repo
      BY <1>5
    <2> QED
      BY <1>4, <2>1, <2>2, <2>3, <2>4, NothingNew
  <1>11. CopyInv'
    BY <1>5 DEF CopyInv
  <1>12. (ReplyInv)'
    BY DEF ReplyInv, Replied, Result, Found
  <1> QED
    BY <1>6, <1>7, <1>8, <1>9, <1>10, <1>11, <1>12

\* ReplyError: not found at the source; Migrate then leaves the key, which has no value there.
LEMMA ReplyErrorKeeps ==
    ASSUME IInv, PInv, promise', IInv', ReplyError
    PROVE  PInv'
  <1> USE DEF IInv, PInv, ReplyError, NextReply, lambdaVars, sourceVars, counters
  <1> DEFINE i == handling.item
  <1>1. /\ mpc # "hello" /\ toDest' = <<>> /\ Awaiting /\ adapter = "on" /\ (serving => ready)
        /\ Outcome \in Values \cup {"ok", "error"} /\ Replied(Outcome)
        /\ \A r : Replied(r) => r = Outcome
        /\ link = "open" => toSource = <<>>
    BY ReplyFacts
  <1>2. /\ i \in Item /\ Waits(i) /\ i.cmd \in Command /\ i.cmd.key \in Keys /\ handling # None
        /\ handling.val = None
    BY <1>1, PipeFacts, CommandFacts DEF Awaiting
  <1>3. /\ list' = list /\ todo'.del = todo.del
        /\ \A k \in Keys : k \in todo.get => k \in todo'.get \/ (i.by # "proxy" /\ k = i.cmd.key)
        /\ i.by = "proxy" => mpc' = mpc
        /\ i.by # "proxy" => mpc = "waiting" /\ mpc' \in {"loop", "aborted"} /\ i.cmd.op = "get"
    BY <1>1, <1>2, CompleteTodo
  <1>4. /\ MayInv' /\ \A m \in Lambdas : request'[m] \in {None, request[m]}
        /\ \A m \in Lambdas : Pending'[m] = None \/ (Pending'[m] = Pending[m] /\ may'[m] = may[m])
        /\ valid' = valid
    BY <1>1, <1>2, CompleteEffect
  <1>5. UNCHANGED <<current, conn, source, dest, serving, ready, link, toSource, adapter>>
    OBVIOUS
  <1>6. dest \in Lambdas /\ source \in Lambdas /\ source # dest
    BY <1>1, DestFacts
  <1>7. (\A j \in 1 .. Len(toDest') : FALSE) /\ \A r : ~Replied(r)'
    <2>1. toDest' = <<>>
      BY <1>1
    <2>2. \A j \in 1 .. Len(toDest') : FALSE
      BY ONLY <2>1
    <2> QED
      BY ONLY <2>2 DEF Replied, Among
  <1>8. handling' = None /\ ~Awaiting' /\ UNCHANGED repo
    BY DEF Awaiting
  <1>9. PlaceInv'
    BY <1>4, <1>5, PlaceKept
  <1>10. PipeInv'
    BY <1>1, <1>3, <1>5, <1>8 DEF PipeInv
  <1>11. QuietInv'
    BY <1>1, <1>3, <1>5 DEF QuietInv, StageInv
  <1>12. ReplyInv'
    BY <1>7 DEF ReplyInv
  <1>13. MayInv'
    BY <1>4
  <1>14. ValidInv' /\ GetInv' /\ SetInv'
    <2>1. \A m \in Lambdas : Reachable(m)' <=> Reachable(m)
      BY <1>5 DEF Reachable
    <2>2. \A m \in Lambdas, k \in Keys, v \in Values : Holds(m, k, v)' => Holds(m, k, v)
      BY <1>4, <1>8 DEF Holds
    <2>3. \A k \in Keys, v \in Values : ~Moving(k, v)'
      BY <1>8 DEF Moving
    <2> QED
      BY <1>4, <1>5, <1>8, <2>1, <2>2, <2>3, NothingNew
  <1>15. CopyInv'
    <2>1. \A k \in Keys : ~Changing(k) /\ ~Changing(k)'
      BY <1>1, <1>7 DEF Changing
    <2>2. link = "open" /\ i.by # "proxy" => ~Found(source, i.cmd.key)
      <3> SUFFICES ASSUME link = "open", i.by # "proxy", Found(source, i.cmd.key)
                   PROVE  FALSE
        OBVIOUS
      <3>1. "error" = Result(source, i.cmd)
        BY <1>1, <1>3 DEF ReplyInv
      <3>2. "error" \in Values
        BY <1>2, <1>3, <1>6, <3>1, ResultFacts DEF Found
      <3> QED
        BY <3>2, NilAssumption
    <2> QED
      BY <1>1, <1>3, <1>5, <1>8, <2>1, <2>2 DEF CopyInv, Found
  <1> QED
    BY <1>9, <1>10, <1>11, <1>12, <1>13, <1>14, <1>15

\* ReplyDone: setHandler and delHandler follow the source, so that the acknowledged command is the last
\* word on its key in both stores.
LEMMA ReplyDoneKeeps ==
    ASSUME IInv, PInv, promise', IInv', ReplyDone
    PROVE  PInv'
  <1> USE DEF IInv, PInv, ReplyDone, NextReply, sourceVars, counters
  <1> DEFINE i == handling.item
  <1>1. /\ mpc # "hello" /\ toDest' = <<>> /\ Awaiting /\ adapter = "on" /\ (serving => ready)
        /\ Outcome \in Values \cup {"ok", "error"} /\ Replied(Outcome)
        /\ \A r : Replied(r) => r = Outcome
        /\ link = "open" => toSource = <<>>
    BY ReplyFacts
  <1>2. /\ i \in Item /\ Waits(i) /\ i.cmd \in Command /\ i.cmd.key \in Keys /\ handling # None
        /\ handling.val = None
    BY <1>1, PipeFacts, CommandFacts DEF Awaiting
  <1>3. /\ list' = list /\ todo'.del = todo.del
        /\ \A k \in Keys : k \in todo.get => k \in todo'.get \/ (i.by # "proxy" /\ k = i.cmd.key)
        /\ i.by = "proxy" => mpc' = mpc
        /\ i.by # "proxy" => mpc = "waiting" /\ mpc' \in {"loop", "aborted"} /\ i.cmd.op = "get"
    BY <1>1, <1>2, CompleteTodo
  <1>4. /\ MayInv' /\ \A m \in Lambdas : request'[m] \in {None, request[m]}
        /\ \A m \in Lambdas : Pending'[m] = None \/ (Pending'[m] = Pending[m] /\ may'[m] = may[m])
        /\ i.by # "proxy" \/ Pending[dest] = None => valid' = valid
        /\ i.by = "proxy" /\ Pending[dest] # None => \A k \in Keys \ {i.cmd.key} : valid'[k] = valid[k]
        /\ i.by = "proxy" /\ Pending[dest] # None => valid'[i.cmd.key] = ({i.cmd.val} \ {None}) \cup may[dest]
        /\ i.by = "proxy" => request'[dest] = None
    BY <1>1, <1>2, CompleteEffect
  <1>5. UNCHANGED <<current, conn, source, dest, serving, ready, link, toSource, adapter>>
    OBVIOUS
  <1>6. dest \in Lambdas /\ source \in Lambdas /\ source # dest
    BY <1>1, DestFacts
  <1>7. (\A j \in 1 .. Len(toDest') : FALSE) /\ \A r : ~Replied(r)'
    <2>1. toDest' = <<>>
      BY <1>1
    <2>2. \A j \in 1 .. Len(toDest') : FALSE
      BY ONLY <2>1
    <2> QED
      BY ONLY <2>2 DEF Replied, Among
  <1>8. handling' = None /\ ~Awaiting'
    BY DEF Awaiting
  <1>9. PICK c \in Command : c = i.cmd
    BY <1>2
  <1>10. /\ c.op \in {"set", "del"} /\ c.key \in Keys /\ i.by = "proxy" /\ request'[dest] = None
         /\ request[dest] # None /\ request[dest].cmd = c
    <2>1. c.op \in {"set", "del"} /\ c.key \in Keys
      BY <1>9, CommandFacts
    <2>2. i.by = "proxy"
      BY <1>2, <1>9, <2>1, RequestFacts DEF Waits
    <2>3. request[dest] # None /\ request[dest].cmd = c
      BY <1>2, <1>9, <2>2 DEF Waits
    <2> QED
      BY <1>1, <1>4, <2>1, <2>2, <2>3, DestFacts
  <1>11. /\ \A m \in Lambdas \ {dest} : repo'[m] = repo[m]
         /\ \A k \in Keys \ {c.key} : repo'[dest][k] = repo[dest][k]
         /\ c.op = "set" => repo'[dest][c.key] = c.val
         /\ c.op = "del" => repo'[dest][c.key] \notin Values
         /\ \A k \in Keys, v \in Values : repo'[dest][k] = v => repo[dest][k] = v \/ (k = c.key /\ c.val = v)
    BY <1>6, <1>9, AppliedFacts
  <1>12. link = "open" => /\ c.op = "set" => repo[source][c.key] = c.val
                          /\ c.op = "del" => ~Found(source, c.key)
    <2> SUFFICES ASSUME link = "open"
                 PROVE  /\ c.op = "set" => repo[source][c.key] = c.val
                        /\ c.op = "del" => ~Found(source, c.key)
      OBVIOUS
    <2>1. /\ c.op = "set" => repo[source][c.key] = c.val
          /\ c.op = "del" => Outcome \notin Values /\ (Outcome = "ok" => ~Found(source, c.key))
      BY <1>1, <1>9 DEF ReplyInv
    <2> QED
      BY <1>1, <2>1
  <1>13. PlaceInv'
    BY <1>4, <1>5, PlaceKept
  <1>14. PipeInv'
    BY <1>1, <1>3, <1>5, <1>8 DEF PipeInv
  <1>15. QuietInv'
    BY <1>1, <1>3, <1>5 DEF QuietInv, StageInv
  <1>16. ReplyInv'
    BY <1>7 DEF ReplyInv
  <1>17. MayInv'
    BY <1>4
  <1>18. ValidInv' /\ GetInv' /\ SetInv'
    <2>1. \A m \in Lambdas : Reachable(m)' <=> Reachable(m)
      BY <1>5 DEF Reachable
    <2>2. \A m \in Lambdas, k \in Keys, v \in Values : Holds(m, k, v)' => Holds(m, k, v)
      BY <1>4, <1>10, <1>11 DEF Holds
    <2>3. \A k \in Keys, v \in Values : ~Moving(k, v)'
      BY <1>8 DEF Moving
    <2>4. \A m \in Lambdas, k \in Keys, v \in Values : Reading(m, k)' /\ repo'[m][k] = v => repo[m][k] = v
      <3>1. Pending'[dest] = None
        BY <1>6, <1>10 DEF Pending
      <3> QED
        BY <1>5, <1>11, <3>1 DEF Reading
    <2>5. ASSUME NEW k \in Keys, NEW v \in Values, Somewhere(k, v)', v \in valid[k]
          PROVE  v \in valid'[k]
      <3>1. CASE Pending[dest] = None \/ k # c.key
        BY <1>4, <1>9, <1>10, <2>5, <3>1
      <3>2. CASE Pending[dest] # None /\ k = c.key
        <4>1. PICK m \in Lambdas : Reachable(m) /\ Holds(m, k, v)'
          BY <2>1, <2>3, <2>5 DEF Somewhere
        <4>2. current = dest /\ m \in {source, dest}
          BY <1>1, <3>2, <4>1, DestFacts
        <4>3. ASSUME m = dest PROVE v = c.val
          <5>1. repo'[dest][k] = v
            BY <1>5, <1>10, <4>1, <4>3 DEF Holds
          <5> QED
            BY <1>10, <1>11, <3>2, <5>1
        <4>4. ASSUME m = source PROVE v = c.val
          <5>1. link = "open"
            BY <1>6, <4>1, <4>2, <4>4 DEF Reachable
          <5>2. request[source] = None
            BY <1>1, <5>1, DestFacts
          <5>3. repo[source][k] = v
            BY <1>4, <1>6, <1>11, <4>1, <4>4, <5>2 DEF Holds
          <5> QED
            BY <1>10, <1>12, <3>2, <5>1, <5>3 DEF Found
        <4>5. v = c.val
          BY <4>2, <4>3, <4>4
        <4> QED
          BY <1>4, <1>9, <1>10, <3>2, <4>5, MigrationAssumption
      <3> QED
        BY <3>1, <3>2
    <2> QED
      BY <1>4, <1>5, <2>1, <2>2, <2>3, <2>4, <2>5, NothingNew
  <1>19. CopyInv'
    <2> SUFFICES ASSUME link = "open"
                 PROVE  CopyInv'
      BY <1>5 DEF CopyInv
    <2>1. \A k \in Keys : ~Changing(k)' /\ (k # c.key => ~Changing(k))
      BY <1>8, <1>9 DEF Changing
    <2>2. \A k \in Keys : k # c.key => repo'[dest][k] = repo[dest][k] /\ repo'[source][k] = repo[source][k]
      BY <1>6, <1>11
    <2>3. (~Found(dest, c.key)' /\ ~Found(source, c.key)') \/ repo'[dest][c.key] = repo'[source][c.key]
      BY <1>5, <1>6, <1>10, <1>11, <1>12 DEF Found
    <2>4. \A k \in Keys : k # c.key /\ Found(dest, k)' => repo'[dest][k] = repo'[source][k]
      BY <1>5, <2>1, <2>2 DEF CopyInv, Found
    <2>5. mpc' = mpc /\ \A k \in Keys : k \in todo.get => k \in todo'.get
      BY <1>3, <1>10
    <2>6. mpc \in {"loop", "waiting", "ended"} =>
            /\ todo'.del \subseteq list'.del
            /\ \A k \in Keys : k # c.key /\ Found(source, k)' /\ k \notin list'.del \cup todo'.get =>
                    repo'[dest][k] = repo'[source][k]
      BY <1>3, <1>5, <2>1, <2>2, <2>5 DEF CopyInv, Found
    <2>7. \A j \in 1 .. Len(toDest') : FALSE
      BY <1>7
    <2>8. \A k \in Keys : Found(dest, k)' => repo'[dest][k] = repo'[source][k]
      BY <1>5, <2>3, <2>4
    <2>9. mpc' \in {"loop", "waiting", "ended"} =>
            /\ todo'.del \subseteq list'.del
            /\ \A k \in Keys : Found(source, k)' /\ k \notin list'.del \cup todo'.get =>
                    repo'[dest][k] = repo'[source][k]
      BY <1>5, <2>3, <2>5, <2>6
    <2> QED
      BY <1>5, <1>8, <2>7, <2>8, <2>9 DEF CopyInv
  <1> QED
    BY <1>13, <1>14, <1>15, <1>16, <1>17, <1>18, <1>19

\* ReplyValue: the value is the source's; migrateHandler stores it, getHandler passes it on.
LEMMA ReplyValueKeeps ==
    ASSUME IInv, PInv, promise', IInv', ReplyValue
    PROVE  PInv'
  <1> USE DEF IInv, PInv, ReplyValue, NextReply, sourceVars, counters
  <1> DEFINE i == handling.item
  <1>1. /\ mpc # "hello" /\ toDest' = <<>> /\ Awaiting /\ adapter = "on" /\ (serving => ready)
        /\ Outcome \in Values \cup {"ok", "error"} /\ Replied(Outcome)
        /\ \A r : Replied(r) => r = Outcome
        /\ link = "open" => toSource = <<>>
    BY ReplyFacts
  <1>2. /\ i \in Item /\ Waits(i) /\ i.cmd \in Command /\ i.cmd.key \in Keys /\ handling # None
        /\ handling.val = None
    BY <1>1, PipeFacts, CommandFacts DEF Awaiting
  <1>3. /\ list' = list /\ todo'.del = todo.del
        /\ \A k \in Keys : k \in todo.get => k \in todo'.get \/ (i.by # "proxy" /\ k = i.cmd.key)
        /\ i.by = "proxy" => mpc' = mpc
        /\ i.by # "proxy" => mpc = "waiting" /\ mpc' \in {"loop", "aborted"} /\ i.cmd.op = "get"
    BY <1>1, <1>2, CompleteTodo
  <1>4. /\ MayInv' /\ \A m \in Lambdas : request'[m] \in {None, request[m]}
        /\ \A m \in Lambdas : Pending'[m] = None \/ (Pending'[m] = Pending[m] /\ may'[m] = may[m])
        /\ valid' = valid
    BY <1>1, <1>2, CompleteEffect, NilAssumption
  <1>5. UNCHANGED <<current, conn, source, dest, serving, ready, link, toSource, adapter>>
    OBVIOUS
  <1>6. dest \in Lambdas /\ source \in Lambdas /\ source # dest
    BY <1>1, DestFacts
  <1>7. (\A j \in 1 .. Len(toDest') : FALSE) /\ \A r : ~Replied(r)'
    <2>1. toDest' = <<>>
      BY <1>1
    <2>2. \A j \in 1 .. Len(toDest') : FALSE
      BY ONLY <2>1
    <2> QED
      BY ONLY <2>2 DEF Replied, Among
  <1>8. ~Awaiting'
    <2>1. \A h \in Handling, v \in Values : [h EXCEPT !.stage = "store", !.val = v].stage = "store"
      BY DEF Handling
    <2> QED
      BY <1>1, <1>2, <2>1, PipeFacts DEF Awaiting
  <1>9. PICK c \in Command, v \in Values : c = i.cmd /\ v = Outcome /\ c.op = "get" /\ c.key \in Keys
    BY <1>2
  <1>10. /\ \A m \in Lambdas \ {dest} : repo'[m] = repo[m]
         /\ \A k \in Keys \ {c.key} : repo'[dest][k] = repo[dest][k]
         /\ repo'[dest][c.key] \in {repo[dest][c.key], v}
         /\ i.by # "proxy" => repo'[dest][c.key] = v
    <2>1. CASE i.by = "migrate"
      <3>1. repo' = Put(dest, c.key, v)
        BY <1>9, <2>1
      <3> QED
        BY <1>6, <1>9, <3>1, PutFacts
    <2>2. CASE i.by # "migrate"
      BY <1>2, <2>2, RequestFacts
    <2> QED
      BY <2>1, <2>2
  <1>11. handling' # None => handling'.item = i /\ handling'.val = v
    <2>1. \A h \in Handling, u \in Values : /\ [h EXCEPT !.stage = "store", !.val = u].item = h.item
                                           /\ [h EXCEPT !.stage = "store", !.val = u].val = u
      BY DEF Handling
    <2>2. handling \in Handling
      BY <1>1, PipeFacts
    <2>3. handling' # None => handling' = [handling EXCEPT !.stage = "store", !.val = v]
      BY <1>9
    <2>4. /\ [handling EXCEPT !.stage = "store", !.val = v].item = handling.item
          /\ [handling EXCEPT !.stage = "store", !.val = v].val = v
      BY <1>9, <2>1, <2>2, Zenon
    <2> QED
      BY <2>3, <2>4, Zenon
  <1>12. PlaceInv'
    BY <1>4, <1>5, PlaceKept
  <1>13. PipeInv'
    BY <1>1, <1>3, <1>5, <1>8 DEF PipeInv
  <1>14. QuietInv'
    BY <1>1, <1>3, <1>5 DEF QuietInv, StageInv
  <1>15. ReplyInv'
    BY <1>7 DEF ReplyInv
  <1>16. MayInv'
    BY <1>4
  <1>17. ValidInv' /\ GetInv' /\ SetInv'
    <2>1. \A m \in Lambdas : Reachable(m)' <=> Reachable(m)
      BY <1>5 DEF Reachable
    <2>2. Reachable(dest) => Moving(c.key, v)
      BY <1>1, <1>2, <1>9 DEF Moving
    <2>3. \A m \in Lambdas, k \in Keys, u \in Values : Reachable(m)' /\ Holds(m, k, u)' =>
              (Reachable(m) /\ Holds(m, k, u)) \/ Moving(k, u)
      BY <1>4, <1>10, <2>1, <2>2 DEF Holds
    <2>4. \A k \in Keys, u \in Values : Moving(k, u)' => Moving(k, u)
      BY <1>5, <1>6, <1>7, <1>9, <1>11, <2>1, <2>2 DEF Moving
    <2>5. \A m \in Lambdas, k \in Keys, u \in Values : Reading(m, k)' /\ repo'[m][k] = u =>
              repo[m][k] = u \/ (m = current /\ Moving(k, u))
      <3>1. \A k \in Keys : Reading(dest, k)' => dest = current /\ Reachable(dest)
        <4>1. \A k \in Keys : Reading(dest, k)' => Pending'[dest] # None
          BY <1>5 DEF Reading
        <4>2. Pending'[dest] # None => Pending[dest] # None
          BY <1>4, <1>6
        <4> QED
          BY <1>1, <4>1, <4>2, DestFacts DEF Reachable
      <3> QED
        BY <1>5, <1>10, <2>2, <3>1
    <2> QED
      BY <1>4, <1>5, <2>3, <2>4, <2>5, NothingNew
  <1>18. CopyInv'
    <2> SUFFICES ASSUME link = "open"
                 PROVE  CopyInv'
      BY <1>5 DEF CopyInv
    <2>1. \A k \in Keys : ~Changing(k)' /\ ~Changing(k)
      BY <1>7, <1>9 DEF Changing
    <2>2. v = repo[source][c.key]
      <3>1. v = Result(source, c)
        BY <1>1, <1>9 DEF ReplyInv
      <3> QED
        BY <1>6, <1>9, <3>1, ResultFacts
    <2>3. repo'[source] = repo[source]
      BY <1>6, <1>10
    <2>4. \A k \in Keys : repo'[dest][k] \in {repo[dest][k], repo[source][k]}
      BY <1>10, <2>2
    <2>5. i.by # "proxy" => repo'[dest][c.key] = repo[source][c.key]
      BY <1>10, <2>2
    <2> QED
      <3>1. \A k \in Keys : Found(dest, k)' => repo'[dest][k] = repo[source][k]
        BY <1>1, <1>5, <2>1, <2>4 DEF CopyInv, Found
      <3>2. mpc' \in {"loop", "waiting", "ended"} =>
              /\ (todo.del \subseteq list.del)'
              /\ \A k \in Keys : Found(source, k) /\ k \notin (list.del \cup todo.get)'
                     => repo'[dest][k] = repo[source][k]
        BY <1>1, <1>3, <1>5, <1>9, <2>1, <2>2, <2>3, <2>4, <2>5 DEF CopyInv, Found
      <3>3. \A i_1 \in 1 .. Len(toDest') : toDest'[i_1].kind = "list" =>
              \A k \in Keys : Found(source, k) => k \in toDest'[i_1].list.get
        BY <1>1, <1>3, <1>5, <2>1 DEF CopyInv
      <3>4. handling' # None => handling'.val = repo[source][handling'.item.cmd.key]
        BY <1>9, <1>11, <2>2
      <3> QED
        BY <1>5, <2>3, <3>1, <3>2, <3>3, <3>4 DEF CopyInv, Found
  <1> QED
    BY <1>12, <1>13, <1>14, <1>15, <1>16, <1>17, <1>18

\* ReplyPanic: the promise ends.
LEMMA ReplyPanicKeeps ==
    ASSUME IInv, PInv, promise', IInv', ReplyPanic
    PROVE  PInv'
  <1> USE DEF IInv, PInv, ReplyPanic, counters
  <1>1. PlaceInv'
    BY DEF PlaceInv, RoleInv, ConnInv, ProxyType, StageInv, LinkType
  <1>2. PipeInv'
    BY DEF PipeInv, Awaiting, StageInv, LinkType, Running, AdapterType, CountInv
  <1>3. QuietInv'
    BY DEF QuietInv, Found, Awaiting, RoleInv, StageInv, Running, ProxyType, StoreType, ReadyInv
  <1>4. ReplyInv'
    BY DEF ReplyInv, Replied, Result, Found, RoleInv, StageInv, StoreType
  <1>5. MayInv'
    BY DEF MayInv, Pending, ProxyType
  <1>6. ValidInv' /\ GetInv' /\ SetInv'
    BY DEF ValidInv, GetInv, SetInv, Reachable, Holds, Moving, Somewhere, Elsewhere, Replied,
       Reading, Writing, Pending, RoleInv, StageInv
  <1>7. CopyInv'
    BY DEF CopyInv, Found, Changing, Replied, Awaiting, RoleInv, StageInv, Running
  <1> QED
    BY <1>1, <1>2, <1>3, <1>4, <1>5, <1>6, <1>7

\* StoreCopy: what the interceptor stores is still what the source has.
LEMMA StoreCopyKeeps ==
    ASSUME IInv, PInv, promise', IInv', StoreCopy
    PROVE  PInv'
  <1> USE DEF IInv, PInv, StoreCopy, Intercepted, proxyVars, sourceVars, linkVars, copyVars,
     historyVars, counters
  <1>1. /\ adapter # "off" /\ ~Awaiting /\ mpc # "invoked" /\ ~(serving /\ ~ready) /\ handling # None
        /\ handling' = None /\ UNCHANGED <<current, request, source, dest, serving, ready, link, toDest, adapter, mpc,
                                           todo, list, valid, may>>
    BY DEF StageInv, Awaiting, QuietInv
  <1>2. PICK c \in Command, v \in Values : c = handling.item.cmd /\ v = handling.val /\ c.op = "get" /\ c.key \in Keys
    <2>1. handling.item.cmd \in Command /\ handling.item.cmd.op = "get" /\ handling.val \in Values
      BY <1>1, PipeFacts DEF ItemInv
    <2> QED
      BY <2>1, CommandFacts
  <1>3. dest \in Lambdas /\ source \in Lambdas /\ source # dest
    BY <1>1, DestFacts
  <1>4. /\ \A m \in Lambdas \ {dest} : repo'[m] = repo[m]
        /\ \A k \in Keys \ {c.key} : repo'[dest][k] = repo[dest][k]
        /\ repo'[dest][c.key] \in {repo[dest][c.key], v}
    <2>1. taken \in {None, c.key} \/ repo' = repo
      BY <1>2 DEF Mislaid
    <2>2. repo' = repo \/ repo' = Put(dest, c.key, v)
      BY <1>2, <2>1
    <2> QED
      BY <1>2, <1>3, <2>2, PutFacts
  <1>5. \A r : ~Replied(r) /\ ~Replied(r)'
    BY <1>1, PipeFacts DEF Replied
  <1>6. PipeInv'
    <2>1. UNCHANGED toSource /\ ~Awaiting'
      BY <1>1 DEF Awaiting
    <2>2. ASSUME link = "open", NEW j \in 1 .. Len(toSource)
          PROVE  Len(toDest) + j = 1 /\ mpc = "hello"
      <3>1. Len(toSource) + Len(toDest) = IF mpc = "hello" THEN 1 ELSE 0
        BY <1>1, <2>2 DEF CountInv
      <3>2. Len(toSource) \in Nat /\ Len(toDest) \in Nat
        BY DEF LinkType
      <3> QED
        BY <2>2, <3>1, <3>2
    <2>3. \A j \in 1 .. Len(toSource) : link = "open" => toSource[j] = HelloCommand
      BY <1>1, PipeFacts
    <2>4. adapter # "restored"
      BY <1>1 DEF PipeInv
    <2> QED
      BY <1>1, <2>1, <2>2, <2>3, <2>4 DEF PipeInv
  <1>7. QuietInv'
    BY <1>1 DEF QuietInv
  <1>8. ReplyInv'
    BY <1>5 DEF ReplyInv
  <1>9. ValidInv' /\ GetInv' /\ SetInv'
    <2>1. \A m \in Lambdas : Reachable(m)' <=> Reachable(m)
      BY <1>1 DEF Reachable
    <2>2. Reachable(dest) => Moving(c.key, v)
      BY <1>1, <1>2 DEF Moving
    <2>3. \A m \in Lambdas, k \in Keys, u \in Values : Reachable(m)' /\ Holds(m, k, u)' =>
              (Reachable(m) /\ Holds(m, k, u)) \/ Moving(k, u)
      BY <1>1, <1>4, <2>1, <2>2 DEF Holds
    <2>4. \A k \in Keys, u \in Values : ~Moving(k, u)'
      BY <1>1 DEF Moving
    <2>5. \A m \in Lambdas, k \in Keys, u \in Values : Reading(m, k)' /\ repo'[m][k] = u =>
              repo[m][k] = u \/ (m = current /\ Moving(k, u))
      <3>1. \A k \in Keys : Reading(dest, k)' => dest = current /\ Reachable(dest)
        <4>1. \A k \in Keys : Reading(dest, k)' => Pending'[dest] # None
          BY <1>1 DEF Reading
        <4>2. Pending'[dest] # None => Pending[dest] # None
          BY <1>1, <1>3, PendingKept
        <4> QED
          BY <1>1, <4>1, <4>2, DestFacts DEF Reachable
      <3> QED
        BY <1>1, <1>4, <2>2, <3>1
    <2> QED
      BY <1>1, <2>3, <2>4, <2>5, NothingMoves
  <1>10. CopyInv'
    <2> SUFFICES ASSUME link = "open"
                 PROVE  CopyInv'
      BY <1>1 DEF CopyInv
    <2>1. \A k \in Keys : ~Changing(k)' /\ ~Changing(k)
      BY <1>5 DEF Changing
    <2>2. v = repo[source][c.key]
      BY <1>1, <1>2 DEF CopyInv
    <2>3. repo'[source] = repo[source]
      BY <1>3, <1>4
    <2>4. \A k \in Keys : repo'[dest][k] \in {repo[dest][k], repo[source][k]}
      BY <1>4, <2>2
    <2> HIDE DEF IInv, PInv, StoreCopy, Intercepted
    <2>5. CopyInv
      BY DEF PInv
    <2>6. \A k \in Keys : Found(dest, k)' => repo'[dest][k] = repo'[source][k]
      BY <1>1, <2>1, <2>3, <2>4, <2>5 DEF CopyInv, Found
    <2>7. mpc' \in {"loop", "waiting", "ended"} =>
             /\ todo'.del \subseteq list'.del
             /\ \A k \in Keys : Found(source, k)' /\ k \notin list'.del \cup todo'.get
                    => repo'[dest][k] = repo'[source][k]
      BY <1>1, <2>1, <2>3, <2>4, <2>5 DEF CopyInv, Found
    <2>8. \A i \in 1 .. Len(toDest') : toDest'[i].kind = "list" =>
             \A k \in Keys : Found(source, k)' => k \in toDest'[i].list.get
      BY <1>1, <2>1, <2>3, <2>5 DEF CopyInv, Found
    <2> QED
      BY <1>1, <2>6, <2>7, <2>8 DEF CopyInv, Found
  <1>11. (PlaceInv /\ MayInv)'
    BY DEF PlaceInv, MayInv, Pending
  <1> QED
    BY <1>6, <1>7, <1>8, <1>9, <1>10, <1>11

\* ReplyClosed: ErrClosed, the command fails.
LEMMA ReplyClosedKeeps ==
    ASSUME IInv, PInv, promise', IInv', ReplyClosed
    PROVE  PInv'
  <1> USE DEF IInv, PInv, ReplyClosed, lambdaVars, sourceVars, linkVars, counters
  <1> DEFINE i == handling.item
  <1>1. Awaiting /\ adapter # "off" /\ handling' = None /\ ~Awaiting' /\ link = "closed" /\ link' = "closed"
    BY DEF Awaiting, StageInv
  <1>2. i \in Item /\ Waits(i)
    BY <1>1, PipeFacts
  <1>3. /\ MayInv' /\ \A m \in Lambdas : request'[m] \in {None, request[m]}
        /\ \A m \in Lambdas : Pending'[m] = None \/ (Pending'[m] = Pending[m] /\ may'[m] = may[m])
        /\ valid' = valid
    BY <1>1, <1>2, CompleteEffect
  <1>4. UNCHANGED <<current, conn, repo, source, dest, serving, ready, toSource, toDest, adapter>>
    OBVIOUS
  <1>5. mpc' = mpc \/ (mpc = "waiting" /\ mpc' \in {"loop", "aborted"})
    BY <1>1, <1>2, CompleteTodo
  <1>6. PlaceInv'
    BY <1>3, <1>4, PlaceKept
  <1>7. PipeInv'
    BY <1>1, <1>4, <1>5 DEF PipeInv
  <1>8. QuietInv'
    BY <1>1, <1>4, <1>5 DEF QuietInv, Found
  <1>9. ReplyInv'
    BY <1>1 DEF ReplyInv
  <1>10. MayInv'
    BY <1>3
  <1>11. ValidInv' /\ GetInv' /\ SetInv'
    <2>1. \A m \in Lambdas : Reachable(m)' <=> Reachable(m)
      BY <1>1, <1>4 DEF Reachable
    <2>2. \A m \in Lambdas, k \in Keys, v \in Values : Holds(m, k, v)' => Holds(m, k, v)
      BY <1>3, <1>4 DEF Holds
    <2>3. \A k \in Keys, v \in Values : ~Moving(k, v)'
      BY <1>1 DEF Moving
    <2> QED
      BY <1>3, <1>4, <2>1, <2>2, <2>3, NothingNew
  <1>12. CopyInv'
    BY <1>1 DEF CopyInv
  <1> QED
    BY <1>6, <1>7, <1>8, <1>9, <1>10, <1>11, <1>12

\* AdapterEnds: the goroutine sees done.
LEMMA AdapterEndsKeeps ==
    ASSUME IInv, PInv, promise', IInv', AdapterEnds
    PROVE  PInv'
  <1> USE DEF IInv, PInv, AdapterEnds, proxyVars, lambdaVars, sourceVars, linkVars, copyVars,
     historyVars, counters
  <1>1. PlaceInv'
    BY DEF PlaceInv, RoleInv, ConnInv, ProxyType, StageInv, LinkType
  <1>2. PipeInv'
    BY DEF PipeInv, Awaiting, StageInv, LinkType, Running, AdapterType, CountInv
  <1>3. ReplyInv'
    BY DEF ReplyInv, Replied, Result, Found, RoleInv, StageInv, StoreType
  <1>4. (QuietInv /\ MayInv /\ ValidInv /\ GetInv /\ SetInv /\ CopyInv)'
    BY DEF QuietInv, Found, Awaiting, MayInv, Pending, ValidInv, GetInv, SetInv, Reachable,
       Holds, Moving, Somewhere, Elsewhere, Replied, Reading, Writing, CopyInv, Changing
  <1> QED
    BY <1>1, <1>2, <1>3, <1>4

\* ReadList: Migrate reads the list, and not a reply to the adapter.
LEMMA ReadListKeeps ==
    ASSUME IInv, PInv, promise', IInv', ReadList
    PROVE  PInv'
  <1> USE DEF IInv, PInv, ReadList, proxyVars, lambdaVars, sourceVars, adapterVars, historyVars,
     counters
  <1>1. /\ mpc = "hello" /\ toDest # <<>> /\ toDest' = Tail(toDest) /\ Head(toDest).kind = "list" /\ mpc' = "loop"
        /\ todo' = Head(toDest).list /\ list' = todo'
        /\ UNCHANGED <<current, conn, repo, request, source, dest, serving, ready, link, toSource, adapter, handling,
                       valid, may>>
    BY DEF Torn
  <1>2. /\ toDest \in Seq(Replies) /\ Head(toDest) = toDest[1] /\ 1 \in 1 .. Len(toDest) /\ adapter = "on"
        /\ Len(toDest) \in Nat /\ Len(Tail(toDest)) = Len(toDest) - 1 /\ Tail(toDest) \in Seq(Replies)
        /\ \A j \in 1 .. Len(Tail(toDest)) : Tail(toDest)[j] = toDest[j + 1] /\ j + 1 \in 1 .. Len(toDest) /\ j + 1 # 1
    BY <1>1 DEF LinkType, StageInv, Running
  <1>3. \A j \in 1 .. Len(Tail(toDest)) : Tail(toDest)[j].kind = "result"
    BY <1>2 DEF PipeInv
  <1>4. \A r : Replied(r)' <=> Replied(r)
    <2>1. \A r : Replied(r)' => Replied(r)
      BY <1>1, <1>2 DEF Replied, Among
    <2>2. ASSUME NEW r, Replied(r)
          PROVE  Replied(r)'
      <3>1. PICK j \in 1 .. Len(toDest) : toDest[j].kind = "result" /\ toDest[j].result = r
        BY <2>2 DEF Replied, Among
      <3>2. j # 1
        BY <1>1, <1>2, <3>1
      <3>3. j - 1 \in 1 .. Len(Tail(toDest)) /\ Tail(toDest)[j - 1] = toDest[j]
        BY <1>2, <3>1, <3>2
      <3> QED
        BY <1>1, <3>1, <3>3 DEF Replied, Among
    <2> QED
      BY <2>1, <2>2
  <1>5. PlaceInv'
    BY <1>1 DEF PlaceInv, Pending
  <1>6. PipeInv'
    <2>1. link = "open" => toSource = <<>> \/ \A j \in 1 .. Len(toSource) : toSource[j] = handling.item.cmd
      BY <1>1, <1>2 DEF PipeInv
    <2>2. Len(toDest) <= (IF Awaiting THEN 1 ELSE 0) + 1
      BY <1>1, <1>2 DEF PipeInv
    <2>3. Awaiting' <=> Awaiting
      BY <1>1 DEF Awaiting
    <2>4. Awaiting => handling.val = None
      BY DEF PipeInv
    <2> QED
      BY <1>1, <1>2, <1>3, <2>1, <2>2, <2>3, <2>4 DEF PipeInv
  <1>7. QuietInv'
    BY <1>1 DEF QuietInv, Found
  <1>8. ReplyInv'
    BY <1>1, <1>4 DEF ReplyInv, Result, Found
  <1>9. ValidInv' /\ GetInv' /\ SetInv'
    <2>1. \A m \in Lambdas, k \in Keys, v \in Values : Reachable(m)' /\ Holds(m, k, v)' =>
              Reachable(m) /\ Holds(m, k, v)
      BY <1>1 DEF Reachable, Holds
    <2>2. \A k \in Keys, v \in Values : Moving(k, v)' => Moving(k, v)
      BY <1>1, <1>4 DEF Moving, Reachable
    <2> QED
      BY <1>1, <2>1, <2>2, NothingMoves
  <1>10. CopyInv'
    <2> SUFFICES ASSUME link = "open"
                 PROVE  CopyInv'
      BY <1>1 DEF CopyInv
    <2>1. \A k \in Keys : Changing(k)' <=> Changing(k)
      BY <1>1, <1>4 DEF Changing
    <2>2. \A k \in Keys : Found(source, k) /\ ~Changing(k) => k \in todo'.get
      BY <1>1, <1>2 DEF CopyInv
    <2>3. todo'.del \subseteq list'.del
      BY <1>1
    <2> QED
      BY <1>1, <1>3, <2>1, <2>2, <2>3 DEF CopyInv, Found, Awaiting
  <1>11. (MayInv)'
    BY DEF MayInv, Pending
  <1> QED
    BY <1>5, <1>6, <1>7, <1>8, <1>9, <1>10, <1>11

\* ReadFails: Migrate gives up.
LEMMA ReadFailsKeeps ==
    ASSUME IInv, PInv, promise', IInv', ReadFails
    PROVE  PInv'
  <1> USE DEF IInv, PInv, ReadFails, proxyVars, lambdaVars, sourceVars, linkVars, adapterVars,
     historyVars, counters
  <1>1. PlaceInv'
    BY DEF PlaceInv, Pending, RoleInv, ConnInv, ProxyType, StageInv, LinkType
  <1>2. PipeInv'
    BY DEF PipeInv, Awaiting, StageInv, LinkType, Running, AdapterType, CountInv
  <1>3. QuietInv'
    BY DEF QuietInv, Found, Awaiting, RoleInv, StageInv, Running, ProxyType, StoreType, ReadyInv
  <1>4. CopyInv'
    BY DEF CopyInv, Found, Changing, Replied, Awaiting, RoleInv, StageInv, Running
  <1>5. (ReplyInv /\ MayInv /\ ValidInv /\ GetInv /\ SetInv)'
    BY DEF ReplyInv, Replied, Result, Found, MayInv, Pending, ValidInv, GetInv, SetInv,
       Reachable, Holds, Moving, Somewhere, Elsewhere, Reading, Writing
  <1> QED
    BY <1>1, <1>2, <1>3, <1>4, <1>5

\* LocalDel: a chunk deleted at the source is marked here, and has no value.
LEMMA LocalDelKeeps ==
    ASSUME IInv, PInv, promise', IInv', NEW k \in Keys, LocalDel(k)
    PROVE  PInv'
  <1> USE DEF IInv, PInv, LocalDel, proxyVars, sourceVars, linkVars, adapterVars, historyVars,
     counters
  <1>1. /\ adapter = "on" /\ dest \in Lambdas /\ source \in Lambdas /\ source # dest
        /\ UNCHANGED <<current, request, source, dest, serving, ready, link, toDest, adapter, handling, mpc, list, valid, may>>
    BY DestFacts DEF StageInv, Running
  <1>2. /\ \A m \in Lambdas \ {dest} : repo'[m] = repo[m]
        /\ \A j \in Keys \ {k} : repo'[dest][j] = repo[dest][j]
        /\ repo'[dest][k] \notin Values
    BY <1>1, MigrationAssumption DEF StoreType, Del
  <1>3. todo'.del = todo.del \ {k} /\ todo'.get = todo.get
    BY DEF CopyType, KeyLists
  <1>4. repo'[source] = repo[source]
    BY <1>1, <1>2
  <1>5. QuietInv'
    BY <1>1, <1>2 DEF QuietInv, Found, Awaiting
  <1>6. ReplyInv'
    BY <1>1, <1>4 DEF ReplyInv, Replied, Result, Found
  <1>7. ValidInv' /\ GetInv' /\ SetInv'
    <2>1. \A m \in Lambdas, j \in Keys, v \in Values : repo'[m][j] = v => repo[m][j] = v
      BY <1>2
    <2>2. \A m \in Lambdas, j \in Keys, v \in Values : Reachable(m)' /\ Holds(m, j, v)' =>
              Reachable(m) /\ Holds(m, j, v)
      BY <1>1, <2>1 DEF Reachable, Holds
    <2>3. \A j \in Keys, v \in Values : Moving(j, v)' => Moving(j, v)
      BY <1>1 DEF Moving, Reachable, Replied
    <2> QED
      BY <1>1, <2>1, <2>2, <2>3, NothingMoves
  <1>8. CopyInv'
    <2> SUFFICES ASSUME link = "open"
                 PROVE  CopyInv'
      BY <1>1 DEF CopyInv
    <2>1. \A j \in Keys : Changing(j)' <=> Changing(j)
      BY <1>1 DEF Changing, Replied
    <2>2. k \in list.del
      BY DEF CopyInv
    <2> QED
      BY <1>1, <1>2, <1>3, <1>4, <2>1, <2>2 DEF CopyInv, Found, Awaiting
  <1>9. (PlaceInv /\ PipeInv /\ MayInv)'
    BY DEF PlaceInv, PipeInv, Awaiting, MayInv, Pending
  <1> QED
    BY <1>5, <1>6, <1>7, <1>8, <1>9

\* MigrateKey: the next key of the list goes to the adapter's channel.
LEMMA MigrateKeyKeeps ==
    ASSUME IInv, PInv, promise', IInv', NEW k \in Keys, MigrateKey(k)
    PROVE  PInv'
  <1> USE DEF IInv, PInv, MigrateKey, proxyVars, lambdaVars, sourceVars, linkVars, historyVars,
     counters
  <1>1. PlaceInv'
    BY DEF PlaceInv, Pending, RoleInv, ConnInv, ProxyType, StageInv, LinkType
  <1>2. PipeInv'
    BY DEF PipeInv, Awaiting, StageInv, LinkType, Running, AdapterType, CountInv
  <1>3. QuietInv'
    BY DEF QuietInv, Found, Awaiting, RoleInv, StageInv, Running, ProxyType, StoreType, ReadyInv
  <1>4. CopyInv'
    BY DEF CopyInv, Found, Changing, Replied, Awaiting, RoleInv, StageInv, Running
  <1>5. (ReplyInv /\ MayInv /\ ValidInv /\ GetInv /\ SetInv)'
    <2>1. ReplyInv'
      BY DEF ReplyInv, Replied, Result, Found
    <2>2. (MayInv /\ ValidInv)'
      BY DEF MayInv, Pending, ValidInv, Reachable, Holds, Moving, Somewhere, Replied
    <2>3. (GetInv /\ SetInv)'
      BY DEF Pending, GetInv, SetInv, Reachable, Holds, Moving, Somewhere, Elsewhere, Reading,
         Writing, Replied
    <2> QED
      BY <2>1, <2>2, <2>3
  <1> QED
    BY <1>1, <1>2, <1>3, <1>4, <1>5

\* EndMigration: Migrate is done with its list.
LEMMA EndMigrationKeeps ==
    ASSUME IInv, PInv, promise', IInv', EndMigration
    PROVE  PInv'
  <1> USE DEF IInv, PInv, EndMigration, proxyVars, lambdaVars, sourceVars, linkVars,
     adapterVars, historyVars, counters
  <1>1. PlaceInv'
    BY DEF PlaceInv, Pending, RoleInv, ConnInv, ProxyType, StageInv, LinkType
  <1>2. PipeInv'
    BY DEF PipeInv, Awaiting, StageInv, LinkType, Running, AdapterType, CountInv
  <1>3. QuietInv'
    BY DEF QuietInv, Found, Awaiting, RoleInv, StageInv, Running, ProxyType, StoreType, ReadyInv
  <1>4. CopyInv'
    BY DEF CopyInv, Found, Changing, Replied, Awaiting, RoleInv, StageInv, Running
  <1>5. (ReplyInv /\ MayInv /\ ValidInv /\ GetInv /\ SetInv)'
    BY DEF ReplyInv, Replied, Result, Found, MayInv, Pending, ValidInv, GetInv, SetInv,
       Reachable, Holds, Moving, Somewhere, Elsewhere, Reading, Writing
  <1> QED
    BY <1>1, <1>2, <1>3, <1>4, <1>5

\* Close: the deferred Close; what is on the way may be lost.
LEMMA CloseKeeps ==
    ASSUME IInv, PInv, promise', IInv', Close
    PROVE  PInv'
  <1> USE DEF IInv, PInv, Close, Closing, proxyVars, lambdaVars, sourceVars, adapterVars,
     historyVars, counters
  <1>1. PlaceInv'
    BY DEF PlaceInv, Pending, RoleInv, ConnInv, ProxyType, StageInv, LinkType
  <1>2. PipeInv'
    BY DEF PipeInv, Awaiting, StageInv, LinkType, Running, AdapterType, CountInv
  <1>3. QuietInv'
    BY DEF QuietInv, Found, Awaiting, RoleInv, StageInv, Running, ProxyType, StoreType, ReadyInv
  <1>4. ReplyInv'
    BY DEF ReplyInv, Replied, Result, Found, RoleInv, StageInv, StoreType
  <1>5. ValidInv' /\ GetInv' /\ SetInv'
    <2>1. \A k \in Keys, v \in Values : Replied(v)' => Replied(v)
      BY AmongFacts DEF Replied
    <2>2. \A m \in Lambdas, k \in Keys, v \in Values : Reachable(m)' /\ Holds(m, k, v)' =>
              Reachable(m) /\ Holds(m, k, v)
      BY DEF Reachable, Holds
    <2>3. \A k \in Keys, v \in Values : Moving(k, v)' => Moving(k, v)
      BY <2>1 DEF Moving, Reachable
    <2>4. UNCHANGED <<current, request, valid, may, repo>>
      OBVIOUS
    <2> QED
      BY <2>2, <2>3, <2>4, NothingMoves
  <1>6. CopyInv'
    BY DEF CopyInv, Found, Changing, Replied, Awaiting, RoleInv, StageInv, Running
  <1>7. (MayInv)'
    BY DEF MayInv, Pending
  <1> QED
    BY <1>1, <1>2, <1>3, <1>4, <1>5, <1>6, <1>7

\* Restore: the plain store is back and the goroutine has nothing in hand, or the promise ends.
LEMMA RestoreKeeps ==
    ASSUME IInv, PInv, promise', IInv', Restore
    PROVE  PInv'
  <1> USE DEF IInv, PInv, Restore, proxyVars, lambdaVars, sourceVars, linkVars, historyVars,
     counters
  <1>1. handling = None /\ handling' = None /\ adapter = "on" /\ ~Awaiting
    BY DEF Overrun, StageInv, Running, Awaiting
  <1>2. toDest = <<>>
    <2>1. Len(toDest) <= 0
      BY <1>1 DEF PipeInv
    <2> QED
      BY <2>1 DEF LinkType
  <1>3. PlaceInv'
    BY <1>1, <1>2 DEF PlaceInv, Pending, RoleInv, ConnInv, ProxyType, StageInv, LinkType
  <1>4. PipeInv'
    BY <1>1, <1>2 DEF PipeInv, Awaiting, StageInv, LinkType, Running, AdapterType, CountInv
  <1>5. QuietInv'
    BY <1>1, <1>2 DEF QuietInv, Found, Awaiting, RoleInv, StageInv, Running, ProxyType,
       StoreType, ReadyInv
  <1>6. ReplyInv'
    BY <1>1, <1>2 DEF ReplyInv, Replied, Result, Found, RoleInv, StageInv, StoreType
  <1>7. CopyInv'
    BY <1>1, <1>2 DEF CopyInv, Found, Changing, Replied, Awaiting, RoleInv, StageInv, Running
  <1>8. (MayInv /\ ValidInv /\ GetInv /\ SetInv)'
    BY DEF MayInv, Pending, ValidInv, GetInv, SetInv, Reachable, Holds, Moving, Somewhere,
       Elsewhere, Replied, Reading, Writing
  <1> QED
    BY <1>3, <1>4, <1>5, <1>6, <1>7, <1>8

-----------------------------------------------------------------------------
\* Init: nothing is stored and nothing is on its way.
LEMMA InitPromise == Init => PInv
  <1> SUFFICES ASSUME Init
               PROVE  PInv
    OBVIOUS
  <1> USE MigrationAssumption DEF Init
  <1>1. PlaceInv /\ PipeInv /\ QuietInv /\ ReplyInv /\ MayInv /\ CopyInv
    BY DEF PlaceInv, PipeInv, Awaiting, QuietInv, ReplyInv, MayInv, CopyInv
  <1>2. \A l \in Lambdas : Pending[l] = None
    <2>1. \A l \in Lambdas : request[l] = None
      OBVIOUS
    <2> QED
      BY ONLY <2>1 DEF Pending
  <1>3. \A k \in Keys, v \in Values : ~Somewhere(k, v)
    BY DEF Somewhere, Moving, Holds
  <1>4. ValidInv /\ GetInv /\ SetInv
    BY <1>2, <1>3 DEF ValidInv, GetInv, SetInv, Reading, Writing
  <1> QED
    BY <1>1, <1>4 DEF PInv

\* The promise ends for good: no action gives it back.
LEMMA PromiseOnce ==
    ASSUME [Next]_vars, promise'
    PROVE  promise
  <1>1. ASSUME NEW l \in Lambdas, NEW c \in Command, Issue(l, c)
        PROVE  promise
    BY <1>1 DEF Issue
  <1>2. ASSUME NEW l \in Lambdas, Serve(l) \/ Serialize(l) \/ Disconnect(l) \/ EndConnection(l)
        PROVE  promise
    BY <1>2 DEF Serve, Serialize, Disconnect, EndConnection
  <1>3. ASSUME NEW l \in Lambdas, Join(l) \/ Die(l) \/ Sleep(l) \/ Invoke(l)
        PROVE  promise
    BY <1>3 DEF Join, Die, Sleep, Invoke
  <1>4. ASSUME NEW l \in Lambdas, NEW d \in Lambdas, Migrate(l, d)
        PROVE  promise
    BY <1>4 DEF Migrate
  <1>5. CASE Hello \/ HelloFailed \/ MHello \/ ServeForwarded \/ EndServing \/ LinkFails
    BY <1>5 DEF Hello, HelloFailed, MHello, ServeForwarded, EndServing, LinkFails
  <1>6. CASE AnswerHere \/ Forward \/ SendFails \/ StoreCopy \/ ReplyClosed \/ AdapterEnds
    BY <1>6 DEF AnswerHere, Forward, SendFails, StoreCopy, ReplyClosed, AdapterEnds
  <1>7. CASE ReplyError \/ ReplyDone \/ ReplyValue \/ ReplyPanic
    BY <1>7 DEF ReplyError, ReplyDone, ReplyValue, ReplyPanic, NextReply
  <1>8. CASE ReadList \/ ReadFails \/ EndMigration \/ Close \/ Restore
    BY <1>8 DEF ReadList, ReadFails, EndMigration, Close, Restore
  <1>9. ASSUME NEW k \in Keys, LocalDel(k) \/ MigrateKey(k)
        PROVE  promise
    BY <1>9 DEF LocalDel, MigrateKey
  <1>10. CASE UNCHANGED vars
    BY <1>10 DEF vars
  <1> QED
    BY <1>1, <1>2, <1>3, <1>4, <1>5, <1>6, <1>7, <1>8, <1>9, <1>10 DEF Next, Adapter, Copy

\* Every step that keeps the promise keeps PInv: one lemma for each action.
LEMMA NextPromise == IInv /\ (promise => PInv) /\ [Next]_vars => (promise' => PInv')
  <1> SUFFICES ASSUME IInv, promise => PInv, [Next]_vars, promise'
               PROVE  PInv'
    OBVIOUS
  <1>1. PInv /\ IInv'
    BY PromiseOnce, NextInv
  <1>2. ASSUME NEW l \in Lambdas, NEW c \in Command, Issue(l, c)
        PROVE  PInv'
    BY <1>1, <1>2, IssueKeeps
  <1>3. ASSUME NEW l \in Lambdas,
               \/ Serve(l) \/ Serialize(l) \/ Disconnect(l) \/ EndConnection(l) \/ Join(l) \/ Die(l)
               \/ Sleep(l) \/ Invoke(l)
        PROVE  PInv'
    BY <1>1, <1>3, ServeKeeps, SerializeKeeps, DisconnectKeeps, EndConnectionKeeps, JoinKeeps,
       DieKeeps, SleepKeeps, InvokeKeeps
  <1>4. ASSUME NEW l \in Lambdas, NEW d \in Lambdas, Migrate(l, d)
        PROVE  PInv'
    BY <1>1, <1>4, MigrateKeeps
  <1>5. CASE Hello \/ HelloFailed \/ MHello \/ ServeForwarded \/ EndServing \/ LinkFails
    BY <1>1, <1>5, HelloKeeps, HelloFailedKeeps, MHelloKeeps, ServeForwardedKeeps,
       EndServingKeeps,
       LinkFailsKeeps
  <1>6. CASE Adapter
    BY <1>1, <1>6, AnswerHereKeeps, ForwardKeeps, SendFailsKeeps, ReplyErrorKeeps, ReplyDoneKeeps,
       ReplyValueKeeps, ReplyPanicKeeps, StoreCopyKeeps, ReplyClosedKeeps, AdapterEndsKeeps DEF Adapter
  <1>7. CASE Copy
    BY <1>1, <1>7, ReadListKeeps, ReadFailsKeeps, EndMigrationKeeps, CloseKeeps, RestoreKeeps,
       LocalDelKeeps, MigrateKeyKeeps DEF Copy
  <1>8. CASE UNCHANGED vars
    <2>1. UNCHANGED <<current, conn, request, repo, source, dest, serving, link, toSource, toDest,
                      adapter, serializer, ready, running, joining, handling, mpc, todo, list, may, valid,
                      answer, promise>>
      BY <1>8 DEF vars, proxyVars, lambdaVars, sourceVars, linkVars, adapterVars, copyVars,
         historyVars
    <2>2. PlaceInv' /\ PipeInv' /\ QuietInv'
      BY <1>1, <2>1 DEF PInv, PlaceInv, Pending, PipeInv, QuietInv, Awaiting, Found
    <2>3. ReplyInv'
      BY <1>1, <2>1 DEF PInv, ReplyInv, Replied, Result, Found
    <2>4. MayInv' /\ ValidInv' /\ GetInv' /\ SetInv'
      BY <1>1, <2>1 DEF PInv, MayInv, Pending, ValidInv, GetInv, SetInv, Reachable, Holds, Moving,
         Somewhere, Elsewhere, Reading, Writing, Replied
    <2>5. CopyInv'
      BY <1>1, <2>1 DEF PInv, CopyInv, Changing, Replied, Awaiting, Found
    <2> QED
      BY <2>2, <2>3, <2>4, <2>5 DEF PInv
  <1> QED
    BY <1>2, <1>3, <1>4, <1>5, <1>6, <1>7, <1>8 DEF Next

\* As long as the promise holds, PInv does: what a reader can reach, directly or through the adapter,
\* is valid, and the destination's copy agrees with the source.
THEOREM PromiseInductive == Spec => [](promise => PInv)
  <1>1. Init => (promise => PInv)
    BY InitPromise
  <1>2. IInv /\ (promise => PInv) /\ [Next]_vars => (promise => PInv)'
    BY NextPromise
  <1> QED
    BY <1>1, <1>2, Inductive, PTL DEF Spec

-----------------------------------------------------------------------------
\* A step that neither starts nor ends a command of the proxy is a step of ChunkMap: none, or the
\* end of the promise.
LEMMA StutterMaps ==
    ASSUME IInv, IInv', promise' => promise, UNCHANGED <<valid, may, answer>>,
           \A m \in Lambdas : Pending'[m] = Pending[m]
    PROVE  [Map!Next]_(Map!vars)
  <1>1. CASE ~promise'
    BY <1>1 DEF Map!Next
  <1>2. CASE promise'
    <2>1. promise' = promise
      BY <1>2 DEF IInv, HistoryType
    <2>2. Pending' = Pending
      BY DEF Pending
    <2> QED
      BY <2>1, <2>2 DEF Map!vars
  <1> QED
    BY <1>1, <1>2

\* The proxy's command is not waited for any more.
LEMMA PendingDropped ==
    ASSUME NEW l \in Lambdas, Pending'[l] = None, \A m \in Lambdas \ {l} : Pending'[m] = Pending[m]
    PROVE  Pending' = [Pending EXCEPT ![l] = None]
  BY DEF Pending

\* An answer is an Acknowledge, a Find or a Fail of ChunkMap, nothing if the proxy has given up on
\* the command: a value only for a GET and only one it may find, an "ok" only for a SET or DEL.
LEMMA AnswerMaps ==
    ASSUME IInv, MayInv, promise, promise', NEW l \in Lambdas, request[l] # None, NEW res, Answer(l, res),
           res = "ok" => request[l].cmd.op # "get",
           res \in Values => request[l].cmd.op = "get" /\ (request[l].live => res \in may[l]),
           IInv'
    PROVE  [Map!Next]_(Map!vars)
  <1>1. /\ request'[l] = None /\ \A m \in Lambdas \ {l} : request'[m] = request[m]
    BY AnswerEffect
  <1>2. Pending'[l] = None /\ \A m \in Lambdas \ {l} : Pending'[m] = Pending[m]
    BY <1>1, PendingKept DEF Pending
  <1>3. CASE ~request[l].live
    <2>1. UNCHANGED <<valid, may, answer>>
      BY <1>3 DEF Answer, Learn, historyVars
    <2>2. Pending[l] = None
      BY <1>3 DEF Pending
    <2> QED
      BY <1>2, <2>1, <2>2, StutterMaps
  <1>4. CASE request[l].live
    <2>1. Pending[l] # None /\ Pending[l] = request[l].cmd
      BY <1>4, PendingFacts DEF IInv
    <2>2. Pending' = [Pending EXCEPT ![l] = None]
      BY <1>2, PendingDropped
    <2>3. /\ answer' = IF res \in Values THEN [val |-> res, may |-> may[l]] ELSE None
          /\ may' = [may EXCEPT ![l] = {}]
          /\ valid' = IF res = "ok"
                      THEN [valid EXCEPT ![request[l].cmd.key] = ({request[l].cmd.val} \ {None}) \cup may[l]]
                      ELSE valid
      BY <1>4 DEF Answer, Learn
    <2>4. Map!Finish(l)
      BY <2>1, <2>2, <2>3 DEF Map!Finish
    <2>5. CASE res = "ok"
      <3>1. answer' = None
        BY <2>3, <2>5, NilAssumption
      <3>2. Map!Acknowledge(l)
        BY <2>1, <2>3, <2>4, <2>5, <3>1 DEF Map!Acknowledge
      <3> QED
        BY <3>2 DEF Map!Next, Map!Serve
    <2>6. CASE res \in Values
      <3>1. Map!Find(l, res)
        BY <1>4, <2>1, <2>3, <2>4, <2>6, NilAssumption DEF Map!Find
      <3> QED
        BY <2>6, <3>1 DEF Map!Next, Map!Serve
    <2>7. CASE res # "ok" /\ res \notin Values
      <3>1. Map!Fail(l)
        BY <2>3, <2>4, <2>7 DEF Map!Fail
      <3> QED
        BY <3>1 DEF Map!Next, Map!Serve
    <2> QED
      BY <2>5, <2>6, <2>7
  <1> QED
    BY <1>3, <1>4 DEF IInv, ProxyType

\* A command of the serializer that is done: the proxy's is answered, that of Migrate is no event.
LEMMA CompleteMaps ==
    ASSUME IInv, MayInv, promise, promise', IInv', adapter # "off",
           NEW i \in Item, Waits(i), NEW res, Complete(i, res),
           res = "ok" => i.cmd.op # "get",
           res \in Values => i.cmd.op = "get" /\
               (i.by = "proxy" /\ Reading(dest, i.cmd.key) => res \in may[dest])
    PROVE  [Map!Next]_(Map!vars)
  <1>1. dest \in Lambdas
    BY DEF IInv, RoleInv
  <1>2. CASE i.by = "proxy"
    <2>1. request[dest] # None /\ Answer(dest, res) /\ request[dest].cmd = i.cmd
      BY <1>2 DEF Waits, Complete
    <2>2. request[dest].live => Pending[dest] # None /\ Pending[dest] = i.cmd
      BY <1>1, <2>1, PendingFacts DEF IInv
    <2>3. res \in Values => i.cmd.op = "get" /\ (request[dest].live => res \in may[dest])
      BY <1>2, <2>2 DEF Reading
    <2> QED
      BY <1>1, <2>1, <2>3, AnswerMaps
  <1>3. CASE i.by # "proxy"
    <2>1. UNCHANGED <<request, valid, may, answer>>
      BY <1>3 DEF Complete, historyVars
    <2> QED
      BY <2>1, PendingKept, StutterMaps
  <1> QED
    BY <1>2, <1>3

\* Issue is the Issue of ChunkMap.
LEMMA IssueMaps ==
    ASSUME IInv, promise, promise', NEW l \in Lambdas, NEW c \in Command, Issue(l, c)
    PROVE  [Map!Next]_(Map!vars)
  <1>1. Map!Issue(l, c) /\ c \in Map!Command
    BY DEF Issue, Command
  <1> QED
    BY <1>1 DEF Map!Next, Map!Serve

\* Serve: a GET answers with what is in the store of a lambda that the proxy reads from.
LEMMA ServeMaps ==
    ASSUME IInv, IInv', PInv, promise, promise', NEW l \in Lambdas, Serve(l)
    PROVE  [Map!Next]_(Map!vars)
  <1>1. request[l] # None /\ request[l].cmd \in Command /\ Answer(l, Result(l, request[l].cmd))
    BY RequestFacts DEF Serve, IInv, ProxyType
  <1>2. Result(l, request[l].cmd) \in Values /\ request[l].live => Result(l, request[l].cmd) \in may[l]
    <2> SUFFICES ASSUME Result(l, request[l].cmd) \in Values, request[l].live
                 PROVE  Result(l, request[l].cmd) \in may[l]
      OBVIOUS
    <2>1. /\ request[l].cmd.op = "get" /\ Result(l, request[l].cmd) = repo[l][request[l].cmd.key]
          /\ request[l].cmd.key \in Keys
      BY <1>1, ResultFacts, CommandFacts
    <2>2. Reading(l, request[l].cmd.key)
      BY <1>1, <2>1, PendingFacts DEF Reading, IInv
    <2> QED
      BY <2>1, <2>2 DEF PInv, GetInv
  <1> QED
    BY <1>1, <1>2, ResultFacts, AnswerMaps DEF PInv

\* Disconnect: the proxy gives up on the command under way, and the client is told that it failed.
LEMMA DisconnectMaps ==
    ASSUME IInv, IInv', PInv, promise, promise', NEW l \in Lambdas, Disconnect(l)
    PROVE  [Map!Next]_(Map!vars)
  <1>1. /\ Pending'[l] = None /\ \A m \in Lambdas \ {l} : Pending'[m] = Pending[m]
        /\ may' = [may EXCEPT ![l] = {}] /\ valid' = valid
        /\ answer' = IF Pending[l] = None THEN answer ELSE None
    <2>1. \A m \in Lambdas \ {l} : request'[m] = request[m]
      BY DEF Disconnect, IInv, ProxyType
    <2>2. request'[l] = None \/ ~request'[l].live
      <3>1. CASE request[l] = None
        BY <3>1 DEF Disconnect
      <3>2. CASE request[l] # None
        <4>1. request[l] \in Request /\ request'[l] = [request[l] EXCEPT !.live = FALSE]
          BY <3>2 DEF Disconnect, IInv, ProxyType
        <4>2. [request[l] EXCEPT !.live = FALSE].live = FALSE
          BY <4>1, RequestMakers, Zenon
        <4> QED
          BY <4>1, <4>2
      <3> QED
        BY <3>1, <3>2
    <2>3. Pending'[l] = None
      BY <2>2 DEF Pending
    <2> QED
      BY <2>1, <2>3, PendingKept DEF Disconnect
  <1>2. CASE Pending[l] = None
    <2>1. may' = may
      BY <1>1, <1>2 DEF PInv, MayInv, IInv, HistoryType
    <2> QED
      BY <1>1, <1>2, <2>1, StutterMaps
  <1>3. CASE Pending[l] # None
    <2>1. Pending' = [Pending EXCEPT ![l] = None]
      BY <1>1, PendingDropped
    <2>2. Map!Fail(l)
      BY <1>1, <1>3, <2>1 DEF Map!Fail, Map!Finish
    <2> QED
      BY <2>2 DEF Map!Next, Map!Serve
  <1> QED
    BY <1>2, <1>3

\* Die: the command of a lambda that dies fails.
LEMMA DieMaps ==
    ASSUME IInv, IInv', PInv, promise, promise', NEW l \in Lambdas, Die(l)
    PROVE  [Map!Next]_(Map!vars)
  <1>1. CASE request[l] = None
    <2>1. UNCHANGED <<request, valid, may, answer>>
      BY <1>1 DEF Die, Dies, historyVars
    <2> QED
      BY <2>1, PendingKept, StutterMaps
  <1>2. CASE request[l] # None
    <2>1. Answer(l, "error")
      BY <1>2 DEF Die, Dies
    <2>2. "error" \notin Values /\ "error" # "ok"
      BY NilAssumption
    <2> QED
      BY <1>2, <2>1, <2>2, AnswerMaps DEF PInv
  <1> QED
    BY <1>1, <1>2

\* Serialize: the command waits for the adapter's goroutine, and the proxy for the command.
LEMMA SerializeMaps ==
    ASSUME IInv, IInv', promise, promise', NEW l \in Lambdas, Serialize(l)
    PROVE  [Map!Next]_(Map!vars)
  <1>1. /\ request[l] \in Request /\ request'[l] = [request[l] EXCEPT !.stage = "queued"]
        /\ \A m \in Lambdas \ {l} : request'[m] = request[m]
        /\ UNCHANGED <<valid, may, answer>>
    BY DEF Serialize, historyVars, IInv, ProxyType
  <1>2. /\ [request[l] EXCEPT !.stage = "queued"] \in Request
        /\ [request[l] EXCEPT !.stage = "queued"].cmd = request[l].cmd
        /\ [request[l] EXCEPT !.stage = "queued"].live = request[l].live
    BY <1>1, RequestMakers, Zenon
  <1>3. request'[l] # None /\ request[l] # None /\ request'[l].cmd = request[l].cmd /\ request'[l].live = request[l].live
    BY <1>1, <1>2, RequestFacts
  <1>4. \A m \in Lambdas : Pending'[m] = Pending[m]
    BY <1>1, <1>3, PendingKept DEF Pending
  <1> QED
    BY <1>1, <1>4, StutterMaps

\* The adapter's goroutine answers from the local store, or with an error.
LEMMA HereMaps ==
    ASSUME IInv, IInv', PInv, promise, promise', AnswerHere \/ SendFails
    PROVE  [Map!Next]_(Map!vars)
  <1> DEFINE i == Head(serializer)
  <1>1. NextItem
    BY DEF AnswerHere, SendFails
  <1>2. i \in Item /\ Waits(i) /\ adapter # "off" /\ i.cmd.key \in Keys /\ dest \in Lambdas
    <2>1. i \in Item /\ Waits(i) /\ adapter # "off"
      BY <1>1, HeadItem DEF NextItem, IInv
    <2>2. i.cmd \in Command
      BY <2>1, RequestFacts
    <2> QED
      BY <2>1, <2>2, CommandFacts, DestFacts
  <1>3. CASE AnswerHere
    <2>1. Complete(i, repo[dest][i.cmd.key]) /\ i.cmd.op = "get" /\ repo[dest][i.cmd.key] \in Values
      BY <1>3 DEF AnswerHere, Here, Found
    <2>2. Reading(dest, i.cmd.key) => repo[dest][i.cmd.key] \in may[dest]
      BY <1>2, <2>1 DEF PInv, GetInv
    <2>3. repo[dest][i.cmd.key] # "ok"
      BY <2>1, NilAssumption
    <2> QED
      BY <1>2, <2>1, <2>2, <2>3, CompleteMaps DEF PInv
  <1>4. CASE SendFails
    <2>1. Complete(i, "error")
      BY <1>4 DEF SendFails
    <2>2. "error" \notin Values /\ "error" # "ok"
      BY NilAssumption
    <2> QED
      BY <1>2, <2>1, <2>2, CompleteMaps DEF PInv
  <1> QED
    BY <1>3, <1>4

\* The adapter's goroutine answers with the source's reply, or that the connection is closed.
LEMMA ReplyMaps ==
    ASSUME IInv, IInv', PInv, promise, promise', ReplyError \/ ReplyDone \/ ReplyValue \/ ReplyClosed
    PROVE  [Map!Next]_(Map!vars)
  <1> DEFINE i == handling.item
  <1>1. Awaiting /\ adapter # "off"
    BY DEF ReplyError, ReplyDone, ReplyValue, ReplyClosed, NextReply, Awaiting, IInv, StageInv
  <1>2. i \in Item /\ Waits(i) /\ i.cmd.key \in Keys /\ dest \in Lambdas /\ handling # None
    BY <1>1, PipeFacts, CommandFacts, DestFacts DEF Awaiting
  <1>3. {"ok", "error", "closed"} \cap Values = {} /\ "error" # "ok" /\ "closed" # "ok"
    BY NilAssumption
  <1>4. CASE ReplyError \/ ReplyClosed
    <2>1. Complete(i, "error") \/ Complete(i, "closed")
      BY <1>4 DEF ReplyError, ReplyClosed
    <2> QED
      BY <1>1, <1>2, <1>3, <2>1, CompleteMaps DEF PInv
  <1>5. CASE ReplyDone
    <2>1. Complete(i, "ok") /\ i.cmd.op # "get"
      BY <1>5 DEF ReplyDone
    <2> QED
      BY <1>1, <1>2, <1>3, <2>1, CompleteMaps DEF PInv
  <1>6. CASE ReplyValue
    <2>1. Complete(i, Outcome) /\ i.cmd.op = "get" /\ Outcome \in Values /\ NextReply
      BY <1>6 DEF ReplyValue
    <2>2. Replied(Outcome)
      BY <2>1, ReplyFacts
    <2>3. i.by = "proxy" /\ Reading(dest, i.cmd.key) => Outcome \in may[dest]
      <3> SUFFICES ASSUME i.by = "proxy", Reading(dest, i.cmd.key)
                   PROVE  Outcome \in may[dest]
        OBVIOUS
      <3>1. current = dest
        BY <1>1, DestFacts DEF Reading
      <3>2. Somewhere(i.cmd.key, Outcome)
        BY <1>2, <2>2, <3>1 DEF Somewhere, Moving, Reachable
      <3> QED
        BY <1>2, <2>1, <3>1, <3>2 DEF PInv, GetInv
    <2>4. Outcome # "ok"
      BY <1>3, <2>1
    <2> QED
      BY <1>1, <1>2, <2>1, <2>3, <2>4, CompleteMaps DEF PInv
  <1> QED
    BY <1>4, <1>5, <1>6

\* Every step of the migration is a step of ChunkMap, or none.
LEMMA StepMaps == IInv /\ (promise => PInv) /\ [Next]_vars => [Map!Next]_(Map!vars)
  <1> SUFFICES ASSUME IInv, promise => PInv, [Next]_vars
               PROVE  [Map!Next]_(Map!vars)
    OBVIOUS
  <1>1. IInv'
    BY NextInv
  <1>2. CASE ~promise'
    BY <1>2 DEF Map!Next
  <1>3. CASE promise'
    <2>1. promise /\ PInv
      BY <1>3, PromiseOnce
    <2>2. ASSUME NEW l \in Lambdas, NEW c \in Command, Issue(l, c)
          PROVE  [Map!Next]_(Map!vars)
      BY <1>3, <2>1, <2>2, IssueMaps
    <2>3. ASSUME NEW l \in Lambdas, Serve(l) \/ Serialize(l) \/ Disconnect(l) \/ Die(l)
          PROVE  [Map!Next]_(Map!vars)
      BY <1>1, <1>3, <2>1, <2>3, ServeMaps, SerializeMaps, DisconnectMaps, DieMaps
    <2>4. CASE AnswerHere \/ SendFails
      BY <1>1, <1>3, <2>1, <2>4, HereMaps
    <2>5. CASE ReplyError \/ ReplyDone \/ ReplyValue \/ ReplyClosed
      BY <1>1, <1>3, <2>1, <2>5, ReplyMaps
    <2>6. CASE UNCHANGED <<request, valid, may, answer>>
      BY <1>1, <2>1, <2>6, PendingKept, StutterMaps
    <2>7. ASSUME NEW l \in Lambdas, NEW d \in Lambdas,
                 EndConnection(l) \/ Join(l) \/ Migrate(l, d) \/ Sleep(l) \/ Invoke(l)
          PROVE  UNCHANGED <<request, valid, may, answer>>
      BY <2>7 DEF EndConnection, Join, Migrate, Sleep, Invoke, proxyVars, historyVars
    <2>8. Hello \/ HelloFailed \/ MHello \/ ServeForwarded \/ EndServing \/ LinkFails
            => UNCHANGED <<request, valid, may, answer>>
      BY DEF Hello, HelloFailed, MHello, ServeForwarded, EndServing, LinkFails, proxyVars,
         historyVars
    <2>9. Forward \/ StoreCopy \/ AdapterEnds => UNCHANGED <<request, valid, may, answer>>
      BY DEF Forward, StoreCopy, AdapterEnds, proxyVars, historyVars
    <2>10. ~ReplyPanic
      BY <1>3 DEF ReplyPanic
    <2>11. Copy => UNCHANGED <<request, valid, may, answer>>
      BY DEF Copy, ReadList, ReadFails, EndMigration, Close, Restore, LocalDel, MigrateKey,
         proxyVars,
         historyVars
    <2>12. UNCHANGED vars => UNCHANGED <<request, valid, may, answer>>
      BY DEF vars, proxyVars, historyVars
    <2> QED
      BY <2>2, <2>3, <2>4, <2>5, <2>6, <2>7, <2>8, <2>9, <2>10, <2>11, <2>12 DEF Next, Adapter
  <1> QED
    BY <1>2, <1>3

\* Implements: whichever lambda the proxy uses, whatever fails and however the migration, the
\* adapter and the commands interleave, a GET finds only what the promise of ChunkMap allows.
THEOREM Refinement == Spec => Implements
  <1>1. Init => Map!Init
    BY DEF Init, Map!Init, Pending
  <1>2. IInv /\ (promise => PInv) /\ [Next]_vars => [Map!Next]_(Map!vars)
    BY StepMaps
  <1> QED
    BY <1>1, <1>2, Inductive, PromiseInductive, PTL DEF Spec, Implements, Map!Spec

\* EndMeansCopied: at "End migration" on an open connection the destination has every chunk the
\* source has, but for the keys deleted in the list and the one in the adapter's hands.
THEOREM EndCopied == Spec => EndMeansCopied
  <1> DEFINE Copied == \A k \in Keys \ list.del :
                          Found(source, k) /\ (handling = None \/ handling.item.cmd.key # k)
                              => repo[dest][k] = repo[source][k]
  <1>1. IInv /\ (promise => PInv) => (EndMigration /\ link = "open" /\ promise => Copied)
    <2> SUFFICES ASSUME PInv, EndMigration, link = "open", NEW k \in Keys \ list.del, Found(source, k),
                        handling = None \/ handling.item.cmd.key # k
                 PROVE  repo[dest][k] = repo[source][k]
      OBVIOUS
    <2>1. ~Changing(k) /\ mpc = "loop" /\ k \notin list.del \cup todo.get
      BY DEF Changing, EndMigration
    <2> QED
      BY <2>1 DEF PInv, CopyInv
  <1>2. IInv /\ (promise => PInv) /\ [Next]_vars => [EndMigration /\ link = "open" /\ promise => Copied]_vars
    BY <1>1
  <1> QED
    BY <1>2, Inductive, PromiseInductive, PTL DEF Spec, EndMeansCopied
=============================================================================
