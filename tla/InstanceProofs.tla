--------------------------- MODULE InstanceProofs ---------------------------
(***************************************************************************)
(* Invariance proofs for Instance, for any number of connections, requests *)
(* and invocations and any MAX_RETRY, and the proof that it implements     *)
(* RequestReply.                                                           *)
(***************************************************************************)
EXTENDS Instance, TLAPS

\* A validation under way has not been told yet, or there is a result.
Validating(v) == pc[v] \in {"check", "try", "flag", "flagging", "ping", "pinged", "await"}

NilInv ==
    /\ awake # "sleep" => cn # None
    /\ \A v \in Validators : /\ pc[v] \in {"flag", "flagging", "ping", "pinged"} => cn # None
                             /\ pc[v] = "flagging" => conn[v] # None
                             /\ Validating(v) => validating \/ lastValidated # None
    /\ pc["handler"] # "ended"

\* HandleRequests has a request from the moment the proxy is ready, and a connection when it
\* sends the request.
HandlerInv ==
    /\ pc["init"] \notin {"idle", "push", "flush"}
    /\ chanReq # None => pc["init"] = "ended"
    /\ pc["handler"] # "idle" /\ ~warm => pc["init"] = "ended" /\ req # None
    /\ pc["handler"] \in {"flag", "flagging"} => warm
    /\ pc["handler"] \in {"push", "flush"} => ~warm /\ conn["handler"] # None
    /\ pc["handler"] = "validated" /\ ~warm => lastValidated # None

\* A connection opens once, and is served until it is closed.
LifeInv ==
    \A x \in Conns :
        /\ serve[x] = "off" <=> socket[x] = "none"
        /\ serve[x] = "off" <=> life[x] = "absent"
        /\ serve[x] \in {"clear", "ended"} =>
            /\ socket[x] = "closed" /\ life[x] = "dead"
            /\ toLambda[x] = <<>> /\ fromLambda[x] = <<>>

\* HandleRequests is about to write the request to connection x.
Flushing(x) == pc["handler"] = "flush" /\ conn["handler"] = x

\* The requests on the way to a lambda, and the responses on the way back.
Sent(to) == {i \in 1 .. Len(to) : to[i] # "ping"}
Replied(from) == {i \in 1 .. Len(from) : from[i].type \in {"response", "error"}}
Empty(to, from) == Sent(to) = {} /\ Replied(from) = {}

\* At most one request is on its way or answered, the one that waits.
InOrder(to, from, wait) ==
    /\ \A i \in Sent(to) : to[i] = wait
    /\ \A i \in Replied(from) : from[i].req = wait
    /\ \A i, j \in Sent(to) : i = j
    /\ \A i, j \in Replied(from) : i = j
    /\ Sent(to) = {} \/ Replied(from) = {}

\* And none before it is written.
OrderInv ==
    \A x \in Conns : /\ InOrder(toLambda[x], fromLambda[x], chanWait[x])
                     /\ Flushing(x) => Empty(toLambda[x], fromLambda[x])

\* A request that is about to be written is in chanWait, unless ServeLambda has answered it.
PushedInv ==
    \A x \in Conns : Flushing(x) =>
        \/ chanWait[x] = req
        \/ chanWait[x] = None /\ serve[x] = "ended" /\ status[req] # "waiting"

\* No request arrives twice.
ArrivedInv == \A r \in {chanReq, req} \ {None} : status[r] # "new"

NoneMissing == \A r \in Requests : status[r] # "missing"

\* The types, by component.
InsType ==
    /\ cn \in Conns \cup {None} /\ awake \in {"sleep", "awake", "maybe"}
    /\ validating \in BOOLEAN /\ lastValidated \in Conns \cup {None}

HandlerType ==
    /\ chanReq \in Requests \cup {None}
    /\ pc \in [Validators -> Labels]
    /\ conn \in [Validators -> Conns \cup {None}]
    /\ warm \in BOOLEAN
    /\ req \in Requests \cup {None}
    /\ attempt \in 0 .. retries /\ retries \in {0, 1, MAX_RETRY}
    /\ timeouts \in 0 .. MaxTimeouts

ConnType ==
    /\ signalled \in [Conns -> BOOLEAN] /\ bound \in [Conns -> BOOLEAN]
    /\ socket \in [Conns -> {"none", "open", "closed"}]
    /\ chanWait \in [Conns -> Requests \cup {None}]
    /\ serve \in [Conns -> {"off", "select", "drain", "close", "clear", "ended"}]

ReqType ==
    /\ status \in [Requests -> {"new", "waiting", "answered", "error", "missing"}]
    /\ streamingStarted \in [Requests -> BOOLEAN]

LambdaType ==
    /\ trigger \in [Triggers -> {"off", "invoke", "returned", "sleep"} \cup Conns]
    /\ life \in [Conns -> {"absent", "running", "idle", "dead"}]
    /\ toLambda \in [Conns -> Seq(Requests \cup {"ping"})]
    /\ fromLambda \in [Conns -> Seq(Messages)]

IInv ==
    /\ InsType /\ HandlerType /\ ConnType /\ ReqType /\ LambdaType
    /\ NilInv /\ HandlerInv /\ LifeInv /\ OrderInv /\ PushedInv /\ ArrivedInv
    /\ NoneMissing /\ Tracked

-----------------------------------------------------------------------------
\* Lambdas say pong, bye and eof, and answer requests.
LEMMA MessageFacts ==
    /\ \A type \in {"pong", "bye", "eof"} : Message(type, None) \in Messages
    /\ \A type \in {"response", "error"}, r \in Requests : Message(type, r) \in Messages
    /\ \A type, r : Message(type, r).type = type /\ Message(type, r).req = r
    /\ \A m \in Messages : m.type \in {"response", "error"} => m.req \in Requests
  <1>1. \A type, r : Message(type, r).type = type /\ Message(type, r).req = r
    BY DEF Message
  <1>2. \A m \in Messages : m.type \in {"response", "error"} => m.req \in Requests
    BY <1>1 DEF Messages
  <1> QED
    BY <1>1, <1>2 DEF Messages

\* A message that is no request and no response changes nothing.
LEMMA AppendOther ==
    ASSUME NEW to \in Seq(Requests \cup {"ping"}), NEW from \in Seq(Messages), NEW wait,
           InOrder(to, from, wait)
    PROVE  /\ InOrder(Append(to, "ping"), from, wait)
           /\ Empty(to, from) => Empty(Append(to, "ping"), from)
           /\ \A m \in Messages : m.type \notin {"response", "error"} =>
               InOrder(to, Append(from, m), wait) /\ (Empty(to, from) => Empty(to, Append(from, m)))
  <1>1. Sent(Append(to, "ping")) = Sent(to) /\ \A i \in Sent(to) : Append(to, "ping")[i] = to[i]
    BY DEF Sent
  <1>2. ASSUME NEW m \in Messages, m.type \notin {"response", "error"}
        PROVE  Replied(Append(from, m)) = Replied(from) /\ \A i \in Replied(from) : Append(from, m)[i] = from[i]
    BY <1>2 DEF Replied
  <1> QED
    BY <1>1, <1>2 DEF InOrder, Empty

\* The same when it is read, at the other end.
LEMMA ReadOther ==
    ASSUME NEW to \in Seq(Requests \cup {"ping"}), NEW from \in Seq(Messages), NEW wait, InOrder(to, from, wait)
    PROVE  /\ to # <<>> /\ Head(to) = "ping" =>
               InOrder(Tail(to), from, wait) /\ (Empty(to, from) => Empty(Tail(to), from))
           /\ from # <<>> /\ Head(from).type \notin {"response", "error"} =>
               InOrder(to, Tail(from), wait) /\ (Empty(to, from) => Empty(to, Tail(from)))
  <1>1. ASSUME to # <<>>
        PROVE  \A i \in Sent(Tail(to)) : i + 1 \in Sent(to) /\ i \in Nat /\ Tail(to)[i] = to[i + 1]
    BY <1>1 DEF Sent
  <1>2. ASSUME from # <<>>
        PROVE  \A i \in Replied(Tail(from)) : i + 1 \in Replied(from) /\ i \in Nat /\ Tail(from)[i] = from[i + 1]
    BY <1>2 DEF Replied
  <1>3. ASSUME to # <<>>, Head(to) = "ping"
        PROVE  InOrder(Tail(to), from, wait) /\ (Empty(to, from) => Empty(Tail(to), from))
    <2>1. \A i, j \in Sent(Tail(to)) : i = j
      <3>1. \A i, j \in Sent(Tail(to)) : i + 1 = j + 1
        BY <1>1, <1>3 DEF InOrder
      <3> QED
        BY <1>1, <1>3, <3>1
    <2> QED
      BY <1>1, <1>3, <2>1 DEF InOrder, Empty
  <1>4. ASSUME from # <<>>
        PROVE  InOrder(to, Tail(from), wait) /\ (Empty(to, from) => Empty(to, Tail(from)))
    <2>1. \A i, j \in Replied(Tail(from)) : i = j
      <3>1. \A i, j \in Replied(Tail(from)) : i + 1 = j + 1
        BY <1>2, <1>4 DEF InOrder
      <3> QED
        BY <1>2, <1>4, <3>1
    <2>2. Empty(to, from) => Empty(to, Tail(from))
      BY <1>2, <1>4 DEF Empty
    <2>3. Sent(to) = {} \/ Replied(Tail(from)) = {}
      BY <1>2, <1>4 DEF InOrder
    <2>4. ASSUME NEW i \in Replied(Tail(from)) PROVE Tail(from)[i].req = wait
      <3>1. i + 1 \in Replied(from) /\ Tail(from)[i] = from[i + 1]
        BY <1>2, <1>4
      <3> QED
        BY <3>1 DEF InOrder
    <2> QED
      BY <2>1, <2>2, <2>3, <2>4 DEF InOrder
  <1> QED
    BY <1>3, <1>4

\* The request that waits is written.
LEMMA SendInOrder ==
    ASSUME NEW to \in Seq(Requests \cup {"ping"}), NEW from \in Seq(Messages), NEW wait \in Requests, Empty(to, from)
    PROVE  InOrder(Append(to, wait), from, wait)
  <1>1. Append(to, wait)[Len(to) + 1] = wait /\ \A i \in 1 .. Len(to) : Append(to, wait)[i] = "ping"
    BY DEF Sent, Empty
  <1>2. Sent(Append(to, wait)) \subseteq {Len(to) + 1}
    BY <1>1 DEF Sent
  <1> QED
    BY <1>1, <1>2 DEF InOrder, Empty

\* It is answered.
LEMMA AnswerInOrder ==
    ASSUME NEW to \in Seq(Requests \cup {"ping"}), NEW from \in Seq(Messages), NEW wait, InOrder(to, from, wait),
           to # <<>>, Head(to) # "ping", NEW m \in Messages, m.type \in {"response", "error"}, m.req = Head(to)
    PROVE  InOrder(Tail(to), Append(from, m), wait) /\ Head(to) = wait
  <1>1. 1 \in Sent(to) /\ Head(to) = wait
    BY DEF Sent, InOrder
  <1>2. \A i \in Sent(Tail(to)) : i + 1 \in Sent(to) /\ i \in Nat \ {0}
    BY DEF Sent
  <1>3. Sent(Tail(to)) = {}
    <2>1. \A i \in Sent(Tail(to)) : i + 1 = 1
      BY <1>1, <1>2 DEF InOrder
    <2> QED
      BY <1>2, <2>1
  <1>4. Replied(from) = {}
    BY <1>1 DEF InOrder
  <1>5. Replied(Append(from, m)) = {Len(from) + 1} /\ Append(from, m)[Len(from) + 1] = m
    BY <1>4 DEF Replied
  <1> QED
    BY <1>1, <1>3, <1>5 DEF InOrder

\* The response is read: it is that of the request that waits, and the only one.
LEMMA ReadInOrder ==
    ASSUME NEW to \in Seq(Requests \cup {"ping"}), NEW from \in Seq(Messages), NEW wait, InOrder(to, from, wait),
           from # <<>>, Head(from).type \in {"response", "error"}
    PROVE  /\ Head(from).req = wait
           /\ ~Empty(to, from)
           /\ Empty(to, Tail(from))
           /\ \A w : InOrder(to, Tail(from), w)
  <1>1. 1 \in Replied(from) /\ Head(from).req = wait
    BY DEF Replied, InOrder
  <1>2. \A i \in Replied(Tail(from)) : i + 1 \in Replied(from) /\ i \in Nat \ {0}
    BY DEF Replied
  <1>3. Replied(Tail(from)) = {}
    <2>1. \A i \in Replied(Tail(from)) : i + 1 = 1
      BY <1>1, <1>2 DEF InOrder
    <2> QED
      BY <1>2, <2>1
  <1> QED
    BY <1>1, <1>3 DEF InOrder, Empty

\* A connection that is empty is in order, and one that lost what was on its way is empty.
LEMMA EmptyInOrder ==
    /\ \A to, from, wait : Empty(to, from) => InOrder(to, from, wait)
    /\ Sent(<<>>) = {} /\ Replied(<<>>) = {}
  BY DEF Empty, InOrder, Sent, Replied

\* Steps of others than HandleRequests when it flushes.
LEMMA OrderSame ==
    ASSUME OrderInv, UNCHANGED <<toLambda, fromLambda, chanWait>>,
           \A x \in Conns : Flushing(x)' => Flushing(x)
    PROVE  OrderInv'
  BY DEF OrderInv

\* Connection x changes, the others do not.
LEMMA OrderAt ==
    ASSUME OrderInv, NEW x \in Conns,
           \A y \in Conns \ {x} : /\ toLambda'[y] = toLambda[y] /\ fromLambda'[y] = fromLambda[y]
                                  /\ chanWait'[y] = chanWait[y] /\ (Flushing(y)' => Flushing(y)),
           InOrder(toLambda'[x], fromLambda'[x], chanWait'[x]),
           Flushing(x)' => Empty(toLambda'[x], fromLambda'[x])
    PROVE  OrderInv'
  BY DEF OrderInv

\* Lambda x says something that is no response,
LEMMA OtherSaid ==
    ASSUME OrderInv, LambdaType, NEW x \in Conns, NEW type \in {"pong", "bye", "eof"},
           fromLambda' = [fromLambda EXCEPT ![x] = Append(@, Message(type, None))],
           toLambda' \in {toLambda, [toLambda EXCEPT ![x] = <<>>]},
           UNCHANGED <<chanWait, pc, conn>>
    PROVE  OrderInv'
  <1> DEFINE m == Message(type, None)
  <1>1. m \in Messages /\ m.type \notin {"response", "error"}
    BY MessageFacts
  <1> HIDE DEF m
  <1>2. toLambda[x] \in Seq(Requests \cup {"ping"}) /\ fromLambda[x] \in Seq(Messages)
    BY DEF LambdaType
  <1>3. /\ fromLambda'[x] = Append(fromLambda[x], m)
        /\ \A y \in Conns \ {x} : toLambda'[y] = toLambda[y] /\ fromLambda'[y] = fromLambda[y]
    BY DEF LambdaType, m
  <1>4. toLambda'[x] \in {toLambda[x], <<>>}
    BY DEF LambdaType
  <1>5. /\ InOrder(toLambda'[x], fromLambda[x], chanWait[x])
        /\ Flushing(x) => Empty(toLambda'[x], fromLambda[x])
    BY <1>4, EmptyInOrder DEF OrderInv, InOrder, Empty
  <1>6. toLambda'[x] \in Seq(Requests \cup {"ping"})
    <2>1. <<>> \in Seq(Requests \cup {"ping"})
      OBVIOUS
    <2> QED
      BY <1>2, <1>4, <2>1, Zenon
  <1>7. /\ InOrder(toLambda'[x], Append(fromLambda[x], m), chanWait[x])
        /\ Flushing(x) => Empty(toLambda'[x], Append(fromLambda[x], m))
    BY <1>1, <1>2, <1>5, <1>6, AppendOther
  <1> QED
    BY <1>3, <1>7, OrderAt DEF Flushing

\* and ServeLambda reads it.
LEMMA OtherRead ==
    ASSUME OrderInv, LambdaType, NEW x \in Conns,
           fromLambda[x] # <<>>, Head(fromLambda[x]).type \notin {"response", "error"},
           fromLambda' = [fromLambda EXCEPT ![x] = Tail(@)],
           UNCHANGED <<toLambda, chanWait, pc, conn>>
    PROVE  OrderInv'
  <1>1. /\ fromLambda'[x] = Tail(fromLambda[x])
        /\ \A y \in Conns \ {x} : fromLambda'[y] = fromLambda[y]
        /\ toLambda[x] \in Seq(Requests \cup {"ping"}) /\ fromLambda[x] \in Seq(Messages)
    BY DEF LambdaType
  <1>2. /\ InOrder(toLambda[x], fromLambda[x], chanWait[x])
        /\ Flushing(x) => Empty(toLambda[x], fromLambda[x])
    BY DEF OrderInv
  <1>3. /\ InOrder(toLambda[x], Tail(fromLambda[x]), chanWait[x])
        /\ Flushing(x) => Empty(toLambda[x], Tail(fromLambda[x]))
    BY <1>1, <1>2, ReadOther
  <1> QED
    BY <1>1, <1>3, OrderAt DEF Flushing

\* ServeLambda reads a response, which is the one the request in chanWait waits for.
LEMMA ReplyRead ==
    ASSUME OrderInv, LambdaType, ConnType, NEW x \in Conns,
           fromLambda[x] # <<>>, Head(fromLambda[x]).type \in {"response", "error"}
    PROVE  /\ Head(fromLambda[x]).req = chanWait[x]
           /\ ~Flushing(x)
           /\ fromLambda' = [fromLambda EXCEPT ![x] = Tail(@)]
              /\ chanWait' \in {chanWait, [chanWait EXCEPT ![x] = None]}
              /\ UNCHANGED <<toLambda, pc, conn>>
              => OrderInv'
  <1>1. toLambda[x] \in Seq(Requests \cup {"ping"}) /\ fromLambda[x] \in Seq(Messages)
    BY DEF LambdaType
  <1>2. /\ InOrder(toLambda[x], fromLambda[x], chanWait[x])
        /\ Flushing(x) => Empty(toLambda[x], fromLambda[x])
    BY DEF OrderInv
  <1>3. /\ Head(fromLambda[x]).req = chanWait[x]
        /\ ~Flushing(x)
        /\ \A w : InOrder(toLambda[x], Tail(fromLambda[x]), w)
    BY <1>1, <1>2, ReadInOrder
  <1>4. ASSUME fromLambda' = [fromLambda EXCEPT ![x] = Tail(@)],
               chanWait' \in {chanWait, [chanWait EXCEPT ![x] = None]},
               UNCHANGED <<toLambda, pc, conn>>
        PROVE  OrderInv'
    <2>1. /\ fromLambda'[x] = Tail(fromLambda[x])
          /\ \A y \in Conns \ {x} : fromLambda'[y] = fromLambda[y] /\ chanWait'[y] = chanWait[y]
      BY <1>4 DEF LambdaType, ConnType
    <2> QED
      BY <1>3, <1>4, <2>1, OrderAt DEF Flushing
  <1> QED
    BY <1>3, <1>4

\* Lambda x answers the next message.
LEMMA Answered ==
    ASSUME OrderInv, LambdaType, NEW x \in Conns, toLambda[x] # <<>>,
           toLambda' = [toLambda EXCEPT ![x] = Tail(@)],
           NEW m \in Messages, fromLambda' = [fromLambda EXCEPT ![x] = Append(@, m)],
           IF Head(toLambda[x]) = "ping" THEN m.type = "pong"
           ELSE m.type \in {"response", "error"} /\ m.req = Head(toLambda[x]),
           UNCHANGED <<chanWait, pc, conn>>
    PROVE  OrderInv'
  <1>1. /\ toLambda'[x] = Tail(toLambda[x]) /\ fromLambda'[x] = Append(fromLambda[x], m)
        /\ \A y \in Conns \ {x} : toLambda'[y] = toLambda[y] /\ fromLambda'[y] = fromLambda[y]
        /\ toLambda[x] \in Seq(Requests \cup {"ping"}) /\ fromLambda[x] \in Seq(Messages)
        /\ Tail(toLambda[x]) \in Seq(Requests \cup {"ping"})
    BY DEF LambdaType
  <1>2. /\ InOrder(toLambda[x], fromLambda[x], chanWait[x])
        /\ Flushing(x) => Empty(toLambda[x], fromLambda[x])
    BY DEF OrderInv
  <1>3. CASE Head(toLambda[x]) = "ping"
    <2>1. /\ InOrder(Tail(toLambda[x]), fromLambda[x], chanWait[x])
          /\ Flushing(x) => Empty(Tail(toLambda[x]), fromLambda[x])
      BY <1>1, <1>2, <1>3, ReadOther
    <2>2. /\ InOrder(Tail(toLambda[x]), Append(fromLambda[x], m), chanWait[x])
          /\ Flushing(x) => Empty(Tail(toLambda[x]), Append(fromLambda[x], m))
      <3>1. m.type \notin {"response", "error"}
        BY <1>3
      <3> QED
        BY <1>1, <2>1, <3>1, AppendOther
    <2> QED
      BY <1>1, <2>2, OrderAt DEF Flushing
  <1>4. CASE Head(toLambda[x]) # "ping"
    <2>1. InOrder(Tail(toLambda[x]), Append(fromLambda[x], m), chanWait[x])
      <3>1. m.type \in {"response", "error"} /\ m.req = Head(toLambda[x])
        BY <1>4
      <3> QED
        BY <1>1, <1>2, <1>4, <3>1, AnswerInOrder
    <2>2. 1 \in Sent(toLambda[x])
      BY <1>1, <1>4 DEF Sent
    <2>3. ~Flushing(x)
      BY <1>2, <2>2 DEF Empty
    <2> QED
      BY <1>1, <2>1, <2>3, OrderAt DEF Flushing
  <1> QED
    BY <1>3, <1>4

\* A ping is written to connection x.
LEMMA Pinged ==
    ASSUME OrderInv, LambdaType, NEW x \in Conns,
           toLambda' = [toLambda EXCEPT ![x] = Append(@, "ping")],
           UNCHANGED <<fromLambda, chanWait>>, \A y \in Conns : Flushing(y)' => Flushing(y)
    PROVE  OrderInv'
  <1>1. /\ toLambda'[x] = Append(toLambda[x], "ping")
        /\ \A y \in Conns \ {x} : toLambda'[y] = toLambda[y]
        /\ toLambda[x] \in Seq(Requests \cup {"ping"}) /\ fromLambda[x] \in Seq(Messages)
    BY DEF LambdaType
  <1>2. /\ InOrder(toLambda[x], fromLambda[x], chanWait[x])
        /\ Flushing(x) => Empty(toLambda[x], fromLambda[x])
    BY DEF OrderInv
  <1>3. /\ InOrder(toLambda'[x], fromLambda[x], chanWait[x])
        /\ Flushing(x) => Empty(toLambda'[x], fromLambda[x])
    BY <1>1, <1>2, AppendOther
  <1> QED
    BY <1>1, <1>3, OrderAt

\* Steps that do not touch the request that is about to be written,
LEMMA PushedSame ==
    ASSUME PushedInv, UNCHANGED <<chanWait, req, status, serve>>,
           \A x \in Conns : Flushing(x)' => Flushing(x)
    PROVE  PushedInv'
  BY DEF PushedInv

\* nor where requests are.
LEMMA TrackedSame ==
    ASSUME Tracked, UNCHANGED <<status, chanReq, req, warm, chanWait, serve>>,
           pc["handler"] # "idle" /\ ~warm => pc'["handler"] # "idle"
    PROVE  Tracked'
  BY DEF Tracked

-----------------------------------------------------------------------------
\* A request arrives.
LEMMA ArriveStep ==
    ASSUME IInv, NEW r \in Requests, Arrive(r)
    PROVE  IInv'
  <1> USE DEF IInv, Arrive, insVars, handlerVars, connVars, lambdaVars
  <1>1. HandlerType'
    BY DEF HandlerType, Labels, Validators, InsType, HandlerInv
  <1>2. ReqType'
    BY DEF ReqType, HandlerType
  <1>3. HandlerInv'
    BY DEF HandlerInv, Validators, InsType, HandlerType, NilInv
  <1>4. PushedInv'
    <2>1. req # r \/ req = None
      BY DEF ArrivedInv
    <2>2. ASSUME NEW x \in Conns, Flushing(x) PROVE req \in Requests
      BY <2>2 DEF HandlerInv, HandlerType, Flushing
    <2> QED
      BY <2>1, <2>2, InstanceAssumption DEF PushedInv, Flushing, ReqType
  <1>5. ArrivedInv'
    BY DEF ArrivedInv, HandlerType, ReqType, ConnType
  <1>6. NoneMissing'
    BY DEF NoneMissing, ReqType, ConnType
  <1>7. Tracked'
    BY InstanceAssumption DEF Tracked, HandlerType, ConnType, ReqType
  <1>8. (InsType /\ ConnType /\ LambdaType /\ NilInv /\ LifeInv /\ OrderInv)'
    BY DEF InsType, ConnType, LambdaType, NilInv, Validating, LifeInv, OrderInv, Flushing,
       Sent, Replied
  <1> QED
    BY <1>1, <1>2, <1>3, <1>4, <1>5, <1>6, <1>7, <1>8

\* HandleRequests takes it.
LEMMA TakeStep ==
    ASSUME IInv, Take
    PROVE  IInv'
  <1> USE DEF IInv, Take, Retriable, Goto, insVars, connVars, reqVars, lambdaVars
  <1>1. \A y \in Conns : ~Flushing(y)'
    BY DEF HandlerType, Validators, Flushing
  <1>2. HandlerType'
    <2>1. attempt' \in 0 .. retries' /\ retries' \in {0, 1, MAX_RETRY}
      BY BoundAssumption
    <2> QED
      BY <2>1 DEF HandlerType, Labels, Validators
  <1>3. NilInv'
    BY DEF NilInv, Validating, Validators, InsType, HandlerType, HandlerInv
  <1>4. HandlerInv'
    BY DEF HandlerInv, Validators, InsType, HandlerType, NilInv
  <1>5. OrderInv'
    BY <1>1, OrderSame
  <1>6. PushedInv'
    BY <1>1 DEF PushedInv
  <1>7. ArrivedInv'
    BY DEF ArrivedInv, HandlerType, ReqType, ConnType
  <1>8. Tracked'
    BY DEF Tracked, HandlerType, Validators
  <1>9. (InsType /\ ConnType /\ ReqType /\ LambdaType /\ LifeInv /\ NoneMissing)'
    BY DEF InsType, ConnType, ReqType, LambdaType, LifeInv, NoneMissing
  <1> QED
    BY <1>2, <1>3, <1>4, <1>5, <1>6, <1>7, <1>8, <1>9

\* The cool-down timer starts a warm-up.
LEMMA CoolStep ==
    ASSUME IInv, Cool
    PROVE  IInv'
  <1> USE DEF IInv, Cool, Goto, insVars, connVars, reqVars, lambdaVars
  <1>1. \A y \in Conns : Flushing(y)' => Flushing(y)
    BY DEF HandlerType, Validators, Flushing
  <1>2. HandlerType'
    BY DEF HandlerType, Labels, Validators, InsType, HandlerInv
  <1>3. NilInv'
    BY DEF NilInv, Validating, Validators, InsType, HandlerType, HandlerInv
  <1>4. HandlerInv'
    BY DEF HandlerInv, Validators, InsType, HandlerType, NilInv
  <1>5. OrderInv'
    BY <1>1, OrderSame
  <1>6. PushedInv'
    BY DEF PushedInv, Flushing, ConnType, HandlerType, ReqType
  <1>7. Tracked'
    BY DEF Tracked, HandlerType, ConnType, ReqType
  <1>8. (InsType /\ ConnType /\ ReqType /\ LambdaType /\ LifeInv /\ ArrivedInv /\ NoneMissing)'
    BY DEF InsType, ConnType, ReqType, LambdaType, LifeInv, ArrivedInv, NoneMissing
  <1> QED
    BY <1>2, <1>3, <1>4, <1>5, <1>6, <1>7, <1>8

\* The request is put into chanWait, which was empty.
LEMMA PushStep ==
    ASSUME IInv, Push
    PROVE  IInv'
  <1> USE DEF IInv, Push, Consumed, Goto, insVars, handlerVars, reqVars, lambdaVars
  <1> DEFINE x == conn["handler"]
  <1>1. /\ x \in Conns /\ req \in Requests /\ chanWait[x] = None
        /\ \A y \in Conns : Flushing(y)' => y = x
        /\ \A y \in Conns : chanWait'[y] = IF y = x THEN req ELSE chanWait[y]
    BY DEF HandlerType, HandlerInv, ConnType, Validators, Flushing
  <1>2. HandlerType'
    BY DEF HandlerType, Labels, Validators, InsType, HandlerInv
  <1>3. ConnType'
    BY DEF ConnType, HandlerType
  <1>4. NilInv'
    BY DEF NilInv, Validating, Validators, InsType, HandlerType, HandlerInv
  <1>5. HandlerInv'
    BY DEF HandlerInv, Validators, InsType, HandlerType, NilInv
  <1>6. OrderInv'
    <2>1. Empty(toLambda[x], fromLambda[x])
      <3>1. toLambda[x] \in Seq(Requests \cup {"ping"}) /\ fromLambda[x] \in Seq(Messages)
        BY <1>1 DEF LambdaType
      <3>2. \A i \in Sent(toLambda[x]) : toLambda[x][i] \in Requests
        BY <3>1 DEF Sent
      <3>3. \A i \in Replied(fromLambda[x]) : fromLambda[x][i].req \in Requests
        BY <3>1, MessageFacts DEF Replied
      <3>4. InOrder(toLambda[x], fromLambda[x], None)
        BY <1>1 DEF OrderInv
      <3> QED
        BY <3>2, <3>3, <3>4, InstanceAssumption DEF InOrder, Empty
    <2>2. InOrder(toLambda[x], fromLambda[x], chanWait'[x])
      BY <2>1, EmptyInOrder
    <2> QED
      BY <1>1, <2>1, <2>2, OrderAt
  <1>7. PushedInv'
    BY DEF PushedInv, Flushing, ConnType, HandlerType, ReqType
  <1>8. Tracked'
    BY InstanceAssumption DEF Tracked, HandlerType, ConnType, ReqType
  <1>9. (InsType /\ ReqType /\ LambdaType /\ LifeInv /\ ArrivedInv /\ NoneMissing)'
    BY DEF InsType, ReqType, LambdaType, LifeInv, ArrivedInv, NoneMissing
  <1> QED
    BY <1>2, <1>3, <1>4, <1>5, <1>6, <1>7, <1>8, <1>9

\* It is written: from now on it is the connection's.
LEMMA FlushStep ==
    ASSUME IInv, Flush
    PROVE  IInv'
  <1> USE DEF IInv, Flush, IterationEnds, Goto, insVars, connVars
  <1> DEFINE x == conn["handler"]
  <1>1. /\ x \in Conns /\ req \in Requests
        /\ Flushing(x) /\ \A y \in Conns : ~Flushing(y)'
        /\ pc'["handler"] = "idle"
    BY DEF HandlerType, HandlerInv, Validators, Flushing
  <1>2. HandlerType'
    BY DEF HandlerType, Labels, Validators, InsType, HandlerInv
  <1>3. ReqType'
    BY <1>1 DEF ReqType
  <1>4. LambdaType'
    BY <1>1 DEF LambdaType
  <1>5. NilInv'
    BY DEF NilInv, Validating, Validators, InsType, HandlerType, HandlerInv
  <1>6. HandlerInv'
    BY DEF HandlerInv, Validators, InsType, HandlerType, NilInv
  <1>7. LifeInv'
    BY DEF LifeInv, ConnType, LambdaType
  <1>8. OrderInv'
    <2>1. \A y \in Conns \ {x} : toLambda'[y] = toLambda[y]
      BY DEF LambdaType
    <2>2. toLambda[x] \in Seq(Requests \cup {"ping"}) /\ fromLambda[x] \in Seq(Messages)
      BY <1>1 DEF LambdaType
    <2>3. Empty(toLambda[x], fromLambda[x]) /\ InOrder(toLambda[x], fromLambda[x], chanWait[x])
      BY <1>1 DEF OrderInv
    <2>4. chanWait[x] = req
      BY <1>1 DEF PushedInv, LifeInv
    <2>5. toLambda'[x] \in {toLambda[x], Append(toLambda[x], req)}
      BY <1>1 DEF LambdaType
    <2>6. InOrder(toLambda'[x], fromLambda[x], chanWait[x])
      BY <1>1, <2>2, <2>3, <2>4, <2>5, SendInOrder, InstanceAssumption
    <2> QED
      BY <1>1, <2>1, <2>6, OrderAt
  <1>9. PushedInv'
    BY <1>1 DEF PushedInv
  <1>10. ArrivedInv'
    BY DEF ArrivedInv, HandlerType, ReqType, ConnType
  <1>11. Tracked'
    <2>1. serve[x] \notin {"off", "ended"} /\ chanWait[x] = req
      BY <1>1 DEF LifeInv, PushedInv
    <2> QED
      BY <1>1, <2>1 DEF Tracked
  <1>12. (InsType /\ ConnType /\ NoneMissing)'
    BY DEF InsType, ConnType, NoneMissing
  <1> QED
    BY <1>2, <1>3, <1>4, <1>5, <1>6, <1>7, <1>8, <1>9, <1>10, <1>11, <1>12

\* It cannot be written: it is taken back, and tried again or answered.
LEMMA FlushFailedStep ==
    ASSUME IInv, FlushFailed
    PROVE  IInv'
  <1> USE DEF IInv, FlushFailed, IterationEnds, MoreAttempts, SetResponse, Goto, insVars,
     lambdaVars
  <1> DEFINE x == conn["handler"]
  <1>1. /\ x \in Conns /\ req \in Requests
        /\ Flushing(x) /\ \A y \in Conns : ~Flushing(y)'
        /\ chanWait[x] \in {req, None}
    BY DEF HandlerType, HandlerInv, PushedInv, Validators, Flushing
  <1>2. \A y \in Conns : chanWait'[y] = IF y = x THEN None ELSE chanWait[y]
    BY <1>1 DEF ConnType
  <1>3. HandlerType'
    BY DEF HandlerType, Labels, Validators, InsType, HandlerInv
  <1>4. ConnType'
    BY DEF ConnType, HandlerType
  <1>5. ReqType'
    BY DEF ReqType, HandlerType
  <1>6. NilInv'
    BY DEF NilInv, Validating, Validators, InsType, HandlerType, HandlerInv
  <1>7. HandlerInv'
    BY DEF HandlerInv, Validators, InsType, HandlerType, NilInv
  <1>8. OrderInv'
    <2>1. Empty(toLambda[x], fromLambda[x])
      BY <1>1 DEF OrderInv
    <2>2. InOrder(toLambda[x], fromLambda[x], chanWait'[x])
      BY <2>1, EmptyInOrder
    <2> QED
      BY <1>1, <1>2, <2>2, OrderAt
  <1>9. PushedInv'
    BY <1>1 DEF PushedInv
  <1>10. ArrivedInv'
    BY DEF ArrivedInv, HandlerType, ReqType, ConnType
  <1>11. NoneMissing'
    BY DEF NoneMissing, ReqType, ConnType
  <1>12. Tracked'
    <2>1. CASE MoreAttempts
      <3>1. UNCHANGED <<status, req, warm, chanReq, serve>> /\ ~warm /\ pc'["handler"] # "idle"
        BY <2>1 DEF HandlerType, HandlerInv, Validators
      <3> QED
        BY <1>1, <1>2, <3>1 DEF Tracked
    <2>2. CASE ~MoreAttempts
      <3>1. status'[req] # "waiting" /\ \A r \in Requests \ {req} : status'[r] = status[r]
        BY <1>1, <2>2 DEF ReqType
      <3> QED
        BY <1>1, <1>2, <3>1 DEF Tracked
    <2> QED
      BY <2>1, <2>2
  <1>13. (InsType /\ LambdaType /\ LifeInv)'
    BY DEF InsType, LambdaType, LifeInv
  <1> QED
    BY <1>3, <1>4, <1>5, <1>6, <1>7, <1>8, <1>9, <1>10, <1>11, <1>12, <1>13

\* A validation starts, or waits for another.
LEMMA ValidateStep ==
    ASSUME IInv, NEW v \in Validators, Validate(v)
    PROVE  IInv'
  <1> USE DEF IInv, Validate, Goto, handlerVars, connVars, reqVars, lambdaVars
  <1>1. /\ \A y \in Conns : Flushing(y)' => Flushing(y)
        /\ pc["handler"] # "idle" /\ ~warm => pc'["handler"] # "idle"
    BY DEF HandlerType, HandlerInv, Validators, Flushing
  <1>2. InsType'
    BY DEF InsType, HandlerType
  <1>3. HandlerType'
    BY DEF HandlerType, Labels, Validators, InsType, HandlerInv
  <1>4. NilInv'
    BY DEF NilInv, Validating, Validators, InsType, HandlerType, HandlerInv
  <1>5. HandlerInv'
    BY DEF HandlerInv, Validators, InsType, HandlerType, NilInv
  <1>6. OrderInv'
    BY <1>1, OrderSame
  <1>7. PushedInv'
    BY <1>1, PushedSame
  <1>8. Tracked'
    BY <1>1, TrackedSame
  <1>9. (ConnType /\ ReqType /\ LambdaType /\ LifeInv /\ ArrivedInv /\ NoneMissing)'
    BY DEF ConnType, ReqType, LambdaType, LifeInv, ArrivedInv, NoneMissing
  <1> QED
    BY <1>2, <1>3, <1>4, <1>5, <1>6, <1>7, <1>8, <1>9

\* The awake flag is read.
LEMMA CheckStep ==
    ASSUME IInv, NEW v \in Validators, Check(v)
    PROVE  IInv'
  <1> USE DEF IInv, Check, NotTriggered, WarmUp, Goto, insVars, handlerVars, connVars, reqVars,
     lambdaVars
  <1>1. /\ \A y \in Conns : Flushing(y)' => Flushing(y)
        /\ pc["handler"] # "idle" /\ ~warm => pc'["handler"] # "idle"
    BY DEF HandlerType, HandlerInv, Validators, Flushing
  <1>2. HandlerType'
    BY DEF HandlerType, Labels, Validators, InsType, HandlerInv
  <1>3. NilInv'
    BY DEF NilInv, Validating, Validators, InsType, HandlerType, HandlerInv
  <1>4. HandlerInv'
    BY DEF HandlerInv, Validators, InsType, HandlerType, NilInv
  <1>5. OrderInv'
    BY <1>1, OrderSame
  <1>6. PushedInv'
    BY <1>1, PushedSame
  <1>7. Tracked'
    BY <1>1, TrackedSame
  <1>8. (InsType /\ ConnType /\ ReqType /\ LambdaType /\ LifeInv /\ ArrivedInv /\ NoneMissing)'
    BY DEF InsType, ConnType, ReqType, LambdaType, LifeInv, ArrivedInv, NoneMissing
  <1> QED
    BY <1>2, <1>3, <1>4, <1>5, <1>6, <1>7, <1>8

\* The function is invoked, unless it is awake.
LEMMA TryTriggerLambdaStep ==
    ASSUME IInv, NEW v \in Validators, TryTriggerLambda(v)
    PROVE  IInv'
  <1> USE DEF IInv, TryTriggerLambda, NotTriggered, WarmUp, Goto, insVars, handlerVars,
     connVars, reqVars, lambdaVars
  <1>1. /\ \A y \in Conns : Flushing(y)' => Flushing(y)
        /\ pc["handler"] # "idle" /\ ~warm => pc'["handler"] # "idle"
    BY DEF HandlerType, HandlerInv, Validators, Flushing
  <1>2. HandlerType'
    BY DEF HandlerType, Labels, Validators, InsType, HandlerInv
  <1>3. LambdaType'
    BY DEF LambdaType, HandlerType
  <1>4. NilInv'
    BY DEF NilInv, Validating, Validators, InsType, HandlerType, HandlerInv
  <1>5. HandlerInv'
    BY DEF HandlerInv, Validators, InsType, HandlerType, NilInv
  <1>6. OrderInv'
    BY <1>1, OrderSame
  <1>7. PushedInv'
    BY <1>1, PushedSame
  <1>8. Tracked'
    BY <1>1, TrackedSame
  <1>9. (InsType /\ ConnType /\ ReqType /\ LifeInv /\ ArrivedInv /\ NoneMissing)'
    BY DEF InsType, ConnType, ReqType, LifeInv, ArrivedInv, NoneMissing
  <1> QED
    BY <1>2, <1>3, <1>4, <1>5, <1>6, <1>7, <1>8, <1>9

\* A warm-up reads the connection,
LEMMA ReadConnectionStep ==
    ASSUME IInv, NEW v \in Validators, ReadConnection(v)
    PROVE  IInv'
  <1> USE DEF IInv, ReadConnection, Goto, insVars, handlerVars, connVars, reqVars, lambdaVars
  <1>1. /\ \A y \in Conns : Flushing(y)' => Flushing(y)
        /\ pc["handler"] # "idle" /\ ~warm => pc'["handler"] # "idle"
    BY DEF HandlerType, HandlerInv, Validators, Flushing
  <1>2. HandlerType'
    BY DEF HandlerType, Labels, Validators, InsType, HandlerInv
  <1>3. NilInv'
    BY DEF NilInv, Validating, Validators, InsType, HandlerType, HandlerInv
  <1>4. HandlerInv'
    BY DEF HandlerInv, Validators, InsType, HandlerType, NilInv
  <1>5. OrderInv'
    BY <1>1, OrderSame
  <1>6. PushedInv'
    BY <1>1, PushedSame
  <1>7. Tracked'
    BY <1>1, TrackedSame
  <1>8. (InsType /\ ConnType /\ ReqType /\ LambdaType /\ LifeInv /\ ArrivedInv /\ NoneMissing)'
    BY DEF InsType, ConnType, ReqType, LambdaType, LifeInv, ArrivedInv, NoneMissing
  <1> QED
    BY <1>2, <1>3, <1>4, <1>5, <1>6, <1>7, <1>8

\* and is satisfied with it.
LEMMA WarmedUpStep ==
    ASSUME IInv, NEW v \in Validators, WarmedUp(v)
    PROVE  IInv'
  <1> USE DEF IInv, WarmedUp, FlagValidated, FlagValidatedLocked, AfterWarmUp, Goto,
     handlerVars, reqVars, lambdaVars
  <1>1. /\ \A y \in Conns : Flushing(y)' => Flushing(y)
        /\ pc["handler"] # "idle" /\ ~warm => pc'["handler"] # "idle"
    BY DEF HandlerType, HandlerInv, Validators, Flushing, AfterWarmUp, NilInv
  <1>2. InsType'
    BY DEF InsType, HandlerType
  <1>3. HandlerType'
    BY DEF HandlerType, Labels, Validators, InsType, HandlerInv
  <1>4. ConnType'
    BY DEF ConnType, HandlerType
  <1>5. NilInv'
    BY DEF NilInv, Validating, Validators, InsType, HandlerType, HandlerInv
  <1>6. HandlerInv'
    BY DEF HandlerInv, Validators, InsType, HandlerType, NilInv
  <1>7. OrderInv'
    BY <1>1, OrderSame
  <1>8. PushedInv'
    BY <1>1, PushedSame
  <1>9. Tracked'
    BY <1>1, TrackedSame
  <1>10. (ReqType /\ LambdaType /\ LifeInv /\ ArrivedInv /\ NoneMissing)'
    BY DEF ReqType, LambdaType, LifeInv, ArrivedInv, NoneMissing
  <1> QED
    BY <1>2, <1>3, <1>4, <1>5, <1>6, <1>7, <1>8, <1>9, <1>10

\* A ping is sent.
LEMMA PingStep ==
    ASSUME IInv, NEW v \in Validators, Ping(v)
    PROVE  IInv'
  <1> USE DEF IInv, Ping, Goto, insVars, handlerVars, connVars, reqVars
  <1>1. /\ \A y \in Conns : Flushing(y)' => Flushing(y)
        /\ pc["handler"] # "idle" /\ ~warm => pc'["handler"] # "idle"
    BY DEF HandlerType, HandlerInv, Validators, Flushing
  <1>2. HandlerType'
    BY DEF HandlerType, Labels, Validators, InsType, HandlerInv
  <1>3. LambdaType'
    <2>1. CASE cn \in Conns
      BY <2>1 DEF LambdaType
    <2>2. CASE cn \notin Conns
      BY <2>2 DEF LambdaType
    <2> QED
      BY <2>1, <2>2
  <1>4. NilInv'
    BY DEF NilInv, Validating, Validators, InsType, HandlerType, HandlerInv
  <1>5. HandlerInv'
    BY DEF HandlerInv, Validators, InsType, HandlerType, NilInv
  <1>6. LifeInv'
    BY DEF LifeInv, ConnType, LambdaType
  <1>7. OrderInv'
    <2>1. CASE toLambda' = toLambda
      BY <1>1, <2>1, OrderSame
    <2>2. CASE toLambda' # toLambda
      <3>1. cn \in Conns /\ toLambda' = [toLambda EXCEPT ![cn] = Append(@, "ping")]
        BY <2>2 DEF NilInv, InsType, Validators
      <3> QED
        BY <1>1, <3>1, Pinged
    <2> QED
      BY <2>1, <2>2
  <1>8. PushedInv'
    BY <1>1, PushedSame
  <1>9. Tracked'
    BY <1>1, TrackedSame
  <1>10. (InsType /\ ConnType /\ ReqType /\ ArrivedInv /\ NoneMissing)'
    BY DEF InsType, ConnType, ReqType, ArrivedInv, NoneMissing
  <1> QED
    BY <1>2, <1>3, <1>4, <1>5, <1>6, <1>7, <1>8, <1>9, <1>10

\* No pong in time.
LEMMA PingTimeoutStep ==
    ASSUME IInv, NEW v \in Validators, PingTimeout(v)
    PROVE  IInv'
  <1> USE DEF IInv, PingTimeout, Goto, handlerVars, connVars, reqVars, lambdaVars
  <1>1. /\ \A y \in Conns : Flushing(y)' => Flushing(y)
        /\ pc["handler"] # "idle" /\ ~warm => pc'["handler"] # "idle"
    BY DEF HandlerType, HandlerInv, Validators, Flushing
  <1>2. InsType'
    BY DEF InsType, HandlerType
  <1>3. HandlerType'
    BY BoundAssumption DEF HandlerType, Labels, Validators, InsType, HandlerInv
  <1>4. NilInv'
    BY DEF NilInv, Validating, Validators, InsType, HandlerType, HandlerInv
  <1>5. HandlerInv'
    BY DEF HandlerInv, Validators, InsType, HandlerType, NilInv
  <1>6. OrderInv'
    BY <1>1, OrderSame
  <1>7. PushedInv'
    BY <1>1, PushedSame
  <1>8. Tracked'
    BY <1>1, TrackedSame
  <1>9. (ConnType /\ ReqType /\ LambdaType /\ LifeInv /\ ArrivedInv /\ NoneMissing)'
    BY DEF ConnType, ReqType, LambdaType, LifeInv, ArrivedInv, NoneMissing
  <1> QED
    BY <1>2, <1>3, <1>4, <1>5, <1>6, <1>7, <1>8, <1>9

\* The validation is told.
LEMMA ValidatedStep ==
    ASSUME IInv, NEW v \in Validators, Validated(v)
    PROVE  IInv'
  <1> USE DEF IInv, Validated, Goto, insVars, handlerVars, connVars, reqVars, lambdaVars
  <1>1. /\ \A y \in Conns : Flushing(y)' => Flushing(y)
        /\ pc["handler"] # "idle" /\ ~warm => pc'["handler"] # "idle"
    BY DEF HandlerType, HandlerInv, Validators, Flushing
  <1>2. HandlerType'
    BY DEF HandlerType, Labels, Validators, InsType, HandlerInv
  <1>3. NilInv'
    BY DEF NilInv, Validating, Validators, InsType, HandlerType, HandlerInv
  <1>4. HandlerInv'
    BY DEF HandlerInv, NilInv, Validating, HandlerType, Validators
  <1>5. OrderInv'
    BY <1>1, OrderSame
  <1>6. PushedInv'
    BY <1>1, PushedSame
  <1>7. Tracked'
    BY <1>1, TrackedSame
  <1>8. (InsType /\ ConnType /\ ReqType /\ LambdaType /\ LifeInv /\ ArrivedInv /\ NoneMissing)'
    BY DEF InsType, ConnType, ReqType, LambdaType, LifeInv, ArrivedInv, NoneMissing
  <1> QED
    BY <1>2, <1>3, <1>4, <1>5, <1>6, <1>7, <1>8

\* It returns the connection.
LEMMA ReturnStep ==
    ASSUME IInv, NEW v \in Validators, Return(v)
    PROVE  IInv'
  <1> USE DEF IInv, Return, WarmUp, AfterWarmUp, Goto, insVars, handlerVars, connVars, reqVars,
     lambdaVars
  <1>1. /\ \A y \in Conns : Flushing(y)' => Flushing(y)
        /\ pc["handler"] # "idle" /\ ~warm => pc'["handler"] # "idle"
    BY DEF HandlerType, HandlerInv, Validators, Flushing, AfterWarmUp, NilInv
  <1>2. HandlerType'
    BY DEF HandlerType, Labels, Validators, InsType, HandlerInv
  <1>3. NilInv'
    BY DEF NilInv, Validating, Validators, InsType, HandlerType, HandlerInv
  <1>4. HandlerInv'
    BY DEF HandlerInv, Validators, InsType, HandlerType, NilInv
  <1>5. OrderInv'
    BY <1>1, OrderSame
  <1>6. PushedInv'
    BY <1>1, PushedSame
  <1>7. Tracked'
    BY <1>1, TrackedSame
  <1>8. (InsType /\ ConnType /\ ReqType /\ LambdaType /\ LifeInv /\ ArrivedInv /\ NoneMissing)'
    BY DEF InsType, ConnType, ReqType, LambdaType, LifeInv, ArrivedInv, NoneMissing
  <1> QED
    BY <1>2, <1>3, <1>4, <1>5, <1>6, <1>7, <1>8

\* An invocation starts.
LEMMA InvokeStep ==
    ASSUME IInv, NEW t \in Triggers, NEW x \in Conns, Invoke(t, x)
    PROVE  IInv'
  <1> USE DEF IInv, Invoke, insVars, handlerVars, reqVars
  <1>1. ConnType'
    BY DEF ConnType, HandlerType
  <1>2. LambdaType'
    BY MessageFacts DEF LambdaType
  <1>3. LifeInv'
    BY DEF LifeInv, ConnType, LambdaType
  <1>4. OrderInv'
    BY OtherSaid
  <1>5. PushedInv'
    BY DEF PushedInv, Flushing, ConnType, HandlerType, ReqType
  <1>6. Tracked'
    BY DEF Tracked, HandlerType, ConnType, ReqType
  <1>7. (InsType /\ HandlerType /\ ReqType /\ NilInv /\ HandlerInv /\ ArrivedInv /\ NoneMissing)'
    BY DEF InsType, HandlerType, ReqType, NilInv, Validating, HandlerInv, ArrivedInv, NoneMissing
  <1> QED
    BY <1>1, <1>2, <1>3, <1>4, <1>5, <1>6, <1>7

\* It fails.
LEMMA InvokeFailedStep ==
    ASSUME IInv, NEW t \in Triggers, InvokeFailed(t)
    PROVE  IInv'
  <1> USE DEF IInv, InvokeFailed, insVars, handlerVars, connVars, reqVars, lambdaVars
  <1>1. LambdaType'
    BY DEF LambdaType, HandlerType
  <1>2. (InsType /\ HandlerType /\ ConnType /\ ReqType /\ NilInv /\ HandlerInv /\ LifeInv /\ OrderInv /\ PushedInv /\ ArrivedInv /\ NoneMissing /\ Tracked)'
    BY DEF InsType, HandlerType, ConnType, ReqType, NilInv, Validating, HandlerInv, LifeInv,
       OrderInv, Flushing, Sent, Replied, PushedInv, ArrivedInv, NoneMissing, Tracked
  <1> QED
    BY <1>1, <1>2

\* It has returned.
LEMMA RetriggerStep ==
    ASSUME IInv, NEW t \in Triggers, Retrigger(t)
    PROVE  IInv'
  <1> USE DEF IInv, Retrigger, insVars, handlerVars, connVars, reqVars, lambdaVars
  <1>1. LambdaType'
    BY DEF LambdaType, HandlerType
  <1>2. (InsType /\ HandlerType /\ ConnType /\ ReqType /\ NilInv /\ HandlerInv /\ LifeInv /\ OrderInv /\ PushedInv /\ ArrivedInv /\ NoneMissing /\ Tracked)'
    BY DEF InsType, HandlerType, ConnType, ReqType, NilInv, Validating, HandlerInv, LifeInv,
       OrderInv, Flushing, Sent, Replied, PushedInv, ArrivedInv, NoneMissing, Tracked
  <1> QED
    BY <1>1, <1>2

\* The trigger ends.
LEMMA DeactivatedStep ==
    ASSUME IInv, NEW t \in Triggers, Deactivated(t)
    PROVE  IInv'
  <1> USE DEF IInv, Deactivated, handlerVars, connVars, reqVars, lambdaVars
  <1>1. InsType'
    BY DEF InsType, HandlerType
  <1>2. LambdaType'
    BY DEF LambdaType, HandlerType
  <1>3. NilInv'
    BY DEF NilInv, Validating, Validators, InsType, HandlerType, HandlerInv
  <1>4. (HandlerType /\ ConnType /\ ReqType /\ HandlerInv /\ LifeInv /\ OrderInv /\ PushedInv /\ ArrivedInv /\ NoneMissing /\ Tracked)'
    BY DEF HandlerType, ConnType, ReqType, HandlerInv, LifeInv, OrderInv, Flushing, Sent,
       Replied, PushedInv, ArrivedInv, NoneMissing, Tracked
  <1> QED
    BY <1>1, <1>2, <1>3, <1>4

\* The function answers.
LEMMA AnswerStep ==
    ASSUME IInv, NEW x \in Conns, Answer(x)
    PROVE  IInv'
  <1> USE DEF IInv, Answer, insVars, handlerVars, connVars, reqVars
  <1>1. toLambda[x] \in Seq(Requests \cup {"ping"}) /\ fromLambda[x] \in Seq(Messages)
    BY DEF LambdaType
  <1>2. PICK m \in Messages :
          /\ fromLambda' = [fromLambda EXCEPT ![x] = Append(@, m)]
          /\ IF Head(toLambda[x]) = "ping" THEN m.type = "pong"
             ELSE m.type \in {"response", "error"} /\ m.req = Head(toLambda[x])
    <2>1. Head(toLambda[x]) \in Requests \cup {"ping"}
      BY <1>1
    <2>2. CASE Head(toLambda[x]) = "ping"
      <3>1. fromLambda' = [fromLambda EXCEPT ![x] = Append(@, Message("pong", None))]
        BY <2>2
      <3> QED
        BY <2>2, <3>1, MessageFacts
    <2>3. CASE Head(toLambda[x]) # "ping"
      <3>1. PICK type \in {"response", "error"} :
              fromLambda' = [fromLambda EXCEPT ![x] = Append(@, Message(type, Head(toLambda[x])))]
        BY <2>3
      <3>2. Message(type, Head(toLambda[x])) \in Messages
        BY <2>1, <2>3, MessageFacts
      <3>3. /\ Message(type, Head(toLambda[x])).type = type
            /\ Message(type, Head(toLambda[x])).req = Head(toLambda[x])
        BY MessageFacts
      <3> QED
        BY <2>3, <3>1, <3>2, <3>3, Zenon
    <2> QED
      BY <2>2, <2>3
  <1>3. LambdaType'
    BY <1>1, <1>2 DEF LambdaType
  <1>4. LifeInv'
    BY DEF LifeInv, ConnType, LambdaType
  <1>5. OrderInv'
    BY <1>2, Answered
  <1>6. (InsType /\ HandlerType /\ ConnType /\ ReqType /\ NilInv /\ HandlerInv /\ PushedInv /\ ArrivedInv /\ NoneMissing /\ Tracked)'
    BY DEF InsType, HandlerType, ConnType, ReqType, NilInv, Validating, HandlerInv, PushedInv,
       Flushing, ArrivedInv, NoneMissing, Tracked
  <1> QED
    BY <1>3, <1>4, <1>5, <1>6

\* Its session ends.
LEMMA ByeStep ==
    ASSUME IInv, NEW x \in Conns, Bye(x)
    PROVE  IInv'
  <1> USE DEF IInv, Bye, Returned, insVars, handlerVars, connVars, reqVars
  <1>1. LambdaType'
    BY MessageFacts DEF LambdaType
  <1>2. LifeInv'
    BY DEF LifeInv, ConnType, LambdaType
  <1>3. OrderInv'
    BY OtherSaid
  <1>4. (InsType /\ HandlerType /\ ConnType /\ ReqType /\ NilInv /\ HandlerInv /\ PushedInv /\ ArrivedInv /\ NoneMissing /\ Tracked)'
    BY DEF InsType, HandlerType, ConnType, ReqType, NilInv, Validating, HandlerInv, PushedInv,
       Flushing, ArrivedInv, NoneMissing, Tracked
  <1> QED
    BY <1>1, <1>2, <1>3, <1>4

\* The container is reclaimed.
LEMMA ReclaimStep ==
    ASSUME IInv, NEW x \in Conns, Reclaim(x)
    PROVE  IInv'
  <1> USE DEF IInv, Reclaim, insVars, handlerVars, connVars, reqVars
  <1>1. LambdaType'
    BY MessageFacts DEF LambdaType
  <1>2. LifeInv'
    BY DEF LifeInv, ConnType, LambdaType
  <1>3. OrderInv'
    BY OtherSaid
  <1>4. (InsType /\ HandlerType /\ ConnType /\ ReqType /\ NilInv /\ HandlerInv /\ PushedInv /\ ArrivedInv /\ NoneMissing /\ Tracked)'
    BY DEF InsType, HandlerType, ConnType, ReqType, NilInv, Validating, HandlerInv, PushedInv,
       Flushing, ArrivedInv, NoneMissing, Tracked
  <1> QED
    BY <1>1, <1>2, <1>3, <1>4

\* ServeLambda sees that it is to close.
LEMMA ClosedStep ==
    ASSUME IInv, NEW x \in Conns, Closed(x)
    PROVE  IInv'
  <1> USE DEF IInv, Closed, insVars, handlerVars, reqVars, lambdaVars
  <1>1. ConnType'
    BY DEF ConnType, HandlerType
  <1>2. LifeInv'
    BY DEF LifeInv, ConnType, LambdaType
  <1>3. PushedInv'
    BY DEF PushedInv, Flushing, ConnType, HandlerType, ReqType
  <1>4. Tracked'
    BY DEF Tracked, HandlerType, ConnType, ReqType
  <1>5. (InsType /\ HandlerType /\ ReqType /\ LambdaType /\ NilInv /\ HandlerInv /\ OrderInv /\ ArrivedInv /\ NoneMissing)'
    BY DEF InsType, HandlerType, ReqType, LambdaType, NilInv, Validating, HandlerInv,
       OrderInv, Flushing, Sent, Replied, ArrivedInv, NoneMissing
  <1> QED
    BY <1>1, <1>2, <1>3, <1>4, <1>5

\* A pong is read.
LEMMA PongHandlerStep ==
    ASSUME IInv, NEW x \in Conns, PongHandler(x)
    PROVE  IInv'
  <1> USE DEF IInv, PongHandler, Read, FlagValidated, FlagValidatedLocked, handlerVars, reqVars
  <1>1. InsType'
    BY DEF InsType, HandlerType
  <1>2. ConnType'
    BY DEF ConnType, HandlerType
  <1>3. LambdaType'
    BY DEF LambdaType, HandlerType
  <1>4. NilInv'
    BY InstanceAssumption DEF NilInv, Validating, Validators, InsType, HandlerType, HandlerInv
  <1>5. HandlerInv'
    BY InstanceAssumption DEF HandlerInv, Validators, InsType, HandlerType, NilInv
  <1>6. LifeInv'
    BY DEF LifeInv, ConnType, LambdaType
  <1>7. OrderInv'
    BY OtherRead
  <1>8. PushedInv'
    BY DEF PushedInv, Flushing, ConnType, HandlerType, ReqType
  <1>9. Tracked'
    BY DEF Tracked, HandlerType, ConnType, ReqType
  <1>10. (HandlerType /\ ReqType /\ ArrivedInv /\ NoneMissing)'
    BY DEF HandlerType, ReqType, ArrivedInv, NoneMissing
  <1> QED
    BY <1>1, <1>2, <1>3, <1>4, <1>5, <1>6, <1>7, <1>8, <1>9, <1>10

\* A response is read: it is that of the request in chanWait.
LEMMA ResponseHandlerStep ==
    ASSUME IInv, NEW x \in Conns, ResponseHandler(x)
    PROVE  IInv'
  <1> USE DEF IInv, ResponseHandler, Read, MatchResponse, SetResponse, insVars, handlerVars
  <1>1. Head(fromLambda[x]).req = chanWait[x] /\ ~Flushing(x)
    BY ReplyRead
  <1>2. ConnType'
    BY DEF ConnType, HandlerType
  <1>3. ReqType'
    BY DEF ReqType, HandlerType
  <1>4. LambdaType'
    BY DEF LambdaType, HandlerType
  <1>5. LifeInv'
    BY DEF LifeInv, ConnType, LambdaType
  <1>6. OrderInv'
    BY ReplyRead
  <1>7. PushedInv'
    <2>1. \A r \in Requests : status[r] # "waiting" => status'[r] # "waiting"
      BY DEF ReqType
    <2>2. \A y \in Conns \ {x} : chanWait'[y] = chanWait[y] /\ serve'[y] = serve[y]
      BY DEF ConnType
    <2>3. ASSUME NEW y \in Conns, Flushing(y) PROVE req \in Requests
      BY <2>3 DEF HandlerInv, HandlerType, Flushing
    <2> QED
      BY <1>1, <2>1, <2>2, <2>3 DEF PushedInv, Flushing
  <1>8. ArrivedInv'
    BY DEF ArrivedInv, HandlerType, ReqType, ConnType
  <1>9. NoneMissing'
    BY <1>1 DEF NoneMissing, ReqType, ConnType
  <1>10. Tracked'
    BY DEF Tracked, HandlerType, ConnType, ReqType
  <1>11. (InsType /\ HandlerType /\ NilInv /\ HandlerInv)'
    BY DEF InsType, HandlerType, NilInv, Validating, HandlerInv
  <1> QED
    BY <1>2, <1>3, <1>4, <1>5, <1>6, <1>7, <1>8, <1>9, <1>10, <1>11

\* An error is read.
LEMMA ErrorHandlerStep ==
    ASSUME IInv, NEW x \in Conns, ErrorHandler(x)
    PROVE  IInv'
  <1> USE DEF IInv, ErrorHandler, Read, SetErrorResponse, SetResponse, insVars, handlerVars
  <1>1. Head(fromLambda[x]).req = chanWait[x] /\ ~Flushing(x)
    BY ReplyRead
  <1>2. ConnType'
    BY DEF ConnType, HandlerType
  <1>3. ReqType'
    BY DEF ReqType, HandlerType
  <1>4. LambdaType'
    BY DEF LambdaType, HandlerType
  <1>5. LifeInv'
    BY DEF LifeInv, ConnType, LambdaType
  <1>6. OrderInv'
    BY ReplyRead
  <1>7. PushedInv'
    <2>1. \A r \in Requests : status[r] # "waiting" => status'[r] # "waiting"
      BY DEF ReqType
    <2>2. \A y \in Conns \ {x} : chanWait'[y] = chanWait[y] /\ serve'[y] = serve[y]
      BY DEF ConnType
    <2>3. ASSUME NEW y \in Conns, Flushing(y) PROVE req \in Requests
      BY <2>3 DEF HandlerInv, HandlerType, Flushing
    <2> QED
      BY <1>1, <2>1, <2>2, <2>3 DEF PushedInv, Flushing
  <1>8. ArrivedInv'
    BY DEF ArrivedInv, HandlerType, ReqType, ConnType
  <1>9. NoneMissing'
    BY <1>1 DEF NoneMissing, ReqType, ConnType
  <1>10. Tracked'
    BY DEF Tracked, HandlerType, ConnType, ReqType
  <1>11. (InsType /\ HandlerType /\ NilInv /\ HandlerInv)'
    BY DEF InsType, HandlerType, NilInv, Validating, HandlerInv
  <1> QED
    BY <1>2, <1>3, <1>4, <1>5, <1>6, <1>7, <1>8, <1>9, <1>10, <1>11

\* A bye is read.
LEMMA ByeHandlerStep ==
    ASSUME IInv, NEW x \in Conns, ByeHandler(x)
    PROVE  IInv'
  <1> USE DEF IInv, ByeHandler, Read, Slept, handlerVars, reqVars
  <1>1. InsType'
    BY DEF InsType, HandlerType
  <1>2. ConnType'
    BY DEF ConnType, HandlerType
  <1>3. LambdaType'
    BY DEF LambdaType, HandlerType
  <1>4. NilInv'
    BY DEF NilInv, Validating, Validators, InsType, HandlerType, HandlerInv
  <1>5. LifeInv'
    BY DEF LifeInv, ConnType, LambdaType
  <1>6. OrderInv'
    BY OtherRead
  <1>7. PushedInv'
    BY DEF PushedInv, Flushing, ConnType, HandlerType, ReqType
  <1>8. Tracked'
    BY DEF Tracked, HandlerType, ConnType, ReqType
  <1>9. (HandlerType /\ ReqType /\ HandlerInv /\ ArrivedInv /\ NoneMissing)'
    BY DEF HandlerType, ReqType, HandlerInv, ArrivedInv, NoneMissing
  <1> QED
    BY <1>1, <1>2, <1>3, <1>4, <1>5, <1>6, <1>7, <1>8, <1>9

\* The end of the connection is read.
LEMMA DisconnectedStep ==
    ASSUME IInv, NEW x \in Conns, Disconnected(x)
    PROVE  IInv'
  <1> USE DEF IInv, Disconnected, Read, insVars, handlerVars, reqVars
  <1>1. ConnType'
    BY DEF ConnType, HandlerType
  <1>2. LambdaType'
    BY DEF LambdaType, HandlerType
  <1>3. LifeInv'
    BY DEF LifeInv, ConnType, LambdaType
  <1>4. OrderInv'
    BY OtherRead
  <1>5. PushedInv'
    BY DEF PushedInv, Flushing, ConnType, HandlerType, ReqType
  <1>6. Tracked'
    BY DEF Tracked, HandlerType, ConnType, ReqType
  <1>7. (InsType /\ HandlerType /\ ReqType /\ NilInv /\ HandlerInv /\ ArrivedInv /\ NoneMissing)'
    BY DEF InsType, HandlerType, ReqType, NilInv, Validating, HandlerInv, ArrivedInv, NoneMissing
  <1> QED
    BY <1>1, <1>2, <1>3, <1>4, <1>5, <1>6, <1>7

\* The connection is closed,
LEMMA CloseSocketStep ==
    ASSUME IInv, NEW x \in Conns, CloseSocket(x)
    PROVE  IInv'
  <1> USE DEF IInv, CloseSocket, Slept, Returned, handlerVars, reqVars
  <1>1. InsType'
    BY DEF InsType, HandlerType
  <1>2. ConnType'
    BY DEF ConnType, HandlerType
  <1>3. LambdaType'
    BY DEF LambdaType, HandlerType
  <1>4. NilInv'
    BY DEF NilInv, Validating, Validators, InsType, HandlerType, HandlerInv
  <1>5. LifeInv'
    BY DEF LifeInv, ConnType, LambdaType
  <1>6. OrderInv'
    <2>1. /\ toLambda'[x] = <<>> /\ fromLambda'[x] = <<>>
          /\ \A y \in Conns \ {x} : toLambda'[y] = toLambda[y] /\ fromLambda'[y] = fromLambda[y]
      BY DEF LambdaType
    <2>2. Empty(toLambda'[x], fromLambda'[x]) /\ InOrder(toLambda'[x], fromLambda'[x], chanWait[x])
      BY <2>1, EmptyInOrder DEF Empty
    <2> QED
      BY <2>1, <2>2, OrderAt DEF Flushing
  <1>7. PushedInv'
    BY DEF PushedInv, Flushing, ConnType, HandlerType, ReqType
  <1>8. Tracked'
    BY DEF Tracked, HandlerType, ConnType, ReqType
  <1>9. (HandlerType /\ ReqType /\ HandlerInv /\ ArrivedInv /\ NoneMissing)'
    BY DEF HandlerType, ReqType, HandlerInv, ArrivedInv, NoneMissing
  <1> QED
    BY <1>1, <1>2, <1>3, <1>4, <1>5, <1>6, <1>7, <1>8, <1>9

\* and the request in chanWait is answered.
LEMMA ClearResponsesStep ==
    ASSUME IInv, NEW x \in Conns, ClearResponses(x)
    PROVE  IInv'
  <1> USE DEF IInv, ClearResponses, SetResponse, insVars, handlerVars, lambdaVars
  <1>1. ConnType'
    BY DEF ConnType, HandlerType
  <1>2. ReqType'
    BY DEF ReqType, HandlerType
  <1>3. LifeInv'
    BY DEF LifeInv, ConnType, LambdaType
  <1>4. OrderInv'
    <2>1. toLambda[x] = <<>> /\ fromLambda[x] = <<>>
      BY DEF LifeInv
    <2>2. Empty(toLambda[x], fromLambda[x]) /\ InOrder(toLambda[x], fromLambda[x], chanWait'[x])
      BY <2>1, EmptyInOrder DEF Empty
    <2>3. \A y \in Conns \ {x} : chanWait'[y] = chanWait[y]
      BY DEF ConnType
    <2> QED
      BY <2>2, <2>3, OrderAt DEF Flushing
  <1>5. PushedInv'
    BY DEF PushedInv, Flushing, ConnType, HandlerType, ReqType
  <1>6. ArrivedInv'
    BY DEF ArrivedInv, HandlerType, ReqType, ConnType
  <1>7. NoneMissing'
    BY DEF NoneMissing, ReqType, ConnType
  <1>8. Tracked'
    BY InstanceAssumption DEF Tracked, HandlerType, ConnType, ReqType
  <1>9. (InsType /\ HandlerType /\ LambdaType /\ NilInv /\ HandlerInv)'
    BY DEF InsType, HandlerType, LambdaType, NilInv, Validating, HandlerInv
  <1> QED
    BY <1>1, <1>2, <1>3, <1>4, <1>5, <1>6, <1>7, <1>8, <1>9

-----------------------------------------------------------------------------
\* Every initial state satisfies the invariant.
LEMMA InitInv == Init => IInv
  <1> SUFFICES ASSUME Init PROVE IInv
    OBVIOUS
  <1> USE DEF Init
  <1>1. InsType /\ ConnType /\ ReqType
    BY DEF InsType, ConnType, ReqType
  <1>2. HandlerType
    <2>1. pc \in [Validators -> Labels]
      BY DEF Labels
    <2>2. attempt \in 0 .. retries /\ retries \in {0, 1, MAX_RETRY} /\ timeouts \in 0 .. MaxTimeouts
      BY BoundAssumption
    <2> QED
      BY <2>1, <2>2 DEF HandlerType
  <1>3. LambdaType
    BY DEF LambdaType
  <1>4. NilInv /\ HandlerInv /\ LifeInv
    BY DEF NilInv, HandlerInv, LifeInv, Validating, Validators
  <1>5. OrderInv
    BY EmptyInOrder DEF OrderInv, Empty
  <1>6. PushedInv /\ ArrivedInv /\ NoneMissing /\ Tracked
    BY DEF PushedInv, ArrivedInv, NoneMissing, Tracked, Flushing, Validators
  <1> QED
    BY <1>1, <1>2, <1>3, <1>4, <1>5, <1>6 DEF IInv

\* Nothing changes.
LEMMA StutterStep ==
    ASSUME IInv, UNCHANGED vars
    PROVE  IInv'
  BY DEF IInv, InsType, HandlerType, ConnType, ReqType, LambdaType, NilInv, Validating,
         HandlerInv, LifeInv, OrderInv, PushedInv, ArrivedInv, NoneMissing, Tracked, Flushing,
         vars, insVars, handlerVars, connVars, reqVars, lambdaVars

\* Every step preserves the invariant.
LEMMA NextInv == IInv /\ [Next]_vars => IInv'
  <1> SUFFICES ASSUME IInv, [Next]_vars PROVE IInv'
    OBVIOUS
  <1>1. ASSUME NEW r \in Requests, Arrive(r) PROVE IInv'
    BY <1>1, ArriveStep
  <1>2. CASE HandleRequests
    BY <1>2, TakeStep, CoolStep, PushStep, FlushStep, FlushFailedStep DEF HandleRequests
  <1>3. ASSUME NEW v \in Validators, ValidateSteps(v) PROVE IInv'
    BY <1>3, ValidateStep, CheckStep, TryTriggerLambdaStep, ReadConnectionStep, WarmedUpStep,
       PingStep, PingTimeoutStep, ValidatedStep, ReturnStep DEF ValidateSteps
  <1>4. ASSUME NEW t \in Triggers, TriggerLambda(t) PROVE IInv'
    BY <1>4, InvokeStep, InvokeFailedStep, RetriggerStep, DeactivatedStep DEF TriggerLambda
  <1>5. ASSUME NEW x \in Conns, Answer(x) \/ Bye(x) \/ Reclaim(x) PROVE IInv'
    BY <1>5, AnswerStep, ByeStep, ReclaimStep
  <1>6. ASSUME NEW x \in Conns, ServeLambda(x) PROVE IInv'
    BY <1>6, ClosedStep, PongHandlerStep, ResponseHandlerStep, ErrorHandlerStep, ByeHandlerStep,
       DisconnectedStep, CloseSocketStep, ClearResponsesStep DEF ServeLambda
  <1>7. CASE UNCHANGED vars
    BY <1>7, StutterStep
  <1> QED
    BY <1>1, <1>2, <1>3, <1>4, <1>5, <1>6, <1>7 DEF Next

\* Every connection of the instance carries at most the one request that is in its chanWait,
\* and every request is where somebody will answer it (HandleRequests, ServeLambda).
THEOREM Inductive == Spec => []IInv
  BY InitInv, NextInv, PTL DEF Spec

-----------------------------------------------------------------------------
\* Every variable of the instance, its connections and its requests has its type.
THEOREM TypeCorrect == Spec => []TypeOK
  <1>1. IInv => TypeOK
    BY DEF IInv, TypeOK, InsType, HandlerType, ConnType, ReqType, LambdaType
  <1> QED
    BY <1>1, Inductive, PTL

\* validate never pings a nil connection nor flags one, and HandleRequests does not end
\* (validate, flagValidated, HandleRequests).
THEOREM ConnectionsNeverNil == Spec => []NeverNil
  <1>1. IInv => NeverNil
    BY DEF IInv, NilInv, NeverNil
  <1> QED
    BY <1>1, Inductive, PTL

\* A response is read for the request that waits in chanWait, and none is answered with
\* ErrMissingResponse, however connections are replaced and lost (SetResponse).
THEOREM ResponsesAligned == Spec => []Aligned
  <1>1. IInv => Aligned
    BY DEF IInv, OrderInv, InOrder, Replied, NoneMissing, Aligned
  <1> QED
    BY <1>1, Inductive, PTL

\* A request without a response is in the channel, with HandleRequests, or in the chanWait of
\* a connection that is still served (HandleRequests, close, clearResponses).
THEOREM RequestsTracked == Spec => []Tracked
  <1>1. IInv => Tracked
    BY DEF IInv
  <1> QED
    BY <1>1, Inductive, PTL

-----------------------------------------------------------------------------
\* A request is in one place: no other connection has it, and while HandleRequests has it
\* only the connection it is about to be written to does.
OnceInv ==
    /\ pc["handler"] = "idle" \/ warm => req = None
    /\ chanReq # None => chanReq # req
    /\ \A x \in Conns : chanWait[x] # None =>
         /\ chanWait[x] # chanReq
         /\ chanWait[x] = req => Flushing(x)
         /\ status[chanWait[x]] # "new"
         /\ \A y \in Conns : chanWait[y] = chanWait[x] => y = x

\* Steps that do not touch a request, and of HandleRequests at most the validation,
LEMMA OnceSame ==
    ASSUME OnceInv, UNCHANGED <<chanReq, req, warm, chanWait, status>>,
           pc'["handler"] = "idle" => pc["handler"] = "idle" \/ warm,
           \A x \in Conns : Flushing(x) => Flushing(x)'
    PROVE  OnceInv'
  BY DEF OnceInv

\* and steps with which a request leaves chanWait.
LEMMA OnceLeft ==
    ASSUME OnceInv, ConnType, UNCHANGED <<chanReq, req, warm, pc, conn>>, NEW x \in Conns,
           chanWait' \in {chanWait, [chanWait EXCEPT ![x] = None]},
           \A r \in Requests : status'[r] = "new" => status[r] = "new"
    PROVE  OnceInv'
  <1>1. \A y \in Conns : chanWait'[y] \in {chanWait[y], None}
    BY DEF ConnType
  <1>2. \A y \in Conns : chanWait'[y] # None => status'[chanWait'[y]] # "new"
    BY <1>1 DEF OnceInv, ConnType
  <1>3. \A y \in Conns : Flushing(y)' <=> Flushing(y)
    BY DEF Flushing
  <1> QED
    BY <1>1, <1>2, <1>3 DEF OnceInv

\* The requests on the way keep their places when one more arrives,
LEMMA OnceArrive ==
    ASSUME IInv, OnceInv, NEW r \in Requests, Arrive(r)
    PROVE  OnceInv'
  <1> USE DEF Arrive, handlerVars, connVars
  <1>1. \A q \in Requests : status'[q] = "new" => status[q] = "new"
    BY DEF IInv, ReqType
  <1>2. \A y \in Conns : /\ Flushing(y)' <=> Flushing(y)
                         /\ chanWait[y] \in Requests \cup {None}
    BY DEF Flushing, IInv, ConnType
  <1>3. \A y \in Conns : chanWait[y] # r
    BY InstanceAssumption DEF OnceInv
  <1>4. req # r
    BY InstanceAssumption DEF IInv, ArrivedInv
  <1> QED
    BY <1>1, <1>2, <1>3, <1>4 DEF OnceInv

\* when HandleRequests takes it,
LEMMA OnceTake ==
    ASSUME IInv, OnceInv, Take
    PROVE  OnceInv'
  <1> USE DEF Take, Goto, connVars, reqVars
  <1>1. \A y \in Conns : ~Flushing(y)
    BY DEF Flushing
  <1>2. pc'["handler"] = "validate"
    BY DEF IInv, HandlerType, Validators
  <1> QED
    BY <1>1, <1>2 DEF OnceInv

\* pushes it,
LEMMA OncePush ==
    ASSUME IInv, OnceInv, Push
    PROVE  OnceInv'
  <1> USE DEF Push, Consumed, Goto, handlerVars, reqVars
  <1> DEFINE x == conn["handler"]
  <1>1. /\ x \in Conns /\ req \in Requests
        /\ \A y \in Conns : chanWait'[y] = IF y = x THEN req ELSE chanWait[y]
    BY DEF IInv, HandlerType, HandlerInv, ConnType, Validators
  <1>2. Flushing(x)' /\ \A y \in Conns : ~Flushing(y)
    BY <1>1 DEF IInv, HandlerType, Validators, Flushing
  <1>3. \A y \in Conns : chanWait[y] # req
    BY <1>1, <1>2, InstanceAssumption DEF OnceInv
  <1>4. status[req] # "new" /\ req # chanReq /\ ~warm
    BY <1>1, InstanceAssumption DEF IInv, ArrivedInv, HandlerInv, OnceInv
  <1>5. pc'["handler"] # "idle"
    BY DEF IInv, HandlerType, Validators
  <1> QED
    BY <1>1, <1>2, <1>3, <1>4, <1>5 DEF OnceInv

\* writes it,
LEMMA OnceFlush ==
    ASSUME IInv, OnceInv, Flush
    PROVE  OnceInv'
  <1> USE DEF Flush, IterationEnds, connVars
  <1>1. \A y \in Conns : chanWait[y] # None => chanWait[y] # req'
    OBVIOUS
  <1> QED
    BY <1>1 DEF OnceInv

\* or cannot write it.
LEMMA OnceFlushFailed ==
    ASSUME IInv, OnceInv, FlushFailed
    PROVE  OnceInv'
  <1> USE DEF FlushFailed, IterationEnds, Goto
  <1> DEFINE x == conn["handler"]
  <1>1. /\ x \in Conns /\ req \in Requests
        /\ \A y \in Conns : chanWait'[y] = IF y = x THEN None ELSE chanWait[y]
    BY DEF IInv, HandlerType, HandlerInv, ConnType, Validators
  <1>2. \A y \in Conns : Flushing(y) => y = x
    BY DEF Flushing
  <1>3. \A r \in Requests : status'[r] = "new" => status[r] = "new"
    BY DEF IInv, ReqType, SetResponse
  <1>4. \A y \in Conns : chanWait[y] \in Requests \cup {None}
    BY DEF IInv, ConnType
  <1>5. \A y \in Conns : chanWait'[y] # None =>
          chanWait'[y] = chanWait[y] /\ chanWait[y] # req /\ status'[chanWait[y]] # "new"
    BY <1>1, <1>2, <1>3, <1>4 DEF OnceInv
  <1>6. /\ chanReq' = chanReq /\ req' \in {req, None}
        /\ pc'["handler"] = "idle" \/ warm' => req' = None
    BY DEF IInv, HandlerType, HandlerInv, Validators
  <1> QED
    BY <1>1, <1>5, <1>6 DEF OnceInv

\* A validation touches no request.
LEMMA OnceValidate ==
    ASSUME IInv, OnceInv, NEW v \in Validators, ValidateSteps(v)
    PROVE  OnceInv'
  <1>1. UNCHANGED <<chanReq, req, warm, chanWait, status>>
    BY DEF ValidateSteps, Validate, Check, TryTriggerLambda, ReadConnection, WarmedUp, Ping,
       PingTimeout, Validated, Return, handlerVars, connVars, reqVars
  <1>2. pc[v] # "flush" /\ (\E l : pc' = [pc EXCEPT ![v] = l])
    BY DEF ValidateSteps, Validate, Check, TryTriggerLambda, ReadConnection, WarmedUp, Ping,
       PingTimeout, Validated, Return, Goto
  <1>3. \A u \in Validators \ {v} : pc'[u] = pc[u] /\ conn'[u] = conn[u]
    BY <1>2 DEF ValidateSteps, Validate, Check, TryTriggerLambda, ReadConnection, WarmedUp, Ping,
       PingTimeout, Validated, Return, IInv, HandlerType
  <1>4. CASE v = "init"
    BY <1>1, <1>3, <1>4, OnceSame DEF Validators, Flushing
  <1>5. CASE v = "handler"
    <2>1. pc'["handler"] = "idle" => warm
      BY <1>5 DEF ValidateSteps, Validate, Check, TryTriggerLambda, ReadConnection, WarmedUp, Ping,
         PingTimeout, Validated, Return, Goto, AfterWarmUp, WarmUp, NotTriggered, IInv,
         HandlerType, HandlerInv, Validators
    <2> QED
      BY <1>1, <1>2, <1>5, <2>1, OnceSame DEF Flushing
  <1> QED
    BY <1>4, <1>5 DEF Validators

\* Neither do the goroutines that invoke the function, the function, and ServeLambda on a
\* pong, a bye or the end of the connection.
LEMMA OnceQuiet ==
    ASSUME OnceInv,
           \/ \E t \in Triggers : TriggerLambda(t)
           \/ \E x \in Conns : \/ Answer(x) \/ Bye(x) \/ Reclaim(x) \/ Closed(x)
                               \/ PongHandler(x) \/ ByeHandler(x) \/ Disconnected(x)
                               \/ CloseSocket(x)
    PROVE  OnceInv'
  <1>1. UNCHANGED <<chanReq, req, warm, chanWait, status, pc, conn>>
    BY DEF TriggerLambda, Invoke, InvokeFailed, Retrigger, Deactivated, Answer, Bye, Reclaim,
       Closed, PongHandler, ByeHandler, Disconnected, CloseSocket, Read, handlerVars, connVars,
       reqVars
  <1> QED
    BY <1>1, OnceSame DEF Flushing

\* A request is answered, and leaves chanWait.
LEMMA OnceAnswered ==
    ASSUME IInv, OnceInv, NEW x \in Conns,
           ResponseHandler(x) \/ ErrorHandler(x) \/ ClearResponses(x)
    PROVE  OnceInv'
  <1>1. /\ UNCHANGED <<chanReq, req, warm, pc, conn>>
        /\ chanWait' \in {chanWait, [chanWait EXCEPT ![x] = None]}
    BY DEF ResponseHandler, ErrorHandler, ClearResponses, Read, MatchResponse, SetErrorResponse,
       handlerVars
  <1>2. \A r \in Requests : status'[r] = "new" => status[r] = "new"
    BY DEF ResponseHandler, ErrorHandler, ClearResponses, MatchResponse, SetErrorResponse,
       SetResponse, IInv, ReqType
  <1> QED
    BY <1>1, <1>2, OnceLeft DEF IInv

\* Every step keeps every request in one place.
LEMMA OnceNext == IInv /\ OnceInv /\ [Next]_vars => OnceInv'
  <1> SUFFICES ASSUME IInv, OnceInv, [Next]_vars PROVE OnceInv'
    OBVIOUS
  <1>1. ASSUME NEW r \in Requests, Arrive(r) PROVE OnceInv'
    BY <1>1, OnceArrive
  <1>2. CASE Cool
    <2>1. pc["handler"] = "idle" /\ pc'["handler"] # "idle"
      BY <1>2 DEF Cool, Goto, IInv, HandlerType, Validators
    <2>2. /\ UNCHANGED <<chanReq, req, chanWait, status>>
          /\ \A x \in Conns : ~Flushing(x)
      BY <1>2, <2>1 DEF Cool, connVars, reqVars, Flushing
    <2> QED
      BY <2>1, <2>2 DEF OnceInv
  <1>3. CASE HandleRequests
    BY <1>2, <1>3, OnceTake, OncePush, OnceFlush, OnceFlushFailed DEF HandleRequests
  <1>4. ASSUME NEW v \in Validators, ValidateSteps(v) PROVE OnceInv'
    BY <1>4, OnceValidate
  <1>5. ASSUME NEW t \in Triggers, TriggerLambda(t) PROVE OnceInv'
    BY <1>5, OnceQuiet
  <1>6. ASSUME NEW x \in Conns, Answer(x) \/ Bye(x) \/ Reclaim(x) PROVE OnceInv'
    BY <1>6, OnceQuiet
  <1>7. ASSUME NEW x \in Conns, ServeLambda(x) PROVE OnceInv'
    BY <1>7, OnceQuiet, OnceAnswered DEF ServeLambda
  <1>8. CASE UNCHANGED vars
    BY <1>8, OnceSame DEF vars, handlerVars, connVars, reqVars, Flushing
  <1> QED
    BY <1>1, <1>3, <1>4, <1>5, <1>6, <1>7, <1>8 DEF Next

\* No request is with two connections, nor with HandleRequests and with a connection it is not
\* being written to (HandleRequests, handleRequest).
THEOREM OnePlace == Spec => []OnceInv
  <1>1. Init => OnceInv
    BY DEF Init, OnceInv
  <1> QED
    BY <1>1, OnceNext, Inductive, PTL DEF Spec

-----------------------------------------------------------------------------
\* A request among the messages to a lambda, and among its answers.
OnWay(to, r) == \E i \in 1 .. Len(to) : to[i] = r
Back(from, r) == \E i \in 1 .. Len(from) : from[i].req = r

\* A message is added,
LEMMA SaidLast ==
    /\ \A to \in Seq(Requests \cup {"ping"}), m \in Requests \cup {"ping"}, r \in Requests :
         OnWay(Append(to, m), r) <=> OnWay(to, r) \/ m = r
    /\ \A from \in Seq(Messages), m \in Messages, r \in Requests :
         Back(Append(from, m), r) <=> Back(from, r) \/ m.req = r
  <1>1. ASSUME NEW T, NEW to \in Seq(T), NEW m \in T, NEW r
        PROVE  /\ OnWay(Append(to, m), r) <=> OnWay(to, r) \/ m = r
               /\ Back(Append(to, m), r) <=> Back(to, r) \/ m.req = r
    <2>1. /\ Len(Append(to, m)) = Len(to) + 1 /\ Len(to) \in Nat
          /\ Append(to, m)[Len(to) + 1] = m
          /\ \A i \in 1 .. Len(to) : Append(to, m)[i] = to[i]
      OBVIOUS
    <2>2. \A i \in 1 .. (Len(to) + 1) : i \in 1 .. Len(to) \/ i = Len(to) + 1
      BY <2>1
    <2>3. 1 .. Len(to) \subseteq 1 .. (Len(to) + 1) /\ Len(to) + 1 \in 1 .. (Len(to) + 1)
      BY <2>1
    <2> QED
      BY <2>1, <2>2, <2>3 DEF OnWay, Back
  <1>2. ASSUME NEW to \in Seq(Requests \cup {"ping"}), NEW m \in Requests \cup {"ping"}, NEW r
        PROVE  OnWay(Append(to, m), r) <=> OnWay(to, r) \/ m = r
    <2>1. PICK T : T = Requests \cup {"ping"}
      OBVIOUS
    <2>2. to \in Seq(T) /\ m \in T
      BY <2>1
    <2> QED
      BY <1>1, <2>2, Zenon
  <1>3. ASSUME NEW from \in Seq(Messages), NEW m \in Messages, NEW r
        PROVE  Back(Append(from, m), r) <=> Back(from, r) \/ m.req = r
    BY <1>1, Zenon
  <1> QED
    BY <1>2, <1>3, Zenon

\* or taken.
LEMMA TakenFirst ==
    /\ \A to \in Seq(Requests \cup {"ping"}), r \in Requests :
         to # <<>> => (OnWay(to, r) <=> Head(to) = r \/ OnWay(Tail(to), r))
    /\ \A from \in Seq(Messages), r \in Requests :
         from # <<>> => (Back(from, r) <=> Head(from).req = r \/ Back(Tail(from), r))
  <1>1. ASSUME NEW T, NEW to \in Seq(T), to # <<>>, NEW r
        PROVE  /\ OnWay(to, r) <=> Head(to) = r \/ OnWay(Tail(to), r)
               /\ Back(to, r) <=> Head(to).req = r \/ Back(Tail(to), r)
    <2>1. /\ Len(to) \in Nat \ {0} /\ Len(Tail(to)) = Len(to) - 1
          /\ Head(to) = to[1]
          /\ \A i \in 1 .. (Len(to) - 1) : Tail(to)[i] = to[i + 1]
      BY <1>1
    <2>2. ASSUME NEW i \in 1 .. Len(to)
          PROVE  to[i] = Head(to) \/ \E j \in 1 .. Len(Tail(to)) : Tail(to)[j] = to[i]
      <3>1. CASE i # 1
        <4>1. i - 1 \in 1 .. Len(Tail(to)) /\ (i - 1) + 1 = i
          BY <2>1, <3>1
        <4>2. Tail(to)[i - 1] = to[i]
          BY <2>1, <4>1
        <4> QED
          BY <4>1, <4>2
      <3> QED
        BY <2>1, <3>1
    <2>3. ASSUME NEW j \in 1 .. Len(Tail(to))
          PROVE  \E i \in 1 .. Len(to) : to[i] = Tail(to)[j]
      <3>1. j + 1 \in 1 .. Len(to) /\ to[j + 1] = Tail(to)[j]
        BY <2>1
      <3> QED
        BY <3>1
    <2>4. 1 \in 1 .. Len(to)
      BY <2>1
    <2>5. OnWay(to, r) <=> Head(to) = r \/ OnWay(Tail(to), r)
      BY <2>1, <2>2, <2>3, <2>4, Zenon DEF OnWay
    <2>6. Back(to, r) <=> Head(to).req = r \/ Back(Tail(to), r)
      <3>1. Back(to, r) => Head(to).req = r \/ Back(Tail(to), r)
        BY <2>2, Zenon DEF Back
      <3>2. Head(to).req = r \/ Back(Tail(to), r) => Back(to, r)
        BY <2>1, <2>3, <2>4, Zenon DEF Back
      <3> QED
        BY <3>1, <3>2
    <2> QED
      BY <2>5, <2>6
  <1> QED
    BY <1>1, Zenon

\* Nothing is on an empty connection.
LEMMA NoneOnWay == \A r : ~OnWay(<<>>, r) /\ ~Back(<<>>, r)
  BY DEF OnWay, Back

\* What a connection carries is the request in its chanWait, once.
LEMMA CarriesOne ==
    ASSUME NEW to \in Seq(Requests \cup {"ping"}), NEW from \in Seq(Messages), NEW wait,
           InOrder(to, from, wait), NEW r \in Requests
    PROVE  /\ OnWay(to, r) => wait = r /\ \A q \in Requests : ~Back(from, q)
           /\ Back(from, r) => wait = r /\ \A q \in Requests : ~OnWay(to, q)
           /\ to # <<>> /\ Head(to) = r => ~OnWay(Tail(to), r)
           /\ from # <<>> /\ Head(from).req = r => ~Back(Tail(from), r)
           /\ Empty(to, from) => ~OnWay(to, r) /\ ~Back(from, r)
  <1>1. \A q \in Requests, i \in 1 .. Len(to) : to[i] = q => i \in Sent(to)
    BY InstanceAssumption DEF Sent
  <1>2. \A q \in Requests, i \in 1 .. Len(from) : from[i].req = q => i \in Replied(from)
    <2>1. \A m \in Messages : m.req \in Requests => m.type \in {"response", "error"}
      BY InstanceAssumption, MessageFacts DEF Messages
    <2> QED
      BY <2>1 DEF Replied
  <1>3. OnWay(to, r) => wait = r /\ \A q \in Requests : ~Back(from, q)
    BY <1>1, <1>2 DEF OnWay, Back, InOrder
  <1>4. Back(from, r) => wait = r /\ \A q \in Requests : ~OnWay(to, q)
    BY <1>1, <1>2 DEF OnWay, Back, InOrder
  <1>5. ASSUME to # <<>>, Head(to) = r, NEW i \in 1 .. Len(Tail(to)), Tail(to)[i] = r PROVE FALSE
    <2>1. /\ i + 1 \in 1 .. Len(to) /\ 1 \in 1 .. Len(to) /\ i + 1 # 1
          /\ to[1] = r /\ to[i + 1] = r
      BY <1>5
    <2> QED
      BY <1>1, <2>1 DEF InOrder
  <1>6. ASSUME from # <<>>, Head(from).req = r, NEW i \in 1 .. Len(Tail(from)),
               Tail(from)[i].req = r
        PROVE FALSE
    <2>1. /\ i + 1 \in 1 .. Len(from) /\ 1 \in 1 .. Len(from) /\ i + 1 # 1
          /\ Head(from) = from[1] /\ Tail(from)[i] = from[i + 1]
      BY <1>6
    <2> QED
      BY <1>2, <1>6, <2>1 DEF InOrder
  <1>7. Empty(to, from) => ~OnWay(to, r) /\ ~Back(from, r)
    BY <1>1, <1>2 DEF OnWay, Back, Empty
  <1> QED
    BY <1>3, <1>4, <1>5, <1>6, <1>7 DEF OnWay, Back

\* A request that a connection carries is the one in its chanWait, which no other connection
\* and nobody else has; who holds it has it alone.
Apart ==
    \A r \in Requests :
        /\ \A x \in Conns : OnWay(toLambda[x], r) \/ Back(fromLambda[x], r) =>
             /\ chanWait[x] = r /\ r \notin {chanReq, req} /\ status[r] # "new"
             /\ \A y \in Conns : OnWay(toLambda[y], r) \/ Back(fromLambda[y], r) => y = x
             /\ OnWay(toLambda[x], r) => ~Back(fromLambda[x], r)
        /\ r \in {chanReq, req} => status[r] # "new"

\* That follows from the invariants: a connection carries at most what is in its chanWait.
LEMMA PlacesApart == IInv /\ OnceInv => Apart
  <1> SUFFICES ASSUME IInv, OnceInv, NEW r \in Requests
               PROVE  /\ \A x \in Conns : OnWay(toLambda[x], r) \/ Back(fromLambda[x], r) =>
                           /\ chanWait[x] = r /\ r \notin {chanReq, req} /\ status[r] # "new"
                           /\ \A y \in Conns : OnWay(toLambda[y], r) \/ Back(fromLambda[y], r) => y = x
                           /\ OnWay(toLambda[x], r) => ~Back(fromLambda[x], r)
                      /\ r \in {chanReq, req} => status[r] # "new"
    BY DEF Apart
  <1>0. r # None
    BY InstanceAssumption
  <1>1. ASSUME NEW x \in Conns, OnWay(toLambda[x], r) \/ Back(fromLambda[x], r)
        PROVE  /\ chanWait[x] = r /\ ~Flushing(x)
               /\ OnWay(toLambda[x], r) => ~Back(fromLambda[x], r)
    <2>1. toLambda[x] \in Seq(Requests \cup {"ping"}) /\ fromLambda[x] \in Seq(Messages)
      BY DEF IInv, LambdaType
    <2>2. /\ InOrder(toLambda[x], fromLambda[x], chanWait[x])
          /\ Flushing(x) => Empty(toLambda[x], fromLambda[x])
      BY DEF IInv, OrderInv
    <2> QED
      BY <1>1, <2>1, <2>2, CarriesOne
  <1>2. ASSUME NEW x \in Conns, chanWait[x] = r, ~Flushing(x)
        PROVE  /\ r \notin {chanReq, req} /\ status[r] # "new"
               /\ \A y \in Conns : chanWait[y] = r => y = x
    BY <1>0, <1>2 DEF OnceInv
  <1>3. r \in {chanReq, req} => status[r] # "new"
    BY <1>0 DEF IInv, ArrivedInv
  <1> QED
    BY <1>1, <1>2, <1>3

\* What Stage says in each place.
Places ==
    \A r \in Requests :
        /\ status[r] = "new" => Stage(r) = "none"
        /\ Written(r) => Stage(r) = "sent"
        /\ Executed(r) => Stage(r) = "replied"
        /\ r \in {chanReq, req} => Stage(r) = "held"
        /\ status[r] # "new" /\ ~Written(r) /\ ~Executed(r) /\ r \notin {chanReq, req}
           => Stage(r) = "gone"

\* So that Stage's cases exclude each other.
LEMMA StagePlaces == IInv /\ OnceInv => Places
  <1> SUFFICES ASSUME IInv, OnceInv, NEW r \in Requests
               PROVE  /\ status[r] = "new" => Stage(r) = "none"
                      /\ Written(r) => Stage(r) = "sent"
                      /\ Executed(r) => Stage(r) = "replied"
                      /\ r \in {chanReq, req} => Stage(r) = "held"
                      /\ status[r] # "new" /\ ~Written(r) /\ ~Executed(r) /\ r \notin {chanReq, req}
                         => Stage(r) = "gone"
    BY DEF Places
  <1>1. Apart
    BY PlacesApart
  <1>2. Written(r) => status[r] # "new"
    BY <1>1 DEF Apart, Written, OnWay
  <1>3. Executed(r) => status[r] # "new" /\ ~Written(r)
    BY <1>1 DEF Apart, Written, Executed, OnWay, Back
  <1>4. r \in {chanReq, req} => status[r] # "new" /\ ~Written(r) /\ ~Executed(r)
    BY <1>1 DEF Apart, Written, Executed, OnWay, Back
  <1> QED
    BY <1>2, <1>3, <1>4 DEF Stage

\* Of the next state too.
LEMMA StagePlacesNext == IInv' /\ OnceInv' => Places'
  BY StagePlaces, PTL

\* Written and Executed, connection by connection.
LEMMA Carriers ==
    \A r \in Requests : /\ Written(r) <=> \E x \in Conns : OnWay(toLambda[x], r)
                        /\ Executed(r) <=> \E x \in Conns : Back(fromLambda[x], r)
  BY DEF Written, Executed, OnWay, Back

\* Of the next state too.
LEMMA CarriersNext ==
    \A r \in Requests : /\ Written(r)' <=> \E x \in Conns : OnWay(toLambda'[x], r)
                        /\ Executed(r)' <=> \E x \in Conns : Back(fromLambda'[x], r)
  BY DEF Written, Executed, OnWay, Back

-----------------------------------------------------------------------------
\* Request r, and no other, moves to another stage.
LEMMA OneMoves ==
    ASSUME NEW r \in Requests, NEW from, NEW to, Stage(r) \in from, Stage(r)' = to,
           \A q \in Requests \ {r} : Stage(q)' = Stage(q)
    PROVE  RR!Move(r, from, to)
  BY DEF RR!Move

\* None does.
LEMMA NoneMoves ==
    ASSUME \A q \in Requests : Stage(q)' = Stage(q)
    PROVE  [q \in Requests |-> Stage(q)]' = [q \in Requests |-> Stage(q)]
  OBVIOUS

\* Where the place of a request is the same, so is its stage.
LEMMA SamePlace ==
    ASSUME NEW q, status'[q] = "new" <=> status[q] = "new",
           Written(q)' <=> Written(q), Executed(q)' <=> Executed(q),
           q \in {chanReq, req}' <=> q \in {chanReq, req}
    PROVE  Stage(q)' = Stage(q)
  BY DEF Stage

\* A step that leaves all requests where they are is a stuttering step,
LEMMA Stutters ==
    ASSUME UNCHANGED status,
           \A q \in Requests : /\ Written(q)' <=> Written(q)
                               /\ Executed(q)' <=> Executed(q)
                               /\ q \in {chanReq, req}' <=> q \in {chanReq, req}
    PROVE  [RR!Next]_(RR!vars)
  <1>1. \A q \in Requests : Stage(q)' = Stage(q)
    BY SamePlace
  <1> QED
    BY <1>1, NoneMoves DEF RR!vars

\* as is one that touches neither the requests nor the connections.
LEMMA StuttersIdle ==
    ASSUME UNCHANGED <<status, chanReq, req, toLambda, fromLambda>>
    PROVE  [RR!Next]_(RR!vars)
  <1>1. \A q \in Requests : (Written(q)' <=> Written(q)) /\ (Executed(q)' <=> Executed(q))
    BY DEF Written, Executed
  <1> QED
    BY <1>1, Stutters

\* Connections other than x are left alone: what x carries decides.
LEMMA AtConnection ==
    ASSUME NEW x \in Conns, NEW q \in Requests,
           \A y \in Conns \ {x} : toLambda'[y] = toLambda[y] /\ fromLambda'[y] = fromLambda[y]
    PROVE  /\ (OnWay(toLambda'[x], q) <=> OnWay(toLambda[x], q)) => (Written(q)' <=> Written(q))
           /\ (Back(fromLambda'[x], q) <=> Back(fromLambda[x], q)) => (Executed(q)' <=> Executed(q))
  BY Carriers, CarriersNext

\* A message that is no request and no response is said, read or both.
LEMMA StuttersAt ==
    ASSUME UNCHANGED <<status, chanReq, req>>, NEW x \in Conns,
           \A y \in Conns \ {x} : toLambda'[y] = toLambda[y] /\ fromLambda'[y] = fromLambda[y],
           \A q \in Requests : /\ OnWay(toLambda'[x], q) <=> OnWay(toLambda[x], q)
                               /\ Back(fromLambda'[x], q) <=> Back(fromLambda[x], q)
    PROVE  [RR!Next]_(RR!vars)
  <1>1. \A q \in Requests : (Written(q)' <=> Written(q)) /\ (Executed(q)' <=> Executed(q))
    BY AtConnection
  <1> QED
    BY <1>1, Stutters

\* A request ends up nowhere: dropped if nobody waits for it, or nobody is told.
LEMMA Drops ==
    ASSUME NEW r \in Requests, Stage(r) \in {"held", "sent", "replied"}, UNCHANGED status,
           Stage(r)' = "gone", \A q \in Requests \ {r} : Stage(q)' = Stage(q)
    PROVE  RR!Next
  <1>1. RR!Move(r, {"held", "sent", "replied"}, "gone")
    BY OneMoves
  <1>2. RR!Drop(r)
    BY <1>1 DEF RR!Drop
  <1> QED
    BY <1>2 DEF RR!Next

\* Messages of connection x are lost: at most one of them is a request or a response.
LEMMA Lost ==
    ASSUME IInv, OnceInv, UNCHANGED <<status, chanReq, req>>, NEW x \in Conns,
           \A y \in Conns \ {x} : toLambda'[y] = toLambda[y] /\ fromLambda'[y] = fromLambda[y],
           \A q \in Requests : /\ OnWay(toLambda'[x], q) => OnWay(toLambda[x], q)
                               /\ Back(fromLambda'[x], q) => Back(fromLambda[x], q)
    PROVE  [RR!Next]_(RR!vars)
  <1>0. Apart /\ Places
    BY PlacesApart, StagePlaces
  <1> DEFINE Carried(q) == OnWay(toLambda[x], q) \/ Back(fromLambda[x], q)
             Left(q) == OnWay(toLambda'[x], q) \/ Back(fromLambda'[x], q)
  <1>1. CASE \A q \in Requests : Carried(q) => Left(q)
    <2>1. \A q \in Requests : /\ OnWay(toLambda'[x], q) <=> OnWay(toLambda[x], q)
                              /\ Back(fromLambda'[x], q) <=> Back(fromLambda[x], q)
      BY <1>0, <1>1 DEF Apart
    <2> QED
      BY <2>1, StuttersAt
  <1>2. ASSUME NEW r \in Requests, Carried(r), ~Left(r) PROVE [RR!Next]_(RR!vars)
    <2>1. /\ chanWait[x] = r /\ r \notin {chanReq, req} /\ status[r] # "new"
          /\ \A y \in Conns \ {x} : ~OnWay(toLambda[y], r) /\ ~Back(fromLambda[y], r)
      BY <1>0, <1>2 DEF Apart
    <2>2. Stage(r) \in {"sent", "replied"}
      BY <1>0, <1>2, Carriers DEF Places
    <2>3. ~Written(r)' /\ ~Executed(r)'
      BY <1>2, <2>1, CarriersNext
    <2>4. Stage(r)' = "gone"
      BY <2>1, <2>3 DEF Stage
    <2>5. ASSUME NEW q \in Requests \ {r} PROVE Stage(q)' = Stage(q)
      <3>1. ~Carried(q)
        BY <1>0, <2>1 DEF Apart
      <3>2. (Written(q)' <=> Written(q)) /\ (Executed(q)' <=> Executed(q))
        BY <3>1, AtConnection
      <3> QED
        BY <3>2, SamePlace
    <2> QED
      BY <2>2, <2>4, <2>5, Drops
  <1> QED
    BY <1>1, <1>2

\* The answer of request r arrives on connection x: its client is told, if it still waits.
LEMMA Delivers ==
    ASSUME IInv, OnceInv, UNCHANGED <<chanReq, req, toLambda>>, NEW x \in Conns,
           fromLambda' = [fromLambda EXCEPT ![x] = Tail(@)],
           NEW r \in Requests, fromLambda[x] # <<>>, Head(fromLambda[x]).req = r,
           NEW answer \in {"answered", "error"},
           status' = IF status[r] = "waiting" THEN [status EXCEPT ![r] = answer] ELSE status
    PROVE  [RR!Next]_(RR!vars)
  <1>0. Apart /\ Places
    BY PlacesApart, StagePlaces
  <1>1. /\ toLambda[x] \in Seq(Requests \cup {"ping"}) /\ fromLambda[x] \in Seq(Messages)
        /\ fromLambda'[x] = Tail(fromLambda[x])
        /\ \A y \in Conns \ {x} : fromLambda'[y] = fromLambda[y]
        /\ InOrder(toLambda[x], fromLambda[x], chanWait[x])
    BY DEF IInv, LambdaType, OrderInv
  <1>2. Back(fromLambda[x], r) /\ ~Back(fromLambda'[x], r)
    <2>1. Back(fromLambda[x], r)
      BY <1>1, TakenFirst
    <2>2. ~Back(Tail(fromLambda[x]), r)
      BY <1>1, CarriesOne
    <2> QED
      BY <1>1, <2>1, <2>2
  <1>3. /\ chanWait[x] = r /\ r \notin {chanReq, req} /\ status[r] # "new"
        /\ ~OnWay(toLambda[x], r)
        /\ \A y \in Conns \ {x} : ~OnWay(toLambda[y], r) /\ ~Back(fromLambda[y], r)
    BY <1>0, <1>2 DEF Apart
  <1>4. Stage(r) = "replied"
    BY <1>0, <1>2, Carriers DEF Places
  <1>5. ~Written(r)' /\ ~Executed(r)' /\ status'[r] # "new"
    <2>1. status'[r] # "new"
      BY <1>3 DEF IInv, ReqType
    <2> QED
      BY <1>1, <1>2, <1>3, <2>1, CarriersNext
  <1>6. Stage(r)' = "gone"
    BY <1>3, <1>5 DEF Stage
  <1>7. ASSUME NEW q \in Requests \ {r} PROVE Stage(q)' = Stage(q)
    <2>1. ~Back(fromLambda[x], q) /\ ~Back(fromLambda'[x], q)
      BY <1>0, <1>1, <1>3, TakenFirst DEF Apart
    <2>2. (Written(q)' <=> Written(q)) /\ (Executed(q)' <=> Executed(q))
      BY <1>1, <2>1, AtConnection
    <2>3. status'[q] = status[q]
      BY DEF IInv, ReqType
    <2> QED
      BY <2>2, <2>3, SamePlace
  <1>8. CASE status[r] = "waiting"
    <2>1. RR!Move(r, {"replied"}, "gone")
      BY <1>4, <1>6, <1>7, OneMoves
    <2>2. RR!Deliver(r)
      BY <1>8, <2>1 DEF RR!Deliver, RR!Tell
    <2> QED
      BY <2>2 DEF RR!Next
  <1>9. CASE status[r] # "waiting"
    BY <1>4, <1>6, <1>7, <1>9, Drops
  <1> QED
    BY <1>8, <1>9

-----------------------------------------------------------------------------
\* Arrive submits a request.
LEMMA ArriveSubmits ==
    ASSUME IInv, OnceInv, IInv', OnceInv', NEW r \in Requests, Arrive(r)
    PROVE  [RR!Next]_(RR!vars)
  <1> USE DEF Arrive, lambdaVars, handlerVars
  <1>1. Places /\ Places'
    BY StagePlaces, StagePlacesNext
  <1>2. Stage(r) = "none" /\ Stage(r)' = "held"
    BY <1>1 DEF Places
  <1>3. \A q \in Requests \ {r} : Stage(q)' = Stage(q)
    <2>1. \A q \in Requests : (Written(q)' <=> Written(q)) /\ (Executed(q)' <=> Executed(q))
      BY DEF Written, Executed
    <2>2. \A q \in Requests \ {r} : /\ status'[q] = status[q]
                                    /\ q \in {chanReq, req}' <=> q \in {chanReq, req}
      BY InstanceAssumption DEF IInv, ReqType
    <2> QED
      BY <2>1, <2>2, SamePlace
  <1>4. RR!Move(r, {"none"}, "held")
    BY <1>2, <1>3, OneMoves
  <1>5. RR!Submit(r)
    BY <1>4 DEF RR!Submit
  <1> QED
    BY <1>5 DEF RR!Next

\* Take moves a request inside the instance.
LEMMA TakeStutters ==
    ASSUME IInv, OnceInv, Take
    PROVE  [RR!Next]_(RR!vars)
  <1> USE DEF Take, reqVars, lambdaVars
  <1>1. \A q \in Requests : (Written(q)' <=> Written(q)) /\ (Executed(q)' <=> Executed(q))
    BY DEF Written, Executed
  <1>2. \A q \in Requests : q \in {chanReq, req}' <=> q \in {chanReq, req}
    BY InstanceAssumption DEF OnceInv
  <1> QED
    BY <1>1, <1>2, Stutters

\* Flush sends the request HandleRequests has, or loses it if the container is gone.
LEMMA FlushSends ==
    ASSUME IInv, OnceInv, IInv', OnceInv', Flush
    PROVE  [RR!Next]_(RR!vars)
  <1> USE DEF Flush, IterationEnds
  <1> DEFINE x == conn["handler"]
  <1>1. /\ x \in Conns /\ req \in Requests /\ req # None
        /\ toLambda[x] \in Seq(Requests \cup {"ping"})
    BY InstanceAssumption DEF IInv, HandlerType, HandlerInv, LambdaType, Validators
  <1>2. Places /\ Places' /\ Apart
    BY StagePlaces, StagePlacesNext, PlacesApart
  <1>3. Stage(req) = "held" /\ status[req] # "new"
    BY <1>1, <1>2 DEF Places, Apart
  <1>4. /\ \A y \in Conns \ {x} : toLambda'[y] = toLambda[y]
        /\ toLambda'[x] = IF life[x] # "dead" THEN Append(toLambda[x], req) ELSE toLambda[x]
        /\ UNCHANGED <<status, chanReq, fromLambda>> /\ req' = None
    BY <1>1 DEF IInv, LambdaType
  <1>5. \A q \in Requests \ {req} : Stage(q)' = Stage(q)
    <2> SUFFICES ASSUME NEW q \in Requests \ {req} PROVE Stage(q)' = Stage(q)
      OBVIOUS
    <2>1. OnWay(toLambda'[x], q) <=> OnWay(toLambda[x], q)
      <3>1. OnWay(Append(toLambda[x], req), q) <=> OnWay(toLambda[x], q)
        BY <1>1, SaidLast
      <3> QED
        BY <1>4, <3>1
    <2>2. (Written(q)' <=> Written(q)) /\ (Executed(q)' <=> Executed(q))
      BY <1>1, <1>4, <2>1, AtConnection
    <2>3. q \in {chanReq, req}' <=> q \in {chanReq, req}
      BY <1>4, InstanceAssumption
    <2> QED
      BY <1>4, <2>2, <2>3, SamePlace
  <1>6. CASE life[x] # "dead"
    <2>1. OnWay(toLambda'[x], req)
      BY <1>1, <1>4, <1>6, SaidLast
    <2>2. PICK r \in Requests : r = req
      BY <1>1
    <2>3. Stage(r)' = "sent"
      <3>1. Written(r)'
        BY <1>1, <2>1, <2>2, CarriersNext
      <3> QED
        BY <1>2, <3>1 DEF Places
    <2>4. RR!Move(r, {"held"}, "sent")
      BY <1>3, <1>5, <2>2, <2>3, OneMoves
    <2>5. RR!Send(r)
      BY <1>4, <2>4 DEF RR!Send
    <2> QED
      BY <2>5 DEF RR!Next
  <1>7. CASE life[x] = "dead"
    <2>1. PICK r \in Requests : r = req
      BY <1>1
    <2>2. toLambda' = toLambda
      BY <1>7
    <2>3. ~Written(r)' /\ ~Executed(r)'
      BY <1>2, <1>4, <2>1, <2>2 DEF Apart, Written, Executed, OnWay, Back
    <2>4. r \notin {chanReq, req}' /\ status'[r] # "new"
      BY <1>1, <1>3, <1>4, <2>1 DEF OnceInv
    <2>5. Stage(r)' = "gone"
      BY <2>3, <2>4 DEF Stage
    <2> QED
      BY <1>3, <1>4, <1>5, <2>1, <2>5, Drops
  <1> QED
    BY <1>6, <1>7

\* FlushFailed keeps it for another attempt, or gives up.
LEMMA FlushFailedFails ==
    ASSUME IInv, OnceInv, FlushFailed
    PROVE  [RR!Next]_(RR!vars)
  <1> USE DEF FlushFailed, lambdaVars
  <1>1. req \in Requests /\ req # None
    BY InstanceAssumption DEF IInv, HandlerType, HandlerInv
  <1>2. PICK r \in Requests : r = req
    BY <1>1
  <1>3. Places /\ Apart
    BY StagePlaces, PlacesApart
  <1>4. Stage(r) = "held" /\ status[r] # "new" /\ r # chanReq
    BY <1>1, <1>2, <1>3 DEF Places, Apart, OnceInv
  <1>5. UNCHANGED <<chanReq, toLambda, fromLambda>>
    OBVIOUS
  <1>6. \A q \in Requests : (Written(q)' <=> Written(q)) /\ (Executed(q)' <=> Executed(q))
    BY <1>5 DEF Written, Executed
  <1>7. CASE MoreAttempts
    BY <1>5, <1>7, StuttersIdle
  <1>8. CASE ~MoreAttempts
    <2>1. /\ req' = None
          /\ status' = IF status[r] = "waiting" THEN [status EXCEPT ![r] = "error"] ELSE status
      BY <1>2, <1>8 DEF IterationEnds, SetResponse
    <2>2. status'[r] # "new" /\ \A q \in Requests \ {r} : status'[q] = status[q]
      BY <1>4, <2>1 DEF IInv, ReqType
    <2>3. ~Written(r)' /\ ~Executed(r)'
      <3>1. ~Written(r) /\ ~Executed(r)
        BY <1>2, <1>3, Carriers DEF Apart
      <3> QED
        BY <1>6, <3>1
    <2>4. r \notin {chanReq, req}'
      BY <1>1, <1>2, <1>4, <1>5, <2>1
    <2>5. Stage(r)' = "gone"
      BY <2>2, <2>3, <2>4 DEF Stage
    <2>6. \A q \in Requests \ {r} : Stage(q)' = Stage(q)
      <3>1. \A q \in Requests \ {r} : q \in {chanReq, req}' <=> q \in {chanReq, req}
        BY <1>2, <1>5, <2>1, InstanceAssumption
      <3> QED
        BY <1>6, <2>2, <3>1, SamePlace
    <2>7. CASE status[r] = "waiting"
      <3>1. RR!Move(r, {"held", "gone"}, "gone")
        BY <1>4, <2>5, <2>6, OneMoves
      <3>2. RR!Fail(r)
        BY <2>1, <2>7, <3>1 DEF RR!Fail, RR!Tell
      <3> QED
        BY <3>2 DEF RR!Next
    <2>8. CASE status[r] # "waiting"
      BY <1>4, <2>1, <2>5, <2>6, <2>8, Drops
    <2> QED
      BY <2>7, <2>8
  <1> QED
    BY <1>7, <1>8

\* A validation moves no request: it writes pings.
LEMMA ValidateStutters ==
    ASSUME IInv, NEW v \in Validators, ValidateSteps(v)
    PROVE  [RR!Next]_(RR!vars)
  <1>1. CASE Ping(v)
    <2>1. UNCHANGED <<status, chanReq, req, fromLambda>> /\ cn \in Conns
      BY <1>1 DEF Ping, handlerVars, reqVars, IInv, NilInv, InsType
    <2>2. toLambda[cn] \in Seq(Requests \cup {"ping"})
      BY <2>1 DEF IInv, LambdaType
    <2>3. /\ \A y \in Conns \ {cn} : toLambda'[y] = toLambda[y]
          /\ toLambda'[cn] \in {toLambda[cn], Append(toLambda[cn], "ping")}
      BY <1>1, <2>1 DEF Ping, IInv, LambdaType
    <2>4. \A q \in Requests : OnWay(toLambda'[cn], q) <=> OnWay(toLambda[cn], q)
      <3>1. \A q \in Requests : OnWay(Append(toLambda[cn], "ping"), q) <=> OnWay(toLambda[cn], q)
        BY <2>2, SaidLast, InstanceAssumption
      <3> QED
        BY <2>3, <3>1
    <2>5. PICK x \in Conns : x = cn
      BY <2>1
    <2> QED
      BY <2>1, <2>3, <2>4, <2>5, StuttersAt
  <1>2. CASE ~Ping(v)
    <2>1. UNCHANGED <<status, chanReq, req, toLambda, fromLambda>>
      BY <1>2 DEF ValidateSteps, Validate, Check, TryTriggerLambda, ReadConnection, WarmedUp,
         PingTimeout, Validated, Return, handlerVars, reqVars, lambdaVars
    <2> QED
      BY <2>1, StuttersIdle
  <1> QED
    BY <1>1, <1>2

\* Neither do a pong or a bye of a lambda, or a pong, a bye or an eof that is read.
LEMMA SayStutters ==
    ASSUME IInv, NEW x \in Conns, UNCHANGED <<status, chanReq, req, toLambda>>,
           \/ \E type \in {"pong", "bye"} :
                fromLambda' = [fromLambda EXCEPT ![x] = Append(@, Message(type, None))]
           \/ \E type \in {"pong", "bye", "eof"} : Read(x, type)
    PROVE  [RR!Next]_(RR!vars)
  <1>1. fromLambda[x] \in Seq(Messages)
    BY DEF IInv, LambdaType
  <1>2. \A y \in Conns \ {x} : fromLambda'[y] = fromLambda[y]
    BY DEF Read, IInv, LambdaType
  <1>3. ASSUME NEW type \in {"pong", "bye"},
               fromLambda' = [fromLambda EXCEPT ![x] = Append(@, Message(type, None))]
        PROVE  \A q \in Requests : Back(fromLambda'[x], q) <=> Back(fromLambda[x], q)
    <2>1. fromLambda'[x] = Append(fromLambda[x], Message(type, None))
      BY <1>3 DEF IInv, LambdaType
    <2>2. Message(type, None) \in Messages /\ Message(type, None).req = None
      BY MessageFacts
    <2> QED
      BY <1>1, <2>1, <2>2, SaidLast, InstanceAssumption
  <1>4. ASSUME NEW type \in {"pong", "bye", "eof"}, Read(x, type)
        PROVE  \A q \in Requests : Back(fromLambda'[x], q) <=> Back(fromLambda[x], q)
    <2>1. /\ fromLambda'[x] = Tail(fromLambda[x]) /\ fromLambda[x] # <<>>
          /\ Head(fromLambda[x]) \in Messages /\ Head(fromLambda[x]).type = type
      BY <1>1, <1>4 DEF Read, IInv, LambdaType
    <2>2. \A m \in Messages : m.type \in {"pong", "bye", "eof"} => m.req = None
      BY MessageFacts DEF Messages
    <2> QED
      BY <1>1, <2>1, <2>2, TakenFirst, InstanceAssumption
  <1> QED
    BY <1>2, <1>3, <1>4, StuttersAt

\* Answer executes a request.
LEMMA AnswerExecutes ==
    ASSUME IInv, OnceInv, IInv', OnceInv', NEW x \in Conns, Answer(x)
    PROVE  [RR!Next]_(RR!vars)
  <1>1. /\ toLambda[x] \in Seq(Requests \cup {"ping"}) /\ fromLambda[x] \in Seq(Messages)
        /\ toLambda[x] # <<>> /\ toLambda'[x] = Tail(toLambda[x])
        /\ \A y \in Conns \ {x} : toLambda'[y] = toLambda[y] /\ fromLambda'[y] = fromLambda[y]
        /\ InOrder(toLambda[x], fromLambda[x], chanWait[x])
        /\ UNCHANGED <<status, chanReq, req>>
    BY DEF Answer, handlerVars, reqVars, IInv, LambdaType, OrderInv
  <1>2. Head(toLambda[x]) \in Requests \cup {"ping"}
    BY <1>1
  <1>3. CASE Head(toLambda[x]) = "ping"
    <2>1. fromLambda'[x] = Append(fromLambda[x], Message("pong", None))
      BY <1>3 DEF Answer, IInv, LambdaType
    <2>2. Message("pong", None) \in Messages /\ Message("pong", None).req = None
      BY MessageFacts
    <2>3. \A q \in Requests : /\ OnWay(toLambda'[x], q) <=> OnWay(toLambda[x], q)
                              /\ Back(fromLambda'[x], q) <=> Back(fromLambda[x], q)
      BY <1>1, <1>3, <2>1, <2>2, TakenFirst, SaidLast, InstanceAssumption
    <2> QED
      BY <1>1, <2>3, StuttersAt
  <1>4. CASE Head(toLambda[x]) \in Requests
    <2>1. PICK r \in Requests : r = Head(toLambda[x])
      BY <1>4
    <2>2. PICK type \in {"response", "error"} :
            fromLambda'[x] = Append(fromLambda[x], Message(type, r))
      BY <1>1, <2>1, InstanceAssumption DEF Answer, IInv, LambdaType
    <2>3. Message(type, r) \in Messages /\ Message(type, r).req = r
      BY MessageFacts
    <2>4. OnWay(toLambda[x], r) /\ Back(fromLambda'[x], r)
      BY SMTT(30), <1>1, <2>1, <2>2, <2>3, TakenFirst, SaidLast
    <2>5. Places /\ Places'
      BY StagePlaces, StagePlacesNext
    <2>6. Stage(r) = "sent"
      <3>1. Written(r)
        BY <2>4, Carriers
      <3> QED
        BY <2>5, <3>1 DEF Places
    <2>7. Stage(r)' = "replied"
      <3>1. Executed(r)'
        BY <2>4, CarriersNext
      <3> QED
        BY <2>5, <3>1 DEF Places
    <2>8. ASSUME NEW q \in Requests \ {r} PROVE Stage(q)' = Stage(q)
      <3>1. OnWay(toLambda'[x], q) <=> OnWay(toLambda[x], q)
        BY <1>1, <2>1, TakenFirst
      <3>2. Back(fromLambda'[x], q) <=> Back(fromLambda[x], q)
        BY <1>1, <2>2, <2>3, SaidLast
      <3>3. (Written(q)' <=> Written(q)) /\ (Executed(q)' <=> Executed(q))
        BY <1>1, <3>1, <3>2, AtConnection
      <3> QED
        BY <1>1, <3>3, SamePlace
    <2>9. RR!Move(r, {"sent"}, "replied")
      BY <2>6, <2>7, <2>8, OneMoves
    <2>10. RR!Execute(r)
      BY <1>1, <2>9 DEF RR!Execute
    <2> QED
      BY <2>10 DEF RR!Next
  <1> QED
    BY <1>2, <1>3, <1>4

\* Reclaim loses what is on its way to the container.
LEMMA ReclaimDrops ==
    ASSUME IInv, OnceInv, NEW x \in Conns, Reclaim(x)
    PROVE  [RR!Next]_(RR!vars)
  <1>1. /\ fromLambda[x] \in Seq(Messages) /\ toLambda'[x] = <<>>
        /\ fromLambda'[x] = Append(fromLambda[x], Message("eof", None))
        /\ \A y \in Conns \ {x} : toLambda'[y] = toLambda[y] /\ fromLambda'[y] = fromLambda[y]
        /\ UNCHANGED <<status, chanReq, req>>
    BY DEF Reclaim, handlerVars, reqVars, IInv, LambdaType
  <1>2. Message("eof", None) \in Messages /\ Message("eof", None).req = None
    BY MessageFacts
  <1>3. \A q \in Requests : Back(fromLambda'[x], q) <=> Back(fromLambda[x], q)
    BY <1>1, <1>2, SaidLast, InstanceAssumption
  <1> QED
    BY <1>1, <1>3, NoneOnWay, Lost

\* CloseSocket loses what the connection carries, either way.
LEMMA CloseSocketDrops ==
    ASSUME IInv, OnceInv, NEW x \in Conns, CloseSocket(x)
    PROVE  [RR!Next]_(RR!vars)
  <1>1. /\ toLambda'[x] = <<>> /\ fromLambda'[x] = <<>>
        /\ \A y \in Conns \ {x} : toLambda'[y] = toLambda[y] /\ fromLambda'[y] = fromLambda[y]
        /\ UNCHANGED <<status, chanReq, req>>
    BY DEF CloseSocket, handlerVars, reqVars, IInv, LambdaType
  <1> QED
    BY <1>1, NoneOnWay, Lost

\* ResponseHandler and ErrorHandler deliver the answer.
LEMMA HandlersDeliver ==
    ASSUME IInv, OnceInv, NEW x \in Conns, ResponseHandler(x) \/ ErrorHandler(x)
    PROVE  [RR!Next]_(RR!vars)
  <1>1. /\ UNCHANGED <<chanReq, req, toLambda>>
        /\ fromLambda' = [fromLambda EXCEPT ![x] = Tail(@)] /\ fromLambda[x] # <<>>
        /\ Head(fromLambda[x]).type \in {"response", "error"}
    BY DEF ResponseHandler, ErrorHandler, Read, handlerVars
  <1>2. Head(fromLambda[x]).req = chanWait[x]
    BY <1>1, ReplyRead DEF IInv
  <1>3. Head(fromLambda[x]).req \in Requests
    <2>1. Head(fromLambda[x]) \in Messages
      BY <1>1 DEF IInv, LambdaType
    <2> QED
      BY <1>1, <2>1, MessageFacts
  <1>4. PICK r \in Requests : r = Head(fromLambda[x]).req
    BY <1>3
  <1>5. \E answer \in {"answered", "error"} :
          status' = IF status[r] = "waiting" THEN [status EXCEPT ![r] = answer] ELSE status
    BY <1>2, <1>4, InstanceAssumption DEF ResponseHandler, ErrorHandler, MatchResponse,
       SetErrorResponse, SetResponse
  <1> QED
    BY <1>1, <1>4, <1>5, Delivers

\* ClearResponses gives up on a request: the connection it was for carries nothing any more.
LEMMA ClearResponsesFails ==
    ASSUME IInv, OnceInv, NEW x \in Conns, ClearResponses(x)
    PROVE  [RR!Next]_(RR!vars)
  <1> USE DEF ClearResponses, lambdaVars, handlerVars
  <1>1. UNCHANGED <<chanReq, req, toLambda, fromLambda>>
    OBVIOUS
  <1>2. CASE status' = status
    BY <1>1, <1>2, StuttersIdle
  <1>3. CASE status' # status
    <2>1. PICK r \in Requests : /\ r = chanWait[x] /\ status[r] = "waiting"
                                /\ status' = [status EXCEPT ![r] = "error"]
      BY <1>3, InstanceAssumption DEF SetResponse, IInv, ConnType
    <2>2. Apart
      BY PlacesApart
    <2>3. toLambda[x] = <<>> /\ fromLambda[x] = <<>>
      BY DEF IInv, LifeInv
    <2>4. \A y \in Conns : chanWait[y] = r => y = x
      BY <2>1, InstanceAssumption DEF OnceInv
    <2>5. ~Written(r) /\ ~Executed(r)
      BY <2>2, <2>3, <2>4, NoneOnWay, Carriers DEF Apart
    <2>6. Stage(r) \in {"held", "gone"}
      BY <2>1, <2>5 DEF Stage
    <2>7. \A q \in Requests : (status'[q] = "new" <=> status[q] = "new")
      BY <2>1 DEF IInv, ReqType
    <2>8. \A q \in Requests : (Written(q)' <=> Written(q)) /\ (Executed(q)' <=> Executed(q))
      BY <1>1 DEF Written, Executed
    <2>9. \A q \in Requests : Stage(q)' = Stage(q)
      BY <1>1, <2>7, <2>8, SamePlace
    <2>10. RR!Fail(r)
      <3>1. CASE Stage(r) = "gone"
        <4>1. RR!Move(r, {"held", "gone"}, "gone")
          BY <2>9, <3>1, OneMoves
        <4> QED
          BY <2>1, <4>1 DEF RR!Fail, RR!Tell
      <3>2. CASE Stage(r) = "held"
        <4>1. [q \in Requests |-> Stage(q)]' = [q \in Requests |-> Stage(q)]
          BY <2>9, NoneMoves
        <4> QED
          BY <2>1, <3>2, <4>1 DEF RR!Fail, RR!Tell
      <3> QED
        BY <2>6, <3>1, <3>2
    <2> QED
      BY <2>10 DEF RR!Next
  <1> QED
    BY <1>2, <1>3

\* Every step of the instance is a step of the abstract specification or stutters.
LEMMA NextImplements ==
    IInv /\ OnceInv /\ IInv' /\ OnceInv' /\ [Next]_vars => [RR!Next]_(RR!vars)
  <1> SUFFICES ASSUME IInv, OnceInv, IInv', OnceInv', [Next]_vars PROVE [RR!Next]_(RR!vars)
    OBVIOUS
  <1>1. ASSUME NEW r \in Requests, Arrive(r) PROVE [RR!Next]_(RR!vars)
    BY <1>1, ArriveSubmits
  <1>2. CASE Cool \/ Push
    BY <1>2, StuttersIdle DEF Cool, Push, handlerVars, reqVars, lambdaVars
  <1>3. CASE HandleRequests
    BY <1>2, <1>3, TakeStutters, FlushSends, FlushFailedFails DEF HandleRequests
  <1>4. ASSUME NEW v \in Validators, ValidateSteps(v) PROVE [RR!Next]_(RR!vars)
    BY <1>4, ValidateStutters
  <1>5. ASSUME NEW t \in Triggers, TriggerLambda(t) PROVE [RR!Next]_(RR!vars)
    <2>1. ASSUME NEW x \in Conns, Invoke(t, x) PROVE [RR!Next]_(RR!vars)
      BY <2>1, SayStutters DEF Invoke, handlerVars, reqVars
    <2>2. CASE InvokeFailed(t) \/ Retrigger(t) \/ Deactivated(t)
      BY <2>2, StuttersIdle DEF InvokeFailed, Retrigger, Deactivated, handlerVars, reqVars,
         lambdaVars
    <2> QED
      BY <1>5, <2>1, <2>2 DEF TriggerLambda
  <1>6. ASSUME NEW x \in Conns, Answer(x) \/ Bye(x) \/ Reclaim(x) PROVE [RR!Next]_(RR!vars)
    <2>1. CASE Bye(x)
      BY <2>1, SayStutters DEF Bye, handlerVars, reqVars
    <2> QED
      BY <1>6, <2>1, AnswerExecutes, ReclaimDrops
  <1>7. ASSUME NEW x \in Conns, ServeLambda(x) PROVE [RR!Next]_(RR!vars)
    <2>1. CASE PongHandler(x) \/ ByeHandler(x) \/ Disconnected(x)
      <3>1. UNCHANGED <<status, chanReq, req, toLambda>>
        BY <2>1 DEF PongHandler, ByeHandler, Disconnected, Read, handlerVars
      <3>2. \E type \in {"pong", "bye", "eof"} : Read(x, type)
        BY <2>1 DEF PongHandler, ByeHandler, Disconnected
      <3> QED
        BY <3>1, <3>2, SayStutters
    <2>2. CASE Closed(x)
      BY <2>2, StuttersIdle DEF Closed, handlerVars, reqVars, lambdaVars
    <2> QED
      BY <1>7, <2>1, <2>2, HandlersDeliver, CloseSocketDrops, ClearResponsesFails DEF ServeLambda
  <1>8. CASE UNCHANGED vars
    BY <1>8, StuttersIdle DEF vars, handlerVars, reqVars, lambdaVars
  <1> QED
    BY <1>1, <1>3, <1>4, <1>5, <1>6, <1>7, <1>8 DEF Next

\* The instance implements RequestReply for any number of requests, connections, retries and
\* invocations: a request is executed once at most and its client gets the answer of that
\* execution or an error, the first of which is final (HandleRequests, handleRequest,
\* SetResponse, close, clearResponses).
THEOREM RequestsAtMostOnce == Spec => AtMostOnce
  <1>1. Init => RR!Init
    BY DEF Init, RR!Init, Stage
  <1>2. IInv /\ OnceInv /\ IInv' /\ OnceInv' /\ [Next]_vars => [RR!Next]_(RR!vars)
    BY NextImplements
  <1> QED
    BY <1>1, <1>2, Inductive, OnePlace, PTL DEF Spec, AtMostOnce, RR!Spec
=============================================================================
