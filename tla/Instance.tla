------------------------------ MODULE Instance ------------------------------
(***************************************************************************)
(* One lambda instance as the proxy sees it (proxy/lambdastore/instance.go *)
(* and connection.go, proxy/types/request.go): the goroutine               *)
(* HandleRequests, the initial WarmUp of server.New, the goroutines        *)
(* triggerLambda that invoke the function and wait for its return, and     *)
(* ServeLambda for every connection.                                       *)
(*                                                                         *)
(* The function itself is external: an invocation runs in a container that *)
(* is idle or in a new one; a container connects once, answers in the      *)
(* order it reads, says bye when it times out, and may be reclaimed while  *)
(* it is idle.  A container is identified with its connection: one that    *)
(* has lost its connection and opens another is another element of Conns.  *)
(*                                                                         *)
(* flagValidated, bye and IsValidating hold the instance's lock and are    *)
(* one step each; awake and cn are also accessed without it.               *)
(*                                                                         *)
(* Left out: control commands (DATA, MIGRATE) and the change of the        *)
(* deployment by a migration, Instance.Close, which only the end of the    *)
(* process calls, the early end of a GET that has enough chunks, and a     *)
(* write deadline that passes in the middle of a message.                  *)
(***************************************************************************)
EXTENDS Integers, Sequences

CONSTANTS
    Conns,       \* connections, with the container at the other end
    Requests,    \* requests of clients
    Streams,     \* those that stream a body (SET)
    Triggers,    \* goroutines triggerLambda
    None,
    MAX_RETRY,
    MaxQueue,    \* bound: messages of a lambda not yet read
    MaxInvocations, \* bound: invocations of the function that do not fail
    MaxTimeouts  \* bound: pings that time out although the lambda runs

Validators == {"init", "handler"}

ASSUME InstanceAssumption == /\ Streams \subseteq Requests
                             /\ None \notin Conns \cup Requests
                             /\ "ping" \notin Requests
                             /\ {"off", "invoke", "returned", "sleep"} \cap Conns = {}
ASSUME BoundAssumption == /\ MAX_RETRY \in Nat \ {0}
                          /\ MaxQueue \in Nat
                          /\ MaxInvocations \in Nat
                          /\ MaxTimeouts \in Nat

VARIABLES
    \* Instance
    cn, awake,
    validating,    \* chanValidated is open
    lastValidated,
    chanReq,       \* its element, None if it is empty
    \* validate and HandleRequests
    pc,
    conn,          \* the connection a validator has read
    warm,          \* HandleRequests is warming up
    req, attempt, retries,
    \* Connection
    signalled,     \* closed is closed
    socket,        \* "none", "open" or "closed"
    bound,         \* conn.instance is set
    chanWait,      \* its element, None if it is empty
    serve,         \* where ServeLambda is
    \* Request
    status,        \* "new", "waiting" or how it was answered
    streamingStarted,
    \* triggerLambda: "off", "invoke", the container that runs, "returned" or "sleep"
    trigger,
    \* the function and the network
    life, toLambda, fromLambda, invocations, timeouts

insVars == <<cn, awake, validating, lastValidated>>
handlerVars == <<warm, req, attempt, retries>>
connVars == <<signalled, socket, bound, chanWait, serve>>
reqVars == <<status, streamingStarted>>
lambdaVars == <<life, toLambda, fromLambda>>
vars == <<insVars, chanReq, pc, conn, handlerVars, connVars, reqVars, trigger, lambdaVars,
          invocations, timeouts>>

Message(type, r) == [type |-> type, req |-> r]

\* NewInstance, NewConnection.
Init ==
    /\ cn = None
    /\ awake = "sleep"
    /\ validating = FALSE
    /\ lastValidated = None
    /\ chanReq = None
    /\ pc = [v \in Validators |-> IF v = "init" THEN "validate" ELSE "idle"]
    /\ conn = [v \in Validators |-> None]
    /\ warm = FALSE
    /\ req = None
    /\ attempt = 0
    /\ retries = 0
    /\ signalled = [x \in Conns |-> FALSE]
    /\ socket = [x \in Conns |-> "none"]
    /\ bound = [x \in Conns |-> FALSE]
    /\ chanWait = [x \in Conns |-> None]
    /\ serve = [x \in Conns |-> "off"]
    /\ status = [r \in Requests |-> "new"]
    /\ streamingStarted = [r \in Requests |-> FALSE]
    /\ trigger = [t \in Triggers |-> "off"]
    /\ life = [x \in Conns |-> "absent"]
    /\ toLambda = [x \in Conns |-> <<>>]
    /\ fromLambda = [x \in Conns |-> <<>>]
    /\ invocations = 0
    /\ timeouts = 0

Goto(v, label) == pc' = [pc EXCEPT ![v] = label]

\* Request.SetResponse: only the first response counts.
SetResponse(r, response) ==
    status' = IF status[r] = "waiting" THEN [status EXCEPT ![r] = response] ELSE status

(***************************************************************************)
(* flagValidated.                                                          *)
(***************************************************************************)

\* Faulty variant: the waiting validation is told before the connection is recorded.
FlagUnrecorded(x) ==
    /\ lastValidated' = lastValidated
    /\ validating' = FALSE

FlagValidatedLocked(x) ==
    /\ lastValidated' = IF validating THEN x ELSE lastValidated
    /\ validating' = FALSE

FlagValidated(x) ==
    /\ IF cn # x
       THEN /\ bound' = [bound EXCEPT ![x] = TRUE]
            /\ cn' = x
            /\ IF cn # None
               THEN /\ signalled' = [signalled EXCEPT ![cn] = TRUE]
                    /\ awake' = "maybe"
               ELSE UNCHANGED <<signalled, awake>>
       ELSE /\ awake' = IF awake # "maybe" THEN "awake" ELSE awake
            /\ UNCHANGED <<bound, cn, signalled>>
    /\ FlagValidatedLocked(x)

(***************************************************************************)
(* validate, by HandleRequests or by the initial WarmUp.                   *)
(***************************************************************************)

WarmUp(v) == v = "init" \/ warm

\* Where the caller goes on after a warm-up.
AfterWarmUp(v) == IF v = "init" THEN "ended" ELSE "idle"

\* Start to validate, or wait for the validation that is under way.
Validate(v) ==
    /\ pc[v] = "validate"
    /\ IF validating
       THEN Goto(v, "await") /\ UNCHANGED <<validating, lastValidated>>
       ELSE /\ validating' = TRUE
            /\ lastValidated' = None
            /\ Goto(v, "check")
    /\ UNCHANGED <<cn, awake, chanReq, conn, handlerVars, connVars, reqVars, trigger,
                   lambdaVars, invocations, timeouts>>

NotTriggered(v) == IF WarmUp(v) THEN "flag" ELSE "ping"

\* Whether the flag says asleep, without the lock.
Check(v) ==
    /\ pc[v] = "check"
    /\ Goto(v, IF awake = "sleep" THEN "try" ELSE NotTriggered(v))
    /\ UNCHANGED <<insVars, chanReq, conn, handlerVars, connVars, reqVars, trigger,
                   lambdaVars, invocations, timeouts>>

\* tryTriggerLambda does not touch awake: a pong of the current connection sets it.
TryTriggerLambda(v) ==
    /\ pc[v] = "try"
    /\ IF awake = "awake"
       THEN Goto(v, NotTriggered(v)) /\ UNCHANGED trigger
       ELSE /\ \E t \in Triggers :
                 trigger[t] = "off" /\ trigger' = [trigger EXCEPT ![t] = "invoke"]
            /\ Goto(v, "await")
    /\ UNCHANGED <<insVars, chanReq, conn, handlerVars, connVars, reqVars, lambdaVars,
                   invocations, timeouts>>

\* A warm-up is satisfied with the current connection: ins.flagValidated(ins.cn), whose
\* argument is read before the lock is taken.
ReadConnection(v) ==
    /\ pc[v] = "flag"
    /\ conn' = [conn EXCEPT ![v] = cn]
    /\ Goto(v, "flagging")
    /\ UNCHANGED <<insVars, chanReq, handlerVars, connVars, reqVars, trigger, lambdaVars,
                   invocations, timeouts>>

WarmedUp(v) ==
    /\ pc[v] = "flagging"
    /\ FlagValidated(conn[v])
    /\ conn' = [conn EXCEPT ![v] = None]
    /\ Goto(v, AfterWarmUp(v))
    /\ UNCHANGED <<chanReq, handlerVars, socket, chanWait, serve, reqVars, trigger,
                   lambdaVars, invocations, timeouts>>

\* A ping to a lost connection fails silently.
Ping(v) ==
    /\ pc[v] = "ping"
    /\ toLambda' = IF socket[cn] = "open" /\ life[cn] # "dead"
                   THEN [toLambda EXCEPT ![cn] = Append(@, "ping")] ELSE toLambda
    /\ Goto(v, "pinged")
    /\ UNCHANGED <<insVars, chanReq, conn, handlerVars, connVars, reqVars, trigger, life,
                   fromLambda, invocations, timeouts>>

\* No pong within ConnectTimeout: assume that the instance is dead and retry.
PingTimeout(v) ==
    /\ pc[v] = "pinged"
    /\ IF life[cn] = "running"
       THEN timeouts < MaxTimeouts /\ timeouts' = timeouts + 1
       ELSE UNCHANGED timeouts
    /\ awake' = "sleep"
    /\ Goto(v, "check")
    /\ UNCHANGED <<cn, validating, lastValidated, chanReq, conn, handlerVars, connVars,
                   reqVars, trigger, lambdaVars, invocations>>

\* <-ins.chanValidated
Validated(v) ==
    /\ pc[v] \in {"pinged", "await"}
    /\ ~validating
    /\ Goto(v, "validated")
    /\ UNCHANGED <<insVars, chanReq, conn, handlerVars, connVars, reqVars, trigger,
                   lambdaVars, invocations, timeouts>>

\* return ins.lastValidated; HandleRequests ends when there is none.
Return(v) ==
    /\ pc[v] = "validated"
    /\ conn' = [conn EXCEPT ![v] = IF WarmUp(v) THEN None ELSE lastValidated]
    /\ Goto(v, IF WarmUp(v) THEN AfterWarmUp(v)
               ELSE IF lastValidated = None THEN "ended" ELSE "push")
    /\ UNCHANGED <<insVars, chanReq, handlerVars, connVars, reqVars, trigger, lambdaVars,
                   invocations, timeouts>>

ValidateSteps(v) ==
    \/ Validate(v) \/ Check(v) \/ TryTriggerLambda(v) \/ ReadConnection(v) \/ WarmedUp(v)
    \/ Ping(v) \/ PingTimeout(v) \/ Validated(v) \/ Return(v)

(***************************************************************************)
(* HandleRequests and handleRequest.                                       *)
(***************************************************************************)

\* HandleSet and HandleGet, once the proxy is ready.
Arrive(r) ==
    /\ pc["init"] = "ended"
    /\ status[r] = "new"
    /\ chanReq = None
    /\ chanReq' = r
    /\ status' = [status EXCEPT ![r] = "waiting"]
    /\ UNCHANGED <<insVars, pc, conn, handlerVars, connVars, streamingStarted, trigger,
                   lambdaVars, invocations, timeouts>>

Retriable(r) == r \notin Streams \/ ~streamingStarted[r]

\* The variables of an iteration of HandleRequests go out of scope.
IterationEnds ==
    /\ Goto("handler", "idle")
    /\ conn' = [conn EXCEPT !["handler"] = None]
    /\ req' = None
    /\ attempt' = 0
    /\ retries' = 0

Take ==
    /\ pc["handler"] = "idle"
    /\ chanReq # None
    /\ req' = chanReq
    /\ chanReq' = None
    /\ warm' = FALSE
    /\ attempt' = 1
    /\ retries' = IF Retriable(chanReq) THEN MAX_RETRY ELSE 1
    /\ Goto("handler", "validate")
    /\ UNCHANGED <<insVars, conn, connVars, reqVars, trigger, lambdaVars, invocations, timeouts>>

\* coolTimer
Cool ==
    /\ pc["handler"] = "idle"
    /\ warm' = TRUE
    /\ Goto("handler", "validate")
    /\ UNCHANGED <<insVars, chanReq, conn, req, attempt, retries, connVars, reqVars, trigger,
                   lambdaVars, invocations, timeouts>>

\* Faulty variant: a request that waits for its response is replaced.
ConsumedOrReplaced(x) == TRUE

Consumed(x) == chanWait[x] = None

\* conn.chanWait <- req: if there is a request already, wait for it to be consumed.
Push ==
    /\ pc["handler"] = "push"
    /\ Consumed(conn["handler"])
    /\ chanWait' = [chanWait EXCEPT ![conn["handler"]] = req]
    /\ Goto("handler", "flush")
    /\ UNCHANGED <<insVars, chanReq, conn, handlerVars, signalled, socket, bound, serve,
                   reqVars, trigger, lambdaVars, invocations, timeouts>>

\* Faulty variant: the loop over the attempts is not left after a write that succeeds.
FlushAndGoOn ==
    LET x == conn["handler"] IN
    /\ pc["handler"] = "flush"
    /\ socket[x] = "open"
    /\ toLambda' = IF life[x] # "dead" THEN [toLambda EXCEPT ![x] = Append(@, req)]
                                       ELSE toLambda
    /\ streamingStarted' = [streamingStarted EXCEPT ![req] = req \in Streams]
    /\ IF attempt < retries
       THEN /\ attempt' = attempt + 1
            /\ Goto("handler", "validate")
            /\ UNCHANGED <<conn, req, retries>>
       ELSE IterationEnds
    /\ UNCHANGED <<insVars, chanReq, warm, connVars, status, trigger, life, fromLambda,
                   invocations, timeouts>>

\* The request is written; what is written to a container that is gone is lost.
Flush ==
    LET x == conn["handler"] IN
    /\ pc["handler"] = "flush"
    /\ socket[x] = "open"
    /\ toLambda' = IF life[x] # "dead" THEN [toLambda EXCEPT ![x] = Append(@, req)]
                                       ELSE toLambda
    /\ streamingStarted' = [streamingStarted EXCEPT ![req] = req \in Streams]
    /\ IterationEnds
    /\ UNCHANGED <<insVars, chanReq, warm, connVars, status, trigger, life, fromLambda,
                   invocations, timeouts>>

\* Faulty variant: one attempt too many.
OneMoreAttempt == attempt <= retries

MoreAttempts == attempt < retries

\* The write fails, before or while the body is streamed: remove the request and retry.
FlushFailed ==
    LET x == conn["handler"] IN
    /\ pc["handler"] = "flush"
    /\ socket[x] = "closed" \/ life[x] = "dead"
    /\ \E started \in IF req \in Streams THEN BOOLEAN ELSE {FALSE} :
         streamingStarted' = [streamingStarted EXCEPT ![req] = @ \/ started]
    /\ chanWait' = [chanWait EXCEPT ![x] = None]
    /\ IF MoreAttempts
       THEN /\ attempt' = attempt + 1
            /\ Goto("handler", "validate")
            /\ UNCHANGED <<status, conn, req, retries>>
       ELSE /\ IterationEnds
            /\ SetResponse(req, "error")
    /\ UNCHANGED <<insVars, chanReq, warm, signalled, socket, bound,
                   serve, trigger, lambdaVars, invocations, timeouts>>

HandleRequests == Take \/ Cool \/ Push \/ Flush \/ FlushFailed

(***************************************************************************)
(* triggerLambda.                                                          *)
(***************************************************************************)

\* The function is invoked in an idle container or in a new one, which connects, and the
\* invocation starts with a pong.
Invoke(t, x) ==
    /\ trigger[t] = "invoke"
    /\ life[x] \in {"absent", "idle"}
    /\ Len(fromLambda[x]) < MaxQueue
    /\ invocations < MaxInvocations
    /\ invocations' = invocations + 1
    /\ trigger' = [trigger EXCEPT ![t] = x]
    /\ life' = [life EXCEPT ![x] = "running"]
    /\ socket' = [socket EXCEPT ![x] = "open"]
    /\ serve' = [serve EXCEPT ![x] = IF @ = "off" THEN "select" ELSE @]
    /\ fromLambda' = [fromLambda EXCEPT ![x] = Append(@, Message("pong", None))]
    /\ UNCHANGED <<insVars, chanReq, pc, conn, handlerVars, signalled, bound, chanWait,
                   reqVars, toLambda, timeouts>>

\* The invocation fails.
InvokeFailed(t) ==
    /\ trigger[t] = "invoke"
    /\ trigger' = [trigger EXCEPT ![t] = "returned"]
    /\ UNCHANGED <<insVars, chanReq, pc, conn, handlerVars, connVars, reqVars, lambdaVars,
                   invocations, timeouts>>

\* The invocation has returned: again while validating.
Retrigger(t) ==
    /\ trigger[t] = "returned"
    /\ trigger' = [trigger EXCEPT ![t] = IF validating THEN "invoke" ELSE "sleep"]
    /\ UNCHANGED <<insVars, chanReq, pc, conn, handlerVars, connVars, reqVars, lambdaVars,
                   invocations, timeouts>>

\* Don't overwrite the MAYBE status.
Deactivated(t) ==
    /\ trigger[t] = "sleep"
    /\ trigger' = [trigger EXCEPT ![t] = "off"]
    /\ awake' = IF awake # "maybe" THEN "sleep" ELSE awake
    /\ UNCHANGED <<cn, validating, lastValidated, chanReq, pc, conn, handlerVars, connVars,
                   reqVars, lambdaVars, invocations, timeouts>>

TriggerLambda(t) ==
    (\E x \in Conns : Invoke(t, x)) \/ InvokeFailed(t) \/ Retrigger(t) \/ Deactivated(t)

(***************************************************************************)
(* The function.                                                           *)
(***************************************************************************)

\* The triggers whose invocation ran in container x return.
Returned(x) == [t \in Triggers |-> IF trigger[t] = x THEN "returned" ELSE trigger[t]]

\* A ping is answered with a pong, a request with its response or with an error.
Answer(x) ==
    /\ life[x] = "running"
    /\ toLambda[x] # <<>>
    /\ toLambda' = [toLambda EXCEPT ![x] = Tail(@)]
    /\ \E m \in IF Head(toLambda[x]) = "ping" THEN {Message("pong", None)}
                ELSE {Message(type, Head(toLambda[x])) : type \in {"response", "error"}} :
         fromLambda' = [fromLambda EXCEPT ![x] = Append(@, m)]
    /\ UNCHANGED <<insVars, chanReq, pc, conn, handlerVars, connVars, reqVars, trigger, life,
                   invocations, timeouts>>

\* The session times out when nothing is left to read.
Bye(x) ==
    /\ life[x] = "running"
    /\ toLambda[x] = <<>>
    /\ life' = [life EXCEPT ![x] = "idle"]
    /\ fromLambda' = [fromLambda EXCEPT ![x] = Append(@, Message("bye", None))]
    /\ trigger' = Returned(x)
    /\ UNCHANGED <<insVars, chanReq, pc, conn, handlerVars, connVars, reqVars, toLambda,
                   invocations, timeouts>>

\* The provider reclaims an idle container.
Reclaim(x) ==
    /\ life[x] = "idle"
    /\ life' = [life EXCEPT ![x] = "dead"]
    /\ toLambda' = [toLambda EXCEPT ![x] = <<>>]
    /\ fromLambda' = [fromLambda EXCEPT ![x] = Append(@, Message("eof", None))]
    /\ UNCHANGED <<insVars, chanReq, pc, conn, handlerVars, connVars, reqVars, trigger,
                   invocations, timeouts>>

(***************************************************************************)
(* ServeLambda.                                                            *)
(***************************************************************************)

\* Signalled to close: at once, or after the request that waits for its response.
Closed(x) ==
    /\ serve[x] = "select"
    /\ signalled[x]
    /\ serve' = [serve EXCEPT ![x] = IF chanWait[x] = None THEN "close" ELSE "drain"]
    /\ UNCHANGED <<insVars, chanReq, pc, conn, handlerVars, signalled, socket, bound,
                   chanWait, reqVars, trigger, lambdaVars, invocations, timeouts>>

\* The next message is read.
Read(x, type) ==
    /\ serve[x] \in {"select", "drain"}
    /\ fromLambda[x] # <<>>
    /\ Head(fromLambda[x]).type = type
    /\ fromLambda' = [fromLambda EXCEPT ![x] = Tail(@)]
    /\ serve' = [serve EXCEPT ![x] = IF type = "eof" THEN "close" ELSE "select"]
    /\ UNCHANGED <<chanReq, pc, conn, handlerVars, socket, streamingStarted, trigger, life,
                   toLambda, invocations, timeouts>>

PongHandler(x) ==
    /\ Read(x, "pong")
    /\ FlagValidated(x)
    /\ UNCHANGED <<chanWait, status>>

\* conn.SetResponse: the request that waits gets the response if it is its own.
MatchResponse(x, r) ==
    IF chanWait[x] = None
    THEN UNCHANGED <<chanWait, status>>
    ELSE /\ SetResponse(chanWait[x], IF chanWait[x] = r THEN "answered" ELSE "missing")
         /\ chanWait' = [chanWait EXCEPT ![x] = None]

\* getHandler, setHandler and delHandler; the counter of a GET's chunks is left out.
ResponseHandler(x) ==
    /\ Read(x, "response")
    /\ MatchResponse(x, Head(fromLambda[x]).req)
    /\ UNCHANGED <<insVars, signalled, bound>>

SetErrorResponse(x) ==
    /\ SetResponse(chanWait[x], "error")
    /\ chanWait' = [chanWait EXCEPT ![x] = None]

\* The request that waits gets the error, whatever it is about.
ErrorHandler(x) ==
    /\ Read(x, "error")
    /\ IF chanWait[x] = None THEN UNCHANGED <<chanWait, status>> ELSE SetErrorResponse(x)
    /\ UNCHANGED <<insVars, signalled, bound>>

\* Instance.bye
Slept(x) == IF bound[x] /\ cn = x THEN "sleep" ELSE awake

ByeHandler(x) ==
    /\ Read(x, "bye")
    /\ awake' = Slept(x)
    /\ UNCHANGED <<cn, validating, lastValidated, signalled, bound, chanWait, status>>

Disconnected(x) ==
    /\ Read(x, "eof")
    /\ UNCHANGED <<insVars, signalled, bound, chanWait, status>>

\* close: Close, bye and the socket, which ends a running session,
CloseSocket(x) ==
    /\ serve[x] = "close"
    /\ signalled' = [signalled EXCEPT ![x] = TRUE]
    /\ awake' = Slept(x)
    /\ socket' = [socket EXCEPT ![x] = "closed"]
    /\ life' = [life EXCEPT ![x] = "dead"]
    /\ toLambda' = [toLambda EXCEPT ![x] = <<>>]
    /\ fromLambda' = [fromLambda EXCEPT ![x] = <<>>]
    /\ trigger' = Returned(x)
    /\ serve' = [serve EXCEPT ![x] = "clear"]
    /\ UNCHANGED <<cn, validating, lastValidated, chanReq, pc, conn, handlerVars, bound,
                   chanWait, reqVars, invocations, timeouts>>

\* Faulty variant: requests that wait are forgotten.
ClearResponsesSilently(x) ==
    /\ serve[x] = "clear"
    /\ chanWait' = [chanWait EXCEPT ![x] = None]
    /\ serve' = [serve EXCEPT ![x] = "ended"]
    /\ UNCHANGED <<insVars, chanReq, pc, conn, handlerVars, signalled, socket, bound,
                   reqVars, trigger, lambdaVars, invocations, timeouts>>

\* and clearResponses.
ClearResponses(x) ==
    /\ serve[x] = "clear"
    /\ IF chanWait[x] = None THEN status' = status ELSE SetResponse(chanWait[x], "error")
    /\ chanWait' = [chanWait EXCEPT ![x] = None]
    /\ serve' = [serve EXCEPT ![x] = "ended"]
    /\ UNCHANGED <<insVars, chanReq, pc, conn, handlerVars, signalled, socket, bound,
                   streamingStarted, trigger, lambdaVars, invocations, timeouts>>

ServeLambda(x) ==
    \/ Closed(x) \/ PongHandler(x) \/ ResponseHandler(x) \/ ErrorHandler(x)
    \/ ByeHandler(x) \/ Disconnected(x)
    \/ CloseSocket(x) \/ ClearResponses(x)

-----------------------------------------------------------------------------
Next ==
    \/ \E r \in Requests : Arrive(r)
    \/ HandleRequests
    \/ \E v \in Validators : ValidateSteps(v)
    \/ \E t \in Triggers : TriggerLambda(t)
    \/ \E x \in Conns : Answer(x) \/ Bye(x) \/ Reclaim(x) \/ ServeLambda(x)

Spec == Init /\ [][Next]_vars

\* Goroutines are scheduled; the select of HandleRequests does not neglect the channel of
\* requests for the timer for ever; a container that runs answers and ends its session; one
\* that stays idle is reclaimed.
FairSpec ==
    /\ Spec
    /\ WF_vars(HandleRequests \/ ValidateSteps("handler"))
    /\ WF_vars(ValidateSteps("init"))
    /\ SF_vars(Take)
    /\ \A t \in Triggers : WF_vars(TriggerLambda(t))
    /\ \A x \in Conns : /\ WF_vars(Answer(x)) /\ WF_vars(Bye(x)) /\ WF_vars(Reclaim(x))
                        /\ WF_vars(ServeLambda(x))

-----------------------------------------------------------------------------
Labels == {"idle", "validate", "check", "try", "flag", "flagging", "ping", "pinged", "await",
           "validated", "push", "flush", "ended"}
Messages == {Message(type, None) : type \in {"pong", "bye", "eof"}}
            \cup {Message(type, r) : type \in {"response", "error"}, r \in Requests}

\* Every variable of the instance, its connections and its requests has its type.
TypeOK ==
    /\ cn \in Conns \cup {None}
    /\ awake \in {"sleep", "awake", "maybe"}
    /\ validating \in BOOLEAN
    /\ lastValidated \in Conns \cup {None}
    /\ chanReq \in Requests \cup {None}
    /\ pc \in [Validators -> Labels]
    /\ conn \in [Validators -> Conns \cup {None}]
    /\ warm \in BOOLEAN
    /\ req \in Requests \cup {None}
    /\ attempt \in 0 .. retries
    /\ retries \in {0, 1, MAX_RETRY}
    /\ signalled \in [Conns -> BOOLEAN]
    /\ socket \in [Conns -> {"none", "open", "closed"}]
    /\ bound \in [Conns -> BOOLEAN]
    /\ chanWait \in [Conns -> Requests \cup {None}]
    /\ serve \in [Conns -> {"off", "select", "drain", "close", "clear", "ended"}]
    /\ status \in [Requests -> {"new", "waiting", "answered", "error", "missing"}]
    /\ streamingStarted \in [Requests -> BOOLEAN]
    /\ trigger \in [Triggers -> {"off", "invoke", "returned", "sleep"} \cup Conns]
    /\ life \in [Conns -> {"absent", "running", "idle", "dead"}]
    /\ toLambda \in [Conns -> Seq(Requests \cup {"ping"})]
    /\ fromLambda \in [Conns -> Seq(Messages)]
    /\ timeouts \in 0 .. MaxTimeouts

\* validate pings ins.cn and hands it to flagValidated without a nil check, and a nil
\* result of Validate ends HandleRequests: whatever the order of warm-ups, pongs, timeouts
\* and returning invocations, there is a connection then and HandleRequests goes on.
NeverNil ==
    /\ \A v \in Validators : /\ pc[v] = "ping" => cn # None
                             /\ pc[v] = "flagging" => conn[v] # None
    /\ pc["handler"] # "ended"

\* The proxy does not use the ids in a response to match it, and an error carries none: it relies
\* on the order.
\* The next response or error that ServeLambda reads is for the request in chanWait, and no
\* request is ever answered with ErrMissingResponse.
Aligned ==
    /\ \A x \in Conns : \A i \in 1 .. Len(fromLambda[x]) :
         fromLambda[x][i].type \in {"response", "error"} => fromLambda[x][i].req = chanWait[x]
    /\ \A r \in Requests : status[r] # "missing"

\* A request that has no response yet is in the hands of somebody who will answer it: the
\* channel of requests, HandleRequests, or a connection whose ServeLambda has not finished.
Tracked ==
    \A r \in Requests : status[r] = "waiting" =>
        \/ chanReq = r
        \/ req = r /\ ~warm /\ pc["handler"] # "idle"
        \/ \E x \in Conns : chanWait[x] = r /\ serve[x] \notin {"off", "ended"}

\* A request on its way to a lambda, and one whose answer is on its way back.
Written(r) == \E x \in Conns : \E i \in 1 .. Len(toLambda[x]) : toLambda[x][i] = r
Executed(r) == \E x \in Conns : \E i \in 1 .. Len(fromLambda[x]) : fromLambda[x][i].req = r

\* How far a request has got.
Stage(r) == IF status[r] = "new" THEN "none"
            ELSE IF Written(r) THEN "sent"
            ELSE IF Executed(r) THEN "replied"
            ELSE IF r \in {chanReq, req} THEN "held" ELSE "gone"

RR == INSTANCE RequestReply WITH reply <- status, stage <- [r \in Requests |-> Stage(r)]

\* Whatever is retried, replaced or closed, a request is executed once at most, its client
\* gets the answer of that execution or an error, and the first answer is final: HandleRequests
\* sends a request again only if the lambda cannot have it, and clearResponses gives up only
\* on one that no lambda will answer any more.
AtMostOnce == RR!Spec

\* Every request is answered, however containers are lost, connections replaced and pings
\* time out, provided that the function is invoked in the end where it has to be: where the
\* bound on invocations is not in the way and not all of them fail.
RequestAnswered ==
    <>[](\A t \in Triggers : trigger[t] # "invoke") =>
        \A r \in Requests : status[r] = "waiting" ~> status[r] # "waiting"
=============================================================================
