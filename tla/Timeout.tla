------------------------------ MODULE Timeout ------------------------------
(***************************************************************************)
(* The billed-duration control of a lambda (lambda/lifetime/timeout.go and *)
(* session.go) within one session: the goroutine validateTimeout, the      *)
(* invocation that waits for the timeout (HandleRequest and Wait of        *)
(* lambda/handler.go), the goroutines that serve commands, one for each    *)
(* connection, and the goroutine of a migration.                           *)
(*                                                                         *)
(* The lock is the mutex of package lifetime (Session.Lock).  The fields   *)
(* due, hasReset, disabled, active and lastExtension are also accessed     *)
(* without it, so every access to a shared field or channel that another   *)
(* goroutine can observe is a step of its own.                             *)
(*                                                                         *)
(* Time is kept relative to now: phase is Since() modulo TICK, dueLeft is  *)
(* due - Since() (0 once it has passed), timer is the time until the timer *)
(* fires.  The code uses nothing else of the clock.                        *)
(***************************************************************************)
EXTENDS Integers

CONSTANTS
    Servers,    \* goroutines that serve the commands of one connection each
    Commands,   \* the commands that may arrive, among AllCommands
    None,       \* nobody, nothing
    TICK,       \* billing cycle
    TICK_ERROR, \* how long before the end of a cycle the lambda returns
    EXTEND      \* TICK_ERROR_EXTEND: extension for a ping

AllCommands == {"request", "ping", "data", "migrate", "close"}
Callers == Servers \cup {"main", "migration"}
Actors == Callers \cup {"validator"}

ASSUME ServerAssumption == /\ Servers \cap {"main", "migration", "validator"} = {}
                           /\ None \notin Actors \cup AllCommands
                           /\ Commands \subseteq AllCommands
ASSUME TickAssumption == /\ TICK_ERROR \in Nat \ {0}
                         /\ TICK \in Nat
                         /\ TICK > TICK_ERROR
                         /\ EXTEND \in Nat
                         /\ EXTEND >= TICK_ERROR
                         /\ None \notin Nat

Extensions == {TICK_ERROR, TICK, EXTEND}

VARIABLES
    mu,            \* holder of the lock, None if it is free
    \* Timeout
    phase, dueLeft, timer,
    fired,         \* timer.C holds a value
    lastExtension, active, disabled,
    reset,         \* the channel of extensions: its element, None if it is empty
    c,             \* the channel of timeouts holds a value
    timeout, hasReset,
    \* Session
    done,          \* done is closed
    migrator,      \* session.Migrator is not nil
    \* goroutines
    pc,
    cmd,           \* the command a server is handling, None if it is idle
    ext,           \* the extension the validator has received, None before and after
    fromProxy      \* requestFromProxy of the migration

clock == <<phase, dueLeft, timer, fired>>
flags == <<lastExtension, active, disabled>>
channels == <<reset, c, timeout, hasReset>>
session == <<done, migrator>>
locals == <<cmd, ext, fromProxy>>
vars == <<mu, clock, flags, channels, session, pc, locals>>

(***************************************************************************)
(* getTimeout: the time left until shortly before the billing cycle ends   *)
(* in which the extension ends.  No caller passes a negative extension.    *)
(***************************************************************************)
Ceil(x) == (x + TICK - 1) \div TICK
GetTimeout(e) == Ceil(phase + e) * TICK - TICK_ERROR - phase

\* A new session: GetOrCreateSession and NewTimeout.  start is not set yet, so that the
\* timer's first phase is arbitrary and due, after an overflow, lies in the past.
Init ==
    /\ mu = None
    /\ phase \in 0..(TICK - 1)
    /\ dueLeft = 0
    /\ timer = GetTimeout(EXTEND)
    /\ fired = FALSE
    /\ lastExtension = EXTEND
    /\ active = 0
    /\ disabled = FALSE
    /\ reset = None
    /\ c = FALSE
    /\ timeout = FALSE
    /\ hasReset = FALSE
    /\ done = FALSE
    /\ migrator = FALSE
    /\ pc = [a \in Actors |-> IF a = "main" THEN "start"
                            ELSE IF a = "validator" THEN "poll" ELSE "idle"]
    /\ cmd = [s \in Servers |-> None]
    /\ ext = None
    /\ fromProxy = FALSE

Goto(a, label) == pc' = [pc EXCEPT ![a] = label]

(***************************************************************************)
(* Time.  A timer that is due fires before time goes on.                   *)
(***************************************************************************)

Decreased(x) == IF x > 0 THEN x - 1 ELSE x

\* timer = -1: stopped or already fired.
Advance ==
    /\ timer # 0
    /\ phase' = (phase + 1) % TICK
    /\ dueLeft' = Decreased(dueLeft)
    /\ timer' = Decreased(timer)
    /\ UNCHANGED <<mu, fired, flags, channels, session, pc, locals>>

Fire ==
    /\ timer = 0
    /\ timer' = -1
    /\ fired' = TRUE
    /\ UNCHANGED <<mu, phase, dueLeft, flags, channels, session, pc, locals>>

(***************************************************************************)
(* Reset and resetLocked.                                                  *)
(***************************************************************************)

\* Faulty variant: a timeout that was triggered already can still be extended.
DeniedLate == disabled \/ done

\* Reset is refused.
Denied == timeout \/ disabled \/ done

\* Where a goroutine goes on after Reset.
AfterReset(a) == IF a = "main" THEN "wait"
                 ELSE IF a = "validator" THEN "poll"
                 ELSE IF a \in Servers /\ cmd[a] = "request" THEN "unbusy"
                 ELSE "idle"

\* A ping is over then, a request is not.
Ended(a) == IF a \in Servers /\ cmd[a] = "ping" THEN [cmd EXCEPT ![a] = None] ELSE cmd

ResetDenied(a) ==
    /\ pc[a] = "lock"
    /\ mu = None
    /\ Denied
    /\ Goto(a, AfterReset(a))
    /\ cmd' = Ended(a)
    /\ UNCHANGED <<mu, clock, flags, channels, session, ext, fromProxy>>

\* Reset takes the lock and resetLocked moves the due time.
ResetAccepted(a) ==
    /\ pc[a] = "lock"
    /\ mu = None
    /\ ~Denied
    /\ mu' = a
    /\ dueLeft' = GetTimeout(lastExtension)
    /\ Goto(a, "offer")
    /\ UNCHANGED <<phase, timer, fired, flags, channels, session, locals>>

\* select: send the extension, unless an unread one fills the channel.
Offer(a) ==
    /\ pc[a] = "offer"
    /\ IF reset = None
       THEN reset' = lastExtension /\ Goto(a, "flag")
       ELSE reset' = reset /\ Goto(a, "consume")
    /\ UNCHANGED <<mu, clock, flags, c, timeout, hasReset, session, locals>>

\* <-t.reset
Consume(a) ==
    /\ pc[a] = "consume"
    /\ reset # None
    /\ reset' = None
    /\ Goto(a, "resend")
    /\ UNCHANGED <<mu, clock, flags, c, timeout, hasReset, session, locals>>

\* t.reset <- t.lastExtension
Resend(a) ==
    /\ pc[a] = "resend"
    /\ reset = None
    /\ reset' = lastExtension
    /\ Goto(a, "flag")
    /\ UNCHANGED <<mu, clock, flags, c, timeout, hasReset, session, locals>>

\* hasReset is set, and the lock released.
Flag(a) ==
    /\ pc[a] = "flag"
    /\ hasReset' = TRUE
    /\ mu' = None
    /\ Goto(a, AfterReset(a))
    /\ cmd' = Ended(a)
    /\ UNCHANGED <<clock, flags, reset, c, timeout, session, ext, fromProxy>>

ResetLocked(a) == Offer(a) \/ Consume(a) \/ Resend(a) \/ Flag(a)
Reset(a) == ResetDenied(a) \/ ResetAccepted(a) \/ ResetLocked(a)

(***************************************************************************)
(* Halt (Disable, then Stop) and Session.Done.                             *)
(***************************************************************************)

Disable(a) ==
    /\ pc[a] = "disable"
    /\ disabled' = TRUE
    /\ Goto(a, "stop")
    /\ UNCHANGED <<mu, clock, lastExtension, active, channels, session, locals>>

\* The timer is stopped and drained.
Stopped == timer' = -1 /\ fired' = FALSE

Stop(a, next) ==
    /\ pc[a] = "stop"
    /\ Stopped
    /\ Goto(a, next)
    /\ UNCHANGED <<mu, phase, dueLeft, flags, channels, done, cmd, ext>>

Done(a, next) ==
    /\ pc[a] = "done"
    /\ mu = None
    /\ done' = TRUE
    /\ Goto(a, next)
    /\ UNCHANGED <<mu, clock, flags, channels, migrator, locals>>

(***************************************************************************)
(* validateTimeout.                                                        *)
(***************************************************************************)

Exit ==
    /\ pc["validator"] = "poll"
    /\ done
    /\ Goto("validator", "exited")
    /\ UNCHANGED <<mu, clock, flags, channels, session, locals>>

Receive ==
    /\ pc["validator"] = "poll"
    /\ reset # None
    /\ reset' = None
    /\ ext' = reset
    /\ Goto("validator", "rearm")
    /\ UNCHANGED <<mu, clock, flags, c, timeout, hasReset, session, cmd, fromProxy>>

Rearm ==
    /\ pc["validator"] = "rearm"
    /\ fired' = FALSE
    /\ dueLeft' = GetTimeout(ext)
    /\ timer' = GetTimeout(ext)
    /\ ext' = None
    /\ Goto("validator", "ack")
    /\ UNCHANGED <<mu, phase, flags, channels, session, cmd, fromProxy>>

Acknowledge ==
    /\ pc["validator"] = "ack"
    /\ hasReset' = FALSE
    /\ Goto("validator", "poll")
    /\ UNCHANGED <<mu, clock, flags, reset, c, timeout, session, locals>>

\* Faulty variant: an old timeout is left in the channel.
ExpireUndrained ==
    /\ pc["validator"] = "poll"
    /\ fired
    /\ fired' = FALSE
    /\ Goto("validator", "expired")
    /\ UNCHANGED <<mu, phase, dueLeft, timer, flags, channels, session, locals>>

\* The timer has fired; an old timeout is taken out of the channel.
Expire ==
    /\ pc["validator"] = "poll"
    /\ fired
    /\ fired' = FALSE
    /\ c' = FALSE
    /\ Goto("validator", "expired")
    /\ UNCHANGED <<mu, phase, dueLeft, timer, flags, reset, timeout, hasReset, session, locals>>

Superseded == hasReset \/ disabled

\* The check again, with the lock held: nothing to do,
Pass ==
    /\ pc["validator"] = "expired"
    /\ mu = None
    /\ Superseded
    /\ Goto("validator", "poll")
    /\ UNCHANGED <<mu, clock, flags, channels, session, locals>>

\* or a request is being served or the due time was moved: resetLocked,
Prolong ==
    /\ pc["validator"] = "expired"
    /\ mu = None
    /\ ~Superseded
    /\ active > 0 \/ dueLeft > 0
    /\ mu' = "validator"
    /\ dueLeft' = GetTimeout(lastExtension)
    /\ Goto("validator", "offer")
    /\ UNCHANGED <<phase, timer, fired, flags, channels, session, locals>>

\* or it is time.
Overdue ==
    /\ pc["validator"] = "expired"
    /\ mu = None
    /\ ~Superseded
    /\ active <= 0
    /\ dueLeft = 0
    /\ mu' = "validator"
    /\ Goto("validator", "send")
    /\ UNCHANGED <<clock, flags, channels, session, locals>>

\* t.c <- ti
Send ==
    /\ pc["validator"] = "send"
    /\ ~c
    /\ c' = TRUE
    /\ Goto("validator", "mark")
    /\ UNCHANGED <<mu, clock, flags, reset, timeout, hasReset, session, locals>>

\* Faulty variant: the lock is kept.
MarkLocked ==
    /\ pc["validator"] = "mark"
    /\ timeout' = TRUE
    /\ Goto("validator", "poll")
    /\ UNCHANGED <<mu, clock, flags, reset, c, hasReset, session, locals>>

Mark ==
    /\ pc["validator"] = "mark"
    /\ timeout' = TRUE
    /\ mu' = None
    /\ Goto("validator", "poll")
    /\ UNCHANGED <<clock, flags, reset, c, hasReset, session, locals>>

ValidateTimeout ==
    \/ Exit \/ Receive \/ Rearm \/ Acknowledge
    \/ Expire \/ Pass \/ Prolong \/ Overdue \/ Send \/ Mark
    \/ ResetLocked("validator")

(***************************************************************************)
(* HandleRequest and Wait.                                                 *)
(***************************************************************************)

\* The time origin is set.  An invocation for a migration starts a goroutine that keeps
\* the session busy.
Start(destination) ==
    /\ pc["main"] = "start"
    /\ phase' \in 0..(TICK - 1)
    /\ migrator' = destination
    /\ pc' = [pc EXCEPT !["main"] = "extend",
                        !["migration"] = IF destination THEN "join" ELSE "idle"]
    /\ UNCHANGED <<mu, dueLeft, timer, fired, flags, channels, done, locals>>

\* A warmup extends by TICK_ERROR, any other invocation by TICK_ERROR_EXTEND.
Extend(e) ==
    /\ pc["main"] = "extend"
    /\ lastExtension' = e
    /\ Goto("main", "lock")
    /\ UNCHANGED <<mu, clock, active, disabled, channels, session, locals>>

WaitDone ==
    /\ pc["main"] = "wait"
    /\ done
    /\ Goto("main", "clear")
    /\ UNCHANGED <<mu, clock, flags, channels, session, locals>>

\* <-session.Timeout.C(): there is no turning back.
TakeTimeout ==
    /\ pc["main"] = "wait"
    /\ c
    /\ c' = FALSE
    /\ Goto("main", "disable")
    /\ UNCHANGED <<mu, clock, flags, reset, timeout, hasReset, session, locals>>

Halted == Stop("main", "decide") /\ UNCHANGED <<migrator, fromProxy>>

\* The lambda is old and holds data: initiate a migration.
Initiate ==
    /\ pc["main"] = "decide"
    /\ migrator' = TRUE
    /\ Goto("main", "initiated")
    /\ UNCHANGED <<mu, clock, flags, channels, done, locals>>

\* Otherwise say bye and close the session.
Bye ==
    /\ pc["main"] = "decide"
    /\ Goto("main", "done")
    /\ UNCHANGED <<mu, clock, flags, channels, session, locals>>

\* session.Clear.Wait, for the collector that waits for done, and ClearSession.
ClearSession ==
    /\ pc["main"] \in {"clear", "initiated"}
    /\ done
    /\ mu = None
    /\ Goto("main", "returned")
    /\ UNCHANGED <<mu, clock, flags, channels, session, locals>>

HandleRequest ==
    \/ \E destination \in BOOLEAN : Start(destination)
    \/ \E e \in {TICK_ERROR, EXTEND} : Extend(e)
    \/ Reset("main")
    \/ WaitDone \/ TakeTimeout \/ Disable("main") \/ Halted \/ Initiate \/ Bye
    \/ Done("main", "clear")
    \/ ClearSession

(***************************************************************************)
(* The command handlers.                                                   *)
(***************************************************************************)

\* GetSession takes the lock for reading.  After HandleRequest has returned there is no
\* session.
Begin(s, command, label) ==
    /\ pc[s] = "idle"
    /\ command \in Commands
    /\ mu = None
    /\ pc["main"] \notin {"start", "returned"}
    /\ cmd' = [cmd EXCEPT ![s] = command]
    /\ Goto(s, label)
    /\ UNCHANGED <<mu, clock, channels, session, ext, fromProxy>>

\* get, set or del.
Request(s) ==
    /\ Begin(s, "request", "busy")
    /\ active' = active + 1
    /\ UNCHANGED <<lastExtension, disabled>>

\* The first request of a session extends by TICK_ERROR, later ones by TICK.
Served(s, e) ==
    /\ pc[s] = "busy"
    /\ lastExtension' = e
    /\ Goto(s, "lock")
    /\ UNCHANGED <<mu, clock, active, disabled, channels, session, locals>>

\* Faulty variant: a deferred DoneBusy as well.
UnbusyTwice(s) ==
    /\ pc[s] = "unbusy"
    /\ active' = active - 2
    /\ Goto(s, "idle")
    /\ cmd' = [cmd EXCEPT ![s] = None]
    /\ UNCHANGED <<mu, clock, lastExtension, disabled, channels, session, ext, fromProxy>>

Unbusy(s) ==
    /\ pc[s] = "unbusy"
    /\ active' = active - 1
    /\ Goto(s, "idle")
    /\ cmd' = [cmd EXCEPT ![s] = None]
    /\ UNCHANGED <<mu, clock, lastExtension, disabled, channels, session, ext, fromProxy>>

Ping(s) ==
    /\ Begin(s, "ping", "lock")
    /\ lastExtension' = EXTEND
    /\ UNCHANGED <<active, disabled>>

\* The proxy runs one migration of an instance at a time and collects data while there is
\* none.
NoMigration == pc["migration"] = "idle" /\ \A s \in Servers : cmd[s] # "migrate"

Data(s) ==
    /\ NoMigration
    /\ Begin(s, "data", "disable")
    /\ UNCHANGED flags

Migrate(s) ==
    /\ NoMigration
    /\ Begin(s, "migrate", "disable")
    /\ UNCHANGED flags

\* DATA gives up a migration that was only initiated and closes the connection, which ends
\* the session.
DataSaved(s) ==
    /\ cmd[s] = "data"
    /\ Stop(s, "done")
    /\ migrator' = FALSE
    /\ UNCHANGED fromProxy

\* MIGRATE leaves the rest to a goroutine,
MigrateStarted(s) ==
    /\ cmd[s] = "migrate"
    /\ pc[s] = "stop"
    /\ Stopped
    /\ fromProxy' = ~migrator
    /\ migrator' = TRUE
    /\ pc' = [pc EXCEPT ![s] = "idle", !["migration"] = "serving"]
    /\ cmd' = [cmd EXCEPT ![s] = None]
    /\ UNCHANGED <<mu, phase, dueLeft, flags, channels, done, ext>>

\* or it returns when the migrator or the destination cannot be reached.
MigrateFailed(s) ==
    /\ cmd[s] = "migrate"
    /\ pc[s] = "stop"
    /\ Stopped
    /\ migrator' = TRUE
    /\ Goto(s, "idle")
    /\ cmd' = [cmd EXCEPT ![s] = None]
    /\ UNCHANGED <<mu, phase, dueLeft, flags, channels, done, ext, fromProxy>>

\* The connection is lost or closed by the proxy.
Disconnected(s) ==
    /\ Begin(s, "close", IF migrator THEN "closed" ELSE "done")
    /\ UNCHANGED flags

Serve(s) ==
    \/ Request(s) \/ Ping(s) \/ Data(s) \/ Migrate(s) \/ Disconnected(s)
    \/ \E e \in {TICK_ERROR, TICK} : Served(s, e)
    \/ Reset(s) \/ Unbusy(s)
    \/ Disable(s) \/ DataSaved(s) \/ MigrateStarted(s) \/ MigrateFailed(s)
    \/ Done(s, "closed")

(***************************************************************************)
(* The goroutine of a migration, at its destination or at its source.      *)
(***************************************************************************)

\* Busy
Join ==
    /\ pc["migration"] = "join"
    /\ active' = active + 1
    /\ Goto("migration", "joined")
    /\ UNCHANGED <<mu, clock, lastExtension, disabled, channels, session, locals>>

\* DoneBusy
Joined ==
    /\ pc["migration"] = "joined"
    /\ active' = active - 1
    /\ migrator' = FALSE
    /\ Goto("migration", "idle")
    /\ UNCHANGED <<mu, clock, lastExtension, disabled, channels, done, locals>>

\* The source is done when the migration has ended.
Migrated ==
    /\ pc["migration"] = "serving"
    /\ migrator' = FALSE
    /\ fromProxy' = FALSE
    /\ Goto("migration", "done")
    /\ UNCHANGED <<mu, clock, flags, channels, done, cmd, ext>>

\* An interrupted migration that the proxy asked for: Restart.
Interrupted ==
    /\ pc["migration"] = "serving"
    /\ IF fromProxy
       THEN /\ migrator' = FALSE
            /\ disabled' = FALSE
            /\ lastExtension' = TICK_ERROR
            /\ Goto("migration", "lock")
       ELSE /\ UNCHANGED <<migrator, disabled, lastExtension>>
            /\ Goto("migration", "idle")
    /\ fromProxy' = FALSE
    /\ UNCHANGED <<mu, clock, active, channels, done, cmd, ext>>

Migration ==
    \/ Join \/ Joined \/ Migrated \/ Interrupted
    \/ Reset("migration")
    \/ Done("migration", "idle")

-----------------------------------------------------------------------------
Next ==
    \/ Advance \/ Fire
    \/ ValidateTimeout
    \/ HandleRequest
    \/ \E s \in Servers : Serve(s)
    \/ Migration

Spec == Init /\ [][Next]_vars

\* Time passes, runnable goroutines are run and Go's mutexes do not starve a waiter.  A
\* goroutine that waits for a channel gets the value that is sent.  Servers finish the
\* command they have begun; which commands arrive is up to the proxy.
FairSpec ==
    /\ Spec
    /\ WF_vars(Advance) /\ WF_vars(Fire)
    /\ WF_vars(ValidateTimeout)
    /\ WF_vars(HandleRequest) /\ SF_vars(TakeTimeout)
    /\ WF_vars(Migration)
    /\ \A s \in Servers : WF_vars(pc[s] # "idle" /\ Serve(s))

-----------------------------------------------------------------------------
(***************************************************************************)
(* Properties.                                                             *)
(***************************************************************************)

InReset == {"offer", "consume", "resend", "flag"}

Labels == [main |-> {"start", "extend", "lock", "wait", "disable", "stop", "decide", "done",
                     "initiated", "clear", "returned"} \cup InReset,
           validator |-> {"poll", "rearm", "ack", "expired", "send", "mark", "exited"}
                         \cup InReset,
           migration |-> {"idle", "join", "joined", "serving", "lock", "done"} \cup InReset,
           server |-> {"idle", "busy", "lock", "unbusy", "disable", "stop", "done", "closed"}
                      \cup InReset]

\* The types of all variables; the count of busy goroutines never becomes negative.
TypeOK ==
    /\ mu \in Actors \cup {None}
    /\ phase \in 0..(TICK - 1)
    /\ dueLeft \in Nat
    /\ timer \in Nat \cup {-1}
    /\ active \in Nat
    /\ lastExtension \in Extensions
    /\ reset \in Extensions \cup {None}
    /\ ext \in Extensions \cup {None}
    /\ {fired, disabled, c, timeout, hasReset, done, migrator, fromProxy} \subseteq BOOLEAN
    /\ cmd \in [Servers -> AllCommands \cup {None}]
    /\ DOMAIN pc = Actors
    /\ pc["main"] \in Labels.main
    /\ pc["validator"] \in Labels.validator
    /\ pc["migration"] \in Labels.migration
    /\ \A s \in Servers : pc[s] \in Labels.server

\* The goroutine that watches the timer never blocks on a channel while it holds the lock:
\* when it decides to time out, the channel C() is empty, and when resetLocked finds an
\* unread extension it is still there; nobody blocks when the latest one is sent after it.
ChannelsReady ==
    /\ pc["validator"] = "send" => ~c
    /\ pc["validator"] = "consume" => reset # None
    /\ \A a \in Actors : pc[a] = "resend" => reset = None

Taken == {"disable", "stop", "decide", "done", "initiated"}

\* "There's no turning back": once the invocation has taken the timeout, no Reset is
\* accepted, so that no ping is answered by a lambda that is about to say bye.
NoTurningBack ==
    pc["main"] \in Taken => \A a \in Callers : pc[a] \notin InReset

OnlyWaitHalts == \A s \in Servers : cmd[s] \notin {"data", "migrate"}

\* Unless requests keep the session busy over and over, or DATA or MIGRATE takes over the
\* end of the session, a timeout that was triggered ends the wait of the invocation,
\* although the validator may take it out of the channel again.
TimeoutTaken ==
    <>[](active = 0) /\ []OnlyWaitHalts
        => (timeout ~> pc["main"] \in {"initiated", "clear", "returned"})

\* resetLocked returns: "Consume unread and replace with latest."
ResetReturns == \A a \in Actors : pc[a] = "consume" ~> pc[a] # "consume"

\* A session without any requests ends.
WaitEnds == pc["main"] = "wait" ~> pc["main"] # "wait"
=============================================================================
