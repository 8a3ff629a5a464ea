--------------------------- MODULE TimeoutProofs ---------------------------
(***************************************************************************)
(* Proofs about Timeout, for any number of served connections, any cycle   *)
(* and any extension.                                                      *)
(***************************************************************************)
EXTENDS Timeout, FiniteSetTheorems, TLAPS

\* Where a goroutine holds the lock.
Inside(a) == pc[a] \in InReset \/ (a = "validator" /\ pc[a] \in {"send", "mark"})

\* The lock has exactly the holder that the program counters show.
LockInv ==
    /\ pc = [a \in Actors |-> pc[a]]
    /\ mu \in Actors \cup {None}
    /\ \A a \in Actors : mu = a <=> Inside(a)

\* The goroutine of a migration is started only while it is idle.
MigrationInv ==
    /\ cmd \in [Servers -> AllCommands \cup {None}]
    /\ pc["main"] = "start" => pc["migration"] = "idle"
    /\ \A s \in Servers : cmd[s] = "migrate" => /\ pc["migration"] = "idle"
                                                /\ pc["main"] # "start"
    /\ \A s, t \in Servers : cmd[s] = "migrate" /\ cmd[t] = "migrate" => s = t

\* ChannelsReady, with the stretch of code before the send during which C() stays empty.
ChannelInv ==
    /\ {c, timeout} \subseteq BOOLEAN
    /\ pc["validator"] \in {"expired", "send"} => ~c
    /\ pc["validator"] = "consume" => reset # None
    /\ \A a \in Actors : pc[a] = "resend" => reset = None

\* A timeout in the channel or taken from it is final: the flag is set, or is about to
\* be set by the validator, which still holds the lock.
FinalInv ==
    /\ c => timeout \/ pc["validator"] = "mark"
    /\ pc["main"] \in Taken => timeout \/ pc["validator"] = "mark"
    /\ timeout => \A a \in Callers : pc[a] \notin InReset

IInv == LockInv /\ MigrationInv /\ ChannelInv /\ FinalInv

-----------------------------------------------------------------------------
\* The named goroutines are different from each other and from the servers.
LEMMA ActorFacts ==
    /\ "main" \in Callers /\ "migration" \in Callers /\ Servers \subseteq Callers
    /\ Callers \subseteq Actors /\ "validator" \in Actors /\ "validator" \notin Callers
    /\ "main" \notin Servers /\ "migration" \notin Servers /\ "validator" \notin Servers
    /\ None \notin Actors
    /\ Actors = Callers \cup {"validator"}
  BY ServerAssumption DEF Callers, Actors, AllCommands

\* Reset returns to a place where the lock is not held and no channel is used.
LEMMA AfterResetLabel ==
    ASSUME NEW a \in Actors
    PROVE  /\ AfterReset(a) \in {"wait", "poll", "idle", "unbusy"}
           /\ a = "migration" => AfterReset(a) = "idle"
           /\ a = "main" => AfterReset(a) = "wait"
           /\ a = "validator" => AfterReset(a) = "poll"
  <1>1. CASE a = "main" BY <1>1, Zenon DEF AfterReset
  <1>2. CASE a = "validator" BY <1>2, Zenon DEF AfterReset
  <1>3. CASE a \in Servers
    <2>1. a # "main" /\ a # "validator" /\ a # "migration" BY <1>3, ServerAssumption
    <2> QED BY <2>1, Zenon DEF AfterReset
  <1>4. CASE a = "migration"
    <2>1. "migration" \notin Servers BY ServerAssumption
    <2> QED BY <2>1, <1>4, Zenon DEF AfterReset
  <1> QED BY <1>1, <1>2, <1>3, <1>4 DEF Actors, Callers

\* A new session satisfies the invariant.
LEMMA InitInv == Init => IInv
  <1> SUFFICES ASSUME Init PROVE IInv OBVIOUS
  <1> DEFINE first(a) == IF a = "main" THEN "start"
                         ELSE IF a = "validator" THEN "poll" ELSE "idle"
  <1>1. pc = [a \in Actors |-> first(a)] BY DEF Init
  <1>2. ASSUME NEW a \in Actors
        PROVE  first(a) \in {"start", "poll", "idle"}
    BY Zenon
  <1>3. first("main") = "start" /\ first("migration") = "idle" /\ first("validator") = "poll"
    OBVIOUS
  <1> HIDE DEF first
  <1>4. pc = [a \in Actors |-> pc[a]] /\ \A a \in Actors : pc[a] \in {"start", "poll", "idle"}
    BY <1>1, <1>2
  <1>5. pc["main"] = "start" /\ pc["migration"] = "idle" /\ pc["validator"] = "poll"
    BY <1>1, <1>3, ActorFacts
  <1>6. LockInv BY <1>4, ActorFacts DEF LockInv, Inside, InReset, Init
  <1>7. MigrationInv
    <2>1. cmd = [s \in Servers |-> None] /\ None # "migrate"
      BY ServerAssumption DEF AllCommands, Init
    <2> QED BY <2>1, <1>5 DEF MigrationInv
  <1>8. ChannelInv BY <1>4, <1>5 DEF ChannelInv, Init
  <1>9. FinalInv BY <1>4, <1>5 DEF FinalInv, Taken, Init
  <1> QED BY <1>6, <1>7, <1>8, <1>9 DEF IInv

\* Goroutine a moves and the others stay where they are.
Moves(a, label) ==
    /\ pc' = [b \in Actors |-> pc'[b]]
    /\ pc'[a] = label
    /\ \A b \in Actors \ {a} : pc'[b] = pc[b]

\* That is what Goto does.
LEMMA Moved ==
    ASSUME IInv, NEW a \in Actors, NEW label, Goto(a, label)
    PROVE  Moves(a, label)
  BY DEF Goto, Moves, IInv, LockInv

\* Only the command of the goroutine that leaves Reset can end.
LEMMA EndedCmd ==
    ASSUME IInv, NEW a \in Actors, cmd' = Ended(a)
    PROVE  /\ cmd' \in [Servers -> AllCommands \cup {None}]
           /\ \A s \in Servers : cmd'[s] = "migrate" => cmd[s] = "migrate"
  <1>1. cmd \in [Servers -> AllCommands \cup {None}] BY DEF IInv, MigrationInv
  <1>2. CASE a \in Servers /\ cmd[a] = "ping"
    <2>1. cmd' = [cmd EXCEPT ![a] = None] BY <1>2, Zenon DEF Ended
    <2> QED BY <1>1, <1>2, <2>1, ServerAssumption DEF AllCommands
  <1>3. CASE ~(a \in Servers /\ cmd[a] = "ping")
    <2>1. cmd' = cmd BY <1>3, Zenon DEF Ended
    <2> QED BY <1>1, <2>1
  <1> QED BY <1>2, <1>3

\* Every step of validateTimeout preserves the invariant.
LEMMA ValidatorInv ==
    ASSUME IInv
    PROVE  Exit \/ Receive \/ Rearm \/ Acknowledge \/ Expire \/ Pass \/ Prolong
             \/ Overdue \/ Send \/ Mark => IInv'
  <1> USE ActorFacts DEF IInv, LockInv, Inside, InReset, MigrationInv, ChannelInv,
                         FinalInv, Taken
  <1>1. ASSUME Exit PROVE IInv'
    <2>1. Moves("validator", "exited") BY <1>1, Moved DEF Exit
    <2> QED BY <1>1, <2>1 DEF Moves, Exit, clock, flags, channels, session, locals
  <1>2. ASSUME Receive PROVE IInv'
    <2>1. Moves("validator", "rearm") BY <1>2, Moved DEF Receive
    <2> QED BY <1>2, <2>1 DEF Moves, Receive, clock, flags, channels, session, locals
  <1>3. ASSUME Rearm PROVE IInv'
    <2>1. Moves("validator", "ack") BY <1>3, Moved DEF Rearm
    <2> QED BY <1>3, <2>1 DEF Moves, Rearm, clock, flags, channels, session, locals
  <1>4. ASSUME Acknowledge PROVE IInv'
    <2>1. Moves("validator", "poll") BY <1>4, Moved DEF Acknowledge
    <2> QED BY <1>4, <2>1 DEF Moves, Acknowledge, clock, flags, channels, session, locals
  <1>5. ASSUME Expire PROVE IInv'
    <2>1. Moves("validator", "expired") BY <1>5, Moved DEF Expire
    <2> QED BY ZenonT(30), <1>5, <2>1 DEF Moves, Expire, clock, flags, channels, session, locals
  <1>6. ASSUME Pass PROVE IInv'
    <2>1. Moves("validator", "poll") BY <1>6, Moved DEF Pass
    <2> QED BY <1>6, <2>1 DEF Moves, Pass, clock, flags, channels, session, locals
  <1>7. ASSUME Prolong PROVE IInv'
    <2>1. Moves("validator", "offer") BY <1>7, Moved DEF Prolong
    <2> QED BY <1>7, <2>1 DEF Moves, Prolong, clock, flags, channels, session, locals
  <1>8. ASSUME Overdue PROVE IInv'
    <2>1. Moves("validator", "send") BY <1>8, Moved DEF Overdue
    <2> QED BY <1>8, <2>1 DEF Moves, Overdue, clock, flags, channels, session, locals
  <1>9. ASSUME Send PROVE IInv'
    <2>1. Moves("validator", "mark") BY <1>9, Moved DEF Send
    <2> QED BY <1>9, <2>1 DEF Moves, Send, clock, flags, channels, session, locals
  <1>10. ASSUME Mark PROVE IInv'
    <2>1. Moves("validator", "poll") BY <1>10, Moved DEF Mark
    <2> QED BY <1>10, <2>1 DEF Moves, Mark, clock, flags, channels, session, locals
  <1> QED BY <1>1, <1>2, <1>3, <1>4, <1>5, <1>6, <1>7, <1>8, <1>9, <1>10

\* Every step of resetLocked, by a goroutine that holds the lock, preserves it.
LEMMA ResetLockedInv ==
    ASSUME IInv, NEW a \in Actors
    PROVE  ResetLocked(a) => IInv'
  <1> USE ActorFacts DEF IInv, LockInv, Inside, InReset, MigrationInv, ChannelInv,
                         FinalInv, Taken
  <1>1. ASSUME Offer(a), reset = None PROVE IInv'
    <2>1. Moves(a, "flag") BY <1>1, Moved DEF Offer
    <2> QED BY <1>1, <2>1 DEF Moves, Offer, clock, flags, channels, session, locals
  <1>2. ASSUME Offer(a), reset # None PROVE IInv'
    <2>1. Moves(a, "consume") BY <1>2, Moved DEF Offer
    <2> QED BY <1>2, <2>1 DEF Moves, Offer, clock, flags, channels, session, locals
  <1>3. ASSUME Consume(a) PROVE IInv'
    <2>1. Moves(a, "resend") BY <1>3, Moved DEF Consume
    <2> QED BY <1>3, <2>1 DEF Moves, Consume, clock, flags, channels, session, locals
  <1>4. ASSUME Resend(a) PROVE IInv'
    <2>1. Moves(a, "flag") BY <1>4, Moved DEF Resend
    <2> QED BY <1>4, <2>1 DEF Moves, Resend, clock, flags, channels, session, locals
  <1>5. ASSUME Flag(a) PROVE IInv'
    <2>1. Moves(a, AfterReset(a)) BY <1>5, Moved DEF Flag
    <2> QED BY SMTT(30), <1>5, <2>1, AfterResetLabel, EndedCmd
        DEF Moves, Flag, clock, flags, channels, session, locals
  <1> QED BY <1>1, <1>2, <1>3, <1>4, <1>5 DEF ResetLocked

\* So does every step of Reset, by any goroutine but the validator.
LEMMA ResetInv ==
    ASSUME IInv, NEW a \in Callers
    PROVE  Reset(a) => IInv'
  <1> USE ActorFacts DEF IInv, LockInv, Inside, InReset, MigrationInv, ChannelInv,
                         FinalInv, Taken
  <1>1. ASSUME ResetDenied(a) PROVE IInv'
    <2>1. Moves(a, AfterReset(a)) BY <1>1, Moved DEF ResetDenied
    <2> QED BY <1>1, <2>1, AfterResetLabel, EndedCmd
        DEF Moves, ResetDenied, clock, flags, channels, session, locals
  <1>2. ASSUME ResetAccepted(a) PROVE IInv'
    <2>1. Moves(a, "offer") BY <1>2, Moved DEF ResetAccepted, Denied
    <2> QED BY <1>2, <2>1
        DEF Moves, ResetAccepted, Denied, clock, flags, channels, session, locals
  <1>3. ASSUME ResetLocked(a) PROVE IInv'
    BY <1>3, ResetLockedInv DEF Reset
  <1> QED BY <1>1, <1>2, <1>3 DEF Reset


\* So does Disable, the first half of Halt,
LEMMA DisableInv ==
    ASSUME IInv, NEW a \in Actors
    PROVE  Disable(a) => IInv'
  <1> USE ActorFacts DEF IInv, LockInv, Inside, InReset, MigrationInv, ChannelInv,
                         FinalInv, Taken
  <1>1. ASSUME Disable(a) PROVE IInv'
    <2>1. Moves(a, "stop") BY <1>1, Moved DEF Disable
    <2> QED BY <1>1, <2>1 DEF Moves, Disable, clock, flags, channels, session, locals
  <1> QED BY <1>1

\* and so does Session.Done, which waits for the lock.
LEMMA DoneInv ==
    ASSUME IInv, NEW a \in Callers, NEW next \in {"clear", "closed", "idle"},
           a = "main" => next = "clear", a = "migration" => next = "idle"
    PROVE  Done(a, next) => IInv'
  <1> USE ActorFacts DEF IInv, LockInv, Inside, InReset, MigrationInv, ChannelInv,
                         FinalInv, Taken
  <1>1. ASSUME Done(a, next) PROVE IInv'
    <2>1. Moves(a, next) BY <1>1, Moved DEF Done
    <2> QED BY <1>1, <2>1 DEF Moves, Done, clock, flags, channels, session, locals
  <1> QED BY <1>1

\* Every step of HandleRequest and Wait preserves the invariant; the goroutine that the
\* invocation of a destination starts did not exist before.
LEMMA HandleRequestInv ==
    ASSUME IInv
    PROVE  HandleRequest => IInv'
  <1> USE ActorFacts DEF IInv, LockInv, Inside, InReset, MigrationInv, ChannelInv,
                         FinalInv, Taken
  <1>1. ASSUME NEW destination \in BOOLEAN, Start(destination) PROVE IInv'
    BY ZenonT(30), <1>1 DEF Start, clock, flags, channels, session, locals
  <1>2. ASSUME NEW e, Extend(e) PROVE IInv'
    <2>1. Moves("main", "lock") BY <1>2, Moved DEF Extend
    <2> QED BY <1>2, <2>1 DEF Moves, Extend, clock, flags, channels, session, locals
  <1>3. ASSUME Reset("main") PROVE IInv'
    BY <1>3, ResetInv
  <1>4. ASSUME WaitDone PROVE IInv'
    <2>1. Moves("main", "clear") BY <1>4, Moved DEF WaitDone
    <2> QED BY <1>4, <2>1 DEF Moves, WaitDone, clock, flags, channels, session, locals
  <1>5. ASSUME TakeTimeout PROVE IInv'
    <2>1. Moves("main", "disable") BY <1>5, Moved DEF TakeTimeout
    <2>2. c /\ c' = FALSE /\ UNCHANGED <<mu, reset, timeout, cmd>> /\ pc["main"] = "wait"
      BY <1>5 DEF TakeTimeout, locals
    <2>3. LockInv' BY <2>1, <2>2 DEF Moves
    <2>4. MigrationInv' BY <2>1, <2>2 DEF Moves
    <2>5. ChannelInv' BY ZenonT(30), <2>1, <2>2 DEF Moves
    <2>6. FinalInv'
      <3>1. timeout \/ pc["validator"] = "mark" BY <2>2
      <3> QED BY <3>1, <2>1, <2>2 DEF Moves
    <2> QED BY <2>3, <2>4, <2>5, <2>6
  <1>6. ASSUME Disable("main") PROVE IInv'
    BY <1>6, DisableInv
  <1>7. ASSUME Halted PROVE IInv'
    <2>1. Moves("main", "decide") BY <1>7, Moved DEF Halted, Stop, Stopped
    <2> QED BY <1>7, <2>1
        DEF Moves, Halted, Stop, Stopped, clock, flags, channels, session, locals
  <1>8. ASSUME Initiate PROVE IInv'
    <2>1. Moves("main", "initiated") BY <1>8, Moved DEF Initiate
    <2> QED BY <1>8, <2>1 DEF Moves, Initiate, clock, flags, channels, session, locals
  <1>9. ASSUME Bye PROVE IInv'
    <2>1. Moves("main", "done") BY <1>9, Moved DEF Bye
    <2> QED BY <1>9, <2>1 DEF Moves, Bye, clock, flags, channels, session, locals
  <1>10. ASSUME Done("main", "clear") PROVE IInv'
    BY <1>10, DoneInv
  <1>11. ASSUME ClearSession PROVE IInv'
    <2>1. Moves("main", "returned") BY <1>11, Moved DEF ClearSession
    <2> QED BY <1>11, <2>1 DEF Moves, ClearSession, clock, flags, channels, session, locals
  <1> QED BY <1>1, <1>2, <1>3, <1>4, <1>5, <1>6, <1>7, <1>8, <1>9, <1>10, <1>11
      DEF HandleRequest

\* Every step of a command handler preserves the invariant; MIGRATE starts the goroutine of
\* a migration, which did not exist before.
LEMMA ServeInv ==
    ASSUME IInv, NEW s \in Servers
    PROVE  Serve(s) => IInv'
  <1>0. None # "migrate" BY ServerAssumption DEF AllCommands
  <1> USE <1>0, ActorFacts
      DEF AllCommands, IInv, LockInv, Inside, InReset, MigrationInv, ChannelInv, FinalInv, Taken
  <1>1. ASSUME Request(s) PROVE IInv'
    <2>1. Moves(s, "busy") BY <1>1, Moved DEF Request, Begin
    <2> QED BY <1>1, <2>1 DEF Moves, Request, Begin, clock, flags, channels, session, locals
  <1>2. ASSUME Ping(s) PROVE IInv'
    <2>1. Moves(s, "lock") BY <1>2, Moved DEF Ping, Begin
    <2> QED BY <1>2, <2>1 DEF Moves, Ping, Begin, clock, flags, channels, session, locals
  <1>3. ASSUME Data(s) PROVE IInv'
    <2>1. Moves(s, "disable") BY <1>3, Moved DEF Data, Begin, NoMigration
    <2> QED BY <1>3, <2>1
        DEF Moves, Data, Begin, NoMigration, clock, flags, channels, session, locals
  <1>4. ASSUME Migrate(s) PROVE IInv'
    <2>1. Moves(s, "disable") BY <1>4, Moved DEF Migrate, Begin, NoMigration
    <2> QED BY <1>4, <2>1
        DEF Moves, Migrate, Begin, NoMigration, clock, flags, channels, session, locals
  <1>5. ASSUME Disconnected(s), migrator PROVE IInv'
    <2>1. Moves(s, "closed") BY <1>5, Moved DEF Disconnected, Begin
    <2> QED BY <1>5, <2>1
        DEF Moves, Disconnected, Begin, clock, flags, channels, session, locals
  <1>6. ASSUME Disconnected(s), ~migrator PROVE IInv'
    <2>1. Moves(s, "done") BY <1>6, Moved DEF Disconnected, Begin
    <2> QED BY <1>6, <2>1
        DEF Moves, Disconnected, Begin, clock, flags, channels, session, locals
  <1>7. ASSUME NEW e, Served(s, e) PROVE IInv'
    <2>1. Moves(s, "lock") BY <1>7, Moved DEF Served
    <2> QED BY <1>7, <2>1 DEF Moves, Served, clock, flags, channels, session, locals
  <1>8. ASSUME Reset(s) PROVE IInv'
    BY <1>8, ResetInv
  <1>9. ASSUME Unbusy(s) PROVE IInv'
    <2>1. Moves(s, "idle") BY <1>9, Moved DEF Unbusy
    <2> QED BY <1>9, <2>1 DEF Moves, Unbusy, clock, flags, channels, session, locals
  <1>10. ASSUME Disable(s) PROVE IInv'
    BY <1>10, DisableInv
  <1>11. ASSUME DataSaved(s) PROVE IInv'
    <2>1. Moves(s, "done") BY <1>11, Moved DEF DataSaved, Stop, Stopped
    <2> QED BY <1>11, <2>1
        DEF Moves, DataSaved, Stop, Stopped, clock, flags, channels, session, locals
  <1>12. ASSUME MigrateStarted(s) PROVE IInv'
    BY ZenonT(30), <1>12 DEF MigrateStarted, Stopped, clock, flags, channels, session, locals
  <1>13. ASSUME MigrateFailed(s) PROVE IInv'
    <2>1. Moves(s, "idle") BY <1>13, Moved DEF MigrateFailed, Stopped
    <2> QED BY <1>13, <2>1
        DEF Moves, MigrateFailed, Stopped, clock, flags, channels, session, locals
  <1>14. ASSUME Done(s, "closed") PROVE IInv'
    BY <1>14, DoneInv
  <1> QED BY <1>1, <1>2, <1>3, <1>4, <1>5, <1>6, <1>7, <1>8, <1>9, <1>10, <1>11, <1>12, <1>13, <1>14
      DEF Serve

\* Every step of the goroutine of a migration preserves the invariant.
LEMMA MigrationStepInv ==
    ASSUME IInv
    PROVE  Migration => IInv'
  <1> USE ActorFacts DEF IInv, LockInv, Inside, InReset, MigrationInv, ChannelInv,
                         FinalInv, Taken
  <1>1. ASSUME Join PROVE IInv'
    <2>1. Moves("migration", "joined") BY <1>1, Moved DEF Join
    <2> QED BY <1>1, <2>1 DEF Moves, Join, clock, flags, channels, session, locals
  <1>2. ASSUME Joined PROVE IInv'
    <2>1. Moves("migration", "idle") BY <1>2, Moved DEF Joined
    <2> QED BY <1>2, <2>1 DEF Moves, Joined, clock, flags, channels, session, locals
  <1>3. ASSUME Migrated PROVE IInv'
    <2>1. Moves("migration", "done") BY <1>3, Moved DEF Migrated
    <2> QED BY <1>3, <2>1 DEF Moves, Migrated, clock, flags, channels, session, locals
  <1>4. ASSUME Interrupted, fromProxy PROVE IInv'
    <2>1. Moves("migration", "lock") BY <1>4, Moved DEF Interrupted
    <2> QED BY <1>4, <2>1 DEF Moves, Interrupted, clock, flags, channels, session, locals
  <1>5. ASSUME Interrupted, ~fromProxy PROVE IInv'
    <2>1. Moves("migration", "idle") BY <1>5, Moved DEF Interrupted
    <2> QED BY <1>5, <2>1 DEF Moves, Interrupted, clock, flags, channels, session, locals
  <1>6. ASSUME Reset("migration") PROVE IInv'
    BY <1>6, ResetInv
  <1>7. ASSUME Done("migration", "idle") PROVE IInv'
    BY <1>7, DoneInv
  <1> QED BY <1>1, <1>2, <1>3, <1>4, <1>5, <1>6, <1>7 DEF Migration

\* The invariant is inductive.
LEMMA StepInv == IInv /\ [Next]_vars => IInv'
  <1> SUFFICES ASSUME IInv, [Next]_vars PROVE IInv' OBVIOUS
  <1> USE DEF IInv, LockInv, Inside, MigrationInv, ChannelInv, FinalInv
  <1>1. CASE Advance BY <1>1 DEF Advance, flags, channels, session, locals
  <1>2. CASE Fire BY <1>2 DEF Fire, flags, channels, session, locals
  <1>3. CASE ValidateTimeout BY <1>3, ValidatorInv, ResetLockedInv, ActorFacts
      DEF ValidateTimeout
  <1>4. CASE HandleRequest BY <1>4, HandleRequestInv
  <1>5. ASSUME NEW s \in Servers, Serve(s) PROVE IInv' BY <1>5, ServeInv
  <1>6. CASE Migration BY <1>6, MigrationStepInv
  <1>7. CASE UNCHANGED vars BY <1>7 DEF vars, flags, channels, session, locals
  <1> QED BY <1>1, <1>2, <1>3, <1>4, <1>5, <1>6, <1>7 DEF Next

\* The lock, the channels and the flag of a triggered timeout are consistent in every state
\* of the session, although due, disabled and hasReset are accessed without the lock.
THEOREM Invariance == Spec => []IInv
  BY InitInv, StepInv, PTL DEF Spec

\* The send to C() under the lock never blocks (validateTimeout), neither does the receive
\* that makes room for the latest extension when the validator itself executes resetLocked,
\* nor the send after it: for any number of connections and any length of the cycle.
THEOREM ChannelsAlwaysReady == Spec => []ChannelsReady
  <1>1. IInv => ChannelsReady BY DEF IInv, ChannelInv, ChannelsReady
  <1> QED BY <1>1, Invariance, PTL

\* "There's no turning back" (Wait): after the invocation has taken the timeout no Reset of
\* any goroutine is accepted, although timeout is set only after the value was sent.  The
\* argument is that the validator holds the lock from before the send until it is set.
THEOREM TimeoutIsFinal == Spec => []NoTurningBack
  <1>1. IInv => NoTurningBack
    BY ActorFacts DEF IInv, FinalInv, LockInv, Inside, NoTurningBack
  <1> QED BY <1>1, Invariance, PTL

-----------------------------------------------------------------------------
(***************************************************************************)
(* Types, and the count of busy goroutines.                                *)
(***************************************************************************)

\* The goroutines between Busy and DoneBusy: those that serve a request, and the one that
\* keeps the session of a migration's destination busy.
BusyOnes == {s \in Servers : cmd[s] = "request"} \cup {a \in {"migration"} : pc[a] = "joined"}

CountInv == IsFiniteSet(BusyOnes) /\ active = Cardinality(BusyOnes)

\* Where a server is with which command: DoneBusy is reached only after Busy, and once.
Fits(label, command) ==
    /\ label \in Labels.server
    /\ label = "idle" => command = None
    /\ label \in {"busy", "unbusy"} => command = "request"
    /\ label \in {"lock"} \cup InReset => command \in {"request", "ping"}
    /\ command = "request" => label \in {"busy", "lock", "unbusy"} \cup InReset

PlaceInv ==
    /\ pc["main"] \in Labels.main
    /\ pc["validator"] \in Labels.validator
    /\ pc["migration"] \in Labels.migration
    /\ \A s \in Servers : Fits(pc[s], cmd[s])

\* The clock, the channels and the flags; an extension was received when the timer is set.
ScalarInv ==
    /\ phase \in 0..(TICK - 1) /\ dueLeft \in Nat /\ timer \in Nat \cup {-1}
    /\ lastExtension \in Extensions
    /\ reset \in Extensions \cup {None} /\ ext \in Extensions \cup {None}
    /\ {fired, disabled, hasReset, done, migrator, fromProxy} \subseteq BOOLEAN
    /\ pc["validator"] = "rearm" => ext \in Extensions

TypeInv == ScalarInv /\ PlaceInv /\ CountInv

\* A whole number of cycles that covers x.
LEMMA CeilCovers ==
    ASSUME NEW x \in Nat
    PROVE  Ceil(x) * TICK \in Int /\ Ceil(x) * TICK >= x
  <1>1. TICK \in Nat \ {0} BY TickAssumption
  <1>2. ASSUME NEW T \in Nat \ {0}
        PROVE  /\ x + T - 1 = T * ((x + T - 1) \div T) + ((x + T - 1) % T)
               /\ (x + T - 1) % T \in 0..(T - 1) /\ (x + T - 1) \div T \in Int
    OBVIOUS
  <1>3. ASSUME NEW T \in Nat \ {0}
        PROVE  ((x + T - 1) \div T) * T \in Int /\ ((x + T - 1) \div T) * T >= x
    BY <1>2
  <1> QED BY <1>1, <1>3 DEF Ceil

\* getTimeout is not negative for the extensions in use: each is at least TICK_ERROR.
LEMMA GetTimeoutType ==
    ASSUME NEW e \in Extensions, phase \in 0..(TICK - 1)
    PROVE  GetTimeout(e) \in Nat
  <1>1. e \in Nat /\ e >= TICK_ERROR /\ TICK_ERROR \in Nat /\ phase \in Nat /\ phase + e \in Nat
    BY TickAssumption DEF Extensions
  <1>2. Ceil(phase + e) * TICK \in Int /\ Ceil(phase + e) * TICK >= phase + e
    BY <1>1, CeilCovers
  <1> QED BY <1>1, <1>2 DEF GetTimeout

\* The extensions that callers ask for.
LEMMA ExtensionFacts ==
    TICK_ERROR \in Extensions /\ TICK \in Extensions /\ EXTEND \in Extensions
  BY DEF Extensions

\* A new session has the types; nobody is busy.
LEMMA InitTypes == Init => TypeInv
  <1> SUFFICES ASSUME Init PROVE TypeInv OBVIOUS
  <1>1. phase \in 0..(TICK - 1) BY DEF Init
  <1>2. GetTimeout(EXTEND) \in Nat BY <1>1, GetTimeoutType, ExtensionFacts
  <1> DEFINE first(a) == IF a = "main" THEN "start"
                         ELSE IF a = "validator" THEN "poll" ELSE "idle"
  <1>3. pc = [a \in Actors |-> first(a)] BY DEF Init
  <1>4. first("main") = "start" /\ first("migration") = "idle" /\ first("validator") = "poll"
    BY Zenon
  <1>5. ASSUME NEW s \in Servers PROVE first(s) = "idle" BY ActorFacts
  <1>6. /\ pc["main"] = "start" /\ pc["migration"] = "idle" /\ pc["validator"] = "poll"
        /\ \A s \in Servers : pc[s] = "idle"
    BY <1>3, <1>4, <1>5, ActorFacts
  <1>7. \A s \in Servers : cmd[s] = None BY DEF Init
  <1>8. None # "request" BY ServerAssumption DEF AllCommands
  <1>9. ScalarInv BY <1>1, <1>2, <1>6, ExtensionFacts DEF Init, ScalarInv
  <1>10. PlaceInv BY <1>6, <1>7, <1>8 DEF PlaceInv, Fits, Labels, InReset
  <1>11. BusyOnes = {} BY <1>6, <1>7, <1>8 DEF BusyOnes
  <1>12. CountInv BY <1>11, FS_EmptySet DEF CountInv, Init
  <1> QED BY <1>9, <1>10, <1>12 DEF TypeInv

\* Every step keeps the types of the scalar variables.
LEMMA ScalarStep == IInv /\ TypeInv /\ [Next]_vars => ScalarInv'
  <1> SUFFICES ASSUME IInv, TypeInv, [Next]_vars PROVE ScalarInv' OBVIOUS
  <1> USE ActorFacts, ExtensionFacts DEF ScalarInv
  <1>0. ScalarInv BY DEF TypeInv
  <1>1. \A e \in Extensions : GetTimeout(e) \in Nat BY <1>0, GetTimeoutType
  <1>2. ASSUME NEW a \in Actors, NEW label, label # "rearm", Goto(a, label)
        PROVE  pc'["validator"] = "rearm" => pc["validator"] = "rearm"
    BY <1>2, Moved DEF Moves
  <1>3. ASSUME Advance PROVE ScalarInv'
    <2>1. (phase + 1) % TICK \in 0..(TICK - 1) BY <1>0, TickAssumption
    <2>2. Decreased(dueLeft) \in Nat /\ Decreased(timer) \in Nat \cup {-1} BY <1>0 DEF Decreased
    <2> QED BY <1>0, <1>3, <2>1, <2>2 DEF Advance, flags, channels, session, locals
  <1>4. ASSUME Fire PROVE ScalarInv'
    BY <1>0, <1>1, <1>2, <1>4 DEF Fire, clock, flags, channels, session, locals
  <1>5. ASSUME Exit PROVE ScalarInv'
    BY <1>0, <1>1, <1>2, <1>5 DEF Exit, clock, flags, channels, session, locals
  <1>6. ASSUME Receive PROVE ScalarInv'
    <2>1. ext' \in Extensions BY <1>0, <1>6 DEF Receive
    <2> QED BY <1>0, <1>6, <2>1 DEF Receive, clock, flags, channels, session, locals
  <1>7. ASSUME Rearm PROVE ScalarInv'
    <2>1. GetTimeout(ext) \in Nat BY <1>0, <1>1, <1>7 DEF Rearm
    <2>2. pc'["validator"] # "rearm" BY <1>7, Moved DEF Rearm, Moves
    <2> QED BY <1>0, <1>7, <2>1, <2>2 DEF Rearm, clock, flags, channels, session, locals
  <1>8. ASSUME Acknowledge PROVE ScalarInv'
    BY <1>0, <1>1, <1>2, <1>8 DEF Acknowledge, clock, flags, channels, session, locals
  <1>9. ASSUME Expire PROVE ScalarInv'
    BY <1>0, <1>1, <1>2, <1>9 DEF Expire, clock, flags, channels, session, locals
  <1>10. ASSUME Pass PROVE ScalarInv'
    BY <1>0, <1>1, <1>2, <1>10 DEF Pass, clock, flags, channels, session, locals
  <1>11. ASSUME Prolong PROVE ScalarInv'
    BY <1>0, <1>1, <1>2, <1>11 DEF Prolong, clock, flags, channels, session, locals
  <1>12. ASSUME Overdue PROVE ScalarInv'
    BY <1>0, <1>1, <1>2, <1>12 DEF Overdue, clock, flags, channels, session, locals
  <1>13. ASSUME Send PROVE ScalarInv'
    BY <1>0, <1>1, <1>2, <1>13 DEF Send, clock, flags, channels, session, locals
  <1>14. ASSUME Mark PROVE ScalarInv'
    BY <1>0, <1>1, <1>2, <1>14 DEF Mark, clock, flags, channels, session, locals
  <1>15. ASSUME NEW a \in Actors, Offer(a) PROVE ScalarInv'
    BY <1>0, <1>1, <1>2, <1>15 DEF Offer, clock, flags, channels, session, locals
  <1>16. ASSUME NEW a \in Actors, Consume(a) PROVE ScalarInv'
    BY <1>0, <1>1, <1>2, <1>16 DEF Consume, clock, flags, channels, session, locals
  <1>17. ASSUME NEW a \in Actors, Resend(a) PROVE ScalarInv'
    BY <1>0, <1>1, <1>2, <1>17 DEF Resend, clock, flags, channels, session, locals
  <1>18. ASSUME NEW a \in Actors, Flag(a) PROVE ScalarInv'
    <2>1. AfterReset(a) # "rearm" BY AfterResetLabel
    <2> QED BY <1>0, <1>2, <1>18, <2>1 DEF Flag, clock, flags, channels, session, locals
  <1>19. ASSUME NEW a \in Actors, ResetDenied(a) PROVE ScalarInv'
    <2>1. AfterReset(a) # "rearm" BY AfterResetLabel
    <2> QED BY <1>0, <1>2, <1>19, <2>1 DEF ResetDenied, clock, flags, channels, session, locals
  <1>20. ASSUME NEW a \in Actors, ResetAccepted(a) PROVE ScalarInv'
    BY <1>0, <1>1, <1>2, <1>20 DEF ResetAccepted, clock, flags, channels, session, locals
  <1>21. ASSUME NEW a \in Actors, Disable(a) PROVE ScalarInv'
    BY <1>0, <1>1, <1>2, <1>21 DEF Disable, clock, flags, channels, session, locals
  <1>22. ASSUME NEW a \in Actors, NEW next \in {"clear", "closed", "idle"}, Done(a, next) PROVE ScalarInv'
    BY <1>0, <1>1, <1>2, <1>22 DEF Done, clock, flags, channels, session, locals
  <1>23. ASSUME NEW destination \in BOOLEAN, Start(destination) PROVE ScalarInv'
    <2>1. pc'["validator"] = pc["validator"] BY <1>23 DEF Start, IInv, LockInv
    <2> QED BY <1>0, <1>23, <2>1 DEF Start, clock, flags, channels, session, locals
  <1>24. ASSUME NEW e \in {TICK_ERROR, EXTEND}, Extend(e) PROVE ScalarInv'
    BY <1>0, <1>1, <1>2, <1>24 DEF Extend, clock, flags, channels, session, locals
  <1>25. ASSUME WaitDone PROVE ScalarInv'
    BY <1>0, <1>1, <1>2, <1>25 DEF WaitDone, clock, flags, channels, session, locals
  <1>26. ASSUME TakeTimeout PROVE ScalarInv'
    BY <1>0, <1>1, <1>2, <1>26 DEF TakeTimeout, clock, flags, channels, session, locals
  <1>27. ASSUME Halted PROVE ScalarInv'
    BY <1>0, <1>1, <1>2, <1>27 DEF Halted, Stop, Stopped, clock, flags, channels, session, locals
  <1>28. ASSUME Initiate PROVE ScalarInv'
    BY <1>0, <1>1, <1>2, <1>28 DEF Initiate, clock, flags, channels, session, locals
  <1>29. ASSUME Bye PROVE ScalarInv'
    BY <1>0, <1>1, <1>2, <1>29 DEF Bye, clock, flags, channels, session, locals
  <1>30. ASSUME ClearSession PROVE ScalarInv'
    BY <1>0, <1>1, <1>2, <1>30 DEF ClearSession, clock, flags, channels, session, locals
  <1>31. ASSUME NEW s \in Servers, Request(s) PROVE ScalarInv'
    BY <1>0, <1>1, <1>2, <1>31 DEF Request, Begin, clock, flags, channels, session, locals
  <1>32. ASSUME NEW s \in Servers, Ping(s) PROVE ScalarInv'
    BY <1>0, <1>1, <1>2, <1>32 DEF Ping, Begin, clock, flags, channels, session, locals
  <1>33. ASSUME NEW s \in Servers, Data(s) PROVE ScalarInv'
    BY <1>0, <1>1, <1>2, <1>33 DEF Data, Begin, clock, flags, channels, session, locals
  <1>34. ASSUME NEW s \in Servers, Migrate(s) PROVE ScalarInv'
    BY <1>0, <1>1, <1>2, <1>34 DEF Migrate, Begin, clock, flags, channels, session, locals
  <1>35. ASSUME NEW s \in Servers, Disconnected(s) PROVE ScalarInv'
    <2>1. PICK label \in {"closed", "done"} : Goto(s, label) BY <1>35 DEF Disconnected, Begin
    <2> QED BY <1>0, <1>2, <1>35, <2>1
        DEF Disconnected, Begin, clock, flags, channels, session, locals
  <1>36. ASSUME NEW s \in Servers, NEW e \in {TICK_ERROR, TICK}, Served(s, e) PROVE ScalarInv'
    BY <1>0, <1>1, <1>2, <1>36 DEF Served, clock, flags, channels, session, locals
  <1>37. ASSUME NEW s \in Servers, Unbusy(s) PROVE ScalarInv'
    BY <1>0, <1>1, <1>2, <1>37 DEF Unbusy, clock, flags, channels, session, locals
  <1>38. ASSUME NEW s \in Servers, DataSaved(s) PROVE ScalarInv'
    BY <1>0, <1>1, <1>2, <1>38 DEF DataSaved, Stop, Stopped, clock, flags, channels, session, locals
  <1>39. ASSUME NEW s \in Servers, MigrateStarted(s) PROVE ScalarInv'
    <2>1. pc'["validator"] = pc["validator"] BY <1>39 DEF MigrateStarted, IInv, LockInv
    <2> QED BY <1>0, <1>39, <2>1
        DEF MigrateStarted, Stopped, clock, flags, channels, session, locals
  <1>40. ASSUME NEW s \in Servers, MigrateFailed(s) PROVE ScalarInv'
    BY <1>0, <1>1, <1>2, <1>40 DEF MigrateFailed, Stopped, clock, flags, channels, session, locals
  <1>41. ASSUME Join PROVE ScalarInv'
    BY <1>0, <1>1, <1>2, <1>41 DEF Join, clock, flags, channels, session, locals
  <1>42. ASSUME Joined PROVE ScalarInv'
    BY <1>0, <1>1, <1>2, <1>42 DEF Joined, clock, flags, channels, session, locals
  <1>43. ASSUME Migrated PROVE ScalarInv'
    BY <1>0, <1>1, <1>2, <1>43 DEF Migrated, clock, flags, channels, session, locals
  <1>44. ASSUME Interrupted PROVE ScalarInv'
    BY <1>0, <1>1, <1>2, <1>44 DEF Interrupted, clock, flags, channels, session, locals
  <1>45. ASSUME UNCHANGED vars PROVE ScalarInv'
    BY <1>0, <1>45 DEF vars, clock, flags, channels, session, locals
  <1> HIDE DEF ScalarInv
  <1>46. ASSUME NEW a \in Actors, ResetLocked(a) PROVE ScalarInv'
    BY <1>46, <1>15, <1>16, <1>17, <1>18 DEF ResetLocked
  <1>47. ASSUME NEW a \in Callers, Reset(a) PROVE ScalarInv'
    BY <1>47, <1>19, <1>20, <1>46 DEF Reset
  <1> QED BY <1>3, <1>4, <1>5, <1>6, <1>7, <1>8, <1>9, <1>10, <1>11, <1>12, <1>13, <1>14, <1>15,
      <1>16, <1>17, <1>18, <1>19, <1>20, <1>21, <1>22, <1>23, <1>24, <1>25, <1>26, <1>27, <1>28,
      <1>29, <1>30, <1>31, <1>32, <1>33, <1>34, <1>35, <1>36, <1>37, <1>38, <1>39, <1>40, <1>41,
      <1>42, <1>43, <1>44, <1>45, <1>46, <1>47 DEF Next, ValidateTimeout, HandleRequest, Serve,
      Migration

\* A goroutine that serves no command moves.
LEMMA NamedPlace ==
    ASSUME PlaceInv, NEW a \in {"main", "validator", "migration"}, NEW label, Moves(a, label),
           cmd' = cmd,
           a = "main" => label \in Labels.main,
           a = "validator" => label \in Labels.validator,
           a = "migration" => label \in Labels.migration
    PROVE  PlaceInv'
  BY ActorFacts DEF PlaceInv, Moves, Labels

\* A server moves.
LEMMA ServerPlace ==
    ASSUME PlaceInv, NEW s \in Servers, NEW label, Moves(s, label), Fits(label, cmd'[s]),
           \A t \in Servers : t # s => cmd'[t] = cmd[t]
    PROVE  PlaceInv'
  <1>1. \A t \in Servers : Fits(pc'[t], cmd'[t])
    BY ActorFacts DEF PlaceInv, Moves
  <1>2. UNCHANGED <<pc["main"], pc["validator"], pc["migration"]>>
    BY ActorFacts DEF Moves
  <1> QED BY <1>1, <1>2 DEF PlaceInv

\* A goroutine that is within Reset stays there,
LEMMA ResetPlace ==
    ASSUME PlaceInv, NEW a \in Actors, NEW label \in InReset, Moves(a, label), cmd' = cmd,
           pc[a] \in {"lock"} \cup InReset
    PROVE  PlaceInv'
  <1>1. CASE a \in Servers
    BY <1>1, ServerPlace DEF PlaceInv, Fits, Labels, InReset
  <1>2. CASE a \in {"main", "validator", "migration"}
    <2>1. label \in Labels.main /\ label \in Labels.validator /\ label \in Labels.migration
      BY DEF Labels
    <2> QED BY <1>2, <2>1, NamedPlace
  <1> QED BY <1>1, <1>2 DEF Actors, Callers

\* or leaves it.
LEMMA AfterResetPlace ==
    ASSUME IInv, PlaceInv, NEW a \in Actors, Moves(a, AfterReset(a)), cmd' = Ended(a),
           pc[a] \in {"lock"} \cup InReset
    PROVE  /\ PlaceInv'
           /\ \A s \in Servers : cmd'[s] = "request" <=> cmd[s] = "request"
           /\ pc'["migration"] # "joined" \/ pc'["migration"] = pc["migration"]
           /\ a = "migration" => pc["migration"] # "joined"
  <1>1. cmd \in [Servers -> AllCommands \cup {None}] /\ None \notin AllCommands
    BY ServerAssumption DEF IInv, MigrationInv
  <1>2. CASE a \in Servers /\ cmd[a] = "request"
    <2>1. AfterReset(a) = "unbusy" /\ Ended(a) = cmd
      BY <1>2, ActorFacts DEF AfterReset, Ended
    <2>2. Fits("unbusy", "request") BY DEF Fits, Labels
    <2> QED BY <1>2, <2>1, <2>2, ServerPlace, ActorFacts DEF Moves
  <1>3. CASE a \in Servers /\ cmd[a] # "request"
    <2>1. cmd[a] = "ping" BY <1>3 DEF PlaceInv, Fits
    <2>2. AfterReset(a) = "idle" /\ Ended(a) = [cmd EXCEPT ![a] = None]
      BY <1>3, <2>1, ActorFacts DEF AfterReset, Ended
    <2>3. Fits("idle", None) BY <1>1 DEF Fits, Labels, AllCommands, InReset
    <2>4. cmd'[a] = None /\ \A t \in Servers : t # a => cmd'[t] = cmd[t]
      BY <1>1, <1>3, <2>2
    <2>5. PlaceInv' BY <1>3, <2>2, <2>3, <2>4, ServerPlace
    <2> QED BY <1>1, <1>3, <2>4, <2>5, ActorFacts DEF Moves, AllCommands
  <1>4. CASE a \notin Servers
    <2>1. a \in {"main", "validator", "migration"} BY <1>4 DEF Actors, Callers
    <2>2. Ended(a) = cmd BY <1>4 DEF Ended
    <2>3. /\ a = "main" => AfterReset(a) \in Labels.main
          /\ a = "validator" => AfterReset(a) \in Labels.validator
          /\ a = "migration" => AfterReset(a) \in Labels.migration /\ AfterReset(a) # "joined"
      BY AfterResetLabel DEF Labels
    <2>4. PlaceInv' BY <2>1, <2>2, <2>3, NamedPlace
    <2>5. a = "migration" => pc["migration"] # "joined" BY DEF InReset
    <2> QED BY <2>1, <2>2, <2>3, <2>4, <2>5, ActorFacts DEF Moves
  <1> QED BY <1>2, <1>3, <1>4

\* No goroutine becomes or ceases to be busy.
SameBusy ==
    /\ active' = active
    /\ \A s \in Servers : cmd'[s] = "request" <=> cmd[s] = "request"
    /\ pc'["migration"] = "joined" <=> pc["migration"] = "joined"

\* Then the count stays right.
LEMMA SameCount ==
    ASSUME CountInv, SameBusy
    PROVE  CountInv'
  <1>1. BusyOnes' = BusyOnes BY DEF SameBusy, BusyOnes
  <1> QED BY <1>1 DEF CountInv, SameBusy

\* Busy counts a goroutine that was not busy.
LEMMA BusyCount ==
    ASSUME CountInv, NEW a, a \notin BusyOnes, BusyOnes' = BusyOnes \cup {a}, active' = active + 1
    PROVE  CountInv'
  BY FS_AddElement DEF CountInv

\* DoneBusy discounts one that was.
LEMMA DoneBusyCount ==
    ASSUME CountInv, NEW a \in BusyOnes, BusyOnes' = BusyOnes \ {a}, active' = active - 1
    PROVE  CountInv'
  BY FS_RemoveElement DEF CountInv

\* Every step takes a goroutine where its command allows, and counts it when it is busy.
LEMMA PlaceStep == IInv /\ TypeInv /\ [Next]_vars => PlaceInv' /\ CountInv'
  <1> SUFFICES ASSUME IInv, TypeInv, [Next]_vars PROVE PlaceInv' /\ CountInv' OBVIOUS
  <1> USE ActorFacts, Moved, SameCount
  <1>0. PlaceInv /\ CountInv BY DEF TypeInv
  <1>1. cmd \in [Servers -> AllCommands \cup {None}] /\ None \notin AllCommands
    BY ServerAssumption DEF IInv, MigrationInv
  <1>2. ASSUME NEW a \in {"main", "validator"}, NEW label, Moves(a, label), cmd' = cmd, active' = active,
               a = "main" => label \in Labels.main, a = "validator" => label \in Labels.validator
        PROVE  PlaceInv' /\ CountInv'
    <2>1. PlaceInv' BY <1>0, <1>2, NamedPlace
    <2>2. SameBusy BY <1>2 DEF SameBusy, Moves
    <2> QED BY <1>0, <2>1, <2>2
  <1>3. ASSUME NEW a \in Actors, NEW label \in InReset, Moves(a, label), cmd' = cmd, active' = active,
               pc[a] \in {"lock"} \cup InReset
        PROVE  PlaceInv' /\ CountInv'
    <2>1. PlaceInv' BY <1>0, <1>3, ResetPlace
    <2>2. SameBusy BY <1>3 DEF SameBusy, Moves, InReset
    <2> QED BY <1>0, <2>1, <2>2
  <1>4. ASSUME NEW a \in Actors, Moves(a, AfterReset(a)), cmd' = Ended(a), active' = active,
               pc[a] \in {"lock"} \cup InReset
        PROVE  PlaceInv' /\ CountInv'
    <2>1. /\ PlaceInv' /\ \A s \in Servers : cmd'[s] = "request" <=> cmd[s] = "request"
          /\ pc'["migration"] # "joined" \/ pc'["migration"] = pc["migration"]
          /\ a = "migration" => pc["migration"] # "joined"
      BY <1>0, <1>4, AfterResetPlace
    <2>2. SameBusy BY <1>4, <2>1 DEF SameBusy, Moves
    <2> QED BY <1>0, <2>1, <2>2
  <1>5. ASSUME NEW s \in Servers, NEW label, Moves(s, label), Fits(label, cmd'[s]),
               \A t \in Servers : t # s => cmd'[t] = cmd[t],
               active' = active, cmd'[s] = "request" <=> cmd[s] = "request"
        PROVE  PlaceInv' /\ CountInv'
    <2>1. PlaceInv' BY <1>0, <1>5, ServerPlace
    <2>2. SameBusy BY <1>5 DEF SameBusy, Moves
    <2> QED BY <1>0, <2>1, <2>2
  <1>6. ASSUME Advance PROVE PlaceInv' /\ CountInv'
    <2>1. UNCHANGED <<pc, cmd, active>> BY <1>6 DEF Advance, clock, flags, channels, session, locals
    <2> QED BY <1>0, <2>1 DEF PlaceInv, CountInv, BusyOnes
  <1>7. ASSUME Fire PROVE PlaceInv' /\ CountInv'
    <2>1. UNCHANGED <<pc, cmd, active>> BY <1>7 DEF Fire, clock, flags, channels, session, locals
    <2> QED BY <1>0, <2>1 DEF PlaceInv, CountInv, BusyOnes
  <1>8. ASSUME Exit PROVE PlaceInv' /\ CountInv'
    <2>1. Moves("validator", "exited") /\ cmd' = cmd /\ active' = active
      BY <1>8 DEF Exit, clock, flags, channels, session, locals
    <2> QED BY <1>2, <2>1 DEF Labels
  <1>9. ASSUME Receive PROVE PlaceInv' /\ CountInv'
    <2>1. Moves("validator", "rearm") /\ cmd' = cmd /\ active' = active
      BY <1>9 DEF Receive, clock, flags, channels, session, locals
    <2> QED BY <1>2, <2>1 DEF Labels
  <1>10. ASSUME Rearm PROVE PlaceInv' /\ CountInv'
    <2>1. Moves("validator", "ack") /\ cmd' = cmd /\ active' = active
      BY <1>10 DEF Rearm, clock, flags, channels, session, locals
    <2> QED BY <1>2, <2>1 DEF Labels
  <1>11. ASSUME Acknowledge PROVE PlaceInv' /\ CountInv'
    <2>1. Moves("validator", "poll") /\ cmd' = cmd /\ active' = active
      BY <1>11 DEF Acknowledge, clock, flags, channels, session, locals
    <2> QED BY <1>2, <2>1 DEF Labels
  <1>12. ASSUME Expire PROVE PlaceInv' /\ CountInv'
    <2>1. Moves("validator", "expired") /\ cmd' = cmd /\ active' = active
      BY <1>12 DEF Expire, clock, flags, channels, session, locals
    <2> QED BY <1>2, <2>1 DEF Labels
  <1>13. ASSUME Pass PROVE PlaceInv' /\ CountInv'
    <2>1. Moves("validator", "poll") /\ cmd' = cmd /\ active' = active
      BY <1>13 DEF Pass, clock, flags, channels, session, locals
    <2> QED BY <1>2, <2>1 DEF Labels
  <1>14. ASSUME Prolong PROVE PlaceInv' /\ CountInv'
    <2>1. Moves("validator", "offer") /\ cmd' = cmd /\ active' = active
      BY <1>14 DEF Prolong, clock, flags, channels, session, locals
    <2> QED BY <1>2, <2>1 DEF Labels, InReset
  <1>15. ASSUME Overdue PROVE PlaceInv' /\ CountInv'
    <2>1. Moves("validator", "send") /\ cmd' = cmd /\ active' = active
      BY <1>15 DEF Overdue, clock, flags, channels, session, locals
    <2> QED BY <1>2, <2>1 DEF Labels
  <1>16. ASSUME Send PROVE PlaceInv' /\ CountInv'
    <2>1. Moves("validator", "mark") /\ cmd' = cmd /\ active' = active
      BY <1>16 DEF Send, clock, flags, channels, session, locals
    <2> QED BY <1>2, <2>1 DEF Labels
  <1>17. ASSUME Mark PROVE PlaceInv' /\ CountInv'
    <2>1. Moves("validator", "poll") /\ cmd' = cmd /\ active' = active
      BY <1>17 DEF Mark, clock, flags, channels, session, locals
    <2> QED BY <1>2, <2>1 DEF Labels
  <1>18. ASSUME NEW a \in Actors, Offer(a), reset = None PROVE PlaceInv' /\ CountInv'
    <2>1. Moves(a, "flag") /\ cmd' = cmd /\ active' = active /\ pc[a] \in {"lock"} \cup InReset
      BY <1>18 DEF Offer, InReset, clock, flags, channels, session, locals
    <2> QED BY <1>3, <2>1 DEF InReset
  <1>19. ASSUME NEW a \in Actors, Offer(a), reset # None PROVE PlaceInv' /\ CountInv'
    <2>1. Moves(a, "consume") /\ cmd' = cmd /\ active' = active /\ pc[a] \in {"lock"} \cup InReset
      BY <1>19 DEF Offer, InReset, clock, flags, channels, session, locals
    <2> QED BY <1>3, <2>1 DEF InReset
  <1>20. ASSUME NEW a \in Actors, Consume(a) PROVE PlaceInv' /\ CountInv'
    <2>1. Moves(a, "resend") /\ cmd' = cmd /\ active' = active /\ pc[a] \in {"lock"} \cup InReset
      BY <1>20 DEF Consume, InReset, clock, flags, channels, session, locals
    <2> QED BY <1>3, <2>1 DEF InReset
  <1>21. ASSUME NEW a \in Actors, Resend(a) PROVE PlaceInv' /\ CountInv'
    <2>1. Moves(a, "flag") /\ cmd' = cmd /\ active' = active /\ pc[a] \in {"lock"} \cup InReset
      BY <1>21 DEF Resend, InReset, clock, flags, channels, session, locals
    <2> QED BY <1>3, <2>1 DEF InReset
  <1>22. ASSUME NEW a \in Actors, Flag(a) PROVE PlaceInv' /\ CountInv'
    <2>1. Moves(a, AfterReset(a)) /\ cmd' = Ended(a) /\ active' = active /\ pc[a] \in {"lock"} \cup InReset
      BY <1>22 DEF Flag, InReset, clock, flags, channels, session, locals
    <2> QED BY <1>4, <2>1
  <1>23. ASSUME NEW a \in Actors, ResetDenied(a) PROVE PlaceInv' /\ CountInv'
    <2>1. Moves(a, AfterReset(a)) /\ cmd' = Ended(a) /\ active' = active /\ pc[a] \in {"lock"} \cup InReset
      BY <1>23 DEF ResetDenied, InReset, clock, flags, channels, session, locals
    <2> QED BY <1>4, <2>1
  <1>24. ASSUME NEW a \in Actors, ResetAccepted(a) PROVE PlaceInv' /\ CountInv'
    <2>1. Moves(a, "offer") /\ cmd' = cmd /\ active' = active /\ pc[a] \in {"lock"} \cup InReset
      BY <1>24 DEF ResetAccepted, InReset, clock, flags, channels, session, locals
    <2> QED BY <1>3, <2>1 DEF InReset
  <1>25. ASSUME Disable("main") PROVE PlaceInv' /\ CountInv'
    <2>1. Moves("main", "stop") /\ cmd' = cmd /\ active' = active
      BY <1>25 DEF Disable, clock, flags, channels, session, locals
    <2> QED BY <1>2, <2>1 DEF Labels
  <1>26. ASSUME NEW destination \in BOOLEAN, Start(destination) PROVE PlaceInv' /\ CountInv'
    <2>1. pc'["main"] = "extend" /\ pc'["migration"] \in {"join", "idle"} /\ \A a \in Actors : a \notin {"main", "migration"} => pc'[a] = pc[a]
      BY <1>26 DEF Start, IInv, LockInv
    <2>2. cmd' = cmd /\ active' = active /\ pc["migration"] = "idle"
      BY <1>26 DEF Start, flags, locals, IInv, MigrationInv
    <2>3. SameBusy BY <2>1, <2>2 DEF SameBusy
    <2>4. \A s \in Servers : pc'[s] = pc[s] BY <2>1
    <2>5. pc'["validator"] = pc["validator"] BY <2>1
    <2> QED BY <1>0, <2>1, <2>2, <2>3, <2>4, <2>5 DEF PlaceInv, Labels
  <1>27. ASSUME NEW e \in {TICK_ERROR, EXTEND}, Extend(e) PROVE PlaceInv' /\ CountInv'
    <2>1. Moves("main", "lock") /\ cmd' = cmd /\ active' = active
      BY <1>27 DEF Extend, clock, flags, channels, session, locals
    <2> QED BY <1>2, <2>1 DEF Labels
  <1>28. ASSUME WaitDone PROVE PlaceInv' /\ CountInv'
    <2>1. Moves("main", "clear") /\ cmd' = cmd /\ active' = active
      BY <1>28 DEF WaitDone, clock, flags, channels, session, locals
    <2> QED BY <1>2, <2>1 DEF Labels
  <1>29. ASSUME TakeTimeout PROVE PlaceInv' /\ CountInv'
    <2>1. Moves("main", "disable") /\ cmd' = cmd /\ active' = active
      BY <1>29 DEF TakeTimeout, clock, flags, channels, session, locals
    <2> QED BY <1>2, <2>1 DEF Labels
  <1>30. ASSUME Halted PROVE PlaceInv' /\ CountInv'
    <2>1. Moves("main", "decide") /\ cmd' = cmd /\ active' = active
      BY <1>30 DEF Halted, Stop, clock, flags, channels, session, locals
    <2> QED BY <1>2, <2>1 DEF Labels
  <1>31. ASSUME Initiate PROVE PlaceInv' /\ CountInv'
    <2>1. Moves("main", "initiated") /\ cmd' = cmd /\ active' = active
      BY <1>31 DEF Initiate, clock, flags, channels, session, locals
    <2> QED BY <1>2, <2>1 DEF Labels
  <1>32. ASSUME Bye PROVE PlaceInv' /\ CountInv'
    <2>1. Moves("main", "done") /\ cmd' = cmd /\ active' = active
      BY <1>32 DEF Bye, clock, flags, channels, session, locals
    <2> QED BY <1>2, <2>1 DEF Labels
  <1>33. ASSUME Done("main", "clear") PROVE PlaceInv' /\ CountInv'
    <2>1. Moves("main", "clear") /\ cmd' = cmd /\ active' = active
      BY <1>33 DEF Done, clock, flags, channels, session, locals
    <2> QED BY <1>2, <2>1 DEF Labels
  <1>34. ASSUME ClearSession PROVE PlaceInv' /\ CountInv'
    <2>1. Moves("main", "returned") /\ cmd' = cmd /\ active' = active
      BY <1>34 DEF ClearSession, clock, flags, channels, session, locals
    <2> QED BY <1>2, <2>1 DEF Labels
  <1>35. ASSUME NEW s \in Servers, Request(s) PROVE PlaceInv' /\ CountInv'
    <2>1. Moves(s, "busy") /\ pc[s] = "idle" /\ cmd' = [cmd EXCEPT ![s] = "request"] /\ active' = active + 1
      BY <1>35 DEF Request, Begin
    <2>2. cmd[s] = None BY <1>0, <2>1 DEF PlaceInv, Fits
    <2>3. cmd'[s] = "request" /\ \A t \in Servers : t # s => cmd'[t] = cmd[t] BY <1>1, <2>1
    <2>4. Fits("busy", "request") BY DEF Fits, Labels
    <2>5. PlaceInv' BY <1>0, <2>1, <2>3, <2>4, ServerPlace
    <2>6. s \notin BusyOnes /\ BusyOnes' = BusyOnes \cup {s}
      <3>1. pc'["migration"] = pc["migration"] BY <2>1 DEF Moves
      <3>2. None # "request" BY <1>1 DEF AllCommands
      <3> QED BY <2>2, <2>3, <3>1, <3>2 DEF BusyOnes
    <2> QED BY <1>0, <2>1, <2>5, <2>6, BusyCount
  <1>36. ASSUME NEW s \in Servers, Ping(s) PROVE PlaceInv' /\ CountInv'
    <2>1. Moves(s, "lock") /\ pc[s] = "idle" /\ cmd' = [cmd EXCEPT ![s] = "ping"] /\ active' = active
      BY <1>36 DEF Ping, Begin, clock, flags, channels, session, locals
    <2>2. cmd[s] = None /\ None # "request" BY <1>0, <1>1, <2>1 DEF PlaceInv, Fits, AllCommands
    <2>3. cmd'[s] = "ping" /\ \A t \in Servers : t # s => cmd'[t] = cmd[t] BY <1>1, <2>1
    <2>4. Fits("lock", "ping") BY DEF Fits, Labels, InReset
    <2> QED BY <1>5, <2>1, <2>2, <2>3, <2>4
  <1>37. ASSUME NEW s \in Servers, Data(s) PROVE PlaceInv' /\ CountInv'
    <2>1. Moves(s, "disable") /\ pc[s] = "idle" /\ cmd' = [cmd EXCEPT ![s] = "data"] /\ active' = active
      BY <1>37 DEF Data, Begin, clock, flags, channels, session, locals
    <2>2. cmd[s] = None /\ None # "request" BY <1>0, <1>1, <2>1 DEF PlaceInv, Fits, AllCommands
    <2>3. cmd'[s] = "data" /\ \A t \in Servers : t # s => cmd'[t] = cmd[t] BY <1>1, <2>1
    <2>4. Fits("disable", "data") BY DEF Fits, Labels, InReset
    <2> QED BY <1>5, <2>1, <2>2, <2>3, <2>4
  <1>38. ASSUME NEW s \in Servers, Migrate(s) PROVE PlaceInv' /\ CountInv'
    <2>1. Moves(s, "disable") /\ pc[s] = "idle" /\ cmd' = [cmd EXCEPT ![s] = "migrate"] /\ active' = active
      BY <1>38 DEF Migrate, Begin, clock, flags, channels, session, locals
    <2>2. cmd[s] = None /\ None # "request" BY <1>0, <1>1, <2>1 DEF PlaceInv, Fits, AllCommands
    <2>3. cmd'[s] = "migrate" /\ \A t \in Servers : t # s => cmd'[t] = cmd[t] BY <1>1, <2>1
    <2>4. Fits("disable", "migrate") BY DEF Fits, Labels, InReset
    <2> QED BY <1>5, <2>1, <2>2, <2>3, <2>4
  <1>39. ASSUME NEW s \in Servers, Disconnected(s), migrator PROVE PlaceInv' /\ CountInv'
    <2>1. Moves(s, "closed") /\ pc[s] = "idle" /\ cmd' = [cmd EXCEPT ![s] = "close"] /\ active' = active
      BY <1>39 DEF Disconnected, Begin, clock, flags, channels, session, locals
    <2>2. cmd[s] = None /\ None # "request" BY <1>0, <1>1, <2>1 DEF PlaceInv, Fits, AllCommands
    <2>3. cmd'[s] = "close" /\ \A t \in Servers : t # s => cmd'[t] = cmd[t] BY <1>1, <2>1
    <2>4. Fits("closed", "close") BY DEF Fits, Labels, InReset
    <2> QED BY <1>5, <2>1, <2>2, <2>3, <2>4
  <1>40. ASSUME NEW s \in Servers, Disconnected(s), ~migrator PROVE PlaceInv' /\ CountInv'
    <2>1. Moves(s, "done") /\ pc[s] = "idle" /\ cmd' = [cmd EXCEPT ![s] = "close"] /\ active' = active
      BY <1>40 DEF Disconnected, Begin, clock, flags, channels, session, locals
    <2>2. cmd[s] = None /\ None # "request" BY <1>0, <1>1, <2>1 DEF PlaceInv, Fits, AllCommands
    <2>3. cmd'[s] = "close" /\ \A t \in Servers : t # s => cmd'[t] = cmd[t] BY <1>1, <2>1
    <2>4. Fits("done", "close") BY DEF Fits, Labels, InReset
    <2> QED BY <1>5, <2>1, <2>2, <2>3, <2>4
  <1>41. ASSUME NEW s \in Servers, NEW e \in {TICK_ERROR, TICK}, Served(s, e) PROVE PlaceInv' /\ CountInv'
    <2>1. Moves(s, "lock") /\ cmd' = cmd /\ active' = active
      BY <1>41 DEF Served, clock, flags, channels, session, locals
    <2>2. Fits("lock", cmd[s]) BY <1>0, <1>41 DEF Served, PlaceInv, Fits, Labels, InReset
    <2> QED BY <1>5, <2>1, <2>2
  <1>42. ASSUME NEW s \in Servers, Unbusy(s) PROVE PlaceInv' /\ CountInv'
    <2>1. Moves(s, "idle") /\ pc[s] = "unbusy" /\ cmd' = [cmd EXCEPT ![s] = None] /\ active' = active - 1
      BY <1>42 DEF Unbusy
    <2>2. cmd[s] = "request" BY <1>0, <2>1 DEF PlaceInv, Fits
    <2>3. cmd'[s] = None /\ \A t \in Servers : t # s => cmd'[t] = cmd[t] BY <1>1, <2>1
    <2>4. None # "request" BY <1>1 DEF AllCommands
    <2>5. Fits("idle", None) BY <2>4 DEF Fits, Labels, InReset
    <2>6. PlaceInv' BY <1>0, <2>1, <2>3, <2>5, ServerPlace
    <2>7. s \in BusyOnes /\ BusyOnes' = BusyOnes \ {s}
      <3>1. pc'["migration"] = pc["migration"] BY <2>1 DEF Moves
      <3> QED BY <2>2, <2>3, <2>4, <3>1 DEF BusyOnes
    <2> QED BY <1>0, <2>1, <2>6, <2>7, DoneBusyCount
  <1>43. ASSUME NEW s \in Servers, Disable(s) PROVE PlaceInv' /\ CountInv'
    <2>1. Moves(s, "stop") /\ cmd' = cmd /\ active' = active
      BY <1>43 DEF Disable, clock, flags, channels, session, locals
    <2>2. Fits("stop", cmd[s]) BY <1>0, <1>43 DEF Disable, PlaceInv, Fits, Labels, InReset
    <2> QED BY <1>5, <2>1, <2>2
  <1>44. ASSUME NEW s \in Servers, DataSaved(s) PROVE PlaceInv' /\ CountInv'
    <2>1. Moves(s, "done") /\ cmd' = cmd /\ active' = active
      BY <1>44 DEF DataSaved, Stop, clock, flags, channels, session, locals
    <2>2. Fits("done", cmd[s]) BY <1>0, <1>44 DEF DataSaved, Stop, PlaceInv, Fits, Labels, InReset
    <2> QED BY <1>5, <2>1, <2>2
  <1>45. ASSUME NEW s \in Servers, MigrateStarted(s) PROVE PlaceInv' /\ CountInv'
    <2>1. /\ pc'[s] = "idle" /\ pc'["migration"] = "serving"
          /\ \A a \in Actors : a \notin {s, "migration"} => pc'[a] = pc[a]
      BY <1>45 DEF MigrateStarted, IInv, LockInv
    <2>2. cmd[s] = "migrate" /\ cmd' = [cmd EXCEPT ![s] = None] /\ active' = active
      BY <1>45 DEF MigrateStarted, flags
    <2>3. cmd'[s] = None /\ \A t \in Servers : t # s => cmd'[t] = cmd[t] BY <1>1, <2>2
    <2>4. pc["migration"] = "idle" BY <2>2 DEF IInv, MigrationInv
    <2>5. None # "request" BY <1>1 DEF AllCommands
    <2>6. SameBusy BY <2>1, <2>2, <2>3, <2>4, <2>5 DEF SameBusy
    <2>7. Fits("idle", None) BY <2>5 DEF Fits, Labels, InReset
    <2>8. \A t \in Servers : Fits(pc'[t], cmd'[t]) BY <1>0, <2>1, <2>3, <2>7 DEF PlaceInv
    <2>9. pc'["main"] = pc["main"] /\ pc'["validator"] = pc["validator"] BY <2>1
    <2> QED BY <1>0, <2>1, <2>6, <2>8, <2>9 DEF PlaceInv, Labels
  <1>46. ASSUME NEW s \in Servers, MigrateFailed(s) PROVE PlaceInv' /\ CountInv'
    <2>1. Moves(s, "idle") /\ cmd[s] = "migrate" /\ cmd' = [cmd EXCEPT ![s] = None] /\ active' = active
      BY <1>46 DEF MigrateFailed, flags
    <2>2. cmd'[s] = None /\ \A t \in Servers : t # s => cmd'[t] = cmd[t] BY <1>1, <2>1
    <2>3. None # "request" BY <1>1 DEF AllCommands
    <2>4. Fits("idle", None) BY <2>3 DEF Fits, Labels, InReset
    <2> QED BY <1>5, <2>1, <2>2, <2>3, <2>4
  <1>47. ASSUME NEW s \in Servers, Done(s, "closed") PROVE PlaceInv' /\ CountInv'
    <2>1. Moves(s, "closed") /\ cmd' = cmd /\ active' = active
      BY <1>47 DEF Done, clock, flags, channels, session, locals
    <2>2. Fits("closed", cmd[s]) BY <1>0, <1>47 DEF Done, PlaceInv, Fits, Labels, InReset
    <2> QED BY <1>5, <2>1, <2>2
  <1>48. ASSUME Join PROVE PlaceInv' /\ CountInv'
    <2>1. Moves("migration", "joined") /\ cmd' = cmd /\ active' = active + 1 /\ pc["migration"] = "join"
      BY <1>48 DEF Join, locals
    <2>2. PlaceInv' BY <1>0, <2>1, NamedPlace DEF Labels
    <2>3. "migration" \notin BusyOnes /\ BusyOnes' = BusyOnes \cup {"migration"}
      BY <2>1 DEF BusyOnes, Moves
    <2> QED BY <1>0, <2>1, <2>2, <2>3, BusyCount
  <1>49. ASSUME Joined PROVE PlaceInv' /\ CountInv'
    <2>1. Moves("migration", "idle") /\ cmd' = cmd /\ active' = active - 1 /\ pc["migration"] = "joined"
      BY <1>49 DEF Joined, locals
    <2>2. PlaceInv' BY <1>0, <2>1, NamedPlace DEF Labels
    <2>3. "migration" \in BusyOnes /\ BusyOnes' = BusyOnes \ {"migration"}
      BY <2>1 DEF BusyOnes, Moves
    <2> QED BY <1>0, <2>1, <2>2, <2>3, DoneBusyCount
  <1>50. ASSUME Migrated PROVE PlaceInv' /\ CountInv'
    <2>1. Moves("migration", "done") /\ cmd' = cmd /\ active' = active /\ pc["migration"] = "serving"
      BY <1>50 DEF Migrated, clock, flags, channels, session, locals
    <2>2. PlaceInv' BY <1>0, <2>1, NamedPlace DEF Labels
    <2>3. SameBusy BY <2>1 DEF SameBusy, Moves
    <2> QED BY <1>0, <2>2, <2>3
  <1>51. ASSUME Interrupted, fromProxy PROVE PlaceInv' /\ CountInv'
    <2>1. Moves("migration", "lock") /\ cmd' = cmd /\ active' = active /\ pc["migration"] = "serving"
      BY <1>51 DEF Interrupted, clock, flags, channels, session, locals
    <2>2. PlaceInv' BY <1>0, <2>1, NamedPlace DEF Labels
    <2>3. SameBusy BY <2>1 DEF SameBusy, Moves
    <2> QED BY <1>0, <2>2, <2>3
  <1>52. ASSUME Interrupted, ~fromProxy PROVE PlaceInv' /\ CountInv'
    <2>1. Moves("migration", "idle") /\ cmd' = cmd /\ active' = active /\ pc["migration"] = "serving"
      BY <1>52 DEF Interrupted, clock, flags, channels, session, locals
    <2>2. PlaceInv' BY <1>0, <2>1, NamedPlace DEF Labels
    <2>3. SameBusy BY <2>1 DEF SameBusy, Moves
    <2> QED BY <1>0, <2>2, <2>3
  <1>53. ASSUME Done("migration", "idle") PROVE PlaceInv' /\ CountInv'
    <2>1. Moves("migration", "idle") /\ cmd' = cmd /\ active' = active /\ pc["migration"] = "done"
      BY <1>53 DEF Done, clock, flags, channels, session, locals
    <2>2. PlaceInv' BY <1>0, <2>1, NamedPlace DEF Labels
    <2>3. SameBusy BY <2>1 DEF SameBusy, Moves
    <2> QED BY <1>0, <2>2, <2>3
  <1>54. ASSUME UNCHANGED vars PROVE PlaceInv' /\ CountInv'
    <2>1. UNCHANGED <<pc, cmd, active>> BY <1>54 DEF vars, clock, flags, channels, session, locals
    <2> QED BY <1>0, <2>1 DEF PlaceInv, CountInv, BusyOnes
  <1>55. ASSUME NEW a \in Actors, ResetLocked(a) PROVE PlaceInv' /\ CountInv'
    BY <1>55, <1>18, <1>19, <1>20, <1>21, <1>22 DEF ResetLocked
  <1>56. ASSUME NEW a \in Callers, Reset(a) PROVE PlaceInv' /\ CountInv'
    BY <1>56, <1>23, <1>24, <1>55 DEF Reset
  <1> QED BY <1>6, <1>7, <1>8, <1>9, <1>10, <1>11, <1>12, <1>13, <1>14, <1>15, <1>16, <1>17, <1>25,
      <1>26, <1>27, <1>28, <1>29, <1>30, <1>31, <1>32, <1>33, <1>34, <1>35, <1>36, <1>37, <1>38,
      <1>39, <1>40, <1>41, <1>42, <1>43, <1>44, <1>45, <1>46, <1>47, <1>48, <1>49, <1>50, <1>51,
      <1>52, <1>53, <1>54, <1>55, <1>56 DEF Next, ValidateTimeout, HandleRequest, Serve, Migration

\* Types are preserved.
LEMMA StepTypes == IInv /\ TypeInv /\ [Next]_vars => TypeInv'
  BY ScalarStep, PlaceStep DEF TypeInv

\* All variables keep their types; in particular the count of busy goroutines is never
\* negative (DoneBusy is called once for each Busy), and getTimeout never returns a negative
\* time, for any number of connections and any length of the cycle.
THEOREM TypeCorrect == Spec => []TypeOK
  <1>1. IInv /\ TypeInv => TypeOK
    <2> SUFFICES ASSUME IInv, TypeInv PROVE TypeOK OBVIOUS
    <2>1. active \in Nat BY FS_CardinalityType DEF TypeInv, CountInv
    <2>2. mu \in Actors \cup {None} /\ DOMAIN pc = Actors BY DEF IInv, LockInv
    <2>3. cmd \in [Servers -> AllCommands \cup {None}] BY DEF IInv, MigrationInv
    <2>4. {fired, disabled, c, timeout, hasReset, done, migrator, fromProxy} \subseteq BOOLEAN
      BY DEF IInv, ChannelInv, TypeInv, ScalarInv
    <2> QED BY <2>1, <2>2, <2>3, <2>4 DEF TypeInv, ScalarInv, PlaceInv, Fits, TypeOK
  <1>2. Spec => [](IInv /\ TypeInv)
    BY InitInv, InitTypes, StepInv, StepTypes, PTL DEF Spec
  <1> QED BY <1>1, <1>2, PTL
=============================================================================
