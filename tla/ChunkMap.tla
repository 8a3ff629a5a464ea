------------------------------ MODULE ChunkMap ------------------------------
(***************************************************************************)
(* What the store of one instance promises to the proxy, whichever lambda  *)
(* is behind it: commands are sent through ports, one at a time on each; a *)
(* command may always fail, a GET may always miss (the memory is that of   *)
(* functions the provider reclaims), but a GET that finds a chunk finds    *)
(* one of the values the key had while the GET was under way: the one last *)
(* acknowledged or one of an unacknowledged SET since.                     *)
(*                                                                         *)
(* The promise can end, for good: nothing is said of what follows.         *)
(***************************************************************************)
CONSTANTS Ports, Keys, Values, None

Sets == [op : {"set"}, key : Keys, val : Values]
Others == [op : {"get", "del"}, key : Keys, val : {None}]
Command == Sets \cup Others

VARIABLES
    pending,  \* the command under way on each port, None if there is none
    valid,    \* the values each key can have now
    may,      \* for the command under way on a port: what a GET may find, and what other
              \* SETs may leave behind when a SET or DEL is acknowledged
    answer,   \* the last event, if it was a GET that found a value
    promise   \* FALSE once the promise has ended

vars == <<pending, valid, may, answer, promise>>

Init ==
    /\ pending = [p \in Ports |-> None]
    /\ valid = [k \in Keys |-> {}]
    /\ may = [p \in Ports |-> {}]
    /\ answer = None
    /\ promise = TRUE

\* The ports with a command on key k.
Using(k) == {p \in Ports : pending[p] # None /\ pending[p].key = k}

\* The values that the SETs of key k under way will give it.
Coming(k) == {pending[p].val : p \in Using(k)} \ {None}

Issue(p, c) ==
    /\ pending[p] = None
    /\ pending' = [pending EXCEPT ![p] = c]
    /\ valid' = [valid EXCEPT ![c.key] = @ \cup ({c.val} \ {None})]
    /\ may' = [q \in Ports |-> CASE q = p -> IF c.op = "get" THEN valid[c.key] ELSE Coming(c.key)
                                 [] q \in Using(c.key) -> may[q] \cup ({c.val} \ {None})
                                 [] OTHER -> may[q]]
    /\ answer' = None

Finish(p) ==
    /\ pending[p] # None
    /\ pending' = [pending EXCEPT ![p] = None]
    /\ may' = [may EXCEPT ![p] = {}]

\* A SET or DEL is acknowledged: of the values from before it, none is left.
Acknowledge(p) ==
    LET c == pending[p] IN
    /\ Finish(p)
    /\ c.op # "get"
    /\ valid' = [valid EXCEPT ![c.key] = ({c.val} \ {None}) \cup may[p]]
    /\ answer' = None

\* A command fails or misses.
Fail(p) ==
    /\ Finish(p)
    /\ answer' = None
    /\ UNCHANGED valid

Find(p, v) ==
    /\ Finish(p)
    /\ pending[p].op = "get"
    /\ v \in may[p]
    /\ answer' = [val |-> v, may |-> may[p]]
    /\ UNCHANGED valid

Serve == \E p \in Ports :
    \/ \E c \in Command : Issue(p, c)
    \/ Acknowledge(p)
    \/ Fail(p)
    \/ \E v \in Values : Find(p, v)

Next ==
    \/ promise /\ promise' /\ Serve
    \/ ~promise'              \* the promise ends, or has ended

Spec == Init /\ [][Next]_vars
=============================================================================
