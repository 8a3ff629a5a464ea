---------------------------- MODULE RequestReply ----------------------------
(***************************************************************************)
(* What an instance promises for the requests it is given, whatever        *)
(* happens to its connections and containers: a request goes to one lambda *)
(* at most, which answers it once at most; a client that gets an answer    *)
(* gets the one of that lambda, a client that does not gets an error, and  *)
(* the first of the two is final.                                          *)
(*                                                                         *)
(* An error says nothing of the request: one that the client was told had  *)
(* failed may still be sent and answered.                                  *)
(***************************************************************************)
CONSTANT Requests

VARIABLES
    reply, \* what the client has been told
    stage  \* how far the request has got: "none", "held", "sent", "replied" or "gone"

vars == <<reply, stage>>

Init ==
    /\ reply = [r \in Requests |-> "new"]
    /\ stage = [r \in Requests |-> "none"]

\* The stage changes, if it is one of from.
Move(r, from, to) ==
    /\ stage[r] \in from
    /\ stage' = [stage EXCEPT ![r] = to]

\* Only who waits is told.
Tell(r, answer) ==
    /\ reply[r] = "waiting"
    /\ reply' = [reply EXCEPT ![r] = answer]

Submit(r) ==
    /\ reply[r] = "new"
    /\ reply' = [reply EXCEPT ![r] = "waiting"]
    /\ Move(r, {"none"}, "held")

Send(r) == UNCHANGED reply /\ Move(r, {"held"}, "sent")

Execute(r) == UNCHANGED reply /\ Move(r, {"sent"}, "replied")

\* The lambda's answer, which may be an error, arrives.
Deliver(r) ==
    /\ \E answer \in {"answered", "error"} : Tell(r, answer)
    /\ Move(r, {"replied"}, "gone")

\* A request or its answer is lost with its container, or nobody waits for it any more.
Drop(r) == UNCHANGED reply /\ Move(r, {"held", "sent", "replied"}, "gone")

\* The instance gives up: only on a request whose answer can no longer arrive.
Fail(r) ==
    /\ Tell(r, "error")
    /\ \/ Move(r, {"held", "gone"}, "gone")
       \/ stage[r] = "held" /\ UNCHANGED stage

Next == \E r \in Requests :
    Submit(r) \/ Send(r) \/ Execute(r) \/ Deliver(r) \/ Drop(r) \/ Fail(r)

Spec == Init /\ [][Next]_vars
=============================================================================
