----------------------------- MODULE MCTimeout -----------------------------
(* Instances of Timeout for TLC. *)
EXTENDS Timeout

CONSTANTS proxy

NoServer == {}
OneServer == {proxy}

Requests == {"request", "ping"}
=============================================================================
