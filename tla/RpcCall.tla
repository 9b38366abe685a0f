------------------------------- MODULE RpcCall -------------------------------
(***************************************************************************)
(* What a streaming call promises, whatever the protocol: the caller       *)
(* receives the messages of the implementation in order and without gaps   *)
(* (their number stands for them), and is told that the call succeeded     *)
(* only when the implementation did and every message was received.        *)
(***************************************************************************)
EXTENDS Naturals

VARIABLES
    made,       \* messages the implementation has produced
    got,        \* messages the caller has received
    server,     \* how the implementation ended
    client,     \* how the call ended for the caller
    channel     \* "cut" when it ended the response and the protocol cannot tell

vars == <<made, got, server, client, channel>>

Init ==
    /\ made = 0
    /\ got = 0
    /\ server = "running"
    /\ client = "active"
    /\ channel = "whole"

Produce ==
    /\ server = "running"
    /\ made' = made + 1
    /\ UNCHANGED <<got, server, client, channel>>

Finish ==
    /\ server = "running"
    /\ server' \in {"ok", "error"}
    /\ UNCHANGED <<made, got, client, channel>>

Receive ==
    /\ client = "active"
    /\ got < made
    /\ got' = got + 1
    /\ UNCHANGED <<made, server, client, channel>>

Complete ==
    /\ client = "active"
    /\ channel = "cut" \/ (server = "ok" /\ got = made)
    /\ client' = "ok"
    /\ UNCHANGED <<made, got, server, channel>>

\* A call may fail or be left at any time.
GiveUp ==
    /\ client = "active"
    /\ client' \in {"error", "left"}
    /\ UNCHANGED <<made, got, server, channel>>

Cut ==
    /\ channel' = "cut"
    /\ UNCHANGED <<made, got, server, client>>

Next == Produce \/ Finish \/ Receive \/ Complete \/ GiveUp \/ Cut

Spec == Init /\ [][Next]_vars
=============================================================================
