---------------------------- MODULE StreamingCall ----------------------------
(***************************************************************************)
(* A streaming call from the caller of Transport.stream() to the           *)
(* implementation and back, over the Triple, gRPC or gRPC-web protocol:    *)
(* src/packages/dubbo/src/protocol*/transport.ts and handler-factory.ts,   *)
(* run-call.ts, invoke-implementation.ts, signals.ts, and the adapter      *)
(* node-universal-handler.ts.                                              *)
(*                                                                         *)
(* The pipes of transformations are pulled message by message, so one      *)
(* action stands for a message passing a pipe.  HTTP keeps the order of    *)
(* messages, and the handler of this repository writes nothing after the   *)
(* end of its stream: counters stand for the messages on the wire.  The    *)
(* HTTP client resets its stream when the signal of the call aborts (see   *)
(* ClientRequest); what its iterables have buffered may still be read.     *)
(***************************************************************************)
EXTENDS Naturals

CONSTANTS
    MaxIn,      \* bound: messages the caller sends
    MaxOut      \* bound: messages the implementation yields

ASSUME BoundsAssumption == MaxIn \in Nat /\ MaxOut \in Nat

VARIABLES
    protocol,   \* the protocol, fixed for the call
    kind,       \* the kind of the method, fixed for the call
    src,        \* the caller's iterable of request messages
    sent,       \* messages it has yielded
    deadline,   \* the timer of createDeadlineSignal()
    app,        \* the call, as its caller sees it
    why,        \* what the call failed with
    got,        \* response messages the caller has received
    endSeen,    \* the end-of-stream message, or the trailer of gRPC-web, was read
    http,       \* the HTTP exchange
    up,         \* request messages on the wire
    wire,       \* response messages on the wire
    tail,       \* the end-of-stream message behind them
    trailer,    \* the status in the HTTP trailers (gRPC)
    ended,      \* the server has ended the response
    hnd,        \* the pipe of the handler
    outcome,    \* how the implementation ended
    taken,      \* request messages it was given
    made,       \* response messages it has yielded
    ctx         \* the signal of the handler context

vars == <<protocol, kind, src, sent, deadline, app, why, got, endSeen, http,
          up, wire, tail, trailer, ended, hnd, outcome, taken, made, ctx>>
config     == <<protocol, kind>>
sourceVars == <<src, sent>>
callerVars == <<app, why, got, endSeen>>
downVars   == <<wire, tail, trailer, ended>>
serverVars == <<hnd, outcome, taken, made>>

Status == {"none", "ok", "error"}

TypeOK ==
    /\ protocol \in {"triple", "grpc", "grpc-web"}
    /\ kind \in {"server", "client", "bidi"}
    /\ src \in {"sending", "done", "failed"}
    /\ sent \in 0 .. MaxIn
    /\ deadline \in {"none", "armed", "fired", "cleared"}
    /\ app \in {"wait", "reading", "ok", "error", "left"}
    /\ why \in {"none", "status", "protocol", "source", "canceled", "deadline", "lost"}
    /\ got \in 0 .. MaxOut
    /\ endSeen \in {"no", "yes"}
    /\ http \in {"open", "reset", "lost", "truncated"}
    /\ up \in 0 .. MaxIn
    /\ wire \in 0 .. MaxOut
    /\ tail \in Status
    /\ trailer \in Status
    /\ ended \in {"no", "yes"}
    /\ hnd \in {"idle", "first", "impl", "extra", "final", "ending", "over", "left"}
    /\ outcome \in Status
    /\ taken \in 0 .. MaxIn
    /\ made \in 0 .. MaxOut
    /\ ctx \in {"live", "aborted"}

Init ==
    /\ protocol \in {"triple", "grpc", "grpc-web"}
    /\ kind \in {"server", "client", "bidi"}
    /\ src = "sending"
    /\ sent = 0
    /\ deadline \in {"none", "armed"}
    /\ app = "wait"
    /\ why = "none"
    /\ got = 0
    /\ endSeen = "no"
    /\ http = "open"
    /\ up = 0
    /\ wire = 0
    /\ tail = "none"
    /\ trailer = "none"
    /\ ended = "no"
    /\ hnd = "idle"
    /\ outcome = "none"
    /\ taken = 0
    /\ made = 0
    /\ ctx = "live"

-----------------------------------------------------------------------------
(* The client: the request. *)

Active == app \in {"wait", "reading"}

\* Until abort() or done(), the call listens to its caller; a caller that has left
\* the iteration called neither.
Listening == app \in {"wait", "reading", "left"}

Because(reason) == why' = IF Active THEN reason ELSE why

\* The signal of the call aborts, or the HTTP client fails: the stream is reset,
\* and what was not yet read of the response is lost.
Break(state) ==
    /\ http = "open"
    /\ http' = state
    /\ wire' \in 0 .. wire
    /\ tail' \in (IF wire' = wire THEN {tail, "none"} ELSE {"none"})
    /\ UNCHANGED <<trailer, ended>>

Send ==
    /\ src = "sending"
    /\ http = "open"
    /\ sent < MaxIn
    /\ sent' = sent + 1
    /\ up' = up + 1
    /\ UNCHANGED <<config, src, deadline, callerVars, http, downVars, serverVars, ctx>>

SendDone ==
    /\ src = "sending"
    /\ http = "open"
    /\ src' = "done"
    /\ UNCHANGED <<config, sent, deadline, callerVars, http, up, downVars, serverVars, ctx>>

\* The failure of the caller's iterable resets the exchange, unless the HTTP client
\* has read the response to its end: then it no longer listens.
SourceFails ==
    /\ src = "sending"
    /\ http = "open"
    /\ src' = "failed"
    /\ Because("source")
    /\ IF Listening THEN Break("reset") ELSE UNCHANGED <<http, downVars>>
    /\ UNCHANGED <<config, sent, deadline, app, got, endSeen, up, serverVars, ctx>>

CallerAborts ==
    /\ Listening
    /\ Because("canceled")
    /\ Break("reset")
    /\ UNCHANGED <<config, sourceVars, deadline, app, got, endSeen, up, serverVars, ctx>>

Mut_DeadlineNotLinked ==
    /\ deadline = "armed"
    /\ deadline' = "fired"
    /\ UNCHANGED <<config, sourceVars, callerVars, http, up, downVars, serverVars, ctx>>

DeadlineFires ==
    /\ deadline = "armed"
    /\ deadline' = "fired"
    /\ IF http = "open"
       THEN Break("reset") /\ Because("deadline")
       ELSE UNCHANGED <<http, downVars, why>>
    /\ UNCHANGED <<config, sourceVars, app, got, endSeen, up, serverVars, ctx>>

ConnectionLost ==
    /\ Break("lost")
    /\ Because("lost")
    /\ UNCHANGED <<config, sourceVars, deadline, app, got, endSeen, up, serverVars, ctx>>

\* Something between client and server ends a response that has begun as if it
\* were complete.
Truncate ==
    /\ app = "reading"
    /\ ended = "no"
    /\ Break("truncated")
    /\ UNCHANGED <<config, sourceVars, deadline, callerVars, up, serverVars, ctx>>

-----------------------------------------------------------------------------
(* The client: the response.  abort() and done() of setupSignal() clear the  *)
(* deadline; abort() reports a deadline in place of any other error.         *)

ClearDeadline == deadline' = IF deadline = "armed" THEN "cleared" ELSE deadline

Failure(reason) ==
    /\ app' = "error"
    /\ why' = IF deadline = "fired" THEN "deadline" ELSE reason
    /\ ClearDeadline

\* An error while the HTTP exchange goes on: abort() ends it.
FailAndReset(reason) ==
    /\ Failure(reason)
    /\ http' = IF http = "open" THEN "reset" ELSE http

\* stream() returns with the first bytes of the body, or when it has ended.
Respond ==
    /\ app = "wait"
    /\ http = "open"
    /\ wire > 0 \/ tail # "none" \/ ended = "yes"
    /\ app' = "reading"
    /\ UNCHANGED <<config, sourceVars, deadline, why, got, endSeen, http, up, downVars, serverVars, ctx>>

WaitFails ==
    /\ app = "wait"
    /\ http \in {"reset", "lost"}
    /\ Failure(why)
    /\ UNCHANGED <<config, sourceVars, got, endSeen, http, up, downVars, serverVars, ctx>>

ReadMessage ==
    /\ app = "reading"
    /\ wire > 0
    /\ wire' = wire - 1
    /\ got' = got + 1
    /\ UNCHANGED <<config, sourceVars, deadline, app, why, endSeen, http, up, tail, trailer, ended, serverVars, ctx>>

Mut_ErrorIgnored ==
    /\ app = "reading"
    /\ wire = 0
    /\ tail # "none"
    /\ tail' = "none"
    /\ endSeen' = "yes"
    /\ UNCHANGED <<config, sourceVars, deadline, app, why, got, http, up, wire, trailer, ended, serverVars, ctx>>

ReadTailOk ==
    /\ app = "reading"
    /\ wire = 0
    /\ tail = "ok"
    /\ tail' = "none"
    /\ endSeen' = "yes"
    /\ UNCHANGED <<config, sourceVars, deadline, app, why, got, http, up, wire, trailer, ended, serverVars, ctx>>

Mut_NoAbortOnError ==
    /\ app = "reading"
    /\ wire = 0
    /\ tail = "error"
    /\ tail' = "none"
    /\ Failure("status")
    /\ UNCHANGED <<config, sourceVars, got, endSeen, http, up, wire, trailer, ended, serverVars, ctx>>

ReadTailError ==
    /\ app = "reading"
    /\ wire = 0
    /\ tail = "error"
    /\ tail' = "none"
    /\ FailAndReset("status")
    /\ UNCHANGED <<config, sourceVars, got, endSeen, up, wire, trailer, ended, serverVars, ctx>>

BodyEnds ==
    /\ app = "reading"
    /\ wire = 0
    /\ tail = "none"
    /\ http = "truncated" \/ (http = "open" /\ ended = "yes")

\* The status is in the end-of-stream message, or in the trailers; gRPC takes
\* trailers without a status for success.
StatusOk == IF protocol = "grpc" THEN trailer # "error" ELSE endSeen = "yes"

Succeed ==
    /\ BodyEnds
    /\ StatusOk
    /\ app' = "ok"
    /\ ClearDeadline
    /\ UNCHANGED <<config, sourceVars, why, got, endSeen, http, up, downVars, serverVars, ctx>>

BadEnd ==
    /\ BodyEnds
    /\ ~StatusOk
    /\ Failure(IF protocol = "grpc" THEN "status" ELSE "protocol")
    /\ UNCHANGED <<config, sourceVars, got, endSeen, http, up, downVars, serverVars, ctx>>

ReadFails ==
    /\ app = "reading"
    /\ wire = 0
    /\ tail = "none"
    /\ http \in {"reset", "lost"}
    /\ Failure(why)
    /\ UNCHANGED <<config, sourceVars, got, endSeen, http, up, downVars, serverVars, ctx>>

\* return(): neither abort() nor done() is called.
CallerLeaves ==
    /\ app = "reading"
    /\ app' = "left"
    /\ UNCHANGED <<config, sourceVars, deadline, why, got, endSeen, http, up, downVars, serverVars, ctx>>

-----------------------------------------------------------------------------
(* The server: the request.  When the exchange was broken, node ends the     *)
(* request's iterable or throws, and closes the request.                     *)

Broken == http # "open"

InputEnds == up = 0 /\ (src = "done" \/ Broken)

Mut_CloseWithoutCode ==
    /\ http = "lost"
    /\ ctx = "live"
    /\ ctx' = "aborted"
    /\ UNCHANGED <<config, sourceVars, deadline, callerVars, http, up, downVars, serverVars>>

RequestClosed ==
    /\ Broken
    /\ ctx = "live"
    /\ ctx' = "aborted"
    /\ UNCHANGED <<config, sourceVars, deadline, callerVars, http, up, downVars, serverVars>>

\* The deadline is sent along, and the server has a timer of its own.
ServerDeadline ==
    /\ deadline # "none"
    /\ hnd \notin {"idle", "ending", "over"}
    /\ ctx = "live"
    /\ ctx' = "aborted"
    /\ UNCHANGED <<config, sourceVars, deadline, callerVars, http, up, downVars, serverVars>>

Start ==
    /\ hnd = "idle"
    /\ hnd' = IF kind = "server" THEN "first" ELSE "impl"
    /\ UNCHANGED <<config, sourceVars, deadline, callerVars, http, up, downVars, outcome, taken, made, ctx>>

\* The handler's pipe throws: headers that are not accepted, a message that
\* does not parse, a missing or an extra message, a broken request, or an
\* error of the implementation.
Throws ==
    /\ \/ hnd = "idle"
       \/ hnd = "first" /\ (up > 0 \/ InputEnds)
       \/ hnd = "impl" /\ (kind = "client" => made = 0)
       \/ hnd = "extra" /\ (up > 0 \/ Broken)
    /\ hnd' = "final"
    /\ outcome' = "error"
    /\ UNCHANGED <<config, sourceVars, deadline, callerVars, http, up, downVars, taken, made, ctx>>

\* A message for the implementation: the argument of a server-streaming method,
\* or the next one of the iterable it was given.
TakeInput ==
    /\ up > 0
    /\ hnd = "first" \/ (hnd = "impl" /\ kind # "server")
    /\ hnd' = "impl"
    /\ up' = up - 1
    /\ taken' = taken + 1
    /\ UNCHANGED <<config, sourceVars, deadline, callerVars, http, downVars, outcome, made, ctx>>

-----------------------------------------------------------------------------
(* The server: the response. *)

\* The adapter writes a message; on a broken exchange the write may fail, and
\* the adapter leaves the pipe where it is.
Yield ==
    /\ hnd = "impl"
    /\ made < MaxOut
    /\ kind = "client" => made = 0
    /\ made' = made + 1
    /\ \/ ~Broken /\ wire' = wire + 1 /\ UNCHANGED hnd
       \/ Broken /\ hnd' \in {"impl", "left"} /\ UNCHANGED wire
    /\ UNCHANGED <<config, sourceVars, deadline, callerVars, http, up, tail, trailer, ended, outcome, taken, ctx>>

Mut_NoExtraCheck ==
    /\ hnd = "impl"
    /\ kind = "client" => made = 1
    /\ hnd' = "final"
    /\ outcome' = "ok"
    /\ UNCHANGED <<config, sourceVars, deadline, callerVars, http, up, downVars, taken, made, ctx>>

Returns ==
    /\ hnd = "impl"
    /\ kind = "client" => made = 1
    /\ hnd' = IF kind = "server" THEN "extra" ELSE "final"
    /\ outcome' = IF kind = "server" THEN outcome ELSE "ok"
    /\ UNCHANGED <<config, sourceVars, deadline, callerVars, http, up, downVars, taken, made, ctx>>

\* A server-streaming method succeeds when the request has no second message.
NoExtra ==
    /\ hnd = "extra"
    /\ InputEnds
    /\ hnd' = "final"
    /\ outcome' = "ok"
    /\ UNCHANGED <<config, sourceVars, deadline, callerVars, http, up, downVars, taken, made, ctx>>

\* transformCatchFinally(): the context is aborted, and the status is written
\* as the last message; gRPC keeps it for the trailers.
Finally ==
    /\ hnd = "final"
    /\ hnd' = "ending"
    /\ ctx' = "aborted"
    /\ tail' = IF ~Broken /\ protocol # "grpc" THEN outcome ELSE tail
    /\ UNCHANGED <<config, sourceVars, deadline, callerVars, http, up, wire, trailer, ended, outcome, taken, made>>

\* The adapter sends the trailers and ends the response.
EndResponse ==
    /\ hnd = "ending"
    /\ hnd' = "over"
    /\ IF Broken
       THEN UNCHANGED <<trailer, ended>>
       ELSE /\ trailer' = IF protocol = "grpc" THEN outcome ELSE trailer
            /\ ended' = "yes"
    /\ UNCHANGED <<config, sourceVars, deadline, callerVars, http, up, wire, tail, outcome, taken, made, ctx>>

-----------------------------------------------------------------------------
Request == Send \/ SendDone \/ SourceFails

Interrupt == CallerAborts \/ DeadlineFires \/ ConnectionLost \/ Truncate

Read == Respond \/ WaitFails \/ ReadMessage \/ ReadTailOk \/ ReadTailError \/ Succeed \/ BadEnd \/ ReadFails

Handle == Start \/ Throws \/ TakeInput \/ Yield \/ Returns \/ NoExtra \/ Finally \/ EndResponse

Next ==
    \/ Request
    \/ Interrupt
    \/ Read
    \/ CallerLeaves
    \/ RequestClosed
    \/ ServerDeadline
    \/ Handle

Spec == Init /\ [][Next]_vars

\* A caller that goes on reading, and a server that is told of a broken request.
FairSpec == Spec /\ WF_vars(Read) /\ WF_vars(RequestClosed)

\* And a server whose pipe goes on, except that the implementation may wait.
ServedSpec == FairSpec /\ WF_vars(Start \/ NoExtra \/ Finally \/ EndResponse)

-----------------------------------------------------------------------------
(* Properties. *)

\* The call as its users see it.  Only gRPC cannot tell a response that was cut
\* off from one that is complete.
Rpc == INSTANCE RpcCall WITH
    server  <- IF outcome = "none" THEN "running" ELSE outcome,
    client  <- IF Active THEN "active" ELSE app,
    channel <- IF protocol = "grpc" /\ http = "truncated" THEN "cut" ELSE "whole"

\* Every protocol implements the promise of RpcCall: messages in order and
\* without gaps, and success only when the implementation succeeded and every
\* message was received.
ImplementsRpc == Rpc!Spec

\* A server-streaming method succeeds for a caller only when it has sent exactly
\* one message (invoke-implementation.ts, "received extra input message").
OneInput ==
    kind = "server" /\ app = "ok" /\ http = "open" => sent = 1 /\ taken = 1

\* A client that blames the protocol was given a response that something cut
\* off: between this client and this server the end is never missing.
ProtocolErrorMeansCut == why = "protocol" => http = "truncated"

\* "to ensure that there are no unused connections leak" (run-call.ts:137): a call
\* that failed leaves no exchange that the server could still write to.
FailureReleases ==
    app = "error" => http # "open" \/ (ended = "yes" /\ wire = 0 /\ tail = "none")

\* The implementation is told when its caller is gone.
ServerTold == app = "error" ~> ctx = "aborted"

\* The same comment of run-call.ts, of a caller that leaves the iteration: the
\* exchange it no longer reads is ended too.
LeftReleases == app = "left" ~> http # "open" \/ ended = "yes"

\* A deadline ends the call for its caller, whatever the server does.
DeadlineEnds == deadline = "fired" /\ Active ~> ~Active
=============================================================================
