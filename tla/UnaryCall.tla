------------------------------ MODULE UnaryCall ------------------------------
(***************************************************************************)
(* A unary call from the caller of Transport.unary() to the implementation *)
(* and back: src/packages/dubbo/src/protocol*/transport.ts, run-call.ts,   *)
(* handler-factory.ts and invoke-implementation.ts.                        *)
(*                                                                         *)
(* gRPC and gRPC-web send both messages in envelopes, through the pipes of *)
(* StreamingCall.  Triple sends them as plain bodies: nothing in a body    *)
(* tells its end, and the status travels ahead of it.  The caller waits    *)
(* for one promise, which is not raced with the signal: only the HTTP      *)
(* client, while it is at work, answers an abort (see ClientRequest).      *)
(***************************************************************************)
EXTENDS Naturals

VARIABLES
    protocol,   \* the protocol, fixed for the call
    method,     \* Triple may send a call without side effects by GET
    zip,        \* bodies are compressed, which takes time in either direction
    deadline,   \* the timer of createDeadlineSignal()
    step,       \* how far the transport is
    app,        \* the call, as its caller sees it
    why,        \* what the call failed with, or will
    got,        \* response messages the client has read
    http,       \* the HTTP exchange
    req,        \* the part of the request that was sent
    head,       \* the status of the response
    body,       \* the part of the response body that arrives
    tail,       \* the trailers of gRPC-web in the body
    trailer,    \* the status in the HTTP trailers (gRPC)
    ended,      \* the server has ended the response
    hnd,        \* the handler
    outcome,    \* how the handler ended
    input,      \* the request message the implementation was given
    made,       \* response messages the implementation has returned
    ctx         \* the signal of the handler context

vars == <<protocol, method, zip, deadline, step, app, why, got, http, req,
          head, body, tail, trailer, ended, hnd, outcome, input, made, ctx>>
config     == <<protocol, method, zip>>
callerVars == <<step, app, why, got>>
downVars   == <<head, body, tail, trailer, ended>>
serverVars == <<hnd, outcome, input, made>>

Status == {"none", "ok", "error"}
Part   == {"none", "part", "whole"}

\* What is left of x when its end is lost.
Cut(x) == CASE x = "none" -> {"none"} [] x = "part" -> {"none", "part"} [] x = "whole" -> Part

TypeOK ==
    /\ protocol \in {"triple", "grpc", "grpc-web"}
    /\ method \in {"POST", "GET"}
    /\ zip \in {"yes", "no"}
    /\ deadline \in {"none", "armed", "fired", "cleared"}
    /\ step \in {"before", "wait", "body", "unpack", "over"}
    /\ app \in {"active", "ok", "error"}
    /\ why \in {"none", "status", "protocol", "content", "canceled", "deadline", "lost"}
    /\ got \in 0 .. 1
    /\ http \in {"none", "open", "reset", "lost", "truncated"}
    /\ req \in Part
    /\ head \in Status \cup {"refused"}
    /\ body \in Part
    /\ tail \in Status
    /\ trailer \in Status
    /\ ended \in {"no", "yes"}
    /\ hnd \in {"idle", "input", "impl", "returned", "extra", "final", "write", "over", "left"}
    /\ outcome \in Status
    /\ input \in Part
    /\ made \in 0 .. 1
    /\ ctx \in {"live", "aborted"}

Init ==
    /\ protocol \in {"triple", "grpc", "grpc-web"}
    /\ method \in (IF protocol = "triple" THEN {"POST", "GET"} ELSE {"POST"})
    /\ zip \in {"yes", "no"}
    /\ deadline \in {"none", "armed"}
    /\ step = "before"
    /\ app = "active"
    /\ why = "none"
    /\ got = 0
    /\ http = "none"
    /\ req = "none"
    /\ head = "none"
    /\ body = "none"
    /\ tail = "none"
    /\ trailer = "none"
    /\ ended = "no"
    /\ hnd = "idle"
    /\ outcome = "none"
    /\ input = "none"
    /\ made = 0
    /\ ctx = "live"

-----------------------------------------------------------------------------
(* The client: the request, and what may interrupt the call. *)

Aborted == why \in {"canceled", "deadline"}

\* The interceptors and, for Triple, the compression of the request come before
\* the HTTP client, which refuses a signal that has aborted meanwhile.
CallHttp ==
    /\ step = "before"
    /\ step' = "wait"
    /\ http' = IF Aborted THEN "reset" ELSE "open"
    /\ req' = IF ~Aborted /\ method = "GET" THEN "whole" ELSE req
    /\ UNCHANGED <<config, deadline, app, why, got, downVars, serverVars, ctx>>

SendRequest ==
    /\ http = "open"
    /\ req # "whole"
    /\ req' \in {"part", "whole"}
    /\ UNCHANGED <<config, deadline, callerVars, http, downVars, serverVars, ctx>>

\* The exchange ends early, and the end of what was under way is lost.
Break(state) ==
    /\ http' = state
    /\ body' \in Cut(body)
    /\ tail' \in (IF body' = body THEN {tail, "none"} ELSE {"none"})
    /\ UNCHANGED <<head, ended>>

Because(reason) == why' = IF why = "none" THEN reason ELSE why

\* The signal of the call: the HTTP client listens until it has read the response.
Interrupted(reason) ==
    /\ Because(reason)
    /\ IF http = "open" /\ step \in {"wait", "body"}
       THEN Break("reset") /\ UNCHANGED trailer
       ELSE UNCHANGED <<http, downVars>>

\* Without compression nothing can come between the end of the body and the result.
Interruptible == app = "active" /\ (step = "unpack" => zip = "yes")

CallerAborts ==
    /\ Interruptible
    /\ ~Aborted
    /\ Interrupted("canceled")
    /\ UNCHANGED <<config, deadline, step, app, got, req, serverVars, ctx>>

Mut_DeadlineNotLinked ==
    /\ Interruptible
    /\ deadline = "armed"
    /\ deadline' = "fired"
    /\ UNCHANGED <<config, callerVars, http, req, downVars, serverVars, ctx>>

DeadlineFires ==
    /\ Interruptible
    /\ deadline = "armed"
    /\ deadline' = "fired"
    /\ Interrupted("deadline")
    /\ UNCHANGED <<config, step, app, got, req, serverVars, ctx>>

ConnectionLost ==
    /\ http = "open"
    /\ Break("lost")
    /\ IF step \in {"wait", "body"} THEN Because("lost") ELSE UNCHANGED why
    /\ UNCHANGED <<config, deadline, step, app, got, req, trailer, serverVars, ctx>>

\* Something between client and server ends a response as if it were complete.
Truncate ==
    /\ step = "body"
    /\ http = "open"
    /\ Break("truncated")
    /\ trailer' \in {trailer, "none"}
    /\ UNCHANGED <<config, deadline, callerVars, req, serverVars, ctx>>

-----------------------------------------------------------------------------
(* The client: the response.  abort() of setupSignal() reports a deadline in  *)
(* place of any other error, and aborts the signal of the call.               *)

ClearDeadline == deadline' = IF deadline = "armed" THEN "cleared" ELSE deadline

Failure(reason) ==
    /\ step' = "over"
    /\ app' = "error"
    /\ why' = IF deadline = "fired" THEN "deadline" ELSE reason
    /\ ClearDeadline

\* An error while the HTTP exchange goes on: abort() ends it.
FailAndReset(reason) ==
    /\ Failure(reason)
    /\ http' = IF http = "open" THEN "reset" ELSE http

Success ==
    /\ step' = "over"
    /\ app' = "ok"
    /\ why' = "none"
    /\ ClearDeadline

Respond ==
    /\ step = "wait"
    /\ http = "open"
    /\ head \in {"ok", "error"} \/ (head = "refused" /\ protocol = "triple")
    /\ step' = "body"
    /\ UNCHANGED <<config, deadline, app, why, got, http, req, downVars, serverVars, ctx>>

\* validateResponse() throws, and the body is not read; for Triple it lets the body
\* be read first, as there may be an error in it.
Refused ==
    /\ protocol # "triple"
    /\ step = "wait"
    /\ http = "open"
    /\ head = "refused"
    /\ FailAndReset("status")
    /\ UNCHANGED <<config, got, req, downVars, serverVars, ctx>>

HttpFails ==
    /\ step \in {"wait", "body"}
    /\ http \in {"reset", "lost"}
    /\ Failure(why)
    /\ UNCHANGED <<config, got, http, req, downVars, serverVars, ctx>>

\* A message that is too large or does not parse; for Triple this may come out
\* when the body has been read and the exchange is over.
ContentFails ==
    /\ \/ step = "body" /\ body # "none" /\ http \in {"open", "truncated"} /\ FailAndReset("content")
       \/ step = "unpack" /\ Failure("content") /\ UNCHANGED http
    /\ UNCHANGED <<config, got, req, downVars, serverVars, ctx>>

BodyEnds ==
    /\ step = "body"
    /\ http = "truncated" \/ (http = "open" /\ ended = "yes")

Mut_HintIgnored == body # "none" \/ head = "refused"

\* readAllBytes() compares the length with Content-Length, which the handler sets,
\* and which a response without a body does not have.
Whole == body = "whole" \/ head = "refused"

\* Triple: the body is complete, and decompressed before it is looked at.
ReadBody ==
    /\ protocol = "triple"
    /\ BodyEnds
    /\ Whole
    /\ step' = "unpack"
    /\ got' = IF head = "ok" /\ body = "whole" THEN 1 ELSE 0
    /\ UNCHANGED <<config, deadline, app, why, http, req, downVars, serverVars, ctx>>

ShortBody ==
    /\ protocol = "triple"
    /\ BodyEnds
    /\ ~Whole
    /\ Failure("protocol")
    /\ UNCHANGED <<config, got, http, req, downVars, serverVars, ctx>>

Unpack ==
    /\ step = "unpack"
    /\ IF head = "ok" THEN Success ELSE Failure("status")
    /\ UNCHANGED <<config, got, http, req, downVars, serverVars, ctx>>

\* gRPC and gRPC-web: the message of the first envelope.
ReadMessage ==
    /\ protocol # "triple"
    /\ step = "body"
    /\ http \in {"open", "truncated"}
    /\ body = "whole"
    /\ got = 0
    /\ got' = 1
    /\ UNCHANGED <<config, deadline, step, app, why, http, req, downVars, serverVars, ctx>>

\* gRPC takes trailers without a status for success.
Error == tail = "error" \/ trailer = "error"

EndIsSound ==
    /\ body # "part"
    /\ protocol = "grpc-web" => tail # "none"
    /\ got = 1 \/ Error

ReadEnd ==
    /\ protocol # "triple"
    /\ BodyEnds
    /\ body = "whole" => got = 1
    /\ IF ~EndIsSound THEN Failure("protocol")
       ELSE IF Error THEN Failure("status")
       ELSE Success
    /\ UNCHANGED <<config, got, http, req, downVars, serverVars, ctx>>

-----------------------------------------------------------------------------
(* The server: the request.  When the exchange was broken, node ends the     *)
(* request's iterable or throws, and closes the request.                     *)

Broken == http # "open"

RequestEnds == req = "whole" \/ Broken

RequestClosed ==
    /\ Broken
    /\ hnd # "idle"
    /\ ctx = "live"
    /\ ctx' = "aborted"
    /\ UNCHANGED <<config, deadline, callerVars, http, req, downVars, serverVars>>

\* The deadline was sent along, and the handler has a timer of its own; the
\* shutdown signal of the server does the same.
ContextAborts ==
    /\ hnd \in {"input", "impl", "returned", "extra", "left"}
    /\ ctx = "live"
    /\ ctx' = "aborted"
    /\ UNCHANGED <<config, deadline, callerVars, http, req, downVars, serverVars>>

\* No such path, another method or another type of content: the adapter or the
\* handler answers with a status and nothing else.
Refuse ==
    /\ hnd = "idle"
    /\ http # "none"
    /\ hnd' = "over"
    /\ outcome' = "error"
    /\ IF Broken THEN UNCHANGED <<head, ended>> ELSE head' = "refused" /\ ended' = "yes"
    /\ UNCHANGED <<config, deadline, callerVars, http, req, body, tail, trailer, input, made, ctx>>

Start ==
    /\ hnd = "idle"
    /\ http # "none"
    /\ hnd' = "input"
    /\ UNCHANGED <<config, deadline, callerVars, http, req, downVars, outcome, input, made, ctx>>

Mut_InputNotAwaited ==
    /\ hnd = "input"
    /\ req # "none"
    /\ input' = req
    /\ hnd' = "impl"
    /\ UNCHANGED <<config, deadline, callerVars, http, req, downVars, outcome, made, ctx>>

\* Triple parses whatever came before the end of the request; the beginning of
\* a message may well parse.
TakeInput ==
    /\ hnd = "input"
    /\ \/ req = "whole" /\ input' = "whole"
       \/ protocol = "triple" /\ zip = "no" /\ Broken /\ req # "whole" /\ input' = "part"
    /\ hnd' = "impl"
    /\ UNCHANGED <<config, deadline, callerVars, http, req, downVars, outcome, made, ctx>>

\* Headers that are not accepted, a message that does not parse, is missing or
\* was cut off, an error of the implementation, or of serializing what it
\* returned; gRPC looks for an extra message when the response is written.
Throws ==
    /\ \/ hnd \in {"input", "impl", "returned"}
       \/ hnd = "extra" /\ Broken
    /\ hnd' = "final"
    /\ outcome' = "error"
    /\ UNCHANGED <<config, deadline, callerVars, http, req, downVars, input, made, ctx>>

Returns ==
    /\ hnd = "impl"
    /\ hnd' = "returned"
    /\ made' = 1
    /\ UNCHANGED <<config, deadline, callerVars, http, req, downVars, outcome, input, ctx>>

-----------------------------------------------------------------------------
(* The server: the response. *)

\* Triple keeps the message until the handler is done.
Serialized ==
    /\ protocol = "triple"
    /\ hnd = "returned"
    /\ hnd' = "final"
    /\ outcome' = "ok"
    /\ UNCHANGED <<config, deadline, callerVars, http, req, downVars, input, made, ctx>>

\* gRPC and gRPC-web write it at once; on a broken exchange the write may fail,
\* and the adapter leaves the pipe where it is.
WriteMessage ==
    /\ protocol # "triple"
    /\ hnd = "returned"
    /\ IF Broken
       THEN hnd' \in {"extra", "left"} /\ UNCHANGED <<head, body>>
       ELSE hnd' = "extra" /\ head' = "ok" /\ body' = "whole"
    /\ UNCHANGED <<config, deadline, callerVars, http, req, tail, trailer, ended, outcome, input, made, ctx>>

NoExtra ==
    /\ hnd = "extra"
    /\ RequestEnds
    /\ hnd' = "final"
    /\ outcome' = "ok"
    /\ UNCHANGED <<config, deadline, callerVars, http, req, downVars, input, made, ctx>>

\* The context is aborted; gRPC-web writes the trailers as its last envelope.
\* Triple goes on to compress its body.
Finally ==
    /\ hnd = "final"
    /\ hnd' = "write"
    /\ ctx' = "aborted"
    /\ tail' = IF protocol = "grpc-web" /\ ~Broken THEN outcome ELSE tail
    /\ UNCHANGED <<config, deadline, callerVars, http, req, head, body, trailer, ended, outcome, input, made>>

\* Triple: the status, and the message or the error, all at once.  gRPC: the
\* trailers.
EndResponse ==
    /\ hnd = "write"
    /\ hnd' = "over"
    /\ IF Broken
       THEN UNCHANGED <<head, body, trailer, ended>>
       ELSE /\ head' = IF protocol = "triple" THEN outcome ELSE "ok"
            /\ body' = IF protocol = "triple" THEN "whole" ELSE body
            /\ trailer' = IF protocol = "grpc" THEN outcome ELSE trailer
            /\ ended' = "yes"
    /\ UNCHANGED <<config, deadline, callerVars, http, req, tail, outcome, input, made, ctx>>

-----------------------------------------------------------------------------
Interrupt == CallerAborts \/ DeadlineFires \/ ConnectionLost \/ Truncate

Client ==
    \/ CallHttp \/ Respond \/ Refused \/ HttpFails \/ ContentFails
    \/ ReadBody \/ ShortBody \/ Unpack \/ ReadMessage \/ ReadEnd

\* The implementation may wait for ever, and what comes before it for the request.
Answer == Serialized \/ WriteMessage \/ NoExtra \/ Finally \/ EndResponse

Next ==
    \/ Client
    \/ SendRequest
    \/ Interrupt
    \/ RequestClosed
    \/ ContextAborts
    \/ Refuse \/ Start \/ TakeInput \/ Throws \/ Returns
    \/ Answer

Spec == Init /\ [][Next]_vars

\* Interceptors and compression come to an end, the client reads what it is sent,
\* a request that was begun is sent, the server is told of a broken exchange, and
\* its handler goes on.
FairSpec ==
    /\ Spec
    /\ WF_vars(Client)
    /\ WF_vars(SendRequest /\ req' = "whole")
    /\ WF_vars(RequestClosed)
    /\ WF_vars(Answer)

-----------------------------------------------------------------------------
(* Properties. *)

\* The call as its users see it.  Only gRPC cannot tell a response that was cut
\* off from one that is complete.
Rpc == INSTANCE RpcCall WITH
    server  <- IF outcome = "none" THEN "running" ELSE outcome,
    client  <- app,
    channel <- IF protocol = "grpc" /\ http = "truncated" THEN "cut" ELSE "whole"

\* Every protocol implements the promise of RpcCall: a call succeeds only with the
\* message that the implementation returned, whole, and only if the handler
\* succeeded.
ImplementsRpc == Rpc!Spec

\* A call that succeeds was given to the implementation as it was sent.  Without
\* envelopes (Triple) an implementation may see the beginning of a message whose
\* exchange has failed, but never with a caller that is told of success.
WholeInput ==
    /\ app = "ok" => input = "whole"
    /\ input = "part" => protocol = "triple" /\ Broken

\* The caller is told the reason: the protocol is blamed only for a response that
\* something cut off, and an error status was sent by the server.
ReasonTold ==
    /\ why = "protocol" => http = "truncated"
    /\ why = "status" => outcome = "error"

\* "to ensure that there are no unused connections leak" (run-call.ts:137): a call
\* that failed leaves no exchange that the server could still write to.
FailureReleases == app = "error" => http # "open" \/ ended = "yes"

\* An implementation that was called is told when its caller is gone.
ServerTold == app = "error" /\ input # "none" ~> ctx = "aborted"

\* The promise is not raced with the deadline, yet the deadline ends the call.
DeadlineEnds == deadline = "fired" /\ app = "active" ~> app # "active"

\* However the handler ends, the caller is told.
CallerAnswered == outcome # "none" ~> app # "active"

\* Nobody waits for ever: not the caller, whose promise is not raced with the
\* deadline, for an answer or for the deadline to take effect, and not the
\* implementation for the news that its caller is gone.
CallSettles == ServerTold /\ DeadlineEnds /\ CallerAnswered
=============================================================================
