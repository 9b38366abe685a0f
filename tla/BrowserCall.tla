---------------------------- MODULE BrowserCall ----------------------------
(***************************************************************************)
(* A call from a web browser: the promise client or the callback client,   *)
(* on runUnaryCall() or runStreamingCall(), on the Triple or the gRPC-web  *)
(* transport, on a stream of envelopes, on a response of fetch().          *)
(*                                                                         *)
(* The body is a sequence of envelopes, messages or ends.  The stream of   *)
(* envelopes takes them from the network in chunks and keeps what its      *)
(* reader has not taken yet, also when the call is aborted.  The network   *)
(* may end the body between or inside envelopes, or break.                 *)
(***************************************************************************)
EXTENDS Naturals, Sequences, FiniteSets

CONSTANTS
    MaxItems        \* bound: envelopes of a response

ASSUME BoundsAssumption == MaxItems \in Nat

VARIABLES
    setup,      \* client, transport, kind of the method
    sent,       \* envelopes that reached the browser
    body,       \* those that the stream of envelopes has not read from the network
    net,        \* the HTTP response: "pending", "open", "closed", "cut", "broken", "aborted"
    onlyHeader, \* a gRPC-web status was found in the header
    ahead,      \* those that it has read: its queue, and its buffer behind it
    env,        \* the stream of envelopes: "open", "closed", or the error it has
    got,        \* messages and end that the transport has read
    consumer,   \* "calling", "reading", "refused", "idle", "left", "settled"
    expired,    \* the deadline has passed
    user,       \* the caller has canceled
    known,      \* history: the envelopes that were read from the network until then
    told        \* what the caller was told, in this order

vars == <<setup, sent, body, net, onlyHeader, ahead, env, got, consumer, expired,
          user, known, told>>

Setups ==
    [client : {"promise", "callback"}, transport : {"triple", "grpcweb"}, unary : BOOLEAN]

Callback  == setup.client = "callback"
Triple    == setup.transport = "triple"
Unary     == setup.unary

Items    == {"message", "endOk", "endError"}
CutItems == {"cutMessage", "cutEndOk", "cutEndError"}
Errors   == {"status", "protocol", "canceled", "deadline", "network", "dataLoss", "callback"}

NothingGot == [messages |-> 0, end |-> "none"]

-----------------------------------------------------------------------------
(* Ends of a call: runUnaryCall(), runStreamingCall() and the clients. *)

\* abort(): the deadline wins over whatever was thrown.
AbortReason(error) == IF expired THEN "deadline" ELSE error

\* Canceled errors are discarded if the user canceled.
Discarded(error) == user /\ error = "canceled"

\* What the callbacks of a unary call, or of a stream, or a promise are told.
TellError(error) ==
    CASE Callback /\ Unary /\ Discarded(error)  -> told
      [] Callback /\ ~Unary /\ Discarded(error) -> Append(told, "closed")
      [] OTHER                                  -> Append(told, error)

Mut_SignalNotPassed == UNCHANGED <<net, body>>

\* The signal of the call aborts the response, and what is left of its body is lost.
\* What was read from it stays in the stream of envelopes.
AbortSignal ==
    /\ body' = <<>>
    /\ \/ /\ net \in {"pending", "open", "cut"} \/ body # <<>>
          /\ net' = "aborted"
       \/ /\ net \notin {"pending", "open"} /\ body = <<>>
          /\ net' = net

\* done() and abort() of setupSignal() both do this.
EndCall == AbortSignal

Fail(error) ==
    /\ consumer' = "settled"
    /\ told' = TellError(AbortReason(error))
    /\ EndCall

\* The end of a stream: onTrailer(), and onClose() of the callback client, which is
\* called again with what it throws.
EndStream(throws) ==
    /\ consumer' = "settled"
    /\ told' = told \o <<"trailer", "success">> \o (IF throws THEN <<"callback">> ELSE <<>>)
    /\ EndCall

-----------------------------------------------------------------------------
(* fetch() and the network. *)

\* validateResponse()
ResponseAccepted(ok) == ok

\* A response, with a status the transport accepts or not; a unary Triple call reads
\* the body first, where the error is.  gRPC-web may find its status in the header,
\* where that of an error is thrown.
Respond ==
    /\ consumer = "calling" /\ net = "pending"
    /\ \E ok \in BOOLEAN, header \in BOOLEAN :
        /\ header => ok /\ ~Triple
        /\ \/ /\ ResponseAccepted(ok)
              /\ net' = "open"
              /\ onlyHeader' = header
              /\ consumer' = IF Unary \/ Callback THEN "reading" ELSE "idle"
              /\ told' = IF Unary THEN told ELSE Append(told, "header")
              /\ UNCHANGED body
           \/ /\ ~ResponseAccepted(ok) /\ Triple /\ Unary
              /\ net' = "open"
              /\ consumer' = "refused"
              /\ UNCHANGED <<body, onlyHeader, told>>
           \/ /\ ~ResponseAccepted(ok) /\ ~(Triple /\ Unary)
              /\ Fail("status")
              /\ UNCHANGED onlyHeader
    /\ UNCHANGED <<setup, sent, ahead, env, got, expired, user, known>>

FetchFails ==
    /\ consumer = "calling"
    /\ net \in {"pending", "aborted"}
    /\ Fail(IF net = "aborted" THEN "canceled" ELSE "network")
    /\ UNCHANGED <<setup, sent, onlyHeader, ahead, env, got, expired, user, known>>

Arrive ==
    /\ net = "open"
    /\ Len(sent) < MaxItems
    /\ \E item \in Items :
        /\ Triple /\ Unary => item = "message" /\ sent = <<>>
        /\ sent' = Append(sent, item)
        /\ body' = Append(body, item)
    /\ UNCHANGED <<setup, net, onlyHeader, ahead, env, got, consumer, expired, user, known, told>>

\* The server completes the response; a unary Triple response has a message.
Close ==
    /\ net = "open"
    /\ Triple /\ Unary => sent # <<>>
    /\ net' = "closed"
    /\ UNCHANGED <<setup, sent, body, onlyHeader, ahead, env, got, consumer, expired, user,
                   known, told>>

\* The body ends inside an envelope, after its five bytes of header or before.
Cut ==
    /\ net = "open"
    /\ ~(Triple /\ Unary)
    /\ \/ /\ net' = "cut"
          /\ UNCHANGED <<sent, body>>
       \/ /\ net' = "closed"
          /\ \E item \in CutItems :
                /\ sent' = Append(sent, item)
                /\ body' = Append(body, item)
    /\ UNCHANGED <<setup, onlyHeader, ahead, env, got, consumer, expired, user, known, told>>

Break ==
    /\ net = "open"
    /\ net' = "broken"
    /\ body' = <<>>
    /\ UNCHANGED <<setup, sent, onlyHeader, ahead, env, got, consumer, expired, user, known, told>>

\* The stream of envelopes begins with the first read of the transport.
Started == consumer = "reading" \/ got # NothingGot

\* pull() of the stream of envelopes goes to the network when it has no envelope left:
\* for a chunk, of as many as have arrived or fewer, even one whose data is cut short,
\* or for the end of the body.
Pull ==
    /\ ~(Triple /\ Unary) /\ Started
    /\ env = "open" /\ ahead = <<>>
    /\ \/ \E n \in 1 .. Len(body) :
             /\ ahead' = SubSeq(body, 1, n)
             /\ body' = SubSeq(body, n + 1, Len(body))
             /\ UNCHANGED env
       \/ /\ body = <<>>
          /\ env' = CASE net = "closed"  -> "closed"
                      [] net = "cut"     -> "dataLoss"
                      [] net = "broken"  -> "network"
                      [] net = "aborted" -> "canceled"
                      [] OTHER           -> "open"
          /\ env' # "open"
          /\ UNCHANGED <<ahead, body>>
    /\ UNCHANGED <<setup, sent, net, onlyHeader, got, consumer, expired, user, known, told>>

-----------------------------------------------------------------------------
(* The transports read envelopes. *)

Reading == consumer = "reading" /\ ~(Triple /\ Unary)

Take(item) ==
    /\ Reading
    /\ ahead # <<>> /\ item = Head(ahead)
    /\ ahead' = Tail(ahead)
    /\ UNCHANGED <<setup, sent, onlyHeader, env, expired, user, known>>

Throw(error) ==
    /\ Fail(error)
    /\ UNCHANGED got

\* A message of a stream: the caller has it; onResponse() of the callback client may
\* throw, which leaves the call as it is and is told to onClose().
YieldMessage(item) ==
    /\ got' = [got EXCEPT !.messages = @ + 1]
    /\ \/ /\ told' = Append(told, item)
          /\ consumer' = IF Callback THEN "reading" ELSE "idle"
       \/ /\ Callback
          /\ told' = told \o <<item, "callback">>
          /\ consumer' = "left"
    /\ UNCHANGED <<net, body>>

Keep(what) ==
    /\ got' = what
    /\ UNCHANGED <<consumer, net, body, told>>

\* parseResponseBody() of Triple: messages are told, also behind an end, and an end
\* must be readable and without an error.  The data of a message that was cut is
\* parsed as it is, which may fail.
TripleMessage(item) ==
    /\ item \in {"message", "cutMessage"}
    /\ \/ YieldMessage(item)
       \/ item = "cutMessage" /\ Throw("protocol")

TripleEnd(item) ==
    \/ item = "endOk" /\ Keep([got EXCEPT !.end = "ok"])
    \/ item = "endError" /\ Throw("status")
    \/ item \in {"cutEndOk", "cutEndError"} /\ Throw("protocol")

\* A trailer that was cut has lost its status, or has not.
TrailerStatus(item) ==
    CASE item = "endError"     -> {"error"}
      [] item = "cutEndError" -> {"ok", "error"}
      [] OTHER                  -> {"ok"}

\* parseResponseBody() of gRPC-web: nothing may follow the trailer, and nothing may
\* come at all if the header had the status.
WebMessage(item) ==
    /\ item \in {"message", "cutMessage"}
    /\ \/ (onlyHeader \/ got.end # "none") /\ Throw("protocol")
       \/ ~onlyHeader /\ got.end = "none" /\ YieldMessage(item)
       \/ item = "cutMessage" /\ Throw("protocol")

WebEnd(item) ==
    /\ item \notin {"message", "cutMessage"}
    /\ \E status \in TrailerStatus(item) :
        \/ (onlyHeader \/ got.end # "none") /\ Throw("protocol")
        \/ /\ ~onlyHeader /\ got.end = "none"
           /\ IF status = "error" THEN Throw("status")
              ELSE Keep([got EXCEPT !.end = "ok"])

\* A unary gRPC-web call keeps message and trailer until the body ends.
WebUnaryMessage(item) ==
    /\ item \in {"message", "cutMessage"}
    /\ \/ got.messages > 0 /\ Throw("protocol")
       \/ got.messages = 0 /\ Keep([got EXCEPT !.messages = 1])
       \/ item = "cutMessage" /\ Throw("protocol")

WebUnaryEnd(item) ==
    /\ item \notin {"message", "cutMessage"}
    /\ \/ got.end # "none" /\ Throw("protocol")
       \/ /\ got.end = "none"
          /\ \E status \in TrailerStatus(item) : Keep([got EXCEPT !.end = status])

Read ==
    \E item \in Items \cup CutItems :
        /\ Take(item)
        /\ CASE Triple             -> TripleMessage(item) \/ TripleEnd(item)
             [] ~Triple /\ ~Unary  -> WebMessage(item) \/ WebEnd(item)
             [] ~Triple /\ Unary   -> WebUnaryMessage(item) \/ WebUnaryEnd(item)

\* The end of the body, for a stream.
ReadStreamEnd ==
    /\ Reading /\ ~Unary
    /\ env = "closed" /\ ahead = <<>>
    /\ IF got.end = "ok" \/ onlyHeader
       THEN \E throws \in BOOLEAN : (throws => Callback) /\ EndStream(throws)
       ELSE Fail("protocol")
    /\ UNCHANGED <<setup, sent, onlyHeader, ahead, env, got, expired, user, known>>

TellResponse ==
    /\ consumer' = "settled"
    /\ told' = told \o <<"header", "trailer", "message", "success">>
    /\ EndCall

Mut_TrailerOptional ==
    IF got.messages = 0 THEN Fail("protocol") ELSE TellResponse

\* The end of the body, for a unary gRPC-web call.
WebUnaryResponse ==
    CASE got.end = "error" -> Fail("status")
      [] got.end = "none" \/ (got.end = "ok" /\ got.messages = 0) -> Fail("protocol")
      [] OTHER -> TellResponse

ReadUnaryEnd ==
    /\ Reading /\ Unary
    /\ env = "closed" /\ ahead = <<>>
    /\ WebUnaryResponse
    /\ UNCHANGED <<setup, sent, onlyHeader, ahead, env, got, expired, user, known>>

ReadError ==
    /\ Reading
    /\ env \notin {"open", "closed"}
    /\ Fail(env)
    /\ UNCHANGED <<setup, sent, onlyHeader, ahead, env, got, expired, user, known>>

\* A unary Triple call takes the body as one: its message, or the error of a response
\* that was refused, which may be no JSON.
TripleUnaryResponse ==
    /\ consumer \in {"reading", "refused"} /\ Triple /\ Unary
    /\ \/ /\ net = "closed" /\ consumer = "reading"
          /\ got' = [messages |-> 1, end |-> "ok"]
          /\ TellResponse
       \/ /\ net = "closed" /\ consumer = "refused"
          /\ Fail("status") \/ Fail("protocol")
          /\ UNCHANGED got
       \/ /\ net \in {"broken", "aborted"}
          /\ Fail(IF net = "aborted" THEN "canceled" ELSE "network")
          /\ UNCHANGED got
    /\ UNCHANGED <<setup, sent, onlyHeader, ahead, env, expired, user, known>>

-----------------------------------------------------------------------------
(* The caller. *)

\* The caller of an iterable goes on, or leaves it.
AskNext ==
    /\ consumer = "idle"
    /\ consumer' = "reading"
    /\ UNCHANGED <<setup, sent, body, net, onlyHeader, ahead, env, got, expired, user, known, told>>

Leave ==
    /\ consumer = "idle"
    /\ consumer' = "left"
    /\ UNCHANGED <<setup, sent, body, net, onlyHeader, ahead, env, got, expired, user, known, told>>

\* The function that the callback client returns, or the signal of the options.
Cancel ==
    /\ ~user
    /\ user' = TRUE
    /\ known' = got.messages + Len(ahead)
    /\ AbortSignal
    /\ UNCHANGED <<setup, sent, onlyHeader, ahead, env, got, consumer, expired, told>>

\* The timer is cleared when the call ends, not when it is canceled or left.
Deadline ==
    /\ ~expired /\ consumer # "settled"
    /\ expired' = TRUE
    /\ AbortSignal
    /\ UNCHANGED <<setup, sent, onlyHeader, ahead, env, got, consumer, user, known, told>>

-----------------------------------------------------------------------------

Init ==
    /\ setup \in Setups
    /\ sent = <<>> /\ body = <<>>
    /\ net = "pending"
    /\ onlyHeader = FALSE
    /\ ahead = <<>>
    /\ env = "open"
    /\ got = NothingGot
    /\ consumer = "calling"
    /\ expired = FALSE /\ user = FALSE
    /\ known = 0
    /\ told = <<>>

Next ==
    \/ Respond \/ FetchFails \/ Arrive \/ Close \/ Cut \/ Break
    \/ Pull \/ Read \/ ReadStreamEnd \/ ReadUnaryEnd \/ ReadError \/ TripleUnaryResponse
    \/ AskNext \/ Leave \/ Cancel \/ Deadline

\* The browser goes on with what it has; a caller that iterates need not.
Spec ==
    /\ Init /\ [][Next]_vars
    /\ WF_vars(FetchFails /\ net = "aborted") /\ WF_vars(Pull)
    /\ WF_vars(Read) /\ WF_vars(ReadStreamEnd) /\ WF_vars(ReadUnaryEnd)
    /\ WF_vars(ReadError) /\ WF_vars(TripleUnaryResponse)

-----------------------------------------------------------------------------
(* Properties. *)

Places(s, x) == {i \in 1 .. Len(s) : s[i] = x}

Count(event) == Cardinality(Places(told, event))

Messages(s) == Cardinality(Places(s, "message"))

LastSent == sent[Len(sent)]

NothingBehindEnd ==
    \A i \in 1 .. Len(sent) - 1 : sent[i] = "message"

\* What ends a call for its caller.
Ends == Errors \cup {"success", "closed"}

\* A success was complete: every message of the response was told and was whole, and
\* the end of the response came and had no error.  It takes a server that sends
\* nothing behind the end, and there are two exceptions in gRPC-web: a trailer that
\* was cut may have lost its status, and a status in the header stands for the body.
SuccessMeansComplete ==
    Count("success") > 0 /\ NothingBehindEnd =>
        /\ Count("message") = Messages(sent)
        /\ Count("cutMessage") = 0
        /\ \/ Triple /\ Unary /\ Messages(sent) = 1
           \/ sent # <<>> /\ LastSent = "endOk"
           \/ ~Triple /\ sent # <<>> /\ LastSent \in {"cutEndOk", "cutEndError"}
           \/ onlyHeader /\ sent = <<>>

\* A caller is told the end of its call, once and nothing after it, unless its own
\* callback throws; the callback of a unary call that was canceled may not be told.
ToldOnce ==
    /\ \A i \in 1 .. Len(told) :
           told[i] \in Ends =>
               i = Len(told) \/ (i = Len(told) - 1 /\ told[Len(told)] = "callback")
    /\ consumer = "settled" =>
           \/ \E i \in 1 .. Len(told) : told[i] \in Ends
           \/ Callback /\ Unary /\ user

\* After a call was canceled no more of its messages are told than had been read from
\* the network, and a callback client is never told that it is canceled, as documented.
CancelStops ==
    /\ user => Count("message") + Count("cutMessage") <= known
    /\ Callback /\ user => Count("canceled") = 0

\* Callers are told the right things: one end and nothing after it, and nothing that
\* arrives after they have canceled.
CallerTold == ToldOnce /\ CancelStops

\* A call that is over holds no response: it was read to its end or aborted.  This
\* does not hold for a caller that leaves a stream, nor for a callback that throws.
ResponseReleased == consumer = "settled" => net \in {"closed", "cut", "broken", "aborted"}

\* A canceled call or one whose deadline passes comes to its end, if its caller
\* waits for it.
AbortSettles ==
    [](user \/ expired => <>(consumer \in {"settled", "idle", "left"}))

=============================================================================
