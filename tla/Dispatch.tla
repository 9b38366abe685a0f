------------------------------ MODULE Dispatch ------------------------------
(***************************************************************************)
(* From a call to the handler that serves it: how services are registered  *)
(* with a router, how the adapters for Node.js, Express, Next.js, Fastify  *)
(* and for calls in memory find the handler of a request, how the handler  *)
(* picks a protocol, and what the client makes of the answer.              *)
(*                                                                         *)
(* Paths, versions and groups are sequences, since adapters concatenate    *)
(* them.  Content types and compressions have their names.  A timeout of   *)
(* l * 10^e milliseconds is the number 10 * e + l, so that numbers compare *)
(* as timeouts do and the number of digits is e + 1; 0 stands for none.    *)
(***************************************************************************)
EXTENDS Naturals, Sequences, FiniteSetsExt

CONSTANTS
    Adapters,       \* subset of AllAdapters
    MaxServices,    \* bound: registrations on the router
    Timeouts,       \* the timeouts of calls
    MaxTimeouts     \* values of the option maxTimeoutMs

AllAdapters == {"node", "express", "next", "fastify", "memory"}

ASSUME BoundsAssumption ==
    /\ Adapters \subseteq AllAdapters
    /\ MaxServices \in Nat
    /\ Timeouts \subseteq Nat
    /\ MaxTimeouts \subseteq Nat

VARIABLES
    server,     \* adapter, options of the router, kind of the first method
    regs,       \* the registrations, in this order
    call,       \* what a client of the library was asked to do
    req,        \* the request it made
    res,        \* the answer of the server
    outcome,    \* what the caller got
    phase       \* "setup", "requested", "answered", "done"

vars == <<server, regs, call, req, res, outcome, phase>>

ProtocolOrder == <<"grpc", "grpcweb", "triple">>
Protocols == {"grpc", "grpcweb", "triple"}

Inherit == {"inherit"}
None      == "none"
Missing   == "missing"
NoTimeout == 0

\* Two methods; the path of the second continues that of the first.
Paths  == {<<"m">>, <<"m", "a">>}
Labels == {<<>>, <<"a">>}       \* versions and groups; <<>> for none
Kinds  == {"unary", "get", "stream", "bidi"}    \* "get": unary without side effects

Kind(path) == IF path = <<"m">> THEN server.kind ELSE "unary"

Unary(path) == Kind(path) \in {"unary", "get"}

\* The first in a sequence of those that are wanted.
FirstOf(s, wanted) == s[Min({k \in 1 .. Len(s) : s[k] \in wanted})]

-----------------------------------------------------------------------------
(* Routers and adapters. *)

\* whichProtocols(): options of a service replace those of the router, also where
\* they say nothing of a protocol.
WhichProtocols(off, base) == IF off = Inherit THEN base ELSE off

Enabled(reg) == Protocols \ WhichProtocols(reg.off, server.off)

NodeKey(r)    == <<r.path \o r.version \o r.group>>
ExpressKey(r) == <<r.path \o r.version \o r.group>>
NextKey(r)    == <<r.path \o r.version \o r.group>>
FastifyKey(r) == <<r.path, r.version \o r.group>>
MemoryKey(r)  == <<r.path>>

Mut_GroupForgotten(r) ==
    CASE server.adapter = "memory"  -> MemoryKey(r)
      [] server.adapter = "fastify" -> <<r.path, r.version>>
      [] OTHER                      -> <<r.path \o r.version>>

Key(r) ==
    CASE server.adapter = "node"    -> NodeKey(r)
      [] server.adapter = "express" -> ExpressKey(r)
      [] server.adapter = "next"    -> NextKey(r)
      [] server.adapter = "fastify" -> FastifyKey(r)
      [] server.adapter = "memory"  -> MemoryKey(r)

\* Of handlers with the same key a map keeps the last.
Lookup(r) ==
    LET hits == {i \in 1 .. Len(regs) : Key(regs[i]) = Key(r)}
    IN  IF hits = {} THEN 0 ELSE Max(hits)

\* A body parser of Express has read a body of JSON and left its value.
GetPreparsedBody(r) ==
    /\ server.adapter = "express" /\ server.parser
    /\ r.method = "POST"
    /\ r.contentType \in {"application/json", "application/connect+json",
                          "application/grpc+json", "application/grpc-web+json"}

\* Adapters accept these compressions if nothing else is said, a router by itself
\* none.
AcceptCompression == IF server.adapter = "memory" THEN {} ELSE {"gzip", "br"}

-----------------------------------------------------------------------------
(* Protocols: content types, timeouts and compression. *)

TripleUnaryTypes  == {"application/json", "application/proto"}
TripleStreamTypes ==
    {"application/connect+json", "application/connect+proto", "application/connectjson"}
GrpcTypes == {"application/grpc", "application/grpc+proto", "application/grpc+json"}
GrpcWebTypes ==
    {"application/grpc-web+proto", "application/grpc-web+json", "application/grpc-web-text"}

ContentTypes ==
    TripleUnaryTypes \cup TripleStreamTypes \cup GrpcTypes \cup GrpcWebTypes
        \cup {Missing, "text/plain"}

Mut_PrefixMatches(protocol, path, type) ==
    CASE protocol = "grpc"    -> type \in GrpcTypes \cup GrpcWebTypes
      [] protocol = "grpcweb" -> type \in GrpcWebTypes
      [] protocol = "triple"  -> type \in TripleUnaryTypes \cup TripleStreamTypes

\* The content types for which a handler is selected.
SupportedContentType(protocol, path, type) ==
    CASE protocol = "grpc"    -> type \in GrpcTypes
      [] protocol = "grpcweb" -> type \in GrpcWebTypes
      [] protocol = "triple"  ->
            type \in (IF Unary(path) THEN TripleUnaryTypes ELSE TripleStreamTypes)

AllowedMethods(protocol, path) ==
    IF protocol = "triple" /\ Kind(path) = "get" THEN {"POST", "GET"} ELSE {"POST"}

\* The content types a handler goes on with.  That of a stream must have its "+",
\* which the expression that selects handlers does not ask for; text is left out.
ParsesTriple(path, type) ==
    type \in (IF Unary(path) THEN TripleUnaryTypes
              ELSE {"application/connect+json", "application/connect+proto"})

ParsesGrpc(type) == type \in GrpcTypes

ParsesGrpcWeb(type) == type \in GrpcWebTypes \ {"application/grpc-web-text"}

Binary(type) ==
    type \in {"application/proto", "application/connect+proto", "application/grpc",
              "application/grpc+proto", "application/grpc-web+proto"}

Digits(timeout) == timeout \div 10 + 1

\* Up to ten digits of milliseconds.
ParseTripleTimeout(timeout) == Digits(timeout) <= 10

\* Up to eight digits and a unit.
ParseGrpcTimeout(timeout) == Digits(timeout) <= 8

ParseTimeoutFails(protocol, r) ==
    /\ r.timeout # NoTimeout
    /\ \/ protocol = "triple" /\ ~ParseTripleTimeout(r.timeout)
       \/ protocol # "triple" /\ ~ParseGrpcTimeout(r.timeout)
       \/ r.timeout > server.maxTimeout

\* 2^31 milliseconds and more do not fit in a timer, which waits for one instead.
TimerLimit == 92

Mut_TimeoutDropped(protocol, r) ==
    IF protocol = "triple" THEN r.timeout ELSE NoTimeout

\* createHandlerContext() with what parseTimeout() found.
DeadlineOf(protocol, r) ==
    IF r.timeout > TimerLimit THEN 1 ELSE r.timeout

\* compressionNegotiate(): without a header that says what the client accepts,
\* that of the request is used.
RequestCompression(r) ==
    IF r.encoding \in AcceptCompression THEN r.encoding ELSE None

CompressionError(r) == r.encoding # None /\ r.encoding \notin AcceptCompression

Mut_OwnPreference(r) ==
    IF r.accept = <<>> THEN RequestCompression(r)
    ELSE IF AcceptCompression = {} THEN None ELSE "gzip"

ResponseCompression(r) ==
    IF r.accept = <<>> THEN RequestCompression(r)
    ELSE IF \E k \in 1 .. Len(r.accept) : r.accept[k] \in AcceptCompression
         THEN FirstOf(r.accept, AcceptCompression) ELSE None

RequireProtocolHeaderFails(protocol, r) ==
    protocol = "triple" /\ server.requireHeader /\ ~r.protocolVersion

-----------------------------------------------------------------------------
(* The client: requests. *)

NoCall == [protocol |-> None]

TripleRequestType(path, binary) ==
    IF Unary(path) THEN (IF binary THEN "application/proto" ELSE "application/json")
    ELSE IF binary THEN "application/connect+proto" ELSE "application/connect+json"

RequestType(c) ==
    CASE c.protocol = "triple"  -> TripleRequestType(c.path, c.binary)
      [] c.protocol = "grpc"    ->
            IF c.binary THEN "application/grpc+proto" ELSE "application/grpc+json"
      [] c.protocol = "grpcweb" ->
            IF c.binary THEN "application/grpc-web+proto" ELSE "application/grpc-web+json"

\* Only a unary call of a Triple transport passes version and group on.
WithServiceOptions(c, r) ==
    IF c.protocol = "triple" /\ Unary(c.path)
    THEN [r EXCEPT !.version = c.version, !.group = c.group] ELSE r

\* requestHeaderWithCompression(); a unary Triple request says that it is
\* compressed only if it is, the others say what their envelopes may use.
RequestHeader(c) ==
    [method |-> "POST", path |-> c.path, version |-> <<>>, group |-> <<>>,
     httpVersion |-> c.httpVersion,
     contentType |-> RequestType(c), query |-> Missing,
     encoding |-> IF c.protocol = "triple" /\ Unary(c.path) /\ ~c.big THEN None ELSE c.send,
     accept |-> c.accept, timeout |-> c.timeout,
     protocolVersion |-> c.protocol = "triple"]

UseGet(c) == c.protocol = "triple" /\ c.useHttpGet /\ Kind(c.path) = "get"

\* transformConnectPostToGetRequest(): format, compression and protocol version go
\* into the query, and what the client accepts is dropped.
ToGetRequest(r) ==
    [r EXCEPT !.method = "GET", !.contentType = Missing, !.query = r.contentType,
              !.accept = <<>>]

RequestOf(c) ==
    LET r == WithServiceOptions(c, RequestHeader(c))
    IN  IF UseGet(c) THEN ToGetRequest(r) ELSE r

-----------------------------------------------------------------------------
(* The server: from a request to an answer. *)

NoAnswer == [status |-> 0, by |-> 0, protocol |-> None, type |-> Missing,
             encoding |-> None, code |-> None, deadline |-> NoTimeout]

NotFound             == [NoAnswer EXCEPT !.status = 404]
MethodNotAllowed     == [NoAnswer EXCEPT !.status = 405]
UnsupportedMediaType == [NoAnswer EXCEPT !.status = 415]
VersionNotSupported  == [NoAnswer EXCEPT !.status = 505]

\* What is raised before the implementation is called.  The implementation of the
\* model always succeeds.
RefusedWith(protocol, r, type) ==
    CASE RequireProtocolHeaderFails(protocol, r) -> "invalid_argument"
      [] ~RequireProtocolHeaderFails(protocol, r) /\ CompressionError(r) -> "unimplemented"
      [] ~RequireProtocolHeaderFails(protocol, r) /\ ~CompressionError(r)
            /\ ParseTimeoutFails(protocol, r) -> "invalid_argument"
      [] OTHER -> "ok"

Answer(i, protocol, r, type, encoding) ==
    [status |-> 200, by |-> i, protocol |-> protocol, type |-> type,
     encoding |-> encoding, code |-> RefusedWith(protocol, r, type),
     deadline |-> IF RefusedWith(protocol, r, type) = "ok"
                  THEN DeadlineOf(protocol, r) ELSE NoTimeout]

\* Of the codes that refuse a call.
CodeToHttpStatus(code) == IF code = "unimplemented" THEN 404 ELSE 400

Mut_RefusedInFormat(answer) ==
    IF answer.code = "ok" THEN answer
    ELSE [answer EXCEPT !.status = CodeToHttpStatus(answer.code)]

\* Refused, a unary Triple call is answered in JSON and with a status of its own,
\* whatever the format of the request.
TripleUnaryAnswer(answer) ==
    IF answer.code = "ok" THEN answer
    ELSE [answer EXCEPT !.status = CodeToHttpStatus(answer.code), !.type = "application/json"]

TripleUnaryHandler(i, r, large) ==
    LET type == IF r.method = "GET" THEN r.query ELSE r.contentType
    IN  IF ~ParsesTriple(r.path, type) THEN UnsupportedMediaType
        ELSE TripleUnaryAnswer(
                Answer(i, "triple", r, type,
                       IF large THEN ResponseCompression(r) ELSE None))

\* assertByteStreamRequest() rejects in place of an answer.
Rejects(r) == GetPreparsedBody(r)

TripleStreamHandler(i, r) ==
    CASE Rejects(r) -> NoAnswer
      [] ~Rejects(r) /\ ~ParsesTriple(r.path, r.contentType) -> UnsupportedMediaType
      [] OTHER -> Answer(i, "triple", r, r.contentType, ResponseCompression(r))

GrpcHandler(i, r) ==
    CASE Rejects(r) -> NoAnswer
      [] ~Rejects(r) /\ ~ParsesGrpc(r.contentType) -> UnsupportedMediaType
      [] OTHER -> Answer(i, "grpc", r, r.contentType, ResponseCompression(r))

GrpcWebHandler(i, r) ==
    CASE Rejects(r) -> NoAnswer
      [] ~Rejects(r) /\ ~ParsesGrpcWeb(r.contentType) -> UnsupportedMediaType
      [] OTHER -> Answer(i, "grpcweb", r, r.contentType, ResponseCompression(r))

Handler(protocol, i, r, large) ==
    CASE protocol = "grpc"    -> GrpcHandler(i, r)
      [] protocol = "grpcweb" -> GrpcWebHandler(i, r)
      [] protocol = "triple"  ->
            IF Unary(r.path) THEN TripleUnaryHandler(i, r, large)
            ELSE TripleStreamHandler(i, r)

\* negotiateProtocol(): the HTTP version, the verb, then the content type, and the
\* first handler of those that remain.
NegotiateProtocol(i, r, large) ==
    LET matchingMethod ==
            {p \in Enabled(regs[i]) : r.method \in AllowedMethods(p, r.path)}
        matchingContentTypes ==
            {p \in matchingMethod : SupportedContentType(p, r.path, r.contentType)}
        first(protocols) == FirstOf(ProtocolOrder, protocols)
    IN  CASE Kind(r.path) = "bidi" /\ r.httpVersion = 1 -> VersionNotSupported
          [] Kind(r.path) # "bidi" \/ r.httpVersion # 1 ->
                CASE matchingMethod = {} -> MethodNotAllowed
                  [] Cardinality(matchingMethod) = 1 /\ r.contentType = Missing ->
                        Handler(first(matchingMethod), i, r, large)
                  [] matchingMethod # {}
                        /\ ~(Cardinality(matchingMethod) = 1 /\ r.contentType = Missing) ->
                        IF matchingContentTypes = {} THEN UnsupportedMediaType
                        ELSE Handler(first(matchingContentTypes), i, r, large)

\* The handler serves the methods of its own path; a request found it by a key.
RequestHandler(r, large) ==
    LET i == Lookup(r)
    IN  IF i = 0 THEN NotFound
        ELSE NegotiateProtocol(i, [r EXCEPT !.path = regs[i].path], large)

-----------------------------------------------------------------------------
(* The client: answers. *)

HttpCode(protocol, status) ==
    CASE status = 404                          -> "unimplemented"
      [] status = 415 /\ protocol = "triple"   -> "internal"
      [] OTHER                                 -> "unknown"

\* validateResponseWithCompression()
EncodingRefused(c, answer) ==
    answer.encoding # None
        /\ \A k \in 1 .. Len(c.accept) : c.accept[k] # answer.encoding

\* Whether the client reads the body, or the messages in it, as binary: an error of a
\* unary Triple call, which the status tells, is read as JSON.
ReadsBinary(c, answer) ==
    c.binary /\ ~(c.protocol = "triple" /\ Unary(c.path) /\ answer.status # 200)

\* What the answer is for the caller, whose own deadline is a timer too.  The code of
\* a refusal is in the body, unless the answer is not one of a handler.
Outcome(c, answer) ==
    CASE answer.status = 0                      -> "nothing"
      [] answer.status # 0 /\ answer.by = 0     -> HttpCode(c.protocol, answer.status)
      [] answer.by # 0 /\ EncodingRefused(c, answer) -> "invalid_argument"
      [] OTHER                                  -> answer.code

TimerFires(c) == c.timeout > TimerLimit

-----------------------------------------------------------------------------
(* Steps. *)

NoRequest == [path |-> <<>>]

Servers ==
    [adapter : Adapters, off : {{}, {"grpc"}}, kind : Kinds, parser : BOOLEAN,
     requireHeader : BOOLEAN, maxTimeout : MaxTimeouts]

\* Bound: one option at a time has another value than its default.
Deviations(s) ==
    Cardinality({o \in {"parser", "requireHeader", "maxTimeout"} :
        \/ o = "parser" /\ s.parser
        \/ o = "requireHeader" /\ s.requireHeader
        \/ o = "maxTimeout" /\ \E t \in MaxTimeouts : t > s.maxTimeout})

Init ==
    /\ server \in Servers
    /\ server.parser => server.adapter = "express"
    /\ Deviations(server) <= 1
    /\ regs = <<>>
    /\ call = NoCall
    /\ req = NoRequest
    /\ res = NoAnswer
    /\ outcome = None
    /\ phase = "setup"

Registrations ==
    [path : Paths, version : Labels, group : Labels,
     off : {Inherit, {}, {"grpc", "grpcweb"}, {"triple"}}]

\* Bound: more than one service only with the defaults of other options, and for
\* two kinds of methods.  Without options there is neither version nor group.  A service with all protocols
\* disabled is refused.
Register ==
    /\ phase = "setup"
    /\ Len(regs) < MaxServices
    /\ regs # <<>> => Deviations(server) = 0 /\ server.kind \in {"get", "stream"}
    /\ \E reg \in Registrations :
        /\ reg.off = Inherit => reg.version = <<>> /\ reg.group = <<>>
        /\ Enabled(reg) # {}
        /\ regs' = Append(regs, reg)
    /\ UNCHANGED <<server, call, req, res, outcome, phase>>

Calls ==
    [protocol : Protocols, path : Paths, version : Labels, group : Labels,
     binary : BOOLEAN, httpVersion : {1, 2}, useHttpGet : BOOLEAN, big : BOOLEAN,
     send : {None, "gzip", "custom"}, accept : {<<>>, <<"gzip">>, <<"custom", "br">>},
     timeout : {NoTimeout} \cup Timeouts]

PlainTransport ==
    [binary : {TRUE}, httpVersion : {2}, useHttpGet : {FALSE}, big : {FALSE},
     send : {None}, accept : {<<"gzip">>}, timeout : {NoTimeout}]

\* Bound: the settings of a transport vary for the first method of a service that
\* is alone and has neither version nor group, and either those of compression do
\* or the timeout.
Transports(path, version, group) ==
    IF Len(regs) > 1 \/ path # <<"m">> \/ version # <<>> \/ group # <<>>
    THEN PlainTransport
    ELSE [binary : {TRUE}, httpVersion : {2}, useHttpGet : BOOLEAN, big : BOOLEAN,
          send : {None, "gzip", "custom"},
          accept : {<<>>, <<"gzip">>, <<"custom", "br">>}, timeout : {NoTimeout}]
            \cup [binary : BOOLEAN, httpVersion : {1, 2}, useHttpGet : BOOLEAN, big : {FALSE},
                  send : {None}, accept : {<<"gzip">>}, timeout : {NoTimeout} \cup Timeouts]

Call ==
    /\ phase = "setup"
    /\ regs # <<>>
    /\ \E protocol \in Protocols, path \in Paths, version, group \in Labels :
        \E t \in Transports(path, version, group) :
        call' = [protocol |-> protocol, path |-> path, version |-> version, group |-> group,
                 binary |-> t.binary, httpVersion |-> t.httpVersion,
                 useHttpGet |-> t.useHttpGet, big |-> t.big, send |-> t.send,
                 accept |-> t.accept, timeout |-> t.timeout]
    /\ req' = RequestOf(call')
    /\ phase' = "requested"
    /\ UNCHANGED <<server, regs, res, outcome>>

\* Any other HTTP client.
ForeignRequest ==
    /\ phase = "setup"
    /\ Len(regs) = 1
    /\ regs[1].version = <<>> /\ regs[1].group = <<>>
    /\ \E method \in {"GET", "POST", "PUT"}, type \in ContentTypes,
          query \in {Missing, "application/json"} :
        req' = [method |-> method, path |-> regs[1].path, version |-> regs[1].version,
                group |-> regs[1].group, httpVersion |-> 2,
                contentType |-> type, query |-> query, encoding |-> None,
                accept |-> <<>>, timeout |-> NoTimeout, protocolVersion |-> FALSE]
    /\ phase' = "requested"
    /\ UNCHANGED <<server, regs, call, res, outcome>>

Serve ==
    /\ phase = "requested"
    /\ \E large \in BOOLEAN :
        res' = RequestHandler(req, large)
    /\ phase' = "answered"
    /\ UNCHANGED <<server, regs, call, req, outcome>>

Receive ==
    /\ phase = "answered"
    /\ call # NoCall
    /\ outcome' = Outcome(call, res)
    /\ phase' = "done"
    /\ UNCHANGED <<server, regs, call, req, res>>

Expire ==
    /\ phase = "answered"
    /\ call # NoCall
    /\ TimerFires(call)
    /\ outcome' = "deadline_exceeded"
    /\ phase' = "done"
    /\ UNCHANGED <<server, regs, call, req, res>>

Next == Register \/ Call \/ ForeignRequest \/ Serve \/ Receive \/ Expire

Spec == Init /\ [][Next]_vars

-----------------------------------------------------------------------------
(* Properties. *)

\* Two addresses that adapters take for one, and are not.
Confusable(r, s) ==
    /\ <<r.path, r.version, r.group>> # <<s.path, s.version, s.group>>
    /\ \/ server.adapter = "memory" /\ r.path = s.path
       \/ server.adapter = "fastify" /\ r.path = s.path
            /\ r.version \o r.group = s.version \o s.group
       \/ server.adapter \notin {"memory", "fastify"}
            /\ r.path \o r.version \o r.group = s.path \o s.version \o s.group

SameAddress(r, s) == r.path = s.path /\ r.version = s.version /\ r.group = s.group

Served == phase \in {"answered", "done"} /\ res.by > 0

\* A request is served by the implementation that was registered for its method,
\* version and group, and by the last one if there are several, with one exception:
\* adapters put path, version and group together without a separator (Fastify
\* version and group), and calls in memory look at the path alone.
RightHandler ==
    Served =>
        \/ \E i \in 1 .. Len(regs) : Confusable(regs[i], req)
        \/ /\ SameAddress(regs[res.by], req)
           /\ \A i \in 1 .. Len(regs) : SameAddress(regs[i], req) => i <= res.by

\* The request was compressed, and the server does not hear that the client accepts
\* nothing, or, by GET, what it accepts.
AcceptUnheard(c) == c.send # None /\ (c.accept = <<>> \/ UseGet(c))

\* A client can read what it is sent, messages and refusals: the answer to a call is
\* in the protocol of its transport, in the format in which this reads an answer with
\* its status (errors of unary Triple calls are JSON for both, also where the transport
\* is binary), and compressed in a way that the transport accepts, unless the server
\* did not hear of that.
ResponseReadable ==
    Served /\ call # NoCall =>
        /\ res.protocol = call.protocol
        /\ Binary(res.type) = ReadsBinary(call, res)
        /\ AcceptUnheard(call) \/ ~EncodingRefused(call, res)

\* An implementation that is called for a client has the deadline that the client
\* has, whatever protocol and verb carried it, except for a timeout beyond 2^31
\* milliseconds, which expires at once.
TimeoutKept ==
    Served /\ call # NoCall /\ res.code = "ok" =>
        IF call.timeout > TimerLimit THEN res.deadline = 1
        ELSE res.deadline = call.timeout

\* The registration that a call means.
Meant(c) ==
    {i \in 1 .. Len(regs) :
        /\ SameAddress(regs[i], c)
        /\ \A j \in 1 .. Len(regs) : SameAddress(regs[j], c) => j <= i}

\* What may keep a call from its implementation: version and group go with unary
\* Triple calls only, full duplex needs HTTP/2, a body parser leaves no bytes to
\* envelopes, compression must be known to both sides, and a timeout must fit.
Hindered(c) ==
    \/ (c.protocol # "triple" \/ ~Unary(c.path)) /\ (c.version # <<>> \/ c.group # <<>>)
    \/ Kind(c.path) = "bidi" /\ c.httpVersion = 1
    \/ server.parser /\ ~c.binary /\ ~(c.protocol = "triple" /\ Unary(c.path))
    \/ c.send # None /\ (c.send = "custom" \/ server.adapter = "memory")
    \/ AcceptUnheard(c)
    \/ c.timeout # NoTimeout
         /\ \/ c.timeout > server.maxTimeout
            \/ c.timeout > TimerLimit
            \/ c.protocol # "triple" /\ Digits(c.timeout) > 8

\* A call whose method is registered with its version and group, for a service that
\* has the protocol enabled, succeeds, unless one of the known hindrances is in its
\* way.  In particular enabling one protocol never takes requests from another,
\* and a client always passes the checks of the server for its own headers.
CallSucceeds ==
    phase = "done" =>
        \/ \E i \in Meant(call) :
               \/ call.protocol \in WhichProtocols(regs[i].off, server.off)
               \/ \E j \in 1 .. Len(regs) : Confusable(regs[j], call)
        \/ Meant(call) = {}
        \/ Hindered(call)
        \/ outcome = "ok"

\* "Set this option to `false` to disable it" (router.ts:74-75): a server does not
\* answer in a protocol that its router disables.
DisabledStaysDisabled == Served => res.protocol \notin server.off

=============================================================================
