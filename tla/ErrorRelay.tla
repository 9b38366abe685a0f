----------------------------- MODULE ErrorRelay -----------------------------
(***************************************************************************)
(* How an error travels: thrown by an implementation, written by the       *)
(* handler of a protocol, met by proxies on the way, read by the transport *)
(* of the same protocol, and thrown again by an implementation that made   *)
(* the call on behalf of another (a gateway), for any number of hops.      *)
(*                                                                         *)
(* An error keeps what its readers tell apart: its code, whether its       *)
(* message is still the one it was thrown with, one detail, and of its     *)
(* metadata what the implementation added and the name of a compression    *)
(* that was used on the response it came with.  Codes have their names of  *)
(* codeToString().  node's side of a failed connection is a chain of       *)
(* errors, each with a cause.                                              *)
(***************************************************************************)
EXTENDS Naturals, Sequences

CONSTANTS
    MaxHops,        \* bound: servers an error passes
    MaxFaults,      \* bound: interventions of the network
    ThrownCodes     \* the codes that implementations throw

Code ==
    {"canceled", "unknown", "invalid_argument", "deadline_exceeded", "not_found",
     "already_exists", "permission_denied", "resource_exhausted",
     "failed_precondition", "aborted", "out_of_range", "unimplemented",
     "internal", "unavailable", "data_loss", "unauthenticated"}

ASSUME BoundsAssumption ==
    /\ MaxHops \in Nat \ {0}
    /\ MaxFaults \in Nat
    /\ ThrownCodes \subseteq Code

VARIABLES
    path,       \* the hops so far, from the server that failed
    phase,      \* where the error is on the last hop
    error,      \* the error a server or a client holds
    res,        \* the response that carries it
    origin,     \* what the first implementation threw
    faults      \* what the network did, in this order

vars == <<path, phase, error, res, origin, faults>>

\* A hop: a protocol, whether the method is unary, and for the body of a unary
\* Triple response whether the server compresses it and the client would accept
\* that.  The other bodies say of each message whether it is compressed.
Hops ==
    [protocol : {"triple"}, unary : {TRUE}, packs : BOOLEAN, accepts : {TRUE}]
        \cup [protocol : {"triple"}, unary : {TRUE}, packs : {FALSE}, accepts : {FALSE}]
        \cup [protocol : {"triple"}, unary : {FALSE}, packs : {FALSE}, accepts : {TRUE}]
        \cup [protocol : {"grpc", "grpcweb"}, unary : BOOLEAN, packs : {FALSE}, accepts : {TRUE}]

\* A detail that was attached is a message, whose JSON may be an object, a plain
\* value (a Timestamp, a Duration, a wrapper) or fail (an Any of unknown type);
\* one that was received is bytes, perhaps with the JSON for debugging.
Details == [form : {"none", "message", "incoming"}, debug : {"none", "object", "plain"}]

Metadata == [own : BOOLEAN, encoding : BOOLEAN]

DubboErrors == [code : Code, text : {"own", "other"}, detail : Details, metadata : Metadata]

NoDetail   == [form |-> "none", debug |-> "none"]
NoMetadata == [own |-> FALSE, encoding |-> FALSE]

NewError(code, metadata) ==
    [code |-> code, text |-> "other", detail |-> NoDetail, metadata |-> metadata]

\* What findDetails() gives: each detail whose type is known, whatever its form.
FindDetails(e) == e.detail.form # "none"

-----------------------------------------------------------------------------
(* Codes and HTTP status. *)

CodeToHttpStatus(code) ==
    CASE code \in {"canceled", "deadline_exceeded"}          -> 408
      [] code \in {"invalid_argument", "out_of_range"}       -> 400
      [] code \in {"not_found", "unimplemented"}             -> 404
      [] code \in {"already_exists", "aborted"}              -> 409
      [] code = "permission_denied"                          -> 403
      [] code = "resource_exhausted"                         -> 429
      [] code = "failed_precondition"                        -> 412
      [] code = "unavailable"                                -> 503
      [] code = "unauthenticated"                            -> 401
      [] OTHER                                               -> 500

Mut_ServerErrorsUnavailable(http) ==
    IF http \in 500 .. 599 THEN "unavailable" ELSE "unknown"

TripleCodeFromHttpStatus(http) ==
    CASE http = 400                  -> "invalid_argument"
      [] http = 401                  -> "unauthenticated"
      [] http = 403                  -> "permission_denied"
      [] http = 404                  -> "unimplemented"
      [] http = 408                  -> "deadline_exceeded"
      [] http = 409                  -> "aborted"
      [] http = 412                  -> "failed_precondition"
      [] http \in {413, 431}         -> "resource_exhausted"
      [] http = 415                  -> "internal"
      [] http \in {429, 502, 503, 504} -> "unavailable"
      [] OTHER                       -> "unknown"

GrpcCodeFromHttpStatus(http) ==
    CASE http = 400                  -> "internal"
      [] http = 401                  -> "unauthenticated"
      [] http = 403                  -> "permission_denied"
      [] http = 404                  -> "unimplemented"
      [] http \in {429, 502, 503, 504} -> "unavailable"
      [] OTHER                       -> "unknown"

CodeFromHttpStatus(hop, http) ==
    IF hop.protocol = "triple" THEN TripleCodeFromHttpStatus(http)
    ELSE GrpcCodeFromHttpStatus(http)

-----------------------------------------------------------------------------
(* The server: the catch clauses of the handlers. *)

\* An implementation throws an error of the library with a detail and metadata
\* of its own, or anything else, which becomes an internal error.
Thrown ==
    [code : ThrownCodes, text : {"own"},
     detail : {NoDetail} \cup [form : {"message"}, debug : {"none", "object", "plain"}],
     metadata : [own : BOOLEAN, encoding : {FALSE}]]
        \cup {NewError("internal", NoMetadata)}

Mut_OnlyMessagesWritten(e) ==
    [e EXCEPT !.detail = IF e.detail.form = "message"
                         THEN [e.detail EXCEPT !.form = "incoming"] ELSE NoDetail]

\* errorToJson(): the JSON of a message is added for debugging.
ErrorToJson(e) ==
    IF e.detail.form = "message" THEN [e EXCEPT !.detail.form = "incoming"] ELSE e

\* The status and its body.  Metadata of the error become headers, and that of a
\* compression stays there unless the body is compressed anew.
TripleUnaryError(hop, e) ==
    [http |-> CodeToHttpStatus(e.code), where |-> "body", error |-> ErrorToJson(e),
     encoding |-> hop.packs \/ e.metadata.encoding, packed |-> hop.packs]

EndStreamToJson(e) ==
    [http |-> 200, where |-> "end", error |-> ErrorToJson(e),
     encoding |-> FALSE, packed |-> FALSE]

\* setTrailerStatus(): code, message and details, but no metadata.  Details are
\* packed with their type and nothing else.
SetTrailerStatus(hop, e) ==
    [http |-> 200,
     where |-> IF hop.protocol = "grpc" THEN "trailer" ELSE "end",
     error |-> [e EXCEPT !.metadata = NoMetadata,
                         !.detail = IF FindDetails(e)
                                    THEN [form |-> "incoming", debug |-> "none"]
                                    ELSE NoDetail],
     encoding |-> FALSE, packed |-> FALSE]

WriteError(hop, e) ==
    CASE hop.protocol = "triple" /\ hop.unary  -> TripleUnaryError(hop, e)
      [] hop.protocol = "triple" /\ ~hop.unary -> EndStreamToJson(e)
      [] OTHER                                 -> SetTrailerStatus(hop, e)

-----------------------------------------------------------------------------
(* The client: the transports read a response. *)

\* errorFromJson(), and errorFromJsonBytes() for a body that is no JSON: a detail
\* with a plain value for debugging makes the whole error unreadable.
Readable(r) == r.where \notin {"page", "nowhere"} /\ r.error.detail.debug # "plain"

ErrorFromJson(r, metadata, fallback) ==
    IF Readable(r) THEN [r.error EXCEPT !.metadata = metadata] ELSE fallback

\* wrapZLibErrors(): what zlib finds wrong, as a code.
WrapZLibErrors(fault) ==
    CASE fault = "ERR_BUFFER_TOO_LARGE"                  -> "resource_exhausted"
      [] fault \in {"Z_DATA_ERROR", "ERR_PADDING_2"}     -> "invalid_argument"
      [] OTHER                                           -> "internal"

\* The body of a response says that it is compressed, and is not.
DecompressFails(r) == r.encoding /\ ~r.packed

\* Headers and trailers of the response, with the name of the compression.
ResponseMetadata(r) ==
    [own |-> r.where # "page" /\ r.error.metadata.own, encoding |-> r.encoding]

\* validateResponseWithCompression() refuses a compression it does not know.
ResponseEncodingRefused(hop, r) == r.encoding /\ ~hop.accepts

TripleUnaryResponse(hop, r) ==
    LET fallback == NewError(TripleCodeFromHttpStatus(r.http), ResponseMetadata(r))
    IN  CASE ResponseEncodingRefused(hop, r) ->
                NewError("invalid_argument", ResponseMetadata(r))
          [] ~ResponseEncodingRefused(hop, r) /\ DecompressFails(r) ->
                NewError(WrapZLibErrors("Z_DATA_ERROR"), NoMetadata)
          [] OTHER -> ErrorFromJson(r, ResponseMetadata(r), fallback)

\* endStreamFromJson(): the metadata of the response and of the error are one.
EndStreamFromJson(r) ==
    ErrorFromJson(r, r.error.metadata, NewError("invalid_argument", NoMetadata))

\* A stream is read only when the status is 200, and misses an end that is not there.
TripleStreamResponse(r) ==
    CASE r.http # 200 ->
            NewError(TripleCodeFromHttpStatus(r.http), ResponseMetadata(r))
      [] r.http = 200 /\ r.where = "nowhere" ->
            NewError("invalid_argument", NoMetadata)
      [] OTHER -> EndStreamFromJson(r)

\* validateResponse() of gRPC takes 200 only, that of gRPC-web every success.
GrpcValidateResponse(r) == r.http = 200

WebValidateResponse(r) == r.http \in 200 .. 299

HttpFails(hop, r) ==
    \/ hop.protocol = "grpc" /\ ~GrpcValidateResponse(r)
    \/ hop.protocol = "grpcweb" /\ ~WebValidateResponse(r)

\* findTrailerError() in the trailers, or in the headers when these are all the
\* response has.
FindTrailerError(r) == [r.error EXCEPT !.metadata = ResponseMetadata(r)]

Mut_EmptySuccess(hop, r) ==
    hop.protocol # "triple" /\ ~HttpFails(hop, r) /\ r.where = "nowhere"

\* Where neither trailers nor headers have a status, a gRPC client sees the end of
\* the stream and no more, or a unary method without its message; gRPC-web misses
\* its trailers, and Triple its end-of-stream message.  Of a unary Triple response
\* the HTTP status tells, and no bytes at all are a message of protobuf.
LooksSuccessful(hop, r) ==
    /\ r.http = 200 /\ r.where = "nowhere"
    /\ \/ hop.protocol = "grpc" /\ ~hop.unary
       \/ hop.protocol = "triple" /\ hop.unary

\* A body that comes with a good status and that the client cannot parse: a page is
\* neither a message nor an envelope, and nothing is no JSON.
Unparsable(hop, r) ==
    /\ r.http = 200
    /\ r.where = "page" \/ (r.where = "nowhere" /\ hop.protocol = "triple" /\ hop.unary)

\* Codes of what the serializations and the splitting of envelopes throw.
ParseCodes == {"invalid_argument", "resource_exhausted"}

GrpcResponse(hop, r) ==
    CASE HttpFails(hop, r) ->
            NewError(GrpcCodeFromHttpStatus(r.http), ResponseMetadata(r))
      [] ~HttpFails(hop, r) /\ r.where = "nowhere" ->
            NewError("invalid_argument", NoMetadata)
      [] OTHER -> FindTrailerError(r)

ReadError(hop, r) ==
    CASE hop.protocol = "triple" /\ hop.unary  -> TripleUnaryResponse(hop, r)
      [] hop.protocol = "triple" /\ ~hop.unary -> TripleStreamResponse(r)
      [] OTHER                                 -> GrpcResponse(hop, r)

-----------------------------------------------------------------------------
(* The client: no response. *)

NodeCodes == {"write_after_end", "destroyed", "refused", "abort", "other"}

\* Two errors of node, each with a cause: none (0), the other, or itself.
NodeReasons == [1 .. 2 -> [code : NodeCodes, cause : 0 .. 2]]

\* unwrapNodeErrorChain(): the error, its cause and so on, until one comes again.
UnwrapNodeErrorChain(reason) ==
    {1} \cup ({reason[1].cause} \ {0})

\* getNodeErrorProps() of each.
Somewhere(reason, codes) ==
    \E e \in UnwrapNodeErrorChain(reason) : reason[e].code \in codes

DubboErrorFromNodeReason(reason) ==
    CASE reason[1].code = "abort"                         -> "canceled"
      [] reason[1].code # "abort" /\ Somewhere(reason, {"write_after_end", "destroyed"}) -> "aborted"
      [] reason[1].code # "abort" /\ ~Somewhere(reason, {"write_after_end", "destroyed"})
            /\ Somewhere(reason, {"refused"})             -> "unavailable"
      [] OTHER                                            -> "internal"

H2Code ==
    {"PROTOCOL_ERROR", "INTERNAL_ERROR", "FLOW_CONTROL_ERROR", "SETTINGS_TIMEOUT",
     "STREAM_CLOSED", "FRAME_SIZE_ERROR", "REFUSED_STREAM", "CANCEL",
     "COMPRESSION_ERROR", "CONNECT_ERROR", "ENHANCE_YOUR_CALM",
     "INADEQUATE_SECURITY", "HTTP_1_1_REQUIRED"}

\* STREAM_CLOSED is no error by itself.
DubboErrorFromH2ResetCode(code) ==
    CASE code = "REFUSED_STREAM"    -> "unavailable"
      [] code = "CANCEL"            -> "canceled"
      [] code = "ENHANCE_YOUR_CALM" -> "resource_exhausted"
      [] code \in {"INADEQUATE_SECURITY", "HTTP_1_1_REQUIRED"} -> "permission_denied"
      [] OTHER                      -> "internal"

-----------------------------------------------------------------------------
(* Steps. *)

NoResponse ==
    [http |-> 0, where |-> "nowhere", error |-> NewError("unknown", NoMetadata),
     encoding |-> FALSE, packed |-> FALSE]

Last == path[Len(path)]

Init ==
    /\ path \in {<<hop>> : hop \in Hops}
    /\ phase = "thrown"
    /\ error \in Thrown
    /\ res = NoResponse
    /\ origin = error
    /\ faults = <<>>

Serve ==
    /\ phase = "thrown"
    /\ phase' = "sent"
    /\ res' = WriteError(Last, error)
    /\ UNCHANGED <<path, error, origin, faults>>

\* What can befall an answer on its way.
FaultKinds == {"busy", "page", "blank", "end lost", "unreachable", "broken"}

Fault(kind) ==
    /\ phase = "sent"
    /\ Len(faults) < MaxFaults
    /\ faults' = Append(faults, kind)

\* A proxy answers in place of the server with a status of its own, a good one
\* included, and with a page or without a body.
ProxyAnswer(http, where, packed) ==
    [NoResponse EXCEPT !.http = http, !.where = where, !.encoding = packed, !.packed = packed]

ProxyAnswers ==
    \E http \in {200, 204, 404, 408, 413, 429, 500, 502, 503, 504},
       where \in {"page", "nowhere"}, packed \in BOOLEAN :
        /\ CASE http \in {429, 502, 503, 504}        -> Fault("busy")
             [] http = 200 /\ where = "nowhere"      -> Fault("blank")
             [] OTHER                                -> Fault("page")
        /\ http = 204 => where = "nowhere"
        /\ where = "nowhere" => http \in {200, 204}
        /\ packed => Last.accepts /\ where = "page"
        /\ res' = ProxyAnswer(http, where, packed)
        /\ UNCHANGED <<path, phase, error, origin>>

\* HTTP trailers are dropped on the way, or the body ends before its last envelope.
EndLost ==
    /\ Fault("end lost")
    /\ res.where \in {"trailer", "end"}
    /\ res' = [res EXCEPT !.where = "nowhere"]
    /\ UNCHANGED <<path, phase, error, origin>>

\* Servers of other make send an error without messages in the headers alone.
TrailersOnly ==
    /\ phase = "sent"
    /\ Last.protocol # "triple"
    /\ res.where \in {"trailer", "end"}
    /\ res' = [res EXCEPT !.where = "header"]
    /\ UNCHANGED <<path, phase, error, origin, faults>>

\* There is no connection, or it breaks before there is a response.
ConnectionFails ==
    \E reason \in NodeReasons :
        /\ Fault(IF Somewhere(reason, {"refused"}) THEN "unreachable" ELSE "broken")
        /\ phase' = "caught"
        /\ error' = NewError(DubboErrorFromNodeReason(reason), NoMetadata)
        /\ UNCHANGED <<path, res, origin>>

StreamReset ==
    \E code \in H2Code \ {"STREAM_CLOSED"} :
        /\ Fault(IF code = "REFUSED_STREAM" THEN "unreachable" ELSE "broken")
        /\ phase' = "caught"
        /\ error' = NewError(DubboErrorFromH2ResetCode(code), NoMetadata)
        /\ UNCHANGED <<path, res, origin>>

ReceiveError ==
    /\ phase = "sent"
    /\ ~LooksSuccessful(Last, res) /\ ~Unparsable(Last, res)
    /\ phase' = "caught"
    /\ error' = ReadError(Last, res)
    /\ UNCHANGED <<path, res, origin, faults>>

ReceiveUnparsable ==
    /\ phase = "sent"
    /\ Unparsable(Last, res)
    /\ phase' = "caught"
    /\ error' \in {NewError(code, NoMetadata) : code \in ParseCodes}
    /\ UNCHANGED <<path, res, origin, faults>>

ReceiveEnd ==
    /\ phase = "sent"
    /\ LooksSuccessful(Last, res)
    /\ phase' = "succeeded"
    /\ UNCHANGED <<path, error, res, origin, faults>>

\* The client is an implementation itself, which lets the error pass.
Relay ==
    /\ phase = "caught"
    /\ Len(path) < MaxHops
    /\ \E hop \in Hops : path' = Append(path, hop)
    /\ phase' = "thrown"
    /\ res' = NoResponse
    /\ UNCHANGED <<error, origin, faults>>

Next ==
    \/ Serve \/ ProxyAnswers \/ EndLost \/ TrailersOnly
    \/ ConnectionFails \/ StreamReset
    \/ ReceiveError \/ ReceiveUnparsable \/ ReceiveEnd \/ Relay

Spec == Init /\ [][Next]_vars

-----------------------------------------------------------------------------
(* Properties. *)

Responses ==
    [http : Nat, where : {"body", "end", "trailer", "header", "page", "nowhere"},
     error : DubboErrors, encoding : BOOLEAN, packed : BOOLEAN]

TypeOK ==
    /\ path \in Seq(Hops) /\ Len(path) \in 1 .. MaxHops
    /\ phase \in {"thrown", "sent", "caught", "succeeded"}
    /\ error \in DubboErrors
    /\ res \in Responses
    /\ origin \in Thrown
    /\ faults \in Seq(FaultKinds)

Happened(kind) == \E i \in 1 .. Len(faults) : faults[i] = kind

\* The hops whose client has answered.
Passed == IF phase = "caught" THEN Len(path) ELSE Len(path) - 1

\* The first hop put a detail in JSON that its client refuses.
PlainDetailLost ==
    Passed > 0 /\ path[1].protocol = "triple" /\ origin.detail.debug = "plain"

\* The name of a compression came with the error, and a later body has it in its
\* headers without being compressed.
EncodingStale ==
    \E i, j \in 1 .. Passed :
        /\ i < j
        /\ path[i].packs
        /\ path[j].protocol = "triple" /\ path[j].unary /\ ~path[j].packs
        /\ \A k \in i .. j : path[k].protocol = "triple"

\* A failed call looks successful in two cases only, whatever protocols it passed and
\* whatever a proxy answered: a stream of gRPC whose end was lost or for which a proxy
\* answered 200 without a body, and a unary call of Triple for which a proxy did so.
\* Streams of Triple, unary calls of gRPC and all of gRPC-web always fail.
NoFalseSuccess ==
    phase = "succeeded" =>
        \/ /\ Last.protocol = "grpc" /\ ~Last.unary
           /\ Happened("end lost") \/ Happened("blank")
        \/ Last.protocol = "triple" /\ Last.unary /\ Happened("blank")

\* Left alone by the network, an error keeps its code, message and details over
\* any number of servers and any mixture of protocols, and its metadata as far as
\* these are all Triple.  The exceptions are two: a detail whose JSON is a plain
\* value, and metadata that name a compression.
ErrorSurvives ==
    faults = <<>> /\ ~PlainDetailLost /\ ~EncodingStale =>
        /\ error.code = origin.code
        /\ error.text = origin.text
        /\ FindDetails(error) = FindDetails(origin)
        /\ error.metadata.own <=>
               origin.metadata.own /\ \A k \in 1 .. Passed : path[k].protocol = "triple"

\* "unavailable" tells callers that they may try again.  No other failure of the server
\* or of the connection is turned into it, over any number of servers: it is what the
\* server said, what one of the statuses 429, 502, 503 and 504 of a proxy stands for
\* (after 502 or 504 a call may have had its effect, which the code does not tell
\* apart), or there was no connection at all.  The exception is a server out of
\* resources, whose HTTP status is 429 too.
UnavailableIsTrue ==
    error.code = "unavailable" =>
        \/ origin.code = "unavailable"
        \/ Happened("busy")
        \/ Happened("unreachable")
        \/ origin.code = "resource_exhausted" /\ PlainDetailLost

=============================================================================
