-------------------------- MODULE ErrorRelayProofs --------------------------
(***************************************************************************)
(* What ErrorRelay promises, for every number of hops and faults.          *)
(***************************************************************************)
EXTENDS ErrorRelay, TLAPS

-----------------------------------------------------------------------------
(* Operators. *)

LEMMA NewErrorType ==
    ASSUME NEW code \in Code, NEW metadata \in Metadata
    PROVE  NewError(code, metadata) \in DubboErrors
BY DEF NewError, DubboErrors, Details, NoDetail

LEMMA NoMetadataType == NoMetadata \in Metadata
BY DEF NoMetadata, Metadata

LEMMA CodesType ==
    /\ \A http : TripleCodeFromHttpStatus(http) \in Code
    /\ \A http : GrpcCodeFromHttpStatus(http) \in Code
    /\ \A code : CodeToHttpStatus(code) \in Nat \ {200}
BY DEF TripleCodeFromHttpStatus, GrpcCodeFromHttpStatus, CodeToHttpStatus, Code

LEMMA ErrorToJsonIs ==
    ASSUME NEW e \in DubboErrors
    PROVE  /\ ErrorToJson(e) \in DubboErrors
           /\ ErrorToJson(e).code = e.code
           /\ ErrorToJson(e).text = e.text
           /\ ErrorToJson(e).metadata = e.metadata
           /\ ErrorToJson(e).detail.debug = e.detail.debug
           /\ FindDetails(ErrorToJson(e)) = FindDetails(e)
<1>1. /\ e.code \in Code /\ e.text \in {"own", "other"}
      /\ e.detail \in Details /\ e.metadata \in Metadata
  BY DEF DubboErrors
<1>2. e = [code |-> e.code, text |-> e.text, detail |-> e.detail, metadata |-> e.metadata]
  BY DEF DubboErrors
<1>3. CASE e.detail.form = "message"
  <2> DEFINE d == [form |-> "incoming", debug |-> e.detail.debug]
  <2>1. ErrorToJson(e) = [code |-> e.code, text |-> e.text, detail |-> d, metadata |-> e.metadata]
    BY <1>1, <1>2, <1>3 DEF ErrorToJson, Details, DubboErrors
  <2>2. d \in Details
    BY <1>1 DEF Details
  <2> HIDE DEF d
  <2>3. d.form = "incoming" /\ d.debug = e.detail.debug
    BY DEF d
  <2>4. QED
    BY <1>1, <1>3, <2>1, <2>2, <2>3 DEF DubboErrors, FindDetails
<1>4. CASE e.detail.form # "message"
  BY <1>4 DEF ErrorToJson
<1>5. QED
  BY <1>3, <1>4

\* The fields of the response that a handler writes for an error.
LEMMA WriteErrorIs ==
    ASSUME NEW hop \in Hops, NEW e \in DubboErrors
    PROVE  /\ hop.protocol = "triple" /\ hop.unary =>
                  /\ WriteError(hop, e).http = CodeToHttpStatus(e.code)
                  /\ WriteError(hop, e).where = "body"
                  /\ WriteError(hop, e).error = ErrorToJson(e)
                  /\ WriteError(hop, e).encoding = (hop.packs \/ e.metadata.encoding)
                  /\ WriteError(hop, e).packed = hop.packs
           /\ hop.protocol = "triple" /\ ~hop.unary =>
                  /\ WriteError(hop, e).http = 200
                  /\ WriteError(hop, e).where = "end"
                  /\ WriteError(hop, e).error = ErrorToJson(e)
                  /\ WriteError(hop, e).encoding = FALSE
                  /\ WriteError(hop, e).packed = FALSE
           /\ hop.protocol # "triple" =>
                  /\ WriteError(hop, e).http = 200
                  /\ WriteError(hop, e).where \in {"trailer", "end"}
                  /\ WriteError(hop, e).error.code = e.code
                  /\ WriteError(hop, e).error.text = e.text
                  /\ FindDetails(WriteError(hop, e).error) = FindDetails(e)
                  /\ WriteError(hop, e).error.detail.debug = "none"
                  /\ WriteError(hop, e).error.metadata = NoMetadata
                  /\ WriteError(hop, e).encoding = FALSE
                  /\ WriteError(hop, e).packed = FALSE
           /\ WriteError(hop, e) \in Responses
<1>1. CASE hop.protocol = "triple" /\ hop.unary
  <2>1. WriteError(hop, e) = TripleUnaryError(hop, e)
    BY <1>1 DEF WriteError
  <2>2. hop.packs \in BOOLEAN /\ (hop.packs \/ e.metadata.encoding) \in BOOLEAN
    BY DEF Hops
  <2>3. CodeToHttpStatus(e.code) \in Nat
    BY CodesType
  <2>4. QED
    BY <1>1, <2>1, <2>2, <2>3, ErrorToJsonIs DEF TripleUnaryError, Responses
<1>2. CASE hop.protocol = "triple" /\ ~hop.unary
  <2>1. WriteError(hop, e) = EndStreamToJson(e)
    BY <1>2 DEF WriteError
  <2>2. QED
    BY <1>2, <2>1, ErrorToJsonIs DEF EndStreamToJson, Responses
<1>3. CASE hop.protocol # "triple"
  <2> DEFINE d == IF FindDetails(e) THEN [form |-> "incoming", debug |-> "none"] ELSE NoDetail
             f == [code |-> e.code, text |-> e.text, detail |-> d, metadata |-> NoMetadata]
  <2>1. WriteError(hop, e) = SetTrailerStatus(hop, e)
    BY <1>3 DEF WriteError
  <2>2. SetTrailerStatus(hop, e).error = f
    BY DEF SetTrailerStatus, DubboErrors
  <2>3. d \in Details /\ d.debug = "none" /\ (d.form # "none" <=> FindDetails(e))
    BY DEF Details, NoDetail
  <2>4. f \in DubboErrors /\ FindDetails(f) = FindDetails(e)
    <3> HIDE DEF d
    <3>1. f \in DubboErrors
      BY <2>3, NoMetadataType DEF DubboErrors
    <3>2. FindDetails(f) <=> FindDetails(e)
      BY <2>3 DEF FindDetails
    <3>3. FindDetails(f) \in BOOLEAN /\ FindDetails(e) \in BOOLEAN
      BY DEF FindDetails
    <3>4. QED
      BY <3>1, <3>2, <3>3
  <2>5. /\ SetTrailerStatus(hop, e).http = 200
        /\ SetTrailerStatus(hop, e).where \in {"trailer", "end"}
        /\ SetTrailerStatus(hop, e).encoding = FALSE
        /\ SetTrailerStatus(hop, e).packed = FALSE
    BY DEF SetTrailerStatus
  <2>6. SetTrailerStatus(hop, e) \in Responses
    <3> DEFINE w == IF hop.protocol = "grpc" THEN "trailer" ELSE "end"
    <3>1. SetTrailerStatus(hop, e) =
            [http |-> 200, where |-> w, error |-> f, encoding |-> FALSE, packed |-> FALSE]
      BY <2>2 DEF SetTrailerStatus
    <3>2. w \in {"body", "end", "trailer", "header", "page", "nowhere"}
      OBVIOUS
    <3> HIDE DEF f, d, w
    <3>3. QED
      BY <3>1, <3>2, <2>4 DEF Responses
  <2>7. QED
    <3> HIDE DEF d
    <3>1. f.code = e.code /\ f.text = e.text /\ f.detail = d /\ f.metadata = NoMetadata
      OBVIOUS
    <3> HIDE DEF f
    <3>2. QED
      BY <1>3, <2>1, <2>2, <2>3, <2>4, <2>5, <2>6, <3>1
<1>4. QED
  BY <1>1, <1>2, <1>3

LEMMA ReadErrorType ==
    ASSUME NEW hop \in Hops, NEW r \in Responses
    PROVE  ReadError(hop, r) \in DubboErrors
<1>1. ResponseMetadata(r) \in Metadata
  BY DEF ResponseMetadata, Responses, DubboErrors, Metadata
<1>2. r.error.metadata \in Metadata /\ NoMetadata \in Metadata
  BY DEF Responses, DubboErrors, Metadata, NoMetadata
<1>3. \A m \in Metadata, f \in DubboErrors : ErrorFromJson(r, m, f) \in DubboErrors
  BY DEF ErrorFromJson, Responses, DubboErrors
<1>4. \A c \in Code, m \in Metadata : NewError(c, m) \in DubboErrors
  BY NewErrorType
<1>5. "invalid_argument" \in Code /\ WrapZLibErrors("Z_DATA_ERROR") \in Code
  BY DEF Code, WrapZLibErrors
<1>6. TripleUnaryResponse(hop, r) \in DubboErrors
  BY <1>1, <1>2, <1>3, <1>4, <1>5, CodesType DEF TripleUnaryResponse
<1>7. TripleStreamResponse(r) \in DubboErrors
  BY <1>1, <1>2, <1>3, <1>4, <1>5, CodesType DEF TripleStreamResponse, EndStreamFromJson
<1>8. GrpcResponse(hop, r) \in DubboErrors
  <2>1. FindTrailerError(r) \in DubboErrors
    BY <1>1 DEF FindTrailerError, Responses, DubboErrors
  <2>2. QED
    BY <1>1, <1>2, <1>4, <1>5, <2>1, CodesType DEF GrpcResponse
<1>9. QED
  BY <1>6, <1>7, <1>8 DEF ReadError

-----------------------------------------------------------------------------
(* What a client makes of a response that was written for an error. *)

\* The client can read what it gets.
Legible(hop, e) ==
    /\ hop.protocol = "triple" => e.detail.debug # "plain"
    /\ hop.protocol = "triple" /\ hop.unary /\ ~hop.packs => ~e.metadata.encoding

IsWritten(r, hop, e) ==
    \/ r = WriteError(hop, e)
    \/ hop.protocol # "triple" /\ r = [WriteError(hop, e) EXCEPT !.where = "header"]

\* Protocols with a status of their own keep all but the metadata.
LEMMA GrpcRoundTrip ==
    ASSUME NEW hop \in Hops, NEW e \in DubboErrors, NEW r,
           IsWritten(r, hop, e), hop.protocol # "triple"
    PROVE  /\ ~LooksSuccessful(hop, r)
           /\ ReadError(hop, r).code = e.code
           /\ ReadError(hop, r).text = e.text
           /\ FindDetails(ReadError(hop, r)) = FindDetails(e)
           /\ ReadError(hop, r).detail.debug = "none"
           /\ ~ReadError(hop, r).metadata.own
           /\ ~ReadError(hop, r).metadata.encoding
<1>0. /\ r.http = 200 /\ r.where \in {"trailer", "end", "header"}
      /\ r.error.code = e.code /\ r.error.text = e.text
      /\ FindDetails(r.error) = FindDetails(e) /\ r.error.detail.debug = "none"
      /\ r.error.metadata = NoMetadata /\ r.encoding = FALSE /\ r \in Responses
  <2> DEFINE w == WriteError(hop, e)
  <2>1. /\ w.http = 200
        /\ w.where \in {"trailer", "end"}
        /\ w.error.code = e.code
        /\ w.error.text = e.text
        /\ FindDetails(w.error) = FindDetails(e)
        /\ w.error.detail.debug = "none"
        /\ w.error.metadata = NoMetadata
        /\ w.encoding = FALSE
        /\ w \in Responses
    BY WriteErrorIs
  <2>2. r = w \/ r = [w EXCEPT !.where = "header"]
    BY DEF IsWritten
  <2> HIDE DEF w
  <2>3. CASE r = w
    BY <2>1, <2>3
  <2>4. CASE r = [w EXCEPT !.where = "header"]
    <3>1. /\ r.http = w.http /\ r.where = "header" /\ r.error = w.error
          /\ r.encoding = w.encoding /\ r.packed = w.packed /\ r \in Responses
      BY <2>1, <2>4 DEF Responses
    <3>2. QED
      BY <2>1, <3>1
  <2>5. QED
    BY <2>2, <2>3, <2>4
<1>1. /\ r.http = 200 /\ r.where \in {"trailer", "end", "header"}
      /\ r.error.metadata = NoMetadata /\ r.encoding = FALSE /\ r.error \in DubboErrors
  BY <1>0 DEF Responses
<1>2. ~HttpFails(hop, r)
  BY <1>1 DEF HttpFails, GrpcValidateResponse, WebValidateResponse
<1>3. ReadError(hop, r) = FindTrailerError(r)
  BY <1>1, <1>2 DEF ReadError, GrpcResponse
<1>4. ~LooksSuccessful(hop, r)
  BY <1>1 DEF LooksSuccessful
<1>5. ~ResponseMetadata(r).own /\ ~ResponseMetadata(r).encoding
  <2>1. ~r.error.metadata.own
    BY <1>1 DEF NoMetadata
  <2>2. QED
    BY <1>1, <2>1 DEF ResponseMetadata
<1> DEFINE f == FindTrailerError(r)
<1>6. /\ f.code = r.error.code /\ f.text = r.error.text /\ f.detail = r.error.detail
      /\ f.metadata = ResponseMetadata(r)
  BY <1>1 DEF FindTrailerError, DubboErrors
<1>7. FindDetails(f) = FindDetails(r.error)
  BY <1>6 DEF FindDetails
<1> HIDE DEF f
<1>8. ReadError(hop, r) = f
  BY <1>3 DEF f
<1>9. QED
  BY <1>0, <1>4, <1>5, <1>6, <1>7, <1>8, Zenon

\* Over Triple a legible error keeps everything, and one that is not legible
\* becomes what its HTTP status, or a broken end of a stream, says.
LEMMA TripleRoundTrip ==
    ASSUME NEW hop \in Hops, NEW e \in DubboErrors, NEW r,
           IsWritten(r, hop, e), hop.protocol = "triple"
    PROVE  /\ ~LooksSuccessful(hop, r)
           /\ ReadError(hop, r).detail.debug # "plain"
           /\ ReadError(hop, r).metadata.encoding => hop.packs \/ e.metadata.encoding
           /\ ReadError(hop, r).code = "unavailable" =>
                  \/ e.code = "unavailable"
                  \/ e.code = "resource_exhausted" /\ e.detail.debug = "plain"
           /\ Legible(hop, e) =>
                  /\ ReadError(hop, r).code = e.code
                  /\ ReadError(hop, r).text = e.text
                  /\ FindDetails(ReadError(hop, r)) = FindDetails(e)
                  /\ ReadError(hop, r).metadata.own <=> e.metadata.own
<1> DEFINE g == ErrorToJson(e)
<1>1. r = WriteError(hop, e)
  BY DEF IsWritten
<1>2. /\ g \in DubboErrors /\ g.code = e.code /\ g.text = e.text /\ g.metadata = e.metadata
      /\ g.detail.debug = e.detail.debug /\ FindDetails(g) = FindDetails(e)
  BY ErrorToJsonIs
<1>3. e.code \in Code /\ e.metadata \in Metadata /\ e.metadata.own \in BOOLEAN /\ e.metadata.encoding \in BOOLEAN
  BY DEF DubboErrors, Metadata
<1>4. NoDetail.debug # "plain"
  BY DEF NoDetail
<1>5. \A c, m : NewError(c, m).code = c /\ NewError(c, m).metadata = m /\ NewError(c, m).detail.debug # "plain"
  BY <1>4 DEF NewError
<1>6. CASE hop.unary
  <2>1. /\ r.http = CodeToHttpStatus(e.code) /\ r.where = "body" /\ r.error = g
        /\ r.encoding = (hop.packs \/ e.metadata.encoding) /\ r.packed = hop.packs
    BY <1>1, <1>6, WriteErrorIs
  <2> HIDE DEF g
  <2>2. ~LooksSuccessful(hop, r)
    BY <1>6, <2>1, CodesType DEF LooksSuccessful
  <2>3. ReadError(hop, r) = TripleUnaryResponse(hop, r)
    BY <1>6 DEF ReadError
  <2>4. /\ ResponseMetadata(r).own <=> e.metadata.own
        /\ ResponseMetadata(r).encoding <=> hop.packs \/ e.metadata.encoding
    BY <2>1, <1>2, <1>3 DEF ResponseMetadata
  <2>5. CASE ResponseEncodingRefused(hop, r)
    <3>1. TripleUnaryResponse(hop, r) = NewError("invalid_argument", ResponseMetadata(r))
      BY <2>5 DEF TripleUnaryResponse
    <3>2. ~Legible(hop, e)
      BY <1>6, <2>1, <2>5 DEF Legible, ResponseEncodingRefused, Hops
    <3>3. QED
      BY <1>5, <2>2, <2>3, <2>4, <3>1, <3>2
  <2>6. CASE ~ResponseEncodingRefused(hop, r) /\ DecompressFails(r)
    <3>1. TripleUnaryResponse(hop, r) = NewError(WrapZLibErrors("Z_DATA_ERROR"), NoMetadata)
      BY <2>6 DEF TripleUnaryResponse
    <3>2. ~Legible(hop, e)
      BY <1>6, <2>1, <2>6 DEF Legible, DecompressFails
    <3>3. WrapZLibErrors("Z_DATA_ERROR") # "unavailable" /\ ~NoMetadata.encoding
      BY DEF WrapZLibErrors, NoMetadata
    <3>4. QED
      BY <1>5, <2>2, <2>3, <3>1, <3>2, <3>3
  <2>7. CASE ~ResponseEncodingRefused(hop, r) /\ ~DecompressFails(r)
    <3> DEFINE t == NewError(TripleCodeFromHttpStatus(r.http), ResponseMetadata(r))
    <3>1. TripleUnaryResponse(hop, r) = ErrorFromJson(r, ResponseMetadata(r), t)
      BY <2>7 DEF TripleUnaryResponse
    <3>2. CASE Readable(r)
      <4> DEFINE f == [g EXCEPT !.metadata = ResponseMetadata(r)]
      <4>1. TripleUnaryResponse(hop, r) = f
        BY <2>1, <3>1, <3>2 DEF ErrorFromJson
      <4>2. /\ f.code = g.code /\ f.text = g.text /\ f.detail = g.detail
            /\ f.metadata = ResponseMetadata(r)
        BY <1>2 DEF DubboErrors
      <4>3. FindDetails(f) = FindDetails(g)
        BY <4>2 DEF FindDetails
      <4>4. f.detail.debug # "plain"
        BY <2>1, <3>2, <4>2 DEF Readable
      <4> HIDE DEF f
      <4>5. QED
        BY <1>2, <2>2, <2>3, <2>4, <4>1, <4>2, <4>3, <4>4
    <3>3. CASE ~Readable(r)
      <4>1. TripleUnaryResponse(hop, r) = t
        BY <3>1, <3>3 DEF ErrorFromJson
      <4>2. e.detail.debug = "plain"
        BY <1>2, <2>1, <3>3 DEF Readable
      <4>3. ~Legible(hop, e)
        BY <4>2 DEF Legible
      <4>4. TripleCodeFromHttpStatus(r.http) = "unavailable" =>
              e.code \in {"unavailable", "resource_exhausted"}
        BY <1>3, <2>1 DEF TripleCodeFromHttpStatus, CodeToHttpStatus, Code
      <4>5. QED
        BY <1>5, <2>2, <2>3, <2>4, <4>1, <4>2, <4>3, <4>4
    <3>4. QED
      BY <3>2, <3>3
  <2>8. QED
    BY <2>5, <2>6, <2>7
<1>7. CASE ~hop.unary
  <2>1. /\ r.http = 200 /\ r.where = "end" /\ r.error = g /\ r.encoding = FALSE
    BY <1>1, <1>7, WriteErrorIs
  <2> HIDE DEF g
  <2>2. ~LooksSuccessful(hop, r)
    BY <1>7, <2>1 DEF LooksSuccessful
  <2> DEFINE t == NewError("invalid_argument", NoMetadata)
  <2>3. ReadError(hop, r) = ErrorFromJson(r, r.error.metadata, t)
    BY <1>7, <2>1 DEF ReadError, TripleStreamResponse, EndStreamFromJson
  <2>4. CASE Readable(r)
    <3> DEFINE f == [g EXCEPT !.metadata = e.metadata]
    <3>1. ReadError(hop, r) = f
      BY <1>2, <2>1, <2>3, <2>4 DEF ErrorFromJson
    <3>2. /\ f.code = g.code /\ f.text = g.text /\ f.detail = g.detail
          /\ f.metadata = e.metadata
      BY <1>2 DEF DubboErrors
    <3>3. FindDetails(f) = FindDetails(g)
      BY <3>2 DEF FindDetails
    <3>4. f.detail.debug # "plain"
      BY <2>1, <2>4, <3>2 DEF Readable
    <3> HIDE DEF f
    <3>5. QED
      BY <1>2, <2>2, <3>1, <3>2, <3>3, <3>4
  <2>5. CASE ~Readable(r)
    <3>1. ReadError(hop, r) = t
      BY <2>3, <2>5 DEF ErrorFromJson
    <3>2. e.detail.debug = "plain"
      BY <1>2, <2>1, <2>5 DEF Readable
    <3>3. ~Legible(hop, e) /\ ~NoMetadata.encoding
      BY <3>2 DEF Legible, NoMetadata
    <3>4. QED
      BY <1>5, <2>2, <3>1, <3>2, <3>3
  <2>6. QED
    BY <2>4, <2>5
<1>8. QED
  BY <1>6, <1>7

-----------------------------------------------------------------------------
(* The inductive invariant. *)

\* What a client reads is what the handler wrote, in trailers or in headers, what
\* is left of it, or what a proxy says.
Cut ==
    /\ Happened("end lost")
    /\ res.where = "nowhere" /\ res.http = 200
    /\ ~(Last.protocol = "triple" /\ Last.unary)

Page ==
    /\ faults # <<>>
    /\ res.where = "page"
    /\ res.http \notin 201 .. 299
    /\ res.http \in {429, 502, 503, 504} => Happened("busy")

Blank ==
    /\ faults # <<>>
    /\ res.where = "nowhere"
    /\ res.http = 204 \/ (res.http = 200 /\ Happened("blank"))

SentInv == phase = "sent" => IsWritten(res, Last, error) \/ Cut \/ Page \/ Blank

\* The name of a compression in the metadata of an error has its cause on the path.
EncodingTraced ==
    error.metadata.encoding =>
        \E i \in 1 .. Passed :
            path[i].packs /\ \A k \in i .. Passed : path[k].protocol = "triple"

History ==
    /\ Passed = 0 => error = origin
    /\ Passed > 0 => error.detail.debug # "plain"
    /\ faults = <<>> => EncodingTraced

IInv ==
    /\ TypeOK /\ SentInv /\ History
    /\ NoFalseSuccess /\ ErrorSurvives /\ UnavailableIsTrue

LEMMA LastType == TypeOK => Last \in Hops /\ Len(path) \in Nat \ {0} /\ Passed \in Nat
<1> SUFFICES ASSUME TypeOK PROVE Last \in Hops /\ Len(path) \in Nat \ {0} /\ Passed \in Nat
  OBVIOUS
<1>1. path \in Seq(Hops) /\ Len(path) \in Nat \ {0}
  <2>1. path \in Seq(Hops) /\ Len(path) \in 1 .. MaxHops
    BY DEF TypeOK
  <2>2. MaxHops \in Nat
    BY BoundsAssumption
  <2>3. QED
    BY <2>1, <2>2
<1>2. path[Len(path)] \in Hops
  BY <1>1
<1>3. QED
  BY <1>1, <1>2 DEF Last, Passed

LEMMA InitIInv == Init => IInv
<1> SUFFICES ASSUME Init PROVE IInv
  OBVIOUS
<1>1. PICK hop \in Hops : path = <<hop>>
  BY DEF Init
<1>2. path \in Seq(Hops) /\ Len(path) = 1 /\ Len(path) \in 1 .. MaxHops
  BY <1>1, BoundsAssumption
<1>3. phase = "thrown" /\ error \in Thrown /\ origin = error /\ faults = <<>> /\ res = NoResponse
  BY DEF Init
<1>4. "internal" \in Code /\ "unknown" \in Code
  BY DEF Code
<1>5. NewError("internal", NoMetadata) \in DubboErrors /\ NewError("unknown", NoMetadata) \in DubboErrors
  BY <1>4, NewErrorType, NoMetadataType
<1>6. error \in DubboErrors /\ ~error.metadata.encoding
  <2> DEFINE own == [code : ThrownCodes, text : {"own"},
                     detail : {NoDetail} \cup [form : {"message"}, debug : {"none", "object", "plain"}],
                     metadata : [own : BOOLEAN, encoding : {FALSE}]]
  <2>1. CASE error \in own
    <3>1. NoDetail \in Details
      BY DEF NoDetail, Details
    <3>2. [form : {"message"}, debug : {"none", "object", "plain"}] \subseteq Details
      BY DEF Details
    <3>3. [own : BOOLEAN, encoding : {FALSE}] \subseteq Metadata
      BY DEF Metadata
    <3>4. error \in DubboErrors
      BY <2>1, <3>1, <3>2, <3>3, BoundsAssumption DEF DubboErrors
    <3>5. error.metadata \in [own : BOOLEAN, encoding : {FALSE}]
      BY <2>1
    <3>6. QED
      BY <3>4, <3>5
  <2>2. CASE error = NewError("internal", NoMetadata)
    BY <1>5, <2>2 DEF NewError, NoMetadata
  <2>3. QED
    BY <1>3, <2>1, <2>2 DEF Thrown
<1>7. res \in Responses
  BY <1>3, <1>5 DEF NoResponse, Responses
<1>8. TypeOK
  BY <1>2, <1>3, <1>6, <1>7 DEF TypeOK
<1>9. Passed = 0
  BY <1>2, <1>3 DEF Passed
<1>10. ~error.metadata.encoding
  BY <1>6
<1>11. History
  BY <1>3, <1>9, <1>10 DEF History, EncodingTraced
<1>12. ErrorSurvives
  <2>1. error.metadata.own <=> origin.metadata.own /\ \A k \in 1 .. Passed : path[k].protocol = "triple"
    BY <1>3, <1>9
  <2>2. QED
    BY <1>3, <2>1 DEF ErrorSurvives
<1>13. UnavailableIsTrue /\ NoFalseSuccess /\ SentInv
  BY <1>3 DEF UnavailableIsTrue, NoFalseSuccess, SentInv
<1>14. QED
  BY <1>8, <1>11, <1>12, <1>13 DEF IInv

\* A step that leaves the error and its way so far alone.
LEMMA Kept ==
    ASSUME TypeOK, History, ErrorSurvives, UnavailableIsTrue,
           error' = error, origin' = origin, faults' = faults, Passed' = Passed,
           \A k \in 1 .. Passed : path'[k] = path[k]
    PROVE  History' /\ ErrorSurvives' /\ UnavailableIsTrue'
<1>1. Passed \in Nat
  BY LastType
<1>2. EncodingTraced' <=> EncodingTraced
  BY <1>1 DEF EncodingTraced
<1>3. History'
  BY <1>2 DEF History
<1>4. PlainDetailLost' <=> PlainDetailLost
  BY <1>1 DEF PlainDetailLost
<1>5. EncodingStale' <=> EncodingStale
  BY <1>1 DEF EncodingStale
<1>6. (\A k \in 1 .. Passed : path[k].protocol = "triple")' <=> \A k \in 1 .. Passed : path[k].protocol = "triple"
  BY <1>1
<1>7. ErrorSurvives'
  BY <1>4, <1>5, <1>6 DEF ErrorSurvives
<1>8. UnavailableIsTrue'
  BY <1>4 DEF UnavailableIsTrue, Happened
<1>9. QED
  BY <1>3, <1>7, <1>8

LEMMA AppendIs ==
    ASSUME NEW S, NEW s \in Seq(S), NEW x \in S
    PROVE  /\ Append(s, x) \in Seq(S)
           /\ Len(s) \in Nat
           /\ Len(Append(s, x)) = Len(s) + 1
           /\ Append(s, x)[Len(s) + 1] = x
           /\ \A i \in 1 .. Len(s) : Append(s, x)[i] = s[i]
OBVIOUS

\* What one more fault does to the record of faults.
LEMMA Recorded ==
    ASSUME faults \in Seq(FaultKinds), NEW kind \in FaultKinds,
           faults' = Append(faults, kind)
    PROVE  /\ faults' \in Seq(FaultKinds)
           /\ faults' # <<>>
           /\ Happened(kind)'
           /\ Happened("busy") => Happened("busy")'
           /\ Happened("blank") => Happened("blank")'
           /\ Happened("end lost") => Happened("end lost")'
           /\ Happened("unreachable") => Happened("unreachable")'
<1>1. /\ faults' \in Seq(FaultKinds) /\ Len(faults') = Len(faults) + 1 /\ Len(faults) \in Nat
      /\ faults'[Len(faults) + 1] = kind
      /\ \A i \in 1 .. Len(faults) : faults'[i] = faults[i]
  OBVIOUS
<1>2. faults' # <<>>
  BY <1>1
<1>3. Happened(kind)'
  BY <1>1 DEF Happened
<1>4. /\ Happened("busy") => Happened("busy")'
      /\ Happened("blank") => Happened("blank")'
      /\ Happened("end lost") => Happened("end lost")'
      /\ Happened("unreachable") => Happened("unreachable")'
  <2>1. ASSUME NEW other, Happened(other) PROVE Happened(other)'
    <3>1. PICK i \in 1 .. Len(faults) : faults[i] = other
      BY <2>1 DEF Happened
    <3>2. i \in 1 .. Len(faults') /\ faults'[i] = other
      BY <1>1, <3>1
    <3>3. QED
      BY <3>2 DEF Happened
  <2>2. QED
    BY <2>1
<1>5. QED
  BY <1>1, <1>2, <1>3, <1>4

\* A step that only adds a fault.
LEMMA Disturbed ==
    ASSUME TypeOK, History, UnavailableIsTrue, NEW kind \in FaultKinds,
           faults' = Append(faults, kind), UNCHANGED <<path, phase, error, origin>>
    PROVE  History' /\ ErrorSurvives' /\ UnavailableIsTrue'
<1>1. faults \in Seq(FaultKinds)
  BY DEF TypeOK
<1>2. /\ faults' # <<>>
      /\ Happened("busy") => Happened("busy")'
      /\ Happened("unreachable") => Happened("unreachable")'
  BY <1>1, Recorded
<1>3. Passed' = Passed /\ (PlainDetailLost' <=> PlainDetailLost)
  BY DEF Passed, PlainDetailLost
<1>4. History'
  BY <1>2, <1>3 DEF History
<1>5. ErrorSurvives'
  BY <1>2 DEF ErrorSurvives
<1>6. UnavailableIsTrue'
  BY <1>2, <1>3 DEF UnavailableIsTrue
<1>7. QED
  BY <1>4, <1>5, <1>6

-----------------------------------------------------------------------------
(* One lemma for each action. *)

LEMMA ServeStep == IInv /\ Serve => IInv'
<1> SUFFICES ASSUME IInv, Serve PROVE IInv'
  OBVIOUS
<1>1. TypeOK /\ History /\ ErrorSurvives /\ UnavailableIsTrue
  BY DEF IInv
<1>2. Last \in Hops /\ Passed \in Nat /\ error \in DubboErrors
  BY <1>1, LastType DEF TypeOK
<1>3. /\ res' = WriteError(Last, error) /\ phase = "thrown" /\ phase' = "sent"
      /\ UNCHANGED <<path, error, origin, faults>>
  BY DEF Serve
<1>4. res' \in Responses
  BY <1>2, <1>3, WriteErrorIs
<1>5. TypeOK'
  BY <1>1, <1>3, <1>4 DEF TypeOK
<1>6. Passed' = Passed
  BY <1>3 DEF Passed
<1>7. History' /\ ErrorSurvives' /\ UnavailableIsTrue'
  BY <1>1, <1>3, <1>6, Kept
<1>8. SentInv'
  BY <1>3 DEF SentInv, IsWritten, Last
<1>9. NoFalseSuccess'
  BY <1>3 DEF NoFalseSuccess
<1>10. QED
  BY <1>5, <1>7, <1>8, <1>9 DEF IInv

LEMMA ProxyAnswerStep ==
    ASSUME IInv, NEW http \in Nat, NEW where \in {"page", "nowhere"},
           NEW packed \in BOOLEAN, NEW kind \in FaultKinds,
           http \in {429, 502, 503, 504} => kind = "busy",
           where = "nowhere" => http = 204 \/ (http = 200 /\ kind = "blank"),
           where = "page" => http \notin 201 .. 299,
           Fault(kind),
           res' = ProxyAnswer(http, where, packed),
           UNCHANGED <<path, phase, error, origin>>
    PROVE  IInv'
<1>1. TypeOK /\ History /\ ErrorSurvives /\ UnavailableIsTrue /\ faults \in Seq(FaultKinds)
  <2>1. TypeOK /\ History /\ ErrorSurvives /\ UnavailableIsTrue
    BY Zenon DEF IInv
  <2>2. QED
    BY <2>1 DEF TypeOK
<1>2. faults' = Append(faults, kind) /\ phase = "sent"
  BY DEF Fault
<1>3. History' /\ ErrorSurvives' /\ UnavailableIsTrue'
  BY <1>1, <1>2, Disturbed
<1>4. faults' \in Seq(FaultKinds) /\ faults' # <<>> /\ Happened(kind)'
  BY <1>1, <1>2, Recorded
<1>5. res'.http = http /\ res'.where = where /\ res' \in Responses
  <2>1. NewError("unknown", NoMetadata) \in DubboErrors
    BY NewErrorType, NoMetadataType DEF Code
  <2>2. NoResponse \in Responses
    BY <2>1 DEF NoResponse, Responses
  <2>3. QED
    BY <2>2 DEF ProxyAnswer, Responses
<1>6. TypeOK'
  BY <1>1, <1>2, <1>4, <1>5 DEF TypeOK
<1>7. Page' \/ Blank'
  BY <1>4, <1>5 DEF Page, Blank
<1>8. SentInv'
  BY <1>7 DEF SentInv
<1>9. NoFalseSuccess'
  BY <1>2 DEF NoFalseSuccess
<1>10. QED
  BY <1>3, <1>6, <1>8, <1>9 DEF IInv

LEMMA ProxyAnswersStep == IInv /\ ProxyAnswers => IInv'
<1> SUFFICES ASSUME IInv, ProxyAnswers PROVE IInv'
  OBVIOUS
<1>1. PICK http \in {200, 204, 404, 408, 413, 429, 500, 502, 503, 504},
           where \in {"page", "nowhere"}, packed \in BOOLEAN :
        /\ CASE http \in {429, 502, 503, 504}        -> Fault("busy")
             [] http = 200 /\ where = "nowhere"      -> Fault("blank")
             [] OTHER                                -> Fault("page")
        /\ http = 204 => where = "nowhere"
        /\ where = "nowhere" => http \in {200, 204}
        /\ res' = ProxyAnswer(http, where, packed)
        /\ UNCHANGED <<path, phase, error, origin>>
  BY DEF ProxyAnswers
<1>2. http \in Nat /\ (where = "page" => http \notin 201 .. 299)
  BY <1>1
<1>3. \E kind \in FaultKinds :
        /\ Fault(kind)
        /\ http \in {429, 502, 503, 504} => kind = "busy"
        /\ where = "nowhere" => http = 204 \/ (http = 200 /\ kind = "blank")
  <2>1. {"busy", "blank", "page"} \subseteq FaultKinds
    BY DEF FaultKinds
  <2>2. CASE http \in {429, 502, 503, 504}
    BY <1>1, <2>1, <2>2
  <2>3. CASE http = 200 /\ where = "nowhere"
    BY <1>1, <2>1, <2>3
  <2>4. CASE http \notin {429, 502, 503, 504} /\ ~(http = 200 /\ where = "nowhere")
    BY <1>1, <2>1, <2>4
  <2>5. QED
    BY <2>2, <2>3, <2>4
<1>4. QED
  BY <1>1, <1>2, <1>3, ProxyAnswerStep

LEMMA EndLostStep == IInv /\ EndLost => IInv'
<1> SUFFICES ASSUME IInv, EndLost PROVE IInv'
  OBVIOUS
<1>1. TypeOK /\ History /\ ErrorSurvives /\ UnavailableIsTrue /\ faults \in Seq(FaultKinds)
      /\ res \in Responses /\ error \in DubboErrors /\ Last \in Hops /\ SentInv
  BY LastType DEF IInv, TypeOK, FaultKinds
<1>2. /\ faults' = Append(faults, "end lost") /\ phase = "sent" /\ res.where \in {"trailer", "end"}
      /\ res' = [res EXCEPT !.where = "nowhere"]
      /\ UNCHANGED <<path, phase, error, origin>>
  BY DEF EndLost, Fault
<1>3. "end lost" \in FaultKinds
  BY DEF FaultKinds
<1>4. History' /\ ErrorSurvives' /\ UnavailableIsTrue'
  BY <1>1, <1>2, <1>3, Disturbed
<1>5. faults' \in Seq(FaultKinds) /\ Happened("end lost")'
  BY <1>1, <1>2, <1>3, Recorded
<1>6. res'.where = "nowhere" /\ res'.http = res.http /\ res' \in Responses
  BY <1>1, <1>2 DEF Responses
<1>7. TypeOK'
  BY <1>1, <1>2, <1>5, <1>6 DEF TypeOK
<1>8. res.http = 200 /\ ~(Last.protocol = "triple" /\ Last.unary)
  <2>1. IsWritten(res, Last, error)
    BY <1>1, <1>2 DEF SentInv, Cut, Page, Blank
  <2>2. res = WriteError(Last, error)
    <3>1. WriteError(Last, error) \in Responses
      BY <1>1, WriteErrorIs
    <3>2. [WriteError(Last, error) EXCEPT !.where = "header"].where = "header"
      BY <3>1 DEF Responses
    <3>3. QED
      BY <1>2, <2>1, <3>2 DEF IsWritten
  <2>3. QED
    BY <1>1, <1>2, <2>2, WriteErrorIs
<1>9. SentInv'
  <2>1. Cut'
    BY <1>2, <1>5, <1>6, <1>8 DEF Cut, Last
  <2>2. QED
    BY <2>1 DEF SentInv
<1>10. NoFalseSuccess'
  BY <1>2 DEF NoFalseSuccess
<1>11. QED
  BY <1>4, <1>7, <1>9, <1>10 DEF IInv

LEMMA TrailersOnlyStep == IInv /\ TrailersOnly => IInv'
<1> SUFFICES ASSUME IInv, TrailersOnly PROVE IInv'
  OBVIOUS
<1>1. TypeOK /\ History /\ ErrorSurvives /\ UnavailableIsTrue
      /\ res \in Responses /\ error \in DubboErrors /\ Last \in Hops /\ Passed \in Nat /\ SentInv
  BY LastType DEF IInv, TypeOK
<1>2. /\ phase = "sent" /\ Last.protocol # "triple" /\ res.where \in {"trailer", "end"}
      /\ res' = [res EXCEPT !.where = "header"]
      /\ UNCHANGED <<path, phase, error, origin, faults>>
  BY DEF TrailersOnly
<1>3. res' \in Responses
  BY <1>1, <1>2 DEF Responses
<1>4. TypeOK'
  BY <1>1, <1>2, <1>3 DEF TypeOK
<1>5. Passed' = Passed
  BY <1>2 DEF Passed
<1>6. History' /\ ErrorSurvives' /\ UnavailableIsTrue'
  BY <1>1, <1>2, <1>5, Kept
<1>7. SentInv'
  <2>1. IsWritten(res, Last, error)
    BY <1>1, <1>2 DEF SentInv, Cut, Page, Blank
  <2>2. res = WriteError(Last, error)
    <3>1. WriteError(Last, error) \in Responses
      BY <1>1, WriteErrorIs
    <3>2. [WriteError(Last, error) EXCEPT !.where = "header"].where = "header"
      BY <3>1 DEF Responses
    <3>3. QED
      BY <1>2, <2>1, <3>2 DEF IsWritten
  <2>3. QED
    BY <1>2, <2>2 DEF SentInv, IsWritten, Last
<1>8. NoFalseSuccess'
  BY <1>2 DEF NoFalseSuccess
<1>9. QED
  BY <1>4, <1>6, <1>7, <1>8 DEF IInv

\* The client has an error without a response.
LEMMA NoAnswerStep ==
    ASSUME IInv, phase = "sent", NEW kind \in FaultKinds, NEW code \in Code,
           code = "unavailable" => kind = "unreachable",
           faults' = Append(faults, kind), phase' = "caught",
           error' = NewError(code, NoMetadata), UNCHANGED <<path, res, origin>>
    PROVE  IInv'
<1>1. TypeOK /\ faults \in Seq(FaultKinds)
  BY DEF IInv, TypeOK
<1>2. faults' \in Seq(FaultKinds) /\ faults' # <<>> /\ Happened(kind)'
  BY <1>1, Recorded
<1>3. error' \in DubboErrors
  BY NewErrorType, NoMetadataType
<1>4. TypeOK'
  BY <1>1, <1>2, <1>3 DEF TypeOK
<1>5. Passed' # 0
  BY <1>1, LastType DEF Passed
<1>6. error'.code = code /\ error'.detail.debug # "plain"
  BY DEF NewError, NoDetail
<1>7. History'
  BY <1>2, <1>5, <1>6 DEF History
<1>8. ErrorSurvives'
  BY <1>2 DEF ErrorSurvives
<1>9. UnavailableIsTrue'
  BY <1>2, <1>6 DEF UnavailableIsTrue
<1>10. SentInv' /\ NoFalseSuccess'
  BY DEF SentInv, NoFalseSuccess
<1>11. QED
  BY <1>4, <1>7, <1>8, <1>9, <1>10 DEF IInv

LEMMA ConnectionFailsStep == IInv /\ ConnectionFails => IInv'
<1> SUFFICES ASSUME IInv, ConnectionFails PROVE IInv'
  OBVIOUS
<1>1. PICK reason \in NodeReasons :
        /\ Fault(IF Somewhere(reason, {"refused"}) THEN "unreachable" ELSE "broken")
        /\ phase' = "caught"
        /\ error' = NewError(DubboErrorFromNodeReason(reason), NoMetadata)
        /\ UNCHANGED <<path, res, origin>>
  BY DEF ConnectionFails
<1> DEFINE kind == IF Somewhere(reason, {"refused"}) THEN "unreachable" ELSE "broken"
           code == DubboErrorFromNodeReason(reason)
<1>2. kind \in FaultKinds
  BY DEF FaultKinds
<1>3. code \in Code /\ (code = "unavailable" => kind = "unreachable")
  BY DEF DubboErrorFromNodeReason, Code
<1>4. phase = "sent" /\ faults' = Append(faults, kind)
  BY <1>1 DEF Fault
<1> HIDE DEF kind
<1>5. error' = NewError(code, NoMetadata) /\ phase' = "caught" /\ UNCHANGED <<path, res, origin>>
  BY <1>1
<1> HIDE DEF code
<1>6. QED
  BY <1>2, <1>3, <1>4, <1>5, NoAnswerStep

LEMMA StreamResetStep == IInv /\ StreamReset => IInv'
<1> SUFFICES ASSUME IInv, StreamReset PROVE IInv'
  OBVIOUS
<1>1. PICK reset \in H2Code \ {"STREAM_CLOSED"} :
        /\ Fault(IF reset = "REFUSED_STREAM" THEN "unreachable" ELSE "broken")
        /\ phase' = "caught"
        /\ error' = NewError(DubboErrorFromH2ResetCode(reset), NoMetadata)
        /\ UNCHANGED <<path, res, origin>>
  BY DEF StreamReset
<1> DEFINE kind == IF reset = "REFUSED_STREAM" THEN "unreachable" ELSE "broken"
           code == DubboErrorFromH2ResetCode(reset)
<1>2. kind \in FaultKinds
  BY DEF FaultKinds
<1>3. code \in Code /\ (code = "unavailable" => kind = "unreachable")
  BY DEF DubboErrorFromH2ResetCode, Code
<1>4. phase = "sent" /\ faults' = Append(faults, kind)
  BY <1>1 DEF Fault
<1> HIDE DEF kind
<1>5. error' = NewError(code, NoMetadata) /\ phase' = "caught" /\ UNCHANGED <<path, res, origin>>
  BY <1>1
<1> HIDE DEF code
<1>6. QED
  BY <1>2, <1>3, <1>4, <1>5, NoAnswerStep

LEMMA ReceiveEndStep == IInv /\ ReceiveEnd => IInv'
<1> SUFFICES ASSUME IInv, ReceiveEnd PROVE IInv'
  OBVIOUS
<1>1. TypeOK /\ History /\ ErrorSurvives /\ UnavailableIsTrue
      /\ error \in DubboErrors /\ Last \in Hops /\ Passed \in Nat /\ SentInv
  BY LastType DEF IInv, TypeOK
<1>2. /\ phase = "sent" /\ LooksSuccessful(Last, res) /\ phase' = "succeeded"
      /\ UNCHANGED <<path, error, res, origin, faults>>
  BY DEF ReceiveEnd
<1>3. TypeOK'
  BY <1>1, <1>2 DEF TypeOK
<1>4. Passed' = Passed
  BY <1>2 DEF Passed
<1>5. History' /\ ErrorSurvives' /\ UnavailableIsTrue'
  BY <1>1, <1>2, <1>4, Kept
<1>6. ~IsWritten(res, Last, error)
  <2>1. CASE Last.protocol = "triple"
    BY <1>1, <1>2, <2>1, TripleRoundTrip
  <2>2. CASE Last.protocol # "triple"
    BY <1>1, <1>2, <2>2, GrpcRoundTrip
  <2>3. QED
    BY <2>1, <2>2
<1>7. \/ Happened("end lost") /\ ~(Last.protocol = "triple" /\ Last.unary)
      \/ Happened("blank")
  <2>1. ~Page /\ (Blank => Happened("blank"))
    BY <1>2 DEF Page, Blank, LooksSuccessful
  <2>2. QED
    BY <1>1, <1>2, <1>6, <2>1 DEF SentInv, Cut
<1>8. \/ /\ Last.protocol = "grpc" /\ ~Last.unary
         /\ Happened("end lost") \/ Happened("blank")
      \/ Last.protocol = "triple" /\ Last.unary /\ Happened("blank")
  BY <1>2, <1>7 DEF LooksSuccessful
<1>9. /\ Last' = Last
      /\ Happened("end lost") => Happened("end lost")'
      /\ Happened("blank") => Happened("blank")'
  BY <1>2 DEF Last, Happened
<1>10. NoFalseSuccess' /\ SentInv'
  <2>1. SentInv'
    BY <1>2 DEF SentInv
  <2>2. NoFalseSuccess'
    BY <1>8, <1>9, Zenon DEF NoFalseSuccess
  <2>3. QED
    BY <2>1, <2>2
<1>11. QED
  BY <1>3, <1>5, <1>10 DEF IInv

LEMMA RelayStep == IInv /\ Relay => IInv'
<1> SUFFICES ASSUME IInv, Relay PROVE IInv'
  OBVIOUS
<1>1. TypeOK /\ History /\ ErrorSurvives /\ UnavailableIsTrue
      /\ path \in Seq(Hops) /\ Len(path) \in Nat \ {0} /\ res \in Responses
  BY LastType DEF IInv, TypeOK
<1>2. PICK hop \in Hops : path' = Append(path, hop)
  BY DEF Relay
<1>3. /\ phase = "caught" /\ phase' = "thrown" /\ res' = NoResponse /\ Len(path) < MaxHops
      /\ UNCHANGED <<error, origin, faults>>
  BY DEF Relay
<1>4. /\ path' \in Seq(Hops) /\ Len(path') = Len(path) + 1
      /\ \A k \in 1 .. Len(path) : path'[k] = path[k]
  BY <1>1, <1>2
<1>5. Passed = Len(path) /\ Passed' = Passed
  BY <1>1, <1>3, <1>4 DEF Passed
<1>6. History' /\ ErrorSurvives' /\ UnavailableIsTrue'
  BY <1>1, <1>3, <1>4, <1>5, Kept
<1>7. res' \in Responses
  <2>1. NewError("unknown", NoMetadata) \in DubboErrors
    BY NewErrorType, NoMetadataType DEF Code
  <2>2. QED
    BY <1>3, <2>1 DEF NoResponse, Responses
<1>8. Len(path') \in 1 .. MaxHops
  <2>1. MaxHops \in Nat
    BY BoundsAssumption
  <2>2. QED
    BY <1>1, <1>3, <1>4, <2>1
<1>9. TypeOK'
  BY <1>1, <1>3, <1>4, <1>7, <1>8 DEF TypeOK
<1>10. SentInv' /\ NoFalseSuccess'
  BY <1>3 DEF SentInv, NoFalseSuccess
<1>11. QED
  BY <1>6, <1>9, <1>10 DEF IInv

\* What a handler wrote can be parsed, and what cannot be parsed was never written.
LEMMA WrittenIsParsable ==
    ASSUME TypeOK, IsWritten(res, Last, error)
    PROVE  ~Unparsable(Last, res)
<1> DEFINE w == WriteError(Last, error)
<1>1. Last \in Hops /\ error \in DubboErrors
  BY LastType DEF TypeOK
<1>2. w \in Responses /\ w.where \in {"body", "end", "trailer"}
  BY <1>1, WriteErrorIs
<1>3. res = w \/ res = [w EXCEPT !.where = "header"]
  BY DEF IsWritten
<1> HIDE DEF w
<1>4. res.where \in {"body", "end", "trailer", "header"}
  BY <1>2, <1>3 DEF Responses
<1>5. QED
  BY <1>4 DEF Unparsable

\* Of a page, or of what has no end or no body, nothing is left but a code.
LEMMA LostIsRead ==
    ASSUME TypeOK, Cut \/ Page \/ Blank
    PROVE  /\ faults # <<>>
           /\ ~Unparsable(Last, res) =>
                  /\ ReadError(Last, res).detail.debug # "plain"
                  /\ ReadError(Last, res).code = "unavailable" => Happened("busy")
<1>1. Last \in Hops /\ faults \in Seq(FaultKinds)
  BY LastType DEF TypeOK
<1>2. faults # <<>>
  <2>1. CASE Cut
    <3>1. \E i \in 1 .. Len(faults) : TRUE
      BY <2>1 DEF Cut, Happened
    <3>2. Len(<<>>) = 0
      OBVIOUS
    <3>3. QED
      BY <3>1, <3>2
  <2>2. CASE Page \/ Blank
    BY <2>2 DEF Page, Blank
  <2>3. QED
    BY <2>1, <2>2
<1>3. \A c, m : NewError(c, m).code = c /\ NewError(c, m).detail.debug # "plain"
  BY DEF NewError, NoDetail
<1> SUFFICES ASSUME ~Unparsable(Last, res)
             PROVE  /\ ReadError(Last, res).detail.debug # "plain"
                    /\ ReadError(Last, res).code = "unavailable" => Happened("busy")
  BY <1>2
<1>4. CASE res.where = "nowhere" /\ res.http = 200
  <2>1. ReadError(Last, res) = NewError("invalid_argument", NoMetadata)
    <3>1. ~(Last.protocol = "triple" /\ Last.unary)
      BY <1>4 DEF Unparsable
    <3>2. ~HttpFails(Last, res)
      BY <1>4 DEF HttpFails, GrpcValidateResponse, WebValidateResponse
    <3>3. CASE Last.protocol = "triple"
      BY <1>4, <3>1, <3>3 DEF ReadError, TripleStreamResponse
    <3>4. CASE Last.protocol # "triple"
      BY <1>4, <3>2, <3>4 DEF ReadError, GrpcResponse
    <3>5. QED
      BY <3>3, <3>4
  <2>2. QED
    BY <1>3, <2>1
<1>5. CASE ~(res.where = "nowhere" /\ res.http = 200)
  <2>1. /\ res.where \in {"page", "nowhere"} /\ res.http # 200 /\ ~Readable(res)
        /\ res.where = "page" => res.http \notin 201 .. 299
        /\ res.http \in {429, 502, 503, 504} => Happened("busy")
    <3>1. CASE Cut
      BY <1>5, <3>1 DEF Cut
    <3>2. CASE Page
      BY <1>5, <3>2 DEF Page, Unparsable, Readable
    <3>3. CASE Blank
      BY <1>5, <3>3 DEF Blank, Readable
    <3>4. QED
      BY <3>1, <3>2, <3>3
  <2>2. PICK c, m : /\ ReadError(Last, res) = NewError(c, m)
                    /\ \/ c = "invalid_argument"
                       \/ c = TripleCodeFromHttpStatus(res.http)
                       \/ c = GrpcCodeFromHttpStatus(res.http)
    <3>1. CASE Last.protocol = "triple" /\ Last.unary
      BY <2>1, <3>1 DEF ReadError, TripleUnaryResponse, ErrorFromJson, WrapZLibErrors
    <3>2. CASE Last.protocol = "triple" /\ ~Last.unary
      BY <2>1, <3>2 DEF ReadError, TripleStreamResponse
    <3>3. CASE Last.protocol = "grpc"
      BY <2>1, <3>3 DEF ReadError, GrpcResponse, HttpFails, GrpcValidateResponse
    <3>4. CASE Last.protocol = "grpcweb" /\ res.where = "nowhere"
      BY <2>1, <3>4 DEF ReadError, GrpcResponse
    <3>5. CASE Last.protocol = "grpcweb" /\ res.where = "page"
      <4>1. res.http \notin 200 .. 299
        BY <2>1, <3>5, <1>1 DEF TypeOK, Responses
      <4>2. QED
        BY <3>5, <4>1 DEF ReadError, GrpcResponse, HttpFails, WebValidateResponse
    <3>6. QED
      BY <1>1, <2>1, <3>1, <3>2, <3>3, <3>4, <3>5 DEF Hops
  <2>3. c = "unavailable" => res.http \in {429, 502, 503, 504}
    BY <2>2 DEF TripleCodeFromHttpStatus, GrpcCodeFromHttpStatus
  <2>4. QED
    BY <1>3, <2>1, <2>2, <2>3
<1>6. QED
  BY <1>4, <1>5

\* An answer that cannot be parsed came from a proxy.
LEMMA ReceiveUnparsableStep == IInv /\ ReceiveUnparsable => IInv'
<1> SUFFICES ASSUME IInv, ReceiveUnparsable PROVE IInv'
  OBVIOUS
<1>1. TypeOK /\ SentInv
  BY DEF IInv
<1>2. PICK code \in ParseCodes :
        /\ phase = "sent" /\ Unparsable(Last, res)
        /\ phase' = "caught" /\ error' = NewError(code, NoMetadata)
        /\ UNCHANGED <<path, res, origin, faults>>
  BY DEF ReceiveUnparsable
<1>3. faults # <<>>
  BY <1>1, <1>2, WrittenIsParsable, LostIsRead DEF SentInv
<1>4. code \in Code /\ code # "unavailable"
  BY DEF ParseCodes, Code
<1>5. error' \in DubboErrors
  BY <1>2, <1>4, NewErrorType, NoMetadataType
<1>6. TypeOK'
  BY <1>1, <1>2, <1>5 DEF TypeOK
<1>7. Passed' # 0
  BY <1>1, <1>2, LastType DEF Passed
<1>8. error'.code = code /\ error'.detail.debug # "plain"
  BY <1>2 DEF NewError, NoDetail
<1>9. History' /\ ErrorSurvives' /\ UnavailableIsTrue'
  BY <1>2, <1>3, <1>4, <1>7, <1>8 DEF History, ErrorSurvives, UnavailableIsTrue
<1>10. SentInv' /\ NoFalseSuccess'
  BY <1>2 DEF SentInv, NoFalseSuccess
<1>11. QED
  BY <1>6, <1>9, <1>10 DEF IInv

LEMMA ReceiveErrorStep == IInv /\ ReceiveError => IInv'
<1> SUFFICES ASSUME IInv, ReceiveError PROVE IInv'
  OBVIOUS
<1>1. TypeOK /\ History /\ ErrorSurvives /\ UnavailableIsTrue /\ SentInv
      /\ error \in DubboErrors /\ res \in Responses
      /\ Last \in Hops /\ Passed \in Nat /\ Len(path) \in Nat \ {0}
  BY LastType DEF IInv, TypeOK
<1>2. /\ phase = "sent" /\ phase' = "caught" /\ error' = ReadError(Last, res)
      /\ ~Unparsable(Last, res)
      /\ UNCHANGED <<path, res, origin, faults>>
  BY DEF ReceiveError
<1>3. error' \in DubboErrors
  BY <1>1, <1>2, ReadErrorType
<1>4. TypeOK'
  BY <1>1, <1>2, <1>3 DEF TypeOK
<1>5. Passed' = Passed + 1 /\ Passed' = Len(path) /\ path' = path
  BY <1>1, <1>2 DEF Passed
<1>6. Last = path[Passed']
  BY <1>5 DEF Last
<1>7. PlainDetailLost => PlainDetailLost'
  BY <1>1, <1>2, <1>5 DEF PlainDetailLost
<1>8. Last.protocol = "triple" /\ error.detail.debug = "plain" => PlainDetailLost' /\ error = origin
  <2> SUFFICES ASSUME Last.protocol = "triple", error.detail.debug = "plain"
               PROVE  PlainDetailLost' /\ error = origin
    OBVIOUS
  <2>1. Passed = 0 /\ error = origin
    BY <1>1 DEF History
  <2>2. Passed' = 1
    BY <1>5, <2>1
  <2>4. Last = path'[1]
    BY <1>5, <1>6, <2>2
  <2>3. QED
    BY <1>2, <2>1, <2>2, <2>4 DEF PlainDetailLost
<1>9. SentInv' /\ NoFalseSuccess'
  BY <1>2 DEF SentInv, NoFalseSuccess
<1>10. CASE ~IsWritten(res, Last, error)
  <2>1. Cut \/ Page \/ Blank
    BY <1>1, <1>2, <1>10 DEF SentInv
  <2>2. /\ faults # <<>> /\ error'.detail.debug # "plain"
        /\ error'.code = "unavailable" => Happened("busy")
    BY <1>1, <1>2, <2>1, LostIsRead
  <2>3. History'
    BY <1>1, <1>2, <1>5, <2>2 DEF History
  <2>4. ErrorSurvives'
    BY <1>2, <2>2 DEF ErrorSurvives
  <2>5. UnavailableIsTrue'
    BY <1>2, <2>2 DEF UnavailableIsTrue, Happened
  <2>6. QED
    BY <1>4, <1>9, <2>3, <2>4, <2>5 DEF IInv
<1>11. CASE IsWritten(res, Last, error)
  <2>1. /\ error'.detail.debug # "plain"
        /\ error'.metadata.encoding => Last.protocol = "triple" /\ (Last.packs \/ error.metadata.encoding)
        /\ error'.code = "unavailable" =>
               \/ error.code = "unavailable"
               \/ /\ error.code = "resource_exhausted" /\ error.detail.debug = "plain"
                  /\ Last.protocol = "triple"
    <3>1. CASE Last.protocol = "triple"
      BY <1>1, <1>2, <1>11, <3>1, TripleRoundTrip
    <3>2. CASE Last.protocol # "triple"
      BY <1>1, <1>2, <1>11, <3>2, GrpcRoundTrip
    <3>3. QED
      BY <3>1, <3>2
  <2>2. Legible(Last, error) =>
          /\ error'.code = error.code
          /\ error'.text = error.text
          /\ FindDetails(error') = FindDetails(error)
          /\ error'.metadata.own <=> error.metadata.own /\ Last.protocol = "triple"
    <3>1. CASE Last.protocol = "triple"
      BY <1>1, <1>2, <1>11, <3>1, TripleRoundTrip
    <3>2. CASE Last.protocol # "triple"
      BY <1>1, <1>2, <1>11, <3>2, GrpcRoundTrip
    <3>3. QED
      BY <3>1, <3>2
  <2>3. faults = <<>> => EncodingTraced'
    <3> SUFFICES ASSUME faults = <<>>, error'.metadata.encoding
                 PROVE  \E i \in 1 .. Passed' :
                            path[i].packs /\ \A k \in i .. Passed' : path[k].protocol = "triple"
      BY <1>5 DEF EncodingTraced
    <3>1. CASE Last.packs
      BY <1>1, <1>5, <1>6, <2>1, <3>1
    <3>2. CASE error.metadata.encoding
      <4>1. PICK i \in 1 .. Passed : path[i].packs /\ \A k \in i .. Passed : path[k].protocol = "triple"
        BY <1>1, <3>2 DEF History, EncodingTraced
      <4>2. \A k \in i .. Passed' : path[k].protocol = "triple"
        BY <1>1, <1>5, <1>6, <2>1, <4>1
      <4>3. i \in 1 .. Passed'
        BY <1>1, <1>5
      <4>4. QED
        BY <4>1, <4>2, <4>3
    <3>3. QED
      BY <2>1, <3>1, <3>2
  <2>4. History'
    BY <1>1, <1>2, <1>5, <2>1, <2>3 DEF History
  <2>5. ErrorSurvives'
    <3> SUFFICES ASSUME faults = <<>>, ~PlainDetailLost', ~EncodingStale'
                 PROVE  /\ error'.code = origin.code
                        /\ error'.text = origin.text
                        /\ FindDetails(error') = FindDetails(origin)
                        /\ error'.metadata.own <=>
                             origin.metadata.own /\ \A k \in 1 .. Passed' : path[k].protocol = "triple"
      BY <1>2 DEF ErrorSurvives
    <3>1. ~EncodingStale
      <4> SUFFICES ASSUME EncodingStale PROVE EncodingStale'
        OBVIOUS
      <4>1. PICK i, j \in 1 .. Passed :
              /\ i < j /\ path[i].packs
              /\ path[j].protocol = "triple" /\ path[j].unary /\ ~path[j].packs
              /\ \A k \in i .. j : path[k].protocol = "triple"
        BY DEF EncodingStale
      <4>2. i \in 1 .. Passed' /\ j \in 1 .. Passed'
        BY <1>1, <1>5
      <4>3. QED
        BY <1>5, <4>1, <4>2 DEF EncodingStale
    <3>2. /\ error.code = origin.code
          /\ error.text = origin.text
          /\ FindDetails(error) = FindDetails(origin)
          /\ error.metadata.own <=>
               origin.metadata.own /\ \A k \in 1 .. Passed : path[k].protocol = "triple"
      BY <1>1, <1>7, <3>1 DEF ErrorSurvives
    <3>3. Legible(Last, error)
      <4>1. Last.protocol = "triple" => error.detail.debug # "plain"
        BY <1>8
      <4>2. ASSUME Last.protocol = "triple", Last.unary, ~Last.packs, error.metadata.encoding
            PROVE  FALSE
        <5>1. PICK i \in 1 .. Passed : path[i].packs /\ \A k \in i .. Passed : path[k].protocol = "triple"
          BY <1>1, <4>2 DEF History, EncodingTraced
        <5>2. i \in 1 .. Passed' /\ Passed' \in 1 .. Passed' /\ i < Passed'
          BY <1>1, <1>5
        <5>3. \A k \in i .. Passed' : path[k].protocol = "triple"
          BY <1>1, <1>5, <1>6, <4>2, <5>1
        <5>4. EncodingStale'
          BY <1>5, <1>6, <4>2, <5>1, <5>2, <5>3 DEF EncodingStale
        <5>5. QED
          BY <5>4
      <4>3. QED
        BY <4>1, <4>2 DEF Legible
    <3>4. (\A k \in 1 .. Passed' : path[k].protocol = "triple") <=>
             (\A k \in 1 .. Passed : path[k].protocol = "triple") /\ Last.protocol = "triple"
      <4>1. \A k : k \in 1 .. Passed' <=> k \in 1 .. Passed \/ k = Passed'
        BY <1>1, <1>5
      <4>2. QED
        BY <1>6, <4>1
    <3>5. QED
      BY <2>2, <3>2, <3>3, <3>4
  <2>6. UnavailableIsTrue'
    <3>1. error.code = "unavailable" =>
            \/ origin.code = "unavailable"
            \/ Happened("busy")
            \/ Happened("unreachable")
            \/ origin.code = "resource_exhausted" /\ PlainDetailLost
      BY <1>1 DEF UnavailableIsTrue
    <3>2. Happened("busy")' <=> Happened("busy")
      BY <1>2 DEF Happened
    <3>3. Happened("unreachable")' <=> Happened("unreachable")
      BY <1>2 DEF Happened
    <3>4. QED
      BY <1>2, <1>7, <1>8, <2>1, <3>1, <3>2, <3>3 DEF UnavailableIsTrue
  <2>7. QED
    BY <1>4, <1>9, <2>4, <2>5, <2>6 DEF IInv
<1>12. QED
  BY <1>10, <1>11

LEMMA Inductive == IInv /\ [Next]_vars => IInv'
<1> SUFFICES ASSUME IInv, [Next]_vars PROVE IInv'
  OBVIOUS
<1>1. CASE Next
  BY <1>1, ServeStep, ProxyAnswersStep, EndLostStep, TrailersOnlyStep, ConnectionFailsStep,
     StreamResetStep, ReceiveErrorStep, ReceiveUnparsableStep, ReceiveEndStep, RelayStep
  DEF Next
<1>2. CASE UNCHANGED vars
  <2>1. UNCHANGED <<path, phase, error, res, origin, faults>>
    BY <1>2 DEF vars
  <2>2. TypeOK' /\ NoFalseSuccess' /\ Passed' = Passed
    BY <2>1 DEF IInv, TypeOK, NoFalseSuccess, Happened, Passed, Last
  <2>3. SentInv'
    <3>1. Cut' <=> Cut
      BY <2>1 DEF Cut, Happened, Last
    <3>2. (Page' <=> Page) /\ (Blank' <=> Blank)
      BY <2>1 DEF Page, Blank, Happened
    <3>3. Last' = Last
      BY <2>1 DEF Last
    <3>4. IsWritten(res, Last, error)' <=> IsWritten(res, Last, error)
      BY <2>1, <3>3 DEF IsWritten
    <3>5. QED
      BY <2>1, <3>1, <3>2, <3>4 DEF IInv, SentInv
  <2>4. History' /\ ErrorSurvives' /\ UnavailableIsTrue'
    BY <2>1, <2>2, Kept DEF IInv
  <2>5. QED
    BY <2>2, <2>3, <2>4 DEF IInv
<1>3. QED
  BY <1>1, <1>2

\* The invariant that the theorems rest on: what is on its way is what a handler
\* wrote, what a fault left of it, or what a proxy says instead.
THEOREM Invariance == Spec => []IInv
BY InitIInv, Inductive, PTL DEF Spec

-----------------------------------------------------------------------------
(* Theorems. *)

\* Errors and responses keep their types, over any number of hops and faults.
THEOREM TypeCorrect == Spec => []TypeOK
<1>1. IInv => TypeOK
  BY DEF IInv
<1>2. QED
  BY <1>1, Invariance, PTL

\* Over any path of servers, whatever their proxies answer, a failed call looks
\* successful only to the client of a gRPC stream whose end was lost or replaced by an
\* empty answer with status 200, and to one of a unary Triple call so answered.
THEOREM FailuresFail == Spec => []NoFalseSuccess
<1>1. IInv => NoFalseSuccess
  BY DEF IInv
<1>2. QED
  BY <1>1, Invariance, PTL

\* Left alone by the network, an error keeps its code, message and details over
\* any path of servers, whatever their protocols.
THEOREM ErrorsSurvive == Spec => []ErrorSurvives
<1>1. IInv => ErrorSurvives
  BY DEF IInv
<1>2. QED
  BY <1>1, Invariance, PTL

\* No failure is reported as one that permits to try again, unless the server said so,
\* an HTTP status did (429, 502, 503 or 504), or the server was never reached.
THEOREM RetryIsSafe == Spec => []UnavailableIsTrue
<1>1. IInv => UnavailableIsTrue
  BY DEF IInv
<1>2. QED
  BY <1>1, Invariance, PTL

=============================================================================
