--------------------------- MODULE HandlerProofs ----------------------------
(***************************************************************************)
(* Handlers: the one that a request is given to, and what is counted of    *)
(* requests.                                                               *)
(*                                                                         *)
(* Dispatch: whatever is registered and called, requests get to the handler*)
(* that is meant, with the timeout of the call, and answers can be read.   *)
(*                                                                         *)
(* Meters: the window of seconds that requests per second are read from,   *)
(* for any number of requests and seconds, and any lag of its interval; and*)
(* the counters of provider and consumer, for any number of transports, of *)
(* calls and of interceptors that transports share.                        *)
(***************************************************************************)
EXTENDS Dispatch, Meters, WellFoundedInduction, FiniteSetTheorems, TLAPS

-----------------------------------------------------------------------------
(* What is known of a call. *)

Settled == {"answered", "done"}

TypeOK ==
    /\ server \in Servers
    /\ regs \in Seq(Registrations)
    /\ call \in Calls \cup {NoCall}
    /\ phase \in {"setup", "requested", "answered", "done"}

\* The request of a call is the one that its client makes.
Asked == call # NoCall => phase # "setup" /\ req = RequestOf(call)

-----------------------------------------------------------------------------
(* Numbers and sequences. *)

\* Of some natural numbers one is the least, and of finitely many one the greatest.
LEMMA LeastIs ==
    ASSUME NEW S \in SUBSET Nat, S # {}
    PROVE  Min(S) \in S /\ \A n \in S : Min(S) <= n
<1>1. PICK x \in S : \A y \in S : ~(<<y, x>> \in OpToRel(<, Nat))
  BY NatLessThanWellFounded, WFMin
<1>2. \A y \in S : ~(y < x)
  BY <1>1, Zenon DEF OpToRel
<1>3. \A y \in S : x <= y
  BY <1>2
<1> QED
  BY <1>3 DEF Min

LEMMA GreatestIs ==
    ASSUME NEW m \in Nat, NEW S \in SUBSET (1 .. m), S # {}
    PROVE  Max(S) \in S /\ \A n \in S : n <= Max(S)
<1> DEFINE T == {m - n : n \in S}
<1>1. T \in SUBSET Nat /\ T # {}
  <2>1. PICK n \in S : TRUE
    OBVIOUS
  <2>2. m - n \in T
    OBVIOUS
  <2>3. \A k \in S : m - k \in Nat
    OBVIOUS
  <2> QED
    BY <2>2, <2>3
<1>2. Min(T) \in T /\ \A n \in T : Min(T) <= n
  BY <1>1, LeastIs
<1>3. PICK x \in S : Min(T) = m - x
  BY <1>2
<1>4. \A n \in S : m - n \in T
  OBVIOUS
<1>5. \A n \in S : m - x <= m - n
  BY <1>2, <1>3, <1>4
<1>6. \A n \in S : x >= n
  BY <1>5
<1>7. \E y \in S : \A n \in S : y >= n
  BY <1>6
<1>8. Max(S) \in S /\ \A n \in S : Max(S) >= n
  BY <1>7 DEF Max
<1> QED
  BY <1>8

\* The first of those that are wanted is one of them.
LEMMA FirstIs ==
    ASSUME NEW s, NEW wanted, Len(s) \in Nat, \E k \in 1 .. Len(s) : s[k] \in wanted
    PROVE  /\ FirstOf(s, wanted) \in wanted
           /\ \E k \in 1 .. Len(s) : s[k] = FirstOf(s, wanted)
<1> DEFINE places == {k \in 1 .. Len(s) : s[k] \in wanted}
<1>1. places \in SUBSET Nat /\ places # {}
  OBVIOUS
<1>2. Min(places) \in places
  BY <1>1, LeastIs
<1> QED
  BY <1>2 DEF FirstOf

LEMMA FirstProtocolIs ==
    ASSUME NEW protocols \in SUBSET Protocols, protocols # {}
    PROVE  FirstOf(ProtocolOrder, protocols) \in protocols
<1>1. Len(ProtocolOrder) = 3 /\ ProtocolOrder[1] = "grpc" /\ ProtocolOrder[2] = "grpcweb"
      /\ ProtocolOrder[3] = "triple"
  BY DEF ProtocolOrder
<1>2. \E k \in 1 .. 3 : ProtocolOrder[k] \in protocols
  <2>1. "grpc" \in protocols \/ "grpcweb" \in protocols \/ "triple" \in protocols
    BY DEF Protocols
  <2>2. 1 \in 1 .. 3 /\ 2 \in 1 .. 3 /\ 3 \in 1 .. 3
    OBVIOUS
  <2> QED
    BY <1>1, <2>1, <2>2
<1> HIDE DEF ProtocolOrder
<1> QED
  BY <1>1, <1>2, FirstIs

-----------------------------------------------------------------------------
(* Routers. *)

LEMMA TupleEquality ==
    /\ \A a, b : <<a>> = <<b>> <=> a = b
    /\ \A a, b, c, d : <<a, b>> = <<c, d>> <=> a = c /\ b = d
    /\ \A a, b, c, d, e, f : <<a, b, c>> = <<d, e, f>> <=> a = d /\ b = e /\ c = f
<1>1. \A a, b : <<a>> = <<b>> <=> a = b
  OBVIOUS
<1>2. \A a, b, c, d : <<a, b>> = <<c, d>> <=> a = c /\ b = d
  OBVIOUS
<1>3. \A a, b, c, d, e, f : <<a, b, c>> = <<d, e, f>> <=> a = d /\ b = e /\ c = f
  OBVIOUS
<1> QED
  BY <1>1, <1>2, <1>3, Zenon

\* What has the same key has the same address, or the adapter takes it for the same.
LEMMA KeyTells ==
    ASSUME TypeOK, NEW r, NEW s
    PROVE  /\ Key(r) = Key(s) => SameAddress(r, s) \/ Confusable(r, s)
           /\ SameAddress(r, s) => Key(r) = Key(s)
<1>1. server.adapter \in AllAdapters
  BY BoundsAssumption DEF TypeOK, Servers
<1>2. SameAddress(r, s) <=> <<r.path, r.version, r.group>> = <<s.path, s.version, s.group>>
  BY TupleEquality, Zenon DEF SameAddress
<1>3. CASE server.adapter = "memory"
  <2>1. Key(r) = <<r.path>> /\ Key(s) = <<s.path>>
    BY <1>3 DEF Key, MemoryKey
  <2>2. Key(r) = Key(s) <=> r.path = s.path
    <3>1. <<r.path>> = <<s.path>> <=> r.path = s.path
      OBVIOUS
    <3> QED
      BY <2>1, <3>1, Zenon
  <2>3. Key(r) = Key(s) => SameAddress(r, s) \/ Confusable(r, s)
    BY <1>2, <1>3, <2>2, Zenon DEF Confusable
  <2> QED
    BY <2>2, <2>3, Zenon DEF SameAddress
<1>4. CASE server.adapter = "fastify"
  <2>1. Key(r) = <<r.path, r.version \o r.group>> /\ Key(s) = <<s.path, s.version \o s.group>>
    BY <1>4 DEF Key, FastifyKey
  <2>2. Key(r) = Key(s) <=> r.path = s.path /\ r.version \o r.group = s.version \o s.group
    <3>1. <<r.path, r.version \o r.group>> = <<s.path, s.version \o s.group>>
            <=> r.path = s.path /\ r.version \o r.group = s.version \o s.group
      OBVIOUS
    <3> QED
      BY <2>1, <3>1, Zenon
  <2>3. Key(r) = Key(s) => SameAddress(r, s) \/ Confusable(r, s)
    BY <1>2, <1>4, <2>2, Zenon DEF Confusable
  <2> QED
    BY <2>2, <2>3, Zenon DEF SameAddress
<1>5. CASE server.adapter \in {"node", "express", "next"}
  <2>1. Key(r) = <<r.path \o r.version \o r.group>>
        /\ Key(s) = <<s.path \o s.version \o s.group>>
    BY <1>5 DEF Key, NodeKey, ExpressKey, NextKey
  <2>2. Key(r) = Key(s)
          <=> r.path \o r.version \o r.group = s.path \o s.version \o s.group
    <3>1. <<r.path \o r.version \o r.group>> = <<s.path \o s.version \o s.group>>
            <=> r.path \o r.version \o r.group = s.path \o s.version \o s.group
      OBVIOUS
    <3> QED
      BY <2>1, <3>1, Zenon
  <2>3. server.adapter \notin {"memory", "fastify"}
    BY <1>5
  <2>4. Key(r) = Key(s) => SameAddress(r, s) \/ Confusable(r, s)
    BY <1>2, <2>2, <2>3, Zenon DEF Confusable
  <2> QED
    BY <2>2, <2>4, Zenon DEF SameAddress
<1> QED
  BY <1>1, <1>3, <1>4, <1>5 DEF AllAdapters

\* The handler that is found is the last with the key of the request.
LEMMA LookupIs ==
    ASSUME TypeOK, NEW r
    PROVE  \/ /\ Lookup(r) = 0
              /\ \A i \in 1 .. Len(regs) : Key(regs[i]) # Key(r)
           \/ /\ Lookup(r) \in 1 .. Len(regs) /\ Lookup(r) # 0
              /\ Key(regs[Lookup(r)]) = Key(r)
              /\ \A i \in 1 .. Len(regs) : Key(regs[i]) = Key(r) => i <= Lookup(r)
<1> DEFINE hits == {i \in 1 .. Len(regs) : Key(regs[i]) = Key(r)}
<1>1. Len(regs) \in Nat
  BY DEF TypeOK
<1>2. Lookup(r) = IF hits = {} THEN 0 ELSE Max(hits)
  BY DEF Lookup
<1>3. CASE hits = {}
  BY <1>2, <1>3
<1>4. CASE hits # {}
  <2>1. Max(hits) \in hits /\ \A n \in hits : n <= Max(hits)
    <3>1. hits \in SUBSET (1 .. Len(regs))
      OBVIOUS
    <3> HIDE DEF hits
    <3> QED
      BY <1>1, <1>4, <3>1, GreatestIs
  <2> QED
    BY <1>2, <1>4, <2>1
<1> QED
  BY <1>3, <1>4

-----------------------------------------------------------------------------
(* Servers: what an answer is. *)

Failures == {NoAnswer, NotFound, MethodNotAllowed, UnsupportedMediaType, VersionNotSupported}

LEMMA FailuresAre == \A a \in Failures : a.by = 0
BY DEF Failures, NoAnswer, NotFound, MethodNotAllowed, UnsupportedMediaType,
   VersionNotSupported

\* The content type that a handler goes by.
TypeFor(protocol, r) ==
    IF protocol = "triple" /\ Unary(r.path) /\ r.method = "GET" THEN r.query
    ELSE r.contentType

\* The content types that a handler parses.
Parses(protocol, r) ==
    CASE protocol = "grpc"    -> ParsesGrpc(r.contentType)
      [] protocol = "grpcweb" -> ParsesGrpcWeb(r.contentType)
      [] protocol = "triple"  -> ParsesTriple(r.path, TypeFor(protocol, r))

\* An answer as it is sent: a refusal of a unary Triple call is one in JSON.
Sent(protocol, r, answer) ==
    IF protocol = "triple" /\ Unary(r.path) THEN TripleUnaryAnswer(answer) ELSE answer

\* A handler answers in its protocol and in the format of the request, or refuses.
LEMMA HandlerIs ==
    ASSUME NEW protocol \in Protocols, NEW i, NEW r, NEW large \in BOOLEAN
    PROVE  \/ /\ Handler(protocol, i, r, large) \in Failures
              /\ \/ ~Parses(protocol, r)
                 \/ Rejects(r) /\ ~(protocol = "triple" /\ Unary(r.path))
           \/ /\ Parses(protocol, r)
              /\ \E encoding \in {None, ResponseCompression(r)} :
                   Handler(protocol, i, r, large) =
                       Sent(protocol, r,
                            Answer(i, protocol, r, TypeFor(protocol, r), encoding))
<1>1. CASE protocol = "grpc"
  <2>1. Handler(protocol, i, r, large) = GrpcHandler(i, r)
    BY <1>1 DEF Handler
  <2>2. Parses(protocol, r) = ParsesGrpc(r.contentType) /\ TypeFor(protocol, r) = r.contentType
    BY <1>1 DEF Parses, TypeFor
  <2>3. CASE Rejects(r)
    BY <1>1, <2>1, <2>3 DEF GrpcHandler, Failures
  <2>4. CASE ~Rejects(r) /\ ~ParsesGrpc(r.contentType)
    BY <2>1, <2>2, <2>4 DEF GrpcHandler, Failures
  <2>5. CASE ~Rejects(r) /\ ParsesGrpc(r.contentType)
    BY <1>1, <2>1, <2>2, <2>5 DEF GrpcHandler, Sent
  <2> QED
    BY <2>3, <2>4, <2>5
<1>2. CASE protocol = "grpcweb"
  <2>1. Handler(protocol, i, r, large) = GrpcWebHandler(i, r)
    BY <1>2 DEF Handler
  <2>2. /\ Parses(protocol, r) = ParsesGrpcWeb(r.contentType)
        /\ TypeFor(protocol, r) = r.contentType
    BY <1>2 DEF Parses, TypeFor
  <2>3. CASE Rejects(r)
    BY <1>2, <2>1, <2>3 DEF GrpcWebHandler, Failures
  <2>4. CASE ~Rejects(r) /\ ~ParsesGrpcWeb(r.contentType)
    BY <2>1, <2>2, <2>4 DEF GrpcWebHandler, Failures
  <2>5. CASE ~Rejects(r) /\ ParsesGrpcWeb(r.contentType)
    BY <1>2, <2>1, <2>2, <2>5 DEF GrpcWebHandler, Sent
  <2> QED
    BY <2>3, <2>4, <2>5
<1>3. CASE protocol = "triple" /\ Unary(r.path)
  <2>1. Handler(protocol, i, r, large) = TripleUnaryHandler(i, r, large)
    BY <1>3 DEF Handler
  <2>2. Parses(protocol, r) = ParsesTriple(r.path, TypeFor(protocol, r))
    BY <1>3 DEF Parses
  <2>3. TypeFor(protocol, r) = IF r.method = "GET" THEN r.query ELSE r.contentType
    BY <1>3 DEF TypeFor
  <2>4. CASE ~Parses(protocol, r)
    BY <2>1, <2>2, <2>3, <2>4 DEF TripleUnaryHandler, Failures
  <2>5. CASE Parses(protocol, r)
    <3>1. Handler(protocol, i, r, large) =
            Sent(protocol, r,
                 Answer(i, protocol, r, TypeFor(protocol, r),
                        IF large THEN ResponseCompression(r) ELSE None))
      BY <1>3, <2>1, <2>2, <2>3, <2>5 DEF TripleUnaryHandler, Sent
    <3> QED
      BY <2>5, <3>1
  <2> QED
    BY <2>4, <2>5
<1>4. CASE protocol = "triple" /\ ~Unary(r.path)
  <2>1. Handler(protocol, i, r, large) = TripleStreamHandler(i, r)
    BY <1>4 DEF Handler
  <2>2. /\ Parses(protocol, r) = ParsesTriple(r.path, r.contentType)
        /\ TypeFor(protocol, r) = r.contentType
    BY <1>4 DEF Parses, TypeFor
  <2>3. CASE Rejects(r)
    BY <1>4, <2>1, <2>3 DEF TripleStreamHandler, Failures
  <2>4. CASE ~Rejects(r) /\ ~ParsesTriple(r.path, r.contentType)
    BY <2>1, <2>2, <2>4 DEF TripleStreamHandler, Failures
  <2>5. CASE ~Rejects(r) /\ ParsesTriple(r.path, r.contentType)
    BY <1>4, <2>1, <2>2, <2>5 DEF TripleStreamHandler, Sent
  <2> QED
    BY <2>3, <2>4, <2>5
<1> QED
  BY <1>1, <1>2, <1>3, <1>4 DEF Protocols

\* What a handler of a registration is selected by.
MatchingMethod(i, r) == {p \in Enabled(regs[i]) : r.method \in AllowedMethods(p, r.path)}

MatchingContentTypes(i, r) ==
    {p \in MatchingMethod(i, r) : SupportedContentType(p, r.path, r.contentType)}

Selects(protocol, i, r) ==
    \/ /\ Cardinality(MatchingMethod(i, r)) = 1 /\ r.contentType = Missing
       /\ MatchingMethod(i, r) # {}
       /\ protocol = FirstOf(ProtocolOrder, MatchingMethod(i, r))
    \/ /\ ~(Cardinality(MatchingMethod(i, r)) = 1 /\ r.contentType = Missing)
       /\ MatchingContentTypes(i, r) # {}
       /\ protocol = FirstOf(ProtocolOrder, MatchingContentTypes(i, r))

\* What is selected matches the verb, and the content type where it was looked at.
LEMMA SelectedIs ==
    ASSUME NEW i, NEW r, NEW protocol, Selects(protocol, i, r)
    PROVE  /\ protocol \in Protocols
           /\ protocol \in Enabled(regs[i])
           /\ r.method \in AllowedMethods(protocol, r.path)
           /\ r.contentType # Missing => SupportedContentType(protocol, r.path, r.contentType)
<1>1. MatchingMethod(i, r) \in SUBSET Protocols
  BY DEF MatchingMethod, Enabled
<1>2. MatchingContentTypes(i, r) \in SUBSET Protocols
  BY <1>1 DEF MatchingContentTypes
<1>3. CASE /\ Cardinality(MatchingMethod(i, r)) = 1 /\ r.contentType = Missing
           /\ MatchingMethod(i, r) # {}
           /\ protocol = FirstOf(ProtocolOrder, MatchingMethod(i, r))
  <2>1. protocol \in MatchingMethod(i, r)
    BY <1>1, <1>3, FirstProtocolIs
  <2> QED
    BY <1>1, <1>3, <2>1 DEF MatchingMethod
<1>4. CASE /\ ~(Cardinality(MatchingMethod(i, r)) = 1 /\ r.contentType = Missing)
           /\ MatchingContentTypes(i, r) # {}
           /\ protocol = FirstOf(ProtocolOrder, MatchingContentTypes(i, r))
  <2>1. protocol \in MatchingContentTypes(i, r)
    BY <1>2, <1>4, FirstProtocolIs
  <2> QED
    BY <1>2, <2>1 DEF MatchingContentTypes, MatchingMethod
<1> QED
  BY <1>3, <1>4 DEF Selects

\* Either the handler of a selected protocol answers, or nothing is selected, or the
\* HTTP version does not do.
LEMMA NegotiateIs ==
    ASSUME NEW i, NEW r, NEW large
    PROVE  \/ /\ Kind(r.path) = "bidi" /\ r.httpVersion = 1
              /\ NegotiateProtocol(i, r, large) \in Failures
           \/ /\ MatchingContentTypes(i, r) = {}
              /\ ~(Cardinality(MatchingMethod(i, r)) = 1 /\ r.contentType = Missing
                     /\ MatchingMethod(i, r) # {})
              /\ NegotiateProtocol(i, r, large) \in Failures
           \/ \E protocol :
                /\ Selects(protocol, i, r)
                /\ NegotiateProtocol(i, r, large) = Handler(protocol, i, r, large)
<1> DEFINE a == NegotiateProtocol(i, r, large)
           m == MatchingMethod(i, r)
           t == MatchingContentTypes(i, r)
<1>1. CASE Kind(r.path) = "bidi" /\ r.httpVersion = 1
  BY <1>1 DEF NegotiateProtocol, Failures
<1>2. CASE Kind(r.path) # "bidi" \/ r.httpVersion # 1
  <2>1. a = CASE m = {} -> MethodNotAllowed
              [] Cardinality(m) = 1 /\ r.contentType = Missing ->
                    Handler(FirstOf(ProtocolOrder, m), i, r, large)
              [] m # {} /\ ~(Cardinality(m) = 1 /\ r.contentType = Missing) ->
                    IF t = {} THEN UnsupportedMediaType
                    ELSE Handler(FirstOf(ProtocolOrder, t), i, r, large)
    BY <1>2, Zenon DEF NegotiateProtocol, MatchingMethod, MatchingContentTypes
  <2>2. m = {} => t = {} /\ Cardinality(m) # 1
    BY FS_EmptySet DEF MatchingContentTypes
  <2> HIDE DEF a, m, t
  <2>3. CASE m = {}
    <3>1. a = MethodNotAllowed
      BY <2>1, <2>2, <2>3
    <3> QED
      BY <2>2, <2>3, <3>1 DEF Failures, a, m, t
  <2>4. CASE m # {} /\ Cardinality(m) = 1 /\ r.contentType = Missing
    <3>1. a = Handler(FirstOf(ProtocolOrder, m), i, r, large)
      BY <2>1, <2>4
    <3> QED
      BY <2>4, <3>1 DEF Selects, a, m
  <2>5. CASE m # {} /\ ~(Cardinality(m) = 1 /\ r.contentType = Missing) /\ t = {}
    <3>1. a = UnsupportedMediaType
      BY <2>1, <2>5
    <3> QED
      BY <2>5, <3>1 DEF Failures, a, m, t
  <2>6. CASE m # {} /\ ~(Cardinality(m) = 1 /\ r.contentType = Missing) /\ t # {}
    <3>1. a = Handler(FirstOf(ProtocolOrder, t), i, r, large)
      BY <2>1, <2>6
    <3> QED
      BY <2>6, <3>1 DEF Selects, a, m, t
  <2> QED
    BY <2>3, <2>4, <2>5, <2>6
<1> QED
  BY <1>1, <1>2

-----------------------------------------------------------------------------
(* Clients: what a request is. *)

RequestFields ==
    {"method", "path", "version", "group", "httpVersion", "contentType", "query", "encoding",
     "accept", "timeout", "protocolVersion"}

\* The request of a call has its method, its timeout and its HTTP version; by GET,
\* the content type is in the query and nothing says what the client accepts.
LEMMA RequestIs ==
    ASSUME NEW c
    PROVE  /\ RequestOf(c).path = c.path
           /\ RequestOf(c).timeout = c.timeout
           /\ RequestOf(c).httpVersion = c.httpVersion
           /\ RequestOf(c).protocolVersion = (c.protocol = "triple")
           /\ RequestOf(c).encoding \in {None, c.send}
           /\ c.protocol = "triple" /\ Unary(c.path) =>
                 RequestOf(c).version = c.version /\ RequestOf(c).group = c.group
           /\ ~(c.protocol = "triple" /\ Unary(c.path)) =>
                 RequestOf(c).version = <<>> /\ RequestOf(c).group = <<>>
           /\ ~UseGet(c) =>
                 /\ RequestOf(c).method = "POST"
                 /\ RequestOf(c).contentType = RequestType(c)
                 /\ RequestOf(c).accept = c.accept
           /\ UseGet(c) =>
                 /\ RequestOf(c).method = "GET"
                 /\ RequestOf(c).contentType = Missing
                 /\ RequestOf(c).query = RequestType(c)
                 /\ RequestOf(c).accept = <<>>
           /\ DOMAIN RequestOf(c) = RequestFields
<1> DEFINE encoding == IF c.protocol = "triple" /\ Unary(c.path) /\ ~c.big THEN None ELSE c.send
           unary == c.protocol = "triple" /\ Unary(c.path)
           header ==
             [method |-> "POST", path |-> c.path, version |-> <<>>, group |-> <<>>,
              httpVersion |-> c.httpVersion, contentType |-> RequestType(c), query |-> Missing,
              encoding |-> encoding, accept |-> c.accept, timeout |-> c.timeout,
              protocolVersion |-> (c.protocol = "triple")]
           r == WithServiceOptions(c, RequestHeader(c))
<1>1. encoding \in {None, c.send}
  OBVIOUS
<1>2. RequestHeader(c) = header
  BY DEF RequestHeader
<1>3. r = IF unary THEN [header EXCEPT !.version = c.version, !.group = c.group] ELSE header
  <2> HIDE DEF header
  <2> QED
    BY <1>2, Zenon DEF WithServiceOptions
<1>4. DOMAIN header = RequestFields
  BY DEF RequestFields
<1>5. /\ r.path = c.path /\ r.timeout = c.timeout /\ r.httpVersion = c.httpVersion
      /\ r.protocolVersion = (c.protocol = "triple") /\ r.encoding = encoding
      /\ unary => r.version = c.version /\ r.group = c.group
      /\ ~unary => r.version = <<>> /\ r.group = <<>>
      /\ r.method = "POST" /\ r.contentType = RequestType(c) /\ r.accept = c.accept
      /\ DOMAIN r = RequestFields
  <2> HIDE DEF encoding, r
  <2>1. CASE unary
    <3>1. r = [header EXCEPT !.version = c.version, !.group = c.group]
      BY <1>3, <2>1, Zenon
    <3> HIDE DEF unary
    <3> QED
      BY <1>4, <2>1, <3>1
  <2>2. CASE ~unary
    <3>1. r = header
      BY <1>3, <2>2, Zenon
    <3> HIDE DEF unary
    <3> QED
      BY <1>4, <2>2, <3>1
  <2> QED
    BY <2>1, <2>2, Zenon
<1>6. RequestOf(c) = IF UseGet(c) THEN ToGetRequest(r) ELSE r
  BY Zenon DEF RequestOf
<1> HIDE DEF encoding, r
<1>7. CASE UseGet(c)
  <2>1. RequestOf(c) = [r EXCEPT !.method = "GET", !.contentType = Missing,
                                 !.query = r.contentType, !.accept = <<>>]
    BY <1>6, <1>7, Zenon DEF ToGetRequest
  <2> HIDE DEF unary, header
  <2>3. /\ RequestOf(c).path = r.path /\ RequestOf(c).timeout = r.timeout
        /\ RequestOf(c).httpVersion = r.httpVersion
        /\ RequestOf(c).protocolVersion = r.protocolVersion
        /\ RequestOf(c).encoding = r.encoding
        /\ RequestOf(c).version = r.version /\ RequestOf(c).group = r.group
        /\ RequestOf(c).method = "GET" /\ RequestOf(c).contentType = Missing
        /\ RequestOf(c).query = r.contentType /\ RequestOf(c).accept = <<>>
        /\ DOMAIN RequestOf(c) = DOMAIN r
    BY <1>5, <2>1 DEF RequestFields
  <2> QED
    BY <1>1, <1>5, <1>7, <2>3, Zenon DEF unary
<1>8. CASE ~UseGet(c)
  <2>1. RequestOf(c) = r
    BY <1>6, <1>8, Zenon
  <2> QED
    BY <1>1, <1>5, <1>8, <2>1, Zenon
<1> QED
  BY <1>7, <1>8, Zenon

\* The content type of a request belongs to the protocol of the call and to no other,
\* is parsed by its handler, and tells the format.
LEMMA RequestTypeIs ==
    ASSUME NEW c, c.protocol \in Protocols, c.binary \in BOOLEAN
    PROVE  /\ RequestType(c) # Missing
           /\ Binary(RequestType(c)) = c.binary
           /\ \A p \in Protocols : \A path :
                SupportedContentType(p, path, RequestType(c)) => p = c.protocol
           /\ SupportedContentType(c.protocol, c.path, RequestType(c))
           /\ c.protocol = "grpc" => ParsesGrpc(RequestType(c))
           /\ c.protocol = "grpcweb" => ParsesGrpcWeb(RequestType(c))
           /\ c.protocol = "triple" => ParsesTriple(c.path, RequestType(c))
<1>1. CASE c.protocol = "grpc"
  <2>1. RequestType(c) = IF c.binary THEN "application/grpc+proto" ELSE "application/grpc+json"
    BY <1>1 DEF RequestType
  <2>2. RequestType(c) \in GrpcTypes
    BY <2>1 DEF GrpcTypes
  <2>3. RequestType(c) \notin GrpcWebTypes \cup TripleUnaryTypes \cup TripleStreamTypes
    BY <2>1 DEF GrpcWebTypes, TripleUnaryTypes, TripleStreamTypes
  <2>4. RequestType(c) # Missing /\ Binary(RequestType(c)) = c.binary
    BY <2>1 DEF Missing, Binary
  <2>5. \A p \in Protocols : \A path :
          SupportedContentType(p, path, RequestType(c)) => p = c.protocol
    BY <1>1, <2>3 DEF SupportedContentType, Protocols
  <2>6. SupportedContentType(c.protocol, c.path, RequestType(c))
    BY <1>1, <2>2 DEF SupportedContentType
  <2> QED
    BY <1>1, <2>2, <2>4, <2>5, <2>6 DEF ParsesGrpc
<1>2. CASE c.protocol = "grpcweb"
  <2>1. RequestType(c) =
          IF c.binary THEN "application/grpc-web+proto" ELSE "application/grpc-web+json"
    BY <1>2 DEF RequestType
  <2>2. RequestType(c) \in GrpcWebTypes \ {"application/grpc-web-text"}
    BY <2>1 DEF GrpcWebTypes
  <2>3. RequestType(c) \notin GrpcTypes \cup TripleUnaryTypes \cup TripleStreamTypes
    BY <2>1 DEF GrpcTypes, TripleUnaryTypes, TripleStreamTypes
  <2>4. RequestType(c) # Missing /\ Binary(RequestType(c)) = c.binary
    BY <2>1 DEF Missing, Binary
  <2>5. \A p \in Protocols : \A path :
          SupportedContentType(p, path, RequestType(c)) => p = c.protocol
    BY <1>2, <2>3 DEF SupportedContentType, Protocols
  <2>6. SupportedContentType(c.protocol, c.path, RequestType(c))
    BY <1>2, <2>2 DEF SupportedContentType
  <2> QED
    BY <1>2, <2>2, <2>4, <2>5, <2>6 DEF ParsesGrpcWeb
<1>3. CASE c.protocol = "triple"
  <2>1. RequestType(c) =
          IF Unary(c.path) THEN (IF c.binary THEN "application/proto" ELSE "application/json")
          ELSE IF c.binary THEN "application/connect+proto" ELSE "application/connect+json"
    BY <1>3 DEF RequestType, TripleRequestType
  <2>2. RequestType(c) \in IF Unary(c.path) THEN TripleUnaryTypes
                           ELSE {"application/connect+json", "application/connect+proto"}
    BY <2>1 DEF TripleUnaryTypes
  <2>3. RequestType(c) \notin GrpcTypes \cup GrpcWebTypes
    BY <2>1 DEF GrpcTypes, GrpcWebTypes
  <2>4. RequestType(c) # Missing /\ Binary(RequestType(c)) = c.binary
    BY <2>1 DEF Missing, Binary
  <2>5. \A p \in Protocols : \A path :
          SupportedContentType(p, path, RequestType(c)) => p = c.protocol
    BY <1>3, <2>3 DEF SupportedContentType, Protocols
  <2>6. SupportedContentType(c.protocol, c.path, RequestType(c))
    BY <1>3, <2>2 DEF SupportedContentType, TripleStreamTypes
  <2> QED
    BY <1>3, <2>2, <2>4, <2>5, <2>6 DEF ParsesTriple
<1> QED
  BY <1>1, <1>2, <1>3 DEF Protocols

-----------------------------------------------------------------------------
(* From a request to its answer. *)

\* The request as the handler takes it: with the path of its own method.
Routed(r) == [r EXCEPT !.path = regs[Lookup(r)].path]

\* An answer is a failure, or one of the handler that was found and of the protocol
\* that was selected.
LEMMA AnswerIs ==
    ASSUME TypeOK, NEW r, NEW large \in BOOLEAN
    PROVE  \/ RequestHandler(r, large) \in Failures
           \/ \E protocol \in Protocols, encoding \in {None, ResponseCompression(Routed(r))} :
                /\ Lookup(r) \in 1 .. Len(regs)
                /\ Selects(protocol, Lookup(r), Routed(r))
                /\ Parses(protocol, Routed(r))
                /\ RequestHandler(r, large) =
                     Sent(protocol, Routed(r),
                          Answer(Lookup(r), protocol, Routed(r),
                                 TypeFor(protocol, Routed(r)), encoding))
<1> DEFINE i == Lookup(r)
<1>1. CASE i = 0
  <2>1. RequestHandler(r, large) = NotFound
    BY <1>1 DEF RequestHandler
  <2> QED
    BY <2>1 DEF Failures
<1>2. CASE i # 0
  <2>1. RequestHandler(r, large) = NegotiateProtocol(i, Routed(r), large)
    BY <1>2, Zenon DEF RequestHandler, Routed
  <2>2. i \in 1 .. Len(regs)
    BY <1>2, LookupIs
  <2> HIDE DEF i
  <2>3. CASE NegotiateProtocol(i, Routed(r), large) \in Failures
    BY <2>1, <2>3
  <2>4. CASE \E protocol :
               /\ Selects(protocol, i, Routed(r))
               /\ NegotiateProtocol(i, Routed(r), large) = Handler(protocol, i, Routed(r), large)
    <3>1. PICK protocol :
               /\ Selects(protocol, i, Routed(r))
               /\ NegotiateProtocol(i, Routed(r), large) = Handler(protocol, i, Routed(r), large)
      BY <2>4
    <3>2. protocol \in Protocols
      BY <3>1, SelectedIs
    <3>3. \/ Handler(protocol, i, Routed(r), large) \in Failures
          \/ /\ Parses(protocol, Routed(r))
             /\ \E encoding \in {None, ResponseCompression(Routed(r))} :
                  Handler(protocol, i, Routed(r), large) =
                    Sent(protocol, Routed(r),
                         Answer(i, protocol, Routed(r), TypeFor(protocol, Routed(r)), encoding))
      BY <3>2, HandlerIs
    <3> QED
      BY <2>1, <2>2, <3>1, <3>2, <3>3 DEF i
  <2> QED
    BY <2>3, <2>4, NegotiateIs
<1> QED
  BY <1>1, <1>2

LEMMA AnswerFields ==
    ASSUME NEW i, NEW protocol, NEW r, NEW type, NEW encoding
    PROVE  LET a == Sent(protocol, r, Answer(i, protocol, r, type, encoding)) IN
           /\ a.by = i /\ a.protocol = protocol
           /\ a.encoding = encoding /\ a.code = RefusedWith(protocol, r, type)
           /\ a.code = "ok" => a.deadline = DeadlineOf(protocol, r)
           /\ a.code = "ok" \/ ~(protocol = "triple" /\ Unary(r.path)) =>
                 a.status = 200 /\ a.type = type
           /\ a.code # "ok" /\ protocol = "triple" /\ Unary(r.path) =>
                 a.status # 200 /\ a.type = "application/json"
<1> DEFINE b == Answer(i, protocol, r, type, encoding)
           f == [status |-> CodeToHttpStatus(b.code), by |-> i, protocol |-> protocol,
                 type |-> "application/json", encoding |-> encoding, code |-> b.code,
                 deadline |-> b.deadline]
           unary == protocol = "triple" /\ Unary(r.path)
<1>1. /\ b.status = 200 /\ b.by = i /\ b.protocol = protocol /\ b.type = type
      /\ b.encoding = encoding /\ b.code = RefusedWith(protocol, r, type)
      /\ b.code = "ok" => b.deadline = DeadlineOf(protocol, r)
  BY DEF Answer
<1>2. b.code # "ok" => TripleUnaryAnswer(b) = f
  BY DEF TripleUnaryAnswer, Answer
<1>3. f.status # 200
  BY DEF CodeToHttpStatus
<1>4. /\ f.by = i /\ f.protocol = protocol /\ f.type = "application/json"
      /\ f.encoding = encoding /\ f.code = b.code
  OBVIOUS
<1>5. Sent(protocol, r, b) = IF unary /\ b.code # "ok" THEN f ELSE b
  BY <1>2 DEF Sent, TripleUnaryAnswer
<1> HIDE DEF b, f
<1>6. CASE unary /\ b.code # "ok"
  BY <1>1, <1>3, <1>4, <1>5, <1>6 DEF b
<1>7. CASE ~(unary /\ b.code # "ok")
  BY <1>1, <1>5, <1>7 DEF b
<1> QED
  BY <1>6, <1>7

\* What is found by its key is what was registered last for the address.
Right(a) ==
    a.by > 0 =>
        \/ \E i \in 1 .. Len(regs) : Confusable(regs[i], req)
        \/ /\ SameAddress(regs[a.by], req)
           /\ \A i \in 1 .. Len(regs) : SameAddress(regs[i], req) => i <= a.by

LEMMA RightIs ==
    ASSUME TypeOK, NEW large \in BOOLEAN
    PROVE  Right(RequestHandler(req, large))
<1> DEFINE a == RequestHandler(req, large)
<1>1. CASE a \in Failures
  BY <1>1, FailuresAre DEF Right
<1>2. CASE a \notin Failures
  <2>1. a.by = Lookup(req) /\ Lookup(req) \in 1 .. Len(regs)
    <3>1. PICK protocol \in Protocols, encoding \in {None, ResponseCompression(Routed(req))} :
                /\ Lookup(req) \in 1 .. Len(regs)
                /\ a = Sent(protocol, Routed(req),
                            Answer(Lookup(req), protocol, Routed(req),
                                   TypeFor(protocol, Routed(req)), encoding))
      BY <1>2, AnswerIs
    <3> HIDE DEF a
    <3> QED
      BY <3>1, AnswerFields
  <2>2. Lookup(req) # 0
    BY <2>1 DEF TypeOK
  <2>3. /\ Key(regs[Lookup(req)]) = Key(req)
        /\ \A i \in 1 .. Len(regs) : Key(regs[i]) = Key(req) => i <= Lookup(req)
    BY <2>2, LookupIs
  <2>4. SameAddress(regs[Lookup(req)], req) \/ Confusable(regs[Lookup(req)], req)
    BY <2>3, KeyTells
  <2>5. \A i \in 1 .. Len(regs) : SameAddress(regs[i], req) => i <= Lookup(req)
    BY <2>3, KeyTells
  <2> HIDE DEF a
  <2> QED
    BY <2>1, <2>4, <2>5 DEF Right, a
<1> QED
  BY <1>1, <1>2

LEMMA RoutedIs ==
    ASSUME NEW r, DOMAIN r = RequestFields
    PROVE  /\ Routed(r).path = regs[Lookup(r)].path
           /\ Routed(r).method = r.method /\ Routed(r).contentType = r.contentType
           /\ Routed(r).query = r.query /\ Routed(r).encoding = r.encoding
           /\ Routed(r).accept = r.accept /\ Routed(r).timeout = r.timeout
           /\ Routed(r).httpVersion = r.httpVersion
           /\ Routed(r).protocolVersion = r.protocolVersion
BY DEF Routed, RequestFields

\* What an implementation is called with has the deadline of the call.
Kept(a) ==
    a.by > 0 /\ call # NoCall /\ a.code = "ok" =>
        IF call.timeout > TimerLimit THEN a.deadline = 1 ELSE a.deadline = call.timeout

LEMMA KeptIs ==
    ASSUME TypeOK, call # NoCall => req = RequestOf(call), NEW large \in BOOLEAN
    PROVE  Kept(RequestHandler(req, large))
<1> DEFINE a == RequestHandler(req, large)
<1> SUFFICES ASSUME a.by > 0, call # NoCall, a.code = "ok"
             PROVE  IF call.timeout > TimerLimit THEN a.deadline = 1
                    ELSE a.deadline = call.timeout
  BY DEF Kept
<1>1. a \notin Failures
  <2>1. a.by # 0
    OBVIOUS
  <2> HIDE DEF a
  <2> QED
    BY <2>1, FailuresAre
<1>2. PICK protocol \in Protocols, encoding \in {None, ResponseCompression(Routed(req))} :
          a = Sent(protocol, Routed(req),
                   Answer(Lookup(req), protocol, Routed(req),
                          TypeFor(protocol, Routed(req)), encoding))
  BY <1>1, AnswerIs
<1>3. a.deadline = DeadlineOf(protocol, Routed(req))
  BY <1>2, AnswerFields
<1>4. Routed(req).timeout = call.timeout
  <2>1. req = RequestOf(call)
    OBVIOUS
  <2> QED
    BY <2>1, RequestIs, RoutedIs
<1> HIDE DEF a
<1> QED
  BY <1>3, <1>4 DEF DeadlineOf

\* What is sent can be read.
Readable(a) ==
    a.by > 0 /\ call # NoCall =>
        /\ a.protocol = call.protocol
        /\ Binary(a.type) = ReadsBinary(call, a)
        /\ AcceptUnheard(call) \/ ~EncodingRefused(call, a)

\* The protocol that is selected for the request of a call is that of the call, and
\* its handler goes by the content type of the request.
LEMMA CallSelects ==
    ASSUME TypeOK, call # NoCall, req = RequestOf(call), NEW protocol, NEW i,
           Selects(protocol, i, Routed(req))
    PROVE  /\ protocol = call.protocol
           /\ TypeFor(protocol, Routed(req)) = RequestType(call)
<1> DEFINE q == Routed(req)
<1>1. call.protocol \in Protocols /\ call.binary \in BOOLEAN
  BY DEF TypeOK, Calls
<1>2. /\ protocol \in Protocols
      /\ q.method \in AllowedMethods(protocol, q.path)
      /\ q.contentType # Missing => SupportedContentType(protocol, q.path, q.contentType)
  BY SelectedIs
<1>3. /\ q.method = RequestOf(call).method /\ q.contentType = RequestOf(call).contentType
      /\ q.query = RequestOf(call).query
  BY RequestIs, RoutedIs
<1> HIDE DEF q
<1>4. CASE UseGet(call)
  <2>1. q.method = "GET" /\ q.query = RequestType(call)
    BY <1>3, <1>4, RequestIs
  <2>2. protocol = "triple" /\ Kind(q.path) = "get"
    BY <1>2, <2>1 DEF AllowedMethods
  <2>3. call.protocol = "triple"
    BY <1>4 DEF UseGet
  <2> QED
    BY <2>1, <2>2, <2>3 DEF TypeFor, Unary, q
<1>5. CASE ~UseGet(call)
  <2>1. q.method = "POST" /\ q.contentType = RequestType(call)
    BY <1>3, <1>5, RequestIs
  <2>2. protocol = call.protocol
    BY <1>1, <1>2, <2>1, RequestTypeIs
  <2> QED
    BY <2>1, <2>2 DEF TypeFor, q
<1> QED
  BY <1>4, <1>5

\* The compression of an answer is one that the request asks for.
LEMMA CompressionIs ==
    ASSUME NEW r, Len(r.accept) \in Nat, ResponseCompression(r) # None
    PROVE  \/ r.accept = <<>> /\ r.encoding # None
           \/ \E k \in 1 .. Len(r.accept) : r.accept[k] = ResponseCompression(r)
<1>1. CASE r.accept = <<>>
  BY <1>1 DEF ResponseCompression, RequestCompression
<1>2. CASE r.accept # <<>>
  <2>1. \E k \in 1 .. Len(r.accept) : r.accept[k] \in AcceptCompression
    BY <1>2 DEF ResponseCompression
  <2>2. ResponseCompression(r) = FirstOf(r.accept, AcceptCompression)
    BY <1>2, <2>1 DEF ResponseCompression
  <2> QED
    BY <2>1, <2>2, FirstIs
<1> QED
  BY <1>1, <1>2

LEMMA ReadableIs ==
    ASSUME TypeOK, call # NoCall => req = RequestOf(call), NEW large \in BOOLEAN
    PROVE  Readable(RequestHandler(req, large))
<1> DEFINE a == RequestHandler(req, large)
           q == Routed(req)
<1> SUFFICES ASSUME a.by > 0, call # NoCall
             PROVE  /\ a.protocol = call.protocol
                    /\ Binary(a.type) = ReadsBinary(call, a)
                    /\ AcceptUnheard(call) \/ ~EncodingRefused(call, a)
  BY DEF Readable
<1>1. req = RequestOf(call)
  OBVIOUS
<1>2. a \notin Failures
  <2>1. a.by # 0
    OBVIOUS
  <2> HIDE DEF a
  <2> QED
    BY <2>1, FailuresAre
<1>3. PICK protocol \in Protocols, encoding \in {None, ResponseCompression(q)} :
          /\ Selects(protocol, Lookup(req), q)
          /\ Parses(protocol, q)
          /\ a = Sent(protocol, q,
                      Answer(Lookup(req), protocol, q, TypeFor(protocol, q), encoding))
  BY <1>2, AnswerIs
<1>4. protocol = call.protocol /\ TypeFor(protocol, q) = RequestType(call)
  BY <1>1, <1>3, CallSelects
<1>5. /\ a.protocol = protocol /\ a.encoding = encoding
      /\ \/ a.status = 200 /\ a.type = TypeFor(protocol, q)
         \/ /\ protocol = "triple" /\ Unary(q.path)
            /\ a.status # 200 /\ a.type = "application/json"
  BY <1>3, AnswerFields
<1>6. Binary(a.type) = ReadsBinary(call, a)
  <2>1. Binary(RequestType(call)) = call.binary /\ call.binary \in BOOLEAN
    BY RequestTypeIs DEF TypeOK, Calls
  <2>2. CASE a.status = 200 /\ a.type = TypeFor(protocol, q)
    <3> HIDE DEF a
    <3> QED
      BY <1>4, <2>1, <2>2 DEF ReadsBinary
  <2>3. CASE /\ protocol = "triple" /\ Unary(q.path)
             /\ a.status # 200 /\ a.type = "application/json"
    <3>1. RequestType(call) \in TripleUnaryTypes
      BY <1>3, <1>4, <2>3 DEF Parses, ParsesTriple
    <3>2. Unary(call.path)
      BY <1>4, <2>3, <3>1 DEF RequestType, TripleRequestType, TripleUnaryTypes
    <3> HIDE DEF a
    <3>3. Binary(a.type) = FALSE
      BY <2>3 DEF Binary
    <3>4. ReadsBinary(call, a) = FALSE
      BY <1>4, <2>3, <3>2 DEF ReadsBinary
    <3> QED
      BY <3>3, <3>4
  <2> HIDE DEF a, q
  <2> QED
    BY <1>5, <2>2, <2>3
<1>7. AcceptUnheard(call) \/ ~EncodingRefused(call, a)
  <2> SUFFICES ASSUME ~AcceptUnheard(call), encoding # None
               PROVE  \E k \in 1 .. Len(call.accept) : call.accept[k] = encoding
    BY <1>5 DEF EncodingRefused
  <2>1. /\ q.accept = RequestOf(call).accept /\ q.encoding = RequestOf(call).encoding
    BY <1>1, RequestIs, RoutedIs
  <2>2. /\ UseGet(call) => q.accept = <<>>
        /\ ~UseGet(call) => q.accept = call.accept
        /\ q.encoding \in {None, call.send}
    BY <2>1, RequestIs
  <2>3. call.accept \in {<<>>, <<"gzip">>, <<"custom", "br">>}
    BY DEF TypeOK, Calls
  <2>4. Len(q.accept) \in Nat
    BY <2>2, <2>3
  <2>5. encoding = ResponseCompression(q)
    BY <1>3
  <2>6. \/ q.accept = <<>> /\ q.encoding # None
        \/ \E k \in 1 .. Len(q.accept) : q.accept[k] = ResponseCompression(q)
    BY <2>4, <2>5, CompressionIs
  <2>7. CASE q.accept = <<>> /\ q.encoding # None
    BY <2>2, <2>7 DEF AcceptUnheard
  <2>8. CASE /\ q.accept # <<>>
             /\ \E k \in 1 .. Len(q.accept) : q.accept[k] = ResponseCompression(q)
    BY <2>2, <2>5, <2>8
  <2>9. CASE /\ q.accept = <<>>
             /\ \E k \in 1 .. Len(q.accept) : q.accept[k] = ResponseCompression(q)
    BY <2>9
  <2> QED
    BY <2>6, <2>7, <2>8, <2>9
<1> HIDE DEF a
<1> QED
  BY <1>4, <1>5, <1>6, <1>7

\* Nothing that is known of keeps a call from its implementation.
Unhindered ==
    /\ Meant(call) # {}
    /\ \A i \in Meant(call) : call.protocol \notin WhichProtocols(regs[i].off, server.off)
    /\ \A j \in 1 .. Len(regs) : ~Confusable(regs[j], call)
    /\ ~Hindered(call)

\* Such a call succeeds.
Fit(a) ==
    call # NoCall /\ Unhindered =>
        a.status = 200 /\ a.by # 0 /\ a.code = "ok" /\ ~EncodingRefused(call, a)

\* Its request has the address that it means, and the handler that is found is the
\* one that is meant.
LEMMA MeantIsFound ==
    ASSUME TypeOK, call # NoCall, req = RequestOf(call), Unhindered
    PROVE  Lookup(req) \in Meant(call)
<1>1. SameAddress(req, call)
  <2>1. ~((call.protocol # "triple" \/ ~Unary(call.path))
              /\ (call.version # <<>> \/ call.group # <<>>))
    BY DEF Unhindered, Hindered
  <2>2. /\ req.path = call.path
        /\ call.protocol = "triple" /\ Unary(call.path) =>
             req.version = call.version /\ req.group = call.group
        /\ ~(call.protocol = "triple" /\ Unary(call.path)) =>
             req.version = <<>> /\ req.group = <<>>
    BY RequestIs
  <2> QED
    BY <2>1, <2>2 DEF SameAddress
<1>2. PICK i \in Meant(call) : TRUE
  BY DEF Unhindered
<1>3. /\ i \in 1 .. Len(regs) /\ SameAddress(regs[i], call)
      /\ \A j \in 1 .. Len(regs) : SameAddress(regs[j], call) => j <= i
  BY DEF Meant
<1>4. \A j \in 1 .. Len(regs) : SameAddress(regs[j], req) <=> SameAddress(regs[j], call)
  BY <1>1 DEF SameAddress
<1>5. \A j \in 1 .. Len(regs) : ~Confusable(regs[j], req)
  <2> TAKE j \in 1 .. Len(regs)
  <2>1. ~Confusable(regs[j], call)
    BY DEF Unhindered
  <2>2. req.path = call.path /\ req.version = call.version /\ req.group = call.group
    BY <1>1 DEF SameAddress
  <2> QED
    BY <2>1, <2>2, Zenon DEF Confusable
<1>6. Key(regs[i]) = Key(req)
  BY <1>3, <1>4, KeyTells
<1>7. /\ Lookup(req) \in 1 .. Len(regs)
      /\ Key(regs[Lookup(req)]) = Key(req)
      /\ \A j \in 1 .. Len(regs) : Key(regs[j]) = Key(req) => j <= Lookup(req)
  BY <1>3, <1>6, LookupIs
<1>8. SameAddress(regs[Lookup(req)], call)
  BY <1>4, <1>5, <1>7, KeyTells
<1>9. \A j \in 1 .. Len(regs) : SameAddress(regs[j], call) => j <= Lookup(req)
  BY <1>4, <1>7, KeyTells
<1> QED
  BY <1>7, <1>8, <1>9 DEF Meant

\* Its handler is reached: negotiation refuses neither verb nor content type.
LEMMA CallIsSelected ==
    ASSUME TypeOK, call # NoCall, req = RequestOf(call), Unhindered, NEW large \in BOOLEAN
    PROVE  RequestHandler(req, large) =
               Handler(call.protocol, Lookup(req), Routed(req), large)
<1> DEFINE i == Lookup(req)
           q == Routed(req)
<1>1. call.protocol \in Protocols /\ call.binary \in BOOLEAN
  BY DEF TypeOK, Calls
<1>2. i \in Meant(call)
  BY MeantIsFound
<1>3. i \in 1 .. Len(regs) /\ SameAddress(regs[i], call)
  BY <1>2 DEF Meant
<1>4. i # 0
  BY <1>3 DEF TypeOK
<1>5. RequestHandler(req, large) = NegotiateProtocol(i, q, large)
  BY <1>4, Zenon DEF RequestHandler, Routed
<1>6. /\ q.path = call.path /\ q.method = req.method /\ q.contentType = req.contentType
      /\ q.httpVersion = call.httpVersion
  BY <1>3, RequestIs, RoutedIs DEF SameAddress
<1>7. call.protocol \in Enabled(regs[i])
  BY <1>1, <1>2 DEF Unhindered, Enabled
<1>8. ~(Kind(q.path) = "bidi" /\ q.httpVersion = 1)
  BY <1>6 DEF Unhindered, Hindered
<1> HIDE DEF i, q
<1>9. q.method \in AllowedMethods(call.protocol, q.path)
  <2>1. CASE UseGet(call)
    <3>1. q.method = "GET"
      BY <1>6, <2>1, RequestIs
    <3> QED
      BY <1>6, <2>1, <3>1 DEF AllowedMethods, UseGet
  <2>2. CASE ~UseGet(call)
    <3>1. q.method = "POST"
      BY <1>6, <2>2, RequestIs
    <3> QED
      BY <3>1 DEF AllowedMethods
  <2> QED
    BY <2>1, <2>2
<1>10. call.protocol \in MatchingMethod(i, q)
  BY <1>7, <1>9 DEF MatchingMethod
<1>11. \/ Cardinality(MatchingMethod(i, q)) = 1 /\ q.contentType = Missing
       \/ MatchingContentTypes(i, q) # {}
  <2>1. CASE UseGet(call)
    <3>1. q.method = "GET" /\ q.contentType = Missing /\ call.protocol = "triple"
      BY <1>6, <2>1, RequestIs DEF UseGet
    <3>2. \A p \in MatchingMethod(i, q) : p = "triple"
      BY <3>1 DEF MatchingMethod, AllowedMethods
    <3>3. MatchingMethod(i, q) = {"triple"}
      BY <1>10, <3>1, <3>2
    <3>4. Cardinality(MatchingMethod(i, q)) = 1
      BY <3>3, FS_Singleton
    <3> QED
      BY <3>1, <3>4
  <2>2. CASE ~UseGet(call)
    <3>1. q.contentType = RequestType(call)
      BY <1>6, <2>2, RequestIs
    <3>2. SupportedContentType(call.protocol, q.path, q.contentType)
      BY <1>1, <1>6, <3>1, RequestTypeIs
    <3> QED
      BY <1>10, <3>2 DEF MatchingContentTypes
  <2> QED
    BY <2>1, <2>2
<1>12. PICK protocol :
         Selects(protocol, i, q) /\ NegotiateProtocol(i, q, large) = Handler(protocol, i, q, large)
  BY <1>8, <1>10, <1>11, NegotiateIs
<1>13. protocol = call.protocol
  BY <1>12, CallSelects DEF q
<1> QED
  BY <1>5, <1>12, <1>13 DEF i, q

LEMMA TimeoutIs ==
    ASSUME TypeOK, call # NoCall
    PROVE  call.timeout \in Nat
<1>1. call.timeout \in {NoTimeout} \cup Timeouts
  BY DEF TypeOK, Calls
<1>2. NoTimeout \in Nat
  BY DEF NoTimeout
<1>3. \A t \in Timeouts : t \in Nat
  BY BoundsAssumption
<1> QED
  BY <1>1, <1>2, <1>3, Zenon

\* Nothing is raised before the implementation is called.
LEMMA CallIsAccepted ==
    ASSUME TypeOK, call # NoCall, req = RequestOf(call), Unhindered, NEW type
    PROVE  RefusedWith(call.protocol, Routed(req), type) = "ok"
<1> DEFINE q == Routed(req)
<1>1. /\ q.encoding \in {None, call.send} /\ q.timeout = call.timeout
      /\ q.protocolVersion = (call.protocol = "triple")
  BY RequestIs, RoutedIs
<1> HIDE DEF q
<1>2. ~RequireProtocolHeaderFails(call.protocol, q)
  BY <1>1 DEF RequireProtocolHeaderFails
<1>3. ~CompressionError(q)
  <2>1. call.send \in {None, "gzip", "custom"}
    BY DEF TypeOK, Calls
  <2>2. ~(call.send # None /\ (call.send = "custom" \/ server.adapter = "memory"))
    BY DEF Unhindered, Hindered
  <2> QED
    BY <1>1, <2>1, <2>2 DEF CompressionError, AcceptCompression
<1>4. ~ParseTimeoutFails(call.protocol, q)
  <2> SUFFICES ASSUME call.timeout # NoTimeout
               PROVE  /\ call.protocol = "triple" => ParseTripleTimeout(call.timeout)
                      /\ call.protocol # "triple" => ParseGrpcTimeout(call.timeout)
                      /\ ~(call.timeout > server.maxTimeout)
    BY <1>1 DEF ParseTimeoutFails
  <2>1. /\ ~(call.timeout > server.maxTimeout) /\ ~(call.timeout > TimerLimit)
        /\ ~(call.protocol # "triple" /\ Digits(call.timeout) > 8)
    BY Zenon DEF Unhindered, Hindered
  <2>2. call.timeout \in Nat
    BY TimeoutIs
  <2>3. Digits(call.timeout) \in Nat /\ Digits(call.timeout) <= 10
    BY <2>1, <2>2 DEF Digits, TimerLimit
  <2>4. call.protocol # "triple" => Digits(call.timeout) <= 8
    BY <2>1, <2>3
  <2> QED
    BY <2>1, <2>3, <2>4 DEF ParseTripleTimeout, ParseGrpcTimeout
<1> QED
  BY <1>2, <1>3, <1>4, Zenon DEF RefusedWith, q

LEMMA FitIs ==
    ASSUME TypeOK, call # NoCall => req = RequestOf(call), NEW large \in BOOLEAN
    PROVE  Fit(RequestHandler(req, large))
<1> DEFINE a == RequestHandler(req, large)
           i == Lookup(req)
           q == Routed(req)
<1> SUFFICES ASSUME call # NoCall, Unhindered
             PROVE  a.status = 200 /\ a.by # 0 /\ a.code = "ok" /\ ~EncodingRefused(call, a)
  BY DEF Fit
<1>1. req = RequestOf(call)
  OBVIOUS
<1>2. call.protocol \in Protocols /\ call.binary \in BOOLEAN
  BY DEF TypeOK, Calls
<1>3. a = Handler(call.protocol, i, q, large)
  BY <1>1, CallIsSelected
<1>4. i \in Meant(call)
  BY <1>1, MeantIsFound
<1>5. i \in 1 .. Len(regs) /\ regs[i].path = call.path
  BY <1>4 DEF Meant, SameAddress
<1>6. /\ q.path = call.path /\ q.method = req.method /\ q.contentType = req.contentType
      /\ q.query = req.query
  BY <1>1, <1>5, RequestIs, RoutedIs
<1> HIDE DEF a, i, q
<1>7. TypeFor(call.protocol, q) = RequestType(call)
  BY <1>1, <1>6, RequestIs DEF TypeFor, UseGet, Unary
<1>8. call.protocol # "triple" => q.contentType = RequestType(call)
  BY <1>7 DEF TypeFor
<1>9. Parses(call.protocol, q)
  <2>1. /\ call.protocol = "grpc" => ParsesGrpc(RequestType(call))
        /\ call.protocol = "grpcweb" => ParsesGrpcWeb(RequestType(call))
        /\ call.protocol = "triple" => ParsesTriple(call.path, RequestType(call))
    BY <1>2, RequestTypeIs
  <2>2. call.protocol = "triple" => ParsesTriple(q.path, TypeFor(call.protocol, q))
    BY <1>6, <1>7, <2>1
  <2>3. CASE call.protocol = "triple"
    BY <2>2, <2>3 DEF Parses
  <2>4. CASE call.protocol = "grpc"
    BY <1>8, <2>1, <2>4 DEF Parses
  <2>5. CASE call.protocol = "grpcweb"
    BY <1>8, <2>1, <2>5 DEF Parses
  <2> QED
    BY <1>2, <2>3, <2>4, <2>5 DEF Protocols
<1>10. ~(Rejects(q) /\ ~(call.protocol = "triple" /\ Unary(q.path)))
  <2> SUFFICES ASSUME Rejects(q), ~(call.protocol = "triple" /\ Unary(q.path))
               PROVE  FALSE
    OBVIOUS
  <2>1. server.parser /\ q.contentType \in {"application/json", "application/connect+json",
                          "application/grpc+json", "application/grpc-web+json"}
    BY DEF Rejects, GetPreparsedBody
  <2>2. q.contentType = RequestType(call)
    BY <1>6, <1>7 DEF TypeFor
  <2>3. ~Binary(q.contentType)
    BY <2>1 DEF Binary
  <2>4. ~call.binary
    BY <1>2, <2>2, <2>3, RequestTypeIs
  <2> QED
    BY <1>6, <2>1, <2>4 DEF Unhindered, Hindered
<1>11. PICK encoding :
         a = Sent(call.protocol, q,
                  Answer(i, call.protocol, q, TypeFor(call.protocol, q), encoding))
  BY <1>2, <1>3, <1>9, <1>10, HandlerIs
<1>12. /\ a.by = i
       /\ a.code = "ok" => a.status = 200
       /\ a.code = RefusedWith(call.protocol, q, TypeFor(call.protocol, q))
  BY <1>11, AnswerFields
<1>13. a.code = "ok"
  BY <1>1, <1>12, CallIsAccepted DEF q
<1>14. a.by > 0
  BY <1>5, <1>12 DEF TypeOK
<1>15. ~EncodingRefused(call, a)
  <2>1. Readable(a)
    BY ReadableIs DEF a
  <2>2. ~AcceptUnheard(call)
    BY DEF Unhindered, Hindered
  <2> QED
    BY <1>14, <2>1, <2>2 DEF Readable
<1> QED
  BY <1>12, <1>13, <1>14, <1>15 DEF a

-----------------------------------------------------------------------------
(* The inductive invariant. *)

\* What is told is what the client makes of the answer, or its own timer has fired.
Told ==
    phase = "done" =>
        /\ call # NoCall
        /\ outcome = Outcome(call, res) \/ TimerFires(call)

\* The answer to a request is right, keeps the timeout, can be read, and is the one of
\* the implementation unless something known is in the way.
Inv ==
    /\ TypeOK
    /\ Asked
    /\ phase \in Settled => Right(res) /\ Kept(res) /\ Readable(res) /\ Fit(res)
    /\ Told

LEMMA InitInv == Init => Inv
<1> SUFFICES ASSUME Init PROVE Inv
  OBVIOUS
<1>1. server \in Servers /\ regs = <<>> /\ call = NoCall /\ phase = "setup"
  BY DEF Init
<1>2. regs \in Seq(Registrations)
  BY <1>1
<1> QED
  BY <1>1, <1>2 DEF Inv, TypeOK, Asked, Settled, Told

\* The address that a call means, and what may hinder it, depend on the server and its
\* registrations only.
LEMMA RegisterInv == Inv /\ Register => Inv'
<1> SUFFICES ASSUME Inv, Register PROVE Inv'
  OBVIOUS
<1>1. /\ phase = "setup" /\ phase' = "setup" /\ call' = call /\ server' = server
  BY DEF Register
<1>2. PICK reg \in Registrations : regs' = Append(regs, reg)
  BY DEF Register
<1>3. regs' \in Seq(Registrations)
  BY <1>2 DEF Inv, TypeOK
<1>4. call = NoCall
  BY <1>1 DEF Inv, Asked
<1> QED
  BY <1>1, <1>3, <1>4 DEF Inv, TypeOK, Asked, Settled, Told, NoCall

LEMMA CallInv == Inv /\ Call => Inv'
<1> SUFFICES ASSUME Inv, Call PROVE Inv'
  OBVIOUS
<1>1. /\ phase' = "requested" /\ server' = server /\ regs' = regs
      /\ req' = RequestOf(call')
  BY DEF Call
<1>3. req' = RequestOf(call)'
  BY <1>1 DEF RequestOf, WithServiceOptions, RequestHeader, UseGet, ToGetRequest, RequestType,
     TripleRequestType, Unary, Kind
<1>2. call' \in Calls
  <2>1. PICK protocol \in Protocols, path \in Paths, version \in Labels, group \in Labels :
          \E t \in Transports(path, version, group) :
            call' = [protocol |-> protocol, path |-> path, version |-> version, group |-> group,
                 binary |-> t.binary, httpVersion |-> t.httpVersion,
                 useHttpGet |-> t.useHttpGet, big |-> t.big, send |-> t.send,
                 accept |-> t.accept, timeout |-> t.timeout]
    BY DEF Call
  <2>2. PICK t \in Transports(path, version, group) :
            call' = [protocol |-> protocol, path |-> path, version |-> version, group |-> group,
                 binary |-> t.binary, httpVersion |-> t.httpVersion,
                 useHttpGet |-> t.useHttpGet, big |-> t.big, send |-> t.send,
                 accept |-> t.accept, timeout |-> t.timeout]
    BY <2>1
  <2>3. /\ t.binary \in BOOLEAN /\ t.httpVersion \in {1, 2} /\ t.useHttpGet \in BOOLEAN
        /\ t.big \in BOOLEAN /\ t.send \in {None, "gzip", "custom"}
        /\ t.accept \in {<<>>, <<"gzip">>, <<"custom", "br">>}
        /\ t.timeout \in {NoTimeout} \cup Timeouts
    BY <2>2 DEF Transports, PlainTransport
  <2> QED
    BY <2>2, <2>3 DEF Calls
<1> QED
  BY <1>1, <1>2, <1>3 DEF Inv, TypeOK, Asked, Settled, Told

LEMMA ForeignRequestInv == Inv /\ ForeignRequest => Inv'
<1> SUFFICES ASSUME Inv, ForeignRequest PROVE Inv'
  OBVIOUS
<1>1. /\ phase = "setup" /\ phase' = "requested" /\ call' = call /\ server' = server
      /\ regs' = regs
  BY DEF ForeignRequest
<1>2. call = NoCall
  BY <1>1 DEF Inv, Asked
<1> QED
  BY <1>1, <1>2 DEF Inv, TypeOK, Asked, Settled, Told, NoCall

\* What holds of an answer goes on to hold of it while nothing else changes.
LEMMA AnswerKept ==
    ASSUME UNCHANGED <<server, regs, call, req>>, NEW a, res' = a,
           Right(a), Kept(a), Readable(a), Fit(a)
    PROVE  Right(res)' /\ Kept(res)' /\ Readable(res)' /\ Fit(res)'
<1>1. Right(res)'
  BY DEF Right, Confusable, SameAddress
<1>2. Kept(res)'
  BY DEF Kept
<1>3. Readable(res)'
  BY DEF Readable, AcceptUnheard, UseGet, Kind, EncodingRefused, ReadsBinary, Unary
<1>4. Unhindered' <=> Unhindered
  BY DEF Unhindered, Meant, SameAddress, WhichProtocols, Confusable, Hindered, AcceptUnheard,
     UseGet, Kind, Unary
<1>5. Fit(res)'
  BY <1>4 DEF Fit, EncodingRefused
<1> QED
  BY <1>1, <1>2, <1>3, <1>5

LEMMA AskedKept ==
    ASSUME UNCHANGED <<server, regs, call, req>>, TypeOK, Asked,
           phase' \in {"requested", "answered", "done"}
    PROVE  TypeOK' /\ Asked'
<1>1. RequestOf(call)' = RequestOf(call)
  BY DEF RequestOf, WithServiceOptions, RequestHeader, UseGet, ToGetRequest, RequestType,
     TripleRequestType, Unary, Kind
<1> QED
  BY <1>1 DEF TypeOK, Asked

LEMMA ServeInv == Inv /\ Serve => Inv'
<1> SUFFICES ASSUME Inv, Serve PROVE Inv'
  OBVIOUS
<1>1. UNCHANGED <<server, regs, call, req>> /\ phase' = "answered"
  BY DEF Serve
<1>2. PICK large \in BOOLEAN : res' = RequestHandler(req, large)
  BY DEF Serve
<1>3. TypeOK /\ (call # NoCall => req = RequestOf(call))
  BY DEF Inv, Asked
<1>4. /\ Right(RequestHandler(req, large)) /\ Kept(RequestHandler(req, large))
      /\ Readable(RequestHandler(req, large)) /\ Fit(RequestHandler(req, large))
  BY <1>3, RightIs, KeptIs, ReadableIs, FitIs
<1>5. Right(res)' /\ Kept(res)' /\ Readable(res)' /\ Fit(res)'
  BY <1>1, <1>2, <1>4, AnswerKept
<1>6. TypeOK' /\ Asked'
  BY <1>1, AskedKept DEF Inv
<1> QED
  BY <1>1, <1>5, <1>6 DEF Inv, Told

\* An answer that was given stays what it is when the caller is told.
LEMMA SettledKept ==
    ASSUME Inv, phase = "answered", phase' = "done",
           UNCHANGED <<server, regs, call, req, res>>
    PROVE  /\ TypeOK' /\ Asked'
           /\ Right(res)' /\ Kept(res)' /\ Readable(res)' /\ Fit(res)'
<1>1. Right(res) /\ Kept(res) /\ Readable(res) /\ Fit(res)
  BY DEF Inv, Settled
<1>2. Right(res)' /\ Kept(res)' /\ Readable(res)' /\ Fit(res)'
  BY <1>1, AnswerKept
<1>3. TypeOK' /\ Asked'
  BY AskedKept DEF Inv
<1> QED
  BY <1>2, <1>3

LEMMA ReceiveInv == Inv /\ Receive => Inv'
<1> SUFFICES ASSUME Inv, Receive PROVE Inv'
  OBVIOUS
<1>1. /\ phase = "answered" /\ phase' = "done" /\ call # NoCall
      /\ UNCHANGED <<server, regs, call, req, res>> /\ outcome' = Outcome(call, res)
  BY DEF Receive
<1>2. Outcome(call, res)' = Outcome(call, res)
  BY <1>1 DEF Outcome, EncodingRefused, HttpCode
<1>3. Told'
  <2>1. (call # NoCall)'
    BY <1>1 DEF NoCall
  <2> QED
    BY <1>1, <1>2, <2>1 DEF Told
<1> QED
  BY <1>1, <1>3, SettledKept DEF Inv

LEMMA ExpireInv == Inv /\ Expire => Inv'
<1> SUFFICES ASSUME Inv, Expire PROVE Inv'
  OBVIOUS
<1>1. /\ phase = "answered" /\ phase' = "done" /\ call # NoCall
      /\ UNCHANGED <<server, regs, call, req, res>> /\ TimerFires(call)
  BY DEF Expire
<1>2. Told'
  BY <1>1 DEF Told, TimerFires, NoCall
<1> QED
  BY <1>1, <1>2, SettledKept DEF Inv

LEMMA StutterInv == Inv /\ UNCHANGED vars => Inv'
<1> SUFFICES ASSUME Inv, UNCHANGED vars PROVE Inv'
  OBVIOUS
<1>1. UNCHANGED <<server, regs, call, req, res, outcome, phase>>
  BY DEF vars
<1>2. TypeOK' /\ Asked'
  <2>1. RequestOf(call)' = RequestOf(call)
    BY <1>1 DEF RequestOf, WithServiceOptions, RequestHeader, UseGet, ToGetRequest,
       RequestType, TripleRequestType, Unary, Kind
  <2> QED
    BY <1>1, <2>1 DEF Inv, TypeOK, Asked
<1>3. phase' \in Settled => Right(res)' /\ Kept(res)' /\ Readable(res)' /\ Fit(res)'
  <2> SUFFICES ASSUME phase \in Settled
               PROVE  Right(res)' /\ Kept(res)' /\ Readable(res)' /\ Fit(res)'
    BY <1>1
  <2>1. Right(res) /\ Kept(res) /\ Readable(res) /\ Fit(res)
    BY DEF Inv
  <2> QED
    BY <1>1, <2>1, AnswerKept
<1>4. Told'
  <2>1. Outcome(call, res)' = Outcome(call, res)
    BY <1>1 DEF Outcome, EncodingRefused, HttpCode
  <2>2. TimerFires(call)' <=> TimerFires(call)
    BY <1>1 DEF TimerFires
  <2> QED
    BY <1>1, <2>1, <2>2 DEF Inv, Told, NoCall
<1> QED
  BY <1>2, <1>3, <1>4 DEF Inv, Settled

LEMMA StepInv == Inv /\ [Next]_vars => Inv'
BY RegisterInv, CallInv, ForeignRequestInv, ServeInv, ReceiveInv, ExpireInv, StutterInv
   DEF Next

\* The invariant holds, for all adapters, registrations and timeouts.
THEOREM Invariance == Spec => []Inv
<1>1. Init => Inv
  BY InitInv
<1>2. Inv /\ [Next]_vars => Inv'
  BY StepInv
<1> QED
  BY <1>1, <1>2, PTL DEF Spec

-----------------------------------------------------------------------------
(* What it implies. *)

\* A request is served by the implementation that was registered last for its method,
\* version and group, unless the adapter takes another address for this one.
THEOREM RightImplementation == Spec => []RightHandler
<1>1. Inv => RightHandler
  BY DEF Inv, RightHandler, Served, Settled, Right
<1> QED
  BY <1>1, Invariance, PTL

\* An answer to a client, refusals included, is in the protocol, in the format that the
\* client reads with its status, and in a compression that the client accepts, unless
\* the request did not say what it accepts.
THEOREM AnswersReadable == Spec => []ResponseReadable
<1>1. Inv => ResponseReadable
  BY DEF Inv, ResponseReadable, Served, Settled, Readable
<1> QED
  BY <1>1, Invariance, PTL

\* An implementation has the deadline of its client, in every protocol and by every
\* verb.
THEOREM DeadlinePassedOn == Spec => []TimeoutKept
<1>1. Inv => TimeoutKept
  BY DEF Inv, TimeoutKept, Served, Settled, Kept
<1> QED
  BY <1>1, Invariance, PTL

\* A call that is meant for a registered and enabled implementation succeeds, unless
\* one of the listed hindrances is in its way.
THEOREM CallsSucceed == Spec => []CallSucceeds
<1>1. Inv => CallSucceeds
  <2> SUFFICES ASSUME Inv, phase = "done", Unhindered
               PROVE  outcome = "ok"
    BY Zenon DEF CallSucceeds, Unhindered
  <2>1. call # NoCall /\ Fit(res)
    BY DEF Inv, Told, Settled
  <2>2. /\ res.status = 200 /\ res.by # 0 /\ res.code = "ok"
        /\ ~EncodingRefused(call, res)
    BY <2>1 DEF Fit
  <2>3. ~TimerFires(call)
    <3>1. call.timeout \in Nat
      BY <2>1, TimeoutIs DEF Inv
    <3>2. ~(call.timeout # NoTimeout /\ call.timeout > TimerLimit)
      BY Zenon DEF Unhindered, Hindered
    <3> QED
      BY <3>1, <3>2 DEF TimerFires, TimerLimit, NoTimeout
  <2>4. outcome = Outcome(call, res)
    BY <2>3 DEF Inv, Told
  <2> QED
    BY <2>2, <2>4 DEF Outcome
<1> QED
  BY <1>1, Invariance, PTL

-----------------------------------------------------------------------------
(* The window of seconds. *)

WindowType ==
    /\ clock \in Nat /\ clock <= MaxTime
    /\ late \in Nat
    /\ interval \in {"none", "running", "stopped"}
    /\ arrivals \in [0 .. MaxTime -> Nat]
    /\ DOMAIN counter \subseteq 0 .. clock
    /\ counter \in [DOMAIN counter -> Nat]

\* What the counter remembers is right, and it remembers every second with a
\* request that the interval may not have removed yet.
Remembered ==
    /\ \A s \in DOMAIN counter : counter[s] = arrivals[s]
    /\ \A s \in 0 .. MaxTime :
           arrivals[s] > 0 /\ s + Retained >= clock => s \in DOMAIN counter

\* Without an interval there was no request.
NothingBefore == interval = "none" => DOMAIN counter = {}

WInv == WindowType /\ Remembered /\ NothingBefore /\ WindowBounded

LEMMA InitWInv == MetersInit => WInv
<1> SUFFICES ASSUME MetersInit PROVE WInv
  OBVIOUS
<1>1. /\ clock = 0 /\ late = 0 /\ interval = "none" /\ counter = [s \in {} |-> 0]
      /\ arrivals = [s \in 0 .. MaxTime |-> 0]
  BY DEF MetersInit
<1>2. MaxTime \in Nat
  BY MetersAssumption
<1>3. DOMAIN counter = {} /\ counter \in [DOMAIN counter -> Nat]
  BY <1>1
<1>4. WindowType
  BY <1>1, <1>2, <1>3 DEF WindowType
<1>5. Remembered
  BY <1>1, <1>3 DEF Remembered
<1>6. NothingBefore /\ WindowBounded
  BY <1>3 DEF NothingBefore, WindowBounded
<1>7. QED
  BY <1>4, <1>5, <1>6 DEF WInv

LEMMA IncrementIs ==
    ASSUME WindowType
    PROVE  /\ DOMAIN Increment(counter) = DOMAIN counter \cup {clock}
           /\ \A s \in DOMAIN counter \ {clock} : Increment(counter)[s] = counter[s]
           /\ clock \in DOMAIN counter => Increment(counter)[clock] = counter[clock] + 1
           /\ clock \notin DOMAIN counter => Increment(counter)[clock] = 1
           /\ Increment(counter) \in [DOMAIN counter \cup {clock} -> Nat]
<1>1. counter \in [DOMAIN counter -> Nat]
  BY DEF WindowType
<1>2. CASE clock \in DOMAIN counter
  <2>1. Increment(counter) = [counter EXCEPT ![clock] = @ + 1]
    BY <1>2 DEF Increment, CurrentSecond
  <2>2. DOMAIN counter \cup {clock} = DOMAIN counter
    BY <1>2
  <2>3. QED
    BY <1>1, <1>2, <2>1, <2>2
<1>3. CASE clock \notin DOMAIN counter
  <2>1. Increment(counter) = [s \in DOMAIN counter \cup {clock} |-> IF s = clock THEN 1 ELSE counter[s]]
    BY <1>3 DEF Increment, CurrentSecond
  <2>2. QED
    BY <1>1, <1>3, <2>1
<1>4. QED
  BY <1>2, <1>3

LEMMA RequestStep == WInv /\ Request /\ clock' = clock => WInv'
<1> SUFFICES ASSUME WInv, Request, clock' = clock PROVE WInv'
  OBVIOUS
<1>1. WindowType /\ Remembered /\ NothingBefore /\ WindowBounded
  BY DEF WInv
<1>2. /\ counter' = Increment(counter)
      /\ interval' = IF interval = "none" THEN "running" ELSE interval
      /\ late' = IF interval = "none" THEN 0 ELSE late
      /\ arrivals' = [arrivals EXCEPT ![clock] = @ + 1]
  BY DEF Request
<1>3. clock \in 0 .. MaxTime /\ MaxTime \in Nat /\ Retained \in Nat /\ clock \in Nat
  BY <1>1, MetersAssumption DEF WindowType
<1>4. /\ arrivals' \in [0 .. MaxTime -> Nat]
      /\ arrivals'[clock] = arrivals[clock] + 1
      /\ \A s \in 0 .. MaxTime : s # clock => arrivals'[s] = arrivals[s]
  BY <1>1, <1>2, <1>3 DEF WindowType
<1>5. /\ DOMAIN counter' = DOMAIN counter \cup {clock}
      /\ \A s \in DOMAIN counter \ {clock} : counter'[s] = counter[s]
      /\ clock \in DOMAIN counter => counter'[clock] = counter[clock] + 1
      /\ clock \notin DOMAIN counter => counter'[clock] = 1
      /\ counter' \in [DOMAIN counter' -> Nat]
  BY <1>1, <1>2, IncrementIs
<1>6. WindowType'
  BY <1>1, <1>2, <1>3, <1>4, <1>5 DEF WindowType
<1>7. Remembered'
  <2>1. ASSUME NEW s \in DOMAIN counter' PROVE counter'[s] = arrivals'[s]
    <3>1. CASE s # clock
      <4>1. s \in DOMAIN counter /\ s \in 0 .. MaxTime
        BY <1>1, <1>3, <1>5, <2>1, <3>1 DEF WindowType
      <4>2. QED
        BY <1>1, <1>4, <1>5, <3>1, <4>1 DEF Remembered
    <3>2. CASE s = clock /\ clock \in DOMAIN counter
      BY <1>1, <1>4, <1>5, <3>2 DEF Remembered
    <3>3. CASE s = clock /\ clock \notin DOMAIN counter
      <4>1. arrivals[clock] \in Nat /\ ~(arrivals[clock] > 0)
        BY <1>1, <1>3, <3>3 DEF Remembered, WindowType
      <4>2. QED
        BY <1>4, <1>5, <3>3, <4>1
    <3>4. QED
      BY <3>1, <3>2, <3>3
  <2>2. ASSUME NEW s \in 0 .. MaxTime, arrivals'[s] > 0, s + Retained >= clock
        PROVE  s \in DOMAIN counter'
    BY <1>1, <1>4, <1>5, <2>2 DEF Remembered
  <2>3. QED
    BY <2>1, <2>2 DEF Remembered
<1>8. NothingBefore'
  BY <1>2 DEF NothingBefore
<1>9. WindowBounded'
  <2> SUFFICES ASSUME interval' # "stopped", NEW s \in DOMAIN counter'
               PROVE  s + Retained + late' >= clock
    BY DEF WindowBounded
  <2>1. late' \in Nat /\ late \in Nat
    BY <1>1, <1>6 DEF WindowType
  <2>2. CASE s = clock
    <3>1. \A c, r, l \in Nat : c + r + l >= c
      OBVIOUS
    <3>2. clock + Retained + late' >= clock
      BY <1>3, <2>1, <3>1, Zenon
    <3>3. QED
      BY <2>2, <3>2, Zenon
  <2>3. CASE s # clock
    <3>1. s \in DOMAIN counter
      BY <1>5, <2>3
    <3>2. interval = interval' /\ late' = late
      BY <1>1, <1>2, <3>1 DEF NothingBefore
    <3>3. QED
      BY <1>1, <3>1, <3>2 DEF WindowBounded
  <2>4. QED
    BY <2>2, <2>3
<1>10. QED
  BY <1>6, <1>7, <1>8, <1>9 DEF WInv

LEMMA TickStep == WInv /\ Tick => WInv'
<1> SUFFICES ASSUME WInv, Tick PROVE WInv'
  OBVIOUS
<1>1. WindowType /\ Remembered /\ NothingBefore /\ WindowBounded
  BY DEF WInv
<1>2. /\ clock < MaxTime /\ clock' = clock + 1
      /\ late' = IF interval = "running" THEN late + 1 ELSE late
      /\ UNCHANGED <<counter, interval, arrivals>>
  BY DEF Tick
<1>3. MaxTime \in Nat /\ Retained \in Nat /\ clock \in Nat /\ late \in Nat
      /\ DOMAIN counter \subseteq 0 .. clock
  BY <1>1, MetersAssumption DEF WindowType
<1>4. WindowType'
  BY <1>1, <1>2, <1>3 DEF WindowType
<1>5. Remembered'
  BY <1>1, <1>2, <1>3 DEF Remembered
<1>6. NothingBefore'
  BY <1>1, <1>2 DEF NothingBefore
<1>7. WindowBounded'
  <2> SUFFICES ASSUME interval # "stopped", NEW s \in DOMAIN counter
               PROVE  s + Retained + late' >= clock + 1
    BY <1>2 DEF WindowBounded
  <2>1. interval = "running"
    BY <1>1 DEF NothingBefore, WindowType
  <2>2. s + Retained + late >= clock /\ s \in Nat
    BY <1>1, <1>3 DEF WindowBounded
  <2>3. QED
    BY <1>2, <1>3, <2>1, <2>2
<1>8. QED
  BY <1>4, <1>5, <1>6, <1>7 DEF WInv

LEMMA CleanUpStep == WInv /\ CleanUp => WInv'
<1> SUFFICES ASSUME WInv, CleanUp PROVE WInv'
  OBVIOUS
<1>1. WindowType /\ Remembered /\ NothingBefore /\ WindowBounded
  BY DEF WInv
<1>2. /\ late' = 0 /\ interval = "running" /\ counter' = Cleaned(counter)
      /\ UNCHANGED <<interval, arrivals, clock>>
  BY DEF CleanUp
<1>3. /\ DOMAIN counter' = {s \in DOMAIN counter : s + Retained >= clock}
      /\ \A s \in DOMAIN counter' : counter'[s] = counter[s]
      /\ counter' \in [DOMAIN counter' -> Nat]
  BY <1>1, <1>2 DEF Cleaned, Restrict, CurrentSecond, WindowType
<1>4. WindowType'
  BY <1>1, <1>2, <1>3 DEF WindowType
<1>5. Remembered'
  BY <1>1, <1>2, <1>3 DEF Remembered
<1>6. NothingBefore'
  BY <1>2 DEF NothingBefore
<1>7. WindowBounded'
  <2> SUFFICES ASSUME NEW s \in DOMAIN counter' PROVE s + Retained + 0 >= clock
    BY <1>2 DEF WindowBounded
  <2>1. s \in Nat /\ Retained \in Nat /\ s + Retained >= clock
    BY <1>1, <1>3, MetersAssumption DEF WindowType
  <2>2. QED
    BY <2>1
<1>8. QED
  BY <1>4, <1>5, <1>6, <1>7 DEF WInv

\* The other steps leave the window alone, or stop its interval.
LEMMA OtherStep ==
    ASSUME WInv, UNCHANGED <<counter, late, clock, arrivals>>,
           interval' = interval \/ (interval = "running" /\ interval' = "stopped")
    PROVE  WInv'
BY DEF WInv, WindowType, Remembered, NothingBefore, WindowBounded

LEMMA Inductive == WInv /\ [MetersNext]_metersVars => WInv'
<1> SUFFICES ASSUME WInv, [MetersNext]_metersVars PROVE WInv'
  OBVIOUS
<1>1. CASE Accept \/ AnswerAside
  <2>1. Request /\ clock' = clock
    BY <1>1 DEF Accept, AnswerAside
  <2>2. QED
    BY <2>1, RequestStep
<1>2. CASE Fulfil \/ Reject
  BY <1>2, OtherStep DEF Fulfil, Reject
<1>3. CASE Tick
  BY <1>3, TickStep
<1>4. CASE CleanUp
  BY <1>4, CleanUpStep
<1>5. CASE Shutdown
  BY <1>5, OtherStep DEF Shutdown
<1>6. CASE \E t \in TransportIds : CreateTransport(t) \/ StartCall(t)
  BY <1>6, OtherStep DEF CreateTransport, StartCall, providerVars
<1>7. CASE \E n \in DOMAIN pending : CallAnswered(n) \/ CallFails(n)
  BY <1>7, OtherStep DEF CallAnswered, CallFails, providerVars
<1>8. CASE UNCHANGED metersVars
  BY <1>8, OtherStep DEF metersVars
<1>9. QED
  BY <1>1, <1>2, <1>3, <1>4, <1>5, <1>6, <1>7, <1>8 DEF MetersNext

\* The invariant of the window: what it remembers is right, and it forgets nothing
\* that is younger than the seconds it retains.
THEOREM WindowInvariance == MetersSpec => []WInv
BY InitWInv, Inductive, PTL DEF MetersSpec

\* Requests per second are exactly those of the second before, for any requests
\* and however late the interval is, with one retained second or more.
THEOREM QpsIsExact == MetersSpec => []QpsExact
<1>1. WInv => QpsExact
  <2> SUFFICES ASSUME WInv, clock > 0 PROVE GetQps = arrivals[clock - 1]
    BY DEF QpsExact
  <2>1. WindowType /\ Remembered
    BY DEF WInv
  <2>2. clock \in Nat /\ clock - 1 \in 0 .. MaxTime /\ MaxTime \in Nat
    BY <2>1, MetersAssumption DEF WindowType
  <2>3. CASE clock - 1 \in DOMAIN counter
    BY <2>1, <2>2, <2>3 DEF GetQps, CurrentSecond, Remembered
  <2>4. CASE clock - 1 \notin DOMAIN counter
    <3>1. clock - 1 + Retained >= clock
      BY <2>2, MetersAssumption
    <3>2. arrivals[clock - 1] \in Nat /\ ~(arrivals[clock - 1] > 0)
      BY <2>1, <2>2, <2>4, <3>1 DEF Remembered, WindowType
    <3>3. QED
      BY <2>4, <3>2 DEF GetQps, CurrentSecond
  <2>5. QED
    BY <2>3, <2>4
<1>2. QED
  BY <1>1, WindowInvariance, PTL

\* While its interval runs the counter grows no further than the seconds it
\* retains and those the interval is late.
THEOREM WindowIsBounded == MetersSpec => []WindowBounded
<1>1. WInv => WindowBounded
  BY DEF WInv
<1>2. QED
  BY <1>1, WindowInvariance, PTL

-----------------------------------------------------------------------------
(* The counters. *)

Metric == [total : Nat, succeed : Nat, failed : Nat]

CounterType ==
    /\ provider \in Metric /\ working \in Nat /\ aside \in Nat
    /\ consumer \in Metric /\ calls \in 0 .. MaxCalls
    /\ lists \in [TransportIds -> {"none", "own", "shared"}]
    /\ pending \in [TransportIds -> 0 .. calls]

CInv == CounterType /\ CountersBalanced

LEMMA TransportsFinite == IsFiniteSet(TransportIds) /\ Cardinality(TransportIds) = MaxTransports
BY FS_Interval, MetersAssumption DEF TransportIds

LEMMA WaitingFinite ==
    ASSUME NEW p
    PROVE  IsFiniteSet(Waiting(p)) /\ Cardinality(Waiting(p)) \in Nat
<1> DEFINE Passing == (1 .. MaxCalls) \X TransportIds
<1>1. IsFiniteSet(Passing)
  <2>1. IsFiniteSet(1 .. MaxCalls)
    BY FS_Interval, MetersAssumption
  <2>2. QED
    BY <2>1, TransportsFinite, FS_Product
<1> HIDE DEF Passing
<1>2. IsFiniteSet(TransportIds \X Passing)
  BY <1>1, TransportsFinite, FS_Product
<1>3. Waiting(p) \in SUBSET (TransportIds \X Passing)
  BY DEF Waiting, Passing
<1>4. QED
  BY <1>2, <1>3, FS_Subset, FS_CardinalityType

\* A call that passes n interceptors.
LEMMA OneMore ==
    ASSUME NEW p \in [TransportIds -> Nat], NEW n \in TransportIds, p[n] + 1 <= MaxCalls,
           NEW q, q = [p EXCEPT ![n] = @ + 1]
    PROVE  Cardinality(Waiting(q)) = Cardinality(Waiting(p)) + n
<1> DEFINE j == p[n] + 1
           f == [i \in 1 .. n |-> <<n, <<j, i>>>>]
           New == {<<n, <<j, i>>>> : i \in 1 .. n}
<1>1. n \in Nat /\ n \in 1 .. MaxTransports /\ j \in 1 .. MaxCalls /\ MaxTransports \in Nat
  BY MetersAssumption DEF TransportIds
<1>2. IsFiniteSet(New) /\ Cardinality(New) = n
  <2>1. f \in Bijection(1 .. n, New)
    <3>1. f \in [1 .. n -> New]
      OBVIOUS
    <3>2. \A a, b \in 1 .. n : f[a] = f[b] => a = b
      OBVIOUS
    <3>3. \A w \in New : \E a \in 1 .. n : f[a] = w
      OBVIOUS
    <3>4. QED
      BY <3>1, <3>2, <3>3 DEF Bijection, Injection, IsInjective, Surjection
  <2>2. IsFiniteSet(1 .. n) /\ Cardinality(1 .. n) = n
    BY <1>1, FS_Interval
  <2>3. ExistsBijection(1 .. n, New)
    BY <2>1 DEF ExistsBijection
  <2>4. QED
    BY <2>2, <2>3, FS_Bijection
<1>3. Waiting(q) = Waiting(p) \cup New /\ Waiting(p) \cap New = {}
  <2>1. /\ \A m \in TransportIds : q[m] = (IF m = n THEN j ELSE p[m])
        /\ \A m \in TransportIds : p[m] \in Nat
    OBVIOUS
  <2>2. ASSUME NEW m \in TransportIds, NEW h \in 1 .. MaxCalls, NEW i \in TransportIds
        PROVE  <<m, <<h, i>>>> \in Waiting(q) <=> <<m, <<h, i>>>> \in Waiting(p) \cup New
    <3>1. i \in 1 .. n <=> i <= n
      BY <1>1 DEF TransportIds
    <3>2. <<m, <<h, i>>>> \in New <=> m = n /\ h = j /\ i \in 1 .. n
      OBVIOUS
    <3>3. \A r : <<m, <<h, i>>>> \in Waiting(r) <=> h <= r[m] /\ i <= m
      BY DEF Waiting
    <3>4. h <= q[m] <=> h <= p[m] \/ (m = n /\ h = j)
      BY <1>1, <2>1
    <3>5. QED
      BY <3>1, <3>2, <3>3, <3>4
  <2>3. New \subseteq TransportIds \X ((1 .. MaxCalls) \X TransportIds)
    BY <1>1 DEF TransportIds
  <2>4. \A r : Waiting(r) \subseteq TransportIds \X ((1 .. MaxCalls) \X TransportIds)
    BY DEF Waiting
  <2>5. \A w \in TransportIds \X ((1 .. MaxCalls) \X TransportIds) :
           \E m \in TransportIds, h \in 1 .. MaxCalls, i \in TransportIds : w = <<m, <<h, i>>>>
    OBVIOUS
  <2>6. Waiting(q) = Waiting(p) \cup New
    <3> DEFINE All == TransportIds \X ((1 .. MaxCalls) \X TransportIds)
    <3>1. ASSUME NEW w \in All PROVE w \in Waiting(q) <=> w \in Waiting(p) \cup New
      <4>1. PICK m \in TransportIds, h \in 1 .. MaxCalls, i \in TransportIds : w = <<m, <<h, i>>>>
        BY <2>5
      <4> HIDE DEF New
      <4>2. QED
        BY <2>2, <4>1
    <3>2. Waiting(q) \subseteq All /\ Waiting(p) \subseteq All /\ New \subseteq All
      BY <2>3, <2>4
    <3> HIDE DEF All, New
    <3>3. QED
      BY <3>1, <3>2
  <2>7. \A w \in New : w \notin Waiting(p)
    BY <1>1, <2>1 DEF Waiting
  <2>8. QED
    BY <2>6, <2>7
<1> HIDE DEF New
<1>4. IsFiniteSet(Waiting(p)) /\ Cardinality(Waiting(p)) \in Nat
  BY WaitingFinite
<1>5. /\ Cardinality(Waiting(p) \cup New) =
            Cardinality(Waiting(p)) + Cardinality(New) - Cardinality(Waiting(p) \cap New)
      /\ Cardinality(Waiting(p) \cap New) = 0
  BY <1>2, <1>3, <1>4, FS_Union, FS_EmptySet
<1>6. Cardinality(Waiting(q)) = Cardinality(Waiting(p) \cup New)
  BY <1>3
<1>7. QED
  BY <1>1, <1>2, <1>4, <1>5, <1>6

Shared == {u \in TransportIds : lists[u] = "shared"}

LEMMA InterceptorsOf ==
    ASSUME CounterType, NEW t \in Created
    PROVE  /\ t \in TransportIds /\ Interceptors(t) \in TransportIds
           /\ Cardinality(Shared) <= 1 => Interceptors(t) = 1
<1>1. t \in TransportIds /\ lists[t] \in {"own", "shared"}
  BY DEF Created, CounterType
<1>2. MaxTransports \in Nat /\ 1 \in TransportIds
  BY <1>1, MetersAssumption DEF TransportIds
<1>3. IsFiniteSet(Shared) /\ Cardinality(Shared) \in Nat /\ Cardinality(Shared) <= MaxTransports
  <2>1. Shared \in SUBSET TransportIds
    BY DEF Shared
  <2>2. QED
    BY <2>1, TransportsFinite, FS_Subset, FS_CardinalityType
<1>4. CASE lists[t] = "own"
  BY <1>1, <1>2, <1>4 DEF Interceptors
<1>5. CASE lists[t] = "shared"
  <2>1. Interceptors(t) = Cardinality(Shared)
    BY <1>5 DEF Interceptors, Shared
  <2>2. Cardinality(Shared) # 0
    <3>1. t \in Shared
      BY <1>1, <1>5 DEF Shared
    <3>2. QED
      BY <1>3, <3>1, FS_EmptySet
  <2>3. QED
    BY <1>1, <1>2, <1>3, <2>1, <2>2 DEF TransportIds
<1>6. QED
  BY <1>1, <1>4, <1>5

LEMMA InitCInv == ASSUME MetersInit PROVE CInv
<1>1. /\ provider = NoMetric /\ consumer = NoMetric /\ working = 0 /\ aside = 0 /\ calls = 0
      /\ lists = [t \in TransportIds |-> "none"] /\ pending = [n \in TransportIds |-> 0]
  BY DEF MetersInit
<1>2. CounterType
  BY <1>1, MetersAssumption DEF CounterType, Metric, NoMetric
<1>3. Waiting(pending) = {}
  BY <1>1 DEF Waiting
<1>4. Pending = 0
  BY <1>3, FS_EmptySet DEF Pending
<1>5. CountersBalanced
  BY <1>1, <1>4 DEF CountersBalanced, ProviderBalanced, ConsumerBalanced, NoMetric
<1>6. QED
  BY <1>2, <1>5 DEF CInv

\* What the provider counts leaves the consumer alone.
LEMMA ProviderStep ==
    ASSUME CInv, UNCHANGED consumerVars, provider' \in Metric, working' \in Nat, aside' \in Nat,
           ProviderBalanced'
    PROVE  CInv'
<1>1. UNCHANGED <<consumer, lists, pending, calls>>
  BY DEF consumerVars
<1>2. Pending' = Pending
  BY <1>1 DEF Pending, Waiting
<1>3. QED
  BY <1>1, <1>2 DEF CInv, CounterType, CountersBalanced, ConsumerBalanced

LEMMA ProviderSteps ==
    ASSUME CInv, Accept \/ AnswerAside \/ Fulfil \/ Reject \/ Tick \/ CleanUp \/ Shutdown
    PROVE  CInv'
<1>1. provider \in Metric /\ working \in Nat /\ aside \in Nat /\ ProviderBalanced
  BY DEF CInv, CounterType, CountersBalanced
<1>2. CASE Accept
  BY <1>1, <1>2, ProviderStep DEF Accept, Request, ProviderRequest, Metric, ProviderBalanced
<1>3. CASE AnswerAside
  BY <1>1, <1>3, ProviderStep DEF AnswerAside, Request, ProviderRequest, Metric, ProviderBalanced
<1>4. CASE Fulfil
  BY <1>1, <1>4, ProviderStep DEF Fulfil, Metric, ProviderBalanced
<1>5. CASE Reject
  BY <1>1, <1>5, ProviderStep DEF Reject, Metric, ProviderBalanced
<1>6. CASE Tick \/ CleanUp \/ Shutdown
  BY <1>1, <1>6, ProviderStep DEF Tick, CleanUp, Shutdown, ProviderBalanced
<1>7. QED
  BY <1>2, <1>3, <1>4, <1>5, <1>6

\* Once two transports share an array they always do.
LEMMA CreateStep ==
    ASSUME CInv, NEW t \in TransportIds, CreateTransport(t)
    PROVE  CInv'
<1>1. /\ UNCHANGED <<provider, working, aside, consumer, pending, calls>>
      /\ lists[t] = "none"
  BY DEF CreateTransport, providerVars
<1>2. PICK list \in {"own", "shared"} : lists' = [lists EXCEPT ![t] = list]
  BY DEF CreateTransport
<1>3. CounterType'
  BY <1>1, <1>2 DEF CInv, CounterType
<1>4. Pending' = Pending
  BY <1>1 DEF Pending, Waiting
<1>5. Cardinality(Shared') <= 1 => Cardinality(Shared) <= 1
  <2>1. Shared \in SUBSET Shared'
    BY <1>1, <1>2 DEF Shared, CInv, CounterType
  <2>2. Shared' \in SUBSET TransportIds
    BY DEF Shared
  <2>3. IsFiniteSet(Shared')
    BY <2>2, TransportsFinite, FS_Subset
  <2>4. /\ Cardinality(Shared) <= Cardinality(Shared')
        /\ Cardinality(Shared) \in Nat /\ Cardinality(Shared') \in Nat
    BY <2>1, <2>3, FS_Subset, FS_CardinalityType
  <2>5. QED
    BY <2>4
<1>6. QED
  BY <1>1, <1>3, <1>4, <1>5
     DEF CInv, CountersBalanced, ProviderBalanced, ConsumerBalanced, Shared

LEMMA CallStep ==
    ASSUME CInv, NEW t \in TransportIds, StartCall(t)
    PROVE  CInv'
<1> DEFINE n == Interceptors(t)
<1>1. /\ UNCHANGED <<provider, working, aside, lists>>
      /\ t \in Created /\ calls < MaxCalls /\ calls' = calls + 1
      /\ pending' = [pending EXCEPT ![n] = @ + 1]
      /\ consumer' = [consumer EXCEPT !.total = @ + n]
  BY DEF StartCall, providerVars
<1>2. n \in TransportIds /\ (Cardinality(Shared) <= 1 => n = 1)
  BY <1>1, InterceptorsOf DEF CInv
<1>3. n \in Nat
  BY <1>2 DEF TransportIds
<1> HIDE DEF n
<1>4. /\ consumer \in Metric /\ calls \in Nat /\ MaxCalls \in Nat /\ pending \in [TransportIds -> 0 .. calls]
  BY MetersAssumption DEF CInv, CounterType
<1>5. CounterType'
  BY <1>1, <1>2, <1>3, <1>4 DEF CInv, CounterType, Metric
<1>6. Pending' = Pending + n /\ Pending \in Nat
  <2>1. pending \in [TransportIds -> Nat] /\ pending[n] + 1 <= MaxCalls
    BY <1>1, <1>2, <1>4
  <2>2. Pending' = Cardinality(Waiting(pending'))
    BY DEF Pending, Waiting
  <2>3. Cardinality(Waiting(pending')) = Cardinality(Waiting(pending)) + n
    BY <1>1, <1>2, <2>1, OneMore
  <2>4. QED
    BY <2>2, <2>3, WaitingFinite DEF Pending
<1>7. consumer'.total = consumer.total + n /\ consumer'.succeed = consumer.succeed
      /\ consumer'.failed = consumer.failed
  BY <1>1, <1>4 DEF Metric
<1>8. ConsumerBalanced'
  <2>1. consumer'.total = consumer'.succeed + consumer'.failed + Pending'
    BY <1>3, <1>4, <1>6, <1>7 DEF CInv, CountersBalanced, ConsumerBalanced, Metric
  <2>2. Cardinality(Shared) <= 1 => consumer'.total = calls'
    BY <1>1, <1>2, <1>4, <1>7 DEF CInv, CountersBalanced, ConsumerBalanced, Metric, Shared
  <2>3. QED
    BY <1>1, <2>1, <2>2 DEF ConsumerBalanced, Shared
<1>9. QED
  BY <1>1, <1>5, <1>8 DEF CInv, CountersBalanced, ProviderBalanced

LEMMA AnswerStep ==
    ASSUME CInv, NEW n \in DOMAIN pending, CallAnswered(n) \/ CallFails(n)
    PROVE  CInv'
<1>1. /\ UNCHANGED <<provider, working, aside, lists, calls>>
      /\ pending[n] > 0
      /\ pending' = [pending EXCEPT ![n] = @ - 1]
  BY DEF CallAnswered, CallFails, providerVars
<1>2. /\ consumer \in Metric /\ calls \in Nat /\ calls <= MaxCalls /\ MaxCalls \in Nat
      /\ pending \in [TransportIds -> 0 .. calls]
      /\ n \in TransportIds /\ n \in Nat
  BY MetersAssumption DEF CInv, CounterType, TransportIds
<1>3. \/ consumer' = [consumer EXCEPT !.succeed = @ + n]
      \/ consumer' = [consumer EXCEPT !.failed = @ + n]
  BY DEF CallAnswered, CallFails, ConsumerRequestSucceed, ConsumerRequestFailed
<1>4. CounterType'
  BY <1>1, <1>2, <1>3 DEF CInv, CounterType, Metric
<1>5. Pending = Pending' + n /\ Pending' \in Nat
  <2>1. /\ pending' \in [TransportIds -> Nat] /\ pending'[n] + 1 <= MaxCalls
        /\ pending = [pending' EXCEPT ![n] = @ + 1]
    <3>1. \A m \in TransportIds : /\ pending[m] \in Nat /\ pending[m] <= MaxCalls
                                /\ pending'[m] = (IF m = n THEN pending[m] - 1 ELSE pending[m])
      BY <1>1, <1>2
    <3>2. pending'[n] + 1 = pending[n] /\ pending'[n] \in Nat
      BY <1>1, <1>2, <3>1
    <3>3. pending' \in [TransportIds -> Nat] /\ pending \in [TransportIds -> Nat]
      BY <1>1, <1>2, <3>1, <3>2
    <3>4. [pending' EXCEPT ![n] = @ + 1] = pending
      BY <1>2, <3>1, <3>2, <3>3
    <3>5. QED
      BY <1>2, <3>1, <3>2, <3>3, <3>4
  <2>2. Pending' = Cardinality(Waiting(pending'))
    BY DEF Pending, Waiting
  <2>3. Cardinality(Waiting(pending)) = Cardinality(Waiting(pending')) + n
    BY <1>2, <2>1, OneMore
  <2>4. QED
    BY <2>2, <2>3, WaitingFinite DEF Pending
<1>6. /\ consumer'.total = consumer.total
      /\ consumer'.succeed + consumer'.failed = consumer.succeed + consumer.failed + n
  BY <1>2, <1>3 DEF Metric
<1>7. ConsumerBalanced'
  <2>1. consumer'.total = consumer'.succeed + consumer'.failed + Pending'
    BY <1>2, <1>5, <1>6 DEF CInv, CountersBalanced, ConsumerBalanced, Metric
  <2>2. QED
    BY <1>1, <1>6, <2>1 DEF CInv, CountersBalanced, ConsumerBalanced
<1>8. QED
  BY <1>1, <1>4, <1>7 DEF CInv, CountersBalanced, ProviderBalanced

\* The counters of requests and calls agree with each other and with what happened:
\* none is counted twice or forgotten, in whatever order they are answered and
\* however many transports share their interceptors.
THEOREM CountersAgree == MetersSpec => []CountersBalanced
<1>1. MetersInit => CInv
  BY InitCInv
<1>2. ASSUME CInv, [MetersNext]_metersVars PROVE CInv'
  <2>1. CASE UNCHANGED metersVars
    BY <1>2, <2>1, ProviderStep DEF metersVars, consumerVars, CInv, CounterType, CountersBalanced, ProviderBalanced
  <2>2. CASE MetersNext
    BY <1>2, <2>2, ProviderSteps, CreateStep, CallStep, AnswerStep DEF MetersNext
  <2>3. QED
    BY <1>2, <2>1, <2>2
<1>3. CInv => CountersBalanced
  BY DEF CInv
<1>4. QED
  BY <1>1, <1>2, <1>3, PTL DEF MetersSpec

=============================================================================
