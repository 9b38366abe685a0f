------------------------- MODULE BrowserCallProofs -------------------------
(***************************************************************************)
(* What a call from a web browser tells its caller: a success is the whole *)
(* response, the end is told once, and a call that is over holds no        *)
(* response.                                                               *)
(***************************************************************************)
EXTENDS BrowserCall, Integers, FiniteSetTheorems, TLAPS

-----------------------------------------------------------------------------
(* The inductive invariant. *)

Item  == Items \cup CutItems
Event == Errors \cup {"header", "message", "cutMessage", "trailer", "success", "closed"}
Over  == {"settled", "left"}
Lost  == {"broken", "aborted"}

TypeOK ==
    /\ setup \in Setups
    /\ sent \in Seq(Item) /\ body \in Seq(Item) /\ ahead \in Seq(Item)
    /\ net \in {"pending", "open", "closed", "cut", "broken", "aborted"}
    /\ onlyHeader \in BOOLEAN /\ expired \in BOOLEAN /\ user \in BOOLEAN
    /\ env \in {"open", "closed", "dataLoss", "network", "canceled"}
    /\ got \in [messages : Nat, end : {"none", "ok", "error"}]
    /\ consumer \in {"calling", "reading", "refused", "idle", "left", "settled"}
    /\ known \in Nat
    /\ told \in Seq(Event)

\* Envelopes that the transport has read, while none was thrown away.
Taken == Len(sent) - Len(ahead) - Len(body)

\* The envelopes that were not read are in the stream of envelopes and in the body.
Delivery ==
    net \notin Lost =>
        /\ Taken \in Nat
        /\ \A i \in 1 .. Len(ahead) : sent[Taken + i] = ahead[i]
        /\ \A i \in 1 .. Len(body) : sent[Taken + Len(ahead) + i] = body[i]

Response ==
    /\ net = "pending" => sent = <<>>
    /\ env = "closed" => net = "closed" /\ body = <<>>
    /\ onlyHeader => ~Triple
    /\ Triple /\ Unary => /\ Len(sent) <= 1 /\ \A i \in 1 .. Len(sent) : sent[i] = "message"
                          /\ net = "closed" => Len(sent) = 1
                          /\ net \in {"open", "closed"} => body = sent
    /\ consumer = "calling" =>
          told = <<>> /\ got = NothingGot /\ ~onlyHeader /\ net \in {"pending", "aborted"}

\* Why a call is aborted before its end.
Aborts ==
    /\ net = "aborted" \/ env = "canceled" => expired \/ user \/ consumer = "settled"
    /\ user => body = <<>> /\ net \notin {"pending", "open"}

\* What is told was read, and what is read after a cancellation was known then.
Canceled ==
    /\ Count("message") + Count("cutMessage") <= got.messages
    /\ user => got.messages + Len(ahead) <= known
    /\ Callback => Count("canceled") = 0

NotOver == consumer \notin Over => \A i \in 1 .. Len(told) : told[i] \notin Ends

\* What a stream has told is what it has read.
StreamTold ==
    ~Unary /\ net \notin Lost /\ consumer \notin Over /\ NothingBehindEnd =>
        LET more == Taken > 0
            last == sent[Taken]
        IN  /\ Count("message") = (IF more /\ last # "message" THEN Taken - 1 ELSE Taken)
            /\ Count("cutMessage") = (IF more /\ last = "cutMessage" THEN 1 ELSE 0)
            /\ got.end # "none" <=> more /\ last \notin {"message", "cutMessage"}
            /\ got.end # "none" => /\ got.end = "ok" /\ last # "endError"
                                   /\ Triple => last = "endOk"
            /\ onlyHeader => ~more

\* What a unary gRPC-web call keeps is what it has read.
UnaryKept ==
    Unary /\ ~Triple /\ net \notin Lost /\ consumer \notin Over /\ NothingBehindEnd =>
        LET more == Taken > 0
            last == sent[Taken]
            end  == more /\ last \notin {"message", "cutMessage"}
        IN  /\ got.messages = (IF end THEN Taken - 1 ELSE Taken) /\ got.messages <= 1
            /\ got.end # "none" <=> end
            /\ got.end = "ok" => last # "endError"

UnaryTold ==
    Unary /\ consumer # "settled" => Count("message") = 0 /\ Count("cutMessage") = 0

Succeeded == Count("success") > 0 => consumer = "settled" /\ net \notin {"pending", "open"}

Inv ==
    /\ TypeOK /\ Delivery /\ Response /\ Aborts /\ Canceled /\ NotOver
    /\ StreamTold /\ UnaryKept /\ UnaryTold /\ Succeeded
    /\ SuccessMeansComplete /\ ToldOnce /\ ResponseReleased

-----------------------------------------------------------------------------
(* Sequences, and what is counted in them. *)

LEMMA EmptyIs == Len(<<>>) = 0 /\ <<>> \in Seq(Item) /\ <<>> \in Seq(Event)
OBVIOUS

LEMMA LenIs == ASSUME NEW S, NEW s \in Seq(S) PROVE Len(s) \in Nat
OBVIOUS

\* What is appended is behind the others.
LEMMA AppendIs ==
    ASSUME NEW S, NEW s \in Seq(S), NEW e \in S
    PROVE  /\ Append(s, e) \in Seq(S)
           /\ Len(s) \in Nat
           /\ Len(Append(s, e)) = Len(s) + 1
           /\ \A i \in 1 .. Len(s) : Append(s, e)[i] = s[i]
           /\ Append(s, e)[Len(s) + 1] = e
OBVIOUS

\* The first of a sequence, and the others.
LEMMA TailIs ==
    ASSUME NEW S, NEW s \in Seq(S), s # <<>>
    PROVE  /\ Len(s) \in Nat \ {0}
           /\ Head(s) \in S /\ Head(s) = s[1]
           /\ Tail(s) \in Seq(S) /\ Len(Tail(s)) = Len(s) - 1
           /\ \A i \in 1 .. Len(s) - 1 : Tail(s)[i] = s[i + 1]
OBVIOUS

LEMMA OneIs ==
    ASSUME NEW S, NEW e \in S
    PROVE  <<e>> \in Seq(S) /\ Len(<<e>>) = 1 /\ <<e>>[1] = e
OBVIOUS

\* A sequence in two parts.
LEMMA ChunkIs ==
    ASSUME NEW S, NEW s \in Seq(S), NEW n \in 1 .. Len(s)
    PROVE  /\ SubSeq(s, 1, n) \in Seq(S) /\ Len(SubSeq(s, 1, n)) = n
           /\ \A i \in 1 .. n : SubSeq(s, 1, n)[i] = s[i]
           /\ SubSeq(s, n + 1, Len(s)) \in Seq(S)
           /\ Len(SubSeq(s, n + 1, Len(s))) = Len(s) - n
           /\ \A i \in 1 .. Len(s) - n : SubSeq(s, n + 1, Len(s))[i] = s[n + i]
OBVIOUS

LEMMA UpTo ==
    ASSUME NEW n \in Nat
    PROVE  IsFiniteSet(1 .. n) /\ Cardinality(1 .. n) = n
<1>1. 1 \in Int /\ n \in Int
  OBVIOUS
<1>2. IsFiniteSet(1 .. n) /\ Cardinality(1 .. n) = IF 1 > n THEN 0 ELSE n - 1 + 1
  BY <1>1, FS_Interval
<1> QED
  BY <1>2

\* What is counted in a sequence is a natural number, zero if there is none of it.
LEMMA PlacesCounted ==
    ASSUME NEW S, NEW s \in Seq(S), NEW x
    PROVE  /\ IsFiniteSet(Places(s, x))
           /\ Cardinality(Places(s, x)) \in Nat
           /\ Cardinality(Places(s, x)) > 0 <=> \E i \in 1 .. Len(s) : s[i] = x
<1>1. Len(s) \in Nat
  OBVIOUS
<1>2. IsFiniteSet(Places(s, x))
  <2>1. IsFiniteSet(1 .. Len(s)) /\ Places(s, x) \subseteq 1 .. Len(s)
    BY <1>1, UpTo DEF Places
  <2> QED
    BY <2>1, FS_Subset
<1>3. Cardinality(Places(s, x)) = 0 <=> Places(s, x) = {}
  BY <1>2, FS_EmptySet
<1>4. Cardinality(Places(s, x)) \in Nat
  BY <1>2, FS_CardinalityType
<1>5. Places(s, x) = {} <=> ~ \E i \in 1 .. Len(s) : s[i] = x
  BY DEF Places
<1> QED
  BY <1>2, <1>3, <1>4, <1>5

\* One more is counted behind the others.
LEMMA PlacesAppend ==
    ASSUME NEW S, NEW s \in Seq(S), NEW e \in S, NEW x
    PROVE  Cardinality(Places(Append(s, e), x)) =
               Cardinality(Places(s, x)) + (IF e = x THEN 1 ELSE 0)
<1> DEFINE n == Len(s) + 1
<1>1. Len(Append(s, e)) = n /\ n \in Nat /\ Append(s, e)[n] = e
  OBVIOUS
<1>2. \A i \in 1 .. Len(s) : Append(s, e)[i] = s[i]
  OBVIOUS
<1>3. IsFiniteSet(Places(s, x)) /\ Cardinality(Places(s, x)) \in Nat
  BY PlacesCounted
<1>4. n \notin Places(s, x)
  BY DEF Places
<1>5. CASE e = x
  <2>1. Places(Append(s, e), x) = Places(s, x) \cup {n}
    BY <1>1, <1>2, <1>5 DEF Places
  <2> QED
    BY <2>1, <1>3, <1>4, <1>5, FS_AddElement
<1>6. CASE e # x
  <2>1. Places(Append(s, e), x) = Places(s, x)
    BY <1>1, <1>2, <1>6 DEF Places
  <2> QED
    BY <2>1, <1>3, <1>6
<1> QED
  BY <1>5, <1>6

LEMMA PlacesOther ==
    ASSUME NEW S, NEW s \in Seq(S), NEW e \in S, NEW x, e # x
    PROVE  Cardinality(Places(Append(s, e), x)) = Cardinality(Places(s, x))
<1>1. Cardinality(Places(Append(s, e), x)) =
          Cardinality(Places(s, x)) + (IF e = x THEN 1 ELSE 0)
  BY PlacesAppend
<1>2. Cardinality(Places(s, x)) \in Nat
  BY PlacesCounted
<1> QED
  BY <1>1, <1>2

LEMMA PlacesSame ==
    ASSUME NEW S, NEW s \in Seq(S), NEW x \in S
    PROVE  Cardinality(Places(Append(s, x), x)) = Cardinality(Places(s, x)) + 1
BY PlacesAppend

\* The messages of a response with nothing behind its end: all, or all but the last.
LEMMA MessagesSent ==
    ASSUME sent \in Seq(Item), NothingBehindEnd
    PROVE  Messages(sent) = (IF Len(sent) > 0 /\ LastSent # "message" THEN Len(sent) - 1
                             ELSE Len(sent))
<1> DEFINE n == Len(sent)
<1>1. n \in Nat
  OBVIOUS
<1>2. CASE n > 0 /\ LastSent # "message"
  <2>1. Places(sent, "message") = 1 .. n - 1
    BY <1>1, <1>2 DEF Places, LastSent, NothingBehindEnd
  <2>2. Cardinality(1 .. n - 1) = n - 1
    BY <1>1, <1>2, UpTo
  <2> QED
    BY <1>2, <2>1, <2>2 DEF Messages
<1>3. CASE ~(n > 0 /\ LastSent # "message")
  <2>1. Places(sent, "message") = 1 .. n
    BY <1>1, <1>3 DEF Places, LastSent, NothingBehindEnd
  <2>2. Cardinality(1 .. n) = n
    BY <1>1, UpTo
  <2> QED
    BY <1>3, <2>1, <2>2 DEF Messages
<1> QED
  BY <1>2, <1>3

-----------------------------------------------------------------------------
(* The beginning. *)

LEMMA InitInv == Init => Inv
<1> SUFFICES ASSUME Init PROVE Inv
  OBVIOUS
<1>1. told = <<>> /\ sent = <<>> /\ body = <<>> /\ ahead = <<>>
  BY DEF Init
<1>2. TypeOK
  <2>1. got \in [messages : Nat, end : {"none", "ok", "error"}] /\ setup \in Setups
    BY DEF Init, NothingGot
  <2>2. sent \in Seq(Item) /\ body \in Seq(Item) /\ ahead \in Seq(Item)
        /\ told \in Seq(Event)
    BY <1>1, EmptyIs
  <2>3. onlyHeader \in BOOLEAN /\ expired \in BOOLEAN /\ user \in BOOLEAN /\ known \in Nat
    BY DEF Init
  <2> QED
    BY <2>1, <2>2, <2>3 DEF Init, TypeOK
<1>3. \A x : Places(told, x) = {} /\ Count(x) = 0 /\ ~(Count(x) > 0)
  BY <1>1, FS_EmptySet DEF Places, Count
<1>4. Taken = 0
  <2>1. Len(sent) = 0 /\ Len(ahead) = 0 /\ Len(body) = 0
    BY <1>1, EmptyIs
  <2> QED
    BY <2>1 DEF Taken
<1>5. Delivery /\ Response /\ Aborts /\ Canceled /\ NotOver
  <2>1. Delivery /\ Response /\ Aborts /\ NotOver
    BY <1>1, <1>3, <1>4 DEF Init, Delivery, Response, Aborts, NotOver
  <2>2. Count("message") = 0 /\ Count("cutMessage") = 0 /\ Count("canceled") = 0
        /\ got.messages = 0 /\ ~user
    BY <1>3 DEF Init, NothingGot
  <2> QED
    BY <2>1, <2>2 DEF Canceled
<1>6. StreamTold /\ UnaryKept /\ UnaryTold /\ Succeeded /\ SuccessMeansComplete
  <2>1. got.end = "none" /\ got.messages = 0 /\ consumer = "calling"
        /\ onlyHeader = FALSE
    BY DEF Init, NothingGot
  <2>2. StreamTold
    <3>1. Count("message") = 0 /\ Count("cutMessage") = 0
      BY <1>3
    <3>2. ~(Taken > 0)
      BY <1>4
    <3> QED
      BY <1>4, <2>1, <3>1, <3>2 DEF StreamTold
  <2>3. UnaryKept
    BY <1>3, <1>4, <2>1 DEF UnaryKept
  <2>4. UnaryTold /\ Succeeded /\ SuccessMeansComplete
    <3>1. Count("success") = 0 /\ Count("message") = 0 /\ Count("cutMessage") = 0
      BY <1>3
    <3>2. ~(Count("success") > 0)
      BY <1>3
    <3>3. UnaryTold
      BY <3>1 DEF UnaryTold
    <3> QED
      BY <3>2, <3>3 DEF Succeeded, SuccessMeansComplete
  <2> QED
    BY <2>2, <2>3, <2>4
<1>7. ToldOnce /\ ResponseReleased
  BY <1>1 DEF Init, ToldOnce, ResponseReleased
<1> QED
  BY <1>2, <1>5, <1>6, <1>7 DEF Inv

-----------------------------------------------------------------------------
(* Steps that tell nothing. *)

\* What a caller was told stays right as long as the call is as far as it was and
\* nothing is sent behind a success.
LEMMA QuietKeeps ==
    ASSUME Inv, UNCHANGED <<setup, consumer, told>>, user => user',
           Count("success") > 0 => UNCHANGED <<sent, onlyHeader>>,
           net \notin {"pending", "open"} => net' \notin {"pending", "open"},
           TypeOK', net \in {"closed", "cut", "broken", "aborted"} => net' \notin {"pending", "open"}
    PROVE  NotOver' /\ UnaryTold' /\ Succeeded' /\ SuccessMeansComplete' /\ ToldOnce'
           /\ ResponseReleased'
<1>1. NotOver' /\ UnaryTold' /\ ToldOnce'
  BY DEF Inv, NotOver, UnaryTold, ToldOnce, Count, Unary, Callback
<1>2. Succeeded' /\ ResponseReleased'
  BY DEF Inv, Succeeded, ResponseReleased, Count, TypeOK
<1>3. SuccessMeansComplete'
  <2>1. Count("success")' = Count("success") /\ Count("message")' = Count("message")
        /\ Count("cutMessage")' = Count("cutMessage")
    BY DEF Count
  <2>2. CASE Count("success") > 0
    BY <2>1, <2>2 DEF Inv, SuccessMeansComplete, Messages, NothingBehindEnd, LastSent,
       Triple, Unary
  <2>3. CASE ~(Count("success") > 0)
    BY <2>1, <2>3 DEF SuccessMeansComplete
  <2> QED
    BY <2>2, <2>3
<1> QED
  BY <1>1, <1>2, <1>3

\* What was read agrees with what was told as long as nothing is read.
LEMMA NothingRead ==
    ASSUME Inv, UNCHANGED <<setup, onlyHeader, got, told>>,
           consumer' \in Over \/ consumer \notin Over,
           net' \notin Lost => net \notin Lost /\ Taken' = Taken,
           Taken > 0 /\ Taken \in Nat => sent'[Taken] = sent[Taken],
           NothingBehindEnd' => NothingBehindEnd
    PROVE  StreamTold' /\ UnaryKept'
<1>1. CASE net' \in Lost \/ consumer' \in Over \/ ~NothingBehindEnd'
  BY <1>1 DEF StreamTold, UnaryKept
<1>2. CASE net' \notin Lost /\ consumer' \notin Over /\ NothingBehindEnd'
  <2>1. net \notin Lost /\ consumer \notin Over /\ NothingBehindEnd /\ Taken' = Taken
        /\ Taken \in Nat
    BY <1>2 DEF Inv, Delivery
  <2>2. Taken > 0 => sent'[Taken] = sent[Taken]
    BY <2>1
  <2>3. Count("message")' = Count("message") /\ Count("cutMessage")' = Count("cutMessage")
        /\ (Unary <=> Unary') /\ (Triple <=> Triple') /\ got' = got
        /\ (onlyHeader <=> onlyHeader')
    BY DEF Count, Unary, Triple
  <2>4. StreamTold /\ UnaryKept
    BY DEF Inv
  <2> HIDE DEF Unary, Triple, Taken, Count, NothingBehindEnd, Lost, Over
  <2>5. StreamTold'
    BY <2>1, <2>2, <2>3, <2>4 DEF StreamTold
  <2>6. UnaryKept'
    BY <2>1, <2>2, <2>3, <2>4 DEF UnaryKept
  <2> QED
    BY <2>5, <2>6
<1> QED
  BY <1>1, <1>2

\* An envelope that arrives, or its part, is behind the others.
LEMMA ItemArrives ==
    ASSUME Inv, NEW item \in Item, net = "open",
           sent' = Append(sent, item), body' = Append(body, item),
           net' \in {"open", "closed"}, Triple /\ Unary => item = "message" /\ sent = <<>>,
           UNCHANGED <<setup, onlyHeader, ahead, env, got, consumer, expired, user, known, told>>
    PROVE  Inv'
<1> USE DEF Inv
<1>0. sent \in Seq(Item) /\ body \in Seq(Item) /\ Len(ahead) \in Nat
  BY LenIs DEF TypeOK
<1>3. /\ \A i \in 1 .. Len(sent) : sent'[i] = sent[i]
      /\ sent'[Len(sent) + 1] = item
      /\ Len(sent) \in Nat /\ Len(sent') = Len(sent) + 1 /\ sent' \in Seq(Item)
  BY <1>0, AppendIs
<1>4. /\ \A i \in 1 .. Len(body) : body'[i] = body[i]
      /\ body'[Len(body) + 1] = item
      /\ Len(body) \in Nat /\ Len(body') = Len(body) + 1 /\ body' \in Seq(Item)
  BY <1>0, AppendIs
<1>1. TypeOK'
  BY <1>3, <1>4 DEF TypeOK
<1>2. Taken' = Taken /\ Taken \in Nat /\ Taken = Len(sent) - Len(ahead) - Len(body)
  BY <1>3, <1>4, <1>0 DEF Taken, Delivery, Lost
<1>5. Delivery'
  <2>1. ASSUME NEW i \in 1 .. Len(ahead)
        PROVE  sent'[Taken + i] = ahead[i]
    <3>1. Taken + i \in 1 .. Len(sent)
      BY <1>0, <1>2, <1>3, <1>4
    <3>2. sent[Taken + i] = ahead[i]
      BY DEF Delivery, Lost
    <3> QED
      BY <3>1, <3>2, <1>3
  <2>2. ASSUME NEW i \in 1 .. Len(body')
        PROVE  sent'[Taken + Len(ahead) + i] = body'[i]
    <3>1. CASE i = Len(body) + 1
      <4>1. Taken + Len(ahead) + i = Len(sent) + 1
        BY <3>1, <1>0, <1>2, <1>3, <1>4
      <4> QED
        BY <4>1, <3>1, <1>3, <1>4
    <3>2. CASE i \in 1 .. Len(body)
      <4>1. Taken + Len(ahead) + i \in 1 .. Len(sent)
        BY <3>2, <1>0, <1>2, <1>3, <1>4
      <4>2. sent[Taken + Len(ahead) + i] = body[i]
        BY <3>2 DEF Delivery, Lost
      <4> QED
        BY <4>1, <4>2, <3>2, <1>3, <1>4
    <3> QED
      <4>1. i \in 1 .. Len(body) \/ i = Len(body) + 1
        BY <1>4
      <4> QED
        BY <4>1, <3>1, <3>2
  <2> QED
    BY <1>2, <2>1, <2>2 DEF Delivery
<1>6. Response' /\ Aborts' /\ Canceled'
  <2>1. env # "closed" /\ consumer # "calling" /\ ~user
    BY DEF Response, Aborts
  <2>2. Triple /\ Unary => /\ Len(sent') = 1 /\ sent'[1] = "message"
    BY <1>2, <1>3
  <2>6. Triple /\ Unary => body' = sent'
    BY DEF Response
  <2>3. Response'
    BY <2>1, <2>2, <2>6 DEF Response, Triple, Unary
  <2>4. Aborts'
    BY <2>1 DEF Aborts
  <2>5. Canceled'
    BY <2>1 DEF Canceled, Unary, Callback, Count
  <2> QED
    BY <2>3, <2>4, <2>5
<1>7. StreamTold' /\ UnaryKept'
  <2>1. NothingBehindEnd' => NothingBehindEnd
    BY <1>3 DEF NothingBehindEnd
  <2>2. Taken > 0 /\ Taken \in Nat => sent'[Taken] = sent[Taken]
    BY <1>0, <1>2, <1>3, <1>4
  <2> QED
    BY <2>1, <2>2, <1>2, NothingRead DEF Lost
<1>8. ~(Count("success") > 0)
  BY DEF Succeeded
<1> QED
  BY <1>1, <1>5, <1>6, <1>7, <1>8, QuietKeeps

\* The body comes to its end, or breaks.
LEMMA BodyEnds ==
    ASSUME Inv, net = "open", net' \in {"closed", "cut", "broken"},
           net' = "closed" /\ Triple /\ Unary => sent # <<>>,
           body' = IF net' = "broken" THEN <<>> ELSE body,
           UNCHANGED <<setup, sent, onlyHeader, ahead, env, got, consumer, expired, user,
                       known, told>>
    PROVE  Inv'
<1> USE DEF Inv
<1>1. TypeOK'
  BY EmptyIs DEF TypeOK
<1>2. net' \notin Lost => Taken' = Taken
  BY DEF Taken, Lost
<1>3. Delivery'
  BY <1>2 DEF Delivery, Lost
<1>4. env # "closed" /\ consumer # "calling" /\ ~user
  BY DEF Response, Aborts
<1>5. Triple /\ Unary /\ net' = "closed" => Len(sent) = 1
  <2>1. sent # <<>> => Len(sent) \in Nat \ {0}
    BY TailIs DEF TypeOK
  <2>2. Triple /\ Unary => Len(sent) <= 1
    BY DEF Response
  <2>3. \A n \in Nat \ {0} : n <= 1 => n = 1
    OBVIOUS
  <2> QED
    BY <2>1, <2>2, <2>3
<1>6. Response'
  BY <1>4, <1>5 DEF Response, Triple, Unary
<1>7. Aborts' /\ Canceled'
  BY <1>4 DEF Aborts, Canceled, Unary, Callback, Count
<1>8. StreamTold' /\ UnaryKept'
  <2>1. NothingBehindEnd' => NothingBehindEnd
    BY DEF NothingBehindEnd
  <2> QED
    BY <2>1, <1>2, NothingRead DEF Lost
<1>9. ~(Count("success") > 0)
  BY DEF Succeeded
<1> QED
  BY <1>1, <1>3, <1>6, <1>7, <1>8, <1>9, QuietKeeps

\* The stream of envelopes reads a chunk, or finds the end.
LEMMA PullKeeps ==
    ASSUME Inv, Pull
    PROVE  Inv'
<1> USE DEF Inv
<1>1. UNCHANGED <<setup, sent, net, onlyHeader, got, consumer, expired, user, known, told>>
      /\ env = "open" /\ ahead = <<>> /\ ~(Triple /\ Unary)
  BY DEF Pull
<1>2. ASSUME NEW n \in 1 .. Len(body), ahead' = SubSeq(body, 1, n),
             body' = SubSeq(body, n + 1, Len(body)), env' = env
      PROVE  Inv'
  <2>0. body \in Seq(Item) /\ Len(sent) \in Nat /\ Len(body) \in Nat /\ Len(ahead) = 0
    BY <1>1, LenIs, EmptyIs DEF TypeOK
  <2>3. /\ ahead' \in Seq(Item) /\ Len(ahead') = n
        /\ \A i \in 1 .. n : ahead'[i] = body[i]
        /\ body' \in Seq(Item) /\ Len(body') = Len(body) - n
        /\ \A i \in 1 .. Len(body) - n : body'[i] = body[n + i]
    BY <2>0, <1>2, ChunkIs
  <2>1. TypeOK'
    BY <1>1, <1>2, <2>3 DEF TypeOK
  <2>2. Taken' = Taken
    BY <2>0, <2>3, <1>1 DEF Taken
  <2>4. Delivery'
    <3>1. CASE net \in Lost
      BY <1>1, <3>1 DEF Delivery
    <3>2. CASE net \notin Lost
      <4>1. Taken \in Nat /\ \A i \in 1 .. Len(body) : sent[Taken + i] = body[i]
        BY <3>2, <2>0 DEF Delivery
      <4>2. \A i \in 1 .. Len(ahead') : sent[Taken + i] = ahead'[i]
        BY <4>1, <2>0, <2>3
      <4>3. \A i \in 1 .. Len(body') : sent[Taken + n + i] = body'[i]
        BY <4>1, <2>0, <2>3
      <4> HIDE DEF Taken
      <4> QED
        BY <4>1, <4>2, <4>3, <2>2, <2>3, <1>1 DEF Delivery
    <3> QED
      BY <3>1, <3>2
  <2>5. ~user
    BY <1>2, <2>0, EmptyIs DEF Aborts
  <2>6. Response' /\ Aborts'
    BY <1>1, <1>2, <2>5 DEF Response, Aborts, Triple, Unary
  <2>7. Canceled'
    BY <1>1, <2>5 DEF Canceled, Callback, Count
  <2> QED
    BY <1>1, <2>1, <2>2, <2>4, <2>6, <2>7, NothingRead, QuietKeeps DEF NothingBehindEnd
<1>3. CASE body = <<>> /\ UNCHANGED <<ahead, body>>
           /\ env' = (CASE net = "closed"  -> "closed"
                      [] net = "cut"     -> "dataLoss"
                      [] net = "broken"  -> "network"
                      [] net = "aborted" -> "canceled"
                      [] OTHER           -> "open")
  <2>1. TypeOK'
    BY <1>1, <1>3 DEF TypeOK
  <2>2. Taken' = Taken
    BY <1>1, <1>3 DEF Taken
  <2>3. Delivery'
    BY <1>1, <1>3, <2>2 DEF Delivery
  <2>4. (env' = "closed" => net = "closed") /\ (env' = "canceled" => net = "aborted")
    BY <1>3
  <2>5. Response' /\ Aborts'
    BY <1>1, <1>3, <2>4 DEF Response, Aborts, Triple, Unary
  <2>6. Canceled'
    BY <1>1, <1>3 DEF Canceled, Unary, Callback, Count
  <2> QED
    BY <1>1, <2>1, <2>2, <2>3, <2>5, <2>6, NothingRead, QuietKeeps DEF NothingBehindEnd
<1> QED
  BY <1>2, <1>3 DEF Pull

\* The caller asks for the next message, or leaves.
LEMMA CallerKeeps ==
    ASSUME Inv, consumer = "idle", consumer' \in {"reading", "left"},
           UNCHANGED <<setup, sent, body, net, onlyHeader, ahead, env, got, expired, user,
                       known, told>>
    PROVE  Inv'
<1> USE DEF Inv
<1>1. TypeOK' /\ Taken' = Taken
  BY DEF TypeOK, Taken
<1>2. Delivery' /\ Response' /\ Aborts' /\ Canceled'
  BY <1>1 DEF Delivery, Response, Aborts, Canceled, Unary, Triple, Callback, Count
<1>3. NotOver' /\ UnaryTold'
  BY DEF NotOver, UnaryTold, Over, Unary, Count
<1>4. StreamTold' /\ UnaryKept'
  BY <1>1, NothingRead DEF NothingBehindEnd, Over
<1>5. ~(Count("success") > 0) /\ Count("success")' = Count("success")
  BY DEF Succeeded, Count
<1>6. Succeeded' /\ SuccessMeansComplete'
  BY <1>5 DEF Succeeded, SuccessMeansComplete
<1>7. ToldOnce' /\ ResponseReleased'
  BY DEF ToldOnce, ResponseReleased, Unary, Callback
<1> QED
  BY <1>1, <1>2, <1>3, <1>4, <1>6, <1>7

\* An aborted signal leaves nothing of the response but what was read ahead.
LEMMA AbortIs ==
    ASSUME Inv, AbortSignal
    PROVE  /\ body' = <<>>
           /\ net' \in {"closed", "cut", "broken", "aborted"}
           /\ net' # net => net' = "aborted"
           /\ net' \notin Lost => net' = net /\ body = <<>>
           /\ env = "closed" => net' = "closed"
           /\ Triple /\ Unary => net' # "closed"
<1> USE DEF Inv
<1>1. net \in {"pending", "open", "closed", "cut", "broken", "aborted"}
  BY DEF TypeOK
<1>2. Triple /\ Unary /\ net = "closed" => body # <<>>
  BY EmptyIs DEF Response
<1> QED
  BY <1>1, <1>2 DEF AbortSignal, Lost, Response

\* The caller cancels, or its deadline passes.
LEMMA AbortKeeps ==
    ASSUME Inv, Cancel \/ Deadline
    PROVE  Inv'
<1> USE DEF Inv
<1>1. UNCHANGED <<setup, sent, onlyHeader, ahead, env, got, consumer, told>>
  BY DEF Cancel, Deadline
<1>2. AbortSignal
  BY DEF Cancel, Deadline
<1>3. /\ body' = <<>>
      /\ net' \in {"closed", "cut", "broken", "aborted"}
      /\ net' # net => net' = "aborted"
      /\ net' \notin Lost => net' = net /\ body = <<>>
      /\ env = "closed" => net' = "closed"
      /\ Triple /\ Unary => net' # "closed"
  BY <1>2, AbortIs
<1>4. \/ user' = TRUE /\ ~user /\ expired' = expired /\ known' = got.messages + Len(ahead)
      \/ user' = user /\ expired' = TRUE /\ known' = known
  BY DEF Cancel, Deadline
<1>5. got.messages \in Nat /\ Len(ahead) \in Nat
  BY LenIs DEF TypeOK
<1>6. TypeOK'
  <2>1. body' \in Seq(Item)
    BY <1>3, EmptyIs
  <2>2. user' \in BOOLEAN /\ expired' \in BOOLEAN
    BY <1>4 DEF TypeOK
  <2>3. known' \in Nat
    BY <1>4, <1>5 DEF TypeOK
  <2> QED
    BY <1>1, <1>3, <2>1, <2>2, <2>3 DEF TypeOK
<1>7. net' \notin Lost => net \notin Lost /\ Taken' = Taken
  BY <1>1, <1>3 DEF Taken
<1>8. Delivery'
  BY <1>1, <1>3, <1>7 DEF Delivery
<1>9. Response'
  <2>1. consumer = "calling" => net' \in {"pending", "aborted"}
    BY <1>3 DEF Response
  <2> QED
    BY <1>1, <1>3, <2>1 DEF Response, Triple, Unary
<1>10. Aborts'
  BY <1>1, <1>3, <1>4 DEF Aborts
<1>11. Canceled'
  <2>1. CASE known' = got.messages + Len(ahead)
    BY <1>1, <1>5, <2>1 DEF Canceled, Callback, Count
  <2>2. CASE user' = user /\ known' = known
    BY <1>1, <2>2 DEF Canceled, Callback, Count
  <2> QED
    BY <1>4, <2>1, <2>2
<1>12. StreamTold' /\ UnaryKept'
  BY <1>1, <1>7, NothingRead DEF NothingBehindEnd
<1>13. user => user'
  BY <1>4
<1> QED
  BY <1>1, <1>3, <1>6, <1>8, <1>9, <1>10, <1>11, <1>12, <1>13, QuietKeeps

-----------------------------------------------------------------------------
(* The end of a call. *)

\* The caller of a call that fails is told so, unless it has canceled.
LEMMA TellIs ==
    ASSUME Inv, NEW error \in Errors, error = "canceled" => expired \/ user,
           consumer \notin Over
    PROVE  \/ Callback /\ Unary /\ user /\ TellError(AbortReason(error)) = told
           \/ \E e \in Errors \cup {"closed"} :
                 /\ TellError(AbortReason(error)) = Append(told, e)
                 /\ Callback => e # "canceled"
<1> DEFINE e == AbortReason(error)
<1>1. e \in Errors /\ (e = "canceled" => error = "canceled" /\ ~expired)
  BY DEF AbortReason, Errors
<1>2. e = "canceled" => user
  BY <1>1
<1> HIDE DEF e
<1>3. CASE Callback /\ Unary /\ Discarded(e)
  BY <1>3 DEF TellError, Discarded, e
<1>4. CASE Callback /\ ~Unary /\ Discarded(e)
  BY <1>4 DEF TellError, e
<1>5. CASE ~(Callback /\ Discarded(e))
  <2>1. TellError(e) = Append(told, e)
    BY <1>5 DEF TellError
  <2>2. Callback => e # "canceled"
    BY <1>2, <1>5 DEF Discarded
  <2> QED
    BY <1>1, <2>1, <2>2 DEF e
<1> QED
  BY <1>3, <1>4, <1>5

\* The rest of the response stays in order when its next is taken.
LEMMA RestDelivers ==
    ASSUME Inv, ahead # <<>>, ahead' = Tail(ahead), sent' = sent,
           net' \notin Lost => net \notin Lost /\ body' = body
    PROVE  Delivery'
<1>1. CASE net' \in Lost
  BY <1>1 DEF Delivery
<1>2. CASE net' \notin Lost
  <2>1. /\ Taken \in Nat /\ body' = body
        /\ \A i \in 1 .. Len(ahead) : sent[Taken + i] = ahead[i]
        /\ \A i \in 1 .. Len(body) : sent[Taken + Len(ahead) + i] = body[i]
    BY <1>2 DEF Inv, Delivery
  <2>2. /\ Len(ahead) \in Nat \ {0} /\ Len(ahead') = Len(ahead) - 1
        /\ \A i \in 1 .. Len(ahead) - 1 : ahead'[i] = ahead[i + 1]
        /\ Len(sent) \in Nat /\ Len(body) \in Nat
    BY TailIs, LenIs DEF Inv, TypeOK
  <2>3. Taken' = Taken + 1
    BY <2>1, <2>2 DEF Taken
  <2>4. \A i \in 1 .. Len(ahead') : sent[Taken' + i] = ahead'[i]
    <3> TAKE i \in 1 .. Len(ahead')
    <3>1. i + 1 \in 1 .. Len(ahead) /\ i \in 1 .. Len(ahead) - 1
          /\ Taken' + i = Taken + (i + 1)
      BY <2>1, <2>2, <2>3
    <3> QED
      BY <2>1, <2>2, <3>1
  <2>5. \A i \in 1 .. Len(body') : sent[Taken' + Len(ahead') + i] = body'[i]
    <3>1. Taken' + Len(ahead') = Taken + Len(ahead)
      BY <2>1, <2>2, <2>3
    <3> QED
      BY <2>1, <3>1
  <2> QED
    BY <2>1, <2>3, <2>4, <2>5 DEF Delivery
<1> QED
  BY <1>1, <1>2

\* A call that fails ends with its error, told once, and without a response.
LEMMA FailKeeps ==
    ASSUME Inv, NEW error \in Errors, error = "canceled" => expired \/ user,
           consumer \notin Over, Fail(error),
           ahead' = ahead \/ (ahead # <<>> /\ ahead' = Tail(ahead)),
           UNCHANGED <<setup, sent, onlyHeader, env, got, expired, user, known>>
    PROVE  Inv'
<1> USE DEF Inv
<1>1. /\ consumer' = "settled" /\ told' = TellError(AbortReason(error))
      /\ AbortSignal
  BY DEF Fail, EndCall
<1>2. /\ body' = <<>>
      /\ net' \in {"closed", "cut", "broken", "aborted"}
      /\ net' # net => net' = "aborted"
      /\ net' \notin Lost => net' = net /\ body = <<>>
      /\ env = "closed" => net' = "closed"
      /\ Triple /\ Unary => net' # "closed"
  BY <1>1, AbortIs
<1>3. ahead' \in Seq(Item) /\ Len(ahead') \in Nat /\ Len(ahead') <= Len(ahead)
      /\ Len(ahead) \in Nat
  <2>1. ahead \in Seq(Item) /\ Len(ahead) \in Nat
    BY LenIs DEF TypeOK
  <2>2. CASE ahead' = ahead
    BY <2>1, <2>2
  <2>3. CASE ahead # <<>> /\ ahead' = Tail(ahead)
    <3>1. ahead' \in Seq(Item) /\ Len(ahead) \in Nat \ {0} /\ Len(ahead') = Len(ahead) - 1
      BY <2>1, <2>3, TailIs
    <3> QED
      BY <3>1
  <2> QED
    BY <2>2, <2>3
<1>4. /\ told' \in Seq(Event) /\ Len(told) \in Nat
      /\ \/ told' = told /\ Callback /\ Unary /\ user
         \/ /\ Len(told') = Len(told) + 1
            /\ told'[Len(told')] \in Errors \cup {"closed"}
            /\ \A i \in 1 .. Len(told) : told'[i] = told[i]
      /\ Count("success")' = Count("success")
      /\ Callback => Count("canceled")' = Count("canceled")
      /\ Count("message")' = Count("message") /\ Count("cutMessage")' = Count("cutMessage")
      /\ Count("success") \in Nat
  <2>0. told \in Seq(Event) /\ Len(told) \in Nat
    BY LenIs DEF TypeOK
  <2>1. Count("success") \in Nat /\ Count("canceled") \in Nat
    BY <2>0, PlacesCounted DEF Count
  <2>2. CASE told' = told /\ Callback /\ Unary /\ user
    BY <2>0, <2>1, <2>2 DEF Count
  <2>3. ASSUME NEW e \in Errors \cup {"closed"}, told' = Append(told, e),
               Callback => e # "canceled"
        PROVE  /\ told' \in Seq(Event)
               /\ Len(told') = Len(told) + 1
               /\ told'[Len(told')] = e
               /\ \A i \in 1 .. Len(told) : told'[i] = told[i]
               /\ Count("success")' = Count("success")
               /\ Callback => Count("canceled")' = Count("canceled")
               /\ Count("message")' = Count("message")
               /\ Count("cutMessage")' = Count("cutMessage")
    <3>1. e \in Event /\ e \notin {"success", "message", "cutMessage"}
      BY DEF Event, Errors
    <3>2. Count("success")' = Count("success") + 0
      BY <2>0, <2>3, <3>1, PlacesAppend DEF Count
    <3>3. Count("canceled")' = Count("canceled") + (IF e = "canceled" THEN 1 ELSE 0)
      BY <2>0, <2>3, <3>1, PlacesAppend DEF Count
    <3>4. Count("message")' = Count("message") /\ Count("cutMessage")' = Count("cutMessage")
      BY <2>0, <2>3, <3>1, PlacesOther DEF Count
    <3> QED
      BY <2>0, <2>1, <2>3, <3>1, <3>2, <3>3, <3>4, AppendIs
  <2> QED
    BY <1>1, <2>0, <2>1, <2>2, <2>3, TellIs
<1>5. TypeOK'
  <2>1. body' \in Seq(Item) /\ ahead' \in Seq(Item) /\ told' \in Seq(Event)
    BY <1>2, <1>3, <1>4, EmptyIs
  <2> QED
    BY <1>1, <1>2, <2>1 DEF TypeOK
<1>6. Delivery'
  <2>1. net' \notin Lost => net \notin Lost /\ body' = body
    BY <1>2
  <2>2. CASE ahead' = ahead
    <3>1. net' \notin Lost => Taken' = Taken
      BY <2>1, <2>2 DEF Taken
    <3> QED
      BY <2>1, <2>2, <3>1 DEF Delivery
  <2>3. CASE ahead # <<>> /\ ahead' = Tail(ahead)
    BY <2>1, <2>3, RestDelivers
  <2> QED
    BY <2>2, <2>3
<1>7. Response'
  BY <1>1, <1>2 DEF Response, Triple, Unary
<1>8. Aborts'
  BY <1>1, <1>2 DEF Aborts
<1>9. Canceled'
  <2>1. Callback => Count("canceled")' = 0
    BY <1>4 DEF Canceled
  <2>2. user => got.messages + Len(ahead') <= known
    BY <1>3 DEF Canceled, TypeOK
  <2> QED
    BY <1>1, <1>4, <2>1, <2>2 DEF Canceled, Callback
<1>10. NotOver' /\ StreamTold' /\ UnaryKept' /\ UnaryTold'
  BY <1>1 DEF NotOver, StreamTold, UnaryKept, UnaryTold, Over
<1>11. ~(Count("success") > 0)
  BY DEF Succeeded, Over
<1>12. Succeeded' /\ SuccessMeansComplete'
  BY <1>4, <1>11 DEF Succeeded, SuccessMeansComplete
<1>13. ToldOnce'
  <2>1. \A i \in 1 .. Len(told) : told[i] \notin Ends
    BY DEF NotOver
  <2>2. CASE told' = told /\ Callback /\ Unary /\ user
    BY <2>1, <2>2 DEF ToldOnce, Callback, Unary
  <2>3. CASE /\ Len(told') = Len(told) + 1
             /\ told'[Len(told')] \in Errors \cup {"closed"}
             /\ \A i \in 1 .. Len(told) : told'[i] = told[i]
    <3>1. \A i \in 1 .. Len(told') : told'[i] \in Ends => i = Len(told')
      BY <1>4, <2>1, <2>3
    <3>2. Len(told') \in 1 .. Len(told') /\ told'[Len(told')] \in Ends
      BY <1>4, <2>3 DEF Ends
    <3> QED
      BY <3>1, <3>2 DEF ToldOnce
  <2> QED
    BY <1>4, <2>2, <2>3
<1>14. ResponseReleased'
  BY <1>2 DEF ResponseReleased
<1> QED
  BY <1>5, <1>6, <1>7, <1>8, <1>9, <1>10, <1>12, <1>13, <1>14

\* The end of a body that was read is the end of the response.
LEMMA AllRead ==
    ASSUME Inv, env = "closed", ahead = <<>>
    PROVE  /\ net = "closed" /\ body = <<>>
           /\ Taken = Len(sent) /\ Len(sent) \in Nat
           /\ Len(sent) > 0 => sent[Taken] = LastSent
           /\ Len(sent) > 0 <=> sent # <<>>
           /\ Len(sent) > 0 => LastSent \in Item
<1> USE DEF Inv
<1>1. net = "closed" /\ body = <<>>
  BY DEF Response
<1>2. Len(sent) \in Nat /\ Len(ahead) = 0 /\ Len(body) = 0 /\ sent \in Seq(Item)
  BY <1>1, LenIs, EmptyIs DEF TypeOK
<1>3. Taken = Len(sent)
  BY <1>2 DEF Taken
<1>4. Len(sent) > 0 <=> sent # <<>>
  BY <1>2, TailIs, EmptyIs
<1>5. Len(sent) > 0 => LastSent \in Item
  <2>1. Len(sent) > 0 => Len(sent) \in 1 .. Len(sent)
    BY <1>2
  <2> QED
    BY <1>2, <2>1 DEF LastSent
<1> QED
  BY <1>1, <1>2, <1>3, <1>4, <1>5 DEF LastSent

\* The stream that ended was told in full: all its messages, none of them cut.
LEMMA StreamComplete ==
    ASSUME Inv, ~Unary, consumer \notin Over, env = "closed", ahead = <<>>,
           got.end = "ok" \/ onlyHeader, NothingBehindEnd
    PROVE  /\ Count("message") = Messages(sent) /\ Count("cutMessage") = 0
           /\ \/ sent # <<>> /\ LastSent = "endOk"
              \/ ~Triple /\ sent # <<>> /\ LastSent \in {"cutEndOk", "cutEndError"}
              \/ onlyHeader /\ sent = <<>>
<1> USE DEF Inv
<1>1. /\ net = "closed" /\ Taken = Len(sent) /\ Len(sent) \in Nat
      /\ Len(sent) > 0 => sent[Taken] = LastSent
      /\ Len(sent) > 0 <=> sent # <<>>
      /\ Len(sent) > 0 => LastSent \in Item
  BY AllRead
<1>2. Messages(sent) = (IF Len(sent) > 0 /\ LastSent # "message" THEN Len(sent) - 1
                        ELSE Len(sent))
  BY MessagesSent DEF TypeOK
<1> DEFINE more == Taken > 0
           last == sent[Taken]
<1>3. /\ Count("message") = (IF more /\ last # "message" THEN Taken - 1 ELSE Taken)
      /\ Count("cutMessage") = (IF more /\ last = "cutMessage" THEN 1 ELSE 0)
      /\ got.end # "none" <=> more /\ last \notin {"message", "cutMessage"}
      /\ got.end # "none" => /\ got.end = "ok" /\ last # "endError"
                             /\ Triple => last = "endOk"
      /\ onlyHeader => ~more
  BY <1>1 DEF StreamTold, Lost
<1>4. more <=> sent # <<>>
  BY <1>1
<1>5. more => last = LastSent
  BY <1>1
<1>6. Count("message") = Messages(sent)
  BY <1>1, <1>2, <1>3
<1>7. CASE onlyHeader
  BY <1>3, <1>4, <1>6, <1>7
<1>8. CASE got.end = "ok"
  <2>1. more /\ last \notin {"message", "cutMessage"} /\ last # "endError"
        /\ (Triple => last = "endOk")
    BY <1>3, <1>8
  <2>2. last \in Item
    BY <1>1, <2>1, <1>5
  <2>3. last \in {"endOk", "cutEndOk", "cutEndError"}
    BY <2>1, <2>2 DEF Item, Items, CutItems
  <2> QED
    BY <1>3, <1>4, <1>5, <1>6, <2>1, <2>3
<1> QED
  BY <1>7, <1>8

\* A unary gRPC-web call that has a message and a good end has read the one message
\* of the response.
LEMMA UnaryComplete ==
    ASSUME Inv, Unary, ~Triple, consumer \notin Over, env = "closed", ahead = <<>>,
           got.end = "ok", got.messages # 0, NothingBehindEnd
    PROVE  /\ Messages(sent) = 1 /\ sent # <<>>
           /\ LastSent \in {"endOk", "cutEndOk", "cutEndError"}
<1> USE DEF Inv
<1>1. /\ net = "closed" /\ Taken = Len(sent) /\ Len(sent) \in Nat
      /\ Len(sent) > 0 => sent[Taken] = LastSent
      /\ Len(sent) > 0 <=> sent # <<>>
      /\ Len(sent) > 0 => LastSent \in Item
  BY AllRead
<1>2. Messages(sent) = (IF Len(sent) > 0 /\ LastSent # "message" THEN Len(sent) - 1
                        ELSE Len(sent))
  BY MessagesSent DEF TypeOK
<1> DEFINE more == Taken > 0
           last == sent[Taken]
           end  == more /\ last \notin {"message", "cutMessage"}
<1>3. /\ got.messages = (IF end THEN Taken - 1 ELSE Taken) /\ got.messages <= 1
      /\ got.end # "none" <=> end
      /\ got.end = "ok" => last # "endError"
  BY <1>1 DEF UnaryKept, Lost
<1>4. end /\ last # "endError" /\ got.messages \in Nat
  BY <1>3 DEF TypeOK
<1>5. Taken - 1 = 1
  <2>1. got.messages = Taken - 1 /\ got.messages <= 1
    BY <1>3, <1>4
  <2>2. got.messages \in Nat /\ got.messages # 0
    BY <1>4
  <2>3. \A n \in Nat : n # 0 /\ n <= 1 => n = 1
    OBVIOUS
  <2>4. got.messages = 1
    BY <2>1, <2>2, <2>3
  <2> QED
    BY <2>1, <2>4
<1>6. last = LastSent /\ last \in Item
  BY <1>1, <1>4
<1>7. last \in {"endOk", "cutEndOk", "cutEndError"}
  BY <1>4, <1>6 DEF Item, Items, CutItems
<1> QED
  <2>3. \A n \in Nat : n - 1 = 1 => n > 0
    OBVIOUS
  <2>4. Len(sent) - 1 = 1 /\ Len(sent) \in Nat
    BY <1>1, <1>5
  <2>1. Len(sent) - 1 = 1 /\ Len(sent) > 0
    BY <2>3, <2>4
  <2>2. LastSent # "message" /\ LastSent \in {"endOk", "cutEndOk", "cutEndError"}
    BY <1>6, <1>7
  <2> QED
    BY <1>1, <1>2, <2>1, <2>2

\* What is told at the end of a call that succeeds.
LEMMA SuccessIs ==
    ASSUME told \in Seq(Event), NEW new, \A i \in 1 .. Len(told) : told[i] \notin Ends,
           \/ new = <<"trailer", "success">>
           \/ new = <<"trailer", "success", "callback">>
           \/ new = <<"header", "trailer", "message", "success">>,
           told' = told \o new
    PROVE  /\ told' \in Seq(Event)
           /\ new[1] = "header" => Count("message")' = Count("message") + 1
           /\ new[1] # "header" => Count("message")' = Count("message")
           /\ Count("cutMessage")' = Count("cutMessage")
           /\ Count("canceled")' = Count("canceled")
           /\ \A i \in 1 .. Len(told') :
                told'[i] \in Ends =>
                    \/ i = Len(told')
                    \/ i = Len(told') - 1 /\ told'[Len(told')] = "callback"
           /\ \E i \in 1 .. Len(told') : told'[i] \in Ends
<1> DEFINE a == Append(told, new[1])
           b == Append(a, new[2])
           c == Append(b, new[3])
           d == Append(c, new[4])
<1>1. new[1] \in {"header", "trailer"} /\ new[2] \in {"trailer", "success"}
  OBVIOUS
<1>2. "header" \in Event /\ "trailer" \in Event /\ "success" \in Event
      /\ "message" \in Event /\ "callback" \in Event
  BY DEF Event, Errors
<1>3. a \in Seq(Event) /\ b \in Seq(Event)
  BY <1>1, <1>2, AppendIs
<1>4. /\ Cardinality(Places(told, "message")) \in Nat
      /\ Cardinality(Places(told, "cutMessage")) \in Nat
      /\ Cardinality(Places(told, "canceled")) \in Nat
  BY PlacesCounted
<1>5. ASSUME NEW x \in {"message", "cutMessage", "canceled"}
      PROVE  /\ Cardinality(Places(a, x)) = Cardinality(Places(told, x))
             /\ Cardinality(Places(b, x)) = Cardinality(Places(told, x))
  <2>1. new[1] # x /\ new[2] # x /\ new[1] \in Event /\ new[2] \in Event
    BY <1>1, <1>2
  <2>2. Cardinality(Places(a, x)) = Cardinality(Places(told, x))
    BY <2>1, PlacesOther
  <2> HIDE DEF a
  <2>3. Cardinality(Places(b, x)) = Cardinality(Places(a, x))
    BY <2>1, <1>3, PlacesOther
  <2> QED
    BY <2>2, <2>3
<1>6. Len(told) \in Nat
  BY LenIs
<1>7. /\ \A i \in 1 .. Len(told) : b[i] = told[i]
      /\ Len(b) = Len(told) + 2 /\ b[Len(told) + 1] = new[1] /\ b[Len(told) + 2] = new[2]
  OBVIOUS
<1>8. "trailer" \notin Ends /\ "header" \notin Ends /\ "message" \notin Ends
      /\ "success" \in Ends
  BY DEF Ends, Errors
<1>9. CASE new = <<"trailer", "success">>
  <2>1. told' = b
    BY <1>9
  <2>2. new[1] = "trailer" /\ new[2] = "success"
    BY <1>9
  <2> HIDE DEF b, a
  <2>3. \A i \in 1 .. Len(told') : told'[i] \in Ends => i = Len(told')
    BY <2>1, <2>2, <1>6, <1>7, <1>8
  <2>4. Len(told') \in 1 .. Len(told') /\ told'[Len(told')] \in Ends
    BY <2>1, <2>2, <1>6, <1>7, <1>8
  <2>5. /\ Count("message")' = Count("message")
        /\ Count("cutMessage")' = Count("cutMessage")
        /\ Count("canceled")' = Count("canceled")
    BY <2>1, <1>5 DEF Count
  <2>6. told' \in Seq(Event)
    BY <1>3, <2>1
  <2>9. \A i \in 1 .. Len(told') :
          told'[i] \in Ends =>
              i = Len(told') \/ (i = Len(told') - 1 /\ told'[Len(told')] = "callback")
    BY <2>3
  <2> QED
    BY <2>2, <2>4, <2>5, <2>6, <2>9
<1>10. CASE new = <<"trailer", "success", "callback">>
  <2>1. told' = c
    BY <1>10
  <2>2. new[1] = "trailer" /\ new[2] = "success" /\ new[3] = "callback"
    BY <1>10
  <2> HIDE DEF b, a
  <2>3. /\ c \in Seq(Event) /\ Len(c) = Len(told) + 3 /\ c[Len(told) + 3] = "callback"
        /\ \A i \in 1 .. Len(b) : c[i] = b[i]
    BY <1>2, <1>3, <1>6, <1>7, <2>2, AppendIs
  <2>4. ASSUME NEW x \in {"message", "cutMessage", "canceled"}
        PROVE  Cardinality(Places(c, x)) = Cardinality(Places(told, x))
    <3>1. new[3] # x /\ new[3] \in Event /\ b \in Seq(Event)
      BY <1>2, <1>3, <2>2
    <3>2. Cardinality(Places(c, x)) = Cardinality(Places(b, x))
      BY <3>1, PlacesOther
    <3> QED
      BY <3>2, <1>5
  <2>5. /\ Count("message")' = Count("message")
        /\ Count("cutMessage")' = Count("cutMessage")
        /\ Count("canceled")' = Count("canceled")
    BY <2>1, <2>4 DEF Count
  <2> HIDE DEF c
  <2>6. Len(told') - 1 = Len(told) + 2 /\ told'[Len(told')] = "callback"
    BY <2>1, <2>3, <1>6
  <2>7. ASSUME NEW i \in 1 .. Len(told'), told'[i] \in Ends
        PROVE  i = Len(told') \/ i = Len(told') - 1
    <3>1. i \in 1 .. Len(told) \/ i = Len(told) + 1 \/ i = Len(told) + 2 \/ i = Len(told) + 3
      BY <2>1, <2>3, <1>6
    <3>2. i \in 1 .. Len(told) => told'[i] = told[i]
      BY <2>1, <2>3, <1>6, <1>7
    <3>3. told'[Len(told) + 1] = "trailer"
      BY <2>1, <2>2, <2>3, <1>6, <1>7
    <3> QED
      BY <2>6, <2>7, <3>1, <3>2, <3>3, <1>8, <2>1, <2>3, <1>6
  <2>8. Len(told) + 2 \in 1 .. Len(told') /\ told'[Len(told) + 2] = "success"
    BY <2>1, <2>2, <2>3, <1>6, <1>7
  <2>9. told' \in Seq(Event)
    BY <2>1, <2>3
  <2>12. \A i \in 1 .. Len(told') :
          told'[i] \in Ends =>
              i = Len(told') \/ (i = Len(told') - 1 /\ told'[Len(told')] = "callback")
    BY <2>6, <2>7
  <2>13. \E i \in 1 .. Len(told') : told'[i] \in Ends
    BY <2>8, <1>8
  <2> QED
    BY <2>2, <2>5, <2>9, <2>12, <2>13
<1>11. CASE new = <<"header", "trailer", "message", "success">>
  <2>1. told' = d
    BY <1>11
  <2>2. new[1] = "header" /\ new[2] = "trailer" /\ new[3] = "message" /\ new[4] = "success"
    BY <1>11
  <2> HIDE DEF b, a
  <2>3. /\ c \in Seq(Event) /\ Len(c) = Len(told) + 3 /\ c[Len(told) + 3] = "message"
        /\ \A i \in 1 .. Len(b) : c[i] = b[i]
    BY <1>2, <1>3, <1>6, <1>7, <2>2, AppendIs
  <2>4. Cardinality(Places(c, "message")) = Cardinality(Places(told, "message")) + 1
    <3>1. new[3] = "message" /\ "message" \in Event /\ b \in Seq(Event)
      BY <1>2, <1>3, <2>2
    <3>2. Cardinality(Places(c, "message")) = Cardinality(Places(b, "message")) + 1
      BY <3>1, PlacesSame
    <3> QED
      BY <3>2, <1>5
  <2>10. ASSUME NEW x \in {"cutMessage", "canceled"}
         PROVE  Cardinality(Places(c, x)) = Cardinality(Places(told, x))
    <3>1. new[3] # x /\ new[3] \in Event /\ b \in Seq(Event)
      BY <1>2, <1>3, <2>2
    <3>2. Cardinality(Places(c, x)) = Cardinality(Places(b, x))
      BY <3>1, PlacesOther
    <3> QED
      BY <3>2, <1>5
  <2> HIDE DEF c
  <2>5. /\ d \in Seq(Event) /\ Len(d) = Len(told) + 4 /\ d[Len(told) + 4] = "success"
        /\ \A i \in 1 .. Len(c) : d[i] = c[i]
    BY <1>2, <2>3, <1>6, <2>2, AppendIs
  <2>6. ASSUME NEW x \in {"message", "cutMessage", "canceled"}
        PROVE  Cardinality(Places(d, x)) = Cardinality(Places(c, x))
    <3>1. new[4] # x /\ new[4] \in Event /\ c \in Seq(Event)
      BY <1>2, <2>2, <2>3
    <3> QED
      BY <3>1, PlacesOther
  <2>7. /\ Count("message")' = Count("message") + 1
        /\ Count("cutMessage")' = Count("cutMessage")
        /\ Count("canceled")' = Count("canceled")
    BY <2>1, <2>4, <2>6, <2>10 DEF Count
  <2> HIDE DEF d
  <2>8. ASSUME NEW i \in 1 .. Len(told'), told'[i] \in Ends
        PROVE  i = Len(told')
    <3>1. i \in 1 .. Len(told) \/ i \in Len(told) + 1 .. Len(told) + 4
      BY <2>1, <2>5, <1>6
    <3>2. i \in 1 .. Len(told) => told'[i] = told[i]
      BY <2>1, <2>3, <2>5, <1>6, <1>7
    <3>3. told'[Len(told) + 1] = "header" /\ told'[Len(told) + 2] = "trailer"
          /\ told'[Len(told) + 3] = "message"
      <4>1. \A j \in 1 .. Len(told) + 3 : told'[j] = c[j]
        BY <2>1, <2>3, <2>5
      <4>2. \A j \in 1 .. Len(told) + 2 : c[j] = b[j]
        BY <2>3, <1>7
      <4>3. Len(told) + 1 \in 1 .. Len(told) + 2 /\ Len(told) + 2 \in 1 .. Len(told) + 2
            /\ Len(told) + 1 \in 1 .. Len(told) + 3 /\ Len(told) + 2 \in 1 .. Len(told) + 3
            /\ Len(told) + 3 \in 1 .. Len(told) + 3
        BY <1>6
      <4> QED
        BY <4>1, <4>2, <4>3, <2>2, <2>3, <1>7
    <3> QED
      BY <2>8, <3>1, <3>2, <3>3, <1>8, <2>1, <2>5, <1>6
  <2>9. Len(told') \in 1 .. Len(told') /\ told'[Len(told')] \in Ends
    BY <2>1, <2>5, <1>6, <1>8
  <2> QED
    BY <2>1, <2>2, <2>5, <2>7, <2>8, <2>9
<1> QED
  BY <1>9, <1>10, <1>11

\* A call that succeeds has told the whole response, and its success once.
LEMMA SucceedKeeps ==
    ASSUME Inv, consumer \notin Over, consumer' = "settled", EndCall,
           NEW new, told' = told \o new,
           \/ new = <<"trailer", "success">>
           \/ new = <<"trailer", "success", "callback">>
           \/ new = <<"header", "trailer", "message", "success">>,
           UNCHANGED <<setup, sent, onlyHeader, ahead, env, expired, user, known>>,
           got' \in [messages : Nat, end : {"none", "ok", "error"}], user => got' = got,
           (Count("message") + Count("cutMessage"))' <= got'.messages,
           NothingBehindEnd =>
              /\ Count("message")' = Messages(sent) /\ Count("cutMessage") = 0
              /\ \/ Triple /\ Unary /\ Messages(sent) = 1
                 \/ sent # <<>> /\ LastSent = "endOk"
                 \/ ~Triple /\ sent # <<>> /\ LastSent \in {"cutEndOk", "cutEndError"}
                 \/ onlyHeader /\ sent = <<>>
    PROVE  Inv'
<1> USE DEF Inv
<1>1. AbortSignal
  BY DEF EndCall
<1>2. /\ body' = <<>>
      /\ net' \in {"closed", "cut", "broken", "aborted"}
      /\ net' # net => net' = "aborted"
      /\ net' \notin Lost => net' = net /\ body = <<>>
      /\ env = "closed" => net' = "closed"
      /\ Triple /\ Unary => net' # "closed"
  BY <1>1, AbortIs
<1>3. \A i \in 1 .. Len(told) : told[i] \notin Ends
  BY DEF NotOver
<1>4. /\ told' \in Seq(Event)
      /\ Count("cutMessage")' = Count("cutMessage")
      /\ Count("canceled")' = Count("canceled")
      /\ \A i \in 1 .. Len(told') :
           told'[i] \in Ends =>
               \/ i = Len(told')
               \/ i = Len(told') - 1 /\ told'[Len(told')] = "callback"
      /\ \E i \in 1 .. Len(told') : told'[i] \in Ends
  BY <1>3, SuccessIs DEF TypeOK
<1>6. TypeOK'
  <2>1. body' \in Seq(Item)
    BY <1>2, EmptyIs
  <2> QED
    BY <1>2, <1>4, <2>1 DEF TypeOK
<1>7. Delivery'
  <2>1. CASE net' \in Lost
    BY <2>1 DEF Delivery
  <2>2. CASE net' \notin Lost
    <3>1. Taken' = Taken /\ net \notin Lost
      BY <1>2, <2>2 DEF Taken
    <3> QED
      BY <1>2, <2>2, <3>1 DEF Delivery
  <2> QED
    BY <2>1, <2>2
<1>8. Response'
  BY <1>2 DEF Response, Triple, Unary
<1>9. Aborts'
  BY <1>2 DEF Aborts
<1>10. Canceled'
  <2>1. Callback => Count("canceled")' = 0
    BY <1>4 DEF Canceled
  <2>2. user => got'.messages + Len(ahead) <= known
    BY DEF Canceled
  <2> QED
    BY <2>1, <2>2 DEF Canceled, Callback
<1>11. NotOver' /\ StreamTold' /\ UnaryKept' /\ UnaryTold'
  BY DEF NotOver, StreamTold, UnaryKept, UnaryTold, Over
<1>12. Succeeded' /\ ResponseReleased'
  BY <1>2 DEF Succeeded, ResponseReleased
<1>13. ToldOnce'
  BY <1>4 DEF ToldOnce
<1>14. SuccessMeansComplete'
  BY <1>4 DEF SuccessMeansComplete, NothingBehindEnd, Messages, LastSent, Triple, Unary
<1> QED
  BY <1>6, <1>7, <1>8, <1>9, <1>10, <1>11, <1>12, <1>13, <1>14

-----------------------------------------------------------------------------
(* The transports read. *)

\* What is taken from the stream of envelopes is the next of the response; if nothing
\* may follow an end, what was read before it are messages.
LEMMA TakeIs ==
    ASSUME Inv, NEW item \in Item, Take(item)
    PROVE  /\ consumer = "reading" /\ ~(Triple /\ Unary)
           /\ UNCHANGED <<setup, sent, onlyHeader, env, expired, user, known>>
           /\ ahead # <<>> /\ ahead' = Tail(ahead) /\ ahead' \in Seq(Item)
           /\ Len(ahead) \in Nat \ {0} /\ Len(ahead') = Len(ahead) - 1
           /\ net \notin Lost =>
                 /\ Taken \in Nat /\ Taken + 1 \in 1 .. Len(sent) /\ sent[Taken + 1] = item
                 /\ body' = body => Taken' = Taken + 1
                 /\ NothingBehindEnd /\ Taken > 0 => sent[Taken] = "message"
<1> USE DEF Inv
<1>1. consumer = "reading" /\ ~(Triple /\ Unary) /\ ahead # <<>> /\ item = Head(ahead)
      /\ UNCHANGED <<setup, sent, onlyHeader, env, expired, user, known>>
      /\ ahead' = Tail(ahead)
  BY DEF Take, Reading
<1>2. /\ Len(ahead) \in Nat \ {0} /\ ahead[1] = item
      /\ ahead' \in Seq(Item) /\ Len(ahead') = Len(ahead) - 1
  BY <1>1, TailIs DEF TypeOK
<1>3. Len(sent) \in Nat /\ Len(body) \in Nat
  BY LenIs DEF TypeOK
<1>4. ASSUME net \notin Lost
      PROVE  /\ Taken \in Nat /\ Taken + 1 \in 1 .. Len(sent) /\ sent[Taken + 1] = item
             /\ body' = body => Taken' = Taken + 1
             /\ NothingBehindEnd /\ Taken > 0 => sent[Taken] = "message"
  <2>1. Taken \in Nat /\ Taken = Len(sent) - Len(ahead) - Len(body)
    BY <1>4 DEF Delivery, Taken
  <2>2. Taken + 1 \in 1 .. Len(sent) /\ (Taken > 0 => Taken \in 1 .. Len(sent) - 1)
    BY <2>1, <1>2, <1>3
  <2>3. sent[Taken + 1] = item
    <3>1. \A i \in 1 .. Len(ahead) : sent[Taken + i] = ahead[i]
      BY <1>4 DEF Delivery
    <3>2. 1 \in 1 .. Len(ahead)
      BY <1>2
    <3> QED
      BY <3>1, <3>2, <1>2
  <2>4. body' = body => Taken' = Taken + 1
    BY <1>1, <1>2, <1>3, <2>1 DEF Taken
  <2> QED
    BY <2>1, <2>2, <2>3, <2>4 DEF NothingBehindEnd
<1> QED
  BY <1>1, <1>2, <1>4

\* The rest of the response stays in order.
LEMMA TakeDelivers ==
    ASSUME Inv, NEW item \in Item, Take(item), UNCHANGED <<net, body>>
    PROVE  Delivery'
BY TakeIs, RestDelivers

\* An error that is thrown while an envelope is read.
LEMMA ThrowKeeps ==
    ASSUME Inv, NEW item \in Item, Take(item), NEW error \in {"status", "protocol"},
           Throw(error)
    PROVE  Inv'
<1>1. consumer \notin Over /\ ahead # <<>> /\ ahead' = Tail(ahead)
      /\ UNCHANGED <<setup, sent, onlyHeader, env, got, expired, user, known>> /\ Fail(error)
  BY TakeIs DEF Over, Throw
<1>2. error \in Errors /\ error # "canceled"
  BY DEF Errors
<1> QED
  BY <1>1, <1>2, FailKeeps

\* A message that is yielded is one more that was read and told.
LEMMA YieldKeeps ==
    ASSUME Inv, NEW item \in {"message", "cutMessage"}, Take(item), ~Unary,
           Triple \/ ~onlyHeader, YieldMessage(item)
    PROVE  Inv'
<1> USE DEF Inv
<1>0. item \in Item /\ item \in Event /\ item \notin Ends
  BY DEF Item, Items, CutItems, Event, Ends, Errors
<1>1. /\ consumer = "reading"
      /\ UNCHANGED <<setup, sent, onlyHeader, env, expired, user, known, net, body>>
      /\ ahead' \in Seq(Item) /\ Len(ahead) \in Nat \ {0} /\ Len(ahead') = Len(ahead) - 1
      /\ got' = [got EXCEPT !.messages = @ + 1]
  BY <1>0, TakeIs DEF YieldMessage
<1>2. ~onlyHeader
  BY DEF Response
<1>3. told \in Seq(Event) /\ Len(told) \in Nat
  BY LenIs DEF TypeOK
<1>4. \A i \in 1 .. Len(told) : told[i] \notin Ends
  BY <1>1 DEF NotOver, Over
<1>5. /\ got' \in [messages : Nat, end : {"none", "ok", "error"}] /\ got'.end = got.end
      /\ got.messages \in Nat /\ got'.messages = got.messages + 1
  <2>1. got \in [messages : Nat, end : {"none", "ok", "error"}] /\ got.messages + 1 \in Nat
    BY DEF TypeOK
  <2>2. got' = [got EXCEPT !.messages = got.messages + 1]
    BY <1>1
  <2> QED
    BY <2>1, <2>2
<1>6. user => got'.messages + Len(ahead') <= known
  <2>1. user => got.messages + Len(ahead) <= known
    BY DEF Canceled
  <2> QED
    BY <1>1, <1>5, <2>1
<1>7. Aborts' /\ Response'
  BY <1>1, <1>2 DEF Aborts, Response, Triple, Unary, YieldMessage
<1>8. Delivery'
  BY <1>0, <1>1, TakeDelivers
<1>9. UnaryKept' /\ UnaryTold'
  BY <1>1 DEF UnaryKept, UnaryTold, Unary
<1>10. /\ Count("message") \in Nat /\ Count("cutMessage") \in Nat
       /\ Count("success") \in Nat /\ Count("canceled") \in Nat
  BY <1>3, PlacesCounted DEF Count
<1>11. ~(Count("success") > 0)
  BY <1>1 DEF Succeeded
<1>12. ResponseReleased'
  BY <1>1 DEF ResponseReleased, YieldMessage
<1> DEFINE a == Append(told, item)
<1>13. /\ a \in Seq(Event) /\ Len(a) = Len(told) + 1 /\ a[Len(told) + 1] = item
       /\ \A i \in 1 .. Len(told) : a[i] = told[i]
  BY <1>0, <1>3, AppendIs
<1>14. /\ Cardinality(Places(a, "success")) = Count("success")
       /\ Cardinality(Places(a, "canceled")) = Count("canceled")
       /\ Cardinality(Places(a, "message")) + Cardinality(Places(a, "cutMessage")) =
              Count("message") + Count("cutMessage") + 1
  <2>1. /\ Cardinality(Places(a, "success")) = Count("success")
        /\ Cardinality(Places(a, "canceled")) = Count("canceled")
    BY <1>0, <1>3, PlacesOther DEF Count
  <2>2. CASE item = "message"
    <3>1. /\ Cardinality(Places(a, "message")) = Count("message") + 1
          /\ Cardinality(Places(a, "cutMessage")) = Count("cutMessage")
      BY <1>0, <1>3, <2>2, PlacesSame, PlacesOther DEF Count
    <3> QED
      BY <1>10, <2>1, <3>1
  <2>3. CASE item = "cutMessage"
    <3>1. /\ Cardinality(Places(a, "message")) = Count("message")
          /\ Cardinality(Places(a, "cutMessage")) = Count("cutMessage") + 1
      BY <1>0, <1>3, <2>3, PlacesSame, PlacesOther DEF Count
    <3> QED
      BY <1>10, <2>1, <3>1
  <2> QED
    BY <2>2, <2>3
<1>15. CASE told' = a /\ consumer' \in {"reading", "idle"}
  <2>1. Count("success")' = Count("success") /\ Count("canceled")' = Count("canceled")
    BY <1>14, <1>15 DEF Count
  <2>2. TypeOK'
    <3> HIDE DEF a
    <3> QED
      BY <1>1, <1>5, <1>13, <1>15 DEF TypeOK
  <2>3. Canceled'
    <3>1. (Count("message") + Count("cutMessage"))' <= got'.messages
      <4>1. (Count("message") + Count("cutMessage"))' = Count("message") + Count("cutMessage") + 1
        BY <1>14, <1>15 DEF Count
      <4> QED
        BY <4>1, <1>5, <1>10 DEF Canceled
    <3> QED
      BY <1>1, <1>6, <2>1, <3>1 DEF Canceled, Callback
  <2>4. \A i \in 1 .. Len(told') : told'[i] \notin Ends
    <3> HIDE DEF a
    <3> QED
      BY <1>0, <1>3, <1>4, <1>13, <1>15
  <2>5. NotOver' /\ ToldOnce' /\ Succeeded' /\ SuccessMeansComplete'
    BY <1>11, <1>15, <2>1, <2>4 DEF NotOver, ToldOnce, Succeeded, SuccessMeansComplete
  <2>6. StreamTold'
    <3>1. SUFFICES ASSUME net \notin Lost, NothingBehindEnd PROVE StreamTold'
      BY <1>1 DEF StreamTold, NothingBehindEnd
    <3>2. /\ Taken \in Nat /\ sent[Taken + 1] = item /\ Taken' = Taken + 1
          /\ Taken > 0 => sent[Taken] = "message"
      BY <1>0, <1>1, <3>1, TakeIs
    <3>3. Count("message") = Taken /\ Count("cutMessage") = 0 /\ got.end = "none"
      BY <1>1, <3>1, <3>2 DEF StreamTold, Over
    <3>4. item = "message" => /\ Count("message")' = Taken + 1
                              /\ Count("cutMessage")' = 0
      <4>1. item = "message" =>
              /\ Cardinality(Places(a, "message")) = Count("message") + 1
              /\ Cardinality(Places(a, "cutMessage")) = Count("cutMessage")
        BY <1>0, <1>3, PlacesSame, PlacesOther DEF Count
      <4> QED
        BY <4>1, <3>3, <1>15 DEF Count
    <3>5. item = "cutMessage" => /\ Count("message")' = Taken
                                  /\ Count("cutMessage")' = 1
      <4>1. item = "cutMessage" =>
              /\ Cardinality(Places(a, "message")) = Count("message")
              /\ Cardinality(Places(a, "cutMessage")) = Count("cutMessage") + 1
        BY <1>0, <1>3, PlacesSame, PlacesOther DEF Count
      <4> QED
        BY <4>1, <3>3, <1>15 DEF Count
    <3>6. Taken' > 0 /\ sent'[Taken'] = item /\ got'.end = "none" /\ ~onlyHeader'
          /\ Taken' - 1 = Taken
      BY <1>1, <1>2, <1>5, <3>2, <3>3
    <3> HIDE DEF a
    <3>7. CASE item = "message"
      BY <3>2, <3>4, <3>6, <3>7 DEF StreamTold
    <3>8. CASE item = "cutMessage"
      BY <3>2, <3>5, <3>6, <3>8 DEF StreamTold
    <3> QED
      BY <3>7, <3>8
  <2> QED
    BY <1>7, <1>8, <1>9, <1>12, <2>2, <2>3, <2>5, <2>6
<1>16. CASE Callback /\ told' = told \o <<item, "callback">> /\ consumer' = "left"
  <2> DEFINE b == Append(a, "callback")
  <2>1. told' = b
    BY <1>3, <1>16
  <2>2. "callback" \in Event
    BY DEF Event, Errors
  <2> HIDE DEF a
  <2>3. /\ b \in Seq(Event) /\ Len(b) = Len(told) + 2 /\ b[Len(told) + 2] = "callback"
        /\ \A i \in 1 .. Len(told) + 1 : b[i] = a[i]
    BY <1>3, <1>13, <2>2, AppendIs
  <2>4. /\ Cardinality(Places(b, "success")) = Count("success")
        /\ Cardinality(Places(b, "canceled")) = Count("canceled")
        /\ Cardinality(Places(b, "message")) = Cardinality(Places(a, "message"))
        /\ Cardinality(Places(b, "cutMessage")) = Cardinality(Places(a, "cutMessage"))
    BY <1>13, <1>14, <2>2, PlacesOther
  <2>5. Count("success")' = Count("success") /\ Count("canceled")' = Count("canceled")
    BY <2>1, <2>4 DEF Count
  <2> HIDE DEF b
  <2>6. TypeOK'
    BY <1>1, <1>5, <1>16, <2>1, <2>3 DEF TypeOK
  <2>7. Canceled'
    <3>1. (Count("message") + Count("cutMessage"))' <= got'.messages
      <4>1. (Count("message") + Count("cutMessage"))' = Count("message") + Count("cutMessage") + 1
        BY <1>14, <2>1, <2>4 DEF Count
      <4> QED
        BY <4>1, <1>5, <1>10 DEF Canceled
    <3> QED
      BY <1>1, <1>6, <2>5, <3>1 DEF Canceled, Callback
  <2>8. \A i \in 1 .. Len(told') : told'[i] \in Ends => i = Len(told')
    BY <1>0, <1>3, <1>4, <1>13, <2>1, <2>3
  <2>9. ToldOnce'
    BY <1>16, <2>8 DEF ToldOnce
  <2>10. NotOver' /\ StreamTold' /\ Succeeded' /\ SuccessMeansComplete'
    BY <1>11, <1>16, <2>5 DEF NotOver, StreamTold, Over, Succeeded, SuccessMeansComplete
  <2> QED
    BY <1>7, <1>8, <1>9, <1>12, <2>6, <2>7, <2>9, <2>10
<1> QED
  BY <1>15, <1>16 DEF YieldMessage

\* An end that is kept is the end that was read; a unary gRPC-web call keeps its
\* message, too.
LEMMA KeepKeeps ==
    ASSUME Inv, NEW item \in Item, Take(item), NEW what, Keep(what),
           what \in [messages : Nat, end : {"none", "ok", "error"}],
           what.messages \in {got.messages, got.messages + 1},
           ~Unary => /\ item \in {"endOk", "cutEndOk", "cutEndError"}
                     /\ what.end = "ok" /\ ~onlyHeader
                     /\ Triple => item = "endOk",
           Unary /\ item \in {"message", "cutMessage"} =>
                     got.messages = 0 /\ what.messages = 1 /\ what.end = got.end,
           Unary /\ item \notin {"message", "cutMessage"} =>
                     /\ what.messages = got.messages /\ what.end # "none"
                     /\ what.end = "ok" => item # "endError"
    PROVE  Inv'
<1> USE DEF Inv
<1>1. /\ consumer = "reading" /\ ~(Triple /\ Unary)
      /\ UNCHANGED <<setup, sent, onlyHeader, env, expired, user, known, net, body, consumer,
                     told>>
      /\ got' = what
      /\ ahead' \in Seq(Item) /\ Len(ahead) \in Nat \ {0} /\ Len(ahead') = Len(ahead) - 1
  BY TakeIs DEF Keep
<1>2. TypeOK'
  BY <1>1 DEF TypeOK
<1>3. Delivery'
  BY <1>1, TakeDelivers
<1>4. Response' /\ Aborts'
  BY <1>1 DEF Response, Aborts, Triple, Unary
<1>5. Canceled'
  <2>1. got.messages \in Nat /\ what.messages \in {got.messages, got.messages + 1}
    BY DEF TypeOK
  <2>2. user => what.messages + Len(ahead') <= known
    BY <1>1, <2>1 DEF Canceled, TypeOK
  <2>3. Count("message") \in Nat /\ Count("cutMessage") \in Nat
    BY PlacesCounted DEF TypeOK, Count
  <2>4. (Count("message") + Count("cutMessage"))' <= got'.messages
    <3>1. (Count("message") + Count("cutMessage"))' = Count("message") + Count("cutMessage")
      BY <1>1 DEF Count
    <3>2. Count("message") + Count("cutMessage") <= got.messages
      BY DEF Canceled
    <3> QED
      BY <1>1, <2>1, <2>3, <3>1, <3>2
  <2> QED
    BY <1>1, <2>2, <2>4 DEF Canceled, Callback, Count
<1>6. NotOver' /\ UnaryTold' /\ Succeeded' /\ SuccessMeansComplete' /\ ToldOnce'
      /\ ResponseReleased'
  BY <1>1, <1>2, QuietKeeps DEF TypeOK
<1>7. ASSUME net \notin Lost, NothingBehindEnd
      PROVE  StreamTold' /\ UnaryKept'
  <2>1. /\ Taken \in Nat /\ sent[Taken + 1] = item /\ Taken' = Taken + 1
        /\ Taken > 0 => sent[Taken] = "message"
    BY <1>1, <1>7, TakeIs
  <2>2. Taken' > 0 /\ sent'[Taken'] = item /\ Taken' - 1 = Taken /\ got' = what
        /\ (Unary' <=> Unary) /\ (Triple' <=> Triple) /\ onlyHeader' = onlyHeader
    BY <1>1, <2>1 DEF Unary, Triple
  <2>3. Count("message")' = Count("message") /\ Count("cutMessage")' = Count("cutMessage")
    BY <1>1 DEF Count
  <2>4. CASE ~Unary
    <3>1. Count("message") = Taken /\ Count("cutMessage") = 0
      BY <1>1, <1>7, <2>1, <2>4 DEF StreamTold, Over
    <3>2. item \notin {"message", "cutMessage", "endError"}
      BY <2>4
    <3>3. StreamTold'
      BY <2>1, <2>2, <2>3, <2>4, <3>1, <3>2 DEF StreamTold
    <3> QED
      BY <2>2, <2>4, <3>3 DEF UnaryKept
  <2>5. CASE Unary
    <3>1. got.messages = Taken /\ got.messages <= 1 /\ got.end = "none"
      BY <1>1, <1>7, <2>1, <2>5 DEF UnaryKept, Over
    <3>2. CASE item \in {"message", "cutMessage"}
      <4>1. what.messages = 1 /\ what.end = "none" /\ Taken = 0 /\ Taken' = 1
        BY <2>1, <2>5, <3>1, <3>2
      <4> QED
        BY <2>1, <2>2, <2>5, <3>2, <4>1 DEF UnaryKept, StreamTold
    <3>3. CASE item \notin {"message", "cutMessage"}
      <4>1. what.messages = Taken /\ what.messages <= 1 /\ what.end # "none"
            /\ (what.end = "ok" => item # "endError")
        BY <2>5, <3>1, <3>3
      <4> QED
        BY <2>1, <2>2, <2>5, <3>3, <4>1 DEF UnaryKept, StreamTold
    <3> QED
      BY <3>2, <3>3
  <2> QED
    BY <2>4, <2>5
<1>8. StreamTold' /\ UnaryKept'
  <2>1. CASE net \notin Lost /\ NothingBehindEnd
    BY <1>7, <2>1
  <2>2. CASE ~(net \notin Lost /\ NothingBehindEnd)
    BY <1>1, <2>2 DEF StreamTold, UnaryKept, NothingBehindEnd
  <2> QED
    BY <2>1, <2>2
<1> QED
  BY <1>2, <1>3, <1>4, <1>5, <1>6, <1>8

\* An envelope that is read, by each of the transports.
LEMMA ReadKeeps ==
    ASSUME Inv, Read
    PROVE  Inv'
<1>1. PICK item \in Item :
        /\ Take(item)
        /\ \/ Triple /\ (TripleMessage(item) \/ TripleEnd(item))
           \/ ~Triple /\ ~Unary /\ (WebMessage(item) \/ WebEnd(item))
           \/ ~Triple /\ Unary /\ (WebUnaryMessage(item) \/ WebUnaryEnd(item))
  BY DEF Read, Item
<1>2. got \in [messages : Nat, end : {"none", "ok", "error"}]
  BY DEF Inv, TypeOK
<1>3. ~(Triple /\ Unary)
  BY <1>1, TakeIs
<1>4. ASSUME Throw("status") \/ Throw("protocol") PROVE Inv'
  BY <1>1, <1>4, ThrowKeeps
<1>5. CASE Triple /\ TripleMessage(item)
  <2>1. CASE Throw("protocol")
    BY <1>4, <2>1
  <2>2. CASE item \in {"message", "cutMessage"} /\ YieldMessage(item)
    BY <1>1, <1>3, <1>5, <2>2, YieldKeeps
  <2> QED
    BY <1>5, <2>1, <2>2 DEF TripleMessage
<1>6. CASE Triple /\ TripleEnd(item)
  <2>1. CASE Throw("protocol") \/ Throw("status")
    BY <1>4, <2>1
  <2>2. CASE item = "endOk" /\ Keep([got EXCEPT !.end = "ok"])
    <3>1. ~onlyHeader
      BY <1>6 DEF Inv, Response
    <3>2. [got EXCEPT !.end = "ok"] \in [messages : Nat, end : {"none", "ok", "error"}]
          /\ [got EXCEPT !.end = "ok"].end = "ok"
          /\ [got EXCEPT !.end = "ok"].messages = got.messages
      BY <1>2
    <3> QED
      BY <1>1, <1>3, <1>6, <2>2, <3>1, <3>2, KeepKeeps
  <2> QED
    BY <1>6, <2>1, <2>2 DEF TripleEnd
<1>7. CASE ~Triple /\ ~Unary /\ WebMessage(item)
  <2>1. CASE Throw("protocol")
    BY <1>4, <2>1
  <2>2. CASE item \in {"message", "cutMessage"} /\ ~onlyHeader /\ YieldMessage(item)
    BY <1>1, <1>7, <2>2, YieldKeeps
  <2> QED
    BY <1>7, <2>1, <2>2 DEF WebMessage
<1>8. CASE ~Triple /\ ~Unary /\ WebEnd(item)
  <2>1. CASE Throw("protocol") \/ Throw("status")
    BY <1>4, <2>1
  <2>2. PICK status \in TrailerStatus(item) :
          \/ Throw("protocol") \/ Throw("status")
          \/ ~onlyHeader /\ status # "error" /\ Keep([got EXCEPT !.end = "ok"])
    BY <1>8 DEF WebEnd
  <2>3. item \notin {"message", "cutMessage"}
    BY <1>8 DEF WebEnd
  <2>4. CASE ~onlyHeader /\ status # "error" /\ Keep([got EXCEPT !.end = "ok"])
    <3>1. [got EXCEPT !.end = "ok"] \in [messages : Nat, end : {"none", "ok", "error"}]
          /\ [got EXCEPT !.end = "ok"].end = "ok"
          /\ [got EXCEPT !.end = "ok"].messages = got.messages
      BY <1>2
    <3>2. item \in {"endOk", "cutEndOk", "cutEndError"}
      BY <2>2, <2>3, <2>4 DEF TrailerStatus, Item, Items, CutItems
    <3> QED
      BY <1>1, <1>8, <2>4, <3>1, <3>2, KeepKeeps
  <2> QED
    BY <2>1, <2>2, <2>4
<1>9. CASE ~Triple /\ Unary /\ WebUnaryMessage(item)
  <2>1. CASE Throw("protocol")
    BY <1>4, <2>1
  <2>2. CASE item \in {"message", "cutMessage"} /\ got.messages = 0
             /\ Keep([got EXCEPT !.messages = 1])
    <3>1. [got EXCEPT !.messages = 1] \in [messages : Nat, end : {"none", "ok", "error"}]
          /\ [got EXCEPT !.messages = 1].messages = 1
          /\ [got EXCEPT !.messages = 1].end = got.end
      BY <1>2
    <3> QED
      BY <1>1, <1>9, <2>2, <3>1, KeepKeeps
  <2> QED
    BY <1>9, <2>1, <2>2 DEF WebUnaryMessage
<1>10. CASE ~Triple /\ Unary /\ WebUnaryEnd(item)
  <2>1. CASE Throw("protocol")
    BY <1>4, <2>1
  <2>2. PICK status \in TrailerStatus(item) :
          Throw("protocol") \/ Keep([got EXCEPT !.end = status])
    BY <1>10, <2>1 DEF WebUnaryEnd, TrailerStatus
  <2>3. item \notin {"message", "cutMessage"}
    BY <1>10 DEF WebUnaryEnd
  <2>4. CASE Keep([got EXCEPT !.end = status])
    <3>1. status \in {"ok", "error"} /\ (status = "ok" => item # "endError")
      BY <2>2 DEF TrailerStatus
    <3>2. [got EXCEPT !.end = status] \in [messages : Nat, end : {"none", "ok", "error"}]
          /\ [got EXCEPT !.end = status].end = status
          /\ [got EXCEPT !.end = status].messages = got.messages
      BY <1>2, <3>1
    <3> QED
      BY <1>1, <1>10, <2>3, <2>4, <3>1, <3>2, KeepKeeps
  <2> QED
    BY <2>1, <2>2, <2>4
<1> QED
  BY <1>1, <1>5, <1>6, <1>7, <1>8, <1>9, <1>10

\* The end of what is read, or its error.
LEMMA ReadEndKeeps ==
    ASSUME Inv, ReadStreamEnd \/ ReadUnaryEnd \/ ReadError \/ TripleUnaryResponse
    PROVE  Inv'
<1>1. /\ consumer \in {"reading", "refused"} /\ consumer \notin Over
      /\ UNCHANGED <<setup, sent, onlyHeader, ahead, env, expired, user, known>>
  BY DEF ReadStreamEnd, ReadUnaryEnd, ReadError, TripleUnaryResponse, Reading, Over
<1>2. got \in [messages : Nat, end : {"none", "ok", "error"}] /\ told \in Seq(Event)
  BY DEF Inv, TypeOK
<1>3. \A i \in 1 .. Len(told) : told[i] \notin Ends
  BY <1>1 DEF Inv, NotOver
<1>4. ASSUME NEW error \in Errors, error = "canceled" => expired \/ user, Fail(error),
             UNCHANGED got
      PROVE  Inv'
  BY <1>1, <1>4, FailKeeps
<1>5. "protocol" \in Errors /\ "status" \in Errors /\ "canceled" \in Errors
      /\ "network" \in Errors /\ "dataLoss" \in Errors
  BY DEF Errors
<1>6. CASE ReadStreamEnd
  <2>1. ~Unary /\ env = "closed" /\ ahead = <<>> /\ UNCHANGED got
    BY <1>6 DEF ReadStreamEnd
  <2>2. CASE Fail("protocol")
    BY <1>4, <1>5, <2>1, <2>2
  <2>3. ASSUME got.end = "ok" \/ onlyHeader, NEW throws \in BOOLEAN, EndStream(throws)
        PROVE  Inv'
    <3>1. PICK new : /\ told' = told \o new
                     /\ \/ new = <<"trailer", "success">>
                        \/ new = <<"trailer", "success", "callback">>
      <4>1. CASE throws
        <5>1. told' = told \o <<"trailer", "success">> \o <<"callback">>
          BY <2>3, <4>1 DEF EndStream
        <5>2. told' = told \o <<"trailer", "success", "callback">>
          BY <5>1, <1>2
        <5> QED
          BY <5>2
      <4>2. CASE ~throws
        <5>1. told' = told \o <<"trailer", "success">> \o <<>>
          BY <2>3, <4>2 DEF EndStream
        <5>2. told' = told \o <<"trailer", "success">>
          BY <5>1, <1>2
        <5> QED
          BY <5>2
      <4> QED
        BY <4>1, <4>2
    <3>2. Count("message")' = Count("message")
      <4>1. new[1] # "header"
        BY <3>1
      <4> QED
        BY <1>2, <1>3, <3>1, <4>1, SuccessIs
    <3>3. NothingBehindEnd =>
            /\ Count("message")' = Messages(sent) /\ Count("cutMessage") = 0
            /\ \/ sent # <<>> /\ LastSent = "endOk"
               \/ ~Triple /\ sent # <<>> /\ LastSent \in {"cutEndOk", "cutEndError"}
               \/ onlyHeader /\ sent = <<>>
      BY <1>1, <2>1, <2>3, <3>2, StreamComplete
    <3>4. consumer' = "settled" /\ EndCall
      BY <2>3 DEF EndStream
    <3>5. Count("cutMessage")' = Count("cutMessage")
      BY <1>2, <1>3, <3>1, SuccessIs
    <3>6. (Count("message") + Count("cutMessage"))' <= got'.messages
      BY <2>1, <3>2, <3>5 DEF Inv, Canceled
    <3> QED
      BY <1>1, <1>2, <2>1, <3>1, <3>3, <3>4, <3>6, SucceedKeeps
  <2> QED
    BY <1>6, <2>2, <2>3 DEF ReadStreamEnd
<1>7. ASSUME TellResponse, Unary, got' \in [messages : Nat, end : {"none", "ok", "error"}],
             got'.messages # 0, user => got' = got,
             NothingBehindEnd =>
                /\ Messages(sent) = 1
                /\ \/ Triple
                   \/ sent # <<>> /\ LastSent = "endOk"
                   \/ ~Triple /\ sent # <<>> /\ LastSent \in {"cutEndOk", "cutEndError"}
      PROVE  Inv'
  <2> DEFINE new == <<"header", "trailer", "message", "success">>
  <2>1. consumer' = "settled" /\ EndCall /\ told' = told \o new
    BY <1>7 DEF TellResponse
  <2>2. new[1] = "header"
    OBVIOUS
  <2>3. Count("message")' = Count("message") + 1
    BY <1>2, <1>3, <2>1, <2>2, SuccessIs
  <2>4. Count("message") = 0 /\ Count("cutMessage") = 0
    BY <1>1, <1>7 DEF Inv, UnaryTold
  <2>5. Count("message")' = 1 /\ Count("cutMessage")' = 0
    <3>1. Count("cutMessage")' = Count("cutMessage")
      BY <1>2, <1>3, <2>1, SuccessIs
    <3> QED
      BY <2>3, <2>4, <3>1
  <2>8. (Count("message") + Count("cutMessage"))' <= got'.messages
    <3>1. got'.messages \in Nat \ {0}
      BY <1>7
    <3>2. \A n \in Nat \ {0} : 1 + 0 <= n
      OBVIOUS
    <3> QED
      BY <2>5, <3>1, <3>2
  <2> HIDE DEF new
  <2>6. NothingBehindEnd =>
          /\ Count("message")' = Messages(sent) /\ Count("cutMessage") = 0
          /\ \/ Triple /\ Unary /\ Messages(sent) = 1
             \/ sent # <<>> /\ LastSent = "endOk"
             \/ ~Triple /\ sent # <<>> /\ LastSent \in {"cutEndOk", "cutEndError"}
             \/ onlyHeader /\ sent = <<>>
    BY <1>7, <2>4, <2>5
  <2>7. new = <<"header", "trailer", "message", "success">>
    BY DEF new
  <2> QED
    BY <1>1, <1>7, <2>1, <2>6, <2>7, <2>8, SucceedKeeps
<1>8. CASE ReadUnaryEnd
  <2>1. Unary /\ ~Triple /\ env = "closed" /\ ahead = <<>> /\ WebUnaryResponse
        /\ UNCHANGED got
    BY <1>8 DEF ReadUnaryEnd, Reading
  <2>2. \/ Fail("status")
        \/ Fail("protocol")
        \/ got.end = "ok" /\ got.messages # 0 /\ TellResponse
    BY <1>2, <2>1 DEF WebUnaryResponse
  <2>3. CASE Fail("status") \/ Fail("protocol")
    BY <1>4, <1>5, <2>1, <2>3
  <2>4. CASE got.end = "ok" /\ got.messages # 0 /\ TellResponse
    <3>1. NothingBehindEnd => /\ Messages(sent) = 1 /\ sent # <<>>
                              /\ LastSent \in {"endOk", "cutEndOk", "cutEndError"}
      BY <1>1, <2>1, <2>4, UnaryComplete
    <3> QED
      BY <1>2, <1>7, <2>1, <2>4, <3>1
  <2> QED
    BY <2>2, <2>3, <2>4
<1>9. CASE ReadError
  <2>1. env \in {"dataLoss", "network", "canceled"} /\ Fail(env) /\ UNCHANGED got
    BY <1>9 DEF ReadError, Inv, TypeOK
  <2>2. env = "canceled" => expired \/ user
    BY <1>1 DEF Inv, Aborts, Over
  <2>3. env \in Errors
    BY <1>5, <2>1
  <2> QED
    BY <1>4, <2>1, <2>2, <2>3
<1>10. CASE TripleUnaryResponse
  <2>1. Triple /\ Unary
    BY <1>10 DEF TripleUnaryResponse
  <2>2. CASE net \in {"broken", "aborted"} /\ UNCHANGED got
             /\ Fail(IF net = "aborted" THEN "canceled" ELSE "network")
    <3>1. net = "aborted" => expired \/ user
      BY <1>1 DEF Inv, Aborts, Over
    <3> QED
      BY <1>4, <1>5, <2>2, <3>1
  <2>3. CASE net = "closed" /\ got' = [messages |-> 1, end |-> "ok"] /\ TellResponse
    <3>1. Len(sent) = 1 /\ sent \in Seq(Item)
          /\ \A i \in 1 .. Len(sent) : sent[i] = "message"
      BY <2>1, <2>3 DEF Inv, Response, TypeOK
    <3>2. LastSent = "message"
      BY <3>1 DEF LastSent
    <3>3. NothingBehindEnd => Messages(sent) = 1
      BY <3>1, <3>2, MessagesSent
    <3>4. ~user
      <4>1. body = sent
        BY <2>1, <2>3 DEF Inv, Response
      <4>2. user => body = <<>>
        BY DEF Inv, Aborts
      <4>3. sent # <<>>
        BY <3>1, EmptyIs
      <4> QED
        BY <4>1, <4>2, <4>3
    <3>5. got' \in [messages : Nat, end : {"none", "ok", "error"}] /\ got'.messages = 1
      BY <2>3
    <3> QED
      BY <1>7, <2>1, <2>3, <3>3, <3>4, <3>5
  <2>4. CASE (Fail("status") \/ Fail("protocol")) /\ UNCHANGED got
    BY <1>4, <1>5, <2>4
  <2> QED
    BY <1>10, <2>2, <2>3, <2>4 DEF TripleUnaryResponse
<1> QED
  BY <1>6, <1>8, <1>9, <1>10

-----------------------------------------------------------------------------
(* The response of fetch(). *)

LEMMA FetchKeeps ==
    ASSUME Inv, FetchFails
    PROVE  Inv'
<1>1. /\ consumer \notin Over
      /\ UNCHANGED <<setup, sent, onlyHeader, ahead, env, got, expired, user, known>>
      /\ Fail(IF net = "aborted" THEN "canceled" ELSE "network")
  BY DEF FetchFails, Over
<1>2. net = "aborted" => expired \/ user
  BY <1>1 DEF Inv, Aborts, Over
<1>3. "canceled" \in Errors /\ "network" \in Errors
  BY DEF Errors
<1> QED
  BY <1>1, <1>2, <1>3, FailKeeps

\* A response that is accepted tells no more than its header.
LEMMA RespondKeeps ==
    ASSUME Inv, Respond
    PROVE  Inv'
<1> USE DEF Inv
<1>1. consumer = "calling" /\ net = "pending" /\ consumer \notin Over
      /\ UNCHANGED <<setup, sent, ahead, env, got, expired, user, known>>
  BY DEF Respond, Over
<1>2. CASE Fail("status") /\ UNCHANGED onlyHeader
  <2>1. "status" \in Errors
    BY DEF Errors
  <2> QED
    BY <1>1, <1>2, <2>1, FailKeeps
<1>3. CASE /\ net' = "open" /\ onlyHeader' \in BOOLEAN /\ (onlyHeader' => ~Triple)
           /\ consumer' \in {"reading", "refused", "idle"}
           /\ told' = (IF Unary THEN told ELSE Append(told, "header"))
           /\ UNCHANGED body
  <2>1. told = <<>> /\ got = NothingGot /\ sent = <<>>
    BY <1>1 DEF Response
  <2>2. Len(sent) = 0 /\ Len(told) = 0
    BY <2>1, EmptyIs
  <2>3. Taken \in Nat /\ Taken = 0 - Len(ahead) - Len(body) /\ Len(ahead) \in Nat
        /\ Len(body) \in Nat
    BY <1>1, <2>2, LenIs DEF Delivery, Lost, Taken, TypeOK
  <2>4. Taken = 0 /\ Taken' = Taken
    BY <1>1, <1>3, <2>3 DEF Taken
  <2>5. "header" \in Event /\ "header" \notin Ends
    BY DEF Event, Ends, Errors
  <2>6. /\ told' \in Seq(Event)
        /\ \A i \in 1 .. Len(told') : told'[i] \notin Ends
        /\ \A x \in {"message", "cutMessage", "success", "canceled"} : Count(x)' = 0
    <3>1. told \in Seq(Event) /\ \A x : Cardinality(Places(told, x)) = 0
      <4>1. \A x : Places(told, x) = {}
        BY <2>2 DEF Places
      <4> QED
        BY <2>1, <4>1, FS_EmptySet, EmptyIs
    <3>2. CASE Unary
      <4>1. told' = told
        BY <1>3, <3>2
      <4> QED
        BY <2>2, <3>1, <4>1 DEF Count
    <3>3. CASE ~Unary
      <4>1. told' = Append(told, "header")
        BY <1>3, <3>3
      <4>2. told' \in Seq(Event) /\ Len(told') = 1 /\ told'[1] = "header"
        BY <2>2, <2>5, <3>1, <4>1, AppendIs
      <4>3. \A x \in {"message", "cutMessage", "success", "canceled"} :
              Cardinality(Places(told', x)) = 0
        <5>1. ASSUME NEW x \in {"message", "cutMessage", "success", "canceled"}
              PROVE  Cardinality(Places(told', x)) = Cardinality(Places(told, x))
          BY <2>5, <3>1, <4>1, PlacesOther
        <5> QED
          BY <3>1, <5>1
      <4>4. \A i \in 1 .. Len(told') : told'[i] \notin Ends
        BY <2>5, <4>2
      <4> QED
        BY <4>2, <4>3, <4>4 DEF Count
    <3> QED
      BY <3>2, <3>3
  <2>7. TypeOK'
    BY <1>1, <1>3, <2>6 DEF TypeOK
  <2>8. Delivery'
    BY <1>1, <1>3, <2>4 DEF Delivery, Lost
  <2>9. Response' /\ Aborts'
    <3>4. Triple /\ Unary => body = sent
      BY <2>2, <2>3, <2>4, <2>1 DEF TypeOK
    <3>1. env # "closed" /\ ~user
      BY <1>1 DEF Response, Aborts
    <3>2. Triple /\ Unary => Len(sent) <= 1 /\ \A i \in 1 .. Len(sent) : sent[i] = "message"
      BY DEF Response
    <3>3. Response'
      BY <1>1, <1>3, <3>1, <3>2, <3>4 DEF Response, Triple, Unary
    <3> QED
      BY <1>1, <1>3, <3>1, <3>3 DEF Aborts
  <2>10. Canceled'
    <3>1. Count("message")' = 0 /\ Count("cutMessage")' = 0 /\ Count("canceled")' = 0
          /\ got'.messages = 0 /\ ~user'
      BY <1>1, <2>1, <2>6 DEF NothingGot, Aborts
    <3> QED
      BY <3>1 DEF Canceled
  <2>11. NotOver' /\ UnaryTold' /\ Succeeded' /\ SuccessMeansComplete'
    <3>1. ~(Count("success") > 0)'
      BY <2>6
    <3> QED
      BY <2>6, <3>1 DEF NotOver, UnaryTold, Succeeded, SuccessMeansComplete
  <2>12. ToldOnce' /\ ResponseReleased'
    BY <1>3, <2>6 DEF ToldOnce, ResponseReleased
  <2>13. got'.end = "none" /\ got'.messages = 0 /\ ~(Taken' > 0) /\ Taken' = 0
    BY <1>1, <2>1, <2>4 DEF NothingGot
  <2>14. StreamTold' /\ UnaryKept'
    <3>1. Count("message")' = 0 /\ Count("cutMessage")' = 0
      BY <2>6
    <3>2. StreamTold'
      BY <2>13, <3>1 DEF StreamTold
    <3> QED
      BY <2>13, <3>2 DEF UnaryKept
  <2> QED
    BY <2>7, <2>8, <2>9, <2>10, <2>11, <2>12, <2>14
<1>4. onlyHeader = FALSE
  BY <1>1 DEF Response, TypeOK
<1>5. CASE net' = "open" /\ consumer' = "refused" /\ Unary /\ UNCHANGED <<body, onlyHeader, told>>
  BY <1>3, <1>4, <1>5
<1> QED
  <2>1. PICK ok \in BOOLEAN, header \in BOOLEAN :
          /\ header => ok /\ ~Triple
          /\ \/ /\ ResponseAccepted(ok)
                /\ net' = "open"
                /\ onlyHeader' = header
                /\ consumer' = IF Unary \/ Callback THEN "reading" ELSE "idle"
                /\ told' = IF Unary THEN told ELSE Append(told, "header")
                /\ UNCHANGED body
             \/ /\ ~ResponseAccepted(ok) /\ Triple /\ Unary
                /\ net' = "open"
                /\ consumer' = "refused"
                /\ UNCHANGED <<body, onlyHeader, told>>
             \/ Fail("status") /\ UNCHANGED onlyHeader
    BY DEF Respond
  <2> QED
    BY <2>1, <1>2, <1>3, <1>5

-----------------------------------------------------------------------------

\* Every step keeps the invariant.
LEMMA NextKeeps ==
    ASSUME Inv, [Next]_vars
    PROVE  Inv'
<1>1. CASE Respond
  BY <1>1, RespondKeeps
<1>2. CASE FetchFails
  BY <1>2, FetchKeeps
<1>3. CASE Arrive
  <2>1. PICK item \in Items :
          /\ net = "open"
          /\ Triple /\ Unary => item = "message" /\ sent = <<>>
          /\ sent' = Append(sent, item) /\ body' = Append(body, item)
    BY <1>3 DEF Arrive
  <2>2. item \in Item
    BY DEF Item
  <2> QED
    BY <1>3, <2>1, <2>2, ItemArrives DEF Arrive
<1>4. CASE Close
  BY <1>4, BodyEnds DEF Close
<1>5. CASE Cut
  <2>1. net = "open" /\ ~(Triple /\ Unary)
        /\ UNCHANGED <<setup, onlyHeader, ahead, env, got, consumer, expired, user, known, told>>
    BY <1>5 DEF Cut
  <2>2. CASE net' = "cut" /\ UNCHANGED <<sent, body>>
    BY <2>1, <2>2, BodyEnds
  <2>3. ASSUME net' = "closed", NEW item \in CutItems,
               sent' = Append(sent, item), body' = Append(body, item)
        PROVE  Inv'
    <3>1. item \in Item
      BY DEF Item
    <3> QED
      BY <2>1, <2>3, <3>1, ItemArrives
  <2> QED
    BY <1>5, <2>2, <2>3 DEF Cut
<1>6. CASE Break
  BY <1>6, BodyEnds DEF Break
<1>7. CASE Pull
  BY <1>7, PullKeeps
<1>8. CASE Read
  BY <1>8, ReadKeeps
<1>9. CASE ReadStreamEnd \/ ReadUnaryEnd \/ ReadError \/ TripleUnaryResponse
  BY <1>9, ReadEndKeeps
<1>10. CASE AskNext \/ Leave
  BY <1>10, CallerKeeps DEF AskNext, Leave
<1>11. CASE Cancel \/ Deadline
  BY <1>11, AbortKeeps
<1>12. CASE UNCHANGED vars
  BY <1>12 DEF vars, Inv, TypeOK, Taken, Delivery, Response, Aborts, Canceled, NotOver,
     StreamTold, UnaryKept, UnaryTold, Succeeded, SuccessMeansComplete, ToldOnce,
     ResponseReleased, NothingBehindEnd, Messages, LastSent, Count, Triple, Unary, Callback
<1> QED
  BY <1>1, <1>2, <1>3, <1>4, <1>5, <1>6, <1>7, <1>8, <1>9, <1>10, <1>11, <1>12 DEF Next

\* A success was complete: all the messages that the server sent were told, and the
\* response ended without an error, for a response of any length.
THEOREM SuccessComplete == Spec => []SuccessMeansComplete
<1>1. Inv => SuccessMeansComplete
  BY DEF Inv
<1> QED
  BY InitInv, NextKeeps, <1>1, PTL DEF Spec

\* Callers are told one end and nothing behind it, and after they have canceled no
\* message that was not read from the network before, in chunks of any size.
THEOREM CallersTold == Spec => []CallerTold
<1>1. Inv => CallerTold
  <2> SUFFICES ASSUME Inv PROVE CallerTold
    OBVIOUS
  <2>1. /\ got.messages \in Nat /\ known \in Nat /\ Len(ahead) \in Nat
        /\ Count("message") \in Nat /\ Count("cutMessage") \in Nat
    BY LenIs, PlacesCounted DEF Inv, TypeOK, Count
  <2>2. user => Count("message") + Count("cutMessage") <= known
    BY <2>1 DEF Inv, Canceled
  <2> QED
    BY <2>2 DEF Inv, Canceled, CallerTold, CancelStops
<1> QED
  BY InitInv, NextKeeps, <1>1, PTL DEF Spec

\* A call that is over holds no response.
THEOREM ResponsesReleased == Spec => []ResponseReleased
<1>1. Inv => ResponseReleased
  BY DEF Inv
<1> QED
  BY InitInv, NextKeeps, <1>1, PTL DEF Spec
=============================================================================
