------------------------ MODULE AsyncIterableProofs -------------------------
(***************************************************************************)
(* Asynchronous iterables: the messages that go through them.              *)
(*                                                                         *)
(* EnvelopeReader: however a body is cut into chunks and wherever it ends, *)
(* for bodies and messages of any length, what is read are its envelopes.  *)
(*                                                                         *)
(* Iterables: for any number of writes and failures, in every chain, each  *)
(* message that is wanted arrives once and in order, and the end is told   *)
(* once and truly.                                                         *)
(***************************************************************************)
EXTENDS EnvelopeReader, Iterables, Integers, WellFoundedInduction, TLAPS

-----------------------------------------------------------------------------
(* Sequences. *)

LEMMA LenIs == ASSUME NEW S, NEW s \in Seq(S) PROVE Len(s) \in Nat
OBVIOUS

LEMMA AppendIs ==
    ASSUME NEW S, NEW s \in Seq(S), NEW e \in S
    PROVE  /\ Append(s, e) \in Seq(S)
           /\ Len(Append(s, e)) = Len(s) + 1
           /\ \A i \in 1 .. Len(s) : Append(s, e)[i] = s[i]
           /\ Append(s, e)[Len(s) + 1] = e
OBVIOUS

-----------------------------------------------------------------------------
(* Where envelopes start. *)

\* A set of natural numbers that has an element has a least one.
LEMMA LeastOf ==
    ASSUME NEW S \in SUBSET Nat, S # {}
    PROVE  \E x \in S : \A y \in S : x <= y
<1>1. PICK x \in S : \A y \in S : ~(<<y, x>> \in OpToRel(<, Nat))
  BY NatLessThanWellFounded, WFMin
<1>2. \A y \in S : ~(y < x)
  BY <1>1, Zenon DEF OpToRel
<1>3. \A y \in S : x <= y
  BY <1>2
<1> QED
  BY <1>3

LEMMA EnvelopeIs ==
    ASSUME NEW h \in Envelopes
    PROVE  h.size \in Nat /\ h.wire \in Nat /\ h.packed \in BOOLEAN
           /\ (~h.packed => h.size = h.wire)
<1>1. CASE h \in [size : Sizes, wire : PackedSizes, packed : {TRUE}]
  <2>1. h.size \in Sizes /\ h.wire \in PackedSizes /\ h.packed = TRUE
    BY <1>1
  <2> QED
    BY <2>1, ReaderAssumption
<1>2. CASE h \in {[size |-> n, wire |-> n, packed |-> FALSE] : n \in Sizes}
  <2>1. PICK n \in Sizes : h = [size |-> n, wire |-> n, packed |-> FALSE]
    BY <1>2
  <2>2. h.size = n /\ h.wire = n /\ h.packed = FALSE
    BY <2>1
  <2> QED
    BY <2>2, ReaderAssumption
<1> QED
  BY <1>1, <1>2 DEF Envelopes

\* The step from an envelope to the next one.
Behind(envs, f, k) == IF k = 1 THEN 0 ELSE f[k - 1] + Header + envs[k - 1].wire

\* The definition of Starts() has a solution, for every prefix of its domain.
LEMMA StartsUpTo ==
    ASSUME NEW envs \in Seq(Envelopes), NEW m \in 1 .. Len(envs) + 1
    PROVE  \E f \in [1 .. m -> Nat] : \A k \in 1 .. m : f[k] = Behind(envs, f, k)
<1> DEFINE Solved(n) == \E f \in [1 .. n -> Nat] : \A k \in 1 .. n : f[k] = Behind(envs, f, k)
           T == {n \in 1 .. Len(envs) + 1 : ~Solved(n)}
<1>0. Len(envs) \in Nat
  BY LenIs
<1>1. SUFFICES ASSUME T # {} PROVE FALSE
  OBVIOUS
<1>2. PICK n \in T : \A j \in T : n <= j
  <2>1. T \in SUBSET Nat
    BY <1>0
  <2> HIDE DEF T
  <2> QED
    BY <2>1, <1>1, LeastOf
<1>3. CASE n = 1
  <2> DEFINE f == [k \in 1 .. 1 |-> 0]
  <2>1. f \in [1 .. 1 -> Nat] /\ \A k \in 1 .. 1 : f[k] = Behind(envs, f, k)
    BY DEF Behind
  <2>2. Solved(1)
    BY <2>1
  <2> QED
    BY <2>2, <1>2, <1>3
<1>4. CASE n # 1
  <2>1. n \in 2 .. Len(envs) + 1 /\ n - 1 \in 1 .. Len(envs) + 1 /\ n - 1 \in 1 .. Len(envs)
    BY <1>0, <1>2, <1>4
  <2>2. Solved(n - 1)
    <3>1. n - 1 \notin T
      <4>1. n \in Nat /\ ~(n <= n - 1)
        BY <2>1
      <4> HIDE DEF T
      <4> QED
        BY <4>1, <1>2
    <3> HIDE DEF Solved
    <3> QED
      BY <2>1, <3>1
  <2>3. PICK f \in [1 .. n - 1 -> Nat] : \A k \in 1 .. n - 1 : f[k] = Behind(envs, f, k)
    BY <2>2
  <2>4. envs[n - 1].wire \in Nat
    <3>1. envs[n - 1] \in Envelopes
      BY <2>1
    <3> QED
      BY <3>1, EnvelopeIs
  <2> DEFINE next == f[n - 1] + Header + envs[n - 1].wire
             g == [k \in 1 .. n |-> IF k = n THEN next ELSE f[k]]
  <2>5. next \in Nat
    BY <2>1, <2>4 DEF Header
  <2>6. g \in [1 .. n -> Nat]
    <3> HIDE DEF next
    <3> QED
      BY <2>1, <2>5
  <2>7. \A k \in 1 .. n - 1 : g[k] = f[k]
    BY <2>1
  <2>8. g[n] = Behind(envs, g, n)
    BY <2>1, <2>7, <1>4 DEF Behind
  <2>9. ASSUME NEW k \in 1 .. n - 1 PROVE g[k] = Behind(envs, g, k)
    <3>1. g[k] = f[k] /\ (k # 1 => g[k - 1] = f[k - 1])
      BY <2>1, <2>7
    <3> HIDE DEF g
    <3> QED
      BY <3>1, <2>3 DEF Behind
  <2>10. \A k \in 1 .. n : g[k] = Behind(envs, g, k)
    <3> HIDE DEF g
    <3> QED
      BY <2>1, <2>8, <2>9
  <2>11. Solved(n)
    <3> HIDE DEF g
    <3> QED
      BY <2>6, <2>10
  <2> QED
    BY <2>11, <1>2
<1> QED
  BY <1>3, <1>4

\* Starts() is what its definition says: the first envelope starts the body,
\* and every other one starts behind the one before it.
LEMMA StartsIs ==
    ASSUME NEW envs \in Seq(Envelopes)
    PROVE  /\ Starts(envs)[1] = 0
           /\ \A k \in 1 .. Len(envs) + 1 : Starts(envs)[k] \in Nat
           /\ \A k \in 1 .. Len(envs) :
                 Starts(envs)[k + 1] = Starts(envs)[k] + Header + envs[k].wire
<1> DEFINE D == 1 .. Len(envs) + 1
           Solution(f) == f = [k \in D |-> IF k = 1 THEN 0 ELSE f[k - 1] + Header + envs[k - 1].wire]
<1>0. Len(envs) \in Nat
  BY LenIs
<1>1. PICK f \in [D -> Nat] : \A k \in D : f[k] = Behind(envs, f, k)
  BY <1>0, StartsUpTo
<1>2. Solution(f)
  BY <1>1 DEF Behind
<1>3. Solution(Starts(envs))
  BY <1>2 DEF Starts
<1> DEFINE s == Starts(envs)
<1>4. \A k \in D : s[k] = IF k = 1 THEN 0 ELSE s[k - 1] + Header + envs[k - 1].wire
  <2> HIDE DEF s, D
  <2> SUFFICES ASSUME s = [k \in D |-> IF k = 1 THEN 0 ELSE s[k - 1] + Header + envs[k - 1].wire]
               PROVE \A k \in D : s[k] = IF k = 1 THEN 0 ELSE s[k - 1] + Header + envs[k - 1].wire
    BY <1>3 DEF s
  <2> QED
    OBVIOUS
<1> HIDE DEF s
<1>5. s[1] = 0
  BY <1>0, <1>4
<1>6. \A k \in 1 .. Len(envs) : s[k + 1] = s[k] + Header + envs[k].wire
  <2> SUFFICES ASSUME NEW k \in 1 .. Len(envs)
               PROVE  s[k + 1] = s[k] + Header + envs[k].wire
    OBVIOUS
  <2>1. k + 1 \in D /\ k + 1 # 1 /\ (k + 1) - 1 = k
    BY <1>0
  <2> QED
    BY <2>1, <1>4
<1>7. \A k \in D : s[k] \in Nat
  <2> DEFINE T == {k \in D : s[k] \notin Nat}
  <2>1. SUFFICES ASSUME T # {} PROVE FALSE
    OBVIOUS
  <2>2. PICK n \in T : \A j \in T : n <= j
    <3>1. T \in SUBSET Nat
      BY <1>0
    <3> HIDE DEF T
    <3> QED
      BY <3>1, <2>1, LeastOf
  <2>3. n # 1
    BY <2>2, <1>5
  <2>4. n - 1 \in D /\ n - 1 \in 1 .. Len(envs)
    BY <1>0, <2>2, <2>3
  <2>5. s[n - 1] \in Nat
    BY <2>4, <2>2
  <2>6. envs[n - 1] \in Envelopes
    BY <2>4
  <2>7. envs[n - 1].wire \in Nat
    BY <2>6, EnvelopeIs
  <2>8. s[n] = s[n - 1] + Header + envs[n - 1].wire
    BY <2>2, <2>3, <1>4
  <2> QED
    BY <2>2, <2>5, <2>7, <2>8 DEF Header
<1> QED
  BY <1>5, <1>6, <1>7 DEF s

\* Envelopes start one behind the other.
LEMMA StartsGrow ==
    ASSUME NEW envs \in Seq(Envelopes), NEW j \in 1 .. Len(envs) + 1,
           NEW k \in 1 .. Len(envs) + 1, j < k
    PROVE  Starts(envs)[j] + Header <= Starts(envs)[k]
<1> DEFINE s == Starts(envs)
           T == {n \in j + 1 .. Len(envs) + 1 : ~(s[j] + Header <= s[n])}
<1>0. Len(envs) \in Nat
  BY LenIs
<1>1. SUFFICES ASSUME T # {} PROVE FALSE
  BY <1>0
<1>2. PICK n \in T : \A i \in T : n <= i
  <2>1. T \in SUBSET Nat
    BY <1>0
  <2> HIDE DEF T
  <2> QED
    BY <2>1, <1>1, LeastOf
<1>3. n - 1 \in j .. Len(envs) /\ n - 1 \in 1 .. Len(envs) /\ n - 1 < n /\ (n - 1) + 1 = n
  BY <1>0, <1>2
<1>4. n - 1 = j \/ s[j] + Header <= s[n - 1]
  BY <1>0, <1>2, <1>3
<1>5. envs[n - 1].wire \in Nat
  <2>1. envs[n - 1] \in Envelopes
    BY <1>3
  <2> QED
    BY <2>1, EnvelopeIs
<1>6. s[n] = s[n - 1] + Header + envs[n - 1].wire
  BY <1>3, StartsIs
<1>7. s[j] \in Nat /\ s[n - 1] \in Nat
  BY <1>0, <1>3, StartsIs
<1>8. s[j] + Header <= s[n]
  <2> HIDE DEF s
  <2>1. s[n - 1] + Header <= s[n]
    BY <1>5, <1>6, <1>7 DEF Header
  <2>2. s[n] \in Nat
    BY <1>5, <1>6, <1>7 DEF Header
  <2>3. CASE n - 1 = j
    BY <2>1, <2>3
  <2>4. CASE s[j] + Header <= s[n - 1]
    BY <2>1, <2>2, <2>4, <1>7 DEF Header
  <2> QED
    BY <2>3, <2>4, <1>4
<1> QED
  BY <1>2, <1>8

-----------------------------------------------------------------------------
(* The inductive invariant: as long as a reader of a whole body, or of any     *)
(* body that is split, has not ended, its buffer starts where the envelope     *)
(* behind the ones it has yielded starts.                                      *)

Item == [from : Nat, to : Nat, size : Nat]

ReaderTypeOK ==
    /\ reader \in [kind : {"split", "stream"}, unpacks : BOOLEAN]
    /\ body \in Seq(Envelopes)
    /\ end \in Nat /\ arrived \in Nat /\ front \in Nat
    /\ out \in Seq(Item)
    /\ state \in {"reading", "large", "unknown", "closed", "incomplete"}

BufferInBody ==
    front <= arrived /\ arrived <= end /\ end <= Starts(body)[Len(body) + 1]

StreamUnpacked == reader.kind = "stream" => \A k \in 1 .. Len(body) : ~body[k].packed

Intact == reader.kind = "split" \/ end = Starts(body)[Len(body) + 1]

Aligned ==
    Intact /\ state = "reading" =>
        Len(out) <= Len(body) /\ front = Starts(body)[Len(out) + 1]

ReaderInv ==
    /\ ReaderTypeOK /\ BufferInBody /\ StreamUnpacked /\ Aligned
    /\ WholeEnvelopes /\ SplitResult

\* Behind what an intact reader has yielded there is an envelope if a header
\* can be read, and the header is that envelope's.
LEMMA HeaderIs ==
    ASSUME ReaderInv, Intact, state = "reading", NEW h \in Envelopes, PeekHeader(h)
    PROVE  /\ Len(out) + 1 \in 1 .. Len(body) /\ h = body[Len(out) + 1]
           /\ Starts(body)[Len(out) + 1] = front
           /\ Starts(body)[Len(out) + 1] + Header <= arrived
<1> DEFINE k == Len(out) + 1
           s == Starts(body)
<1>1. body \in Seq(Envelopes) /\ Len(body) \in Nat /\ Len(out) \in Nat
  BY LenIs DEF ReaderInv, ReaderTypeOK
<1>2. k \in 1 .. Len(body) + 1 /\ front = s[k]
  BY <1>1 DEF ReaderInv, Aligned
<1>3. front + Header <= arrived /\ arrived <= s[Len(body) + 1]
  <2>1. s[Len(body) + 1] \in Nat
    BY <1>1, StartsIs
  <2> HIDE DEF s
  <2> QED
    BY <2>1 DEF PeekHeader, Buffered, ReaderInv, BufferInBody, ReaderTypeOK, Header, s
<1>4. k # Len(body) + 1
  <2>1. s[Len(body) + 1] \in Nat
    BY <1>1, StartsIs
  <2> HIDE DEF s, k
  <2> SUFFICES ASSUME k = Len(body) + 1 PROVE FALSE
    OBVIOUS
  <2>2. front = s[Len(body) + 1]
    BY <1>2
  <2> QED
    BY <2>1, <2>2, <1>3 DEF Header, ReaderInv, ReaderTypeOK
<1>5. k \in 1 .. Len(body)
  <2> HIDE DEF s, k
  <2> QED
    BY <1>1, <1>2, <1>4
<1> DEFINE here == {j \in 1 .. Len(body) : s[j] = front}
<1>6. here = {k}
  <2>1. ASSUME NEW j \in here PROVE j = k
    <3>1. j \in 1 .. Len(body) + 1 /\ s[j] = s[k]
      BY <1>1, <1>2
    <3>2. s[j] \in Nat
      BY <3>1, <1>1, StartsIs
    <3>3. ~(j < k)
      <4> SUFFICES ASSUME j < k PROVE FALSE
        OBVIOUS
      <4>1. s[j] + Header <= s[k]
        BY <3>1, <1>1, <1>2, StartsGrow
      <4> HIDE DEF s, k
      <4> QED
        BY <4>1, <3>1, <3>2 DEF Header
    <3>4. ~(k < j)
      <4> SUFFICES ASSUME k < j PROVE FALSE
        OBVIOUS
      <4>1. s[k] + Header <= s[j]
        BY <3>1, <1>1, <1>2, StartsGrow
      <4> HIDE DEF s, k
      <4> QED
        BY <4>1, <3>1, <3>2 DEF Header
    <3> HIDE DEF s, k
    <3> QED
      BY <3>1, <3>3, <3>4, <1>1, <1>5
  <2>2. k \in here
    BY <1>2, <1>5
  <2> HIDE DEF here, k
  <2> QED
    BY <2>1, <2>2
<1>7. h \in {body[j] : j \in here}
  <2>1. h \in IF here = {} THEN Envelopes ELSE {body[j] : j \in here}
    BY DEF PeekHeader, HeadersAt
  <2> HIDE DEF here
  <2> QED
    BY <2>1, <1>6
<1>8. h = body[k]
  <2> HIDE DEF here, k
  <2> QED
    BY <1>6, <1>7
<1> QED
  BY <1>2, <1>3, <1>5, <1>8

\* The header of that envelope can be read as soon as it has arrived.
LEMMA HeaderArrives ==
    ASSUME ReaderInv, Intact, state = "reading",
           Len(out) + 1 \in 1 .. Len(body), Starts(body)[Len(out) + 1] + Header <= arrived
    PROVE  body[Len(out) + 1] \in Envelopes /\ PeekHeader(body[Len(out) + 1])
<1> DEFINE k == Len(out) + 1
           s == Starts(body)
<1>1. body \in Seq(Envelopes) /\ Len(body) \in Nat /\ Len(out) \in Nat
  BY LenIs DEF ReaderInv, ReaderTypeOK
<1>2. front = s[k]
  BY <1>1 DEF ReaderInv, Aligned
<1>3. k \in {j \in 1 .. Len(body) : s[j] = front}
  BY <1>2
<1>4. body[k] \in HeadersAt(front)
  <2> HIDE DEF k
  <2> QED
    BY <1>3 DEF HeadersAt
<1>5. Buffered >= Header
  <2> HIDE DEF k, s
  <2> QED
    BY <1>2 DEF Buffered, ReaderInv, ReaderTypeOK, Header, k, s
<1>6. body[k] \in Envelopes
  <2> HIDE DEF k
  <2> QED
    BY <1>1 DEF k
<1> QED
  BY <1>4, <1>5, <1>6 DEF PeekHeader

\* What is taken off the buffer, by its fields.
LEMMA DataIs ==
    ASSUME ReaderInv, NEW h \in Envelopes, PeekHeader(h)
    PROVE  /\ Data(h) \in Item
           /\ Data(h).from = front + Header
           /\ Data(h).to <= arrived
           /\ Complete(h) =>
                 /\ Data(h).to = front + Header + h.wire
                 /\ Data(h).size = h.size
                 /\ front + Header + h.wire <= arrived
           /\ Data(h) = [from |-> Data(h).from, to |-> Data(h).to, size |-> Data(h).size]
<1> DEFINE from == front + Header
           to == IF Complete(h) THEN from + h.wire ELSE arrived
           size == IF h.packed THEN h.size ELSE to - from
<1>1. Data(h) = [from |-> from, to |-> to, size |-> size]
  BY DEF Data
<1>2. h.size \in Nat /\ h.wire \in Nat /\ (~h.packed => h.size = h.wire)
  BY EnvelopeIs
<1>3. front \in Nat /\ arrived \in Nat /\ from \in Nat /\ from <= arrived
  BY DEF ReaderInv, ReaderTypeOK, PeekHeader, Buffered, Header
<1>4. Complete(h) => from + h.wire <= arrived
  BY <1>2, <1>3 DEF Complete, Buffered, Header
<1>5. to \in Nat /\ from <= to /\ to <= arrived
  <2> HIDE DEF from
  <2> QED
    BY <1>2, <1>3, <1>4
<1>6. size \in Nat
  <2> HIDE DEF from, to
  <2> QED
    BY <1>2, <1>3, <1>5
<1>7. Complete(h) => to = from + h.wire /\ size = h.size
  <2> HIDE DEF from
  <2> QED
    BY <1>2, <1>3
<1> HIDE DEF from, to, size
<1>8. Data(h) \in Item
  BY <1>1, <1>3, <1>5, <1>6 DEF Item
<1>9. Data(h).from = from /\ Data(h).to = to /\ Data(h).size = size
  BY <1>1
<1> QED
  BY <1>1, <1>4, <1>5, <1>7, <1>8, <1>9 DEF from

LEMMA ReaderInitInv == ReaderInit => ReaderInv
<1> SUFFICES ASSUME ReaderInit PROVE ReaderInv
  OBVIOUS
<1>1. body \in Seq(Envelopes) /\ Len(body) \in Nat
  <2>1. PICK n \in 0 .. MaxMessages : body \in [1 .. n -> Envelopes]
    BY DEF ReaderInit, Bodies
  <2>2. n \in Nat
    BY ReaderAssumption
  <2> QED
    BY <2>1, <2>2
<1>2. Starts(body)[1] = 0 /\ Starts(body)[Len(body) + 1] \in Nat
  BY <1>1, StartsIs
<1>3. end \in Nat /\ end <= Starts(body)[Len(body) + 1]
  BY <1>2 DEF ReaderInit
<1>4. out = <<>> /\ out \in Seq(Item) /\ Len(out) = 0
  BY DEF ReaderInit
<1>5. ReaderTypeOK
  BY <1>1, <1>3, <1>4, ReaderAssumption DEF ReaderInit, ReaderTypeOK
<1>6. BufferInBody /\ StreamUnpacked
  BY <1>3 DEF ReaderInit, BufferInBody, StreamUnpacked
<1>7. Aligned
  BY <1>1, <1>2, <1>4 DEF ReaderInit, Aligned
<1>8. WholeEnvelopes
  BY <1>1, <1>4 DEF WholeEnvelopes, Yielded
<1>9. SplitResult
  BY DEF ReaderInit, SplitResult
<1> QED
  BY <1>5, <1>6, <1>7, <1>8, <1>9 DEF ReaderInv

LEMMA ChunkInv ==
    ASSUME ReaderInv, NEW n \in 1 .. end - arrived, Chunk(n) PROVE ReaderInv'
<1>1. arrived' \in Nat /\ arrived <= arrived' /\ arrived' <= end /\ n \in Nat
  BY DEF ReaderInv, ReaderTypeOK, Chunk
<1>2. UNCHANGED <<reader, body, end, front, out, state>>
  BY DEF Chunk
<1>3. ReaderTypeOK' /\ StreamUnpacked' /\ Aligned'
  BY <1>1, <1>2 DEF ReaderInv, ReaderTypeOK, StreamUnpacked, Aligned, Intact
<1>4. BufferInBody'
  BY <1>1, <1>2 DEF ReaderInv, BufferInBody, ReaderTypeOK
<1>5. WholeEnvelopes' /\ SplitResult'
  BY <1>2 DEF ReaderInv, WholeEnvelopes, Yielded, SplitResult
<1> QED
  BY <1>3, <1>4, <1>5 DEF ReaderInv

LEMMA TooLargeInv ==
    ASSUME ReaderInv, NEW h \in Envelopes, TooLarge(h) PROVE ReaderInv'
<1> DEFINE k == Len(out) + 1
<1>1. state = "reading" /\ PeekHeader(h) /\ ~WithinLimit(h) /\ state' = "large"
      /\ UNCHANGED <<reader, body, end, arrived, front, out>>
  BY DEF TooLarge
<1>2. ReaderTypeOK' /\ BufferInBody' /\ StreamUnpacked' /\ Aligned' /\ WholeEnvelopes'
  BY <1>1 DEF ReaderInv, ReaderTypeOK, BufferInBody, StreamUnpacked, Aligned, WholeEnvelopes,
              Yielded
<1>3. reader.kind = "split" /\ h.wire > ReadMaxBytes
  <2>1. h.wire \in Nat
    BY EnvelopeIs
  <2> QED
    BY <1>1, <2>1, ReaderAssumption DEF WithinLimit
<1>4. k \in 1 .. Len(body) /\ h = body[k] /\ Starts(body)[k] + Header <= arrived
  BY <1>1, <1>3, HeaderIs DEF Intact
<1>5. Starts(body)[k] + Header <= end
  <2>1. Starts(body)[k] \in Nat
    BY <1>4, StartsIs, LenIs DEF ReaderInv, ReaderTypeOK
  <2> HIDE DEF k
  <2> QED
    BY <1>4, <2>1 DEF ReaderInv, ReaderTypeOK, BufferInBody, Header
<1>6. h.wire \in Nat /\ ~(h.wire <= ReadMaxBytes)
  BY <1>3, EnvelopeIs, ReaderAssumption
<1>7. SplitResult'
  <2> HIDE DEF k
  <2>1. k <= Len(body) /\ body[k].wire > ReadMaxBytes /\ ~(body[k].wire <= ReadMaxBytes)
    BY <1>3, <1>4, <1>6, LenIs DEF ReaderInv, ReaderTypeOK
  <2> QED
    BY <1>1, <1>5, <2>1 DEF SplitResult, k
<1> QED
  BY <1>2, <1>7 DEF ReaderInv

\* What is taken off leaves the buffer where it may be.
LEMMA TakenOff ==
    ASSUME ReaderInv, NEW h \in Envelopes, PeekHeader(h), Shift(h),
           UNCHANGED <<reader, body, end, arrived>>
    PROVE  front' \in Nat /\ BufferInBody' /\ StreamUnpacked'
<1>1. Data(h).to \in Nat /\ Data(h).to <= arrived
  BY DataIs DEF Item
<1>2. front' = Data(h).to
  BY DEF Shift
<1> QED
  BY <1>1, <1>2 DEF ReaderInv, BufferInBody, StreamUnpacked

\* One more envelope, whole, behind the ones that were yielded.
LEMMA YieldedMore ==
    ASSUME ReaderInv, Intact, state = "reading", NEW h \in Envelopes, PeekHeader(h),
           Complete(h), UNCHANGED body, out' = Append(out, Data(h))
    PROVE  /\ Yielded'
           /\ Len(out') = Len(out) + 1 /\ Len(out') <= Len(body)
           /\ Data(h).to = Starts(body)[Len(out') + 1]
           /\ Data(h).size = h.size
<1> DEFINE k == Len(out) + 1
           s == Starts(body)
<1>1. body \in Seq(Envelopes) /\ Len(body) \in Nat /\ Len(out) \in Nat /\ out \in Seq(Item)
  BY LenIs DEF ReaderInv, ReaderTypeOK
<1>2. k \in 1 .. Len(body) /\ h = body[k] /\ s[k] = front
  BY HeaderIs
<1>3. s[k + 1] = front + Header + h.wire
  BY <1>1, <1>2, StartsIs
<1>4. Data(h) \in Item /\ Data(h) = [from |-> s[k] + Header, to |-> s[k + 1], size |-> h.size]
      /\ Data(h).size = h.size /\ Data(h).to = s[k + 1]
  <2> HIDE DEF s, k
  <2> QED
    BY <1>2, <1>3, DataIs
<1>5. Len(out') = k /\ out'[k] = Data(h) /\ \A i \in 1 .. Len(out) : out'[i] = out[i]
  BY <1>1, <1>4, AppendIs
<1>6. Yielded
  BY DEF ReaderInv, WholeEnvelopes, Intact
<1>7. Yielded'
  <2>1. ASSUME NEW i \in 1 .. k
        PROVE  out'[i] = [from |-> s[i] + Header, to |-> s[i + 1], size |-> body[i].size]
    <3>1. CASE i = k
      <4> HIDE DEF s, k
      <4> QED
        BY <3>1, <1>2, <1>4, <1>5
    <3>2. CASE i # k
      <4>1. i \in 1 .. Len(out)
        BY <3>2, <1>1
      <4> HIDE DEF k
      <4> QED
        BY <4>1, <1>5, <1>6 DEF Yielded
    <3> QED
      BY <3>1, <3>2
  <2>2. body' = body
    OBVIOUS
  <2> HIDE DEF k
  <2> QED
    BY <2>1, <2>2, <1>2, <1>5 DEF Yielded
<1> QED
  BY <1>2, <1>4, <1>5, <1>7

LEMMA DeliverInv ==
    ASSUME ReaderInv, NEW h \in Envelopes, Deliver(h) PROVE ReaderInv'
<1>1. /\ state = "reading" /\ PeekHeader(h) /\ WithinLimit(h) /\ Complete(h) /\ Shift(h)
      /\ UNCHANGED <<reader, body, end, arrived, state>> /\ out' = Append(out, Data(h))
      /\ reader.kind = "split" /\ h.packed => reader.unpacks /\ h.size <= ReadMaxBytes
  BY DEF Deliver, TakeOff
<1>2. front' \in Nat /\ BufferInBody' /\ StreamUnpacked'
  BY <1>1, TakenOff
<1>3. out \in Seq(Item) /\ Data(h) \in Item /\ Data(h).size = h.size
  BY <1>1, DataIs DEF ReaderInv, ReaderTypeOK
<1>4. ReaderTypeOK'
  <2>1. out' \in Seq(Item)
    BY <1>1, <1>3, AppendIs
  <2> QED
    BY <2>1, <1>1, <1>2 DEF ReaderInv, ReaderTypeOK
<1>5. Intact => Yielded' /\ Len(out') <= Len(body) /\ front' = Starts(body)[Len(out') + 1]
  <2> SUFFICES ASSUME Intact
               PROVE  Yielded' /\ Len(out') <= Len(body) /\ front' = Starts(body)[Len(out') + 1]
    OBVIOUS
  <2>1. /\ Yielded' /\ Len(out') <= Len(body) /\ Data(h).to = Starts(body)[Len(out') + 1]
    BY <1>1, YieldedMore
  <2> QED
    BY <2>1, <1>1 DEF Shift
<1>6. Aligned'
  BY <1>1, <1>5 DEF Aligned, Intact
<1>7. reader.kind = "split" => h.size <= ReadMaxBytes
  <2>1. ~h.packed => h.size = h.wire
    BY EnvelopeIs
  <2>2. h.packed \in BOOLEAN
    BY EnvelopeIs
  <2> QED
    BY <2>1, <2>2, <1>1 DEF WithinLimit
<1>8. WholeEnvelopes'
  <2>1. Len(out') = Len(out) + 1 /\ Len(out) \in Nat /\ out'[Len(out) + 1] = Data(h)
        /\ \A i \in 1 .. Len(out) : out'[i] = out[i]
    BY <1>1, <1>3, AppendIs, LenIs
  <2>2. reader.kind = "split" => \A i \in 1 .. Len(out') : out'[i].size <= ReadMaxBytes
    <3> SUFFICES ASSUME reader.kind = "split", NEW i \in 1 .. Len(out')
                 PROVE  out'[i].size <= ReadMaxBytes
      OBVIOUS
    <3>1. CASE i = Len(out) + 1
      BY <3>1, <2>1, <1>3, <1>7
    <3>2. CASE i # Len(out) + 1
      <4>1. i \in 1 .. Len(out)
        BY <3>2, <2>1
      <4> QED
        BY <4>1, <2>1 DEF ReaderInv, WholeEnvelopes
    <3> QED
      BY <3>1, <3>2
  <2> QED
    BY <2>2, <1>1, <1>5 DEF WholeEnvelopes, Intact
<1>9. SplitResult'
  BY <1>1 DEF SplitResult
<1> QED
  BY <1>2, <1>4, <1>6, <1>8, <1>9 DEF ReaderInv

LEMMA UnpackableInv ==
    ASSUME ReaderInv, NEW h \in Envelopes, Unpackable(h) PROVE ReaderInv'
<1> DEFINE k == Len(out) + 1
<1>1. /\ state = "reading" /\ PeekHeader(h) /\ WithinLimit(h) /\ Complete(h) /\ Shift(h)
      /\ UNCHANGED <<reader, body, end, arrived, out>>
      /\ reader.kind = "split" /\ h.packed
      /\ ~reader.unpacks \/ h.size > ReadMaxBytes
      /\ state' = IF reader.unpacks THEN "large" ELSE "unknown"
  BY DEF Unpackable, TakeOff
<1>2. front' \in Nat /\ BufferInBody' /\ StreamUnpacked'
  BY <1>1, TakenOff
<1>3. ReaderTypeOK' /\ Aligned'
  BY <1>1, <1>2 DEF ReaderInv, ReaderTypeOK, Aligned
<1>4. WholeEnvelopes'
  BY <1>1 DEF ReaderInv, WholeEnvelopes, Yielded
<1>5. k \in 1 .. Len(body) /\ h = body[k] /\ Starts(body)[k] = front
  BY <1>1, HeaderIs DEF Intact
<1>6. Starts(body)[k + 1] <= end
  <2>1. Starts(body)[k + 1] = front + Header + h.wire
    BY <1>5, StartsIs DEF ReaderInv, ReaderTypeOK
  <2>2. Data(h).to = front + Header + h.wire /\ Data(h).to <= arrived /\ Data(h).to \in Nat
    BY <1>1, DataIs DEF Item
  <2> HIDE DEF k
  <2> QED
    BY <2>1, <2>2 DEF ReaderInv, BufferInBody, ReaderTypeOK
<1>7. SplitResult'
  <2>1. k <= Len(body) /\ body[k].wire \in Nat /\ body[k].wire <= ReadMaxBytes
    BY <1>1, <1>5, EnvelopeIs, LenIs DEF WithinLimit, ReaderInv, ReaderTypeOK
  <2>2. ~(body[k].wire > ReadMaxBytes)
    BY <2>1, ReaderAssumption
  <2>3. state' = (IF reader.unpacks THEN "large" ELSE "unknown") /\ body[k].packed
        /\ (reader.unpacks => body[k].size > ReadMaxBytes)
    BY <1>1, <1>5
  <2> QED
    BY <1>1, <1>6, <2>1, <2>2, <2>3 DEF SplitResult
<1> QED
  BY <1>2, <1>3, <1>4, <1>7 DEF ReaderInv

LEMMA SplitEndInv ==
    ASSUME ReaderInv, SplitEnd PROVE ReaderInv'
<1> DEFINE k == Len(out) + 1
           s == Starts(body)
<1>1. /\ state = "reading" /\ Waiting /\ arrived = end /\ reader.kind = "split"
      /\ \A h \in Envelopes : PeekHeader(h) => WithinLimit(h)
      /\ state' = IF Buffered = 0 THEN "closed" ELSE "incomplete"
      /\ UNCHANGED <<reader, body, end, arrived, front, out>>
  BY DEF SplitEnd, Exhausted
<1>2. ReaderTypeOK' /\ BufferInBody' /\ StreamUnpacked' /\ Aligned' /\ WholeEnvelopes'
  BY <1>1 DEF ReaderInv, ReaderTypeOK, BufferInBody, StreamUnpacked, Aligned, WholeEnvelopes,
              Yielded
<1>3. Intact /\ body \in Seq(Envelopes) /\ Len(body) \in Nat /\ Len(out) \in Nat
  BY <1>1, LenIs DEF Intact, ReaderInv, ReaderTypeOK
<1>4. front = s[k] /\ k \in 1 .. Len(body) + 1 /\ s[k] \in Nat /\ end \in Nat
  BY <1>1, <1>3, StartsIs DEF ReaderInv, Aligned, ReaderTypeOK
<1>5. state' = IF s[k] = end THEN "closed" ELSE "incomplete"
  <2> HIDE DEF s, k
  <2> QED
    BY <1>1, <1>4 DEF Buffered
<1>6. k <= Len(body) /\ s[k] + Header <= end =>
          body[k].wire <= ReadMaxBytes /\ ~(body[k].wire > ReadMaxBytes) /\ ~(s[k + 1] <= end)
  <2> SUFFICES ASSUME k <= Len(body), s[k] + Header <= end
               PROVE  /\ body[k].wire <= ReadMaxBytes /\ ~(body[k].wire > ReadMaxBytes)
                      /\ ~(s[k + 1] <= end)
    OBVIOUS
  <2>1. k \in 1 .. Len(body)
    <3> HIDE DEF k
    <3> QED
      BY <1>3, <1>4
  <2>2. body[k] \in Envelopes /\ PeekHeader(body[k])
    BY <1>1, <1>3, <2>1, HeaderArrives
  <2>3. body[k].wire <= ReadMaxBytes /\ body[k].wire \in Nat
    BY <1>1, <2>2, EnvelopeIs DEF WithinLimit
  <2>4. PICK h \in Envelopes : PeekHeader(h) /\ ~Complete(h)
    BY <1>1, <2>2 DEF Waiting, PeekHeader, Buffered, Header, ReaderInv, ReaderTypeOK
  <2>5. h = body[k]
    BY <1>1, <1>3, <2>4, HeaderIs
  <2>6. ~(front + Header + body[k].wire <= end)
    <3> DEFINE w == body[k].wire
    <3>1. ~(arrived - front >= Header + w)
      BY <2>4, <2>5 DEF Complete, Buffered
    <3>2. w \in Nat /\ front \in Nat /\ arrived = end
      BY <1>1, <2>3 DEF ReaderInv, ReaderTypeOK
    <3> HIDE DEF k, s, w
    <3>3. ~(front + Header + w <= end)
      BY <3>1, <3>2, <1>4 DEF Header
    <3> QED
      BY <3>3 DEF w
  <2>7. s[k + 1] = s[k] + Header + body[k].wire
    BY <2>1, <1>3, StartsIs
  <2> HIDE DEF k, s
  <2> QED
    BY <2>3, <2>6, <2>7, <1>4, ReaderAssumption
<1>7. k <= Len(body) /\ s[k + 1] <= end => s[k] + Header <= end
  <2> SUFFICES ASSUME k <= Len(body), s[k + 1] <= end PROVE s[k] + Header <= end
    OBVIOUS
  <2>1. k \in 1 .. Len(body)
    <3> HIDE DEF k
    <3> QED
      BY <1>3, <1>4
  <2>2. s[k + 1] = s[k] + Header + body[k].wire /\ body[k] \in Envelopes
    BY <2>1, <1>3, StartsIs
  <2>3. body[k].wire \in Nat
    BY <2>2, EnvelopeIs
  <2> HIDE DEF k, s
  <2> QED
    BY <2>2, <2>3, <1>4 DEF Header
<1>8. SplitResult'
  <2>1. ~(k <= Len(body) /\ s[k] + Header <= end /\ body[k].wire > ReadMaxBytes)
    BY <1>6
  <2>2. ~(k <= Len(body) /\ s[k + 1] <= end)
    BY <1>6, <1>7
  <2> QED
    BY <1>1, <1>5, <2>1, <2>2 DEF SplitResult
<1> QED
  BY <1>2, <1>8 DEF ReaderInv

\* A stream that is read to its end, and was whole, has nothing left in the buffer.
LEMMA StreamEndInv ==
    ASSUME ReaderInv, StreamEnd PROVE ReaderInv'
<1>1. /\ state = "reading" /\ Waiting /\ arrived = end /\ reader.kind = "stream"
      /\ UNCHANGED <<reader, body, end, arrived>>
  BY DEF StreamEnd, Exhausted
<1>2. SplitResult'
  BY <1>1 DEF SplitResult
<1>3. CASE Buffered < Header
  <2>1. state' \in {"closed", "incomplete"} /\ UNCHANGED <<front, out>>
    BY <1>3 DEF StreamEnd
  <2>2. ReaderTypeOK' /\ BufferInBody' /\ StreamUnpacked' /\ Aligned' /\ WholeEnvelopes'
    BY <1>1, <2>1 DEF ReaderInv, ReaderTypeOK, BufferInBody, StreamUnpacked, Aligned,
                      WholeEnvelopes, Yielded
  <2> QED
    BY <1>2, <2>2 DEF ReaderInv
<1>4. CASE ~(Buffered < Header)
  <2>1. PICK h \in Envelopes :
            PeekHeader(h) /\ Shift(h) /\ out' = Append(out, Data(h)) /\ state' = state
    BY <1>4 DEF StreamEnd
  <2>2. front' \in Nat /\ BufferInBody' /\ StreamUnpacked'
    BY <1>1, <2>1, TakenOff
  <2>3. ReaderTypeOK'
    <3>1. out' \in Seq(Item)
      BY <2>1, DataIs, AppendIs DEF ReaderInv, ReaderTypeOK
    <3> QED
      BY <3>1, <1>1, <2>1, <2>2 DEF ReaderInv, ReaderTypeOK
  <2>4. ~Intact
    <3> SUFFICES ASSUME Intact PROVE FALSE
      OBVIOUS
    <3> DEFINE k == Len(out) + 1
               s == Starts(body)
    <3>1. PICK g \in Envelopes : PeekHeader(g) /\ ~Complete(g)
      BY <1>1, <1>4 DEF Waiting
    <3>2. k \in 1 .. Len(body) /\ g = body[k] /\ s[k] = front
      BY <1>1, <3>1, HeaderIs
    <3>3. body \in Seq(Envelopes) /\ Len(body) \in Nat
      BY LenIs DEF ReaderInv, ReaderTypeOK
    <3>4. s[k + 1] = s[k] + Header + g.wire /\ g.wire \in Nat
      BY <3>2, <3>3, StartsIs, EnvelopeIs
    <3>5. s[k + 1] <= s[Len(body) + 1]
      <4>1. k + 1 \in 1 .. Len(body) + 1 /\ Len(body) + 1 \in 1 .. Len(body) + 1
        BY <3>2, <3>3
      <4>2. s[k + 1] \in Nat /\ s[Len(body) + 1] \in Nat
        BY <4>1, <3>3, StartsIs
      <4>3. CASE k + 1 = Len(body) + 1
        <5> HIDE DEF k, s
        <5> QED
          BY <4>2, <4>3
      <4>4. CASE k + 1 < Len(body) + 1
        <5>1. s[k + 1] + Header <= s[Len(body) + 1]
          BY <4>1, <4>4, <3>3, StartsGrow
        <5> HIDE DEF k, s
        <5> QED
          BY <5>1, <4>2 DEF Header
      <4> HIDE DEF s
      <4> QED
        BY <4>1, <4>3, <4>4, <3>3
    <3>6. end = s[Len(body) + 1]
      BY <1>1 DEF Intact
    <3>7. front + Header + g.wire <= arrived
      <4> HIDE DEF k, s
      <4> QED
        BY <3>2, <3>4, <3>5, <3>6, <1>1
    <3> QED
      BY <3>1, <3>4, <3>7 DEF Complete, Buffered, Header, ReaderInv, ReaderTypeOK
  <2>5. Aligned' /\ WholeEnvelopes'
    <3>1. ~Intact' /\ reader'.kind # "split"
      BY <1>1, <2>4 DEF Intact
    <3> QED
      BY <3>1 DEF Aligned, WholeEnvelopes, Intact
  <2> QED
    BY <1>2, <2>2, <2>3, <2>5 DEF ReaderInv
<1> QED
  BY <1>3, <1>4

LEMMA ReaderNextInv == ReaderInv /\ [ReaderNext]_readerVars => ReaderInv'
<1> SUFFICES ASSUME ReaderInv, [ReaderNext]_readerVars PROVE ReaderInv'
  OBVIOUS
<1>1. ASSUME NEW n \in 1 .. end - arrived, Chunk(n) PROVE ReaderInv'
  BY <1>1, ChunkInv
<1>2. ASSUME NEW h \in Envelopes, TooLarge(h) \/ Deliver(h) \/ Unpackable(h) PROVE ReaderInv'
  BY <1>2, TooLargeInv, DeliverInv, UnpackableInv
<1>3. CASE SplitEnd
  BY <1>3, SplitEndInv
<1>4. CASE StreamEnd
  BY <1>4, StreamEndInv
<1>5. CASE UNCHANGED readerVars
  BY <1>5 DEF readerVars, ReaderInv, ReaderTypeOK, BufferInBody, StreamUnpacked, Aligned,
              Intact, WholeEnvelopes, Yielded, SplitResult
<1> QED
  BY <1>1, <1>2, <1>3, <1>4, <1>5 DEF ReaderNext

\* The variables keep their types.
THEOREM ReaderTypes == ReaderSpec => []ReaderTypeOK
<1>1. ReaderInv => ReaderTypeOK
  BY DEF ReaderInv
<1> QED
  BY <1>1, ReaderInitInv, ReaderNextInv, PTL DEF ReaderSpec

\* However a body is cut into chunks, and wherever it ends: what the transforms
\* yield are the data of its envelopes, in order, each of them whole and none
\* larger than readMaxBytes; and so does the stream reader of a whole body.
THEOREM EnvelopesWhole == ReaderSpec => []WholeEnvelopes
<1>1. ReaderInv => WholeEnvelopes
  BY DEF ReaderInv
<1> QED
  BY <1>1, ReaderInitInv, ReaderNextInv, PTL DEF ReaderSpec

\* transformSplitEnvelope() and transformDecompressEnvelope() end with the
\* error, if any, that the first faulty envelope deserves.
THEOREM SplitResultRight == ReaderSpec => []SplitResult
<1>1. ReaderInv => SplitResult
  BY DEF ReaderInv
<1> QED
  BY <1>1, ReaderInitInv, ReaderNextInv, PTL DEF ReaderSpec

-----------------------------------------------------------------------------
(* Iterables: the parts of the invariant. *)

Position == {"start", "before", "pull", "yield", "after", "done", "closing", "aborting"}
Rest == {"start", "before", "yield", "after", "done"}
Ended == {"after", "done"}
Values == 0 .. MaxWrites + 2
Results == {Value(v) : v \in Values} \cup {Done, Failed}

IterTypeOK ==
    /\ plan \in Chains
    /\ flagged \in SUBSET Message
    /\ queue \in Seq(1 .. Closing) /\ taken \in Seq(1 .. Closing)
    /\ waiting \in BOOLEAN /\ error \in BOOLEAN /\ closed \in BOOLEAN
    /\ told \in [1 .. Closing -> {"none", "pending", "resolved", "rejected"}]
    /\ pos \in [1 .. Outer -> Position]
    /\ held \in [1 .. Outer -> {Nothing, Done, Failed}]
    /\ broken \in SUBSET (1 .. Outer)
    /\ finals \in Seq({Done, Failed})
    /\ first \in Results \cup {Nothing}
    /\ got \in Seq(Values)
    /\ consumer \in {"opening", "idle", "waiting", "ended", "failed", "threw", "left"}

Expecting == consumer \in {"opening", "waiting"}
Active == consumer \in {"opening", "idle", "waiting"}
Dismissing == consumer \in {"threw", "left"}

\* The writable iterable: writes leave the queue as they have entered it.
Writes ==
    /\ waiting => queue = <<>>
    /\ error => queue = <<>>
    /\ told[Closing] # "none" <=> closed
    /\ \A k \in 1 .. Closing : told[k] = "resolved" <=> Contains(taken, k)
    /\ \A k \in 1 .. Closing : told[k] = "pending" <=> Contains(queue, k)
    /\ \A k \in Message : told[k] # "none" => \A j \in 1 .. k : told[j] # "none"
    /\ \A i \in 1 .. Len(taken) :
          IF taken[i] = Closing THEN closed /\ i = Len(taken) /\ queue = <<>> ELSE taken[i] = i
    /\ \A i \in 1 .. Len(queue) :
          IF queue[i] = Closing THEN closed /\ i = Len(queue) ELSE queue[i] = Len(taken) + i
    /\ closed /\ ~error => Contains(taken, Closing) \/ Contains(queue, Closing)
    /\ ~error => \A k \in Message : told[k] \in {"none", "pending", "resolved"}

Resting(i) == \A j \in 1 .. i : pos[j] \in Rest
Pulling(i) == \A j \in i .. Outer : pos[j] = "pull"

\* A call of next() has come to a stage, or to the writable iterable.
NextAsked ==
    /\ token.what = "next" /\ token.at \in 0 .. Outer
    /\ Resting(token.at) /\ Pulling(token.at + 1)

Waits == token = None /\ waiting /\ Pulling(1)

\* The result of it has come to a stage, or to the consumer.
ResultGiven ==
    /\ token.what = "result" /\ token.at \in 1 .. Consumer /\ token.result \in Results
    /\ Resting(token.at - 1) /\ Pulling(token.at)
    /\ token.result = Failed => \E j \in broken : j < token.at

\* A stage f has failed and closes the stages above it, the last of them c.
SourcesClose ==
    \E f \in 1 .. Outer : \E c \in 1 .. f :
        /\ f \in broken /\ Pulling(f + 1) /\ Resting(c - 1)
        /\ \A j \in c .. f : pos[j] = "closing" /\ held[j] \in {Done, Failed}
        /\ \/ c > 1 /\ token = Ask(c - 1, "return")
           \/ token.what = "result" /\ token.at = c /\ token.result \in {Done, Failed}

\* A stage that has failed does not go on.
BrokenStay == \A f \in broken : pos[f] = "done" \/ (pos[f] = "closing" /\ held[f] = Failed)

\* While the consumer waits, one call or one result is under way in the chain.
UnderWay ==
    Expecting =>
        /\ first = Nothing
        /\ \/ ~waiting /\ (NextAsked \/ ResultGiven \/ SourcesClose)
           \/ Waits

AtRest ==
    /\ consumer \in {"idle", "ended", "failed"} => token = None /\ ~waiting /\ Resting(Outer)
    /\ consumer \in {"ended", "failed"} => first = Nothing

\* Without propagation, the last pipe alone learns that the consumer has gone.
Leaving ==
    /\ ~Dismissing => ~error
    /\ Dismissing /\ ~plan.propagate =>
          /\ ~waiting /\ Resting(Outer)
          /\ token \in {None, Ask(Outer, "throw"), Ask(Outer, "return")}
             \/ (token.what = "result" /\ token.at = Consumer)

Shape == BrokenStay /\ UnderWay /\ AtRest /\ Leaving

\* A result of next() is on its way to stage i.
OnWay(r, i) ==
    \/ Expecting /\ token.what = "result" /\ token.at = i /\ token.result = r
    \/ i = Consumer /\ first = r

AllSeen == Seen(Len(got))

\* Unless a stage has failed, the messages that were read are seen, or on their way.
Content ==
    /\ Active /\ broken # {} => \A v \in Message, i \in 1 .. Consumer : ~OnWay(Value(v), i)
    /\ Active /\ broken = {} =>
          /\ \A v \in Message, i \in 1 .. Consumer : OnWay(Value(v), i) =>
                /\ Contains(taken, v)
                /\ \A k \in Message : Contains(taken, k) => k <= v
                /\ AllSeen = {k \in Wanted : k < v}
                /\ \A p \in 1 .. i - 1 : Kind(p) = "parseSkipping" => v \notin flagged
          /\ (\A v \in Message, i \in 1 .. Consumer : ~OnWay(Value(v), i)) =>
                AllSeen = {k \in Wanted : Contains(taken, k)}
          /\ (\E i \in 1 .. Consumer : OnWay(Done, i)) \/ (\E i \in 1 .. Outer : pos[i] \in Ended) =>
                Contains(taken, Closing)

\* A stage "finally" was told of the end, or one below it has failed.
FinalKnown(i) == finals # <<>> \/ \E k \in broken : k > i

\* What a stage "finally" at i is to be told of, and what it has appended.
FinalAhead(i) ==
    /\ \A j \in broken :
          \/ pos[j] = "closing"
          \/ \E k \in j + 1 .. Consumer : OnWay(Failed, k)
          \/ j < i /\ finals # <<>>
    /\ \A j \in i .. Outer : pos[j] \in Ended => FinalKnown(i)
    /\ \A r \in {Done, Failed}, j \in i + 1 .. Consumer : OnWay(r, j) => FinalKnown(i)
    /\ \A v \in Values, j \in 1 .. Consumer :
          OnWay(Value(v), j) => (v = Appended <=> pos[i] \in Ended)
    /\ \A n \in DOMAIN got : got[n] = Appended =>
          pos[i] \in Ended /\ \A v \in Values, j \in 1 .. Consumer : ~OnWay(Value(v), j)

\* What it was told.
FinalCalled(i) ==
    /\ i \notin broken
    /\ Len(finals) <= 1
    /\ finals # <<>> => pos[i] \in Ended
    /\ finals # <<>> => (finals[1] = Failed <=> \E j \in broken : j < i)

FinalAt(i) ==
    /\ FinalCalled(i)
    /\ consumer = "ended" => finals # <<>>
    /\ \A n \in DOMAIN got : got[n] = Appended => n = Len(got)
    /\ Active => FinalAhead(i)

FinalInv == \A i \in 1 .. Outer : Kind(i) = "finally" => FinalAt(i)

\* The inductive invariant.
IterInv ==
    /\ IterTypeOK /\ Writes /\ Shape /\ Content /\ FinalInv /\ ReadInOrder

-----------------------------------------------------------------------------
(* Chains, calls and results. *)

LEMMA MessageIs ==
    /\ MaxWrites \in Nat \ {0} /\ Closing \in Nat
    /\ Message \subseteq 1 .. Closing /\ Message \subseteq Values /\ Message \subseteq Nat
    /\ Closing \notin Message /\ Closing \in 1 .. Closing
    /\ \A k \in 1 .. Closing : k # Closing => k \in Message
    /\ Prepended \notin Message /\ Appended \notin Message /\ Prepended # Appended
    /\ Prepended \in Values /\ Appended \in Values
BY BoundsAssumption DEF Message, Closing, Values, Prepended, Appended

\* A chain ends with a pipe.  There is a stage "finally" only where errors do not
\* go up the chain, at one place, and neither "append" nor "catch" with it.
LEMMA ChainIs ==
    ASSUME NEW p \in Chains
    PROVE  /\ p.propagate \in BOOLEAN /\ p.untilFirst \in BOOLEAN
           /\ Len(p.stages) \in Nat /\ Len(p.stages) > 1
           /\ DOMAIN p.stages = 1 .. Len(p.stages)
           /\ p.stages[Len(p.stages)] = "pipe"
           /\ \A i \in 1 .. Len(p.stages) : p.stages[i] = "finally" =>
                 /\ ~p.propagate /\ i > 1
                 /\ \A j \in 1 .. Len(p.stages) :
                       /\ p.stages[j] \notin {"append", "catch"}
                       /\ p.stages[j] = "finally" => j = i
                       /\ p.stages[j] = "prepend" => j = 1
<1>1. CASE p = RequestChain
  BY <1>1 DEF RequestChain
<1>2. CASE p = HandlerChain
  BY <1>2 DEF HandlerChain
<1>3. CASE p = GrpcHandlerChain
  BY <1>3 DEF GrpcHandlerChain
<1>4. CASE p = ResponseChain
  BY <1>4 DEF ResponseChain
<1>5. CASE p = CatchChain
  BY <1>5 DEF CatchChain
<1>6. CASE p = AppendChain
  BY <1>6 DEF AppendChain
<1> QED
  BY <1>1, <1>2, <1>3, <1>4, <1>5, <1>6 DEF Chains

LEMMA PlanIs ==
    ASSUME plan \in Chains
    PROVE  /\ plan.propagate \in BOOLEAN /\ plan.untilFirst \in BOOLEAN
           /\ Outer \in Nat /\ Outer > 1 /\ Consumer = Outer + 1 /\ Kind(Outer) = "pipe"
           /\ DOMAIN plan.stages = 1 .. Outer
           /\ \A i \in 1 .. Outer : Kind(i) = "finally" =>
                 /\ ~plan.propagate /\ i > 1 /\ i < Outer
                 /\ \A j \in 1 .. Outer :
                       /\ Kind(j) \notin {"append", "catch"}
                       /\ Kind(j) = "finally" => j = i
                       /\ Kind(j) = "prepend" => j = 1
<1>1. /\ plan.propagate \in BOOLEAN /\ plan.untilFirst \in BOOLEAN
      /\ Outer \in Nat /\ Outer > 1 /\ Kind(Outer) = "pipe" /\ Consumer = Outer + 1
      /\ DOMAIN plan.stages = 1 .. Outer
  BY ChainIs DEF Outer, Kind, Consumer
<1>2. ASSUME NEW i \in 1 .. Outer, Kind(i) = "finally"
      PROVE  /\ ~plan.propagate /\ i > 1
             /\ \A j \in 1 .. Outer :
                   /\ Kind(j) \notin {"append", "catch"}
                   /\ Kind(j) = "finally" => j = i
                   /\ Kind(j) = "prepend" => j = 1
  BY <1>2, ChainIs DEF Outer, Kind
<1>3. ASSUME NEW i \in 1 .. Outer, Kind(i) = "finally" PROVE i < Outer
  <2>1. i # Outer
    BY <1>1, <1>3
  <2> QED
    BY <2>1, <1>1
<1> QED
  BY <1>1, <1>2, <1>3

\* Calls and results differ from one another, and in their fields.
LEMMA CallIs ==
    /\ \A i, w : Ask(i, w).at = i /\ Ask(i, w).what = w
    /\ None.at = 0 /\ None.what = "none"
    /\ \A i, r : /\ Give(i, r).at = ReaderOf(i) /\ Give(i, r).what = "result"
                 /\ Give(i, r).result = r
BY DEF Ask, None, Give

LEMMA ResultIs ==
    /\ Done # Failed /\ Nothing # Done /\ Nothing # Failed
    /\ Done.what = "done" /\ Failed.what = "error" /\ Nothing.what = "none"
    /\ \A v : /\ Value(v).what = "value" /\ Value(v).value = v
              /\ Value(v) # Done /\ Value(v) # Failed /\ Value(v) # Nothing
    /\ \A v, w : Value(v) = Value(w) => v = w
<1>1. Done.what = "done" /\ Failed.what = "error" /\ Nothing.what = "none"
  BY DEF Done, Failed, Nothing
<1>2. \A v : Value(v).what = "value" /\ Value(v).value = v
  BY DEF Value
<1>3. \A v, w : Value(v) = Value(w) => v = w
  BY <1>2
<1>4. \A v : Value(v) # Done /\ Value(v) # Failed /\ Value(v) # Nothing
  BY <1>1, <1>2
<1> QED
  BY <1>1, <1>2, <1>3, <1>4

LEMMA ResultsAre ==
    ASSUME NEW r \in Results
    PROVE  /\ r.what = "done" <=> r = Done
           /\ r.what = "error" <=> r = Failed
           /\ r.what = "value" <=> \E v \in Values : r = Value(v)
           /\ r.what = "value" => r.value \in Values /\ r = Value(r.value)
           /\ r # Nothing
BY ResultIs DEF Results

\* The type of a sequence's elements.
LEMMA ElementIs ==
    ASSUME NEW S, NEW s \in Seq(S), NEW i \in 1 .. Len(s) PROVE s[i] \in S
OBVIOUS

LEMMA ContainsIs ==
    ASSUME NEW s, NEW e PROVE Contains(s, e) <=> \E i \in 1 .. Len(s) : s[i] = e
BY DEF Contains

LEMMA ContainsAppend ==
    ASSUME NEW S, NEW s \in Seq(S), NEW e \in S, NEW x
    PROVE  Contains(Append(s, e), x) <=> Contains(s, x) \/ x = e
<1>1. Len(s) \in Nat
  BY LenIs
<1>2. /\ Len(Append(s, e)) = Len(s) + 1
      /\ \A i \in 1 .. Len(s) : Append(s, e)[i] = s[i]
      /\ Append(s, e)[Len(s) + 1] = e
  BY AppendIs
<1>3. \A i \in 1 .. Len(s) + 1 : i \in 1 .. Len(s) \/ i = Len(s) + 1
  BY <1>1
<1>4. 1 .. Len(s) \subseteq 1 .. Len(s) + 1 /\ Len(s) + 1 \in 1 .. Len(s) + 1
  BY <1>1
<1> DEFINE t == Append(s, e)
<1> HIDE DEF t
<1>5. Contains(t, x) <=> \E i \in 1 .. Len(s) + 1 : t[i] = x
  BY <1>2, ContainsIs DEF t
<1>6. Contains(s, x) <=> \E i \in 1 .. Len(s) : s[i] = x
  BY ContainsIs
<1>7. Contains(t, x) <=> Contains(s, x) \/ x = e
  BY <1>2, <1>3, <1>4, <1>5, <1>6 DEF t
<1> QED
  BY <1>7 DEF t

LEMMA TailIs ==
    ASSUME NEW S, NEW s \in Seq(S), s # <<>>
    PROVE  /\ Len(s) \in Nat \ {0} /\ s[1] \in S
           /\ Tail(s) \in Seq(S) /\ Len(Tail(s)) = Len(s) - 1
           /\ \A i \in 1 .. Len(s) - 1 : Tail(s)[i] = s[i + 1]
OBVIOUS

LEMMA EmptyIs == \A S : <<>> \in Seq(S) /\ Len(<<>>) = 0
OBVIOUS

LEMMA ContainsEmpty == \A x : ~Contains(<<>>, x)
BY EmptyIs, ContainsIs

LEMMA ContainsTail ==
    ASSUME NEW S, NEW s \in Seq(S), s # <<>>, NEW x
    PROVE  Contains(s, x) <=> Contains(Tail(s), x) \/ x = s[1]
<1> DEFINE t == Tail(s)
<1>1. Len(s) \in Nat \ {0} /\ Len(t) = Len(s) - 1 /\ \A i \in 1 .. Len(s) - 1 : t[i] = s[i + 1]
  BY TailIs
<1> HIDE DEF t
<1>2. Contains(t, x) <=> \E i \in 1 .. Len(s) - 1 : s[i + 1] = x
  BY <1>1, ContainsIs
<1>3. Contains(s, x) <=> \E i \in 1 .. Len(s) : s[i] = x
  BY ContainsIs
<1>4. \A i \in 1 .. Len(s) : i = 1 \/ (i - 1 \in 1 .. Len(s) - 1 /\ (i - 1) + 1 = i)
  BY <1>1
<1>5. \A i \in 1 .. Len(s) - 1 : i + 1 \in 1 .. Len(s)
  BY <1>1
<1>6. 1 \in 1 .. Len(s)
  BY <1>1
<1>7. Contains(s, x) <=> Contains(t, x) \/ x = s[1]
  BY <1>2, <1>3, <1>4, <1>5, <1>6
<1> QED
  BY <1>7 DEF t

-----------------------------------------------------------------------------
(* The writable iterable. *)

LEMMA WritesSame ==
    ASSUME Writes, UNCHANGED writable PROVE Writes'
BY DEF Writes, writable

LEMMA WritableTypes ==
    ASSUME IterTypeOK
    PROVE  /\ Len(taken) \in Nat /\ Len(queue) \in Nat
           /\ \A i \in 1 .. Len(taken) : taken[i] \in 1 .. Closing
           /\ \A i \in 1 .. Len(queue) : queue[i] \in 1 .. Closing
           /\ \A x : Contains(taken, x) => x \in 1 .. Closing
           /\ \A x : Contains(queue, x) => x \in 1 .. Closing
<1>1. taken \in Seq(1 .. Closing) /\ queue \in Seq(1 .. Closing)
  BY DEF IterTypeOK
<1> QED
  BY <1>1, LenIs, ElementIs, ContainsIs

\* Messages are handed to the reader in the order of their numbers.
LEMMA TakenInOrder ==
    ASSUME IterTypeOK, Writes, NEW v \in Message, Contains(taken, v), NEW k \in 1 .. v
    PROVE  Contains(taken, k) /\ k \in Message
<1>1. PICK i \in 1 .. Len(taken) : taken[i] = v
  BY ContainsIs
<1>2. i = v
  BY <1>1, MessageIs DEF Writes
<1>3. k \in 1 .. Len(taken) /\ k \in Message
  BY <1>1, <1>2, WritableTypes, MessageIs DEF Message
<1>4. CASE k = v
  BY <1>4
<1>5. CASE k # v
  <2>1. k # Len(taken)
    BY <1>1, <1>2, <1>3, <1>5, WritableTypes
  <2>2. taken[k] = k
    BY <1>3, <2>1 DEF Writes
  <2> QED
    BY <2>2, <1>3, ContainsIs
<1> QED
  BY <1>3, <1>4, <1>5

\* What is written next goes behind all that was written.
LEMMA NextPlace ==
    ASSUME IterTypeOK, Writes, ~closed, ~error,
           NEW k \in Message, told[k] = "none", \A j \in 1 .. k - 1 : told[j] # "none"
    PROVE  k = Len(taken) + Len(queue) + 1
<1> DEFINE a == Len(taken)
           b == Len(queue)
<1>1. a \in Nat /\ b \in Nat /\ k \in Nat /\ k > 0
  BY WritableTypes, MessageIs DEF Message
<1>2. \A i \in 1 .. a : taken[i] = i
  BY DEF Writes
<1>3. \A i \in 1 .. b : queue[i] = a + i
  BY DEF Writes
<1>4. ~Contains(taken, k) /\ ~Contains(queue, k)
  <2>1. k \in 1 .. Closing
    BY MessageIs
  <2> QED
    BY <2>1 DEF Writes
<1>5. k > a + b
  <2>1. k \notin 1 .. a
    BY <1>2, <1>4, ContainsIs
  <2>2. k - a \notin 1 .. b
    <3> SUFFICES ASSUME k - a \in 1 .. b PROVE FALSE
      OBVIOUS
    <3>1. queue[k - a] = a + (k - a)
      BY <1>3
    <3>2. queue[k - a] = k
      BY <3>1, <1>1
    <3> QED
      BY <3>2, <1>4, ContainsIs
  <2> HIDE DEF a, b
  <2> QED
    BY <2>1, <2>2, <1>1
<1>6. k - 1 <= a + b
  <2> SUFFICES ASSUME k > 1 PROVE k - 1 <= a + b
    BY <1>1
  <2>1. k - 1 \in 1 .. k - 1 /\ k - 1 \in Message /\ k - 1 \in 1 .. Closing
    BY <1>1, MessageIs DEF Message
  <2>2. told[k - 1] \in {"pending", "resolved"}
    BY <2>1 DEF Writes
  <2>3. Contains(taken, k - 1) \/ Contains(queue, k - 1)
    BY <2>1, <2>2 DEF Writes
  <2>4. CASE Contains(taken, k - 1)
    <3>1. PICK i \in 1 .. a : taken[i] = k - 1
      BY <2>4, ContainsIs
    <3>2. i = k - 1
      BY <3>1, <1>2
    <3> HIDE DEF a, b
    <3> QED
      BY <3>1, <3>2, <1>1
  <2>5. CASE Contains(queue, k - 1)
    <3>1. PICK i \in 1 .. b : queue[i] = k - 1
      BY <2>5, ContainsIs
    <3>2. a + i = k - 1
      BY <3>1, <1>3
    <3> HIDE DEF a, b
    <3> QED
      BY <3>1, <3>2, <1>1
  <2> QED
    BY <2>3, <2>4, <2>5
<1> HIDE DEF a, b
<1>7. k = a + b + 1
  BY <1>1, <1>5, <1>6
<1> QED
  BY <1>7 DEF a, b

\* A call that queues a write: write() of the next message, or close().
Enters(k) ==
    /\ ~closed /\ k \in 1 .. Closing /\ told[k] = "none"
    /\ \/ /\ k \in Message /\ closed' = closed
          /\ \A j \in 1 .. k - 1 : told[j] # "none"
       \/ k = Closing /\ closed' = TRUE

LEMMA ToldOne ==
    ASSUME IterTypeOK, NEW k \in 1 .. Closing, NEW w, told' = [told EXCEPT ![k] = w]
    PROVE  told'[k] = w /\ \A j \in 1 .. Closing : j # k => told'[j] = told[j]
BY DEF IterTypeOK

\* Who has written before k is told something, and nobody behind it.
LEMMA ToldBefore ==
    ASSUME IterTypeOK, Writes, NEW k, Enters(k), NEW w, w # "none",
           told' = [told EXCEPT ![k] = w]
    PROVE  /\ told'[Closing] # "none" <=> closed'
           /\ \A m \in Message : told'[m] # "none" => \A j \in 1 .. m : told'[j] # "none"
<1>1. k \in 1 .. Closing
  BY DEF Enters
<1>2. told'[k] = w /\ \A j \in 1 .. Closing : j # k => told'[j] = told[j]
  BY <1>1, ToldOne
<1>3. told'[Closing] # "none" <=> closed'
  <2>1. CASE k = Closing
    BY <2>1, <1>2, MessageIs DEF Enters
  <2>2. CASE k # Closing
    BY <2>2, <1>2, MessageIs DEF Enters, Writes
  <2> QED
    BY <2>1, <2>2
<1>4. ASSUME NEW m \in Message, told'[m] # "none", NEW j \in 1 .. m PROVE told'[j] # "none"
  <2>1. j \in 1 .. Closing /\ m \in 1 .. Closing /\ j \in Message
    BY MessageIs DEF Message
  <2>2. CASE m # k
    BY <2>1, <2>2, <1>2, <1>4 DEF Writes
  <2>3. CASE m = k
    <3>1. j = k \/ j \in 1 .. k - 1
      BY <2>1, <2>3, MessageIs DEF Message
    <3> QED
      BY <3>1, <2>1, <2>3, <1>2, MessageIs DEF Enters
  <2> QED
    BY <2>2, <2>3
<1> QED
  BY <1>3, <1>4

\* The place of a write, in what was handed on and in the queue.
LEMMA EntersAt ==
    ASSUME IterTypeOK, Writes, NEW k, Enters(k), ~error
    PROVE  /\ IF k = Closing THEN closed' ELSE k = Len(taken) + Len(queue) + 1
           /\ \A i \in 1 .. Len(taken) : taken[i] = i /\ taken[i] # Closing
           /\ \A i \in 1 .. Len(queue) : queue[i] = Len(taken) + i /\ queue[i] # Closing
           /\ ~Contains(taken, k) /\ ~Contains(queue, k)
<1>1. IF k = Closing THEN closed' ELSE k = Len(taken) + Len(queue) + 1
  <2>1. CASE k \in Message /\ \A j \in 1 .. k - 1 : told[j] # "none"
    <3>1. k # Closing /\ ~closed /\ told[k] = "none"
      BY <2>1, MessageIs DEF Enters
    <3>2. k = Len(taken) + Len(queue) + 1
      BY <2>1, <3>1, NextPlace
    <3> QED
      BY <3>1, <3>2
  <2>2. CASE k = Closing /\ closed' = TRUE
    BY <2>2
  <2> QED
    BY <2>1, <2>2 DEF Enters
<1>2. ~Contains(taken, k) /\ ~Contains(queue, k)
  BY DEF Enters, Writes
<1> QED
  BY <1>1, <1>2 DEF Enters, Writes

LEMMA RejectedWrites ==
    ASSUME IterTypeOK, Writes, NEW k, Enters(k), error,
           told' = [told EXCEPT ![k] = "rejected"],
           UNCHANGED <<queue, waiting, taken, error>>
    PROVE  Writes'
<1>1. k \in 1 .. Closing /\ told[k] = "none"
  BY DEF Enters
<1>2. told'[k] = "rejected" /\ \A j \in 1 .. Closing : j # k => told'[j] = told[j]
  BY <1>1, ToldOne
<1>3. told'[Closing] # "none" <=> closed'
  BY ToldBefore
<1>4. \A m \in Message : told'[m] # "none" => \A j \in 1 .. m : told'[j] # "none"
  BY ToldBefore
<1>5. ~Contains(taken, k) /\ ~Contains(queue, k)
  BY <1>1 DEF Writes
<1>6. \A j \in 1 .. Closing : told'[j] = "resolved" <=> Contains(taken, j)
  BY <1>2, <1>5 DEF Writes
<1>7. \A j \in 1 .. Closing : told'[j] = "pending" <=> Contains(queue, j)
  BY <1>2, <1>5 DEF Writes
<1>8. queue = <<>> /\ Len(queue) = 0
      /\ \A i \in 1 .. Len(taken) : taken[i] = i /\ taken[i] # Closing
  BY EmptyIs DEF Writes, Enters
<1> QED
  BY <1>3, <1>4, <1>6, <1>7, <1>8 DEF Writes

LEMMA ResolvedWrites ==
    ASSUME IterTypeOK, Writes, NEW k, Enters(k), ~error, waiting, waiting' = FALSE,
           told' = [told EXCEPT ![k] = "resolved"], taken' = Append(taken, k),
           UNCHANGED <<queue, error>>
    PROVE  Writes'
<1>1. k \in 1 .. Closing /\ taken \in Seq(1 .. Closing)
  BY DEF Enters, IterTypeOK
<1>2. told'[k] = "resolved" /\ \A j \in 1 .. Closing : j # k => told'[j] = told[j]
  BY <1>1, ToldOne
<1>3. told'[Closing] # "none" <=> closed'
  BY ToldBefore
<1>4. \A m \in Message : told'[m] # "none" => \A j \in 1 .. m : told'[j] # "none"
  BY ToldBefore
<1>5. \A x : Contains(taken', x) <=> Contains(taken, x) \/ x = k
  BY <1>1, ContainsAppend
<1>6. queue = <<>> /\ Len(queue) = 0 /\ ~Contains(queue, k)
  BY EmptyIs, ContainsEmpty DEF Writes
<1>7. \A j \in 1 .. Closing : told'[j] = "resolved" <=> Contains(taken', j)
  BY <1>2, <1>5 DEF Writes
<1>8. \A j \in 1 .. Closing : told'[j] = "pending" <=> Contains(queue, j)
  BY <1>2, <1>6 DEF Writes
<1>9. \A i \in 1 .. Len(taken') :
          IF taken'[i] = Closing THEN closed' /\ i = Len(taken') /\ queue = <<>>
          ELSE taken'[i] = i
  <2>1. /\ Len(taken) \in Nat /\ Len(taken') = Len(taken) + 1
        /\ \A i \in 1 .. Len(taken) : taken'[i] = taken[i]
        /\ taken'[Len(taken) + 1] = k
    BY <1>1, LenIs, AppendIs
  <2>2. (IF k = Closing THEN closed' ELSE k = Len(taken) + 1)
        /\ \A i \in 1 .. Len(taken) : taken[i] = i /\ taken[i] # Closing
    <3>1. Len(taken) + Len(queue) + 1 = Len(taken) + 1
      BY <1>6, <2>1
    <3> QED
      BY <3>1, EntersAt
  <2>3. \A i \in 1 .. Len(taken) + 1 : i \in 1 .. Len(taken) \/ i = Len(taken) + 1
    BY <2>1
  <2> QED
    BY <2>1, <2>2, <2>3, <1>6
<1>10. closed' => Contains(taken', Closing) \/ Contains(queue, Closing)
  BY <1>5 DEF Enters
<1>11. \A m \in Message : told'[m] \in {"none", "pending", "resolved"}
  BY <1>2, MessageIs DEF Writes
<1> QED
  BY <1>3, <1>4, <1>6, <1>7, <1>8, <1>9, <1>10, <1>11 DEF Writes

LEMMA QueuedWrites ==
    ASSUME IterTypeOK, Writes, NEW k, Enters(k), ~error, ~waiting,
           told' = [told EXCEPT ![k] = "pending"], queue' = Append(queue, k),
           UNCHANGED <<waiting, taken, error>>
    PROVE  Writes'
<1>1. k \in 1 .. Closing /\ queue \in Seq(1 .. Closing)
  BY DEF Enters, IterTypeOK
<1>2. told'[k] = "pending" /\ \A j \in 1 .. Closing : j # k => told'[j] = told[j]
  BY <1>1, ToldOne
<1>3. told'[Closing] # "none" <=> closed'
  BY ToldBefore
<1>4. \A m \in Message : told'[m] # "none" => \A j \in 1 .. m : told'[j] # "none"
  BY ToldBefore
<1>5. \A x : Contains(queue', x) <=> Contains(queue, x) \/ x = k
  BY <1>1, ContainsAppend
<1>6. ~Contains(taken, k) /\ \A i \in 1 .. Len(taken) : taken[i] = i /\ taken[i] # Closing
  BY EntersAt
<1>7. \A j \in 1 .. Closing : told'[j] = "resolved" <=> Contains(taken, j)
  BY <1>2, <1>6 DEF Writes
<1>8. \A j \in 1 .. Closing : told'[j] = "pending" <=> Contains(queue', j)
  BY <1>2, <1>5 DEF Writes
<1>9. \A i \in 1 .. Len(queue') :
          IF queue'[i] = Closing THEN closed' /\ i = Len(queue')
          ELSE queue'[i] = Len(taken) + i
  <2>1. /\ Len(queue) \in Nat /\ Len(queue') = Len(queue) + 1
        /\ \A i \in 1 .. Len(queue) : queue'[i] = queue[i]
        /\ queue'[Len(queue) + 1] = k
    BY <1>1, LenIs, AppendIs
  <2>2. (IF k = Closing THEN closed' ELSE k = Len(taken) + (Len(queue) + 1))
        /\ \A i \in 1 .. Len(queue) : queue[i] = Len(taken) + i /\ queue[i] # Closing
    <3>1. Len(taken) + Len(queue) + 1 = Len(taken) + (Len(queue) + 1)
      BY <2>1, WritableTypes
    <3> QED
      BY <3>1, EntersAt
  <2>3. \A i \in 1 .. Len(queue) + 1 : i \in 1 .. Len(queue) \/ i = Len(queue) + 1
    BY <2>1
  <2> QED
    BY <2>1, <2>2, <2>3
<1>10. closed' => Contains(taken, Closing) \/ Contains(queue', Closing)
  BY <1>5 DEF Enters
<1>11. \A m \in Message : told'[m] \in {"none", "pending", "resolved"}
  BY <1>2, MessageIs DEF Writes
<1> QED
  BY <1>3, <1>4, <1>6, <1>7, <1>8, <1>9, <1>10, <1>11 DEF Writes

LEMMA ProcessWrites ==
    ASSUME IterTypeOK, Writes, NEW k, Enters(k), Process(k), error' = error
    PROVE  Writes'
<1>1. CASE error
  BY <1>1, RejectedWrites DEF Process
<1>2. CASE ~error /\ waiting
  BY <1>2, ResolvedWrites DEF Process
<1>3. CASE ~error /\ ~waiting
  BY <1>3, QueuedWrites DEF Process
<1> QED
  BY <1>1, <1>2, <1>3 DEF IterTypeOK

LEMMA WriteEnters ==
    ASSUME IterTypeOK, NEW k \in Message, Write(k)
    PROVE  Enters(k) /\ Process(k) /\ error' = error
           /\ UNCHANGED <<plan, flagged, pos, held, broken, finals, first, consumer, got>>
BY MessageIs DEF Write, Enters, chain, reading

LEMMA CloseEnters ==
    ASSUME IterTypeOK, Writes, Close
    PROVE  Enters(Closing) /\ Process(Closing) /\ error' = error
           /\ UNCHANGED <<plan, flagged, pos, held, broken, finals, first, consumer, got>>
BY MessageIs DEF Close, Enters, chain, reading, Writes, IterTypeOK

\* The reader takes the first write of the queue.
LEMMA TakeFirst ==
    ASSUME IterTypeOK, Writes, ~error, queue # <<>>, queue' = Tail(queue),
           told' = [told EXCEPT ![queue[1]] = "resolved"], taken' = Append(taken, queue[1]),
           UNCHANGED <<waiting, error, closed>>
    PROVE  Writes'
<1> DEFINE k == queue[1]
           a == Len(taken)
           b == Len(queue)
<1>1. /\ taken \in Seq(1 .. Closing) /\ queue \in Seq(1 .. Closing) /\ k \in 1 .. Closing
      /\ a \in Nat /\ b \in Nat \ {0}
  BY TailIs, LenIs DEF IterTypeOK
<1>2. told'[k] = "resolved" /\ \A j \in 1 .. Closing : j # k => told'[j] = told[j]
  BY <1>1, ToldOne
<1>3. Len(queue') = b - 1 /\ \A i \in 1 .. b - 1 : queue'[i] = queue[i + 1]
  BY TailIs, <1>1
<1>4. Len(taken') = a + 1 /\ taken'[a + 1] = k /\ \A i \in 1 .. a : taken'[i] = taken[i]
  BY AppendIs, <1>1
<1>5. \A x : Contains(taken', x) <=> Contains(taken, x) \/ x = k
  BY <1>1, ContainsAppend
<1>6. \A x : Contains(queue, x) <=> Contains(queue', x) \/ x = k
  BY <1>1, ContainsTail
<1>7. \A i \in 1 .. a : taken[i] = i /\ taken[i] # Closing
  BY DEF Writes
<1>8. IF k = Closing THEN closed /\ b = 1 ELSE k = a + 1
  <2>1. 1 \in 1 .. b
    BY <1>1
  <2>2. IF queue[1] = Closing THEN closed /\ 1 = b ELSE queue[1] = a + 1
    BY <2>1 DEF Writes
  <2> QED
    BY <2>2
<1>9. ~Contains(queue', k)
  <2> SUFFICES ASSUME Contains(queue', k) PROVE FALSE
    OBVIOUS
  <2>1. PICK i \in 1 .. b - 1 : queue[i + 1] = k
    <3>1. PICK i \in 1 .. Len(queue') : queue'[i] = k
      BY ContainsIs
    <3> QED
      BY <3>1, <1>3
  <2>2. b > 1 /\ i + 1 \in 1 .. b /\ i + 1 > 1 /\ i \in Nat
    BY <1>1
  <2>3. k # Closing /\ k = a + 1
    <3> HIDE DEF a, b, k
    <3>1. b # 1
      BY <2>2
    <3> QED
      BY <3>1, <1>8
  <2>4. queue[i + 1] = a + (i + 1)
    BY <2>1, <2>2, <2>3 DEF Writes
  <2> HIDE DEF a, b, k
  <2> QED
    BY <2>1, <2>2, <2>3, <2>4, <1>1
<1>10. told[k] = "pending"
  BY <1>1, <1>6 DEF Writes
<1>11. \A j \in 1 .. Closing : told'[j] = "resolved" <=> Contains(taken', j)
  BY <1>2, <1>5 DEF Writes
<1>12. \A j \in 1 .. Closing : told'[j] = "pending" <=> Contains(queue', j)
  BY <1>2, <1>6, <1>9 DEF Writes
<1>13. \A j \in 1 .. Closing : told'[j] # "none" <=> told[j] # "none"
  BY <1>2, <1>10
<1>14. told'[Closing] # "none" <=> closed'
  BY <1>13, MessageIs DEF Writes
<1>15. \A m \in Message : told'[m] # "none" => \A j \in 1 .. m : told'[j] # "none"
  <2>1. \A m \in Message : m \in 1 .. Closing /\ \A j \in 1 .. m : j \in 1 .. Closing
    BY MessageIs DEF Message
  <2> QED
    BY <2>1, <1>13 DEF Writes
<1>16. \A m \in Message : told'[m] \in {"none", "pending", "resolved"}
  BY <1>2, MessageIs DEF Writes
<1>17. \A i \in 1 .. Len(taken') :
          IF taken'[i] = Closing THEN closed' /\ i = Len(taken') /\ queue' = <<>>
          ELSE taken'[i] = i
  <2>1. \A i \in 1 .. a + 1 : i \in 1 .. a \/ i = a + 1
    BY <1>1
  <2>2. k = Closing => queue' = <<>>
    <3> SUFFICES ASSUME k = Closing PROVE queue' = <<>>
      OBVIOUS
    <3>1. queue' \in Seq(1 .. Closing) /\ Len(queue') = 0
      BY <1>1, <1>3, <1>8, TailIs
    <3> QED
      BY <3>1
  <2> HIDE DEF a, k
  <2> QED
    BY <2>1, <2>2, <1>4, <1>7, <1>8 DEF a
<1>18. \A i \in 1 .. Len(queue') :
          IF queue'[i] = Closing THEN closed' /\ i = Len(queue')
          ELSE queue'[i] = Len(taken') + i
  <2> SUFFICES ASSUME NEW i \in 1 .. b - 1
               PROVE  IF queue'[i] = Closing THEN closed /\ i = b - 1
                      ELSE queue'[i] = (a + 1) + i
    BY <1>3, <1>4
  <2>1. i + 1 \in 1 .. b /\ queue'[i] = queue[i + 1]
    BY <1>1, <1>3
  <2>2. IF queue[i + 1] = Closing THEN closed /\ i + 1 = b ELSE queue[i + 1] = a + (i + 1)
    BY <2>1 DEF Writes
  <2> HIDE DEF a, b
  <2>3. CASE queue[i + 1] = Closing
    BY <2>1, <2>2, <2>3, <1>1
  <2>4. CASE queue[i + 1] # Closing
    <3>1. a + (i + 1) = (a + 1) + i
      BY <1>1
    <3> QED
      BY <2>1, <2>2, <2>4, <3>1
  <2> QED
    BY <2>3, <2>4
<1>19. closed' => Contains(taken', Closing) \/ Contains(queue', Closing)
  BY <1>5, <1>6 DEF Writes
<1>20. waiting' => queue' = <<>>
  BY DEF Writes
<1>21. error' = FALSE \/ ~error'
  OBVIOUS
<1> QED
  BY <1>11, <1>12, <1>14, <1>15, <1>16, <1>17, <1>18, <1>19, <1>20 DEF Writes

\* The reader fails: what is in the queue is rejected.
LEMMA DrainWrites ==
    ASSUME IterTypeOK, Writes, told' = Drained(told, queue), queue' = <<>>, error' = TRUE,
           UNCHANGED <<waiting, closed, taken>>
    PROVE  Writes'
<1>1. DOMAIN told = 1 .. Closing
  BY DEF IterTypeOK
<1>2. \A j \in 1 .. Closing : told'[j] = IF Contains(queue, j) THEN "rejected" ELSE told[j]
  BY <1>1 DEF Drained
<1>3. \A j \in 1 .. Closing : Contains(queue, j) => told[j] = "pending"
  BY DEF Writes
<1>4. \A j \in 1 .. Closing : told'[j] # "none" <=> told[j] # "none"
  BY <1>2, <1>3
<1>5. \A j \in 1 .. Closing : told'[j] = "resolved" <=> Contains(taken, j)
  BY <1>2, <1>3 DEF Writes
<1>6. \A j \in 1 .. Closing : told'[j] # "pending"
  BY <1>2 DEF Writes
<1>7. \A m \in Message : m \in 1 .. Closing /\ \A j \in 1 .. m : j \in 1 .. Closing
  BY MessageIs DEF Message
<1>8. \A m \in Message : told'[m] # "none" => \A j \in 1 .. m : told'[j] # "none"
  BY <1>4, <1>7 DEF Writes
<1>9. told'[Closing] # "none" <=> closed
  BY <1>4, MessageIs DEF Writes
<1>10. Len(queue') = 0 /\ \A j : ~Contains(queue', j)
  BY EmptyIs, ContainsEmpty
<1>11. \A i \in 1 .. Len(taken) :
          IF taken[i] = Closing THEN closed /\ i = Len(taken) ELSE taken[i] = i
  BY DEF Writes
<1> QED
  BY <1>5, <1>6, <1>8, <1>9, <1>10, <1>11 DEF Writes

LEMMA NextOfWritableWrites ==
    ASSUME IterTypeOK, Writes, NextOfWritable PROVE Writes'
<1>1. CASE error
  <2>1. UNCHANGED writable
    BY <1>1 DEF NextOfWritable, writable
  <2> QED
    BY <2>1, WritesSame
<1>2. CASE ~error /\ queue = <<>>
  <2>1. UNCHANGED <<queue, told, taken, error, closed>>
    BY <1>2 DEF NextOfWritable
  <2> QED
    BY <2>1, <1>2 DEF Writes
<1>3. CASE ~error /\ queue # <<>>
  BY <1>3, TakeFirst DEF NextOfWritable
<1> QED
  BY <1>1, <1>2, <1>3 DEF IterTypeOK

-----------------------------------------------------------------------------
(* Where the call or the result is. *)

LEMMA SamePlan ==
    ASSUME UNCHANGED plan
    PROVE  /\ Outer' = Outer /\ Consumer' = Consumer /\ \A i : Kind(i)' = Kind(i)
BY DEF Outer, Consumer, Kind

LEMMA PlanHere ==
    ASSUME IterTypeOK
    PROVE  /\ plan.propagate \in BOOLEAN /\ plan.untilFirst \in BOOLEAN
           /\ Outer \in Nat /\ Outer > 1 /\ Consumer = Outer + 1 /\ Kind(Outer) = "pipe"
           /\ DOMAIN plan.stages = 1 .. Outer
           /\ \A i \in 1 .. Outer : pos[i] \in Position
           /\ \A i \in 1 .. Outer : held[i] \in {Nothing, Done, Failed}
BY PlanIs DEF IterTypeOK

LEMMA NextIsAsked ==
    ASSUME UnderWay, Expecting, NEW i, token = Ask(i, "next")
    PROVE  /\ i \in 0 .. Outer /\ Resting(i) /\ Pulling(i + 1)
           /\ ~waiting /\ first = Nothing
<1>1. token.what = "next" /\ token.at = i /\ token # None
  BY CallIs
<1>2. ~SourcesClose
  BY <1>1, CallIs DEF SourcesClose
<1> QED
  BY <1>1, <1>2 DEF UnderWay, NextAsked, ResultGiven, Waits

LEMMA ResultIsGiven ==
    ASSUME IterTypeOK, UnderWay, Expecting, NEW i \in 1 .. Consumer,
           token.what = "result", token.at = i, i = Consumer \/ pos[i] = "pull"
    PROVE  /\ token.result \in Results /\ Resting(i - 1) /\ Pulling(i)
           /\ ~waiting /\ first = Nothing
           /\ token.result = Failed => \E j \in broken : j < i
<1>1. token # None
  BY CallIs
<1>2. ~SourcesClose
  <2> SUFFICES ASSUME SourcesClose PROVE FALSE
    OBVIOUS
  <2>1. PICK f \in 1 .. Outer : \E c \in 1 .. f :
            /\ \A j \in c .. f : pos[j] = "closing"
            /\ \/ token = Ask(c - 1, "return")
               \/ token.at = c
    BY DEF SourcesClose
  <2>2. PICK c \in 1 .. f : /\ \A j \in c .. f : pos[j] = "closing"
                            /\ token = Ask(c - 1, "return") \/ token.at = c
    BY <2>1
  <2>3. c = i
    BY <2>2, CallIs
  <2>4. c \in c .. f /\ c <= Outer /\ c \in Nat
    BY PlanHere
  <2> QED
    BY <2>2, <2>3, <2>4, PlanHere
<1> QED
  BY <1>1, <1>2 DEF UnderWay, NextAsked, ResultGiven, Waits

\* The stages between the one that has failed and the one that closes its source.
Closes(f, c) ==
    /\ f \in 1 .. Outer /\ c \in 1 .. f
    /\ f \in broken /\ Pulling(f + 1) /\ Resting(c - 1)
    /\ \A j \in c .. f : pos[j] = "closing" /\ held[j] \in {Done, Failed}

LEMMA SourceIsClosed ==
    ASSUME IterTypeOK, UnderWay, Expecting, NEW i \in 1 .. Outer,
           token.what = "result", token.at = i, pos[i] = "closing"
    PROVE  /\ \E f \in 1 .. Outer : Closes(f, i)
           /\ token.result \in {Done, Failed} /\ ~waiting /\ first = Nothing
<1>1. token # None
  BY CallIs
<1>2. ~ResultGiven
  BY PlanHere DEF ResultGiven, Pulling
<1>3. SourcesClose /\ ~waiting /\ first = Nothing
  BY <1>1, <1>2 DEF UnderWay, NextAsked, Waits
<1>4. PICK f \in 1 .. Outer : \E c \in 1 .. f :
          /\ Closes(f, c)
          /\ \/ token = Ask(c - 1, "return")
             \/ token.at = c /\ token.result \in {Done, Failed}
  BY <1>3 DEF SourcesClose, Closes
<1> QED
  BY <1>3, <1>4, CallIs

LEMMA ReturnIsAsked ==
    ASSUME IterTypeOK, UnderWay, Expecting, NEW i \in 1 .. Outer, token = Ask(i, "return")
    PROVE  /\ \E f \in 1 .. Outer : Closes(f, i + 1)
           /\ ~waiting /\ first = Nothing
<1>1. token # None /\ token.what = "return" /\ token.at = i
  BY CallIs
<1>2. SourcesClose /\ ~waiting /\ first = Nothing
  BY <1>1 DEF UnderWay, NextAsked, Waits, ResultGiven
<1>3. PICK f \in 1 .. Outer : \E c \in 1 .. f :
          Closes(f, c) /\ (token = Ask(c - 1, "return") \/ token.what = "result")
  BY <1>2 DEF SourcesClose, Closes
<1>4. PICK c \in 1 .. f : Closes(f, c) /\ token = Ask(c - 1, "return")
  BY <1>1, <1>3
<1>5. c - 1 = i
  BY <1>1, <1>4, CallIs
<1>6. c = i + 1
  BY <1>5
<1> QED
  BY <1>2, <1>4, <1>6

\* Until the consumer goes, no pipe aborts its source.
LEMMA NobodyAborts ==
    ASSUME IterTypeOK, UnderWay, AtRest, ~Dismissing
    PROVE  \A j \in 1 .. Outer : pos[j] # "aborting"
<1>1. CASE consumer \in {"idle", "ended", "failed"}
  BY <1>1 DEF AtRest, Resting, Rest
<1>2. CASE Expecting
  <2>1. Outer \in Nat
    BY PlanHere
  <2>2. CASE NextAsked
    <3>1. token.at \in 0 .. Outer
      BY <2>2 DEF NextAsked
    <3>2. \A j \in 1 .. Outer : j \in 1 .. token.at \/ j \in token.at + 1 .. Outer
      BY <2>1, <3>1
    <3> QED
      BY <2>2, <3>2 DEF NextAsked, Resting, Pulling, Rest
  <2>3. CASE ResultGiven
    <3>1. token.at \in 1 .. Outer + 1
      BY <2>3, PlanHere DEF ResultGiven
    <3>2. \A j \in 1 .. Outer : j \in 1 .. token.at - 1 \/ j \in token.at .. Outer
      BY <2>1, <3>1
    <3> QED
      BY <2>3, <3>2 DEF ResultGiven, Resting, Pulling, Rest
  <2>4. CASE SourcesClose
    <3>1. PICK f \in 1 .. Outer : \E c \in 1 .. f : Closes(f, c)
      BY <2>4 DEF SourcesClose, Closes
    <3>2. PICK c \in 1 .. f : Closes(f, c)
      BY <3>1
    <3>3. \A j \in 1 .. Outer : j \in 1 .. c - 1 \/ j \in c .. f \/ j \in f + 1 .. Outer
      BY <2>1
    <3> QED
      BY <3>2, <3>3 DEF Closes, Resting, Pulling, Rest
  <2>5. CASE Waits
    BY <2>5 DEF Waits, Pulling
  <2> QED
    BY <1>2, <2>2, <2>3, <2>4, <2>5 DEF UnderWay
<1> QED
  BY <1>1, <1>2 DEF IterTypeOK, Expecting, Dismissing

\* What a stage results in goes to the next one.
LEMMA GivesUp ==
    ASSUME IterTypeOK, UnderWay, AtRest, ~Dismissing, NEW i \in 0 .. Outer, NEW r
    PROVE  Give(i, r).at = i + 1 /\ Give(i, r).what = "result" /\ Give(i, r).result = r
BY NobodyAborts, CallIs DEF ReaderOf

\* Stage i comes to rest with a result.
LEMMA RestsWith ==
    ASSUME IterTypeOK, UnderWay, Expecting, NEW i \in 1 .. Outer,
           Resting(i - 1), Pulling(i + 1), ~waiting, first = Nothing,
           NEW w \in Rest, pos' = [pos EXCEPT ![i] = w],
           NEW r \in Results, token' = Give(i, r),
           r = Failed => \E j \in broken' : j <= i,
           broken' \in SUBSET (1 .. Outer),
           UNCHANGED <<plan, consumer, first, waiting>>
    PROVE  UnderWay'
<1>1. Outer' = Outer /\ Consumer' = Consumer /\ Consumer = Outer + 1 /\ Outer \in Nat
  BY SamePlan, PlanHere
<1>2. token'.at = i + 1 /\ token'.what = "result" /\ token'.result = r
  BY GivesUp DEF AtRest, Expecting, Dismissing
<1>3. pos'[i] = w /\ \A j \in 1 .. Outer : j # i => pos'[j] = pos[j]
  BY DEF IterTypeOK
<1>4. \A j \in 1 .. i : pos'[j] \in Rest
  <2>1. \A j \in 1 .. i : (j = i \/ j \in 1 .. i - 1) /\ j \in 1 .. Outer
    BY <1>1
  <2> QED
    BY <2>1, <1>3 DEF Resting
<1>5. \A j \in i + 1 .. Outer : pos'[j] = "pull"
  <2>1. \A j \in i + 1 .. Outer : j # i /\ j \in 1 .. Outer
    BY <1>1
  <2> QED
    BY <2>1, <1>3 DEF Pulling
<1>6. r = Failed => \E j \in broken' : j < i + 1
  <2>1. \A j \in 1 .. Outer : j <= i => j < i + 1
    OBVIOUS
  <2> QED
    BY <2>1
<1>7. i + 1 \in 1 .. Consumer /\ (i + 1) - 1 = i
  BY <1>1
<1>8. ResultGiven'
  BY <1>1, <1>2, <1>4, <1>5, <1>6, <1>7 DEF ResultGiven, Resting, Pulling
<1> QED
  BY <1>8 DEF UnderWay

\* Stage i asks its source for the next result.
LEMMA AsksOn ==
    ASSUME IterTypeOK, Expecting, NEW i \in 1 .. Outer,
           Resting(i - 1), Pulling(i + 1), ~waiting, first = Nothing,
           pos' = [pos EXCEPT ![i] = "pull"], token' = Ask(i - 1, "next"),
           UNCHANGED <<plan, consumer, first, waiting>>
    PROVE  UnderWay'
<1>1. Outer' = Outer /\ Outer \in Nat
  BY SamePlan, PlanHere
<1>2. token'.at = i - 1 /\ token'.what = "next"
  BY CallIs
<1>3. pos'[i] = "pull" /\ \A j \in 1 .. Outer : j # i => pos'[j] = pos[j]
  BY DEF IterTypeOK
<1>4. \A j \in 1 .. i - 1 : pos'[j] \in Rest
  <2>1. \A j \in 1 .. i - 1 : j # i /\ j \in 1 .. Outer
    BY <1>1
  <2> QED
    BY <2>1, <1>3 DEF Resting
<1>5. \A j \in i .. Outer : pos'[j] = "pull"
  <2>1. \A j \in i .. Outer : (j = i \/ j \in i + 1 .. Outer) /\ j \in 1 .. Outer
    BY <1>1
  <2> QED
    BY <2>1, <1>3 DEF Pulling
<1>6. i - 1 \in 0 .. Outer /\ (i - 1) + 1 = i
  BY <1>1
<1>7. NextAsked'
  BY <1>1, <1>2, <1>4, <1>5, <1>6 DEF NextAsked, Resting, Pulling
<1> QED
  BY <1>7 DEF UnderWay

\* Stage i closes its source, on behalf of stage f.
LEMMA ClosesOn ==
    ASSUME IterTypeOK, Expecting, ~waiting, first = Nothing,
           NEW f \in 1 .. Outer, NEW i \in 1 .. f, NEW how \in {Done, Failed},
           CloseSource(i, how), f \in broken',
           Resting(i - 1), Pulling(f + 1),
           \A j \in i + 1 .. f : pos[j] = "closing" /\ held[j] \in {Done, Failed},
           UNCHANGED <<plan, consumer, first, waiting>>
    PROVE  UnderWay'
<1>1. Outer' = Outer /\ Outer \in Nat
  BY SamePlan, PlanHere
<1>2. i \in 1 .. Outer /\ i \in Nat /\ f \in Nat
  BY <1>1
<1>3. /\ pos'[i] = "closing" /\ held'[i] = how
      /\ \A j \in 1 .. Outer : j # i => pos'[j] = pos[j] /\ held'[j] = held[j]
  BY <1>2 DEF IterTypeOK, CloseSource
<1>4. \A j \in i .. f : pos'[j] = "closing" /\ held'[j] \in {Done, Failed}
  <2>1. \A j \in i .. f : (j = i \/ j \in i + 1 .. f) /\ j \in 1 .. Outer
    BY <1>1, <1>2
  <2> QED
    BY <2>1, <1>3
<1>5. \A j \in 1 .. i - 1 : pos'[j] \in Rest
  <2>1. \A j \in 1 .. i - 1 : j # i /\ j \in 1 .. Outer
    BY <1>1, <1>2
  <2> QED
    BY <2>1, <1>3 DEF Resting
<1>6. \A j \in f + 1 .. Outer : pos'[j] = "pull"
  <2>1. \A j \in f + 1 .. Outer : j # i /\ j \in 1 .. Outer
    BY <1>1, <1>2
  <2> QED
    BY <2>1, <1>3 DEF Pulling
<1>7. \/ i > 1 /\ token' = Ask(i - 1, "return")
      \/ token'.what = "result" /\ token'.at = i /\ token'.result \in {Done, Failed}
  <2>1. CASE i - 1 = 0 \/ Abortable(i - 1)
    <3>1. token' = [at |-> i, what |-> "result",
                    result |-> IF i - 1 = 0 /\ plan.propagate THEN Failed ELSE Done]
      BY <2>1 DEF CloseSource
    <3> QED
      BY <3>1
  <2>2. CASE ~(i - 1 = 0 \/ Abortable(i - 1))
    <3>1. token' = Ask(i - 1, "return")
      BY <2>2 DEF CloseSource
    <3> QED
      BY <3>1, <2>2, <1>2
  <2> QED
    BY <2>1, <2>2
<1>8. SourcesClose'
  BY <1>1, <1>4, <1>5, <1>6, <1>7 DEF SourcesClose, Resting, Pulling
<1> QED
  BY <1>8 DEF UnderWay

\* Stage i has closed its source and completes, on behalf of stage f.
LEMMA ClosedOn ==
    ASSUME IterTypeOK, UnderWay, AtRest, Expecting, ~waiting, first = Nothing,
           NEW f \in 1 .. Outer, NEW i \in 1 .. f, i < f, NEW w \in Rest,
           pos' = [pos EXCEPT ![i] = w], NEW r \in {Done, Failed}, token' = Give(i, r),
           f \in broken, Resting(i - 1), Pulling(f + 1),
           \A j \in i + 1 .. f : pos[j] = "closing" /\ held[j] \in {Done, Failed},
           UNCHANGED <<plan, consumer, first, waiting, held, broken>>
    PROVE  UnderWay'
<1>1. Outer' = Outer /\ Outer \in Nat
  BY SamePlan, PlanHere
<1>2. i \in 1 .. Outer /\ i \in Nat /\ f \in Nat /\ i + 1 \in 1 .. f /\ (i + 1) - 1 = i
  BY <1>1
<1>3. pos'[i] = w /\ \A j \in 1 .. Outer : j # i => pos'[j] = pos[j]
  BY <1>2 DEF IterTypeOK
<1>4. \A j \in i + 1 .. f : pos'[j] = "closing" /\ held'[j] \in {Done, Failed}
  <2>1. \A j \in i + 1 .. f : j # i /\ j \in 1 .. Outer
    BY <1>1, <1>2
  <2> QED
    BY <2>1, <1>3
<1>5. \A j \in 1 .. i : pos'[j] \in Rest
  <2>1. \A j \in 1 .. i : (j = i \/ j \in 1 .. i - 1) /\ j \in 1 .. Outer
    BY <1>1, <1>2
  <2> QED
    BY <2>1, <1>3 DEF Resting
<1>6. \A j \in f + 1 .. Outer : pos'[j] = "pull"
  <2>1. \A j \in f + 1 .. Outer : j # i /\ j \in 1 .. Outer
    BY <1>1, <1>2
  <2> QED
    BY <2>1, <1>3 DEF Pulling
<1>7. token'.what = "result" /\ token'.at = i + 1 /\ token'.result \in {Done, Failed}
  BY <1>2, GivesUp DEF Expecting, Dismissing
<1>8. SourcesClose'
  <2>1. \A j \in 1 .. (i + 1) - 1 : pos'[j] \in Rest
    BY <1>2, <1>5
  <2> QED
    BY <1>1, <1>2, <1>4, <2>1, <1>6, <1>7 DEF SourcesClose, Resting, Pulling
<1> QED
  BY <1>8 DEF UnderWay

-----------------------------------------------------------------------------
(* The steps of a stage. *)

Stage(i) ==
    \/ NextOf(i) \/ ThrowOf(i) \/ ReturnOf(i) \/ ValueAt(i) \/ DoneAt(i) \/ ErrorAt(i)
    \/ ClosedAt(i) \/ AbortedAt(i)

LEMMA StageLeaves ==
    ASSUME NEW i \in 1 .. Outer, Stage(i)
    PROVE  UNCHANGED <<plan, flagged, queue, waiting, error, closed, told, taken,
                       first, consumer, got>>
BY DEF Stage, NextOf, ThrowOf, ReturnOf, ValueAt, DoneAt, ErrorAt, ClosedAt, AbortedAt,
       writable, reading

\* A stage acts on what has come to it, and on nothing else.
LEMMA StageActs ==
    ASSUME NEW i \in 1 .. Outer, Stage(i)
    PROVE  /\ token # None /\ token.at = i
           /\ \/ token = Ask(i, "next") /\ NextOf(i)
              \/ token = Ask(i, "throw") /\ ThrowOf(i)
              \/ token = Ask(i, "return") /\ ReturnOf(i)
              \/ /\ token.what = "result" /\ pos[i] = "pull"
                 /\ ValueAt(i) \/ DoneAt(i) \/ ErrorAt(i)
              \/ token.what = "result" /\ pos[i] = "closing" /\ ClosedAt(i)
              \/ token.what = "result" /\ pos[i] = "aborting" /\ AbortedAt(i)
BY CallIs DEF Stage, NextOf, ThrowOf, ReturnOf, ValueAt, DoneAt, ErrorAt, ClosedAt, AbortedAt,
              Result

\* While the consumer waits, the stages act in these ways only.
LEMMA ExpectingActs ==
    ASSUME IterTypeOK, UnderWay, AtRest, Expecting, NEW i \in 1 .. Outer, Stage(i)
    PROVE  \/ NextOf(i) /\ token = Ask(i, "next")
           \/ ReturnOf(i) /\ token = Ask(i, "return")
           \/ /\ token.what = "result" /\ token.at = i /\ pos[i] = "pull"
              /\ ValueAt(i) \/ DoneAt(i) \/ ErrorAt(i)
           \/ token.what = "result" /\ token.at = i /\ pos[i] = "closing" /\ ClosedAt(i)
<1>1. token # Ask(i, "throw")
  <2> SUFFICES ASSUME token = Ask(i, "throw") PROVE FALSE
    OBVIOUS
  <2>1. token.what = "throw"
    BY CallIs
  <2>2. ~SourcesClose
    BY <2>1, CallIs DEF SourcesClose
  <2> QED
    BY <2>1, <2>2, CallIs DEF UnderWay, NextAsked, ResultGiven, Waits
<1>2. pos[i] # "aborting"
  BY NobodyAborts DEF Expecting, Dismissing
<1> QED
  BY <1>1, <1>2, StageActs

LEMMA NextUnderWay ==
    ASSUME IterTypeOK, UnderWay, AtRest, Expecting, NEW i \in 1 .. Outer, NextOf(i)
    PROVE  UnderWay'
<1>1. /\ Resting(i) /\ Pulling(i + 1) /\ ~waiting /\ first = Nothing
      /\ UNCHANGED <<plan, consumer, first, waiting>>
  BY NextIsAsked, StageLeaves DEF NextOf, Stage
<1>2. Resting(i - 1)
  BY <1>1, PlanHere DEF Resting
<1>3. CASE pos[i] = "start" /\ PrependFirst(i)
  <2>1. \E w \in Rest, r \in Results : /\ pos' = [pos EXCEPT ![i] = w] /\ token' = Give(i, r)
                                       /\ broken' = broken \/ broken' = broken \cup {i}
                                       /\ r = Failed => i \in broken'
    <3>1. Value(Prepended) \in Results /\ Failed \in Results /\ Value(Prepended) # Failed
      BY MessageIs, ResultIs DEF Results
    <3> QED
      BY <1>3, <3>1 DEF PrependFirst, Yield, Finish, Rest
  <2>2. PICK w \in Rest, r \in Results : /\ pos' = [pos EXCEPT ![i] = w] /\ token' = Give(i, r)
                                         /\ broken' = broken \/ broken' = broken \cup {i}
                                         /\ r = Failed => i \in broken'
    BY <2>1
  <2>3. broken' \in SUBSET (1 .. Outer)
    BY <2>2 DEF IterTypeOK
  <2>4. r = Failed => \E j \in broken' : j <= i
    BY <2>2
  <2> QED
    BY <1>1, <1>2, <2>2, <2>3, <2>4, RestsWith
<1>4. CASE pos' = [pos EXCEPT ![i] = "pull"] /\ token' = Ask(i - 1, "next")
  BY <1>1, <1>2, <1>4, AsksOn
<1>5. CASE Finish(i, Done) /\ UNCHANGED broken
  <2>1. pos' = [pos EXCEPT ![i] = "done"] /\ token' = Give(i, Done)
    BY <1>5 DEF Finish
  <2>2. Done \in Results /\ Done # Failed /\ "done" \in Rest /\ broken' \in SUBSET (1 .. Outer)
    BY <1>5, ResultIs DEF Results, Rest, IterTypeOK
  <2> QED
    BY <1>1, <1>2, <2>1, <2>2, RestsWith
<1> QED
  BY <1>3, <1>4, <1>5 DEF NextOf

LEMMA ReturnUnderWay ==
    ASSUME IterTypeOK, UnderWay, AtRest, Expecting, NEW i \in 1 .. Outer, ReturnOf(i)
    PROVE  UnderWay'
<1>1. token = Ask(i, "return") /\ UNCHANGED <<plan, consumer, first, waiting, broken>>
  BY StageLeaves DEF ReturnOf, Stage
<1>2. PICK f \in 1 .. Outer : Closes(f, i + 1) /\ ~waiting /\ first = Nothing
  BY <1>1, ReturnIsAsked
<1>3. f \in Nat /\ i \in 1 .. f /\ i < f /\ (i + 1) - 1 = i
  BY <1>2, PlanHere DEF Closes
<1>4. Resting(i) /\ Pulling(f + 1) /\ f \in broken
      /\ \A j \in i + 1 .. f : pos[j] = "closing" /\ held[j] \in {Done, Failed}
  BY <1>2, <1>3 DEF Closes, Resting
<1>5. Resting(i - 1)
  BY <1>4, PlanHere DEF Resting
<1>6. CASE CloseSource(i, Done)
  BY <1>1, <1>2, <1>3, <1>4, <1>5, <1>6, ClosesOn
<1>7. CASE Finish(i, Done) /\ UNCHANGED held
  <2>1. pos' = [pos EXCEPT ![i] = "done"] /\ token' = Give(i, Done) /\ "done" \in Rest
    BY <1>7 DEF Finish, Rest
  <2> QED
    BY <1>1, <1>2, <1>3, <1>4, <1>5, <1>7, <2>1, ClosedOn
<1> QED
  BY <1>6, <1>7 DEF ReturnOf

LEMMA ValueUnderWay ==
    ASSUME IterTypeOK, UnderWay, AtRest, Expecting, NEW i \in 1 .. Outer, ValueAt(i)
    PROVE  UnderWay'
<1>1. /\ token.what = "result" /\ token.at = i /\ pos[i] = "pull"
      /\ token.result.what = "value" /\ UNCHANGED <<plan, consumer, first, waiting>>
  BY StageLeaves DEF ValueAt, Stage, Result
<1>2. i \in 1 .. Consumer
  BY PlanHere
<1>3. /\ token.result \in Results /\ Resting(i - 1) /\ Pulling(i)
      /\ ~waiting /\ first = Nothing
  BY <1>1, <1>2, ResultIsGiven
<1>4. Pulling(i + 1)
  BY <1>3, PlanHere DEF Pulling
<1> DEFINE v == token.result.value
<1>5. CASE token' = Ask(i - 1, "next") /\ UNCHANGED <<pos, held, broken>>
  <2>1. pos' = [pos EXCEPT ![i] = "pull"]
    BY <1>1, <1>5 DEF IterTypeOK
  <2> QED
    BY <1>1, <1>3, <1>4, <1>5, <2>1, AsksOn
<1>6. CASE CloseSource(i, Failed) /\ broken' = broken \cup {i}
  <2>1. i \in 1 .. i /\ i \in broken' /\ \A j \in i + 1 .. i : FALSE
    BY <1>6
  <2> QED
    BY <1>1, <1>3, <1>4, <1>6, <2>1, ClosesOn
<1>7. CASE Yield(i, "yield", v) /\ UNCHANGED broken
  <2>1. pos' = [pos EXCEPT ![i] = "yield"] /\ token' = Give(i, Value(v)) /\ "yield" \in Rest
    BY <1>7 DEF Yield, Rest
  <2>2. Value(v) \in Results /\ Value(v) # Failed /\ broken' \in SUBSET (1 .. Outer)
    BY <1>1, <1>3, <1>7, ResultsAre, ResultIs DEF IterTypeOK
  <2> QED
    BY <1>1, <1>3, <1>4, <2>1, <2>2, RestsWith
<1> QED
  BY <1>5, <1>6, <1>7 DEF ValueAt

LEMMA DoneUnderWay ==
    ASSUME IterTypeOK, UnderWay, AtRest, Expecting, NEW i \in 1 .. Outer, DoneAt(i)
    PROVE  UnderWay'
<1>1. /\ token.what = "result" /\ token.at = i /\ pos[i] = "pull"
      /\ UNCHANGED <<plan, consumer, first, waiting, broken>>
  BY StageLeaves DEF DoneAt, Stage, Result
<1>2. i \in 1 .. Consumer
  BY PlanHere
<1>3. Resting(i - 1) /\ Pulling(i) /\ ~waiting /\ first = Nothing
  BY <1>1, <1>2, ResultIsGiven
<1>4. Pulling(i + 1)
  BY <1>3, PlanHere DEF Pulling
<1>5. \E w \in Rest, r \in Results :
          pos' = [pos EXCEPT ![i] = w] /\ token' = Give(i, r) /\ r # Failed
  <2>1. Value(Appended) \in Results /\ Done \in Results
        /\ Value(Appended) # Failed /\ Done # Failed
    BY MessageIs, ResultIs DEF Results
  <2> QED
    BY <2>1 DEF DoneAt, CatchFinally, AppendLast, Finish, Yield, Rest
<1>6. broken' \in SUBSET (1 .. Outer)
  BY <1>1 DEF IterTypeOK
<1> QED
  BY <1>1, <1>3, <1>4, <1>5, <1>6, RestsWith

LEMMA ErrorUnderWay ==
    ASSUME IterTypeOK, UnderWay, AtRest, Expecting, NEW i \in 1 .. Outer, ErrorAt(i)
    PROVE  UnderWay'
<1>1. /\ token.what = "result" /\ token.at = i /\ pos[i] = "pull"
      /\ token.result.what = "error"
      /\ UNCHANGED <<plan, consumer, first, waiting, broken>>
  BY StageLeaves DEF ErrorAt, Stage, Result
<1>2. i \in 1 .. Consumer
  BY PlanHere
<1>3. /\ token.result \in Results /\ Resting(i - 1) /\ Pulling(i)
      /\ ~waiting /\ first = Nothing
      /\ token.result = Failed => \E j \in broken : j < i
  BY <1>1, <1>2, ResultIsGiven
<1>4. Pulling(i + 1)
  BY <1>3, PlanHere DEF Pulling
<1>5. \E w \in Rest, r \in Results : pos' = [pos EXCEPT ![i] = w] /\ token' = Give(i, r)
  <2>1. Value(Appended) \in Results /\ Done \in Results /\ Failed \in Results
    BY MessageIs DEF Results
  <2> QED
    BY <2>1 DEF ErrorAt, CatchFinally, CatchError, Finish, Yield, Rest
<1>6. broken' \in SUBSET (1 .. Outer)
  BY <1>1 DEF IterTypeOK
<1>7. \E j \in broken' : j <= i
  <2>1. PICK j \in broken : j < i
    BY <1>1, <1>3, ResultsAre
  <2>2. j \in Nat
    BY <1>1, <1>6
  <2> QED
    BY <2>1, <2>2, <1>1
<1> QED
  BY <1>1, <1>3, <1>4, <1>5, <1>6, <1>7, RestsWith

LEMMA ClosedUnderWay ==
    ASSUME IterTypeOK, UnderWay, AtRest, Expecting, NEW i \in 1 .. Outer, ClosedAt(i)
    PROVE  UnderWay'
<1>1. /\ token.what = "result" /\ token.at = i /\ pos[i] = "closing"
      /\ UNCHANGED <<plan, consumer, first, waiting, held, broken>>
  BY StageLeaves DEF ClosedAt, Stage
<1>2. PICK f \in 1 .. Outer : Closes(f, i) /\ ~waiting /\ first = Nothing
  BY <1>1, SourceIsClosed
<1> DEFINE r == IF token.result = Failed THEN Failed ELSE held[i]
<1>3. pos' = [pos EXCEPT ![i] = "done"] /\ token' = Give(i, r) /\ "done" \in Rest
  BY DEF ClosedAt, Finish, Rest
<1>4. i \in i .. f /\ i \in 1 .. f /\ Resting(i - 1) /\ Pulling(f + 1) /\ f \in broken
  BY <1>2, PlanHere DEF Closes
<1>5. r \in {Done, Failed}
  BY <1>2, <1>4 DEF Closes
<1> HIDE DEF r
<1>6. CASE i = f
  <2>1. r \in Results /\ broken' \in SUBSET (1 .. Outer) /\ i \in broken' /\ i <= i
    BY <1>1, <1>4, <1>5, <1>6 DEF Results, IterTypeOK
  <2> QED
    BY <1>1, <1>2, <1>3, <1>4, <1>6, <2>1, RestsWith
<1>7. CASE i # f
  <2>1. i < f /\ \A j \in i + 1 .. f : j \in i .. f
    BY <1>4, <1>7, PlanHere
  <2>2. \A j \in i + 1 .. f : pos[j] = "closing" /\ held[j] \in {Done, Failed}
    BY <1>2, <2>1 DEF Closes
  <2> QED
    BY <1>1, <1>2, <1>3, <1>4, <1>5, <2>1, <2>2, ClosedOn
<1> QED
  BY <1>6, <1>7

\* A step of a stage keeps one call or one result under way.
LEMMA StageUnderWay ==
    ASSUME IterTypeOK, UnderWay, AtRest, NEW i \in 1 .. Outer, Stage(i)
    PROVE  UnderWay'
<1>1. CASE Expecting
  BY <1>1, ExpectingActs, NextUnderWay, ReturnUnderWay, ValueUnderWay, DoneUnderWay,
     ErrorUnderWay, ClosedUnderWay
<1>2. CASE ~Expecting
  BY <1>2, StageLeaves DEF UnderWay, Expecting
<1> QED
  BY <1>1, <1>2

\* Without propagation, only the last pipe acts when the consumer has gone.
LEMMA StageLeaving ==
    ASSUME IterTypeOK, Leaving, NEW i \in 1 .. Outer, Stage(i)
    PROVE  Leaving'
<1>1. UNCHANGED <<plan, error, waiting, consumer>>
  BY StageLeaves
<1>2. Outer' = Outer /\ Consumer' = Consumer /\ Consumer = Outer + 1 /\ Outer \in Nat
  BY <1>1, SamePlan, PlanHere
<1>3. ASSUME Dismissing, ~plan.propagate
      PROVE  /\ Resting(Outer)'
             /\ token'.what = "result" /\ token'.at = Consumer
  <2>1. token # None /\ token.at = i
    BY StageActs
  <2>2. ~(token.at = Consumer)
    BY <2>1, <1>2
  <2>3. Resting(Outer) /\ token \in {Ask(Outer, "throw"), Ask(Outer, "return")}
    BY <1>3, <2>1, <2>2 DEF Leaving
  <2>4. i = Outer /\ token.what # "next" /\ token.what # "result"
    BY <2>1, <2>3, CallIs
  <2>5. ThrowOf(i) \/ ReturnOf(i)
    BY <2>4, StageActs, CallIs
  <2>6. ReaderOf(i) = i + 1
    BY <2>3, <2>4 DEF ReaderOf, Resting, Rest
  <2>7. Kind(i) \notin Loops
    BY <2>4, PlanHere DEF Loops
  <2>8. \E r : Finish(i, r)
    BY <1>3, <2>5, <2>7 DEF ThrowOf, ReturnOf
  <2>9. pos' = [pos EXCEPT ![i] = "done"] /\ token'.what = "result" /\ token'.at = i + 1
    BY <2>6, <2>8, CallIs DEF Finish
  <2>10. \A j \in 1 .. Outer : pos'[j] \in Rest
    BY <2>3, <2>9 DEF Resting, Rest, IterTypeOK
  <2> QED
    BY <2>4, <2>9, <2>10, <1>2 DEF Resting
<1>4. Dismissing' <=> Dismissing
  BY <1>1 DEF Dismissing
<1> QED
  BY <1>1, <1>2, <1>3, <1>4 DEF Leaving

LEMMA StageAtRest ==
    ASSUME AtRest, NEW i \in 1 .. Outer, Stage(i)
    PROVE  AtRest'
BY StageLeaves, StageActs DEF AtRest

\* What a stage changes of itself.
LEMMA StageMoves ==
    ASSUME IterTypeOK, NEW i \in 1 .. Outer, Stage(i)
    PROVE  /\ pos' \in [1 .. Outer -> Position] /\ held' \in [1 .. Outer -> {Nothing, Done, Failed}]
           /\ \A j \in 1 .. Outer : j # i => pos'[j] = pos[j] /\ held'[j] = held[j]
           /\ \/ broken' = broken
              \/ broken' = broken \cup {i} /\ pos[i] \in {"start", "pull"}
                 /\ (pos'[i] = "done" \/ (pos'[i] = "closing" /\ held'[i] = Failed))
           /\ \/ pos'[i] = pos[i] /\ held' = held
              \/ pos[i] # "done" /\ pos[i] # "closing"
              \/ pos'[i] = "done" /\ held' = held
<1>1. CASE NextOf(i)
  BY <1>1 DEF NextOf, PrependFirst, Yield, Finish, IterTypeOK, Position
<1>2. CASE ThrowOf(i)
  BY <1>2 DEF ThrowOf, Finish, IterTypeOK, Position
<1>3. CASE ReturnOf(i)
  BY <1>3 DEF ReturnOf, CloseSource, Finish, IterTypeOK, Position
<1>4. CASE ValueAt(i)
  BY <1>4 DEF ValueAt, CloseSource, Yield, IterTypeOK, Position, Result
<1>5. CASE DoneAt(i)
  BY <1>5 DEF DoneAt, CatchFinally, AppendLast, Finish, Yield, IterTypeOK, Position, Result
<1>6. CASE ErrorAt(i)
  BY <1>6 DEF ErrorAt, CatchFinally, CatchError, Finish, Yield, IterTypeOK, Position, Result
<1>7. CASE ClosedAt(i)
  BY <1>7 DEF ClosedAt, Finish, IterTypeOK, Position
<1>8. CASE AbortedAt(i)
  BY <1>8 DEF AbortedAt, Finish, IterTypeOK, Position
<1> QED
  BY <1>1, <1>2, <1>3, <1>4, <1>5, <1>6, <1>7, <1>8 DEF Stage

LEMMA StageBrokenStay ==
    ASSUME IterTypeOK, BrokenStay, NEW i \in 1 .. Outer, Stage(i)
    PROVE  BrokenStay'
<1> SUFFICES ASSUME NEW f \in broken'
             PROVE  pos'[f] = "done" \/ (pos'[f] = "closing" /\ held'[f] = Failed)
  BY DEF BrokenStay
<1>1. f \in 1 .. Outer
  <2>1. broken' = broken \/ broken' = broken \cup {i}
    BY StageMoves
  <2> QED
    BY <2>1 DEF IterTypeOK
<1>2. CASE f # i
  BY <1>1, <1>2, StageMoves DEF BrokenStay
<1>3. CASE f = i /\ f \in broken
  BY <1>3, StageMoves DEF BrokenStay
<1>4. CASE f = i /\ f \notin broken
  BY <1>4, StageMoves
<1> QED
  BY <1>2, <1>3, <1>4

LEMMA StageTypes ==
    ASSUME IterTypeOK, NEW i \in 1 .. Outer, Stage(i)
    PROVE  IterTypeOK'
<1>1. UNCHANGED <<plan, flagged, queue, waiting, error, closed, told, taken,
                  first, consumer, got>>
  BY StageLeaves
<1>2. Outer' = Outer
  BY <1>1, SamePlan
<1>3. finals' = finals \/ \E r \in {Done, Failed} : finals' = Append(finals, r)
  <2>1. CASE DoneAt(i) \/ ErrorAt(i)
    BY <2>1 DEF DoneAt, ErrorAt, CatchFinally, AppendLast, CatchError
  <2>2. CASE ~(DoneAt(i) \/ ErrorAt(i))
    BY <2>2 DEF Stage, NextOf, ThrowOf, ReturnOf, ValueAt, ClosedAt, AbortedAt
  <2> QED
    BY <2>1, <2>2
<1>4. finals' \in Seq({Done, Failed})
  <2>1. finals \in Seq({Done, Failed})
    BY DEF IterTypeOK
  <2> QED
    BY <2>1, <1>3, AppendIs
<1>5. broken' \in SUBSET (1 .. Outer)
  <2>1. broken' = broken \/ broken' = broken \cup {i}
    BY StageMoves
  <2> QED
    BY <2>1 DEF IterTypeOK
<1>6. pos' \in [1 .. Outer -> Position] /\ held' \in [1 .. Outer -> {Nothing, Done, Failed}]
  BY StageMoves
<1> QED
  BY <1>1, <1>2, <1>4, <1>5, <1>6 DEF IterTypeOK, Closing, Message

-----------------------------------------------------------------------------
(* The steps of the writable iterable. *)

LEMMA PayloadIs ==
    ASSUME NEW k \in 1 .. Closing
    PROVE  /\ PayloadOf(k) \in Results /\ PayloadOf(k) # Failed
           /\ k \in Message => PayloadOf(k) = Value(k)
           /\ k = Closing => PayloadOf(k) = Done
<1>1. k = Closing \/ k \in Message
  BY MessageIs
<1> QED
  BY <1>1, MessageIs, ResultIs DEF PayloadOf, Results

\* The writable iterable gives the reader that asks, or waits, what was written.
LEMMA GivenUnderWay ==
    ASSUME IterTypeOK, UnderWay, AtRest, Expecting, Pulling(1), first = Nothing,
           NEW k \in 1 .. Closing, token' = Give(0, PayloadOf(k)), waiting' = FALSE,
           UNCHANGED <<plan, pos, broken, first, consumer>>
    PROVE  UnderWay'
<1>1. token'.at = 1 /\ token'.what = "result" /\ token'.result = PayloadOf(k)
  <2>1. 0 \in 0 .. Outer /\ 0 + 1 = 1
    BY PlanHere
  <2> QED
    BY <2>1, GivesUp DEF Expecting, Dismissing
<1>2. token'.result \in Results /\ token'.result # Failed
  BY <1>1, PayloadIs
<1>3. Outer' = Outer /\ Consumer' = Consumer /\ 1 \in 1 .. Consumer
  BY SamePlan, PlanHere
<1>4. \A j \in 1 .. 1 - 1 : FALSE
  OBVIOUS
<1>5. ResultGiven'
  BY <1>1, <1>2, <1>3, <1>4 DEF ResultGiven, Resting, Pulling
<1> QED
  BY <1>5 DEF UnderWay

\* What the writable iterable does to its variables, and the chain to it.
WritableSteps == (\E k \in Message : Write(k)) \/ Close \/ NextOfWritable \/ ThrowOfWritable

LEMMA WritableLeaves ==
    ASSUME WritableSteps
    PROVE  UNCHANGED <<plan, flagged, pos, held, broken, finals, first, consumer, got>>
BY DEF WritableSteps, Write, Close, NextOfWritable, ThrowOfWritable, chain, reading

LEMMA SameUnderWay ==
    ASSUME UnderWay, UNCHANGED <<plan, pos, held, broken, first, consumer, token, waiting>>
    PROVE  UnderWay'
BY DEF UnderWay, Expecting, NextAsked, ResultGiven, SourcesClose, Waits, Resting, Pulling,
       Outer, Consumer

LEMMA ProcessUnderWay ==
    ASSUME IterTypeOK, UnderWay, AtRest, Leaving, NEW k \in 1 .. Closing, Process(k),
           UNCHANGED <<plan, pos, held, broken, first, consumer, error>>
    PROVE  UnderWay' /\ AtRest' /\ Leaving'
<1>1. CASE UNCHANGED <<token, waiting>>
  <2>1. UnderWay'
    BY <1>1, SameUnderWay
  <2>2. AtRest' /\ Leaving'
    BY <1>1 DEF AtRest, Leaving, Resting, Outer, Consumer, Dismissing
  <2> QED
    BY <2>1, <2>2
<1>2. CASE waiting /\ waiting' = FALSE /\ token' = Give(0, PayloadOf(k))
  <2>1. CASE Expecting
    <3>1. Waits /\ first = Nothing
      BY <1>2, <2>1 DEF UnderWay
    <3>2. UnderWay'
      BY <1>2, <2>1, <3>1, GivenUnderWay DEF Waits
    <3> QED
      BY <2>1, <3>2 DEF AtRest, Leaving, Expecting, Dismissing
  <2>2. CASE ~Expecting
    BY <1>2, <2>2 DEF UnderWay, AtRest, Leaving, Expecting, Dismissing, IterTypeOK
  <2> QED
    BY <2>1, <2>2
<1> QED
  BY <1>1, <1>2 DEF Process, IterTypeOK

LEMMA NextOfWritableUnderWay ==
    ASSUME IterTypeOK, UnderWay, AtRest, Leaving, NextOfWritable
    PROVE  UnderWay' /\ AtRest' /\ Leaving'
<1>1. token = Ask(0, "next") /\ token.what = "next" /\ token.at = 0 /\ token # None
      /\ UNCHANGED <<plan, pos, held, broken, first, consumer, error>>
  <2>1. token = Ask(0, "next") /\ error' = error
    BY DEF NextOfWritable
  <2>2. token.what = "next" /\ token.at = 0 /\ token # None
    BY <2>1, CallIs
  <2> QED
    BY <2>1, <2>2, WritableLeaves DEF WritableSteps
<1>2. CASE Expecting
  <2>1. Pulling(0 + 1) /\ first = Nothing /\ ~waiting /\ ~error
    BY <1>1, <1>2, NextIsAsked DEF Leaving, Expecting, Dismissing
  <2>2. Pulling(1)
    <3>1. 0 + 1 = 1
      OBVIOUS
    <3> QED
      BY <2>1, <3>1
  <2>3. CASE queue = <<>>
    <3>1. waiting' = TRUE /\ token' = None
      BY <2>1, <2>3 DEF NextOfWritable
    <3>2. Waits'
      BY <3>1, <2>2, <1>1 DEF Waits, Pulling, Outer
    <3> QED
      BY <1>1, <1>2, <2>1, <3>2 DEF UnderWay, AtRest, Leaving, Expecting, Dismissing
  <2>4. CASE queue # <<>>
    <3>1. queue[1] \in 1 .. Closing
      BY <2>4, TailIs DEF IterTypeOK
    <3>2. token' = Give(0, PayloadOf(queue[1])) /\ waiting' = FALSE
      BY <2>1, <2>4 DEF NextOfWritable, IterTypeOK
    <3>3. UnderWay'
      BY <1>1, <1>2, <2>1, <2>2, <3>1, <3>2, GivenUnderWay
    <3> QED
      BY <1>1, <1>2, <3>3 DEF AtRest, Leaving, Expecting, Dismissing
  <2> QED
    BY <2>3, <2>4
<1>3. CASE ~Expecting
  <2>1. Dismissing
    BY <1>1, <1>3 DEF AtRest, Expecting, Dismissing, IterTypeOK
  <2>2. plan.propagate
    <3> SUFFICES ASSUME ~plan.propagate PROVE FALSE
      OBVIOUS
    <3> QED
      BY <2>1, <1>1, CallIs DEF Leaving
  <2> QED
    BY <1>1, <2>1, <2>2 DEF UnderWay, AtRest, Leaving, Expecting, Dismissing
<1> QED
  BY <1>2, <1>3

\* throw() comes to the writable iterable only when the consumer has failed, and
\* the chain propagates that.
LEMMA ThrowIsDismissal ==
    ASSUME IterTypeOK, UnderWay, AtRest, Leaving, token = Ask(0, "throw")
    PROVE  Dismissing /\ plan.propagate
<1>1. token.what = "throw" /\ token.at = 0 /\ token # None
  BY CallIs
<1>2. ~SourcesClose
  BY <1>1, CallIs DEF SourcesClose
<1>3. ~Expecting
  BY <1>1, <1>2, CallIs DEF UnderWay, NextAsked, ResultGiven, Waits
<1>4. Dismissing
  BY <1>1, <1>3 DEF AtRest, Expecting, Dismissing, IterTypeOK
<1>5. token # Ask(Outer, "throw") /\ token # Ask(Outer, "return")
  BY <1>1, CallIs, PlanHere
<1> QED
  BY <1>1, <1>4, <1>5 DEF Leaving

LEMMA ThrowOfWritableUnderWay ==
    ASSUME IterTypeOK, UnderWay, AtRest, Leaving, ThrowOfWritable
    PROVE  UnderWay' /\ AtRest' /\ Leaving'
<1>1. Dismissing /\ plan.propagate
  BY ThrowIsDismissal DEF ThrowOfWritable
<1>2. UNCHANGED <<plan, consumer>>
  BY WritableLeaves DEF WritableSteps
<1> QED
  BY <1>1, <1>2 DEF UnderWay, AtRest, Leaving, Expecting, Dismissing

LEMMA WritableShape ==
    ASSUME IterTypeOK, Writes, Shape, WritableSteps
    PROVE  Shape'
<1>1. BrokenStay'
  BY WritableLeaves DEF Shape, BrokenStay
<1>2. ASSUME NEW k \in Message, Write(k) PROVE UnderWay' /\ AtRest' /\ Leaving'
  BY <1>2, WriteEnters, ProcessUnderWay, MessageIs DEF Shape
<1>3. CASE Close
  BY <1>1, <1>3, CloseEnters, ProcessUnderWay, MessageIs DEF Shape
<1>4. CASE NextOfWritable
  BY <1>1, <1>4, NextOfWritableUnderWay DEF Shape
<1>5. CASE ThrowOfWritable
  BY <1>1, <1>5, ThrowOfWritableUnderWay DEF Shape
<1> QED
  BY <1>1, <1>2, <1>3, <1>4, <1>5 DEF Shape, WritableSteps

LEMMA ProcessTypes ==
    ASSUME IterTypeOK, NEW k \in 1 .. Closing, Process(k)
    PROVE  /\ queue' \in Seq(1 .. Closing) /\ taken' \in Seq(1 .. Closing) /\ waiting' \in BOOLEAN
           /\ told' \in [1 .. Closing -> {"none", "pending", "resolved", "rejected"}]
<1>1. /\ queue \in Seq(1 .. Closing) /\ taken \in Seq(1 .. Closing) /\ waiting \in BOOLEAN
      /\ told \in [1 .. Closing -> {"none", "pending", "resolved", "rejected"}]
  BY DEF IterTypeOK
<1>2. Append(queue, k) \in Seq(1 .. Closing) /\ Append(taken, k) \in Seq(1 .. Closing)
  BY <1>1, AppendIs
<1>3. \A w \in {"none", "pending", "resolved", "rejected"} :
          [told EXCEPT ![k] = w] \in [1 .. Closing -> {"none", "pending", "resolved", "rejected"}]
  BY <1>1
<1> QED
  BY <1>1, <1>2, <1>3 DEF Process

LEMMA WritableTypesStay ==
    ASSUME IterTypeOK, WritableSteps
    PROVE  IterTypeOK'
<1>1. UNCHANGED <<plan, flagged, pos, held, broken, finals, first, consumer, got>>
  BY WritableLeaves
<1>2. /\ queue' \in Seq(1 .. Closing) /\ taken' \in Seq(1 .. Closing)
      /\ waiting' \in BOOLEAN /\ error' \in BOOLEAN /\ closed' \in BOOLEAN
      /\ told' \in [1 .. Closing -> {"none", "pending", "resolved", "rejected"}]
  <2>1. ASSUME NEW k \in Message, Write(k)
        PROVE  Process(k) /\ k \in 1 .. Closing /\ UNCHANGED <<error, closed>>
    BY <2>1, MessageIs DEF Write
  <2>2. ASSUME Close
        PROVE  Process(Closing) /\ Closing \in 1 .. Closing /\ error' = error /\ closed' = TRUE
    BY <2>2, MessageIs DEF Close
  <2>3. CASE NextOfWritable
    <3>1. CASE UNCHANGED <<queue, told, taken>>
      BY <2>3, <3>1 DEF NextOfWritable, IterTypeOK
    <3>2. CASE queue # <<>> /\ queue' = Tail(queue) /\ waiting' = waiting
               /\ told' = [told EXCEPT ![queue[1]] = "resolved"]
               /\ taken' = Append(taken, queue[1])
      <4>1. queue[1] \in 1 .. Closing /\ queue' \in Seq(1 .. Closing)
        BY <3>2, TailIs DEF IterTypeOK
      <4>2. taken' \in Seq(1 .. Closing)
        BY <3>2, <4>1, AppendIs DEF IterTypeOK
      <4>3. told' \in [1 .. Closing -> {"none", "pending", "resolved", "rejected"}]
        BY <3>2, <4>1 DEF IterTypeOK
      <4> QED
        BY <2>3, <3>2, <4>1, <4>2, <4>3 DEF NextOfWritable, IterTypeOK
    <3> QED
      BY <2>3, <3>1, <3>2 DEF NextOfWritable
  <2>4. CASE ThrowOfWritable
    <3>1. queue' = <<>> /\ told' = Drained(told, queue) /\ error' = TRUE
          /\ UNCHANGED <<waiting, closed, taken>>
      BY <2>4 DEF ThrowOfWritable
    <3>2. Drained(told, queue) \in [1 .. Closing -> {"none", "pending", "resolved", "rejected"}]
      BY DEF Drained, IterTypeOK
    <3> QED
      BY <3>1, <3>2, EmptyIs DEF IterTypeOK
  <2> QED
    BY <2>1, <2>2, <2>3, <2>4, ProcessTypes DEF WritableSteps, IterTypeOK
<1> QED
  BY <1>1, <1>2 DEF IterTypeOK, Closing, Message, Outer

LEMMA WritableWrites ==
    ASSUME IterTypeOK, Writes, WritableSteps
    PROVE  Writes'
<1>1. ASSUME NEW k \in Message, Write(k) PROVE Writes'
  BY <1>1, WriteEnters, ProcessWrites
<1>2. CASE Close
  BY <1>2, CloseEnters, ProcessWrites
<1>3. CASE ThrowOfWritable
  BY <1>3, DrainWrites DEF ThrowOfWritable
<1> QED
  BY <1>1, <1>2, <1>3, NextOfWritableWrites DEF WritableSteps

-----------------------------------------------------------------------------
(* The steps of the consumer. *)

ConsumerSteps ==
    \/ FirstArrives \/ ConsumerNext \/ ResultArrives
    \/ ConsumerThrow \/ ConsumerLeave \/ Dismissed

LEMMA ConsumerLeaves ==
    ASSUME ConsumerSteps
    PROVE  UNCHANGED <<plan, flagged, queue, waiting, error, closed, told, taken,
                       pos, held, broken, finals>>
BY DEF ConsumerSteps, FirstArrives, ConsumerNext, ResultArrives, ConsumerThrow, ConsumerLeave,
       Dismissed, writable, chain

LEMMA ArrivedIs ==
    ASSUME IterTypeOK, UnderWay, Expecting, Arrived
    PROVE  /\ token.result \in Results /\ Resting(Outer) /\ ~waiting /\ first = Nothing
           /\ token.result = Failed => broken # {}
<1>1. Consumer \in 1 .. Consumer /\ Consumer - 1 = Outer
  BY PlanHere
<1>2. /\ token.result \in Results /\ Resting(Consumer - 1) /\ ~waiting /\ first = Nothing
      /\ token.result = Failed => \E j \in broken : j < Consumer
  BY <1>1, ResultIsGiven DEF Arrived
<1> QED
  BY <1>1, <1>2

LEMMA ReceiveIs ==
    ASSUME NEW r \in Results, Receive(r)
    PROVE  \/ \E v \in Values : r = Value(v) /\ consumer' = "idle" /\ got' = Append(got, v)
           \/ r = Done /\ consumer' = "ended" /\ got' = got
           \/ r = Failed /\ consumer' = "failed" /\ got' = got
<1>1. CASE r = Done
  BY <1>1, ResultIs DEF Receive
<1>2. CASE r = Failed
  BY <1>2, ResultIs DEF Receive
<1>3. ASSUME NEW v \in Values, r = Value(v)
      PROVE  consumer' = "idle" /\ got' = Append(got, v)
  <2>1. r.what = "value" /\ r.value = v
    BY <1>3, ResultIs
  <2> QED
    BY <2>1 DEF Receive
<1> QED
  BY <1>1, <1>2, <1>3 DEF Results

\* A result comes to the consumer, from the chain or from where it was pushed back.
Receives(r) ==
    /\ r \in Results /\ OnWay(r, Consumer) /\ Receive(r)
    /\ Active /\ Resting(Outer) /\ ~waiting
    /\ first' = Nothing /\ token' = None
    /\ \A s \in Results, k \in 1 .. Consumer : OnWay(s, k) => s = r

\* What the consumer does, by what becomes of the result on the way.
LEMMA ConsumerActs ==
    ASSUME IterTypeOK, Shape, ConsumerSteps
    PROVE  \/ /\ consumer = "opening" /\ Arrived /\ token' = None
              /\ UNCHANGED got
              /\ \/ consumer' = "failed" /\ UNCHANGED first
                 \/ consumer' = "idle" /\ first' = token.result
           \/ \E r : Receives(r)
           \/ /\ consumer = "idle" /\ token = None /\ first = Nothing /\ UNCHANGED <<first, got>>
              /\ consumer' = "waiting" /\ token' = Ask(Outer, "next")
           \/ /\ consumer = "idle" /\ UNCHANGED <<first, got>>
              /\ \/ consumer' = "threw" /\ token' = Ask(Outer, "throw")
                 \/ consumer' = "left" /\ token' = Ask(Outer, "return")
           \/ /\ Dismissing /\ token' = None /\ UNCHANGED <<consumer, first, got>>
<1>1. CASE FirstArrives
  BY <1>1 DEF FirstArrives
<1>2. CASE ConsumerNext
  <2>1. CASE first # Nothing
    <3>1. first \in Results /\ Receive(first) /\ first' = Nothing /\ token = None /\ token' = None
      BY <1>2, <2>1 DEF ConsumerNext, IterTypeOK
    <3>2. OnWay(first, Consumer) /\ consumer = "idle" /\ Active /\ Resting(Outer) /\ ~waiting
      BY <1>2 DEF ConsumerNext, OnWay, Active, Shape, AtRest
    <3>3. \A s \in Results, k \in 1 .. Consumer : OnWay(s, k) => s = first
      BY <3>2 DEF OnWay, Expecting
    <3> QED
      BY <3>1, <3>2, <3>3 DEF Receives
  <2>2. CASE first = Nothing
    BY <1>2, <2>2 DEF ConsumerNext
  <2> QED
    BY <2>1, <2>2
<1>3. CASE ResultArrives
  <2> DEFINE r == token.result
  <2>1. consumer = "waiting" /\ Arrived /\ token' = None /\ Receive(r) /\ UNCHANGED first
    BY <1>3 DEF ResultArrives
  <2>2. r \in Results /\ Resting(Outer) /\ ~waiting /\ first = Nothing
    BY <2>1, ArrivedIs DEF Expecting, Shape
  <2>3. OnWay(r, Consumer)
    BY <2>1 DEF OnWay, Expecting, Arrived
  <2>4. \A s \in Results, k \in 1 .. Consumer : OnWay(s, k) => s = r
    BY <2>2, ResultsAre DEF OnWay
  <2>5. Receives(r)
    BY <2>1, <2>2, <2>3, <2>4 DEF Receives, Active
  <2> QED
    BY <2>5
<1>4. CASE ConsumerThrow
  BY <1>4 DEF ConsumerThrow
<1>5. CASE ConsumerLeave
  BY <1>5 DEF ConsumerLeave
<1>6. CASE Dismissed
  BY <1>6 DEF Dismissed, Dismissing, reading
<1> QED
  BY <1>1, <1>2, <1>3, <1>4, <1>5, <1>6 DEF ConsumerSteps

LEMMA ConsumerShape ==
    ASSUME IterTypeOK, Shape, ConsumerSteps
    PROVE  Shape'
<1>1. UNCHANGED <<plan, waiting, error, pos, held, broken>> /\ Outer' = Outer /\ Consumer' = Consumer
  BY ConsumerLeaves, SamePlan
<1>2. BrokenStay'
  BY <1>1 DEF Shape, BrokenStay
<1>3. CASE /\ consumer = "opening" /\ Arrived /\ token' = None
           /\ \/ consumer' = "failed" /\ UNCHANGED first
              \/ consumer' = "idle" /\ first' = token.result
  <2>1. Resting(Outer) /\ ~waiting /\ first = Nothing /\ ~error
    BY <1>3, ArrivedIs DEF Shape, Expecting, Leaving, Dismissing
  <2> QED
    BY <1>1, <1>2, <1>3, <2>1
       DEF Shape, UnderWay, AtRest, Leaving, Expecting, Dismissing, Resting
<1>4. ASSUME NEW r, Receives(r) PROVE Shape'
  <2>1. Resting(Outer) /\ ~waiting /\ first' = Nothing /\ token' = None
        /\ consumer' \in {"idle", "ended", "failed"} /\ ~error
    BY <1>4, ReceiveIs DEF Receives, Shape, Leaving, Active, Dismissing
  <2> QED
    BY <1>1, <1>2, <2>1 DEF Shape, UnderWay, AtRest, Leaving, Expecting, Dismissing, Resting
<1>5. CASE /\ consumer = "idle" /\ token = None /\ first = Nothing /\ UNCHANGED first
           /\ consumer' = "waiting" /\ token' = Ask(Outer, "next")
  <2>1. Resting(Outer) /\ ~waiting /\ ~error
    BY <1>5 DEF Shape, AtRest, Leaving, Dismissing
  <2>2. token'.what = "next" /\ token'.at = Outer /\ Outer \in 0 .. Outer
        /\ \A j \in Outer + 1 .. Outer : FALSE
    BY <1>5, CallIs, PlanHere
  <2>3. NextAsked'
    BY <1>1, <2>1, <2>2 DEF NextAsked, Resting, Pulling
  <2> QED
    BY <1>1, <1>2, <1>5, <2>1, <2>3 DEF Shape, UnderWay, AtRest, Leaving, Expecting, Dismissing
<1>6. CASE /\ consumer = "idle"
           /\ \/ consumer' = "threw" /\ token' = Ask(Outer, "throw")
              \/ consumer' = "left" /\ token' = Ask(Outer, "return")
  <2>1. Resting(Outer) /\ ~waiting
    BY <1>6 DEF Shape, AtRest
  <2> QED
    BY <1>1, <1>2, <1>6, <2>1
       DEF Shape, UnderWay, AtRest, Leaving, Expecting, Dismissing, Resting
<1>7. CASE Dismissing /\ token' = None /\ UNCHANGED consumer
  BY <1>1, <1>2, <1>7 DEF Shape, UnderWay, AtRest, Leaving, Expecting, Dismissing, Resting
<1> QED
  BY <1>3, <1>4, <1>5, <1>6, <1>7, ConsumerActs

LEMMA ConsumerTypes ==
    ASSUME IterTypeOK, Shape, ConsumerSteps
    PROVE  IterTypeOK'
<1>1. UNCHANGED <<plan, flagged, queue, waiting, error, closed, told, taken,
                  pos, held, broken, finals>>
  BY ConsumerLeaves
<1>2. /\ first' \in Results \cup {Nothing}
      /\ consumer' \in {"opening", "idle", "waiting", "ended", "failed", "threw", "left"}
      /\ got' \in Seq(Values)
  <2>1. got \in Seq(Values) /\ first \in Results \cup {Nothing}
        /\ consumer \in {"opening", "idle", "waiting", "ended", "failed", "threw", "left"}
    BY DEF IterTypeOK
  <2>2. CASE /\ consumer = "opening" /\ Arrived /\ UNCHANGED got
             /\ \/ consumer' = "failed" /\ UNCHANGED first
                \/ consumer' = "idle" /\ first' = token.result
    BY <2>1, <2>2, ArrivedIs DEF Shape, Expecting
  <2>3. ASSUME NEW r, Receives(r)
        PROVE  first' = Nothing /\ got' \in Seq(Values) /\ consumer' \in {"idle", "ended", "failed"}
    <3>1. r \in Results /\ Receive(r) /\ first' = Nothing
      BY <2>3 DEF Receives
    <3>2. CASE got' = got
      BY <3>1, <3>2, <2>1, ReceiveIs
    <3>3. ASSUME NEW v \in Values, got' = Append(got, v) PROVE got' \in Seq(Values)
      BY <3>3, <2>1, AppendIs
    <3> QED
      BY <3>1, <3>2, <3>3, ReceiveIs
  <2> QED
    BY <2>1, <2>2, <2>3, ConsumerActs
<1> QED
  BY <1>1, <1>2 DEF IterTypeOK, Outer, Closing, Message

-----------------------------------------------------------------------------
(* What is read, seen, and on its way. *)

LEMMA OnWayThere ==
    ASSUME Expecting, first = Nothing, NEW r, r # Nothing, NEW k
    PROVE  OnWay(r, k) <=> token.what = "result" /\ token.at = k /\ token.result = r
BY DEF OnWay

LEMMA OnWayThen ==
    ASSUME Expecting, UNCHANGED consumer, first' = Nothing, NEW r, r # Nothing, NEW k
    PROVE  OnWay(r, k)' <=> token'.what = "result" /\ token'.at = k /\ token'.result = r
BY DEF OnWay, Expecting

\* Before a stage acts on a result, that result is on its way, and no other.
LEMMA GivenOnWay ==
    ASSUME IterTypeOK, UnderWay, Expecting, NEW i \in 1 .. Outer,
           token.what = "result", token.at = i, pos[i] = "pull"
    PROVE  /\ token.result \in Results /\ OnWay(token.result, i)
           /\ \A r \in Results, k \in 1 .. Consumer : OnWay(r, k) <=> k = i /\ r = token.result
           /\ first = Nothing /\ Resting(i - 1) /\ Pulling(i) /\ Pulling(i + 1)
           /\ token.result = Failed => \E j \in broken : j < i
<1>1. i \in 1 .. Consumer
  BY PlanHere
<1>2. /\ token.result \in Results /\ first = Nothing /\ Resting(i - 1) /\ Pulling(i)
      /\ token.result = Failed => \E j \in broken : j < i
  BY <1>1, ResultIsGiven
<1>3. \A r \in Results, k \in 1 .. Consumer : OnWay(r, k) <=> k = i /\ r = token.result
  BY <1>2, OnWayThere, ResultsAre
<1>4. Pulling(i + 1)
  BY <1>2, PlanHere DEF Pulling
<1> QED
  BY <1>1, <1>2, <1>3, <1>4

\* Nothing is on its way while a call is.
LEMMA NothingOnWay ==
    ASSUME Expecting, first = Nothing, token.what # "result"
    PROVE  \A r \in Results : \A k : ~OnWay(r, k)
BY ResultsAre DEF OnWay

LEMMA NothingThen ==
    ASSUME Expecting, UNCHANGED consumer, first' = Nothing, token'.what # "result"
    PROVE  \A r \in Results : \A k : ~OnWay(r, k)'
BY ResultsAre DEF OnWay

LEMMA MessagesAreValues == \A v \in Message : Value(v) \in Results
BY MessageIs DEF Results

LEMMA DoneIsResult == Done \in Results /\ Failed \in Results
BY DEF Results

LEMMA WantedIs ==
    ASSUME IterTypeOK, NEW v \in Message
    PROVE  /\ (\A p \in 1 .. Outer : Kind(p) = "parseSkipping" => v \notin flagged) => v \in Wanted
           /\ (\E p \in 1 .. Outer : Kind(p) = "parseSkipping" /\ v \in flagged) => v \notin Wanted
<1>1. Contains(plan.stages, "parseSkipping") <=> \E p \in 1 .. Outer : Kind(p) = "parseSkipping"
  BY ContainsIs DEF Outer, Kind
<1> QED
  BY <1>1 DEF Wanted

LEMMA WantedStays ==
    ASSUME UNCHANGED <<plan, flagged>>
    PROVE  Wanted' = Wanted
BY DEF Wanted

LEMMA WantedMessages == Wanted \subseteq Message
BY DEF Wanted

LEMMA AllSeenStays ==
    ASSUME UNCHANGED got PROVE AllSeen' = AllSeen
BY DEF AllSeen, Seen

NoMessage == \A v \in Message, i \in 1 .. Consumer : ~OnWay(Value(v), i)
AllTaken == {k \in Wanted : Contains(taken, k)}

\* No message is on its way: what was read is seen.
LEMMA ContentQuiet ==
    ASSUME UNCHANGED <<plan, flagged, taken, got>>, NoMessage',
           broken' = {} => AllSeen = AllTaken,
           broken' = {} /\ ((\E i \in 1 .. Consumer : OnWay(Done, i)') \/ (\E i \in 1 .. Outer : pos'[i] \in Ended))
               => Contains(taken, Closing)
    PROVE  Content'
<1>1. AllSeen' = AllSeen /\ Wanted' = Wanted /\ Outer' = Outer /\ Consumer' = Consumer
  BY AllSeenStays, WantedStays, SamePlan
<1> QED
  BY <1>1 DEF Content, NoMessage, AllTaken

\* The chain is where it was, and so is what is on its way.
LEMMA ContentStays ==
    ASSUME Content, UNCHANGED <<plan, flagged, taken, got, token, first, consumer, pos, broken>>
    PROVE  Content'
BY DEF Content, OnWay, Expecting, Active, AllSeen, Seen, Wanted, Outer, Consumer, Kind

LEMMA ContentQuietNow ==
    ASSUME Content, Active, broken = {}, NoMessage
    PROVE  AllSeen = AllTaken
BY DEF Content, NoMessage, AllTaken

LEMMA NextContent ==
    ASSUME IterTypeOK, UnderWay, AtRest, Content, Expecting, NEW i \in 1 .. Outer, NextOf(i)
    PROVE  Content'
<1>1. /\ token.what = "next" /\ first = Nothing /\ Active
      /\ UNCHANGED <<plan, flagged, taken, got, consumer, first>>
  BY NextIsAsked, StageLeaves, CallIs DEF NextOf, Stage, Active, Expecting
<1>2. \A r \in Results : \A k : ~OnWay(r, k)
  BY <1>1, NothingOnWay
<1>3. NoMessage
  BY <1>2, MessagesAreValues DEF NoMessage
<1>4. broken = {} => AllSeen = AllTaken
  BY <1>1, <1>3, ContentQuietNow
<1>5. broken = {} /\ (\E k \in 1 .. Outer : pos[k] \in Ended) => Contains(taken, Closing)
  BY <1>1 DEF Content
<1>6. CASE pos[i] = "start" /\ PrependFirst(i)
  <2>1. \A k \in 1 .. Outer : k # i => pos'[k] = pos[k]
    BY <1>6, StageMoves DEF Stage
  <2>2. CASE Yield(i, "before", Prepended) /\ broken' = broken
    <3>1. token'.what = "result" /\ token'.result = Value(Prepended) /\ pos'[i] = "before"
      BY <2>2, CallIs DEF Yield, IterTypeOK
    <3>2. NoMessage'
      BY <3>1, <1>1, OnWayThen, ResultIs, MessageIs DEF NoMessage
    <3>3. \A k \in 1 .. Consumer : ~OnWay(Done, k)'
      BY <3>1, <1>1, OnWayThen, ResultIs
    <3> QED
      BY <1>1, <1>4, <1>5, <2>1, <2>2, <3>1, <3>2, <3>3, ContentQuiet DEF Ended
  <2>3. CASE Finish(i, Failed) /\ broken' = broken \cup {i}
    <3>1. token'.what = "result" /\ token'.result = Failed
      BY <2>3, CallIs DEF Finish
    <3>2. NoMessage'
      BY <3>1, <1>1, OnWayThen, ResultIs DEF NoMessage
    <3>3. broken' # {}
      BY <2>3
    <3> QED
      BY <1>1, <3>2, <3>3, ContentQuiet
  <2> QED
    BY <1>6, <2>2, <2>3 DEF PrependFirst
<1>7. CASE pos' = [pos EXCEPT ![i] = "pull"] /\ token' = Ask(i - 1, "next") /\ UNCHANGED broken
  <2>1. token'.what # "result" /\ pos'[i] = "pull" /\ \A k \in 1 .. Outer : k # i => pos'[k] = pos[k]
    BY <1>7, CallIs DEF IterTypeOK
  <2>2. \A r \in Results : \A k : ~OnWay(r, k)'
    BY <2>1, <1>1, NothingThen
  <2>3. NoMessage' /\ \A k : ~OnWay(Done, k)'
    BY <2>2, MessagesAreValues, DoneIsResult DEF NoMessage
  <2> QED
    BY <1>1, <1>4, <1>5, <1>7, <2>1, <2>3, ContentQuiet DEF Ended
<1>8. CASE pos[i] \in Ended /\ Finish(i, Done) /\ UNCHANGED broken
  <2>1. token'.what = "result" /\ token'.result = Done
    BY <1>8, CallIs DEF Finish
  <2>2. NoMessage'
    BY <2>1, <1>1, OnWayThen, ResultIs DEF NoMessage
  <2> QED
    BY <1>1, <1>4, <1>5, <1>8, <2>2, ContentQuiet
<1> QED
  BY <1>6, <1>7, <1>8 DEF NextOf, Ended

\* A stage closes its source only when one has failed.
LEMMA CloseContent ==
    ASSUME IterTypeOK, UnderWay, AtRest, Content, Expecting, NEW i \in 1 .. Outer,
           ReturnOf(i) \/ (token.what = "result" /\ token.at = i /\ pos[i] = "closing" /\ ClosedAt(i))
    PROVE  Content'
<1>1. UNCHANGED <<plan, flagged, taken, got, consumer, first, broken>>
  BY StageLeaves DEF Stage, ReturnOf, ClosedAt
<1>2. first = Nothing /\ \E f \in 1 .. Outer : f \in broken
  BY ReturnIsAsked, SourceIsClosed DEF ReturnOf, Closes
<1>3. token'.what # "result" \/ token'.result \in {Done, Failed}
  <2>1. CASE ReturnOf(i)
    BY <2>1, CallIs DEF ReturnOf, CloseSource, Finish
  <2>2. CASE token.what = "result" /\ token.at = i /\ pos[i] = "closing" /\ ClosedAt(i)
    <3>1. PICK f \in 1 .. Outer : Closes(f, i)
      BY <2>2, SourceIsClosed
    <3>2. i \in i .. f
      BY <3>1, PlanHere DEF Closes
    <3>3. held[i] \in {Done, Failed}
      BY <3>1, <3>2 DEF Closes
    <3> QED
      BY <2>2, <3>3, CallIs DEF ClosedAt, Finish
  <2> QED
    BY <2>1, <2>2
<1>4. NoMessage'
  BY <1>1, <1>2, <1>3, OnWayThen, ResultIs DEF NoMessage
<1> QED
  BY <1>1, <1>2, <1>4, ContentQuiet

LEMMA ValueContent ==
    ASSUME IterTypeOK, Writes, UnderWay, AtRest, Content, Expecting, NEW i \in 1 .. Outer,
           token.what = "result", token.at = i, pos[i] = "pull", ValueAt(i)
    PROVE  Content'
<1> DEFINE v == token.result.value
<1>1. /\ UNCHANGED <<plan, flagged, taken, got, consumer, first>> /\ Active
      /\ token.result.what = "value"
  BY StageLeaves DEF Stage, ValueAt, Result, Active, Expecting
<1>2. /\ \A r \in Results, k \in 1 .. Consumer : OnWay(r, k) <=> k = i /\ r = token.result
      /\ first = Nothing /\ token.result \in Results /\ i \in 1 .. Consumer
  BY GivenOnWay, PlanHere
<1>3. token.result = Value(v) /\ v \in Values
  BY <1>1, <1>2, ResultsAre
<1>4. broken # {} => v \notin Message
  BY <1>1, <1>2, <1>3, MessagesAreValues DEF Content
<1>5. v \in Message /\ broken = {} =>
          /\ Contains(taken, v)
          /\ \A k \in Message : Contains(taken, k) => k <= v
          /\ AllSeen = {k \in Wanted : k < v}
          /\ \A p \in 1 .. i - 1 : Kind(p) = "parseSkipping" => v \notin flagged
  BY <1>1, <1>2, <1>3, MessagesAreValues DEF Content
<1>6. v \notin Message => NoMessage
  BY <1>2, <1>3, MessagesAreValues, ResultIs DEF NoMessage
<1>7. v \notin Message /\ broken = {} => AllSeen = AllTaken
  BY <1>1, <1>6, ContentQuietNow
<1>8. broken = {} /\ (\E k \in 1 .. Outer : pos[k] \in Ended) => Contains(taken, Closing)
  BY <1>1 DEF Content
<1> HIDE DEF v
<1>9. CASE Skips(i, v) /\ token' = Ask(i - 1, "next") /\ UNCHANGED <<pos, held, broken>>
  <2>1. \A r \in Results : \A k : ~OnWay(r, k)'
    <3>1. token'.what # "result"
      BY <1>9, CallIs
    <3> QED
      BY <3>1, <1>1, <1>2, NothingThen
  <2>2. NoMessage' /\ \A k : ~OnWay(Done, k)'
    BY <2>1, MessagesAreValues, DoneIsResult DEF NoMessage
  <2>3. v \in Message /\ v \notin Wanted
    <3>1. v \in flagged /\ Kind(i) = "parseSkipping" /\ flagged \subseteq Message
      BY <1>9 DEF Skips, IterTypeOK
    <3> QED
      BY <3>1, WantedIs
  <2>4. broken = {} => AllSeen = AllTaken
    <3> SUFFICES ASSUME broken = {} PROVE AllSeen = AllTaken
      OBVIOUS
    <3>1. \A k \in Wanted : k \in Nat /\ k \in Message /\ k # v
      BY <2>3, WantedMessages, MessageIs
    <3>2. \A k \in Wanted : Contains(taken, k) => k < v
      BY <2>3, <3>1, <1>5, MessageIs
    <3>3. \A k \in Wanted : k < v => Contains(taken, k)
      <4> SUFFICES ASSUME NEW k \in Wanted, k < v PROVE Contains(taken, k)
        OBVIOUS
      <4>1. k \in 1 .. v
        BY <3>1, <2>3, MessageIs DEF Message
      <4> QED
        BY <4>1, <2>3, <1>5, TakenInOrder
    <3> QED
      BY <2>3, <3>2, <3>3, <1>5 DEF AllTaken
  <2> QED
    BY <1>1, <1>8, <1>9, <2>2, <2>4, ContentQuiet
<1>10. CASE CloseSource(i, Failed) /\ broken' = broken \cup {i}
  <2>1. token'.what # "result" \/ token'.result \in {Done, Failed}
    BY <1>10, CallIs DEF CloseSource
  <2>2. NoMessage'
    BY <1>1, <1>2, <2>1, OnWayThen, ResultIs DEF NoMessage
  <2>3. broken' # {}
    BY <1>10
  <2> QED
    BY <1>1, <2>2, <2>3, ContentQuiet
<1>11. CASE ~Skips(i, v) /\ Yield(i, "yield", v) /\ UNCHANGED broken
  <2>1. token'.what = "result" /\ token'.at = i + 1 /\ token'.result = Value(v)
        /\ pos'[i] = "yield" /\ \A k \in 1 .. Outer : k # i => pos'[k] = pos[k]
    <3>1. i \in 0 .. Outer
      OBVIOUS
    <3> QED
      BY <1>11, <3>1, GivesUp DEF Yield, Expecting, Dismissing, IterTypeOK
  <2>2. \A r \in Results : \A k : OnWay(r, k)' <=> k = i + 1 /\ r = Value(v)
    BY <1>1, <1>2, <2>1, OnWayThen, ResultsAre
  <2>3. \A k : ~OnWay(Done, k)'
    BY <2>2, DoneIsResult, ResultIs
  <2>4. CASE v \notin Message
    <3>1. NoMessage'
      BY <2>2, <2>4, MessagesAreValues, ResultIs DEF NoMessage
    <3> QED
      BY <1>1, <1>7, <1>8, <1>11, <2>1, <2>3, <2>4, <3>1, ContentQuiet DEF Ended
  <2>5. CASE v \in Message
    <3>1. broken = {} /\ broken' = {}
      BY <1>4, <1>11, <2>5
    <3>2. \A p \in 1 .. (i + 1) - 1 : Kind(p) = "parseSkipping" => v \notin flagged
      <4>1. \A p \in 1 .. (i + 1) - 1 : p \in 1 .. i - 1 \/ p = i
        OBVIOUS
      <4> QED
        BY <4>1, <1>5, <1>11, <2>5, <3>1 DEF Skips
    <3>3. \A w \in Message, k \in 1 .. Consumer : OnWay(Value(w), k)' => w = v /\ k = i + 1
      BY <2>2, MessagesAreValues, ResultIs
    <3>4. AllSeen' = AllSeen /\ Wanted' = Wanted /\ Outer' = Outer /\ Consumer' = Consumer
          /\ \A p : Kind(p)' = Kind(p)
      BY <1>1, AllSeenStays, WantedStays, SamePlan
    <3>5. ASSUME NEW w \in Message, NEW k \in 1 .. Consumer, OnWay(Value(w), k)'
          PROVE  /\ Contains(taken', w)
                 /\ \A m \in Message : Contains(taken', m) => m <= w
                 /\ AllSeen' = {m \in Wanted' : m < w}
                 /\ \A p \in 1 .. k - 1 : Kind(p)' = "parseSkipping" => w \notin flagged'
      <4>1. w = v /\ k = i + 1
        BY <3>3, <3>5
      <4> QED
        BY <4>1, <1>1, <1>5, <2>5, <3>1, <3>2, <3>4
    <3>6. \E w \in Message, k \in 1 .. Consumer : OnWay(Value(w), k)'
      <4>1. i + 1 \in 1 .. Consumer
        BY PlanHere
      <4>2. PICK w \in Message : w = v
        BY <2>5
      <4>3. OnWay(Value(w), i + 1)'
        BY <2>2, <4>2, MessagesAreValues
      <4> QED
        BY <4>1, <4>3
    <3>7. (\E k \in 1 .. Outer : pos'[k] \in Ended) => Contains(taken, Closing)
      BY <1>8, <2>1, <3>1 DEF Ended
    <3>8. Content' <=>
            (Active' =>
              /\ \A w \in Message, k \in 1 .. Consumer : OnWay(Value(w), k)' =>
                    /\ Contains(taken', w)
                    /\ \A m \in Message : Contains(taken', m) => m <= w
                    /\ AllSeen' = {m \in Wanted' : m < w}
                    /\ \A p \in 1 .. k - 1 : Kind(p)' = "parseSkipping" => w \notin flagged'
              /\ (\A w \in Message, k \in 1 .. Consumer : ~OnWay(Value(w), k)') =>
                    AllSeen' = {m \in Wanted' : Contains(taken', m)}
              /\ (\E k \in 1 .. Consumer : OnWay(Done, k)') \/ (\E k \in 1 .. Outer : pos'[k] \in Ended) =>
                    Contains(taken', Closing))
      BY <3>1, <3>4 DEF Content
    <3> QED
      BY <1>1, <2>3, <3>5, <3>6, <3>7, <3>8
  <2> QED
    BY <2>4, <2>5
<1> QED
  BY <1>9, <1>10, <1>11 DEF ValueAt, v

LEMMA DoneContent ==
    ASSUME IterTypeOK, UnderWay, AtRest, Content, Expecting, NEW i \in 1 .. Outer,
           token.what = "result", token.at = i, pos[i] = "pull", DoneAt(i) \/ ErrorAt(i)
    PROVE  Content'
<1>1. /\ UNCHANGED <<plan, flagged, taken, got, consumer, first, broken>> /\ Active
      /\ token.result.what \in {"done", "error"}
  BY StageLeaves DEF Stage, DoneAt, ErrorAt, Result, Active, Expecting
<1>2. /\ \A r \in Results, k \in 1 .. Consumer : OnWay(r, k) <=> k = i /\ r = token.result
      /\ first = Nothing /\ token.result \in Results /\ i \in 1 .. Consumer
      /\ token.result = Failed => \E j \in broken : j < i
  BY GivenOnWay, PlanHere
<1>3. token.result \in {Done, Failed}
  BY <1>1, <1>2, ResultsAre
<1>4. NoMessage
  BY <1>2, <1>3, MessagesAreValues, ResultIs DEF NoMessage
<1>5. broken = {} => token.result = Done
  BY <1>2, <1>3
<1>6. broken = {} => AllSeen = AllTaken /\ Contains(taken, Closing)
  BY <1>1, <1>2, <1>4, <1>5, ContentQuietNow, DoneIsResult DEF Content
<1>7. token'.what = "result" /\ token'.result \in {Value(Appended), Done, Failed}
  BY CallIs DEF DoneAt, ErrorAt, CatchFinally, AppendLast, CatchError, Yield, Finish
<1>8. NoMessage'
  BY <1>1, <1>2, <1>7, OnWayThen, ResultIs, MessageIs DEF NoMessage
<1> QED
  BY <1>1, <1>6, <1>8, ContentQuiet

\* A step of a stage keeps what was read, seen or on its way.
LEMMA StageContent ==
    ASSUME IterTypeOK, Writes, UnderWay, AtRest, Content, NEW i \in 1 .. Outer, Stage(i)
    PROVE  Content'
<1>1. UNCHANGED consumer
  BY StageLeaves
<1>2. CASE Expecting
  BY <1>2, ExpectingActs, NextContent, CloseContent, ValueContent, DoneContent
<1>3. CASE consumer \in {"idle", "ended", "failed"}
  BY <1>3, StageActs DEF AtRest
<1>4. CASE Dismissing
  BY <1>1, <1>4 DEF Dismissing, Active, Content
<1> QED
  BY <1>2, <1>3, <1>4 DEF IterTypeOK, Expecting, Dismissing

\* What is on its way moves, and is the same.
LEMMA ContentSame ==
    ASSUME Content, Active, UNCHANGED <<plan, flagged, taken, got, pos, broken>>,
           \A r \in Results, k \in 1 .. Consumer : OnWay(r, k)' <=> OnWay(r, k)
    PROVE  Content'
<1>1. AllSeen' = AllSeen /\ Wanted' = Wanted /\ Outer' = Outer /\ Consumer' = Consumer
      /\ \A i : Kind(i)' = Kind(i)
  BY AllSeenStays, WantedStays, SamePlan
<1>2. \A k \in 1 .. Consumer : OnWay(Done, k)' <=> OnWay(Done, k)
  BY DoneIsResult
<1>3. \A v \in Message, k \in 1 .. Consumer : OnWay(Value(v), k)' <=> OnWay(Value(v), k)
  BY MessagesAreValues
<1> QED
  BY <1>1, <1>2, <1>3 DEF Content

-----------------------------------------------------------------------------
(* The writable iterable hands writes over. *)

\* The reader waits, or has asked; it gets write k.
HandedOver(k) ==
    /\ k \in 1 .. Closing
    /\ taken' = Append(taken, k) /\ token' = Give(0, PayloadOf(k)) /\ waiting' = FALSE
    /\ k = Closing \/ k = Len(taken) + 1
    /\ \A i \in 1 .. Len(taken) : taken[i] = i /\ taken[i] # Closing
    /\ Expecting /\ Pulling(1) /\ first = Nothing /\ token.what # "result"

LEMMA PullingIsWhole ==
    ASSUME IterTypeOK, BrokenStay, Pulling(1)
    PROVE  broken = {} /\ \A i \in 1 .. Outer : pos[i] = "pull"
BY DEF Pulling, BrokenStay, IterTypeOK

\* What the writable iterable does while the consumer is there.
LEMMA WritableActs ==
    ASSUME IterTypeOK, Writes, Shape, Active, WritableSteps
    PROVE  \/ UNCHANGED <<taken, token>>
           \/ UNCHANGED taken /\ Expecting /\ first = Nothing /\ token.what # "result" /\ token' = None
           \/ \E k : HandedOver(k)
<1>1. ~error /\ ~Dismissing
  BY DEF Shape, Leaving, Active, Dismissing
<1>2. ASSUME NEW k \in 1 .. Closing, Enters(k), Process(k)
      PROVE  UNCHANGED <<taken, token>> \/ HandedOver(k)
  <2>1. CASE UNCHANGED <<taken, token>>
    BY <2>1
  <2>2. CASE /\ waiting /\ waiting' = FALSE /\ token' = Give(0, PayloadOf(k))
             /\ taken' = Append(taken, k)
    <3>1. queue = <<>> /\ Len(queue) = 0 /\ Len(taken) \in Nat
      BY <2>2, EmptyIs, WritableTypes DEF Writes
    <3>2. /\ k = Closing \/ k = Len(taken) + Len(queue) + 1
          /\ \A i \in 1 .. Len(taken) : taken[i] = i /\ taken[i] # Closing
      BY <1>1, <1>2, EntersAt
    <3>3. k = Closing \/ k = Len(taken) + 1
      BY <3>1, <3>2
    <3>4. Expecting
      BY <1>1, <2>2 DEF Shape, AtRest, IterTypeOK, Expecting, Dismissing
    <3>5. Waits /\ first = Nothing
      BY <2>2, <3>4 DEF Shape, UnderWay
    <3>6. Pulling(1) /\ token.what # "result"
      BY <3>5, CallIs DEF Waits
    <3> QED
      BY <2>2, <3>2, <3>3, <3>4, <3>5, <3>6 DEF HandedOver
  <2> QED
    BY <1>1, <1>2, <2>1, <2>2 DEF Process
<1>3. CASE \E k \in Message : Write(k)
  <2>1. PICK k \in Message : Write(k)
    BY <1>3
  <2>2. Enters(k) /\ Process(k) /\ k \in 1 .. Closing
    BY <2>1, WriteEnters, MessageIs
  <2> QED
    BY <1>2, <2>2
<1>4. CASE Close
  <2>1. Enters(Closing) /\ Process(Closing) /\ Closing \in 1 .. Closing
    BY <1>4, CloseEnters, MessageIs
  <2> QED
    BY <1>2, <2>1
<1>5. CASE NextOfWritable
  <2>1. token = Ask(0, "next") /\ token # None /\ token.what # "result"
    BY <1>5, CallIs DEF NextOfWritable
  <2>2. Expecting
    BY <1>1, <2>1 DEF Shape, AtRest, IterTypeOK, Expecting, Dismissing
  <2>3. Pulling(1) /\ first = Nothing /\ ~waiting
    BY <2>1, <2>2, NextIsAsked DEF Shape
  <2>4. CASE token' = None /\ UNCHANGED taken
    BY <2>1, <2>2, <2>3, <2>4
  <2>5. CASE /\ queue # <<>> /\ taken' = Append(taken, queue[1])
             /\ token' = Give(0, PayloadOf(queue[1])) /\ UNCHANGED waiting
    <3>1. Len(queue) \in Nat \ {0} /\ queue[1] \in 1 .. Closing /\ Len(taken) \in Nat
      BY <2>5, TailIs, WritableTypes DEF IterTypeOK
    <3>2. 1 \in 1 .. Len(queue)
      BY <3>1
    <3>3. queue[1] = Closing \/ queue[1] = Len(taken) + 1
      BY <3>2 DEF Writes
    <3>4. \A i \in 1 .. Len(taken) : taken[i] = i /\ taken[i] # Closing
      BY <2>5 DEF Writes
    <3>5. HandedOver(queue[1])
      BY <2>1, <2>2, <2>3, <2>5, <3>1, <3>3, <3>4 DEF HandedOver
    <3> QED
      BY <3>5
  <2> QED
    BY <1>1, <1>5, <2>4, <2>5 DEF NextOfWritable
<1>6. CASE ThrowOfWritable
  BY <1>1, <1>6, ThrowIsDismissal DEF ThrowOfWritable, Shape
<1> QED
  BY <1>3, <1>4, <1>5, <1>6 DEF WritableSteps

LEMMA TakenBefore ==
    ASSUME IterTypeOK, \A i \in 1 .. Len(taken) : taken[i] = i /\ taken[i] # Closing, NEW k \in Message
    PROVE  Contains(taken, k) <=> k < Len(taken) + 1
<1>1. Len(taken) \in Nat /\ k \in Nat \ {0}
  BY WritableTypes DEF Message
<1>2. Contains(taken, k) <=> \E i \in 1 .. Len(taken) : taken[i] = k
  BY ContainsIs
<1>3. k < Len(taken) + 1 <=> k \in 1 .. Len(taken)
  BY <1>1
<1> QED
  BY <1>2, <1>3

LEMMA HandedContent ==
    ASSUME IterTypeOK, Writes, Shape, Content, NEW k, HandedOver(k),
           UNCHANGED <<plan, flagged, pos, broken, first, consumer, got>>
    PROVE  Content'
<1>1. k \in 1 .. Closing /\ Active /\ Expecting /\ first = Nothing /\ token.what # "result" /\ Pulling(1)
      /\ Len(taken) \in Nat
  BY WritableTypes DEF HandedOver, Active, Expecting
<1>2. broken = {} /\ broken' = {} /\ \A i \in 1 .. Outer : pos'[i] = "pull"
  BY <1>1, PullingIsWhole DEF Shape
<1>3. NoMessage
  BY <1>1, NothingOnWay, MessagesAreValues DEF NoMessage
<1>4. AllSeen = AllTaken
  BY <1>1, <1>2, <1>3, ContentQuietNow
<1>5. token'.at = 1 /\ token'.what = "result" /\ token'.result = PayloadOf(k)
  <2>1. 0 \in 0 .. Outer
    BY PlanHere
  <2>2. Give(0, PayloadOf(k)).at = 0 + 1 /\ Give(0, PayloadOf(k)).what = "result"
        /\ Give(0, PayloadOf(k)).result = PayloadOf(k)
    BY <1>1, <2>1, GivesUp DEF Shape, Expecting, Dismissing
  <2> QED
    BY <2>2 DEF HandedOver
<1>6. \A x : Contains(taken', x) <=> Contains(taken, x) \/ x = k
  <2>1. taken \in Seq(1 .. Closing) /\ taken' = Append(taken, k)
    BY DEF HandedOver, IterTypeOK
  <2>2. \A x : Contains(Append(taken, k), x) <=> Contains(taken, x) \/ x = k
    BY <1>1, <2>1, ContainsAppend
  <2> QED
    BY <2>1, <2>2
<1>7. AllSeen' = AllSeen /\ Wanted' = Wanted /\ Outer' = Outer /\ Consumer' = Consumer
      /\ \A i : Kind(i)' = Kind(i)
  BY AllSeenStays, WantedStays, SamePlan
<1>8. CASE k = Closing
  <2>1. \A w \in Message, j \in 1 .. Consumer : ~OnWay(Value(w), j)'
    BY <1>1, <1>5, <1>8, PayloadIs, OnWayThen, ResultIs
  <2>2. \A m \in Wanted : Contains(taken', m) <=> Contains(taken, m)
    BY <1>6, <1>8, WantedMessages, MessageIs
  <2>3. Contains(taken', Closing)
    BY <1>6, <1>8
  <2>4. AllSeen' = {m \in Wanted' : Contains(taken', m)}
    BY <1>4, <1>7, <2>2 DEF AllTaken
  <2> QED
    BY <1>2, <1>7, <2>1, <2>3, <2>4 DEF Content
<1>9. CASE k # Closing
  <2>1. k \in Message /\ k = Len(taken) + 1 /\ k \in Nat /\ PayloadOf(k) = Value(k)
    BY <1>1, <1>9, MessageIs, PayloadIs DEF HandedOver
  <2>2. \A r \in Results : \A j : OnWay(r, j)' <=> j = 1 /\ r = Value(k)
    BY <1>1, <1>5, <2>1, OnWayThen, ResultsAre
  <2>3. \A w \in Message, j \in 1 .. Consumer : OnWay(Value(w), j)' => w = k /\ j = 1
    BY <2>2, MessagesAreValues, ResultIs
  <2>4. OnWay(Value(k), 1)' /\ 1 \in 1 .. Consumer
    BY <2>1, <2>2, MessagesAreValues, PlanHere
  <2>5. \A j : ~OnWay(Done, j)'
    BY <2>2, DoneIsResult, ResultIs
  <2>6. \A m \in Message : Contains(taken, m) <=> m < k
    BY <2>1, TakenBefore DEF HandedOver
  <2>7. \A m \in Message : Contains(taken', m) => m <= k
    BY <1>6, <2>1, <2>6, MessageIs
  <2>8. AllSeen' = {m \in Wanted' : m < k}
    BY <1>4, <1>7, <2>6, WantedMessages DEF AllTaken
  <2>9. Contains(taken', k)
    BY <1>6
  <2>10. \A p \in 1 .. 1 - 1 : FALSE
    OBVIOUS
  <2>11. \A w \in Message, j \in 1 .. Consumer : OnWay(Value(w), j)' =>
            /\ Contains(taken', w)
            /\ \A m \in Message : Contains(taken', m) => m <= w
            /\ AllSeen' = {m \in Wanted' : m < w}
            /\ \A p \in 1 .. j - 1 : Kind(p)' = "parseSkipping" => w \notin flagged'
    BY <2>3, <2>7, <2>8, <2>9, <2>10
  <2>12. \A j \in 1 .. Outer : pos'[j] \notin Ended
    BY <1>2 DEF Ended
  <2>13. ~(\A w \in Message, j \in 1 .. Consumer : ~OnWay(Value(w), j)')
    BY <2>1, <2>4
  <2> QED
    BY <1>2, <1>7, <2>5, <2>11, <2>12, <2>13 DEF Content
<1> QED
  BY <1>8, <1>9

LEMMA WritableContent ==
    ASSUME IterTypeOK, Writes, Shape, Content, WritableSteps
    PROVE  Content'
<1>1. UNCHANGED <<plan, flagged, pos, held, broken, finals, first, consumer, got>>
  BY WritableLeaves
<1>2. CASE ~Active
  BY <1>1, <1>2 DEF Content, Active
<1>3. CASE Active /\ UNCHANGED <<taken, token>>
  BY <1>1, <1>3, ContentStays
<1>4. CASE Active /\ UNCHANGED taken /\ Expecting /\ first = Nothing /\ token.what # "result" /\ token' = None
  <2>1. token'.what # "result"
    BY <1>4, CallIs
  <2>2. \A r \in Results, k \in 1 .. Consumer : OnWay(r, k)' <=> OnWay(r, k)
    BY <1>1, <1>4, <2>1, NothingOnWay, NothingThen
  <2> QED
    BY <1>1, <1>4, <2>2, ContentSame
<1>5. CASE \E k : HandedOver(k)
  BY <1>1, <1>5, HandedContent
<1> QED
  BY <1>2, <1>3, <1>4, <1>5, WritableActs

-----------------------------------------------------------------------------
(* The consumer sees what was on its way. *)

LEMMA SeenAppend ==
    ASSUME NEW v \in Values, got \in Seq(Values), got' = Append(got, v)
    PROVE  /\ Len(got) \in Nat /\ Len(got') = Len(got) + 1 /\ got'[Len(got) + 1] = v
           /\ \A n \in 1 .. Len(got) : got'[n] = got[n]
           /\ \A n \in 0 .. Len(got) : Seen(n)' = Seen(n)
           /\ AllSeen' = AllSeen \cup ({v} \cap Message)
<1> DEFINE a == Len(got)
<1>1. /\ a \in Nat /\ Len(got') = a + 1 /\ got'[a + 1] = v
      /\ \A n \in 1 .. a : got'[n] = got[n]
  BY LenIs, AppendIs
<1> HIDE DEF a
<1>2. ASSUME NEW n \in 0 .. a PROVE Seen(n)' = Seen(n)
  <2>1. \A m \in 1 .. n : got'[m] = got[m]
    BY <1>1
  <2>2. {got'[m] : m \in 1 .. n} = {got[m] : m \in 1 .. n}
    BY <2>1
  <2> QED
    BY <2>2 DEF Seen
<1>3. {got'[m] : m \in 1 .. a + 1} = {got[m] : m \in 1 .. a} \cup {v}
  <2>1. \A m \in 1 .. a + 1 : m \in 1 .. a \/ m = a + 1
    BY <1>1
  <2>2. 1 .. a \subseteq 1 .. a + 1 /\ a + 1 \in 1 .. a + 1
    BY <1>1
  <2> QED
    BY <1>1, <2>1, <2>2
<1>4. AllSeen' = {got'[m] : m \in 1 .. a + 1} \cap Message
  BY <1>1 DEF AllSeen, Seen
<1>5. AllSeen = {got[m] : m \in 1 .. a} \cap Message
  BY DEF AllSeen, Seen, a
<1> QED
  BY <1>1, <1>2, <1>3, <1>4, <1>5 DEF a

\* The result that comes to the consumer is the one that was on its way.
LEMMA ReceivedIs ==
    ASSUME IterTypeOK, Writes, Content, NEW r, Receives(r)
    PROVE  /\ \A v \in Values : r = Value(v) /\ v \in Message =>
                 /\ broken = {} /\ v \in Wanted /\ Contains(taken, v)
                 /\ AllSeen = {k \in Wanted : k < v}
                 /\ AllSeen \cup {v} = AllTaken
           /\ (\A v \in Message : r # Value(v)) => NoMessage
           /\ r = Done /\ broken = {} => Contains(taken, Closing)
<1>1. r \in Results /\ Active /\ OnWay(r, Consumer) /\ Consumer \in 1 .. Consumer
  BY PlanHere DEF Receives
<1>2. ASSUME NEW v \in Values, r = Value(v), v \in Message
      PROVE  /\ broken = {} /\ v \in Wanted /\ Contains(taken, v)
             /\ AllSeen = {k \in Wanted : k < v}
             /\ AllSeen \cup {v} = AllTaken
  <2>1. OnWay(Value(v), Consumer)
    BY <1>1, <1>2
  <2>2. broken = {}
    BY <1>1, <1>2, <2>1 DEF Content
  <2>3. /\ Contains(taken, v) /\ \A k \in Message : Contains(taken, k) => k <= v
        /\ AllSeen = {k \in Wanted : k < v}
        /\ \A p \in 1 .. Consumer - 1 : Kind(p) = "parseSkipping" => v \notin flagged
    BY <1>1, <1>2, <2>1, <2>2 DEF Content
  <2>4. v \in Wanted
    <3>1. Consumer - 1 = Outer
      BY PlanHere
    <3> QED
      BY <1>2, <2>3, <3>1, WantedIs
  <2>5. \A k \in Wanted : Contains(taken, k) <=> k < v \/ k = v
    <3> SUFFICES ASSUME NEW k \in Wanted PROVE Contains(taken, k) <=> k < v \/ k = v
      OBVIOUS
    <3>1. k \in Message /\ k \in Nat /\ v \in Nat /\ k >= 1
      BY <1>2, WantedMessages, MessageIs DEF Message
    <3>2. Contains(taken, k) => k < v \/ k = v
      BY <2>3, <3>1
    <3>3. k < v => k \in 1 .. v
      BY <3>1
    <3> QED
      BY <1>2, <2>3, <3>2, <3>3, TakenInOrder
  <2>6. AllSeen \cup {v} = AllTaken
    BY <2>3, <2>4, <2>5 DEF AllTaken
  <2> QED
    BY <2>2, <2>3, <2>4, <2>6
<1>3. (\A v \in Message : r # Value(v)) => NoMessage
  BY <1>1, MessagesAreValues DEF Receives, NoMessage
<1>4. r = Done /\ broken = {} => Contains(taken, Closing)
  BY <1>1 DEF Content
<1> QED
  BY <1>2, <1>3, <1>4

LEMMA NothingLeft ==
    ASSUME first' = Nothing, token' = None
    PROVE  \A s \in Results : \A k : ~OnWay(s, k)'
BY CallIs, ResultsAre DEF OnWay

LEMMA ReceivesContent ==
    ASSUME IterTypeOK, Writes, Content, NEW r, Receives(r),
           UNCHANGED <<plan, flagged, taken, pos, broken>>
    PROVE  Content'
<1>1. r \in Results /\ Receive(r) /\ Active
  BY DEF Receives
<1>2. \A s \in Results : \A k : ~OnWay(s, k)'
  BY NothingLeft DEF Receives
<1>3. \A k : ~OnWay(Done, k)' /\ \A w \in Message : ~OnWay(Value(w), k)'
  BY <1>2, DoneIsResult, MessagesAreValues
<1>4. CASE \E v \in Values : r = Value(v) /\ got' = Append(got, v)
  <2>1. PICK v \in Values : r = Value(v) /\ got' = Append(got, v)
    BY <1>4
  <2>2. got \in Seq(Values)
    BY DEF IterTypeOK
  <2>3. AllSeen' = AllSeen \cup ({v} \cap Message)
    BY <2>1, <2>2, SeenAppend
  <2>4. broken = {} => AllSeen' = AllTaken
    <3>1. CASE v \in Message
      BY <2>1, <2>3, <3>1, ReceivedIs
    <3>2. CASE v \notin Message
      <4>1. \A w \in Message : r # Value(w)
        BY <2>1, <3>2, ResultIs
      <4> QED
        BY <1>1, <2>3, <3>2, <4>1, ReceivedIs, ContentQuietNow
    <3> QED
      BY <3>1, <3>2
  <2>5. AllTaken' = AllTaken
    BY WantedStays DEF AllTaken
  <2>6. broken = {} /\ (\E k \in 1 .. Outer : pos[k] \in Ended) => Contains(taken, Closing)
    BY <1>1 DEF Content
  <2>7. Wanted' = Wanted /\ Outer' = Outer /\ Consumer' = Consumer
    BY WantedStays, SamePlan
  <2> QED
    BY <1>3, <2>4, <2>6, <2>7 DEF Content, AllTaken
<1>5. CASE consumer' \in {"ended", "failed"}
  BY <1>5 DEF Content, Active
<1> QED
  BY <1>1, <1>4, <1>5, ReceiveIs

LEMMA ConsumerContent ==
    ASSUME IterTypeOK, Writes, Shape, Content, ConsumerSteps
    PROVE  Content'
<1>1. UNCHANGED <<plan, flagged, taken, pos, broken>>
  BY ConsumerLeaves
<1>2. CASE consumer' \in {"failed", "threw", "left"}
  BY <1>2 DEF Content, Active
<1>3. CASE Dismissing /\ UNCHANGED consumer
  BY <1>3 DEF Content, Active, Dismissing
<1>4. CASE \E r : Receives(r)
  BY <1>1, <1>4, ReceivesContent
<1>5. CASE /\ consumer = "opening" /\ Arrived /\ token' = None /\ UNCHANGED got
           /\ consumer' = "idle" /\ first' = token.result
  <2>1. token.what = "result" /\ token.at = Consumer /\ first = Nothing /\ Expecting /\ ~Expecting' /\ Active
    BY <1>5, ArrivedIs DEF Arrived, Shape, Expecting, Active
  <2>2. \A r \in Results, k \in 1 .. Consumer : OnWay(r, k)' <=> OnWay(r, k)
    <3> SUFFICES ASSUME NEW r \in Results, NEW k \in 1 .. Consumer
                 PROVE  OnWay(r, k)' <=> OnWay(r, k)
      OBVIOUS
    <3>1. OnWay(r, k) <=> k = Consumer /\ r = token.result
      BY <2>1, ResultsAre, OnWayThere
    <3>2. OnWay(r, k)' <=> k = Consumer /\ r = token.result
      BY <1>1, <1>5, <2>1, SamePlan DEF OnWay
    <3> QED
      BY <3>1, <3>2
  <2> QED
    BY <1>1, <1>5, <2>1, <2>2, ContentSame
<1>6. CASE /\ consumer = "idle" /\ token = None /\ first = Nothing /\ UNCHANGED <<first, got>>
           /\ consumer' = "waiting" /\ token' = Ask(Outer, "next")
  <2>1. token'.what # "result" /\ token.what # "result" /\ Active
    BY <1>6, CallIs DEF Active
  <2>2. \A r \in Results, k \in 1 .. Consumer : OnWay(r, k)' <=> OnWay(r, k)
    BY <1>6, <2>1, ResultsAre DEF OnWay
  <2> QED
    BY <1>1, <1>6, <2>1, <2>2, ContentSame
<1> QED
  BY <1>2, <1>3, <1>4, <1>5, <1>6, ConsumerActs

-----------------------------------------------------------------------------
(* Messages are read in order. *)

\* Where nothing arrives, what is seen is what was seen.
LEMMA ReadStays ==
    ASSUME IterTypeOK, IterTypeOK', Writes', ReadInOrder, UNCHANGED <<plan, flagged, got>>,
           \A k \in Message : Contains(taken, k) => Contains(taken', k),
           consumer' = "ended" => UNCHANGED <<consumer, broken, closed, told>>
    PROVE  ReadInOrder'
<1>1. Wanted' = Wanted /\ \A n : Seen(n)' = Seen(n)
  BY WantedStays DEF Seen
<1>2. \A i \in DOMAIN taken' : taken'[i] = (IF taken'[i] = Closing THEN Closing ELSE i)
  <2>1. DOMAIN taken' = 1 .. Len(taken')
    BY DEF IterTypeOK
  <2> QED
    BY <2>1 DEF Writes
<1>3. \A k \in 1 .. Closing : told'[k] = "resolved" <=> Contains(taken', k)
  BY DEF Writes
<1>4. \A n \in DOMAIN got' : got'[n] \in Message =>
          /\ got'[n] \in Wanted' /\ Contains(taken', got'[n])
          /\ Seen(n - 1)' = {k \in Wanted' : k < got'[n]}
  BY <1>1 DEF ReadInOrder
<1>5. consumer' = "ended" /\ broken' = {} =>
          /\ closed'
          /\ AllSeen' = {k \in Wanted' : told'[k] # "none"}
  BY <1>1, AllSeenStays DEF ReadInOrder, AllSeen
<1> QED
  BY <1>2, <1>3, <1>4, <1>5 DEF ReadInOrder, AllSeen

LEMMA StageRead ==
    ASSUME IterTypeOK, IterTypeOK', Writes', AtRest, ReadInOrder, NEW i \in 1 .. Outer, Stage(i)
    PROVE  ReadInOrder'
<1>1. /\ UNCHANGED <<plan, flagged, closed, told, taken, consumer, got>>
      /\ consumer # "ended"
  BY StageLeaves, StageActs DEF AtRest
<1> QED
  BY <1>1, ReadStays

LEMMA WritableRead ==
    ASSUME IterTypeOK, IterTypeOK', Writes', Writes, Shape, ReadInOrder, WritableSteps
    PROVE  ReadInOrder'
<1>1. UNCHANGED <<plan, flagged, broken, consumer, got>>
  BY WritableLeaves
<1>2. \A k \in Message : Contains(taken, k) => Contains(taken', k)
  <2>1. CASE taken' = taken
    BY <2>1
  <2>2. ASSUME NEW e \in 1 .. Closing, taken' = Append(taken, e)
        PROVE  \A k \in Message : Contains(taken, k) => Contains(taken', k)
    <3>1. taken \in Seq(1 .. Closing)
      BY DEF IterTypeOK
    <3>2. \A k : Contains(taken, k) => Contains(Append(taken, e), k)
      BY <3>1, ContainsAppend
    <3> QED
      BY <2>2, <3>2
  <2>3. queue # <<>> => queue[1] \in 1 .. Closing
    BY TailIs DEF IterTypeOK
  <2>4. taken' = taken \/ \E e \in 1 .. Closing : taken' = Append(taken, e)
    BY <2>3, MessageIs DEF WritableSteps, Write, Close, Process, NextOfWritable, ThrowOfWritable
  <2> QED
    BY <2>1, <2>2, <2>4
<1>3. CASE consumer = "ended" /\ broken = {}
  <2>1. closed /\ token = None
    BY <1>3 DEF ReadInOrder, Shape, AtRest
  <2>2. token # Ask(0, "next") /\ token # Ask(0, "throw")
    <3>1. token.what = "none"
      BY <2>1, CallIs
    <3>2. Ask(0, "next").what = "next" /\ Ask(0, "throw").what = "throw"
      BY CallIs
    <3> QED
      BY <3>1, <3>2
  <2>3. ~NextOfWritable /\ ~ThrowOfWritable
    BY <2>2 DEF NextOfWritable, ThrowOfWritable
  <2>4. ~Close /\ ~\E k \in Message : Write(k)
    BY <2>1 DEF Close, Write
  <2> QED
    BY <2>3, <2>4 DEF WritableSteps
<1>4. CASE ~(consumer = "ended" /\ broken = {})
  <2>1. Wanted' = Wanted /\ \A n : Seen(n)' = Seen(n)
    BY <1>1, WantedStays DEF Seen
  <2>2. DOMAIN taken' = 1 .. Len(taken')
    BY DEF IterTypeOK
  <2>3. \A i \in DOMAIN taken' : taken'[i] = (IF taken'[i] = Closing THEN Closing ELSE i)
    BY <2>2 DEF Writes
  <2>4. \A k \in 1 .. Closing : told'[k] = "resolved" <=> Contains(taken', k)
    BY DEF Writes
  <2>5. \A n \in DOMAIN got' : got'[n] \in Message =>
            /\ got'[n] \in Wanted' /\ Contains(taken', got'[n])
            /\ Seen(n - 1)' = {k \in Wanted' : k < got'[n]}
    BY <1>1, <1>2, <2>1 DEF ReadInOrder
  <2> QED
    BY <1>1, <1>4, <2>3, <2>4, <2>5 DEF ReadInOrder
<1> QED
  BY <1>3, <1>4

LEMMA ConsumerRead ==
    ASSUME IterTypeOK, IterTypeOK', Writes, Writes', Shape, Content, ReadInOrder, ConsumerSteps
    PROVE  ReadInOrder'
<1>1. UNCHANGED <<plan, flagged, queue, error, closed, told, taken, broken>>
  BY ConsumerLeaves
<1>2. CASE UNCHANGED got /\ consumer' # "ended"
  BY <1>1, <1>2, ReadStays
<1>3. CASE Dismissing /\ UNCHANGED <<consumer, got>>
  BY <1>1, <1>3, ReadStays
<1>4. CASE \E r : Receives(r)
  <2>1. PICK r : Receives(r)
    BY <1>4
  <2>2. r \in Results /\ Receive(r) /\ Active /\ ~error
    BY <2>1 DEF Receives, Shape, Leaving, Active, Dismissing
  <2>3. Wanted' = Wanted /\ got \in Seq(Values)
    BY <1>1, WantedStays DEF IterTypeOK
  <2>4. \A k \in 1 .. Closing : told'[k] = "resolved" <=> Contains(taken', k)
    BY DEF Writes
  <2>5. \A i \in DOMAIN taken' : taken'[i] = (IF taken'[i] = Closing THEN Closing ELSE i)
    BY <1>1 DEF ReadInOrder
  <2>6. ASSUME NEW v \in Values, r = Value(v), consumer' = "idle", got' = Append(got, v)
        PROVE  ReadInOrder'
    <3>1. /\ Len(got) \in Nat /\ Len(got') = Len(got) + 1 /\ got'[Len(got) + 1] = v
          /\ \A n \in 1 .. Len(got) : got'[n] = got[n]
          /\ \A n \in 0 .. Len(got) : Seen(n)' = Seen(n)
      BY <2>3, <2>6, SeenAppend
    <3>2. DOMAIN got = 1 .. Len(got) /\ DOMAIN got' = 1 .. Len(got')
      BY DEF IterTypeOK
    <3>3. ASSUME NEW n \in DOMAIN got', got'[n] \in Message
          PROVE  /\ got'[n] \in Wanted' /\ Contains(taken', got'[n])
                 /\ Seen(n - 1)' = {k \in Wanted' : k < got'[n]}
      <4>1. CASE n \in 1 .. Len(got)
        <5>1. got'[n] = got[n] /\ Seen(n - 1)' = Seen(n - 1)
          BY <3>1, <4>1
        <5> QED
          BY <1>1, <2>3, <3>2, <3>3, <4>1, <5>1 DEF ReadInOrder
      <4>2. CASE n = Len(got) + 1
        <5>1. v \in Message /\ got'[n] = v
          BY <3>1, <3>3, <4>2
        <5>2. v \in Wanted /\ Contains(taken, v) /\ AllSeen = {k \in Wanted : k < v}
          BY <2>1, <2>6, <5>1, ReceivedIs
        <5>3. n - 1 = Len(got) /\ n - 1 \in 0 .. Len(got)
          BY <3>1, <4>2
        <5>4. Seen(n - 1)' = AllSeen
          BY <3>1, <5>3 DEF AllSeen
        <5> QED
          BY <1>1, <2>3, <5>1, <5>2, <5>4
      <4>3. n \in 1 .. Len(got) \/ n = Len(got) + 1
        BY <3>1, <3>2
      <4> QED
        BY <4>1, <4>2, <4>3
    <3> QED
      BY <2>4, <2>5, <2>6, <3>3 DEF ReadInOrder
  <2>7. CASE r = Done /\ consumer' = "ended" /\ got' = got
    <3>1. ASSUME broken = {}
          PROVE  closed /\ AllSeen = {k \in Wanted : told[k] # "none"}
      <4>1. \A v \in Message : r # Value(v)
        BY <2>7, ResultIs
      <4>2. Contains(taken, Closing) /\ AllSeen = AllTaken
        BY <2>1, <2>2, <2>7, <3>1, <4>1, ReceivedIs, ContentQuietNow
      <4>3. PICK i \in 1 .. Len(taken) : taken[i] = Closing
        BY <4>2, ContainsIs
      <4>4. closed /\ queue = <<>>
        BY <4>3 DEF Writes
      <4>5. \A k \in Message : told[k] # "none" <=> Contains(taken, k)
        <5>1. \A k \in Message : told[k] # "pending"
          BY <4>4, ContainsEmpty, MessageIs DEF Writes
        <5> QED
          BY <2>2, <5>1, MessageIs DEF Writes
      <4> QED
        BY <4>2, <4>4, <4>5, WantedMessages DEF AllTaken
    <3>2. AllSeen' = AllSeen /\ \A n : Seen(n)' = Seen(n)
      BY <2>7, AllSeenStays DEF Seen
    <3>3. \A n \in DOMAIN got' : got'[n] \in Message =>
              /\ got'[n] \in Wanted' /\ Contains(taken', got'[n])
              /\ Seen(n - 1)' = {k \in Wanted' : k < got'[n]}
      BY <1>1, <2>3, <2>7, <3>2 DEF ReadInOrder
    <3> QED
      BY <1>1, <2>3, <2>4, <2>5, <3>1, <3>2, <3>3 DEF ReadInOrder, AllSeen
  <2>8. CASE consumer' = "failed" /\ got' = got
    BY <1>1, <2>8, ReadStays
  <2> QED
    BY <2>2, <2>6, <2>7, <2>8, ReceiveIs
<1>5. CASE /\ consumer = "opening" /\ UNCHANGED got /\ consumer' \in {"idle", "failed"}
  BY <1>1, <1>5, ReadStays
<1> QED
  BY <1>2, <1>3, <1>4, <1>5, ConsumerActs

-----------------------------------------------------------------------------
(* The stage "finally" is told of the end. *)

LEMMA FinalHere ==
    ASSUME IterTypeOK, NEW i \in 1 .. Outer, Kind(i) = "finally"
    PROVE  /\ ~plan.propagate /\ i \in Nat /\ i > 1 /\ i < Outer
           /\ Outer \in Nat /\ Consumer = Outer + 1 /\ broken \subseteq 1 .. Outer
           /\ \A j \in 1 .. Outer :
                 /\ Kind(j) \notin {"append", "catch"}
                 /\ Kind(j) = "finally" => j = i
                 /\ Kind(j) = "prepend" => j = 1
           /\ Kind(i) \notin Loops /\ Kind(i) # "prepend"
           /\ \A v : ~Skips(i, v) /\ ~Refuses(i, v)
           /\ ~Fails(i)
BY PlanIs DEF IterTypeOK, Loops, Skips, Refuses, Fails, NormalizeFails, SerializeFails,
     CompressFails, ParseFails, InvokeFails

LEMMA FinalGoesOn ==
    ASSUME NEW i, FinalAt(i), Active, UNCHANGED <<plan, consumer, got>>,
           FinalCalled(i)', FinalAhead(i)'
    PROVE  FinalAt(i)'
BY DEF FinalAt, Active

\* Only these results are on their way after a step of the chain.
LEMMA OneThen ==
    ASSUME Expecting, UNCHANGED consumer, first' = Nothing, token'.what = "result",
           NEW q \in Results, token'.result = q, NEW a, token'.at = a
    PROVE  \A r \in Results : \A k : OnWay(r, k)' <=> k = a /\ r = q
BY OnWayThen, ResultsAre

LEMMA NobodyCloses ==
    ASSUME IterTypeOK, NEW s \in 0 .. Outer, Resting(s), Pulling(s + 1)
    PROVE  \A j \in 1 .. Outer : pos[j] # "closing"
<1>1. \A j \in 1 .. Outer : j \in 1 .. s \/ j \in s + 1 .. Outer
  BY PlanHere
<1> QED
  BY <1>1 DEF Resting, Pulling, Rest

\* Without an error on the way, only stages above have failed, and it was told of that.
LEMMA FailedAbove ==
    ASSUME IterTypeOK, NEW i \in 1 .. Outer, FinalAhead(i),
           NEW s \in 0 .. Outer, Resting(s), Pulling(s + 1),
           \A k \in 1 .. Consumer : ~OnWay(Failed, k)
    PROVE  /\ \A j \in broken : j < i /\ finals # <<>>
           /\ FinalKnown(i) <=> finals # <<>>
<1>1. \A j \in broken : pos[j] # "closing" /\ \A k \in j + 1 .. Consumer : k \in 1 .. Consumer
  <2>1. broken \subseteq 1 .. Outer
    BY DEF IterTypeOK
  <2>2. \A j \in 1 .. Outer : pos[j] # "closing"
    BY NobodyCloses
  <2>3. \A j \in 1 .. Outer : \A k \in j + 1 .. Consumer : k \in 1 .. Consumer
    OBVIOUS
  <2> QED
    BY <2>1, <2>2, <2>3
<1>2. \A j \in broken : j < i /\ finals # <<>>
  BY <1>1 DEF FinalAhead
<1>3. \A j \in broken : j \in Nat /\ ~(j > i)
  BY <1>2, PlanHere DEF IterTypeOK
<1> QED
  BY <1>2, <1>3 DEF FinalKnown

LEMMA ValuesAreResults == \A v \in Values : Value(v) \in Results
BY DEF Results

LEMMA NextFinal ==
    ASSUME IterTypeOK, UnderWay, AtRest, Expecting, NEW i \in 1 .. Outer, Kind(i) = "finally",
           FinalAt(i), NEW s \in 1 .. Outer, NextOf(s)
    PROVE  FinalAt(i)'
<1>1. /\ token = Ask(s, "next") /\ token.what # "result" /\ first = Nothing /\ Active
      /\ Resting(s) /\ Pulling(s + 1) /\ s \in 0 .. Outer
      /\ UNCHANGED <<plan, got, consumer, first, finals>>
  BY NextIsAsked, StageLeaves, CallIs DEF NextOf, Stage, Active, Expecting
<1>2. FinalCalled(i) /\ FinalAhead(i)
  BY <1>1 DEF FinalAt
<1>3. \A r \in Results : \A k : ~OnWay(r, k)
  BY <1>1, NothingOnWay
<1>4. (\A j \in broken : j < i /\ finals # <<>>) /\ (FinalKnown(i) <=> finals # <<>>)
  BY <1>1, <1>2, <1>3, DoneIsResult, FailedAbove
<1>5. \A j \in 1 .. Outer : j # s => pos'[j] = pos[j]
  BY StageMoves DEF Stage
<1>6. Outer' = Outer /\ Consumer' = Consumer
  BY <1>1, SamePlan
<1>7. CASE pos[s] = "start" /\ Kind(s) = "prepend" /\ PrependFirst(s)
  <2>1. s = 1 /\ i > 1 /\ s # i
    BY <1>7, FinalHere
  <2>2. pos[i] = "pull" /\ pos'[i] = "pull"
    <3>1. i \in s + 1 .. Outer
      BY <2>1, FinalHere
    <3> QED
      BY <1>1, <1>5, <2>1, <3>1 DEF Pulling
  <2>3. finals = <<>> /\ broken = {}
    BY <1>2, <1>4, <2>2 DEF FinalCalled, Ended
  <2>4. \A n \in DOMAIN got : got[n] # Appended
    BY <1>2, <2>2 DEF FinalAhead, Ended
  <2>5. \A j \in i .. Outer : pos'[j] = "pull"
    <3>1. \A j \in i .. Outer : j \in s + 1 .. Outer /\ j # s /\ j \in 1 .. Outer
      BY <2>1, FinalHere
    <3> QED
      BY <1>1, <1>5, <3>1 DEF Pulling
  <2>6. s \in 0 .. Outer /\ ~Dismissing
    BY FinalHere DEF Expecting, Dismissing
  <2>7. CASE Yield(s, "before", Prepended) /\ UNCHANGED broken
    <3>1. token'.what = "result" /\ token'.result = Value(Prepended) /\ token'.at = 2
      BY <2>1, <2>6, <2>7, GivesUp DEF Yield
    <3>2. \A r \in Results : \A k : OnWay(r, k)' <=> k = 2 /\ r = Value(Prepended)
      BY <1>1, <3>1, OneThen, ValuesAreResults, MessageIs
    <3>3. \A v \in Values : \A k : OnWay(Value(v), k)' => v # Appended
      BY <3>2, ValuesAreResults, ResultIs, MessageIs
    <3>4. \A r \in {Done, Failed} : \A k : ~OnWay(r, k)'
      BY <3>2, DoneIsResult, ResultIs
    <3>5. FinalCalled(i)'
      BY <1>1, <2>3, <2>7, EmptyIs DEF FinalCalled
    <3>6. FinalAhead(i)'
      BY <1>1, <1>6, <2>2, <2>3, <2>4, <2>5, <2>7, <3>3, <3>4 DEF FinalAhead, Ended
    <3> QED
      BY <1>1, <3>5, <3>6, FinalGoesOn
  <2>8. CASE Finish(s, Failed) /\ broken' = broken \cup {s}
    <3>1. token'.what = "result" /\ token'.result = Failed /\ token'.at = 2
      BY <2>1, <2>6, <2>8, GivesUp DEF Finish
    <3>2. \A r \in Results : \A k : OnWay(r, k)' <=> k = 2 /\ r = Failed
      BY <1>1, <3>1, OneThen, DoneIsResult
    <3>3. \A v \in Values : \A k : ~OnWay(Value(v), k)'
      BY <3>2, ValuesAreResults, ResultIs
    <3>4. OnWay(Failed, 2)' /\ 2 \in s + 1 .. Consumer
      BY <2>1, <3>2, DoneIsResult, FinalHere
    <3>5. \A r \in {Done, Failed}, k \in i + 1 .. Consumer : ~OnWay(r, k)'
      <4>1. \A k \in i + 1 .. Consumer : k # 2
        BY FinalHere
      <4> QED
        BY <3>2, <4>1, DoneIsResult
    <3>6. FinalCalled(i)'
      BY <1>1, <2>1, <2>3, <2>8, EmptyIs DEF FinalCalled
    <3>7. \A j \in broken' : j = s
      BY <2>3, <2>8
    <3>8. FinalAhead(i)'
      BY <1>1, <1>6, <2>2, <2>4, <2>5, <3>3, <3>4, <3>5, <3>7 DEF FinalAhead, Ended
    <3> QED
      BY <1>1, <3>6, <3>8, FinalGoesOn
  <2> QED
    BY <1>7, <2>7, <2>8 DEF PrependFirst
<1>8. CASE /\ pos[s] \in {"start", "before", "yield"}
           /\ pos' = [pos EXCEPT ![s] = "pull"] /\ token' = Ask(s - 1, "next") /\ UNCHANGED broken
  <2>1. pos'[s] = "pull" /\ token'.what # "result"
    BY <1>8, CallIs DEF IterTypeOK
  <2>2. \A r \in Results : \A k : ~OnWay(r, k)'
    BY <1>1, <2>1, NothingThen
  <2>3. (\A v \in Values : \A k : ~OnWay(Value(v), k)') /\ \A r \in {Done, Failed} : \A k : ~OnWay(r, k)'
    BY <2>2, ValuesAreResults, DoneIsResult
  <2>4. pos'[i] \in Ended <=> pos[i] \in Ended
    BY <1>5, <1>8, <2>1 DEF Ended
  <2>5. \A j \in i .. Outer : pos'[j] \in Ended => pos[j] \in Ended
    <3>1. \A j \in i .. Outer : j \in 1 .. Outer
      BY FinalHere
    <3> QED
      BY <1>5, <2>1, <3>1 DEF Ended
  <2>6. FinalKnown(i)' <=> FinalKnown(i)
    BY <1>1, <1>8 DEF FinalKnown
  <2>7. FinalCalled(i)'
    BY <1>1, <1>2, <1>8, <2>4 DEF FinalCalled
  <2>8. FinalAhead(i)'
    BY <1>1, <1>2, <1>4, <1>6, <1>8, <2>3, <2>4, <2>5, <2>6 DEF FinalAhead
  <2> QED
    BY <1>1, <2>7, <2>8, FinalGoesOn
<1>9. CASE pos[s] \in {"after", "done"} /\ Finish(s, Done) /\ UNCHANGED broken
  <2>1. /\ pos'[s] = "done" /\ token'.what = "result" /\ token'.result = Done /\ token'.at = s + 1
    <3>1. ~Dismissing /\ s \in 0 .. Outer
      BY <1>1 DEF Expecting, Dismissing
    <3> QED
      BY <1>9, <3>1, GivesUp DEF Finish, IterTypeOK
  <2>2. \A r \in Results : \A k : OnWay(r, k)' <=> k = s + 1 /\ r = Done
    BY <1>1, <2>1, OneThen, DoneIsResult
  <2>3. \A v \in Values : \A k : ~OnWay(Value(v), k)'
    BY <2>2, ValuesAreResults, ResultIs
  <2>4. \A j \in 1 .. Outer : pos'[j] \in Ended <=> pos[j] \in Ended
    BY <1>5, <1>9, <2>1 DEF Ended
  <2>5. FinalKnown(i)' <=> FinalKnown(i)
    BY <1>1, <1>9 DEF FinalKnown
  <2>6. \A r \in {Done, Failed}, k \in i + 1 .. Consumer : OnWay(r, k)' => FinalKnown(i)
    <3>1. s + 1 \in i + 1 .. Consumer => s \in i .. Outer
      BY FinalHere
    <3>2. s \in i .. Outer => FinalKnown(i)
      BY <1>2, <1>9 DEF FinalAhead, Ended
    <3> QED
      BY <2>2, <3>1, <3>2, DoneIsResult
  <2>7. FinalCalled(i)'
    BY <1>1, <1>2, <1>9, <2>4 DEF FinalCalled
  <2>8. \A j \in i .. Outer : j \in 1 .. Outer
    BY FinalHere
  <2>9. FinalAhead(i)'
    BY <1>1, <1>2, <1>4, <1>6, <1>9, <2>3, <2>4, <2>5, <2>6, <2>8 DEF FinalAhead
  <2> QED
    BY <1>1, <2>7, <2>9, FinalGoesOn
<1> QED
  BY <1>7, <1>8, <1>9 DEF NextOf

\* What an interrupted stage closes, and what it completes with, is behind the failure.
LEMMA ReturnFinal ==
    ASSUME IterTypeOK, UnderWay, AtRest, Expecting, NEW i \in 1 .. Outer, Kind(i) = "finally",
           FinalAt(i), NEW s \in 1 .. Outer, ReturnOf(s)
    PROVE  FinalAt(i)'
<1>1. /\ token = Ask(s, "return") /\ token.what # "result" /\ Active
      /\ UNCHANGED <<plan, got, consumer, first, finals, broken>>
  BY StageLeaves, CallIs DEF ReturnOf, Stage, Active, Expecting
<1>2. first = Nothing /\ \E f \in 1 .. Outer : Closes(f, s + 1)
  BY <1>1, ReturnIsAsked
<1>3. PICK f \in 1 .. Outer : Closes(f, s + 1)
  BY <1>2
<1>4. f \in broken /\ f > s /\ pos[s] \in Rest
  <2>1. s \in 1 .. (s + 1) - 1
    OBVIOUS
  <2> QED
    BY <1>3, <2>1 DEF Closes, Resting
<1>5. FinalCalled(i) /\ FinalAhead(i)
  BY <1>1 DEF FinalAt
<1>6. \A r \in Results : \A k : ~OnWay(r, k)
  BY <1>1, <1>2, NothingOnWay
<1>7. \A j \in 1 .. Outer : j # s => pos'[j] = pos[j]
  BY StageMoves DEF Stage
<1>8. Outer' = Outer /\ Consumer' = Consumer /\ (FinalKnown(i)' <=> FinalKnown(i))
  BY <1>1, SamePlan DEF FinalKnown
<1>9. /\ token'.what = "result" => token'.result = Done /\ (token'.at = s \/ token'.at = s + 1)
      /\ pos'[s] = "done" \/ (pos'[s] = "closing" /\ Kind(s) \in Loops /\ pos[s] = "yield")
  <2>1. CASE pos[s] = "yield" /\ Kind(s) \in Loops /\ CloseSource(s, Done)
    BY <2>1, FinalHere, CallIs DEF CloseSource, IterTypeOK
  <2>2. CASE Finish(s, Done)
    <3>1. ~Dismissing /\ s \in 0 .. Outer
      BY <1>1 DEF Expecting, Dismissing
    <3> QED
      BY <2>2, <3>1, GivesUp DEF Finish, IterTypeOK
  <2> QED
    BY <2>1, <2>2 DEF ReturnOf
<1>10. s >= i => FinalKnown(i)
  BY <1>4 DEF FinalKnown
<1>11. (\A v \in Values : \A k : ~OnWay(Value(v), k)') /\ \A k : OnWay(Failed, k)' => FALSE
  <2>1. CASE token'.what = "result"
    BY <1>1, <1>2, <1>9, <2>1, OnWayThen, ResultIs
  <2>2. CASE token'.what # "result"
    BY <1>1, <1>2, <2>2, NothingThen, ValuesAreResults, DoneIsResult
  <2> QED
    BY <2>1, <2>2
<1>12. \A r \in {Done, Failed}, k \in i + 1 .. Consumer : OnWay(r, k)' => FinalKnown(i)
  <2>1. \A k \in i + 1 .. Consumer : k = s \/ k = s + 1 => s >= i
    BY FinalHere
  <2>2. \A k : OnWay(Done, k)' => k = s \/ k = s + 1
    BY <1>1, <1>2, <1>9, OnWayThen, ResultIs
  <2> QED
    BY <1>10, <1>11, <2>1, <2>2
<1>13. \A j \in i .. Outer : pos'[j] \in Ended => FinalKnown(i)
  <2>1. \A j \in i .. Outer : j \in 1 .. Outer /\ (j = s => s >= i)
    BY FinalHere
  <2> QED
    BY <1>5, <1>7, <1>10, <2>1 DEF FinalAhead
<1>14. pos[i] \in Ended => pos'[i] \in Ended
  BY <1>7, <1>9 DEF Ended
<1>15. \A j \in broken : pos[j] = "closing" => pos'[j] = "closing"
  BY <1>4, <1>7, FinalHere DEF Rest
<1>16. FinalCalled(i)'
  BY <1>1, <1>5, <1>14 DEF FinalCalled
<1>17. FinalAhead(i)'
  <2>1. \A k : ~OnWay(Failed, k)
    BY <1>6, DoneIsResult
  <2>2. \A j \in broken : pos'[j] = "closing" \/ (j < i /\ finals # <<>>)
    BY <1>5, <1>15, <2>1 DEF FinalAhead
  <2>3. \A n \in DOMAIN got : got[n] = Appended => pos'[i] \in Ended
    BY <1>5, <1>14 DEF FinalAhead
  <2> QED
    BY <1>1, <1>8, <1>11, <1>12, <1>13, <2>2, <2>3 DEF FinalAhead
<1> QED
  BY <1>1, <1>16, <1>17, FinalGoesOn

LEMMA ClosedFinal ==
    ASSUME IterTypeOK, BrokenStay, UnderWay, AtRest, Expecting, NEW i \in 1 .. Outer, Kind(i) = "finally",
           FinalAt(i), NEW s \in 1 .. Outer,
           token.what = "result", token.at = s, pos[s] = "closing", ClosedAt(s)
    PROVE  FinalAt(i)'
<1>1. /\ Active /\ UNCHANGED <<plan, got, consumer, first, finals, broken>>
  BY StageLeaves DEF ClosedAt, Stage, Active, Expecting
<1>2. /\ \E f \in 1 .. Outer : Closes(f, s)
      /\ token.result \in {Done, Failed} /\ first = Nothing
  BY SourceIsClosed
<1>3. PICK f \in 1 .. Outer : Closes(f, s)
  BY <1>2
<1>4. f \in broken /\ f >= s /\ held[s] \in {Done, Failed}
  <2>1. s \in s .. f
    BY <1>3 DEF Closes
  <2> QED
    BY <1>3, <2>1 DEF Closes
<1>5. FinalCalled(i) /\ FinalAhead(i)
  BY <1>1 DEF FinalAt
<1>6. PICK r \in {Done, Failed} : r = IF token.result = Failed THEN Failed ELSE held[s]
  BY <1>4
<1>7. pos'[s] = "done" /\ token'.what = "result" /\ token'.result = r /\ token'.at = s + 1
      /\ \A j \in 1 .. Outer : j # s => pos'[j] = pos[j]
  <2>1. ~Dismissing /\ s \in 0 .. Outer /\ Finish(s, r)
    BY <1>6 DEF Expecting, Dismissing, ClosedAt
  <2> QED
    BY <2>1, GivesUp DEF Finish, IterTypeOK
<1>8. \A q \in Results : \A k : OnWay(q, k)' <=> k = s + 1 /\ q = r
  BY <1>1, <1>2, <1>7, OneThen, DoneIsResult
<1>9. Outer' = Outer /\ Consumer' = Consumer /\ (FinalKnown(i)' <=> FinalKnown(i))
  BY <1>1, SamePlan DEF FinalKnown
<1>10. s >= i => FinalKnown(i)
  <2>1. s >= i => f > i
    BY <1>4, <1>5, FinalHere DEF FinalCalled
  <2> QED
    BY <1>4, <2>1 DEF FinalKnown
<1>11. \A v \in Values : \A k : ~OnWay(Value(v), k)'
  BY <1>8, ValuesAreResults, ResultIs
<1>12. \A q \in {Done, Failed}, k \in i + 1 .. Consumer : OnWay(q, k)' => FinalKnown(i)
  <2>1. \A k \in i + 1 .. Consumer : k = s + 1 => s >= i
    BY FinalHere
  <2> QED
    BY <1>8, <1>10, <2>1, DoneIsResult
<1>13. \A j \in i .. Outer : pos'[j] \in Ended => FinalKnown(i)
  <2>1. \A j \in i .. Outer : j \in 1 .. Outer /\ (j = s => s >= i)
    BY FinalHere
  <2> QED
    BY <1>5, <1>7, <1>10, <2>1 DEF FinalAhead
<1>14. pos[i] \in Ended => pos'[i] \in Ended
  BY <1>7 DEF Ended
<1>15. \A j \in broken :
          \/ pos'[j] = "closing"
          \/ \E k \in j + 1 .. Consumer : OnWay(Failed, k)'
          \/ j < i /\ finals # <<>>
  <2> SUFFICES ASSUME NEW j \in broken
               PROVE  \/ pos'[j] = "closing"
                      \/ \E k \in j + 1 .. Consumer : OnWay(Failed, k)'
                      \/ j < i /\ finals # <<>>
    OBVIOUS
  <2>1. j \in 1 .. Outer
    BY FinalHere
  <2>2. CASE pos[j] = "closing" /\ j # s
    BY <1>7, <2>1, <2>2
  <2>3. CASE j = s
    <3>1. held[s] = Failed
      BY <2>3 DEF BrokenStay
    <3>2. r = Failed /\ s + 1 \in j + 1 .. Consumer
      BY <1>6, <2>3, <3>1, FinalHere
    <3> QED
      BY <1>8, <3>2, DoneIsResult
  <2>4. ASSUME NEW k \in j + 1 .. Consumer, OnWay(Failed, k)
        PROVE  \E m \in j + 1 .. Consumer : OnWay(Failed, m)'
    <3>1. k = s /\ token.result = Failed
      BY <1>2, <2>4, OnWayThere, ResultIs
    <3>2. r = Failed /\ s + 1 \in j + 1 .. Consumer
      BY <1>6, <2>1, <3>1, FinalHere
    <3> QED
      BY <1>8, <3>2, DoneIsResult
  <2> QED
    BY <1>5, <2>2, <2>3, <2>4 DEF FinalAhead
<1>16. FinalCalled(i)'
  BY <1>1, <1>5, <1>14 DEF FinalCalled
<1>17. FinalAhead(i)'
  <2>1. \A n \in DOMAIN got : got[n] = Appended => pos'[i] \in Ended
    BY <1>5, <1>14 DEF FinalAhead
  <2> QED
    BY <1>1, <1>9, <1>11, <1>12, <1>13, <1>15, <2>1 DEF FinalAhead
<1> QED
  BY <1>1, <1>16, <1>17, FinalGoesOn

LEMMA ValueFinal ==
    ASSUME IterTypeOK, UnderWay, AtRest, Expecting, NEW i \in 1 .. Outer, Kind(i) = "finally",
           FinalAt(i), NEW s \in 1 .. Outer,
           token.what = "result", token.at = s, pos[s] = "pull", ValueAt(s)
    PROVE  FinalAt(i)'
<1>1. /\ UNCHANGED <<plan, got, consumer, first, finals>> /\ Active /\ token.result.what = "value"
  BY StageLeaves DEF ValueAt, Result, Stage, Active, Expecting
<1>2. /\ \A r \in Results, k \in 1 .. Consumer : OnWay(r, k) <=> k = s /\ r = token.result
      /\ first = Nothing /\ token.result \in Results
      /\ Resting(s - 1) /\ Pulling(s) /\ Pulling(s + 1)
  BY GivenOnWay
<1>3. PICK v \in Values : token.result = Value(v)
  BY <1>1, <1>2, ResultsAre
<1>4. FinalCalled(i) /\ FinalAhead(i)
  BY <1>1 DEF FinalAt
<1>5. s \in 1 .. Consumer /\ s - 1 \in 0 .. Outer /\ (s - 1) + 1 = s
  BY FinalHere
<1>6. (\A j \in broken : j < i /\ finals # <<>>) /\ (FinalKnown(i) <=> finals # <<>>)
  <2>1. \A k \in 1 .. Consumer : ~OnWay(Failed, k)
    BY <1>2, <1>3, DoneIsResult, ResultIs
  <2> QED
    BY <1>2, <1>4, <1>5, <2>1, FailedAbove
<1>7. v = Appended <=> pos[i] \in Ended
  BY <1>2, <1>3, <1>4, <1>5, ValuesAreResults DEF FinalAhead
<1>8. \A n \in DOMAIN got : got[n] # Appended
  BY <1>2, <1>3, <1>4, <1>5, ValuesAreResults DEF FinalAhead
<1>9. Outer' = Outer /\ Consumer' = Consumer
  BY <1>1, SamePlan
<1>10. \A j \in 1 .. Outer : j # s => pos'[j] = pos[j]
  BY StageMoves DEF Stage
<1>11. \A j \in i .. Outer : j \in 1 .. Outer
  BY FinalHere
<1>12. ~Skips(i, v) /\ ~Refuses(i, v) /\ ~Fails(i)
  BY FinalHere
<1>13. CASE Skips(s, v) /\ token' = Ask(s - 1, "next") /\ UNCHANGED <<pos, held, broken>>
  <2>1. token'.what # "result"
    BY <1>13, CallIs
  <2>2. \A r \in Results : \A k : ~OnWay(r, k)'
    BY <1>1, <1>2, <2>1, NothingThen
  <2>3. (\A w \in Values : \A k : ~OnWay(Value(w), k)') /\ \A r \in {Done, Failed} : \A k : ~OnWay(r, k)'
    BY <2>2, ValuesAreResults, DoneIsResult
  <2>4. FinalKnown(i)' <=> FinalKnown(i)
    BY <1>1, <1>13 DEF FinalKnown
  <2>5. FinalCalled(i)'
    BY <1>1, <1>4, <1>13 DEF FinalCalled
  <2>6. FinalAhead(i)'
    BY <1>1, <1>4, <1>6, <1>8, <1>9, <1>13, <2>3, <2>4 DEF FinalAhead
  <2> QED
    BY <1>1, <2>5, <2>6, FinalGoesOn
<1>14. CASE (Refuses(s, v) \/ Fails(s)) /\ CloseSource(s, Failed) /\ broken' = broken \cup {s}
  <2>1. s # i
    BY <1>12, <1>14
  <2>2. /\ pos'[s] = "closing" /\ pos'[i] = pos[i]
        /\ token'.what = "result" => token'.result = Done /\ token'.at = s
    BY <1>10, <1>14, <2>1, FinalHere, CallIs DEF CloseSource, IterTypeOK
  <2>3. finals # <<>> => s > i
    <3>1. finals # <<>> => pos[i] # "pull"
      BY <1>4 DEF FinalCalled, Ended
    <3>2. i >= s => i \in s .. Outer
      BY FinalHere
    <3> QED
      BY <1>2, <3>1, <3>2, FinalHere DEF Pulling
  <2>4. s > i => FinalKnown(i)'
    BY <1>14 DEF FinalKnown
  <2>5. \A k : OnWay(Done, k)' => k = s
    BY <1>1, <1>2, <2>2, OnWayThen, ResultIs
  <2>6. (\A w \in Values : \A k : ~OnWay(Value(w), k)') /\ \A k : ~OnWay(Failed, k)'
    BY <1>1, <1>2, <2>2, OnWayThen, ResultIs
  <2>7. \A r \in {Done, Failed}, k \in i + 1 .. Consumer : OnWay(r, k)' => FinalKnown(i)'
    <3>1. s \in i + 1 .. Consumer => s > i
      BY FinalHere
    <3> QED
      BY <2>4, <2>5, <2>6, <3>1
  <2>8. \A j \in i .. Outer : pos'[j] \in Ended => FinalKnown(i)'
    <3>1. pos'[s] \notin Ended
      BY <2>2 DEF Ended
    <3>2. finals # <<>> => FinalKnown(i)'
      BY <2>3, <2>4
    <3> QED
      BY <1>4, <1>6, <1>10, <1>11, <3>1, <3>2 DEF FinalAhead
  <2>9. \A j \in broken' : pos'[j] = "closing" \/ (j < i /\ finals # <<>>)
    BY <1>6, <1>14, <2>2
  <2>10. FinalCalled(i)'
    <3>1. finals # <<>> => ((\E j \in broken' : j < i) <=> (\E j \in broken : j < i))
      BY <1>14, <2>3, FinalHere
    <3>2. i \notin broken'
      BY <1>4, <1>14, <2>1 DEF FinalCalled
    <3> QED
      BY <1>1, <1>4, <2>2, <3>1, <3>2 DEF FinalCalled
  <2>11. FinalAhead(i)'
    BY <1>1, <1>8, <1>9, <2>6, <2>7, <2>8, <2>9 DEF FinalAhead
  <2> QED
    BY <1>1, <2>10, <2>11, FinalGoesOn
<1>15. CASE Yield(s, "yield", v) /\ UNCHANGED broken
  <2>1. token'.what = "result" /\ token'.at = s + 1 /\ token'.result = Value(v) /\ pos'[s] = "yield"
    <3>1. ~Dismissing /\ s \in 0 .. Outer
      BY <1>1 DEF Expecting, Dismissing
    <3> QED
      BY <1>15, <3>1, GivesUp DEF Yield, IterTypeOK
  <2>2. \A r \in Results : \A k : OnWay(r, k)' <=> k = s + 1 /\ r = Value(v)
    BY <1>1, <1>2, <2>1, OneThen, ValuesAreResults
  <2>3. \A j \in 1 .. Outer : pos'[j] \in Ended <=> pos[j] \in Ended
    BY <1>10, <2>1 DEF Ended
  <2>4. \A r \in {Done, Failed} : \A k : ~OnWay(r, k)'
    BY <2>2, DoneIsResult, ResultIs
  <2>5. \A w \in Values : \A k : OnWay(Value(w), k)' => (w = Appended <=> pos'[i] \in Ended)
    BY <1>7, <2>2, <2>3, ValuesAreResults, ResultIs
  <2>6. FinalKnown(i)' <=> FinalKnown(i)
    BY <1>1, <1>15 DEF FinalKnown
  <2>7. FinalCalled(i)'
    BY <1>1, <1>4, <1>15, <2>3 DEF FinalCalled
  <2>8. FinalAhead(i)'
    BY <1>1, <1>4, <1>6, <1>8, <1>9, <1>11, <1>15, <2>3, <2>4, <2>5, <2>6 DEF FinalAhead
  <2> QED
    BY <1>1, <2>7, <2>8, FinalGoesOn
<1> QED
  BY <1>3, <1>13, <1>14, <1>15, ResultIs DEF ValueAt

LEMMA EndFinal ==
    ASSUME IterTypeOK, UnderWay, AtRest, Expecting, NEW i \in 1 .. Outer, Kind(i) = "finally",
           FinalAt(i), NEW s \in 1 .. Outer,
           token.what = "result", token.at = s, pos[s] = "pull", DoneAt(s) \/ ErrorAt(s)
    PROVE  FinalAt(i)'
<1>1. /\ UNCHANGED <<plan, got, consumer, first, broken>> /\ Active
      /\ token.result.what \in {"done", "error"}
  BY StageLeaves DEF DoneAt, ErrorAt, Result, Stage, Active, Expecting
<1>2. /\ \A r \in Results, k \in 1 .. Consumer : OnWay(r, k) <=> k = s /\ r = token.result
      /\ first = Nothing /\ token.result \in Results
      /\ Resting(s - 1) /\ Pulling(s)
      /\ token.result = Failed => \E j \in broken : j < s
  BY GivenOnWay
<1>3. PICK r \in {Done, Failed} : token.result = r
  BY <1>1, <1>2, ResultsAre
<1>4. FinalCalled(i) /\ FinalAhead(i)
  BY <1>1 DEF FinalAt
<1>5. s \in 1 .. Consumer /\ s - 1 \in 0 .. Outer /\ (s - 1) + 1 = s
  BY FinalHere
<1>6. \A j \in 1 .. Outer : pos[j] # "closing"
  BY <1>2, <1>5, NobodyCloses
<1>7. Outer' = Outer /\ Consumer' = Consumer
  BY <1>1, SamePlan
<1>8. \A j \in 1 .. Outer : j # s => pos'[j] = pos[j]
  BY StageMoves DEF Stage
<1>9. ~Dismissing /\ s \in 0 .. Outer
  BY <1>1 DEF Expecting, Dismissing
<1>10. \A j \in i .. Outer : j \in 1 .. Outer
  BY FinalHere
<1>11. OnWay(r, s)
  BY <1>2, <1>3, <1>5, DoneIsResult
<1>12. \A j \in broken : (r = Failed /\ j < s) \/ (j < i /\ finals # <<>>)
  <2> SUFFICES ASSUME NEW j \in broken PROVE (r = Failed /\ j < s) \/ (j < i /\ finals # <<>>)
    OBVIOUS
  <2>1. j \in 1 .. Outer
    BY FinalHere
  <2>2. ASSUME NEW k \in j + 1 .. Consumer, OnWay(Failed, k) PROVE r = Failed /\ j < s
    <3>1. k \in 1 .. Consumer
      BY <2>1, FinalHere
    <3> QED
      BY <1>2, <1>3, <2>1, <2>2, <3>1, DoneIsResult
  <2> QED
    BY <1>4, <1>6, <2>1, <2>2 DEF FinalAhead
<1>13. CASE s = i
  <2>1. finals = <<>> /\ pos[i] \notin Ended
    BY <1>4, <1>13 DEF FinalCalled, Ended
  <2>2. CatchFinally(i, r)
    BY <1>3, <1>13, ResultIs DEF DoneAt, ErrorAt, Result
  <2>3. finals' = <<r>> /\ Len(finals') = 1 /\ finals'[1] = r /\ finals' # <<>>
    BY <2>1, <2>2 DEF CatchFinally
  <2>4. r = Failed <=> \E j \in broken : j < i
    BY <1>2, <1>3, <1>12, <1>13, <2>1
  <2>5. pos'[i] \in Ended
    BY <1>13, <2>2 DEF CatchFinally, Yield, Finish, Ended, IterTypeOK
  <2>6. \A n \in DOMAIN got : got[n] # Appended
    BY <1>4, <2>1 DEF FinalAhead
  <2>7. FinalKnown(i)'
    BY <2>3 DEF FinalKnown
  <2>8. token'.what = "result" /\ (token'.result = Value(Appended) \/ token'.result = Done)
    BY <2>2, CallIs DEF CatchFinally, Yield, Finish
  <2>9. \A v \in Values : \A k : OnWay(Value(v), k)' => v = Appended
    BY <1>1, <1>2, <2>8, OnWayThen, ResultIs
  <2>10. \A j \in broken : j < i
    BY <1>12, <2>1, <1>13
  <2>11. FinalCalled(i)'
    BY <1>1, <1>4, <2>3, <2>4, <2>5 DEF FinalCalled
  <2>12. FinalAhead(i)'
    BY <1>1, <1>7, <2>3, <2>5, <2>6, <2>7, <2>9, <2>10 DEF FinalAhead
  <2> QED
    BY <1>1, <2>11, <2>12, FinalGoesOn
<1>14. CASE s # i
  <2>1. Finish(s, r) /\ finals' = finals
    BY <1>3, <1>14, FinalHere, ResultIs DEF DoneAt, ErrorAt, Result
  <2>2. pos'[s] = "done" /\ token'.what = "result" /\ token'.at = s + 1 /\ token'.result = r
    BY <1>9, <2>1, GivesUp DEF Finish, IterTypeOK
  <2>3. \A q \in Results : \A k : OnWay(q, k)' <=> k = s + 1 /\ q = r
    BY <1>1, <1>2, <2>2, OneThen, DoneIsResult
  <2>4. \A v \in Values : \A k : ~OnWay(Value(v), k)'
    BY <2>3, ValuesAreResults, ResultIs
  <2>5. FinalKnown(i)' <=> FinalKnown(i)
    BY <1>1, <2>1 DEF FinalKnown
  <2>6. s > i => FinalKnown(i)
    <3>1. s > i => s \in i + 1 .. Consumer
      BY FinalHere
    <3> QED
      BY <1>4, <1>11, <3>1 DEF FinalAhead
  <2>7. \A q \in {Done, Failed}, k \in i + 1 .. Consumer : OnWay(q, k)' => FinalKnown(i)
    <3>1. \A k \in i + 1 .. Consumer : k = s + 1 => s > i
      BY <1>14, FinalHere
    <3> QED
      BY <2>3, <2>6, <3>1, DoneIsResult
  <2>8. \A j \in i .. Outer : pos'[j] \in Ended => FinalKnown(i)
    <3>1. \A j \in i .. Outer : j = s => s > i
      BY <1>14, FinalHere
    <3> QED
      BY <1>4, <1>8, <1>10, <2>6, <3>1 DEF FinalAhead
  <2>9. \A j \in broken :
            \/ \E k \in j + 1 .. Consumer : OnWay(Failed, k)'
            \/ j < i /\ finals # <<>>
    <3>1. \A j \in broken : j < s => s + 1 \in j + 1 .. Consumer
      BY FinalHere
    <3>2. r = Failed => OnWay(Failed, s + 1)'
      BY <2>3, DoneIsResult
    <3> QED
      BY <1>12, <3>1, <3>2
  <2>10. pos'[i] = pos[i]
    BY <1>8, <1>14
  <2>11. FinalCalled(i)'
    BY <1>1, <1>4, <2>1, <2>10 DEF FinalCalled
  <2>12. FinalAhead(i)'
    BY <1>1, <1>4, <1>7, <2>1, <2>4, <2>5, <2>7, <2>8, <2>9, <2>10 DEF FinalAhead
  <2> QED
    BY <1>1, <2>11, <2>12, FinalGoesOn
<1> QED
  BY <1>13, <1>14

\* Where the consumer is gone, "finally" stays as it is.
LEMMA FinalStays ==
    ASSUME NEW i, FinalAt(i), ~Active', UNCHANGED <<plan, got, finals, broken>>,
           consumer' # "ended" \/ finals # <<>>,
           pos[i] \in Ended => pos'[i] \in Ended
    PROVE  FinalAt(i)'
BY DEF FinalAt, FinalCalled

LEMMA StageFinal ==
    ASSUME IterTypeOK, Shape, NEW i \in 1 .. Outer, Kind(i) = "finally",
           FinalAt(i), NEW s \in 1 .. Outer, Stage(s)
    PROVE  FinalAt(i)'
<1>1. UNCHANGED <<plan, consumer, got>>
  BY StageLeaves
<1>2. CASE Expecting
  BY <1>2, ExpectingActs, NextFinal, ReturnFinal, ValueFinal, EndFinal, ClosedFinal DEF Shape
<1>3. CASE consumer \in {"idle", "ended", "failed"}
  BY <1>3, StageActs DEF Shape, AtRest
<1>4. CASE Dismissing
  <2>1. ~plan.propagate /\ i < Outer /\ i # Outer
    BY FinalHere
  <2>2. token = Ask(Outer, "throw") \/ token = Ask(Outer, "return")
    <3>1. token # None /\ token.at = s /\ s # Consumer
      BY StageActs, FinalHere
    <3> QED
      BY <1>4, <2>1, <3>1 DEF Shape, Leaving
  <2>3. s = Outer /\ token.what \in {"throw", "return"}
    BY <2>2, StageActs, CallIs
  <2>4. (ThrowOf(s) \/ ReturnOf(s)) /\ UNCHANGED <<broken, finals>>
    BY <2>3, StageActs, CallIs DEF ThrowOf, ReturnOf
  <2>5. pos'[i] = pos[i]
    BY <2>1, <2>3, StageMoves
  <2> QED
    BY <1>1, <1>4, <2>4, <2>5, FinalStays DEF Dismissing, Active
<1> QED
  BY <1>2, <1>3, <1>4 DEF IterTypeOK, Expecting, Dismissing

\* The same results are on their way, elsewhere.
LEMMA FinalSame ==
    ASSUME IterTypeOK, NEW i \in 1 .. Outer, Kind(i) = "finally", FinalAt(i), Active,
           UNCHANGED <<plan, pos, broken, finals, got>>, consumer' # "ended",
           \A r \in Results, k \in 1 .. Consumer : OnWay(r, k)' <=> OnWay(r, k)
    PROVE  FinalAt(i)'
<1>1. Outer' = Outer /\ Consumer' = Consumer /\ (FinalKnown(i)' <=> FinalKnown(i))
  BY SamePlan DEF FinalKnown
<1>2. \A v \in Values, k \in 1 .. Consumer : OnWay(Value(v), k)' <=> OnWay(Value(v), k)
  BY ValuesAreResults
<1>3. \A r \in {Done, Failed}, k \in 1 .. Consumer : OnWay(r, k)' <=> OnWay(r, k)
  BY DoneIsResult
<1>4. (\A j \in broken : \A k : k \in j + 1 .. Consumer => k \in 1 .. Consumer)
      /\ \A k \in i + 1 .. Consumer : k \in 1 .. Consumer
  BY FinalHere
<1>5. FinalCalled(i) /\ FinalAhead(i)
  BY DEF FinalAt
<1>6. FinalAhead(i)'
  BY <1>1, <1>2, <1>3, <1>4, <1>5 DEF FinalAhead
<1>7. FinalCalled(i)'
  BY <1>5 DEF FinalCalled
<1> QED
  BY <1>6, <1>7 DEF FinalAt

LEMMA WritableFinal ==
    ASSUME IterTypeOK, Writes, Shape, NEW i \in 1 .. Outer, Kind(i) = "finally",
           FinalAt(i), WritableSteps
    PROVE  FinalAt(i)'
<1>1. UNCHANGED <<plan, flagged, pos, held, broken, finals, first, consumer, got>>
  BY WritableLeaves
<1>2. CASE ~Active
  BY <1>1, <1>2 DEF FinalAt, FinalCalled, Active
<1>3. CASE Active /\ UNCHANGED <<taken, token>>
  <2>1. \A r \in Results, k \in 1 .. Consumer : OnWay(r, k)' <=> OnWay(r, k)
    BY <1>1, <1>3, SamePlan DEF OnWay, Expecting
  <2> QED
    BY <1>1, <1>3, <2>1, FinalSame DEF Active
<1>4. CASE Active /\ Expecting /\ first = Nothing /\ token.what # "result" /\ token' = None
  <2>1. token'.what # "result"
    BY <1>4, CallIs
  <2>2. \A r \in Results, k \in 1 .. Consumer : OnWay(r, k)' <=> OnWay(r, k)
    BY <1>1, <1>4, <2>1, NothingOnWay, NothingThen
  <2> QED
    BY <1>1, <1>4, <2>2, FinalSame DEF Active
<1>5. ASSUME NEW h, HandedOver(h) PROVE FinalAt(i)'
  <2>1. /\ h \in 1 .. Closing /\ Active /\ Expecting /\ first = Nothing /\ Pulling(1)
        /\ token' = Give(0, PayloadOf(h))
    BY <1>5 DEF HandedOver, Active, Expecting
  <2>2. broken = {} /\ \A j \in 1 .. Outer : pos[j] = "pull"
    BY <2>1, PullingIsWhole DEF Shape
  <2>3. FinalCalled(i) /\ FinalAhead(i) /\ pos[i] \notin Ended
    BY <2>1, <2>2 DEF FinalAt, Ended
  <2>4. \A n \in DOMAIN got : got[n] # Appended
    BY <2>3 DEF FinalAhead
  <2>5. PICK q \in Results : q = PayloadOf(h)
    BY <2>1, PayloadIs
  <2>6. \A v \in Values : q = Value(v) => v # Appended
    <3>1. q = Done \/ (h \in Message /\ q = Value(h))
      BY <2>1, <2>5, PayloadIs, MessageIs
    <3> QED
      BY <3>1, ResultIs, MessageIs
  <2>7. token'.what = "result" /\ token'.at = 1 /\ token'.result = q
    <3>1. 0 \in 0 .. Outer /\ ~Dismissing
      BY <2>1, FinalHere DEF Active, Dismissing
    <3>2. Give(0, PayloadOf(h)).at = 0 + 1 /\ Give(0, PayloadOf(h)).what = "result"
          /\ Give(0, PayloadOf(h)).result = PayloadOf(h)
      BY <3>1, GivesUp DEF Shape
    <3> QED
      BY <2>1, <2>5, <3>2
  <2>8. \A r \in Results : \A k : OnWay(r, k)' <=> k = 1 /\ r = q
    BY <1>1, <2>1, <2>7, OneThen
  <2>9. \A v \in Values : \A k : OnWay(Value(v), k)' => v # Appended
    BY <2>6, <2>8, ValuesAreResults
  <2>10. \A r \in {Done, Failed}, k \in i + 1 .. Consumer : ~OnWay(r, k)'
    <3>1. \A k \in i + 1 .. Consumer : k # 1
      BY FinalHere
    <3> QED
      BY <2>8, <3>1, DoneIsResult
  <2>11. \A j \in i .. Outer : j \in 1 .. Outer
    BY FinalHere
  <2>12. FinalCalled(i)'
    BY <1>1, <2>3 DEF FinalCalled
  <2>13. FinalAhead(i)'
    BY <1>1, <2>2, <2>3, <2>4, <2>9, <2>10, <2>11, SamePlan DEF FinalAhead, Ended
  <2> QED
    BY <1>1, <2>1, <2>12, <2>13, FinalGoesOn
<1> QED
  BY <1>2, <1>3, <1>4, <1>5, WritableActs

LEMMA ReceivesFinal ==
    ASSUME IterTypeOK, NEW i \in 1 .. Outer, Kind(i) = "finally", FinalAt(i), NEW r, Receives(r),
           UNCHANGED <<plan, pos, broken, finals>>
    PROVE  FinalAt(i)'
<1>1. /\ r \in Results /\ Receive(r) /\ Active /\ Resting(Outer) /\ OnWay(r, Consumer)
      /\ \A s \in Results, k \in 1 .. Consumer : OnWay(s, k) => s = r
      /\ Consumer \in 1 .. Consumer
  BY FinalHere DEF Receives
<1>2. FinalCalled(i) /\ FinalAhead(i)
  BY <1>1 DEF FinalAt
<1>3. \A s \in Results : \A k : ~OnWay(s, k)'
  BY NothingLeft DEF Receives
<1>4. (\A v \in Values : \A k : ~OnWay(Value(v), k)') /\ \A s \in {Done, Failed} : \A k : ~OnWay(s, k)'
  BY <1>3, ValuesAreResults, DoneIsResult
<1>5. r # Failed => /\ \A j \in broken : j < i /\ finals # <<>>
                    /\ FinalKnown(i) <=> finals # <<>>
  <2> SUFFICES ASSUME r # Failed
               PROVE  /\ \A j \in broken : j < i /\ finals # <<>>
                      /\ FinalKnown(i) <=> finals # <<>>
    OBVIOUS
  <2>1. \A k \in 1 .. Consumer : ~OnWay(Failed, k)
    BY <1>1, DoneIsResult
  <2>2. Outer \in 0 .. Outer /\ Pulling(Outer + 1)
    BY FinalHere DEF Pulling
  <2> QED
    BY <1>1, <1>2, <2>1, <2>2, FailedAbove
<1>6. Outer' = Outer /\ Consumer' = Consumer /\ (FinalKnown(i)' <=> FinalKnown(i))
  BY SamePlan DEF FinalKnown
<1>7. FinalCalled(i)'
  BY <1>2 DEF FinalCalled
<1>8. ASSUME NEW v \in Values, r = Value(v), consumer' = "idle", got' = Append(got, v)
      PROVE  FinalAt(i)'
  <2>1. got \in Seq(Values)
    BY DEF IterTypeOK
  <2>2. /\ Len(got) \in Nat /\ Len(got') = Len(got) + 1 /\ got'[Len(got) + 1] = v
        /\ \A n \in 1 .. Len(got) : got'[n] = got[n]
    BY <1>8, <2>1, SeenAppend
  <2>3. DOMAIN got = 1 .. Len(got) /\ DOMAIN got' = 1 .. Len(got) + 1
    <3>1. got' \in Seq(Values)
      BY <1>8, <2>1, AppendIs
    <3> QED
      BY <2>1, <2>2, <3>1
  <2>4. OnWay(Value(v), Consumer)
    BY <1>1, <1>8
  <2>5. v = Appended <=> pos[i] \in Ended
    BY <1>1, <1>2, <2>4 DEF FinalAhead
  <2>6. \A n \in DOMAIN got : got[n] # Appended
    BY <1>1, <1>2, <2>4 DEF FinalAhead
  <2>7. \A n \in DOMAIN got' : got'[n] = Appended => n = Len(got') /\ pos[i] \in Ended
    <3>1. \A n \in DOMAIN got' : n \in DOMAIN got \/ n = Len(got) + 1
      BY <2>2, <2>3
    <3> QED
      BY <2>2, <2>3, <2>5, <2>6, <3>1
  <2>8. r # Failed
    BY <1>8, ResultIs
  <2>9. FinalAhead(i)'
    BY <1>2, <1>4, <1>5, <1>6, <2>7, <2>8 DEF FinalAhead
  <2> QED
    BY <1>7, <1>8, <2>7, <2>9 DEF FinalAt
<1>9. CASE r = Done /\ consumer' = "ended" /\ got' = got
  <2>1. OnWay(Done, Consumer) /\ Consumer \in i + 1 .. Consumer
    BY <1>1, <1>9, FinalHere
  <2>2. FinalKnown(i)
    BY <1>2, <2>1 DEF FinalAhead
  <2>3. finals # <<>>
    BY <1>5, <1>9, <2>2, ResultIs
  <2> QED
    BY <1>9, <2>3, FinalStays DEF Active
<1>10. CASE consumer' = "failed" /\ got' = got
  BY <1>10, FinalStays DEF Active
<1> QED
  BY <1>1, <1>8, <1>9, <1>10, ReceiveIs

LEMMA ConsumerFinal ==
    ASSUME IterTypeOK, Shape, NEW i \in 1 .. Outer, Kind(i) = "finally", FinalAt(i), ConsumerSteps
    PROVE  FinalAt(i)'
<1>1. UNCHANGED <<plan, pos, broken, finals>>
  BY ConsumerLeaves
<1>2. CASE consumer' \in {"failed", "threw", "left"} /\ UNCHANGED got
  BY <1>1, <1>2, FinalStays DEF Active
<1>3. CASE Dismissing /\ UNCHANGED <<consumer, got>>
  BY <1>1, <1>3, FinalStays DEF Active, Dismissing
<1>4. CASE \E r : Receives(r)
  BY <1>1, <1>4, ReceivesFinal
<1>5. CASE /\ consumer = "opening" /\ Arrived /\ token' = None /\ UNCHANGED got
           /\ consumer' = "idle" /\ first' = token.result
  <2>1. token.what = "result" /\ token.at = Consumer /\ first = Nothing /\ Expecting /\ ~Expecting' /\ Active
    BY <1>5, ArrivedIs DEF Arrived, Shape, Expecting, Active
  <2>2. \A r \in Results, k \in 1 .. Consumer : OnWay(r, k)' <=> OnWay(r, k)
    <3> SUFFICES ASSUME NEW r \in Results, NEW k \in 1 .. Consumer
                 PROVE  OnWay(r, k)' <=> OnWay(r, k)
      OBVIOUS
    <3>1. OnWay(r, k) <=> k = Consumer /\ r = token.result
      BY <2>1, ResultsAre, OnWayThere
    <3>2. OnWay(r, k)' <=> k = Consumer /\ r = token.result
      BY <1>1, <1>5, <2>1, SamePlan DEF OnWay
    <3> QED
      BY <3>1, <3>2
  <2> QED
    BY <1>1, <1>5, <2>1, <2>2, FinalSame
<1>6. CASE /\ consumer = "idle" /\ token = None /\ first = Nothing /\ UNCHANGED <<first, got>>
           /\ consumer' = "waiting" /\ token' = Ask(Outer, "next")
  <2>1. token'.what # "result" /\ token.what # "result" /\ Active
    BY <1>6, CallIs DEF Active
  <2>2. \A r \in Results, k \in 1 .. Consumer : OnWay(r, k)' <=> OnWay(r, k)
    BY <1>6, <2>1, ResultsAre DEF OnWay
  <2> QED
    BY <1>1, <1>6, <2>1, <2>2, FinalSame
<1> QED
  BY <1>2, <1>3, <1>4, <1>5, <1>6, ConsumerActs

-----------------------------------------------------------------------------
(* The invariant. *)

LEMMA IterInitInv ==
    ASSUME Init PROVE IterInv
<1>1. plan \in Chains /\ flagged \in SUBSET Message
  BY DEF Init
<1>2. Outer \in Nat /\ Outer > 1 /\ plan.untilFirst \in BOOLEAN
  BY <1>1, PlanIs
<1>3. MaxWrites \in Nat \ {0} /\ Closing \in Nat \ {0} /\ Closing \in 1 .. Closing
  BY BoundsAssumption DEF Closing
<1>4. /\ queue = <<>> /\ waiting = FALSE /\ error = FALSE /\ closed = FALSE
      /\ told = [k \in 1 .. Closing |-> "none"]
      /\ taken = <<>> /\ pos = [i \in 1 .. Outer |-> "start"]
      /\ held = [i \in 1 .. Outer |-> Nothing]
      /\ broken = {} /\ finals = <<>> /\ first = Nothing /\ got = <<>>
      /\ \/ consumer = "opening" /\ token = Ask(Outer, "next")
         \/ consumer = "idle" /\ token = None
  BY <1>2 DEF Init
<1>5. /\ Len(queue) = 0 /\ Len(taken) = 0 /\ Len(finals) = 0 /\ Len(got) = 0 /\ DOMAIN got = {}
      /\ DOMAIN taken = {} /\ \A S : queue \in Seq(S) /\ taken \in Seq(S) /\ finals \in Seq(S) /\ got \in Seq(S)
  BY <1>4, EmptyIs
<1>6. IterTypeOK
  BY <1>1, <1>4, <1>5 DEF IterTypeOK, Position
<1>7. Writes
  <2>1. \A x : ~Contains(queue, x) /\ ~Contains(taken, x)
    BY <1>4, ContainsEmpty
  <2>2. \A k \in 1 .. Closing : told[k] = "none"
    BY <1>4
  <2>3. \A k \in Message : k \in 1 .. Closing /\ \A j \in 1 .. k : j \in 1 .. Closing => told[j] = "none"
    BY <2>2, MessageIs
  <2>4. \A n \in 1 .. 0 : FALSE
    OBVIOUS
  <2> QED
    BY <1>3, <1>4, <1>5, <2>1, <2>2, <2>3, <2>4 DEF Writes
<1>8. Resting(Outer) /\ Pulling(Outer + 1) /\ Outer \in 0 .. Outer
  BY <1>2, <1>4 DEF Resting, Pulling, Rest
<1>9. Shape
  BY <1>4, <1>8, CallIs DEF Shape, BrokenStay, UnderWay, AtRest, Leaving, Expecting, Dismissing, NextAsked
<1>10. \A r \in Results : \A k : ~OnWay(r, k)
  BY <1>4, CallIs, ResultsAre DEF OnWay
<1>11. (\A v \in Values : \A k : ~OnWay(Value(v), k)) /\ \A r \in {Done, Failed} : \A k : ~OnWay(r, k)
  BY <1>10, ValuesAreResults, DoneIsResult
<1>12. Content
  <2>1. \A x : ~Contains(taken, x)
    BY <1>4, ContainsEmpty
  <2>2. AllSeen = {}
    <3>1. \A m : m \notin 1 .. 0
      OBVIOUS
    <3>2. {got[m] : m \in 1 .. 0} = {}
      BY <3>1
    <3> QED
      BY <1>5, <3>2 DEF AllSeen, Seen
  <2>3. \A v \in Message : \A k : ~OnWay(Value(v), k)
    BY <1>11, MessageIs
  <2>4. \A j \in 1 .. Outer : pos[j] \notin Ended
    BY <1>4 DEF Ended
  <2>5. AllSeen = {k \in Wanted : Contains(taken, k)}
    BY <2>1, <2>2
  <2> QED
    BY <1>4, <1>11, <2>3, <2>4, <2>5 DEF Content
<1>13. FinalInv
  <2>1. ASSUME NEW i \in 1 .. Outer PROVE FinalAt(i)
    <3>1. FinalCalled(i)
      BY <1>4, <1>5 DEF FinalCalled
    <3>2. \A j \in i .. Outer : pos[j] \notin Ended
      BY <1>2, <1>4 DEF Ended
    <3>3. FinalAhead(i)
      BY <1>4, <1>5, <1>11, <3>2 DEF FinalAhead
    <3> QED
      BY <1>4, <1>5, <3>1, <3>3 DEF FinalAt
  <2> QED
    BY <2>1 DEF FinalInv
<1>14. ReadInOrder
  <2>1. \A x : ~Contains(taken, x)
    BY <1>4, ContainsEmpty
  <2>2. \A k \in 1 .. Closing : told[k] # "resolved"
    BY <1>4
  <2> QED
    BY <1>4, <1>5, <2>1, <2>2 DEF ReadInOrder
<1> QED
  BY <1>6, <1>7, <1>9, <1>12, <1>13, <1>14 DEF IterInv

\* A step is one of the writable iterable, of a stage, or of the consumer.
LEMMA StepIs ==
    ASSUME Next
    PROVE  WritableSteps \/ (\E s \in 1 .. Outer : Stage(s)) \/ ConsumerSteps
BY DEF Next, Writer, Microtask, WritableSteps, Stage, ConsumerSteps

LEMMA FinalStep ==
    ASSUME IterTypeOK, FinalInv, UNCHANGED plan,
           \A i \in 1 .. Outer : Kind(i) = "finally" /\ FinalAt(i) => FinalAt(i)'
    PROVE  FinalInv'
BY SamePlan DEF FinalInv

LEMMA IterNextInv ==
    ASSUME IterInv, [Next]_vars PROVE IterInv'
<1>1. IterTypeOK /\ Writes /\ Shape /\ Content /\ FinalInv /\ ReadInOrder
  BY DEF IterInv
<1>2. BrokenStay /\ UnderWay /\ AtRest /\ Leaving
  BY <1>1 DEF Shape
<1>3. CASE WritableSteps
  <2>1. IterTypeOK' /\ Writes' /\ Shape' /\ Content'
    BY <1>1, <1>3, WritableTypesStay, WritableWrites, WritableShape, WritableContent
  <2>2. FinalInv'
    BY <1>1, <1>3, WritableFinal, WritableLeaves, FinalStep
  <2>3. ReadInOrder'
    BY <1>1, <1>3, <2>1, WritableRead
  <2> QED
    BY <2>1, <2>2, <2>3 DEF IterInv
<1>4. ASSUME NEW s \in 1 .. Outer, Stage(s) PROVE IterInv'
  <2>1. IterTypeOK'
    BY <1>1, <1>4, StageTypes
  <2>2. Writes'
    BY <1>1, <1>4, StageLeaves, WritesSame DEF writable
  <2>3. Shape'
    BY <1>1, <1>2, <1>4, StageBrokenStay, StageUnderWay, StageAtRest, StageLeaving DEF Shape
  <2>4. Content'
    BY <1>1, <1>2, <1>4, StageContent
  <2>5. FinalInv'
    BY <1>1, <1>4, StageFinal, StageLeaves, FinalStep
  <2>6. ReadInOrder'
    BY <1>1, <1>2, <1>4, <2>1, <2>2, StageRead
  <2> QED
    BY <2>1, <2>2, <2>3, <2>4, <2>5, <2>6 DEF IterInv
<1>5. CASE ConsumerSteps
  <2>1. IterTypeOK' /\ Shape' /\ Content'
    BY <1>1, <1>5, ConsumerTypes, ConsumerShape, ConsumerContent
  <2>2. Writes'
    BY <1>1, <1>5, ConsumerLeaves, WritesSame DEF writable
  <2>3. FinalInv'
    BY <1>1, <1>5, ConsumerFinal, ConsumerLeaves, FinalStep
  <2>4. ReadInOrder'
    BY <1>1, <1>5, <2>1, <2>2, ConsumerRead
  <2> QED
    BY <2>1, <2>2, <2>3, <2>4 DEF IterInv
<1>6. CASE UNCHANGED vars
  <2>1. UNCHANGED <<plan, flagged, queue, waiting, error, closed, told, taken, pos, held,
                    token, broken, finals, first, consumer, got>>
    BY <1>6 DEF vars
  <2>2. IterTypeOK' /\ Writes' /\ ReadInOrder'
    BY <1>1, <2>1, WritesSame DEF IterTypeOK, ReadInOrder, Outer, writable, Wanted, Seen
  <2>3. Shape'
    BY <1>1, <2>1 DEF Shape, BrokenStay, UnderWay, AtRest, Leaving, Expecting, Dismissing,
      NextAsked, ResultGiven, SourcesClose, Waits, Resting, Pulling, Outer, Consumer
  <2>4. Content'
    BY <1>1, <2>1, ContentStays
  <2>5. FinalInv'
    BY <1>1, <2>1 DEF FinalInv, FinalAt, FinalCalled, FinalAhead, FinalKnown, OnWay, Expecting,
      Active, Outer, Consumer, Kind
  <2> QED
    BY <2>2, <2>3, <2>4, <2>5 DEF IterInv
<1> QED
  BY <1>3, <1>4, <1>5, <1>6, StepIs

\* The invariant: the writable iterable hands its writes on in order, one call or
\* one result is under way in the chain, what was read is seen or on its way, and
\* the stage that is to be told of the end is, before anything of it gets past.
THEOREM IterInvariance == Spec => []IterInv
<1>1. Init => IterInv
  BY IterInitInv
<1>2. IterInv /\ [Next]_vars => IterInv'
  BY IterNextInv
<1> QED
  BY <1>1, <1>2, PTL DEF Spec

LEMMA InvIsFinal ==
    ASSUME IterInv PROVE FinalTold
<1> SUFFICES ASSUME NEW i \in DOMAIN plan.stages, Kind(i) = "finally"
             PROVE  /\ Len(finals) <= 1
                    /\ consumer = "ended" => finals # <<>>
                    /\ finals # <<>> => (finals[1] = Failed <=> \E j \in broken : j < i)
                    /\ \A n \in DOMAIN got : got[n] = Appended => n = Len(got)
  BY DEF FinalTold
<1>1. i \in 1 .. Outer
  BY PlanHere DEF IterInv
<1>2. FinalAt(i)
  BY <1>1 DEF IterInv, FinalInv
<1> QED
  BY <1>2 DEF FinalAt, FinalCalled

\* The variables of a chain keep their types.
THEOREM IterTypes == Spec => []IterTypeOK
BY IterInvariance, PTL DEF IterInv

\* However writes, reads and failures are interleaved, in every chain: messages
\* arrive in the order of their writes, none lost or doubled, a write is resolved
\* if and only if its message was handed on, and who is told of the end without
\* a failure has every message.
THEOREM MessagesInOrder == Spec => []ReadInOrder
BY IterInvariance, PTL DEF IterInv

\* Whoever reads a response to its end finds that transformCatchFinally() was called
\* once, with an error if and only if a stage above it has failed, and that what
\* it appended came last.
THEOREM FinallyTold == Spec => []FinalTold
BY IterInvariance, InvIsFinal, PTL

=============================================================================
