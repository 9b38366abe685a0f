---------------------------- MODULE EnvelopeReader ----------------------------
(***************************************************************************)
(* Enveloped messages on their way through the bytes of a body: what       *)
(* envelopeCompress() and encodeEnvelope() have written, and how it is     *)
(* read from chunks that know nothing of envelopes.  Two readers exist:    *)
(*   "split"   transformSplitEnvelope() and transformDecompressEnvelope()  *)
(*             of src/packages/dubbo/src/protocol/async-iterable.ts,       *)
(*   "stream"  createEnvelopeReadableStream() of envelope.ts in the same   *)
(*             directory, which the browser transports use.                *)
(*                                                                         *)
(* A byte is its offset in the body.  Sizes stay below 2^31.               *)
(***************************************************************************)
EXTENDS Naturals, Sequences

CONSTANTS
    Readers,        \* the readers to consider: a subset of {"split", "stream"}
    Sizes,          \* sizes of messages
    PackedSizes,    \* sizes a compression may give a message
    MaxMessages,    \* bound: messages of a body
    ReadMaxBytes    \* the option of the same name, for the reader "split"

ASSUME ReaderAssumption ==
    /\ Readers \subseteq {"split", "stream"}
    /\ Sizes \subseteq Nat
    /\ PackedSizes \subseteq Nat
    /\ MaxMessages \in Nat
    /\ ReadMaxBytes \in Nat

VARIABLES
    reader,     \* the reader, and whether it was given a compression
    body,       \* the envelopes that were written
    end,        \* where the body ends for the reader: it may be cut anywhere
    arrived,    \* bytes that have arrived
    front,      \* the first byte of the reader's buffer
    out,        \* what the reader has yielded, as ranges of bytes and sizes
    state       \* "reading", or how the reader has ended

readerVars == <<reader, body, end, arrived, front, out, state>>

Header == 5

\* A message of the given size as envelopeCompress() leaves it: flagged and of
\* another size when there is a compression and the message is large enough.
Envelopes ==
    [size : Sizes, wire : PackedSizes, packed : {TRUE}]
        \cup {[size |-> n, wire |-> n, packed |-> FALSE] : n \in Sizes}

Bodies == UNION {[1 .. n -> Envelopes] : n \in 0 .. MaxMessages}

\* Where the k-th envelope starts, and, behind the last one, where the body ends.
Starts(envs) ==
    LET start[k \in 1 .. Len(envs) + 1] ==
            IF k = 1 THEN 0 ELSE start[k - 1] + Header + envs[k - 1].wire
    IN  start

\* The browser transports neither send nor accept a compression.
ReaderInit ==
    /\ reader \in [kind : Readers, unpacks : BOOLEAN]
    /\ body \in Bodies
    /\ reader.kind = "stream" =>
          ~reader.unpacks /\ \A k \in 1 .. Len(body) : ~body[k].packed
    /\ end \in 0 .. Starts(body)[Len(body) + 1]
    /\ arrived = 0
    /\ front = 0
    /\ out = <<>>
    /\ state = "reading"

Buffered == arrived - front

\* What the bytes at an offset say of an envelope: nothing that can be relied on
\* unless an envelope starts there.
HeadersAt(offset) ==
    LET here == {k \in 1 .. Len(body) : Starts(body)[k] = offset}
    IN  IF here = {} THEN Envelopes ELSE {body[k] : k \in here}

PeekHeader(h) ==
    /\ Buffered >= Header
    /\ h \in HeadersAt(front)

Complete(h) == Buffered >= Header + h.wire

\* The envelope at the front is taken off the buffer: its data are the bytes
\* that follow its header, as far as the buffer has them.
Data(h) ==
    LET from == front + Header
        to   == IF Complete(h) THEN from + h.wire ELSE arrived
    IN  [from |-> from, to |-> to, size |-> IF h.packed THEN h.size ELSE to - from]

Mut_ShiftPayloadOnly(h) == front' = front + h.wire

Shift(h) == front' = Data(h).to

-----------------------------------------------------------------------------
(* A pull of either reader goes on until an envelope is complete. *)

Waiting ==
    \/ Buffered < Header
    \/ \E h \in Envelopes : PeekHeader(h) /\ ~Complete(h)

\* assertReadMaxBytes(), before the payload has arrived.
WithinLimit(h) == reader.kind = "split" => h.wire <= ReadMaxBytes

Chunk(n) ==
    /\ state = "reading"
    /\ Waiting
    /\ \A h \in Envelopes : PeekHeader(h) => WithinLimit(h)
    /\ arrived + n <= end
    /\ arrived' = arrived + n
    /\ UNCHANGED <<reader, body, end, front, out, state>>

TooLarge(h) ==
    /\ state = "reading"
    /\ PeekHeader(h)
    /\ ~WithinLimit(h)
    /\ state' = "large"
    /\ UNCHANGED <<reader, body, end, arrived, front, out>>

TakeOff(h) ==
    /\ state = "reading"
    /\ PeekHeader(h)
    /\ WithinLimit(h)
    /\ Complete(h)
    /\ Shift(h)
    /\ UNCHANGED <<reader, body, end, arrived>>

\* An envelope is passed on as it is, or decompressed by a compression that
\* keeps to the limit.
Deliver(h) ==
    /\ TakeOff(h)
    /\ reader.kind = "split" /\ h.packed => reader.unpacks /\ h.size <= ReadMaxBytes
    /\ out' = Append(out, Data(h))
    /\ UNCHANGED state

Unpackable(h) ==
    /\ TakeOff(h)
    /\ reader.kind = "split"
    /\ h.packed
    /\ ~reader.unpacks \/ h.size > ReadMaxBytes
    /\ state' = IF reader.unpacks THEN "large" ELSE "unknown"
    /\ UNCHANGED out

Exhausted ==
    /\ state = "reading"
    /\ Waiting
    /\ arrived = end

Mut_EndUnchecked ==
    /\ Exhausted
    /\ reader.kind = "split"
    /\ \A h \in Envelopes : PeekHeader(h) => WithinLimit(h)
    /\ state' = "closed"
    /\ UNCHANGED <<reader, body, end, arrived, front, out>>

SplitEnd ==
    /\ Exhausted
    /\ reader.kind = "split"
    /\ \A h \in Envelopes : PeekHeader(h) => WithinLimit(h)
    /\ state' = IF Buffered = 0 THEN "closed" ELSE "incomplete"
    /\ UNCHANGED <<reader, body, end, arrived, front, out>>

\* pull(): what is there of an envelope whose header is complete is enqueued.
StreamEnd ==
    /\ Exhausted
    /\ reader.kind = "stream"
    /\ IF Buffered < Header
       THEN /\ state' = IF Buffered = 0 THEN "closed" ELSE "incomplete"
            /\ UNCHANGED <<front, out>>
       ELSE /\ \E h \in Envelopes :
                  PeekHeader(h) /\ Shift(h) /\ out' = Append(out, Data(h))
            /\ UNCHANGED state
    /\ UNCHANGED <<reader, body, end, arrived>>

ReaderNext ==
    \/ \E n \in 1 .. end - arrived : Chunk(n)
    \/ \E h \in Envelopes : TooLarge(h) \/ Deliver(h) \/ Unpackable(h)
    \/ SplitEnd
    \/ StreamEnd

ReaderSpec == ReaderInit /\ [][ReaderNext]_readerVars

-----------------------------------------------------------------------------
(* Properties. *)

Yielded ==
    /\ Len(out) <= Len(body)
    /\ \A k \in 1 .. Len(out) :
          out[k] = [from |-> Starts(body)[k] + Header,
                    to   |-> Starts(body)[k + 1],
                    size |-> body[k].size]

\* What transformSplitEnvelope() yields is, in order, the data of the envelopes
\* that were written, each of them whole, however the body was cut into chunks and
\* wherever it ends, and none is larger than readMaxBytes, compressed or not; and
\* so does createEnvelopeReadableStream() of a whole body, which knows no limit.
WholeEnvelopes ==
    /\ reader.kind = "split" \/ end = Starts(body)[Len(body) + 1] => Yielded
    /\ reader.kind = "split" => \A k \in 1 .. Len(out) : out[k].size <= ReadMaxBytes

\* createEnvelopeReadableStream() is "a WHATWG ReadableStream of enveloped
\* messages" (envelope.ts:39) and fails with "premature end of stream"
\* (envelope.ts:89) when the body ends before an envelope does.
PrematureEndFails == reader.kind = "stream" => Yielded

\* "The iterable raises an error if the payload of an enveloped message is larger
\* than readMaxBytes, if the stream ended before an enveloped message fully
\* arrived, or if the stream ended with extraneous data" (async-iterable.ts:997-1000),
\* and in no other case than these and a compression it does not know: the
\* first envelope that has one of these faults decides.
SplitResult ==
    LET at(k)    == Starts(body)[k]
        here(k)  == k <= Len(body) /\ at(k) + Header <= end
        whole(k) == k <= Len(body) /\ at(k + 1) <= end
        last     == Len(out) + 1
    IN  reader.kind = "split" /\ state # "reading" =>
            CASE here(last) /\ body[last].wire > ReadMaxBytes -> state = "large"
              [] whole(last) /\ body[last].wire <= ReadMaxBytes ->
                    /\ body[last].packed
                    /\ state = IF reader.unpacks THEN "large" ELSE "unknown"
                    /\ reader.unpacks => body[last].size > ReadMaxBytes
              [] ~whole(last) /\ ~(here(last) /\ body[last].wire > ReadMaxBytes) ->
                    state = IF at(last) = end THEN "closed" ELSE "incomplete"

=============================================================================
