------------------------------ MODULE Iterables ------------------------------
(***************************************************************************)
(* Chains of asynchronous iterables: a writable iterable that user code    *)
(* writes messages to, the transforms that protocols put behind it, the    *)
(* pipes that hold them together, and the consumer that pulls messages out *)
(* of the last pipe, fails, or leaves.                                     *)
(*                                                                         *)
(* A pipe and a transform are generators: a call of next(), throw() or     *)
(* return() travels up the chain, and what it results in travels down, one *)
(* stage at a time.  Stage 0 is the writable iterable, the last stage is   *)
(* the pipe that the consumer holds.                                       *)
(*                                                                         *)
(* A message is its number, in the order of the writes.                    *)
(***************************************************************************)
EXTENDS Naturals, Sequences, SequencesExt, FiniteSetsExt

CONSTANTS
    MaxWrites,  \* bound: messages that user code writes
    MaxFaults   \* bound: messages that a transform fails on

ASSUME BoundsAssumption == MaxWrites \in Nat \ {0} /\ MaxFaults \in Nat

VARIABLES
    plan,      \* the chain, see Chains
    flagged,   \* messages that carry the end-of-stream flag
    queue,     \* writable: writes that nobody has read
    waiting,   \* writable: queueResolve, a reader waits for a write
    error,     \* writable: the reader has thrown
    closed,    \* writable: closed
    told,      \* state of the promise of every write, and of close()
    taken,     \* writes that were handed to the reader
    pos,       \* where every stage is suspended
    held,      \* how a stage completes that waits for its source to close
    token,     \* the call or the result that is under way
    broken,    \* stages that have failed on a message
    finals,    \* arguments of the calls of catchFinally()
    first,     \* the result that untilFirst() pushed back
    consumer,  \* the consumer
    got        \* values the consumer has received

vars == <<plan, flagged, queue, waiting, error, closed, told, taken, pos, held,
          token, broken, finals, first, consumer, got>>

writable == <<queue, waiting, error, closed, told, taken>>
chain == <<pos, held, broken, finals>>
reading == <<first, consumer, got>>

Message == 1 .. MaxWrites
Closing == MaxWrites + 1      \* the write that close() queues
Prepended == 0                \* the element that a transform prepends
Appended == MaxWrites + 2     \* the element that a transform appends

-----------------------------------------------------------------------------
(* Chains *)

\* The request of a streaming call: the transport normalizes the messages before
\* the interceptors, and again behind them.
RequestChain ==
    [stages |-> <<"normalize", "pipe", "normalize", "serialize", "compress", "pipe">>,
     propagate |-> TRUE, untilFirst |-> FALSE]

\* A Triple or gRPC-web handler reads the messages of a request, skips those
\* with the end-of-stream flag, and answers with an end-of-stream message.
HandlerChain ==
    [stages |-> <<"prepend", "parseSkipping", "invoke", "serialize", "finally",
                  "compress", "pipe">>,
     propagate |-> FALSE, untilFirst |-> TRUE]

\* A gRPC handler has trailers for that.
GrpcHandlerChain ==
    [stages |-> <<"prepend", "parse", "invoke", "serialize", "compress", "finally", "pipe">>,
     propagate |-> FALSE, untilFirst |-> TRUE]

\* The response of a streaming call.
ResponseChain == [stages |-> <<"parse", "pipe">>, propagate |-> TRUE, untilFirst |-> FALSE]

\* transformCatch(), transformAppend() and the end-of-stream flag that must
\* not be there are exported, and tested, but no protocol has them.
CatchChain == [stages |-> <<"parseStrict", "catch", "pipe">>,
               propagate |-> TRUE, untilFirst |-> FALSE]
AppendChain == [stages |-> <<"normalize", "append", "pipe">>,
                propagate |-> TRUE, untilFirst |-> FALSE]

Chains == {RequestChain, HandlerChain, GrpcHandlerChain, ResponseChain,
           CatchChain, AppendChain}

\* The pipe that the consumer holds.
Outer == Len(plan.stages)
Consumer == Outer + 1
Kind(i) == plan.stages[i]

\* Transforms that are a for-await loop close their source when they are left.
Loops == {"normalize", "serialize", "compress", "parse", "parseSkipping", "parseStrict",
          "invoke", "append", "prepend"}

\* What the pipe at stage i took for its source.
SourceOf(i) == Max({0} \cup {j \in 1 .. i - 1 : Kind(j) = "pipe"})

\* makeIterableAbortable() stands between stage i and its reader.
Abortable(i) == plan.propagate /\ (i = 0 \/ Kind(i) = "pipe") /\ i # Outer

-----------------------------------------------------------------------------
(* Calls and results *)

None == [at |-> 0, what |-> "none"]
Nothing == [what |-> "none"]
Ask(i, what) == [at |-> i, what |-> what]
Value(v) == [what |-> "value", value |-> v]
Done == [what |-> "done"]
Failed == [what |-> "error"]

\* The result of stage i goes to the pipe that aborts it, or to the next stage.
ReaderOf(i) ==
    IF \E j \in 1 .. Outer : pos[j] = "aborting" /\ SourceOf(j) = i
    THEN CHOOSE j \in 1 .. Outer : pos[j] = "aborting" /\ SourceOf(j) = i
    ELSE i + 1

Give(i, r) == [at |-> ReaderOf(i), what |-> "result", result |-> r]

Result(i, what) ==
    /\ i \in 1 .. Outer
    /\ token.at = i /\ token.what = "result" /\ token.result.what = what

-----------------------------------------------------------------------------
(* createWritableIterable() *)

PayloadOf(k) == IF k = Closing THEN Done ELSE Value(k)

\* process(): a reader that waits gets the write at once.
Process(k) ==
    \/ /\ error
       /\ told' = [told EXCEPT ![k] = "rejected"]
       /\ UNCHANGED <<queue, waiting, taken, token>>
    \/ /\ ~error /\ waiting
       /\ waiting' = FALSE
       /\ token' = Give(0, PayloadOf(k))
       /\ told' = [told EXCEPT ![k] = "resolved"]
       /\ taken' = Append(taken, k)
       /\ UNCHANGED queue
    \/ /\ ~error /\ ~waiting
       /\ queue' = Append(queue, k)
       /\ told' = [told EXCEPT ![k] = "pending"]
       /\ UNCHANGED <<waiting, taken, token>>

Write(k) ==
    /\ ~closed
    /\ told[k] = "none" /\ \A j \in 1 .. k - 1 : told[j] # "none"
    /\ Process(k)
    /\ UNCHANGED <<plan, flagged, error, closed, chain, reading>>

Close ==
    /\ ~closed
    /\ closed' = TRUE
    /\ Process(Closing)
    /\ UNCHANGED <<plan, flagged, error, chain, reading>>

NextOfWritable ==
    /\ token = Ask(0, "next")
    /\ \/ /\ error
          /\ token' = Give(0, Failed)
          /\ UNCHANGED <<queue, waiting, told, taken>>
       \/ /\ ~error /\ queue = <<>>
          /\ waiting' = TRUE
          /\ token' = None
          /\ UNCHANGED <<queue, told, taken>>
       \/ /\ ~error /\ queue # <<>>
          /\ queue' = Tail(queue)
          /\ told' = [told EXCEPT ![queue[1]] = "resolved"]
          /\ taken' = Append(taken, queue[1])
          /\ token' = Give(0, PayloadOf(queue[1]))
          /\ UNCHANGED waiting
    /\ UNCHANGED <<plan, flagged, error, closed, chain, reading>>

\* A plausible bug: the writes in the queue are dropped, and nobody is told.
Mut_QueueDropped(t, q) == t

\* The reader has failed: nobody reads what is in the queue.
Drained(t, q) == [k \in DOMAIN t |-> IF Contains(q, k) THEN "rejected" ELSE t[k]]

ThrowOfWritable ==
    /\ token = Ask(0, "throw")
    /\ error' = TRUE
    /\ told' = Drained(told, queue)
    /\ queue' = <<>>
    /\ token' = Give(0, Done)
    /\ UNCHANGED <<plan, flagged, waiting, closed, taken, chain, reading>>

-----------------------------------------------------------------------------
(* Stages *)

Finish(i, r) ==
    /\ pos' = [pos EXCEPT ![i] = "done"]
    /\ token' = Give(i, r)

Yield(i, where, v) ==
    /\ pos' = [pos EXCEPT ![i] = where]
    /\ token' = Give(i, Value(v))

\* A for-await loop that is left calls return() of its source, if there is one.
\* The writable iterable has none, and makeIterableAbortable() offers return()
\* exactly for sources that have none: the call of it raises an error.
CloseSource(i, how) ==
    /\ pos' = [pos EXCEPT ![i] = "closing"]
    /\ held' = [held EXCEPT ![i] = how]
    /\ token' = IF i - 1 = 0 \/ Abortable(i - 1)
                THEN [at |-> i, what |-> "result",
                      result |-> IF i - 1 = 0 /\ plan.propagate THEN Failed ELSE Done]
                ELSE Ask(i - 1, "return")

\* transformPrepend(): what is provided may be nothing, or an error: the handlers
\* raise what is wrong with the headers there.
PrependFirst(i) ==
    \/ /\ Yield(i, "before", Prepended)
       /\ UNCHANGED broken
    \/ /\ Cardinality(broken) < MaxFaults
       /\ Finish(i, Failed)
       /\ broken' = broken \cup {i}

NextOf(i) ==
    /\ token = Ask(i, "next")
    /\ \/ pos[i] = "start" /\ Kind(i) = "prepend" /\ PrependFirst(i)
       \/ /\ pos[i] \in {"start", "before", "yield"}
          /\ pos' = [pos EXCEPT ![i] = "pull"]
          /\ token' = Ask(i - 1, "next")
          /\ UNCHANGED broken
       \/ /\ pos[i] \in {"after", "done"}
          /\ Finish(i, Done)
          /\ UNCHANGED broken
    /\ UNCHANGED <<plan, flagged, held, finals, writable, reading>>

\* throw() of a pipe: it aborts the source, and the stages between the two stay
\* suspended.  A generator that has not started runs nothing.
ThrowOf(i) ==
    /\ token = Ask(i, "throw")
    /\ \/ /\ pos[i] = "yield" /\ plan.propagate
          /\ pos' = [pos EXCEPT ![i] = "aborting"]
          /\ token' = Ask(SourceOf(i), "throw")
       \/ /\ ~(pos[i] = "yield" /\ plan.propagate)
          /\ Finish(i, Failed)
    /\ UNCHANGED <<plan, flagged, held, broken, finals, writable, reading>>

\* return() of stage i: a loop closes its source; pipes and the transforms that
\* catch errors call next() of theirs by hand, and leave it as it is.
ReturnOf(i) ==
    /\ token = Ask(i, "return")
    /\ \/ /\ pos[i] = "yield" /\ Kind(i) \in Loops
          /\ CloseSource(i, Done)
       \/ /\ ~(pos[i] = "yield" /\ Kind(i) \in Loops)
          /\ Finish(i, Done)
          /\ UNCHANGED held
    /\ UNCHANGED <<plan, flagged, broken, finals, writable, reading>>

\* An element with the end-of-stream flag, if no value of it is wanted.
Skips(i, v) == Kind(i) = "parseSkipping" /\ v \in flagged
Refuses(i, v) == Kind(i) = "parseStrict" /\ v \in flagged

\* Elements that a transform cannot convert.
NormalizeFails(i) == Kind(i) = "normalize"
SerializeFails(i) == Kind(i) = "serialize"
CompressFails(i) == Kind(i) = "compress"
ParseFails(i) == Kind(i) \in {"parse", "parseSkipping", "parseStrict"}
InvokeFails(i) == Kind(i) = "invoke"

Fails(i) ==
    /\ Cardinality(broken) < MaxFaults
    /\ NormalizeFails(i) \/ SerializeFails(i) \/ CompressFails(i) \/ ParseFails(i)
       \/ InvokeFails(i)

ValueAt(i) ==
    /\ Result(i, "value") /\ pos[i] = "pull"
    /\ LET v == token.result.value
       IN \/ /\ Skips(i, v)
             /\ token' = Ask(i - 1, "next")
             /\ UNCHANGED <<pos, held, broken>>
          \/ /\ Refuses(i, v) \/ Fails(i)
             /\ CloseSource(i, Failed)
             /\ broken' = broken \cup {i}
          \/ /\ ~Skips(i, v) /\ ~Refuses(i, v)
             /\ Yield(i, "yield", v)
             /\ UNCHANGED <<held, broken>>
    /\ UNCHANGED <<plan, flagged, finals, writable, reading>>

\* catchFinally(): called with the error, or with nothing, and may answer with
\* one more value.
CatchFinally(i, r) ==
    /\ finals' = Append(finals, r)
    /\ Yield(i, "after", Appended) \/ Finish(i, Done)

\* A plausible bug: transformCatchFinally() does what transformCatch() does.
Mut_OnlyErrorsFinal(i) ==
    /\ Result(i, "done") /\ pos[i] = "pull"
    /\ \/ Kind(i) = "append" /\ Yield(i, "after", Appended)
       \/ Finish(i, Done)
    /\ UNCHANGED <<plan, flagged, held, finals, broken, writable, reading>>

\* transformAppend(): what is provided may be nothing.
AppendLast(i) ==
    /\ Yield(i, "after", Appended) \/ Finish(i, Done)
    /\ UNCHANGED finals

\* transformCatch(): the error is answered with a last value, or with nothing.
CatchError(i) ==
    /\ Yield(i, "after", Appended) \/ Finish(i, Done)
    /\ UNCHANGED finals

DoneAt(i) ==
    /\ Result(i, "done") /\ pos[i] = "pull"
    /\ \/ Kind(i) = "finally" /\ CatchFinally(i, Done)
       \/ Kind(i) = "append" /\ AppendLast(i)
       \/ Kind(i) \notin {"finally", "append"} /\ Finish(i, Done) /\ UNCHANGED finals
    /\ UNCHANGED <<plan, flagged, held, broken, writable, reading>>

ErrorAt(i) ==
    /\ Result(i, "error") /\ pos[i] = "pull"
    /\ \/ Kind(i) = "finally" /\ CatchFinally(i, Failed)
       \/ Kind(i) = "catch" /\ CatchError(i)
       \/ Kind(i) \notin {"finally", "catch"} /\ Finish(i, Failed) /\ UNCHANGED finals
    /\ UNCHANGED <<plan, flagged, held, broken, writable, reading>>

\* The source is closed: an error of that replaces a return, not an error.
ClosedAt(i) ==
    /\ token.at = i /\ token.what = "result" /\ pos[i] = "closing"
    /\ Finish(i, IF token.result = Failed THEN Failed ELSE held[i])
    /\ UNCHANGED <<plan, flagged, held, broken, finals, writable, reading>>

\* The source is aborted: "rethrown", "completed" and "caught" are all the same.
AbortedAt(i) ==
    /\ token.at = i /\ token.what = "result" /\ pos[i] = "aborting"
    /\ Finish(i, Failed)
    /\ UNCHANGED <<plan, flagged, held, broken, finals, writable, reading>>

-----------------------------------------------------------------------------
(* Consumers *)

Arrived == token.at = Consumer /\ token.what = "result"

Receive(r) ==
    /\ consumer' = CASE r.what = "value" -> "idle"
                     [] r.what = "done" -> "ended"
                     [] r.what = "error" -> "failed"
    /\ got' = IF r.what = "value" THEN Append(got, r.value) ELSE got

\* A plausible bug: untilFirst() does not push the first element back.
Mut_FirstLost ==
    /\ consumer = "opening" /\ Arrived
    /\ token' = None
    /\ consumer' = IF token.result = Failed THEN "failed" ELSE "idle"
    /\ UNCHANGED <<plan, flagged, writable, chain, first, got>>

\* untilFirst(): the handler answers once there is a first result.
FirstArrives ==
    /\ consumer = "opening" /\ Arrived
    /\ token' = None
    /\ \/ /\ token.result = Failed
          /\ consumer' = "failed"
          /\ UNCHANGED first
       \/ /\ token.result # Failed
          /\ first' = token.result
          /\ consumer' = "idle"
    /\ UNCHANGED <<plan, flagged, writable, chain, got>>

ConsumerNext ==
    /\ consumer = "idle" /\ token = None
    /\ \/ /\ first # Nothing
          /\ first' = Nothing
          /\ Receive(first)
          /\ UNCHANGED token
       \/ /\ first = Nothing
          /\ token' = Ask(Outer, "next")
          /\ consumer' = "waiting"
          /\ UNCHANGED <<first, got>>
    /\ UNCHANGED <<plan, flagged, writable, chain>>

ResultArrives ==
    /\ consumer = "waiting" /\ Arrived
    /\ token' = None
    /\ Receive(token.result)
    /\ UNCHANGED <<plan, flagged, first, writable, chain>>

\* The consumer failed on an element: sinkRequest() throws when the stream is
\* closed under the write of one.
ConsumerThrow ==
    /\ consumer = "idle" /\ token = None /\ got # <<>>
    /\ consumer' = "threw"
    /\ token' = Ask(Outer, "throw")
    /\ UNCHANGED <<plan, flagged, writable, chain, first, got>>

\* The consumer left its for-await loop.
ConsumerLeave ==
    /\ consumer = "idle" /\ token = None /\ got # <<>>
    /\ consumer' = "left"
    /\ token' = Ask(Outer, "return")
    /\ UNCHANGED <<plan, flagged, writable, chain, first, got>>

Dismissed ==
    /\ consumer \in {"threw", "left"} /\ Arrived
    /\ token' = None
    /\ UNCHANGED <<plan, flagged, writable, chain, reading>>

-----------------------------------------------------------------------------

Init ==
    /\ plan \in Chains
    /\ flagged \in SUBSET Message
    /\ queue = <<>> /\ waiting = FALSE /\ error = FALSE /\ closed = FALSE
    /\ told = [k \in 1 .. Closing |-> "none"]
    /\ taken = <<>>
    /\ pos = [i \in 1 .. Outer |-> "start"]
    /\ held = [i \in 1 .. Outer |-> Nothing]
    /\ broken = {} /\ finals = <<>>
    /\ first = Nothing /\ got = <<>>
    /\ consumer = IF plan.untilFirst THEN "opening" ELSE "idle"
    /\ token = IF plan.untilFirst THEN Ask(Outer, "next") ELSE None

Writer == Close \/ \E k \in Message : Write(k)

\* What the event loop runs by itself.
Microtask ==
    \/ NextOfWritable \/ ThrowOfWritable
    \/ \E i \in 1 .. Outer :
           \/ NextOf(i) \/ ThrowOf(i) \/ ReturnOf(i)
           \/ ValueAt(i) \/ DoneAt(i) \/ ErrorAt(i)
           \/ ClosedAt(i) \/ AbortedAt(i)
    \/ FirstArrives \/ ResultArrives \/ Dismissed

Next == Writer \/ Microtask \/ ConsumerNext \/ ConsumerThrow \/ ConsumerLeave

Spec == Init /\ [][Next]_vars /\ WF_vars(Microtask)

-----------------------------------------------------------------------------
(* Properties *)

\* The messages that a consumer is to have, and those that it has.
Wanted == IF Contains(plan.stages, "parseSkipping") THEN Message \ flagged ELSE Message
Seen(n) == {got[m] : m \in 1 .. n} \cap Message

\* Messages go through the chain in the order of their writes, none is lost or
\* doubled on the way - not the one that untilFirst() pulls ahead either - and
\* a write is resolved if and only if its message was handed on.  A consumer
\* that is told of the end without a failure has every message.
\* (createWritableIterable(), untilFirst(), the transforms)
ReadInOrder ==
    /\ \A i \in DOMAIN taken : taken[i] = (IF taken[i] = Closing THEN Closing ELSE i)
    /\ \A k \in 1 .. Closing : told[k] = "resolved" <=> Contains(taken, k)
    /\ \A n \in DOMAIN got : got[n] \in Message =>
          /\ got[n] \in Wanted /\ Contains(taken, got[n])
          /\ Seen(n - 1) = {k \in Wanted : k < got[n]}
    /\ consumer = "ended" /\ broken = {} =>
          /\ closed
          /\ Seen(Len(got)) = {k \in Wanted : told[k] # "none"}

\* The end of a response is told once, and truly: whoever reads a response to
\* its end finds that transformCatchFinally() was called exactly once, with an
\* error if and only if a stage above it has failed, and what it appended is
\* the last element.
FinalTold ==
    \A i \in DOMAIN plan.stages : Kind(i) = "finally" =>
        /\ Len(finals) <= 1
        /\ consumer = "ended" => finals # <<>>
        /\ finals # <<>> => (finals[1] = Failed <=> \E j \in broken : j < i)
        /\ \A n \in DOMAIN got : got[n] = Appended => n = Len(got)

\* A writer does not wait for a reader that has failed: when the consumer
\* throws, every write that is under way settles, through all pipes of the
\* chain.  (pipe() with propagateDownStreamError, makeIterableAbortable())
WritersSettle ==
    consumer = "threw" /\ plan.propagate ~> \A k \in 1 .. Closing : told[k] # "pending"

=============================================================================
