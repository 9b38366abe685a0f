---------------------------- MODULE ClientRequest ----------------------------
(***************************************************************************)
(* One request of the client of dubbo-node, over HTTP/2 or HTTP/1.1        *)
(* (src/packages/dubbo-node/src/node-universal-client.ts): the sentinel    *)
(* that ties the abort signal, the request body, the stream and the        *)
(* response body together.  Over HTTP/1.1 the stream is the request object *)
(* of node with its connection.                                            *)
(*                                                                         *)
(* node delivers several frames of one read, and runs several callbacks of *)
(* one turn, before it runs the reactions of promises.  Reactions are      *)
(* therefore actions of their own (ResultRejected, GuardRuns, DestroyRuns, *)
(* ReaderGot, ReaderEof, ReaderLost) that any event may precede.  The      *)
(* exception is an event node puts off to a later phase of the event loop  *)
(* (WriteFails).                                                           *)
(*                                                                         *)
(* The session manager answers request() with a stream or an error; see    *)
(* Http2Session.  The body of a request has throw(), as those of all       *)
(* transports have.                                                        *)
(***************************************************************************)
EXTENDS Naturals

CONSTANTS
    MaxChunks,      \* bound: chunks of a response
    MaxMessages,    \* bound: messages of a request body
    EarlyClean      \* the server may reset a stream with NO_ERROR before it responds

ASSUME BoundsAssumption ==
    /\ MaxChunks \in Nat
    /\ MaxMessages \in Nat
    /\ EarlyClean \in BOOLEAN

VARIABLES
    http,       \* the version of HTTP
    signal,     \* the abort signal of the request
    sentinel,   \* the promise that settles when the request is over
    why,        \* what it was rejected with
    result,     \* the promise of the response
    stream,     \* the stream, as node reports it with "closed" and "close"
    guard,      \* the reaction that closes the stream when the sentinel rejects
    sink,       \* sinkRequest(): where it is
    unsent,     \* messages the caller's iterable still holds
    peer,       \* what the server has sent
    unread,     \* chunks of the response that node buffers
    arrived,    \* chunks of the response that have arrived
    taken,      \* chunks that next() has returned
    reader      \* the caller's iteration of the response body

vars == <<http, signal, sentinel, why, result, stream, guard, sink, unsent,
          peer, unread, arrived, taken, reader>>
sinkVars   == <<sink, unsent>>
inVars     == <<peer, unread, arrived>>
readerVars == <<taken, reader>>
settling   == <<sentinel, why>>

TypeOK ==
    /\ http \in {"1.1", "2"}
    /\ signal \in {"none", "live", "aborted"}
    /\ sentinel \in {"pending", "resolved", "rejected"}
    /\ why \in {"none", "canceled", "failed", "write"}
    /\ result \in {"pending", "resolved", "rejected"}
    /\ stream \in {"asked", "none", "open", "ended", "closing", "gone"}
    /\ guard \in {"off", "armed", "over"}
    /\ sink \in {"off", "pull", "write", "late", "end", "halted", "told", "failed"}
    /\ unsent \in 0 .. MaxMessages
    /\ peer \in {"silent", "responding", "ended"}
    /\ unread \in 0 .. MaxChunks
    /\ arrived \in 0 .. MaxChunks
    /\ taken \in 0 .. MaxChunks
    /\ reader \in {"none", "idle", "next", "got", "eof", "done", "failed"}

-----------------------------------------------------------------------------
(* The sentinel. *)

Reject(reason) ==
    /\ sentinel' = IF sentinel = "pending" THEN "rejected" ELSE sentinel
    /\ why' = IF sentinel = "pending" THEN reason ELSE why

Resolve ==
    /\ sentinel' = IF sentinel = "pending" THEN "resolved" ELSE sentinel
    /\ UNCHANGED why

\* A request over HTTP/2 for another origin than the session's asks for no
\* stream, and one over HTTP/1.1 is there before it has a connection.
CreateSentinel ==
    /\ sentinel = IF signal = "aborted" \/ stream = "none" THEN "rejected" ELSE "pending"
    /\ why = CASE signal = "aborted" -> "canceled"
               [] signal # "aborted" /\ stream = "none" -> "failed"
               [] OTHER -> "none"

StartHttp1 == http = "1.1" /\ stream = "asked" /\ guard = "armed"
StartHttp2 == http = "2" /\ stream \in {"asked", "none"} /\ guard = "off"

Init ==
    /\ signal \in {"none", "live", "aborted"}
    /\ StartHttp1 \/ StartHttp2
    /\ CreateSentinel
    /\ result = "pending"
    /\ sink = "off"
    /\ unsent \in 0 .. MaxMessages
    /\ peer = "silent"
    /\ unread = 0
    /\ arrived = 0
    /\ taken = 0
    /\ reader = "none"

\* An abort with a reason of its own, such as a deadline, is not a cancellation.
Abort ==
    /\ signal = "live"
    /\ signal' = "aborted"
    /\ \E reason \in {"canceled", "failed"} : Reject(reason)
    /\ UNCHANGED <<http, result, stream, guard, sinkVars, inVars, readerVars>>

Mut_ResultRejected ==
    /\ stream \notin {"asked", "none"}
    /\ sentinel = "rejected"
    /\ result = "pending"
    /\ result' = "rejected"
    /\ UNCHANGED <<http, signal, settling, stream, guard, sinkVars, inVars, readerVars>>

ResultRejected ==
    /\ sentinel = "rejected"
    /\ result = "pending"
    /\ result' = "rejected"
    /\ UNCHANGED <<http, signal, settling, stream, guard, sinkVars, inVars, readerVars>>

-----------------------------------------------------------------------------
(* The stream of HTTP/2. *)

Mut_NoGuardWhenOver ==
    /\ http = "2" /\ stream = "asked"
    /\ stream' = "open"
    /\ guard' = IF sentinel = "pending" THEN "armed" ELSE "off"
    /\ sink' \in {"end", IF sentinel = "rejected" THEN "halted" ELSE "pull"}
    /\ UNCHANGED <<http, signal, settling, result, unsent, inVars, readerVars>>

\* request() answers: the guard is attached, and the request body is started.
\* A request without a body only ends the stream.
RequestResolved ==
    /\ http = "2" /\ stream = "asked"
    /\ stream' = "open"
    /\ guard' = "armed"
    /\ sink' \in {"end", IF sentinel = "rejected" THEN "halted" ELSE "pull"}
    /\ UNCHANGED <<http, signal, settling, result, unsent, inVars, readerVars>>

RequestRejected ==
    /\ http = "2" /\ stream = "asked"
    /\ stream' = "none"
    /\ Reject("failed")
    /\ UNCHANGED <<http, signal, result, guard, sinkVars, inVars, readerVars>>

GuardRuns ==
    /\ http = "2" /\ guard = "armed"
    /\ sentinel = "rejected"
    /\ guard' = "over"
    /\ stream' = IF stream = "open" THEN "closing" ELSE stream
    /\ UNCHANGED <<http, signal, settling, result, sinkVars, inVars, readerVars>>

\* node emits "close": after a reset of ours, or when both sides have ended
\* and the response was read, or is not going to be.
StreamCloses ==
    /\ \/ stream = "closing"
       \/ stream = "ended" /\ (reader \in {"none", "eof", "done"} \/ sink = "told")
       \/ stream = "open" /\ peer = "ended" /\ sink = "end" /\ reader \in {"eof", "done"}
    /\ stream' = "gone"
    /\ UNCHANGED <<http, signal, settling, result, guard, sinkVars, inVars, readerVars>>

\* "error" of the session, or of a stream that it destroys.
SessionFails ==
    /\ http = "2"
    /\ stream \in {"open", "ended"}
    /\ stream' = "gone"
    /\ Reject("failed")
    /\ UNCHANGED <<http, signal, result, guard, sinkVars, inVars, readerVars>>

HeadArrives ==
    /\ stream = "open"
    /\ peer = "silent"
    /\ peer' = "responding"
    /\ result' = IF result = "pending" THEN "resolved" ELSE result
    /\ reader' = IF result = "pending" THEN "idle" ELSE reader
    /\ UNCHANGED <<http, signal, settling, stream, guard, sinkVars, unread, arrived, taken>>

PeerResponds == http = "2" /\ HeadArrives

PeerSends ==
    /\ stream = "open"
    /\ peer = "responding"
    /\ arrived < MaxChunks
    /\ arrived' = arrived + 1
    /\ unread' = unread + 1
    /\ UNCHANGED <<http, signal, settling, result, stream, guard, sinkVars, peer, readerVars>>

PeerEnds ==
    /\ stream = "open"
    /\ peer = "responding"
    /\ peer' = "ended"
    /\ UNCHANGED <<http, signal, settling, result, stream, guard, sinkVars, unread, arrived, readerVars>>

\* RST_STREAM with NO_ERROR: node ends the readable side and closes the
\* writable one; "close" follows when the response was read.
PeerResetsClean ==
    /\ http = "2" /\ stream = "open"
    /\ EarlyClean \/ peer # "silent"
    /\ stream' = "ended"
    /\ peer' = "ended"
    /\ UNCHANGED <<http, signal, settling, result, guard, sinkVars, unread, arrived, readerVars>>

Mut_NoCloseListener ==
    /\ http = "2"
    /\ stream = "open"
    /\ Reject("failed") \/ UNCHANGED settling
    /\ stream' = "gone"
    /\ UNCHANGED <<http, signal, result, guard, sinkVars, inVars, readerVars>>

\* RST_STREAM with another code: node destroys the stream.  CANCEL is no
\* error for node; the "close" listener makes it one.
PeerResets ==
    /\ http = "2" /\ stream = "open"
    /\ \E code \in {"canceled", "failed"} : Reject(code)
    /\ stream' = "gone"
    /\ UNCHANGED <<http, signal, result, guard, sinkVars, inVars, readerVars>>

-----------------------------------------------------------------------------
(* The request of HTTP/1.1. *)

\* The socket is there, or connects, unless the request was destroyed before.
SocketConnects ==
    /\ http = "1.1" /\ stream = "asked"
    /\ stream' = "open"
    /\ sink' \in {"end", IF sentinel = "rejected" THEN "halted" ELSE "pull"}
    /\ UNCHANGED <<http, signal, settling, result, guard, unsent, inVars, readerVars>>

ConnectFails ==
    /\ http = "1.1" /\ stream = "asked"
    /\ stream' = "none"
    /\ Reject("failed")
    /\ UNCHANGED <<http, signal, result, guard, sinkVars, inVars, readerVars>>

\* The request is destroyed, and the response with it.
DestroyRuns ==
    /\ http = "1.1" /\ guard = "armed"
    /\ sentinel = "rejected"
    /\ guard' = "over"
    /\ stream' = IF stream \in {"asked", "open"} THEN "closing" ELSE stream
    /\ UNCHANGED <<http, signal, settling, result, sinkVars, inVars, readerVars>>

ServerResponds == http = "1.1" /\ HeadArrives

\* The server closes the connection, or it breaks: an "error" of the request, or
\* of a response that is not complete.  A reset is an error of the request even
\* when it comes behind the response.
ConnectionCloses ==
    /\ http = "1.1" /\ stream = "open"
    /\ stream' = "gone"
    /\ Reject("failed") \/ (peer = "ended" /\ UNCHANGED settling)
    /\ UNCHANGED <<http, signal, result, guard, sinkVars, inVars, readerVars>>

-----------------------------------------------------------------------------
(* sinkRequest(). *)

\* The caller's iterable yields a message, which is written without another
\* look at the sentinel.  A write on a closed stream comes too late.
SourceYields ==
    /\ sink = "pull"
    /\ unsent > 0
    /\ unsent' = unsent - 1
    /\ sink' = IF stream = "open" THEN "write" ELSE "late"
    /\ UNCHANGED <<http, signal, settling, result, stream, guard, inVars, readerVars>>

SourceDone ==
    /\ sink = "pull"
    /\ unsent = 0
    /\ sink' = "end"
    /\ UNCHANGED <<http, signal, settling, result, stream, guard, unsent, inVars, readerVars>>

SourceFails ==
    /\ sink = "pull"
    /\ sink' = "failed"
    /\ Reject("failed")
    /\ UNCHANGED <<http, signal, result, stream, guard, unsent, inVars, readerVars>>

WriteDone ==
    /\ sink = "write"
    /\ stream \in {"open", "ended", "closing"}
    /\ sink' = IF sentinel = "rejected" THEN "halted" ELSE "pull"
    /\ UNCHANGED <<http, signal, settling, result, stream, guard, unsent, inVars, readerVars>>

\* A write that was under way when the stream was destroyed.  node fails it in
\* a later phase of the event loop than the one that emits "end" and "close".
WriteFails ==
    /\ sink = "write"
    /\ stream = "gone"
    /\ reader # "eof"
    /\ sink' = "halted"
    /\ Reject("write")
    /\ UNCHANGED <<http, signal, result, stream, guard, unsent, inVars, readerVars>>

Mut_LateWriteRejects ==
    /\ http = "2" /\ sink = "late"
    /\ sink' = "told"
    /\ Reject("write")
    /\ UNCHANGED <<http, signal, result, stream, guard, unsent, inVars, readerVars>>

\* ERR_STREAM_WRITE_AFTER_END: the iterable is told, the sentinel is not.
LateWriteFails ==
    /\ http = "2" /\ sink = "late"
    /\ sink' = "told"
    /\ UNCHANGED <<http, signal, settling, result, stream, guard, unsent, inVars, readerVars>>

\* ERR_STREAM_DESTROYED: that is what node makes of a write to a request of
\* HTTP/1.1 whose connection is closed.
DestroyedWriteFails ==
    /\ http = "1.1" /\ sink = "late"
    /\ sink' = "halted"
    /\ Reject("write")
    /\ UNCHANGED <<http, signal, result, stream, guard, unsent, inVars, readerVars>>

-----------------------------------------------------------------------------
(* The response body: next() races node's iterator against the sentinel. *)

ReaderNext ==
    /\ reader = "idle"
    /\ reader' = "next"
    /\ UNCHANGED <<http, signal, settling, result, stream, guard, sinkVars, inVars, taken>>

\* A complete response of HTTP/1.1 can be read when the connection is closed.
Readable == stream # "gone" \/ (http = "1.1" /\ peer = "ended")

\* node's iterator is first with a chunk, or with the end.
InnerValue ==
    /\ reader = "next"
    /\ sentinel = "pending"
    /\ Readable
    /\ unread > 0
    /\ unread' = unread - 1
    /\ reader' = "got"
    /\ UNCHANGED <<http, signal, settling, result, stream, guard, sinkVars, peer, arrived, taken>>

InnerEnd ==
    /\ reader = "next"
    /\ sentinel = "pending"
    /\ Readable
    /\ unread = 0
    /\ peer = "ended"
    /\ reader' = "eof"
    /\ UNCHANGED <<http, signal, settling, result, stream, guard, sinkVars, inVars, taken>>

\* node's iterator fails while the sentinel is pending: a write that came too
\* late makes the stream emit "error", which the client ignores.
InnerFails ==
    /\ reader = "next"
    /\ sentinel = "pending"
    /\ sink = "told"
    /\ reader' = "failed"
    /\ UNCHANGED <<http, signal, settling, result, stream, guard, sinkVars, inVars, taken>>

ReaderGot ==
    /\ reader = "got"
    /\ reader' = "idle"
    /\ taken' = taken + 1
    /\ UNCHANGED <<http, signal, settling, result, stream, guard, sinkVars, inVars>>

Mut_EofNotAwaited ==
    /\ reader = "eof"
    /\ Resolve
    /\ reader' = "done"
    /\ UNCHANGED <<http, signal, result, stream, guard, sinkVars, inVars, taken>>

\* The end resolves the sentinel and awaits it: an error that came between the
\* end and this reaction is thrown.
ReaderEof ==
    /\ reader = "eof"
    /\ Resolve
    /\ reader' = IF sentinel = "rejected" THEN "failed" ELSE "done"
    /\ UNCHANGED <<http, signal, result, stream, guard, sinkVars, inVars, taken>>

ReaderLost ==
    /\ reader = "next"
    /\ sentinel = "rejected"
    /\ reader' = "failed"
    /\ UNCHANGED <<http, signal, settling, result, stream, guard, sinkVars, inVars, taken>>

\* The caller's throw(): a transformation of the response failed.
ReaderThrow ==
    /\ reader = "idle"
    /\ reader' = "failed"
    /\ Reject("failed")
    /\ UNCHANGED <<http, signal, result, stream, guard, sinkVars, inVars, taken>>

-----------------------------------------------------------------------------
Reactions == ResultRejected \/ GuardRuns \/ DestroyRuns \/ ReaderGot \/ ReaderEof \/ ReaderLost

Session == RequestResolved \/ RequestRejected \/ StreamCloses \/ SessionFails

Peer == PeerResponds \/ PeerSends \/ PeerEnds \/ PeerResetsClean \/ PeerResets

Http1 == SocketConnects \/ ConnectFails \/ ServerResponds \/ ConnectionCloses

Sink ==
    \/ SourceYields \/ SourceDone \/ SourceFails
    \/ WriteDone \/ WriteFails \/ LateWriteFails \/ DestroyedWriteFails

Reader == ReaderNext \/ InnerValue \/ InnerEnd \/ InnerFails \/ ReaderThrow

Next == Abort \/ Reactions \/ Session \/ Peer \/ Http1 \/ Sink \/ Reader

\* Reactions run, node reports what it has closed, and the write of a
\* destroyed stream fails; over HTTP/1.1 node may forget it.  Nothing is assumed of the server, of the session
\* manager, or of the caller.
FairSpec ==
    /\ Init /\ [][Next]_vars
    /\ WF_vars(ResultRejected)
    /\ WF_vars(GuardRuns)
    /\ WF_vars(DestroyRuns)
    /\ WF_vars(ReaderGot)
    /\ WF_vars(ReaderEof)
    /\ WF_vars(ReaderLost)
    /\ WF_vars(StreamCloses)
    /\ WF_vars(http = "2" /\ WriteFails)
    /\ WF_vars(LateWriteFails)
    /\ WF_vars(DestroyedWriteFails)

Spec == Init /\ [][Next]_vars

-----------------------------------------------------------------------------
(* Properties. *)

\* The iteration of a response ends without an error only when the server has
\* ended it, every chunk was handed out, and nothing went wrong before: an
\* abort or a failed write between node's end and the reaction of next() is not
\* lost (h2ResponseIterable, "await sentinel").
CompleteOrFailed ==
    reader = "done" =>
        /\ sentinel = "resolved"
        /\ peer = "ended"
        /\ taken = arrived

\* A server that ends its response before it has read the request leaves the
\* client with writes that fail; they must not turn the response into an error
\* (sinkRequest, ERR_STREAM_WRITE_AFTER_END).  It is so over HTTP/2.
EarlyResponseKept ==
    http = "2" /\ result = "resolved" /\ peer = "ended" => why # "write"

\* The same over HTTP/1.1, where node reports another error: it is not so.
EarlyHttp1ResponseKept ==
    http = "1.1" /\ result = "resolved" /\ peer = "ended" => why # "write"

\* Once the request has failed, no further message is asked of the caller's
\* iterable (sinkRequest, isRejected()).
NoPullAfterReject ==
    [][sentinel = "rejected" /\ sink' = "pull" => sink = "pull"]_vars

\* A stream of a request that has failed is closed, also when request() answers
\* only after the failure (h2Request, stream.close(); h1Request, request.destroy()), and does not
\* stay on its way to a server (h1Request).
StreamReleased ==
    sentinel = "rejected" /\ (stream = "open" \/ (http = "1.1" /\ stream = "asked"))
        ~> stream \in {"ended", "closing", "gone", "none"}

\* The failure reaches the caller, who waits for the response or for a chunk.
CallerTold ==
    sentinel = "rejected" /\ (result = "pending" \/ reader = "next")
        ~> result # "pending" /\ reader # "next"

\* When the stream is gone, the promise of the response settles: a server that
\* closes before it responds rejects it (node-universal-client.spec.ts,
\* "against a server that closes immediately").
ResponseSettles == stream = "gone" ~> result # "pending"
=============================================================================
