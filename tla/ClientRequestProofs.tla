------------------------- MODULE ClientRequestProofs -------------------------
(***************************************************************************)
(* Proofs about ClientRequest, over HTTP/2 and HTTP/1.1, for any number of *)
(* chunks and messages.                                                    *)
(***************************************************************************)
EXTENDS ClientRequest, TLAPS

\* Every chunk that has arrived was handed out, waits to be, or is on its way
\* to the caller.
Accounted == arrived = unread + taken + (IF reader = "got" THEN 1 ELSE 0)

\* The end is seen, and then reported, only after the server's end and the last chunk.
EndIsLast ==
    /\ reader \in {"eof", "done"} => peer = "ended" /\ unread = 0
    /\ reader = "done" => sentinel = "resolved"
    /\ peer = "silent" => arrived = 0
    /\ result = "resolved" => reader # "none"
    /\ stream \in {"asked", "none"} => sink = "off"
    /\ http = "1.1" => sink # "told" /\ stream # "ended"
    /\ sink = "late" => stream \in {"ended", "closing", "gone"}

\* The cause of a rejection, and what is left to fail once the stream is gone.
Causes ==
    /\ why = "write" => stream = "gone"
    /\ stream = "closing" => sentinel = "rejected"
    /\ http = "2" /\ stream = "gone" /\ sentinel = "pending" /\ result = "resolved" =>
          reader = "eof" \/ sink \in {"told", "end"}

IInv == TypeOK /\ Accounted /\ EndIsLast /\ Causes /\ EarlyResponseKept

LEMMA Initial == Init => IInv
BY BoundsAssumption DEF Init, StartHttp1, StartHttp2, CreateSentinel, IInv, TypeOK,
        Accounted, EndIsLast, Causes, EarlyResponseKept

LEMMA Inductive == IInv /\ [Next]_vars => IInv'
<1> SUFFICES ASSUME IInv, [Next]_vars PROVE IInv'
  OBVIOUS
<1> USE BoundsAssumption DEF IInv, TypeOK, Accounted, EndIsLast, Causes, EarlyResponseKept,
        settling, sinkVars, inVars, readerVars
<1>1. CASE Abort
  BY <1>1 DEF Abort, Reject
<1>2. CASE Reactions
  <2>1. CASE ResultRejected
    BY <2>1 DEF ResultRejected
  <2>2. CASE GuardRuns
    BY <2>2 DEF GuardRuns
  <2>3. CASE ReaderGot
    BY <2>3 DEF ReaderGot
  <2>4. CASE ReaderEof
    BY <2>4 DEF ReaderEof, Resolve
  <2>5. CASE ReaderLost
    BY <2>5 DEF ReaderLost
  <2>6. CASE DestroyRuns
    BY <2>6 DEF DestroyRuns
  <2> QED
    BY <1>2, <2>1, <2>2, <2>3, <2>4, <2>5, <2>6 DEF Reactions
<1>3. CASE Session
  <2>1. CASE RequestResolved
    BY <2>1 DEF RequestResolved
  <2>2. CASE RequestRejected
    BY <2>2 DEF RequestRejected, Reject
  <2>3. CASE StreamCloses
    BY <2>3 DEF StreamCloses
  <2>4. CASE SessionFails
    BY <2>4 DEF SessionFails, Reject
  <2> QED
    BY <1>3, <2>1, <2>2, <2>3, <2>4 DEF Session
<1>4. CASE Peer
  <2>1. CASE PeerResponds
    BY <2>1 DEF PeerResponds, HeadArrives
  <2>2. CASE PeerSends
    BY <2>2 DEF PeerSends
  <2>3. CASE PeerEnds
    BY <2>3 DEF PeerEnds
  <2>4. CASE PeerResetsClean
    BY <2>4 DEF PeerResetsClean
  <2>5. CASE PeerResets
    BY <2>5 DEF PeerResets, Reject
  <2> QED
    BY <1>4, <2>1, <2>2, <2>3, <2>4, <2>5 DEF Peer
<1>5. CASE Sink
  <2>1. CASE SourceYields
    BY <2>1 DEF SourceYields
  <2>2. CASE SourceDone
    BY <2>2 DEF SourceDone
  <2>3. CASE SourceFails
    BY <2>3 DEF SourceFails, Reject
  <2>4. CASE WriteDone
    BY <2>4 DEF WriteDone
  <2>5. CASE WriteFails
    BY <2>5 DEF WriteFails, Reject
  <2>6. CASE LateWriteFails
    BY <2>6 DEF LateWriteFails
  <2>7. CASE DestroyedWriteFails
    BY <2>7 DEF DestroyedWriteFails, Reject
  <2> QED
    BY <1>5, <2>1, <2>2, <2>3, <2>4, <2>5, <2>6, <2>7 DEF Sink
<1>6. CASE Reader
  <2>1. CASE ReaderNext
    BY <2>1 DEF ReaderNext
  <2>2. CASE InnerValue
    BY <2>2 DEF InnerValue, Readable
  <2>3. CASE InnerEnd
    BY <2>3 DEF InnerEnd, Readable
  <2>4. CASE InnerFails
    BY <2>4 DEF InnerFails
  <2>5. CASE ReaderThrow
    BY <2>5 DEF ReaderThrow, Reject
  <2> QED
    BY <1>6, <2>1, <2>2, <2>3, <2>4, <2>5 DEF Reader
<1>7. CASE Http1
  <2>1. CASE SocketConnects
    BY <2>1 DEF SocketConnects
  <2>2. CASE ConnectFails
    BY <2>2 DEF ConnectFails, Reject
  <2>3. CASE ServerResponds
    BY <2>3 DEF ServerResponds, HeadArrives
  <2>4. CASE ConnectionCloses
    BY <2>4 DEF ConnectionCloses, Reject
  <2> QED
    BY <1>7, <2>1, <2>2, <2>3, <2>4 DEF Http1
<1>8. CASE UNCHANGED vars
  BY <1>8 DEF vars
<1> QED
  BY <1>1, <1>2, <1>3, <1>4, <1>5, <1>6, <1>7, <1>8 DEF Next

\* The request stays in the states of its description, and counts no chunk that
\* did not arrive, whatever the bounds.
THEOREM TypeCorrect == Spec => []TypeOK
<1>1. IInv => TypeOK
  BY DEF IInv
<1> QED
  BY Initial, Inductive, <1>1, PTL DEF Spec

\* The iteration of a response ends without an error only if it is complete and
\* the sentinel was not rejected: next() of h2ResponseIterable
\* and h1ResponseIterable.
THEOREM ReadingSound == Spec => []CompleteOrFailed
<1>1. IInv => CompleteOrFailed
  BY DEF IInv, TypeOK, Accounted, EndIsLast, CompleteOrFailed
<1> QED
  BY Initial, Inductive, <1>1, PTL DEF Spec

\* Writes that fail because the server has ended early never reject the
\* request over HTTP/2: sinkRequest.
THEOREM EarlyResponses == Spec => []EarlyResponseKept
<1>1. IInv => EarlyResponseKept
  BY DEF IInv
<1> QED
  BY Initial, Inductive, <1>1, PTL DEF Spec

\* No message is asked of the caller's iterable after the request has failed.
THEOREM PullsEnd == Spec => NoPullAfterReject
<1>1. [Next]_vars => [sentinel = "rejected" /\ sink' = "pull" => sink = "pull"]_vars
  <2> SUFFICES ASSUME Next, sentinel = "rejected", sink' = "pull" PROVE sink = "pull"
    OBVIOUS
  <2> QED
    BY DEF Next, Abort, Reactions, ResultRejected, GuardRuns, DestroyRuns, ReaderGot, ReaderEof, ReaderLost,
           Session, RequestResolved, RequestRejected, StreamCloses, SessionFails,
           Peer, PeerResponds, HeadArrives, PeerSends, PeerEnds, PeerResetsClean, PeerResets,
           Http1, SocketConnects, ConnectFails, ServerResponds, ConnectionCloses,
           Sink, SourceYields, SourceDone, SourceFails, WriteDone, WriteFails, LateWriteFails,
           DestroyedWriteFails,
           Reader, ReaderNext, InnerValue, InnerEnd, InnerFails, ReaderThrow, sinkVars
<1> QED
  BY <1>1, PTL DEF Spec, NoPullAfterReject
=============================================================================
