------------------------ MODULE StreamingCallProofs ------------------------
(***************************************************************************)
(* StreamingCall implements RpcCall, for any number of messages, and its   *)
(* safety properties hold.                                                 *)
(***************************************************************************)
EXTENDS StreamingCall, TLAPS

\* Until the exchange breaks, every response message was received or is on the
\* wire; then some may be lost, but none is invented, in either direction.
Counted ==
    /\ up + taken <= sent
    /\ got + wire <= made
    /\ http = "open" => made = got + wire

\* Where the handler is when the outcome is known, and when the end is written.
HandlerOrder ==
    /\ outcome # "none" <=> hnd \in {"final", "ending", "over"}
    /\ ended = "yes" => hnd = "over"

\* The end carries the outcome, and is read behind the last message.
EndCarriesOutcome ==
    /\ tail # "none" =>
          tail = outcome /\ hnd \in {"ending", "over"} /\ protocol # "grpc" /\ made = got + wire
    /\ endSeen = "yes" => outcome = "ok" /\ hnd \in {"ending", "over"} /\ tail = "none" /\ wire = 0 /\ made = got
    /\ trailer # "none" => trailer = outcome
    /\ ended = "yes" /\ protocol = "grpc" => trailer # "none"

IInv == TypeOK /\ Counted /\ HandlerOrder /\ EndCarriesOutcome

\* A step of StreamingCall seen as one of RpcCall.
Simulates == Rpc!Next \/ UNCHANGED Rpc!vars

USE DEF config, sourceVars, callerVars, downVars, serverVars

LEMMA Initial == Init => IInv /\ Rpc!Init
<1> SUFFICES ASSUME Init PROVE IInv /\ Rpc!Init
  OBVIOUS
<1>1. TypeOK
  BY BoundsAssumption DEF Init, TypeOK, Status
<1>2. Counted /\ HandlerOrder
  BY DEF Init, Counted, HandlerOrder
<1>3. EndCarriesOutcome
  BY DEF Init, EndCarriesOutcome
<1>4. Rpc!Init
  BY DEF Init, Rpc!Init, Active
<1> QED
  BY <1>1, <1>2, <1>3, <1>4 DEF IInv

\* Steps that only the network and the caller's side take part in: nothing is
\* received, and a call that was active goes on or ends with an error.
LEMMA Quiet ==
    ASSUME UNCHANGED <<protocol, made, got, outcome>>,
           \/ UNCHANGED <<app, http>>
           \/ UNCHANGED app /\ protocol # "grpc"
           \/ UNCHANGED app /\ http = "open"
           \/ app \in {"wait", "reading"} /\ app' \in {"error", "left"} /\ (UNCHANGED http \/ (http = "open" /\ http' = "reset"))
           \/ app = "wait" /\ app' = "reading" /\ UNCHANGED http
    PROVE  Simulates
BY DEF Simulates, Rpc!Next, Rpc!GiveUp, Rpc!Cut, Rpc!vars, Active

\* A broken exchange may lose messages, and the end behind them first of all.
LEMMA Breaks ==
    ASSUME TypeOK, NEW state, Break(state)
    PROVE  /\ http = "open" /\ http' = state
           /\ UNCHANGED <<trailer, ended>>
           /\ wire' \in Nat /\ wire' <= wire
           /\ tail' = tail \/ tail' = "none"
           /\ tail' # "none" => wire' = wire
BY DEF TypeOK, Break

LEMMA RequestStep ==
    ASSUME IInv, Request
    PROVE  IInv'
<1> USE BoundsAssumption DEF IInv, TypeOK, Status, Counted, HandlerOrder, EndCarriesOutcome
<1>1. CASE Send
  BY <1>1 DEF Send
<1>2. CASE SendDone
  BY <1>2 DEF SendDone
<1>3. CASE SourceFails
  <2>1. CASE Listening
    <3>1. Break("reset")
      BY <1>3, <2>1 DEF SourceFails
    <3> QED
      BY <1>3, <3>1, Breaks DEF SourceFails, Because
  <2>2. CASE ~Listening
    BY <1>3, <2>2 DEF SourceFails, Because
  <2> QED
    BY <2>1, <2>2
<1> QED
  BY <1>1, <1>2, <1>3 DEF Request

LEMMA InterruptStep ==
    ASSUME IInv, Interrupt
    PROVE  IInv'
<1> USE BoundsAssumption DEF IInv, TypeOK, Status, Counted, HandlerOrder, EndCarriesOutcome
<1>1. CASE CallerAborts
  <2>1. Break("reset")
    BY <1>1 DEF CallerAborts
  <2> QED
    BY <1>1, <2>1, Breaks DEF CallerAborts, Because
<1>2. CASE DeadlineFires
  BY <1>2, Breaks DEF DeadlineFires, Break, Because
<1>3. CASE ConnectionLost
  <2>1. Break("lost")
    BY <1>3 DEF ConnectionLost
  <2> QED
    BY <1>3, <2>1, Breaks DEF ConnectionLost, Because
<1>4. CASE Truncate
  <2>1. Break("truncated")
    BY <1>4 DEF Truncate
  <2> QED
    BY <1>4, <2>1, Breaks DEF Truncate
<1> QED
  BY <1>1, <1>2, <1>3, <1>4 DEF Interrupt

LEMMA ReadStep ==
    ASSUME IInv, Read \/ CallerLeaves
    PROVE  IInv'
<1> USE BoundsAssumption DEF IInv, TypeOK, Status, Counted, HandlerOrder, EndCarriesOutcome
<1>1. CASE Respond
  BY <1>1 DEF Respond
<1>2. CASE WaitFails
  BY <1>2 DEF WaitFails, Failure, ClearDeadline
<1>3. CASE ReadMessage
  BY <1>3 DEF ReadMessage
<1>4. CASE ReadTailOk
  BY <1>4 DEF ReadTailOk
<1>5. CASE ReadTailError
  BY <1>5 DEF ReadTailError, FailAndReset, Failure, ClearDeadline
<1>6. CASE Succeed
  BY <1>6 DEF Succeed, ClearDeadline
<1>7. CASE BadEnd
  BY <1>7 DEF BadEnd, Failure, ClearDeadline
<1>8. CASE ReadFails
  BY <1>8 DEF ReadFails, Failure, ClearDeadline
<1>9. CASE CallerLeaves
  BY <1>9 DEF CallerLeaves
<1> QED
  BY <1>1, <1>2, <1>3, <1>4, <1>5, <1>6, <1>7, <1>8, <1>9 DEF Read

LEMMA ServerStep ==
    ASSUME IInv, RequestClosed \/ ServerDeadline \/ Handle
    PROVE  IInv'
<1> USE BoundsAssumption DEF IInv, TypeOK, Status, Counted, HandlerOrder, EndCarriesOutcome
<1>1. CASE RequestClosed
  BY <1>1 DEF RequestClosed
<1>2. CASE ServerDeadline
  BY <1>2 DEF ServerDeadline
<1>3. CASE Start
  BY <1>3 DEF Start
<1>4. CASE Throws
  BY <1>4 DEF Throws
<1>5. CASE TakeInput
  BY <1>5 DEF TakeInput
<1>6. CASE Yield
  BY <1>6 DEF Yield, Broken
<1>7. CASE Returns
  BY <1>7 DEF Returns
<1>8. CASE NoExtra
  BY <1>8 DEF NoExtra
<1>9. CASE Finally
  BY <1>9 DEF Finally, Broken
<1>10. CASE EndResponse
  BY <1>10 DEF EndResponse, Broken
<1> QED
  BY <1>1, <1>2, <1>3, <1>4, <1>5, <1>6, <1>7, <1>8, <1>9, <1>10 DEF Handle

LEMMA RequestSimulates ==
    ASSUME IInv, Request
    PROVE  Simulates
<1> USE DEF IInv, TypeOK
<1>1. CASE Send
  BY <1>1, Quiet DEF Send
<1>2. CASE SendDone
  BY <1>2, Quiet DEF SendDone
<1>3. CASE SourceFails
  BY <1>3, Quiet DEF SourceFails, Break, Because
<1> QED
  BY <1>1, <1>2, <1>3 DEF Request

LEMMA InterruptSimulates ==
    ASSUME IInv, Interrupt
    PROVE  Simulates
<1> USE DEF IInv, TypeOK
<1>1. CASE CallerAborts
  BY <1>1, Quiet DEF CallerAborts, Break, Because
<1>2. CASE DeadlineFires
  BY <1>2, Quiet DEF DeadlineFires, Break, Because
<1>3. CASE ConnectionLost
  BY <1>3, Quiet DEF ConnectionLost, Break, Because
<1>4. CASE Truncate
  BY <1>4, Quiet DEF Truncate, Break
<1> QED
  BY <1>1, <1>2, <1>3, <1>4 DEF Interrupt

LEMMA ReadSimulates ==
    ASSUME IInv, Read \/ CallerLeaves
    PROVE  Simulates
<1> USE DEF IInv, TypeOK
<1>1. CASE Respond
  BY <1>1, Quiet DEF Respond
<1>2. CASE WaitFails
  BY <1>2, Quiet DEF WaitFails, Failure, ClearDeadline
<1>3. CASE ReadMessage
  <2>1. Rpc!Receive
    BY <1>3 DEF ReadMessage, Rpc!Receive, Active, Counted
  <2> QED
    BY <2>1 DEF Simulates, Rpc!Next
<1>4. CASE ReadTailOk
  BY <1>4, Quiet DEF ReadTailOk
<1>5. CASE ReadTailError
  BY <1>5, Quiet DEF ReadTailError, FailAndReset, Failure, ClearDeadline
<1>6. CASE Succeed
  <2>1. (protocol = "grpc" /\ http = "truncated") \/ (outcome = "ok" /\ got = made)
    BY <1>6 DEF Succeed, BodyEnds, StatusOk, Status, Counted, HandlerOrder, EndCarriesOutcome
  <2>2. Rpc!Complete
    BY <1>6, <2>1 DEF Succeed, BodyEnds, Rpc!Complete, Active
  <2> QED
    BY <2>2 DEF Simulates, Rpc!Next
<1>7. CASE BadEnd
  BY <1>7, Quiet DEF BadEnd, BodyEnds, Failure, ClearDeadline
<1>8. CASE ReadFails
  BY <1>8, Quiet DEF ReadFails, Failure, ClearDeadline
<1>9. CASE CallerLeaves
  BY <1>9, Quiet DEF CallerLeaves
<1> QED
  BY <1>1, <1>2, <1>3, <1>4, <1>5, <1>6, <1>7, <1>8, <1>9 DEF Read

LEMMA ServerSimulates ==
    ASSUME IInv, RequestClosed \/ ServerDeadline \/ Handle
    PROVE  Simulates
<1> USE DEF IInv, TypeOK
<1>1. CASE RequestClosed
  BY <1>1, Quiet DEF RequestClosed
<1>2. CASE ServerDeadline
  BY <1>2, Quiet DEF ServerDeadline
<1>3. CASE Start
  BY <1>3, Quiet DEF Start
<1>4. CASE Throws
  <2>1. Rpc!Finish
    BY <1>4 DEF Throws, Rpc!Finish, Active, HandlerOrder
  <2> QED
    BY <2>1 DEF Simulates, Rpc!Next
<1>5. CASE TakeInput
  BY <1>5, Quiet DEF TakeInput
<1>6. CASE Yield
  <2>1. Rpc!Produce
    BY <1>6 DEF Yield, Rpc!Produce, Active, HandlerOrder
  <2> QED
    BY <2>1 DEF Simulates, Rpc!Next
<1>7. CASE Returns
  <2>1. CASE kind = "server"
    BY <1>7, <2>1, Quiet DEF Returns
  <2>2. CASE kind # "server"
    <3>1. Rpc!Finish
      BY <1>7, <2>2 DEF Returns, Rpc!Finish, Active, HandlerOrder
    <3> QED
      BY <3>1 DEF Simulates, Rpc!Next
  <2> QED
    BY <2>1, <2>2
<1>8. CASE NoExtra
  <2>1. Rpc!Finish
    BY <1>8 DEF NoExtra, Rpc!Finish, Active, HandlerOrder
  <2> QED
    BY <2>1 DEF Simulates, Rpc!Next
<1>9. CASE Finally
  BY <1>9, Quiet DEF Finally, Broken
<1>10. CASE EndResponse
  BY <1>10, Quiet DEF EndResponse, Broken
<1> QED
  BY <1>1, <1>2, <1>3, <1>4, <1>5, <1>6, <1>7, <1>8, <1>9, <1>10 DEF Handle

LEMMA Inductive ==
    ASSUME IInv, [Next]_vars
    PROVE  IInv' /\ Simulates
<1>1. CASE UNCHANGED vars
  BY <1>1 DEF vars, IInv, TypeOK, Counted, HandlerOrder, EndCarriesOutcome, Simulates, Rpc!vars, Active
<1> QED
  BY <1>1, RequestStep, InterruptStep, ReadStep, ServerStep,
     RequestSimulates, InterruptSimulates, ReadSimulates, ServerSimulates DEF Next

\* The counts, states and flags of a call stay in their ranges, whatever the
\* numbers of messages.
THEOREM TypeCorrect == Spec => []TypeOK
<1>1. IInv => TypeOK
  BY DEF IInv
<1> QED
  BY Initial, Inductive, <1>1, PTL DEF Spec

\* The handlers, the transports and the pipes between them implement RpcCall: a
\* caller receives the messages of the implementation in order and without
\* gaps, and success means that it succeeded and that all were received.
THEOREM Implementation == Spec => ImplementsRpc
<1>1. IInv /\ [Next]_vars => [Rpc!Next]_Rpc!vars
  BY Inductive DEF Simulates
<1> QED
  BY Initial, Inductive, <1>1, PTL DEF Spec, ImplementsRpc, Rpc!Spec

(***************************************************************************)
(* The other safety properties.                                            *)
(***************************************************************************)

\* A request loses nothing while the exchange is whole, and a server-streaming
\* method takes one message of it, and succeeds at its end.
RequestCounted ==
    /\ http = "open" => sent = up + taken
    /\ kind = "server" /\ (hnd \in {"impl", "extra"} \/ outcome = "ok") => taken = 1
    /\ kind = "server" /\ hnd \in {"idle", "first"} => taken = 0
    /\ kind = "server" /\ outcome = "ok" /\ http = "open" => up = 0 /\ src = "done"

\* The end that was written waits for the client until it was read.
EndIsKept ==
    /\ http = "open" /\ protocol # "grpc" /\ hnd \in {"ending", "over"} /\ app \in {"wait", "reading"} =>
          tail = outcome \/ endSeen = "yes"
    /\ protocol # "grpc" /\ app = "ok" => endSeen = "yes" \/ http # "open"
    /\ hnd = "over" /\ http = "open" => ended = "yes"
    /\ app = "ok" /\ http = "open" => outcome = "ok"

Safe == RequestCounted /\ EndIsKept /\ OneInput /\ ProtocolErrorMeansCut /\ FailureReleases

LEMMA SafeInitial == Init => Safe
BY DEF Init, Safe, RequestCounted, EndIsKept, OneInput, ProtocolErrorMeansCut, FailureReleases

LEMMA SafeStep ==
    ASSUME IInv, Safe, Next
    PROVE  Safe'
<1> USE BoundsAssumption DEF IInv, TypeOK, Status, Counted, HandlerOrder, EndCarriesOutcome,
        Safe, RequestCounted, EndIsKept, OneInput, ProtocolErrorMeansCut, FailureReleases
<1>1. CASE Request
  <2>1. CASE Send
    BY <2>1 DEF Send
  <2>2. CASE SendDone
    BY <2>2 DEF SendDone
  <2>3. CASE SourceFails
    BY <2>3 DEF SourceFails, Break, Because, Active, Listening
  <2> QED
    BY <1>1, <2>1, <2>2, <2>3 DEF Request
<1>2. CASE Interrupt
  <2>1. CASE CallerAborts
    BY <2>1 DEF CallerAborts, Break, Because, Active, Listening
  <2>2. CASE DeadlineFires
    BY <2>2 DEF DeadlineFires, Break, Because
  <2>3. CASE ConnectionLost
    BY <2>3 DEF ConnectionLost, Break, Because
  <2>4. CASE Truncate
    BY <2>4 DEF Truncate, Break
  <2> QED
    BY <1>2, <2>1, <2>2, <2>3, <2>4 DEF Interrupt
<1>3. CASE Read
  <2>1. CASE Respond
    BY <2>1 DEF Respond
  <2>2. CASE WaitFails
    BY <2>2 DEF WaitFails, Failure, ClearDeadline
  <2>3. CASE ReadMessage
    BY <2>3 DEF ReadMessage
  <2>4. CASE ReadTailOk
    BY <2>4 DEF ReadTailOk
  <2>5. CASE ReadTailError
    BY <2>5 DEF ReadTailError, FailAndReset, Failure, ClearDeadline
  <2>6. CASE Succeed
    BY <2>6 DEF Succeed, BodyEnds, StatusOk, ClearDeadline
  <2>7. CASE BadEnd
    BY <2>7 DEF BadEnd, BodyEnds, StatusOk, Failure, ClearDeadline
  <2>8. CASE ReadFails
    BY <2>8 DEF ReadFails, Failure, ClearDeadline
  <2> QED
    BY <1>3, <2>1, <2>2, <2>3, <2>4, <2>5, <2>6, <2>7, <2>8 DEF Read
<1>4. CASE Handle
  <2>1. CASE Start
    BY <2>1 DEF Start
  <2>2. CASE Throws
    BY <2>2 DEF Throws
  <2>3. CASE TakeInput
    BY <2>3 DEF TakeInput
  <2>4. CASE Yield
    BY <2>4 DEF Yield, Broken
  <2>5. CASE Returns
    BY <2>5 DEF Returns
  <2>6. CASE NoExtra
    BY <2>6 DEF NoExtra, InputEnds, Broken
  <2>7. CASE Finally
    BY <2>7 DEF Finally, Broken
  <2>8. CASE EndResponse
    BY <2>8 DEF EndResponse, Broken
  <2> QED
    BY <1>4, <2>1, <2>2, <2>3, <2>4, <2>5, <2>6, <2>7, <2>8 DEF Handle
<1>5. CASE CallerLeaves
  BY <1>5 DEF CallerLeaves
<1>6. CASE RequestClosed
  BY <1>6 DEF RequestClosed
<1>7. CASE ServerDeadline
  BY <1>7 DEF ServerDeadline
<1> QED
  BY <1>1, <1>2, <1>3, <1>4, <1>5, <1>6, <1>7 DEF Next

LEMMA SafeInductive ==
    ASSUME IInv, Safe, [Next]_vars
    PROVE  Safe'
<1>1. CASE UNCHANGED vars
  BY <1>1 DEF vars, Safe, RequestCounted, EndIsKept, OneInput, ProtocolErrorMeansCut, FailureReleases
<1> QED
  BY <1>1, SafeStep

\* Every protocol writes an end on every way out of the handler: a client that
\* misses it was given a response that something cut off.
THEOREM EndNeverMissing == Spec => []ProtocolErrorMeansCut
<1>1. Safe => ProtocolErrorMeansCut
  BY DEF Safe
<1> QED
  BY Initial, Inductive, SafeInitial, SafeInductive, <1>1, PTL DEF Spec

\* A server-streaming call succeeds only with exactly one request message.
THEOREM OneMessage == Spec => []OneInput
<1>1. Safe => OneInput
  BY DEF Safe
<1> QED
  BY Initial, Inductive, SafeInitial, SafeInductive, <1>1, PTL DEF Spec

\* A failed call leaves no exchange behind that the server could still write to.
THEOREM FailedCallsRelease == Spec => []FailureReleases
<1>1. Safe => FailureReleases
  BY DEF Safe
<1> QED
  BY Initial, Inductive, SafeInitial, SafeInductive, <1>1, PTL DEF Spec
=============================================================================
