--------------------------- MODULE UnaryCallProofs ---------------------------
(***************************************************************************)
(* UnaryCall implements RpcCall, and its safety properties hold, in every  *)
(* protocol.                                                               *)
(***************************************************************************)
EXTENDS UnaryCall, TLAPS

\* Where the transport is, in terms of the exchange.
Phases ==
    /\ app = "active" <=> step # "over"
    /\ step = "before" <=> http = "none"
    /\ step \in {"body", "unpack"} => head \in {"ok", "error"} \/ (head = "refused" /\ protocol = "triple")
    /\ step = "unpack" => protocol = "triple" /\ (http # "open" \/ ended = "yes") /\ (head = "ok" => got = 1)
    /\ protocol = "triple" /\ step \in {"before", "wait", "body"} => got = 0

\* Where the handler is, in terms of what it has taken and made.
HandlerOrder ==
    /\ outcome # "none" <=> hnd \in {"final", "write", "over"}
    /\ hnd \in {"idle", "input", "impl"} => made = 0
    /\ hnd \in {"returned", "extra", "left"} \/ outcome = "ok" => made = 1
    /\ hnd = "impl" \/ made = 1 => input # "none"
    /\ hnd \in {"idle", "input"} => input = "none"
    /\ hnd # "idle" => http # "none"
    /\ ended = "yes" => hnd = "over"
    /\ hnd = "over" /\ http = "open" => ended = "yes"

\* The message and the status on the wire are those of the handler, and while the
\* exchange is whole they are there when the response has ended.
ResponseCarries ==
    /\ got = 1 => made = 1
    /\ hnd = "idle" => head = "none"
    /\ head = "refused" => hnd = "over" /\ outcome = "error" /\ body = "none" /\ tail = "none" /\ trailer = "none"
    /\ tail # "none" => protocol = "grpc-web" /\ tail = outcome
    /\ trailer # "none" => protocol = "grpc" /\ trailer = outcome

TripleCarries ==
    protocol = "triple" =>
        /\ head # "none" => hnd = "over"
        /\ head \in {"ok", "error"} => head = outcome
        /\ body # "none" => head # "none"
        /\ head \in {"ok", "error"} /\ http = "open" => body = "whole"

EnvelopesCarry ==
    protocol # "triple" =>
        /\ head # "error"
        /\ body # "none" => made = 1
        /\ http = "open" => body # "part"
        /\ http = "open" /\ (hnd = "extra" \/ outcome = "ok") => body = "whole"
        /\ http = "open" /\ ended = "yes" /\ head # "refused" =>
              IF protocol = "grpc" THEN trailer = outcome ELSE tail = outcome
        /\ http = "open" /\ hnd = "write" /\ protocol = "grpc-web" => tail = outcome

IInv == TypeOK /\ Phases /\ HandlerOrder /\ ResponseCarries /\ TripleCarries /\ EnvelopesCarry

\* A step of UnaryCall seen as one of RpcCall.
Simulates == Rpc!Next \/ UNCHANGED Rpc!vars

USE DEF config, callerVars, downVars, serverVars

LEMMA Initial == Init => IInv /\ Rpc!Init
<1> SUFFICES ASSUME Init PROVE IInv /\ Rpc!Init
  OBVIOUS
<1>1. TypeOK
  BY DEF Init, TypeOK, Status, Part
<1>2. Phases /\ HandlerOrder
  BY DEF Init, Phases, HandlerOrder
<1>3. ResponseCarries /\ TripleCarries /\ EnvelopesCarry
  BY DEF Init, ResponseCarries, TripleCarries, EnvelopesCarry
<1>4. Rpc!Init
  BY DEF Init, Rpc!Init
<1> QED
  BY <1>1, <1>2, <1>3, <1>4 DEF IInv

LEMMA InterruptStep ==
    ASSUME IInv, Interrupt
    PROVE  IInv'
<1> USE DEF IInv, TypeOK, Status, Part, Phases, HandlerOrder, ResponseCarries, TripleCarries, EnvelopesCarry
<1>1. CASE CallerAborts
  BY <1>1 DEF CallerAborts, Interrupted, Break, Because, Cut, Interruptible
<1>2. CASE DeadlineFires
  BY <1>2 DEF DeadlineFires, Interrupted, Break, Because, Cut, Interruptible
<1>3. CASE ConnectionLost
  BY <1>3 DEF ConnectionLost, Break, Because, Cut
<1>4. CASE Truncate
  BY <1>4 DEF Truncate, Break, Cut
<1> QED
  BY <1>1, <1>2, <1>3, <1>4 DEF Interrupt

LEMMA ClientStep ==
    ASSUME IInv, Client
    PROVE  IInv'
<1> USE DEF IInv, TypeOK, Status, Part, Phases, HandlerOrder, ResponseCarries, TripleCarries, EnvelopesCarry
<1>1. CASE CallHttp
  BY <1>1 DEF CallHttp
<1>2. CASE Respond
  BY <1>2 DEF Respond
<1>3. CASE Refused
  BY <1>3 DEF Refused, FailAndReset, Failure, ClearDeadline
<1>4. CASE HttpFails
  BY <1>4 DEF HttpFails, Failure, ClearDeadline
<1>5. CASE ContentFails
  BY <1>5 DEF ContentFails, FailAndReset, Failure, ClearDeadline
<1>6. CASE ReadBody
  BY <1>6 DEF ReadBody, BodyEnds, Whole
<1>7. CASE ShortBody
  BY <1>7 DEF ShortBody, BodyEnds, Whole, Failure, ClearDeadline
<1>8. CASE Unpack
  BY <1>8 DEF Unpack, Success, Failure, ClearDeadline
<1>9. CASE ReadMessage
  BY <1>9 DEF ReadMessage
<1>10. CASE ReadEnd
  BY <1>10 DEF ReadEnd, BodyEnds, EndIsSound, Error, Success, Failure, ClearDeadline
<1> QED
  BY <1>1, <1>2, <1>3, <1>4, <1>5, <1>6, <1>7, <1>8, <1>9, <1>10 DEF Client

LEMMA ServerStep ==
    ASSUME IInv, SendRequest \/ RequestClosed \/ ContextAborts \/ Refuse \/ Start \/ TakeInput \/ Throws \/ Returns
    PROVE  IInv'
<1> USE DEF IInv, TypeOK, Status, Part, Phases, HandlerOrder, ResponseCarries, TripleCarries, EnvelopesCarry
<1>1. CASE SendRequest
  BY <1>1 DEF SendRequest
<1>2. CASE RequestClosed
  BY <1>2 DEF RequestClosed
<1>3. CASE ContextAborts
  BY <1>3 DEF ContextAborts
<1>4. CASE Refuse
  <2>1. head = "none"
    BY <1>4 DEF Refuse
  <2>2. body = "none" /\ tail = "none" /\ trailer = "none"
    BY <1>4, <2>1 DEF Refuse
  <2>3. CASE Broken
    BY <1>4, <2>1, <2>2, <2>3 DEF Refuse, Broken
  <2>4. CASE ~Broken
    BY <1>4, <2>1, <2>2, <2>4 DEF Refuse, Broken
  <2> QED
    BY <2>3, <2>4
<1>5. CASE Start
  BY <1>5 DEF Start
<1>6. CASE TakeInput
  BY <1>6 DEF TakeInput, Broken
<1>7. CASE Throws
  BY <1>7 DEF Throws
<1>8. CASE Returns
  BY <1>8 DEF Returns
<1> QED
  BY <1>1, <1>2, <1>3, <1>4, <1>5, <1>6, <1>7, <1>8

LEMMA AnswerStep ==
    ASSUME IInv, Answer
    PROVE  IInv'
<1> USE DEF IInv, TypeOK, Status, Part, Phases, HandlerOrder, ResponseCarries, TripleCarries, EnvelopesCarry
<1>1. CASE Serialized
  BY <1>1 DEF Serialized
<1>2. CASE WriteMessage
  BY <1>2 DEF WriteMessage, Broken
<1>3. CASE NoExtra
  BY <1>3 DEF NoExtra
<1>4. CASE Finally
  BY <1>4 DEF Finally, Broken
<1>5. CASE EndResponse
  BY <1>5 DEF EndResponse, Broken
<1> QED
  BY <1>1, <1>2, <1>3, <1>4, <1>5 DEF Answer

\* Steps in which nothing is received and no handler ends: a call that was active
\* goes on or ends with an error.
LEMMA Quiet ==
    ASSUME UNCHANGED <<protocol, made, got, outcome>>,
           \/ UNCHANGED <<app, http>>
           \/ UNCHANGED app /\ (protocol # "grpc" \/ http \in {"none", "open"})
           \/ app = "active" /\ app' = "error" /\ (UNCHANGED http \/ (http = "open" /\ http' = "reset"))
    PROVE  Simulates
BY DEF Simulates, Rpc!Next, Rpc!GiveUp, Rpc!Cut, Rpc!vars

LEMMA InterruptSimulates ==
    ASSUME IInv, Interrupt
    PROVE  Simulates
<1> USE DEF IInv, TypeOK
<1>1. CASE CallerAborts
  BY <1>1, Quiet DEF CallerAborts, Interrupted, Break, Because, Interruptible, Phases
<1>2. CASE DeadlineFires
  BY <1>2, Quiet DEF DeadlineFires, Interrupted, Break, Because, Interruptible, Phases
<1>3. CASE ConnectionLost
  BY <1>3, Quiet DEF ConnectionLost, Break, Phases
<1>4. CASE Truncate
  BY <1>4, Quiet DEF Truncate, Break, Phases
<1> QED
  BY <1>1, <1>2, <1>3, <1>4 DEF Interrupt

LEMMA ClientSimulates ==
    ASSUME IInv, Client
    PROVE  Simulates
<1> USE DEF IInv, TypeOK
<1>1. CASE CallHttp
  BY <1>1, Quiet DEF CallHttp, Phases
<1>2. CASE Respond
  BY <1>2, Quiet DEF Respond, Phases
<1>3. CASE Refused
  BY <1>3, Quiet DEF Refused, FailAndReset, Failure, ClearDeadline, Phases
<1>4. CASE HttpFails
  BY <1>4, Quiet DEF HttpFails, Failure, ClearDeadline, Phases
<1>5. CASE ContentFails
  BY <1>5, Quiet DEF ContentFails, FailAndReset, Failure, ClearDeadline, Phases
<1>6. CASE ReadBody
  <2>1. CASE head = "ok" /\ body = "whole"
    <3>1. Rpc!Receive
      BY <1>6, <2>1 DEF ReadBody, BodyEnds, Rpc!Receive, Phases, HandlerOrder, TripleCarries
    <3> QED
      BY <3>1 DEF Simulates, Rpc!Next
  <2>2. CASE ~(head = "ok" /\ body = "whole")
    BY <1>6, <2>2, Quiet DEF ReadBody, BodyEnds, Phases
  <2> QED
    BY <2>1, <2>2
<1>7. CASE ShortBody
  BY <1>7, Quiet DEF ShortBody, BodyEnds, Whole, Failure, ClearDeadline, Phases
<1>8. CASE Unpack
  <2>1. CASE head = "ok"
    <3>1. outcome = "ok" /\ got = 1 /\ made = 1 /\ app = "active"
      BY <1>8, <2>1 DEF Unpack, Phases, HandlerOrder, TripleCarries
    <3>2. Rpc!Complete
      BY <1>8, <2>1, <3>1 DEF Unpack, Success, Rpc!Complete
    <3> QED
      BY <3>2 DEF Simulates, Rpc!Next
  <2>2. CASE head # "ok"
    BY <1>8, <2>2, Quiet DEF Unpack, Failure, Phases
  <2> QED
    BY <2>1, <2>2
<1>9. CASE ReadMessage
  <2>1. Rpc!Receive
    BY <1>9 DEF ReadMessage, Rpc!Receive, Phases, HandlerOrder, ResponseCarries, EnvelopesCarry
  <2> QED
    BY <2>1 DEF Simulates, Rpc!Next
<1>10. CASE ReadEnd
  <2>1. CASE EndIsSound /\ ~Error
    <3>1. got = 1 /\ made = 1 /\ app = "active"
      BY <1>10, <2>1 DEF ReadEnd, BodyEnds, EndIsSound, Phases, ResponseCarries
    <3>2. (protocol = "grpc" /\ http = "truncated") \/ outcome = "ok"
      BY <1>10, <2>1 DEF ReadEnd, BodyEnds, EndIsSound, Error, Status, Phases, HandlerOrder, ResponseCarries, EnvelopesCarry
    <3>3. Rpc!Complete
      BY <1>10, <2>1, <3>1, <3>2 DEF ReadEnd, Success, Rpc!Complete
    <3> QED
      BY <3>3 DEF Simulates, Rpc!Next
  <2>2. CASE ~(EndIsSound /\ ~Error)
    BY <1>10, <2>2, Quiet DEF ReadEnd, BodyEnds, Failure, Phases
  <2> QED
    BY <2>1, <2>2
<1> QED
  BY <1>1, <1>2, <1>3, <1>4, <1>5, <1>6, <1>7, <1>8, <1>9, <1>10 DEF Client

LEMMA ServerSimulates ==
    ASSUME IInv, SendRequest \/ RequestClosed \/ ContextAborts \/ Refuse \/ Start \/ TakeInput \/ Throws \/ Returns
    PROVE  Simulates
<1> USE DEF IInv, TypeOK
<1>1. CASE SendRequest
  BY <1>1, Quiet DEF SendRequest, Phases
<1>2. CASE RequestClosed
  BY <1>2, Quiet DEF RequestClosed, Phases
<1>3. CASE ContextAborts
  BY <1>3, Quiet DEF ContextAborts, Phases
<1>4. CASE Refuse
  <2>1. Rpc!Finish
    BY <1>4 DEF Refuse, Rpc!Finish, Phases, HandlerOrder, ResponseCarries, EnvelopesCarry, Broken
  <2> QED
    BY <2>1 DEF Simulates, Rpc!Next
<1>5. CASE Start
  BY <1>5, Quiet DEF Start, Phases
<1>6. CASE TakeInput
  BY <1>6, Quiet DEF TakeInput, Broken, Phases
<1>7. CASE Throws
  <2>1. Rpc!Finish
    BY <1>7 DEF Throws, Rpc!Finish, Phases, HandlerOrder, ResponseCarries, EnvelopesCarry
  <2> QED
    BY <2>1 DEF Simulates, Rpc!Next
<1>8. CASE Returns
  <2>1. Rpc!Produce
    BY <1>8 DEF Returns, Rpc!Produce, Phases, HandlerOrder, ResponseCarries, EnvelopesCarry
  <2> QED
    BY <2>1 DEF Simulates, Rpc!Next
<1> QED
  BY <1>1, <1>2, <1>3, <1>4, <1>5, <1>6, <1>7, <1>8

LEMMA AnswerSimulates ==
    ASSUME IInv, Answer
    PROVE  Simulates
<1> USE DEF IInv, TypeOK
<1>1. CASE Serialized
  <2>1. Rpc!Finish
    BY <1>1 DEF Serialized, Rpc!Finish, Phases, HandlerOrder, ResponseCarries, EnvelopesCarry
  <2> QED
    BY <2>1 DEF Simulates, Rpc!Next
<1>2. CASE WriteMessage
  BY <1>2, Quiet DEF WriteMessage, Broken
<1>3. CASE NoExtra
  <2>1. Rpc!Finish
    BY <1>3 DEF NoExtra, Rpc!Finish, Phases, HandlerOrder, ResponseCarries, EnvelopesCarry
  <2> QED
    BY <2>1 DEF Simulates, Rpc!Next
<1>4. CASE Finally
  BY <1>4, Quiet DEF Finally, Broken, Phases
<1>5. CASE EndResponse
  BY <1>5, Quiet DEF EndResponse, Broken, Phases
<1> QED
  BY <1>1, <1>2, <1>3, <1>4, <1>5 DEF Answer

LEMMA Inductive ==
    ASSUME IInv, [Next]_vars
    PROVE  IInv' /\ Simulates
<1>1. CASE UNCHANGED vars
  BY <1>1 DEF vars, IInv, TypeOK, Phases, HandlerOrder, ResponseCarries, TripleCarries, EnvelopesCarry,
              Simulates, Rpc!vars
<1>2. CASE Interrupt
  BY <1>2, InterruptStep, InterruptSimulates
<1>3. CASE Client
  BY <1>3, ClientStep, ClientSimulates
<1>4. CASE Answer
  BY <1>4, AnswerStep, AnswerSimulates
<1> QED
  BY <1>1, <1>2, <1>3, <1>4, ServerStep, ServerSimulates DEF Next

\* The phases of the transport and of the handler stay in their ranges.
THEOREM TypeCorrect == Spec => []TypeOK
<1>1. IInv => TypeOK
  BY DEF IInv
<1> QED
  BY Initial, Inductive, <1>1, PTL DEF Spec

\* The unary halves of the handlers and transports implement RpcCall: a unary call
\* succeeds only with the one message of an implementation that succeeded.
THEOREM Implementation == Spec => ImplementsRpc
<1>1. IInv /\ [Next]_vars => [Rpc!Next]_Rpc!vars
  BY Inductive DEF Simulates
<1> QED
  BY Initial, Inductive, <1>1, PTL DEF Spec, ImplementsRpc, Rpc!Spec

(***************************************************************************)
(* The other safety properties.                                            *)
(***************************************************************************)

\* A call that goes on has no other reason to fail than an interruption, and a
\* Triple response with a message was made from a whole request.
Reasons == app = "active" => why \in {"none", "canceled", "deadline", "lost"}

InputSeen == protocol = "triple" /\ head = "ok" => input = "whole"

Safe == Reasons /\ InputSeen /\ WholeInput /\ ReasonTold /\ FailureReleases

LEMMA SafeInitial == Init => Safe
BY DEF Init, Safe, Reasons, InputSeen, WholeInput, ReasonTold, FailureReleases

LEMMA InterruptSafe ==
    ASSUME IInv, Safe, Interrupt
    PROVE  Safe'
<1> USE DEF IInv, TypeOK, Status, Part, Phases, HandlerOrder, ResponseCarries, TripleCarries, EnvelopesCarry,
        Safe, Reasons, InputSeen, WholeInput, ReasonTold, FailureReleases, Broken
<1>1. CASE CallerAborts
  BY <1>1 DEF CallerAborts, Interrupted, Break, Because, Interruptible
<1>2. CASE DeadlineFires
  BY <1>2 DEF DeadlineFires, Interrupted, Break, Because, Interruptible
<1>3. CASE ConnectionLost
  BY <1>3 DEF ConnectionLost, Break, Because
<1>4. CASE Truncate
  BY <1>4 DEF Truncate, Break
<1> QED
  BY <1>1, <1>2, <1>3, <1>4 DEF Interrupt

LEMMA ClientSafe ==
    ASSUME IInv, Safe, Client
    PROVE  Safe'
<1> USE DEF IInv, TypeOK, Status, Part, Phases, HandlerOrder, ResponseCarries, TripleCarries, EnvelopesCarry,
        Safe, Reasons, InputSeen, WholeInput, ReasonTold, FailureReleases, Broken
<1>1. CASE CallHttp
  BY <1>1 DEF CallHttp, Aborted
<1>2. CASE Respond
  BY <1>2 DEF Respond
<1>3. CASE Refused
  BY <1>3 DEF Refused, FailAndReset, Failure, ClearDeadline
<1>4. CASE HttpFails
  BY <1>4 DEF HttpFails, Failure, ClearDeadline
<1>5. CASE ContentFails
  BY <1>5 DEF ContentFails, FailAndReset, Failure, ClearDeadline
<1>6. CASE ReadBody
  BY <1>6 DEF ReadBody, BodyEnds, Whole
<1>7. CASE ShortBody
  BY <1>7 DEF ShortBody, BodyEnds, Whole, Failure, ClearDeadline
<1>8. CASE Unpack
  BY <1>8 DEF Unpack, Success, Failure, ClearDeadline
<1>9. CASE ReadMessage
  BY <1>9 DEF ReadMessage
<1>10. CASE ReadEnd
  BY <1>10 DEF ReadEnd, BodyEnds, EndIsSound, Error, Success, Failure, ClearDeadline
<1> QED
  BY <1>1, <1>2, <1>3, <1>4, <1>5, <1>6, <1>7, <1>8, <1>9, <1>10 DEF Client

LEMMA ServerSafe ==
    ASSUME IInv, Safe, SendRequest \/ RequestClosed \/ ContextAborts \/ Refuse \/ Start \/ TakeInput \/ Throws \/ Returns
    PROVE  Safe'
<1> USE DEF IInv, TypeOK, Status, Part, Phases, HandlerOrder, ResponseCarries, TripleCarries, EnvelopesCarry,
        Safe, Reasons, InputSeen, WholeInput, ReasonTold, FailureReleases, Broken
<1>1. CASE SendRequest
  BY <1>1 DEF SendRequest
<1>2. CASE RequestClosed
  BY <1>2 DEF RequestClosed
<1>3. CASE ContextAborts
  BY <1>3 DEF ContextAborts
<1>4. CASE Refuse
  BY <1>4 DEF Refuse
<1>5. CASE Start
  BY <1>5 DEF Start
<1>6. CASE TakeInput
  BY <1>6 DEF TakeInput
<1>7. CASE Throws
  BY <1>7 DEF Throws
<1>8. CASE Returns
  BY <1>8 DEF Returns
<1> QED
  BY <1>1, <1>2, <1>3, <1>4, <1>5, <1>6, <1>7, <1>8

LEMMA AnswerSafe ==
    ASSUME IInv, Safe, Answer
    PROVE  Safe'
<1> USE DEF IInv, TypeOK, Status, Part, Phases, HandlerOrder, ResponseCarries, TripleCarries, EnvelopesCarry,
        Safe, Reasons, InputSeen, WholeInput, ReasonTold, FailureReleases, Broken
<1>1. CASE Serialized
  BY <1>1 DEF Serialized
<1>2. CASE WriteMessage
  BY <1>2 DEF WriteMessage
<1>3. CASE NoExtra
  BY <1>3 DEF NoExtra
<1>4. CASE Finally
  BY <1>4 DEF Finally
<1>5. CASE EndResponse
  BY <1>5 DEF EndResponse
<1> QED
  BY <1>1, <1>2, <1>3, <1>4, <1>5 DEF Answer

LEMMA SafeInductive ==
    ASSUME IInv, Safe, [Next]_vars
    PROVE  Safe'
<1>1. CASE UNCHANGED vars
  BY <1>1 DEF vars, Safe, Reasons, InputSeen, WholeInput, ReasonTold, FailureReleases, Broken
<1> QED
  BY <1>1, InterruptSafe, ClientSafe, ServerSafe, AnswerSafe DEF Next

\* A caller that is told of success had its request given to the implementation
\* whole, also in Triple, where nothing in a body tells its end.
THEOREM InputIsWhole == Spec => []WholeInput
<1>1. Safe => WholeInput
  BY DEF Safe
<1> QED
  BY Initial, Inductive, SafeInitial, SafeInductive, <1>1, PTL DEF Spec

\* The protocol is blamed only for a response that was cut off, and an error status
\* reported only when the handler failed or refused.
THEOREM ReasonsAreTrue == Spec => []ReasonTold
<1>1. Safe => ReasonTold
  BY DEF Safe
<1> QED
  BY Initial, Inductive, SafeInitial, SafeInductive, <1>1, PTL DEF Spec

\* A failed call leaves no exchange behind that the server could still write to.
THEOREM FailedCallsRelease == Spec => []FailureReleases
<1>1. Safe => FailureReleases
  BY DEF Safe
<1> QED
  BY Initial, Inductive, SafeInitial, SafeInductive, <1>1, PTL DEF Spec
=============================================================================
