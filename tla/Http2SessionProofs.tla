------------------------- MODULE Http2SessionProofs -------------------------
(***************************************************************************)
(* Proofs about Http2Session for any sets of connections and calls and any *)
(* faults.  IInv is inductive: the variables keep their types, and the     *)
(* hooks of a connection are set exactly while the manager is in its ready *)
(* state.  SessionInv, on top of it, relates the manager's state, the      *)
(* queue of microtasks, the promises and the waiting calls; the safety     *)
(* properties of Http2Session are parts or consequences of it.  SharedInv  *)
(* adds whose promise is at the front, and is what the steps need to be    *)
(* steps of SharedConnection.                                              *)
(***************************************************************************)
EXTENDS Http2Session, FiniteSetTheorems, SequenceTheorems, TLAPS

\* Inductive for every instance.
IInv == TypeOK /\ HooksFollowState

(***************************************************************************)
(* The functions on one connection keep it a connection; only leaving the  *)
(* ready state touches the hooks.                                          *)
(***************************************************************************)
LEMMA OpsType ==
    ASSUME NEW k \in Conn
    PROVE  /\ StopPingInterval(k) \in Conn /\ StopPingInterval(k).hook = k.hook
           /\ ResetPingInterval(k) \in Conn /\ ResetPingInterval(k).hook = k.hook
           /\ StopIdleTimeout(k) \in Conn /\ StopIdleTimeout(k).hook = k.hook
           /\ ResetIdleTimeout(k) \in Conn /\ ResetIdleTimeout(k).hook = k.hook
           /\ Cleanup(k) \in Conn /\ Cleanup(k).hook = k.hook
           /\ ReadyState(k) \in Conn /\ ReadyState(k).hook = k.hook
           /\ SeenAlive(k) \in Conn /\ SeenAlive(k).hook = k.hook
<1>1. /\ StopPingInterval(k) \in Conn /\ StopPingInterval(k).hook = k.hook
      /\ ResetPingInterval(k) \in Conn /\ ResetPingInterval(k).hook = k.hook
  BY DEF StopPingInterval, ResetPingInterval, Conn, Timer
<1>2. /\ StopIdleTimeout(k) \in Conn /\ StopIdleTimeout(k).hook = k.hook
      /\ ResetIdleTimeout(k) \in Conn /\ ResetIdleTimeout(k).hook = k.hook
  BY DEF StopIdleTimeout, ResetIdleTimeout, Conn, Timer
<1>3. Cleanup(k) \in Conn /\ Cleanup(k).hook = k.hook
  BY DEF Cleanup, Conn
<1>4. ReadyState(k) \in Conn /\ ReadyState(k).hook = k.hook
  <2>1. k.lst \cup {"ready"} \in SUBSET Listener /\ {"idle"} \in SUBSET Timer
    BY DEF Conn, Listener, Timer
  <2>2. ASSUME NEW L \in SUBSET Listener, NEW T \in SUBSET Timer, NEW z \in Int, NEW b \in BOOLEAN
        PROVE  LET n == [k EXCEPT !.tmr = T, !.lst = L, !.streams = z, !.stale = b]
               IN  n \in Conn /\ n.hook = k.hook
    BY DEF Conn
  <2>3. 0 \in Int /\ FALSE \in BOOLEAN
    OBVIOUS
  <2>4. QED
    BY <2>1, <2>2, <2>3, Zenon DEF ReadyState
<1>5. SeenAlive(k) \in Conn /\ SeenAlive(k).hook = k.hook
  BY DEF SeenAlive, Conn
<1>6. QED
  BY <1>1, <1>2, <1>3, <1>4, <1>5

LEMMA ExitReadyType ==
    ASSUME NEW k \in Conn
    PROVE  ExitReady(k) \in Conn /\ ~ExitReady(k).hook
<1>1. \A l \in Conn : [l EXCEPT !.hook = FALSE] \in Conn /\ ~[l EXCEPT !.hook = FALSE].hook
  BY DEF Conn
<1>2. QED
  BY <1>1, OpsType DEF ExitReady

LEMMA StreamOpsType ==
    ASSUME NEW k \in Conn, NEW n \in Nat
    PROVE  /\ RegisterRequests(k, n) \in Conn /\ RegisterRequests(k, n).hook = k.hook
           /\ StreamClosed(k) \in Conn /\ StreamClosed(k).hook = k.hook
<1> DEFINE more == [k EXCEPT !.streams = @ + n]
           less == [k EXCEPT !.streams = @ - 1]
<1>1. more \in Conn /\ more.hook = k.hook /\ less \in Conn /\ less.hook = k.hook
  BY DEF Conn
<1> HIDE DEF more, less
<1>2. /\ ResetPingInterval(more) \in Conn /\ ResetPingInterval(more).hook = k.hook
      /\ ResetPingInterval(less) \in Conn /\ ResetPingInterval(less).hook = k.hook
  BY <1>1, OpsType
<1>3. /\ StopIdleTimeout(ResetPingInterval(more)) \in Conn
      /\ StopIdleTimeout(ResetPingInterval(more)).hook = k.hook
      /\ ResetIdleTimeout(ResetPingInterval(less)) \in Conn
      /\ ResetIdleTimeout(ResetPingInterval(less)).hook = k.hook
  BY <1>2, OpsType
<1>4. /\ RegisterRequests(k, n) \in {more, StopIdleTimeout(ResetPingInterval(more))}
      /\ StreamClosed(k) \in {less, ResetIdleTimeout(ResetPingInterval(less))}
  BY DEF RegisterRequests, StreamClosed, more, less
<1>5. QED
  BY <1>1, <1>3, <1>4

LEMMA DestroyType ==
    ASSUME ConfigAssumption, NEW k \in Conn
    PROVE  /\ Destroy(k, TRUE) \in Conn /\ Destroy(k, TRUE).hook = k.hook
           /\ Destroy(k, FALSE) \in Conn /\ Destroy(k, FALSE).hook = k.hook
<1>1. k.tmr \ {"timeout"} \in SUBSET Timer /\ "destroyed" \in Life /\ 0 \in 0 .. MaxPings
  BY DEF Conn, Life, ConfigAssumption
<1>2. ASSUME NEW T \in SUBSET Timer, NEW f \in Life, NEW p \in 0 .. MaxPings, NEW e \in BOOLEAN
      PROVE  LET n == [k EXCEPT !.life = f, !.err = e, !.pings = p, !.tmr = T]
             IN  n \in Conn /\ n.hook = k.hook
  BY DEF Conn
<1>3. TRUE \in BOOLEAN /\ FALSE \in BOOLEAN
  OBVIOUS
<1>4. QED
  BY <1>1, <1>2, <1>3, Zenon DEF Destroy

LEMMA EndOpsType ==
    ASSUME ConfigAssumption, NEW k \in Conn, NEW c \in Conns
    PROVE  /\ Close(k, c) \in Conn /\ Close(k, c).hook = k.hook
           /\ AbortReady(k) \in Conn /\ AbortReady(k).hook = k.hook
<1>1. Close(k, c) \in Conn /\ Close(k, c).hook = k.hook
  BY DestroyType DEF Close, Conn, Life
<1>2. LET n == [k EXCEPT !.lst = @ \cup {"swallow"}] IN n \in Conn /\ n.hook = k.hook
  BY DEF Conn, Listener
<1>3. AbortReady(k) \in Conn /\ AbortReady(k).hook = k.hook
  BY <1>2, DestroyType DEF AbortReady
<1>4. QED
  BY <1>1, <1>3

LEMMA VerifyPingType ==
    ASSUME NEW k \in Conn
    PROVE  VerifyPing(k) \in Conn /\ VerifyPing(k).hook = k.hook
<1>1. ASSUME NEW p \in Promise, NEW L \in SUBSET Listener, NEW T \in SUBSET Timer
      PROVE  LET n == [k EXCEPT !.ping = p, !.lst = L, !.tmr = T]
             IN  n \in Conn /\ n.hook = k.hook
  BY DEF Conn
<1>2. /\ {"pending", "dropped", "settled"} \subseteq Promise
      /\ k.lst \cup {"ping"} \in SUBSET Listener
      /\ k.tmr \cup {"timeout"} \in SUBSET Timer
      /\ k.tmr \ {"timeout"} \in SUBSET Timer
  BY DEF Conn, Promise, Listener, Timer
<1>3. [k EXCEPT !.ping = "settled"] \in Conn /\ [k EXCEPT !.ping = "settled"].hook = k.hook
  BY <1>2 DEF Conn
<1>4. QED
  BY <1>1, <1>2, <1>3 DEF VerifyPing

(***************************************************************************)
(* setState(): the new state is typed, and the hooks follow it.            *)
(***************************************************************************)
LEMMA MgrStates ==
    /\ Closed \in Mgr /\ Errored \in Mgr
    /\ \A reason : ClosedOrError(reason) \in {Closed, Errored}
    /\ \A c \in Conns : Connecting(c) \in Mgr /\ Verifying(c) \in Mgr /\ Ready(c) \in Mgr
    /\ \A s \in Mgr : s.t \in {"connecting", "verifying", "ready"} => s.c \in Conns
    /\ \A s \in Mgr, c \in Conns : s.t = "ready" /\ s.c = c <=> s = Ready(c)
    /\ \A s \in Mgr : s.t \in {"closed", "error", "connecting", "verifying", "ready"}
<1>1. /\ Closed \in Mgr /\ Errored \in Mgr
      /\ \A reason : ClosedOrError(reason) \in {Closed, Errored}
      /\ \A c \in Conns : Connecting(c) \in Mgr /\ Verifying(c) \in Mgr /\ Ready(c) \in Mgr
  BY DEF Mgr, Closed, Errored, ClosedOrError, Connecting, Verifying, Ready
<1>2. /\ \A s \in Mgr : s.t \in {"connecting", "verifying", "ready"} => s.c \in Conns
      /\ \A s \in Mgr : s.t \in {"closed", "error", "connecting", "verifying", "ready"}
  BY DEF Mgr
<1>3. \A s \in Mgr, c \in Conns : s.t = "ready" /\ s.c = c <=> s = Ready(c)
  BY DEF Mgr, Ready
<1>4. QED
  BY <1>1, <1>2, <1>3

LEMMA ExitStateType ==
    ASSUME TypeOK, NEW cs \in [Conns -> Conn]
    PROVE  /\ ExitState(cs) \in [Conns -> Conn]
           /\ \A c \in Conns : ExitState(cs)[c].hook = (cs[c].hook /\ mgr # Ready(c))
<1>0. mgr \in Mgr
  BY DEF TypeOK
<1>1. CASE mgr.t = "connecting"
  <2>1. mgr.c \in Conns /\ \A c \in Conns : mgr # Ready(c)
    BY <1>0, <1>1, MgrStates DEF Ready
  <2>2. \A k \in Conn, L \in SUBSET Listener :
           [k EXCEPT !.lst = L] \in Conn /\ [k EXCEPT !.lst = L].hook = k.hook
    BY DEF Conn
  <2>3. cs[mgr.c].lst \ {"connect"} \in SUBSET Listener
    BY <2>1 DEF Conn
  <2>4. ExitState(cs) = [cs EXCEPT ![mgr.c] = [cs[mgr.c] EXCEPT !.lst = cs[mgr.c].lst \ {"connect"}]]
    BY <1>1 DEF ExitState
  <2>5. QED
    BY <2>1, <2>2, <2>3, <2>4 DEF Conn
<1>2. CASE mgr.t = "ready"
  <2>1. mgr.c \in Conns /\ \A c \in Conns : c = mgr.c <=> mgr = Ready(c)
    BY <1>0, <1>2, MgrStates
  <2>2. ExitState(cs) = [cs EXCEPT ![mgr.c] = ExitReady(cs[mgr.c])]
    BY <1>2 DEF ExitState
  <2>3. ExitReady(cs[mgr.c]) \in Conn /\ ~ExitReady(cs[mgr.c]).hook
    BY <2>1, ExitReadyType
  <2>4. QED
    BY <2>1, <2>2, <2>3 DEF Conn
<1>3. CASE mgr.t \notin {"connecting", "ready"}
  <2>1. ExitState(cs) = cs /\ \A c \in Conns : mgr # Ready(c)
    BY <1>3 DEF ExitState, Ready
  <2>2. QED
    BY <2>1 DEF Conn
<1>4. QED
  BY <1>1, <1>2, <1>3

\* What a handler does to the connections before setState() leaves the hooks
\* alone; setState() itself moves them.
LEMMA SetStateStep ==
    ASSUME TypeOK, HooksFollowState,
           NEW cs \in [Conns -> Conn], \A c \in Conns : cs[c].hook = conns[c].hook,
           NEW s \in Mgr, SetState(cs, s)
    PROVE  mgr' \in Mgr /\ conns' \in [Conns -> Conn] /\ HooksFollowState'
<1> DEFINE es == ExitState(cs)
<1>1. es \in [Conns -> Conn] /\ \A c \in Conns : ~es[c].hook
  BY ExitStateType DEF HooksFollowState, Conn
<1>2. mgr' = s /\ mgr' \in Mgr
  BY DEF SetState
<1>3. CASE s.t = "ready"
  <2>1. s.c \in Conns /\ \A c \in Conns : c = s.c <=> s = Ready(c)
    BY <1>3, MgrStates
  <2>2. \A k \in Conn : [k EXCEPT !.hook = TRUE] \in Conn /\ [k EXCEPT !.hook = TRUE].hook
    BY DEF Conn
  <2>3. conns' = [es EXCEPT ![s.c] = [es[s.c] EXCEPT !.hook = TRUE]]
    BY <1>3 DEF SetState
  <2>4. QED
    BY <1>1, <1>2, <2>1, <2>2, <2>3 DEF HooksFollowState, Conn
<1>4. CASE s.t # "ready"
  <2>1. conns' = es /\ \A c \in Conns : s # Ready(c)
    BY <1>4 DEF SetState, Ready
  <2>2. QED
    BY <1>1, <1>2, <2>1 DEF HooksFollowState
<1>5. QED
  BY <1>3, <1>4

LEMMA SetConnStep ==
    ASSUME TypeOK, HooksFollowState,
           NEW c \in Conns, NEW k \in Conn, k.hook = conns[c].hook,
           SetConn(c, k), mgr' = mgr
    PROVE  mgr' \in Mgr /\ conns' \in [Conns -> Conn] /\ HooksFollowState'
<1>1. conns \in [Conns -> Conn] /\ mgr \in Mgr /\ conns' = [conns EXCEPT ![c] = k]
  BY DEF TypeOK, SetConn
<1>2. QED
  BY <1>1 DEF HooksFollowState

\* Changing one connection before setState().
LEMMA OneConn ==
    ASSUME TypeOK, NEW c \in Conns, NEW k \in Conn, k.hook = conns[c].hook
    PROVE  /\ [conns EXCEPT ![c] = k] \in [Conns -> Conn]
           /\ \A d \in Conns : [conns EXCEPT ![c] = k][d].hook = conns[d].hook
  BY DEF TypeOK

LEMMA Unmoved ==
    ASSUME TypeOK, HooksFollowState, UNCHANGED <<mgr, conns>>
    PROVE  mgr' \in Mgr /\ conns' \in [Conns -> Conn] /\ HooksFollowState'
  BY DEF TypeOK, HooksFollowState

LEMMA ConnectType ==
    ASSUME TypeOK, NEW c \in Fresh(conns)
    PROVE  /\ c \in Conns
           /\ Connect(conns, c) \in [Conns -> Conn]
           /\ \A d \in Conns : Connect(conns, c)[d].hook = conns[d].hook
<1>1. c \in Conns /\ conns \in [Conns -> Conn]
  BY DEF TypeOK, Fresh
<1>2. ASSUME NEW k \in Conn, NEW f \in Life, NEW L \in SUBSET Listener, NEW p \in Promise
      PROVE  LET n == [[[k EXCEPT !.life = f] EXCEPT !.lst = L] EXCEPT !.prom = p]
             IN  n \in Conn /\ n.hook = k.hook
  BY DEF Conn
<1>3. "connecting" \in Life /\ {"connect"} \in SUBSET Listener /\ "pending" \in Promise
  BY DEF Life, Listener, Promise
<1>4. Connect(conns, c) = [conns EXCEPT ![c] = [[[conns[c] EXCEPT !.life = "connecting"]
                                                 EXCEPT !.lst = {"connect"}]
                                                 EXCEPT !.prom = "pending"]]
  BY <1>1 DEF Connect
<1> DEFINE n == [[[conns[c] EXCEPT !.life = "connecting"] EXCEPT !.lst = {"connect"}]
                 EXCEPT !.prom = "pending"]
<1>5. conns[c] \in Conn
  BY <1>1
<1>6. n \in Conn /\ n.hook = conns[c].hook
  BY <1>3, <1>5 DEF Conn
<1> HIDE DEF n
<1>7. QED
  BY <1>1, <1>4, <1>6, OneConn DEF n

(***************************************************************************)
(* The microtask queue.                                                    *)
(***************************************************************************)
LEMMA JobTypes ==
    /\ \A k \in JobKind, c \in Conns, res \in Reason : J(k, c, res) \in Job
    /\ UserJob \in Job
    /\ \A c \in Conns, S \in SUBSET Calls : [J("go", c, "ok") EXCEPT !.calls = S] \in Job
    /\ \A c \in Conns, res \in Reason : SettleConn(c, res) \in Seq(Job)
    /\ \A c, d \in Conns, res \in Reason : SettleVerified(c, res, d) \in Seq(Job)
<1>1. \A k \in JobKind, c \in Conns, res \in Reason : J(k, c, res) \in Job
  BY DEF J, Job
<1>2. UserJob \in Job
  BY DEF UserJob, J, Job
<1>3. \A c \in Conns, S \in SUBSET Calls : [J("go", c, "ok") EXCEPT !.calls = S] \in Job
  BY DEF J, Job, JobKind, Reason
<1>4. \A c \in Conns, res \in Reason : SettleConn(c, res) \in Seq(Job)
  <2> SUFFICES ASSUME NEW c \in Conns, NEW res \in Reason PROVE SettleConn(c, res) \in Seq(Job)
    OBVIOUS
  <2>1. J("conn", c, res) \in Job /\ J("conn-wait", c, res) \in Job
    BY <1>1 DEF JobKind
  <2>2. QED
    BY <2>1 DEF SettleConn
<1>5. \A c, d \in Conns, res \in Reason : SettleVerified(c, res, d) \in Seq(Job)
  <2> SUFFICES ASSUME NEW c \in Conns, NEW d \in Conns, NEW res \in Reason
               PROVE  SettleVerified(c, res, d) \in Seq(Job)
    OBVIOUS
  <2>1. J("verified-wait", c, res) \in Job
    BY <1>1 DEF JobKind
  <2>2. [J("verified", c, res) EXCEPT !.to = d] \in Job
    BY DEF J, Job
  <2>3. QED
    BY <2>1, <2>2 DEF SettleVerified
<1>6. QED
  BY <1>1, <1>2, <1>3, <1>4, <1>5

\* What a queued job carries.
LEMMA HeadJob ==
    ASSUME TypeOK, NEW k, Micro(k)
    PROVE  /\ Tail(jobs) \in Seq(Job)
           /\ Head(jobs).res \in Reason
           /\ Head(jobs).calls \in SUBSET Calls
           /\ k # "user" => Head(jobs).c \in Conns
           /\ k = "verified" => Head(jobs).to \in Conns
<1>1. jobs \in Seq(Job) /\ jobs # <<>>
  BY DEF TypeOK, Micro
<1>2. Head(jobs) \in Job /\ Tail(jobs) \in Seq(Job)
  BY <1>1
<1>3. Head(jobs).job = k
  BY DEF Micro
<1>4. \A j \in Job : /\ j.res \in Reason /\ j.calls \in SUBSET Calls
                     /\ j.job # "user" => j.c \in Conns
                     /\ j.job = "verified" => j.to \in Conns
  BY DEF Job, Reason, JobKind
<1>5. QED
  BY <1>2, <1>3, <1>4

(***************************************************************************)
(* User code preserves the invariant.                                      *)
(***************************************************************************)
LEMMA CallSteps ==
    ASSUME ConfigAssumption, IInv, NEW r \in Calls, NEW kind \in {"request", "connect"},
           \/ CallReady(r, kind) \/ CallVerify(r, kind)
           \/ CallConnect(r, kind) \/ CallWait(r, kind)
    PROVE  IInv'
<1> USE DEF IInv
<1>0. /\ mgr \in Mgr /\ conns \in [Conns -> Conn] /\ jobs \in Seq(Job) /\ call \in [Calls -> Call]
      /\ (mgr.t \in {"connecting", "verifying", "ready"} => mgr.c \in Conns)
  BY MgrStates DEF TypeOK
<1>1. \A pc \in {"go"} \cup Waiting, c \in Conns : Wait(r, kind, pc, c) => call' \in [Calls -> Call]
  BY <1>0 DEF Wait, Call
<1>2. CASE CallReady(r, kind)
  <2>1. mgr.c \in Conns /\ UNCHANGED <<mgr, conns>>
    BY <1>0, <1>2 DEF CallReady
  <2>2. call' \in [Calls -> Call]
    BY <1>1, <1>2, <2>1 DEF CallReady
  <2>3. jobs' \in Seq(Job)
    <3>1. jobs' = Append(jobs, [J("go", mgr.c, "ok") EXCEPT !.calls = {r}])
      BY <1>2 DEF CallReady
    <3>2. [J("go", mgr.c, "ok") EXCEPT !.calls = {r}] \in Job
      BY <2>1, JobTypes
    <3>3. QED
      BY <1>0, <3>1, <3>2
  <2>4. QED
    BY <1>2, <2>1, <2>2, <2>3, Unmoved DEF CallReady, TypeOK
<1>3. CASE CallVerify(r, kind)
  <2> DEFINE c == mgr.c
  <2>1. c \in Conns /\ conns[c] \in Conn /\ Verifying(c) \in Mgr
    BY <1>0, <1>3, MgrStates DEF CallVerify
  <2>2. VerifyPing(conns[c]) \in Conn /\ VerifyPing(conns[c]).hook = conns[c].hook
    BY <2>1, VerifyPingType
  <2>3. SetState([conns EXCEPT ![c] = VerifyPing(conns[c])], Verifying(c))
    BY <1>3 DEF CallVerify
  <2>4. mgr' \in Mgr /\ conns' \in [Conns -> Conn] /\ HooksFollowState'
    BY <2>1, <2>2, <2>3, OneConn, SetStateStep
  <2>5. jobs' \in Seq(Job)
    <3>1. J("ping", c, "canceled") \in Job
      BY <2>1, JobTypes DEF JobKind, Reason
    <3>2. jobs' = jobs \/ jobs' = Append(jobs, J("ping", c, "canceled"))
      BY <1>3 DEF CallVerify
    <3>3. QED
      BY <1>0, <3>1, <3>2
  <2>6. call' \in [Calls -> Call]
    BY <1>1, <1>3, <2>1 DEF CallVerify, Waiting
  <2>7. QED
    BY <1>3, <2>4, <2>5, <2>6 DEF CallVerify, TypeOK
<1>4. CASE CallConnect(r, kind)
  <2>1. PICK c \in Fresh(conns) :
           SetState(Connect(conns, c), Connecting(c)) /\ Wait(r, kind, "conn", c)
    BY <1>4 DEF CallConnect
  <2>2. c \in Conns
    BY ConnectType
  <2>3. mgr' \in Mgr /\ conns' \in [Conns -> Conn] /\ HooksFollowState'
    BY <2>1, <2>2, ConnectType, SetStateStep, MgrStates
  <2>4. call' \in [Calls -> Call]
    BY <1>1, <2>1, <2>2 DEF Waiting
  <2>5. QED
    BY <1>4, <2>3, <2>4 DEF CallConnect, TypeOK
<1>5. CASE CallWait(r, kind)
  <2>1. mgr.c \in Conns /\ UNCHANGED <<mgr, conns>>
    BY <1>0, <1>5 DEF CallWait
  <2>2. call' \in [Calls -> Call]
    BY <1>1, <1>5, <2>1 DEF CallWait, Waiting
  <2>3. QED
    BY <1>5, <2>1, <2>2, Unmoved DEF CallWait, TypeOK
<1>6. QED
  BY <1>2, <1>3, <1>4, <1>5

LEMMA AbortStep ==
    ASSUME ConfigAssumption, IInv, NEW reason \in {"canceled", "failed"}, Abort(reason)
    PROVE  IInv'
<1> USE DEF IInv
<1>0. /\ mgr \in Mgr /\ conns \in [Conns -> Conn] /\ jobs \in Seq(Job)
      /\ (mgr.t \in {"connecting", "verifying", "ready"} => mgr.c \in Conns)
      /\ ClosedOrError(reason) \in Mgr
  BY MgrStates DEF TypeOK
<1> DEFINE c == mgr.c
           k1 == [Destroy(conns[c], FALSE) EXCEPT !.prom = "settled"]
           k2 == AbortReady(conns[c])
<1>1. CASE mgr.t = "connecting"
  <2>1. /\ SetState([conns EXCEPT ![c] = k1], ClosedOrError(reason))
        /\ jobs' = jobs \o RejectConnecting(c, reason)
    BY <1>1 DEF Abort
  <2>2. k1 \in Conn /\ k1.hook = conns[c].hook
    <3>1. \A l \in Conn : [l EXCEPT !.prom = "settled"] \in Conn
                          /\ [l EXCEPT !.prom = "settled"].hook = l.hook
      BY DEF Conn, Promise
    <3>2. QED
      BY <1>0, <1>1, <3>1, DestroyType
  <2>3. mgr' \in Mgr /\ conns' \in [Conns -> Conn] /\ HooksFollowState'
    BY <1>0, <1>1, <2>1, <2>2, OneConn, SetStateStep
  <2>4. RejectConnecting(c, reason) \in Seq(Job)
    BY <1>0, <1>1, JobTypes DEF RejectConnecting, Reason
  <2>5. QED
    BY <1>0, <2>1, <2>3, <2>4 DEF Abort, TypeOK, ConfigAssumption
<1>2. CASE mgr.t \in {"verifying", "ready"}
  <2>1. SetState([conns EXCEPT ![c] = k2], ClosedOrError(reason)) /\ jobs' = jobs
    BY <1>2 DEF Abort
  <2>2. k2 \in Conn /\ k2.hook = conns[c].hook
    BY <1>0, <1>2, EndOpsType
  <2>3. mgr' \in Mgr /\ conns' \in [Conns -> Conn] /\ HooksFollowState'
    <3> HIDE DEF k2
    <3>1. QED
      BY <1>0, <1>2, <2>1, <2>2, OneConn, SetStateStep
  <2>4. QED
    BY <2>1, <2>3 DEF Abort, TypeOK, ConfigAssumption
<1>3. CASE mgr.t \notin {"connecting", "verifying", "ready"}
  <2>1. SetState(conns, ClosedOrError(reason)) /\ jobs' = jobs
    BY <1>3 DEF Abort
  <2>2. mgr' \in Mgr /\ conns' \in [Conns -> Conn] /\ HooksFollowState'
    BY <1>0, <2>1, SetStateStep
  <2>3. QED
    BY <2>1, <2>2 DEF Abort, TypeOK, ConfigAssumption
<1>4. QED
  BY <1>1, <1>2, <1>3

(***************************************************************************)
(* Microtasks preserve the invariant.                                      *)
(***************************************************************************)
LEMMA RunConnStep ==
    ASSUME ConfigAssumption, IInv, RunConn
    PROVE  IInv'
<1> USE DEF IInv
<1> DEFINE c == Head(jobs).c
<1>1. /\ c \in Conns /\ Tail(jobs) \in Seq(Job) /\ conns[c] \in Conn /\ conns \in [Conns -> Conn]
      /\ Ready(c) \in Mgr /\ ClosedOrError(Head(jobs).res) \in Mgr
  BY HeadJob, MgrStates DEF RunConn, TypeOK
<1>2. mgr' \in Mgr /\ conns' \in [Conns -> Conn] /\ HooksFollowState'
  <2>1. CASE Head(jobs).res = "ok"
    <3>1. SetState([conns EXCEPT ![c] = ReadyState(conns[c])], Ready(c))
      BY <2>1 DEF RunConn
    <3>2. QED
      BY <1>1, <3>1, OpsType, OneConn, SetStateStep
  <2>2. CASE Head(jobs).res # "ok"
    <3>1. SetState(conns, ClosedOrError(Head(jobs).res))
      BY <2>2 DEF RunConn
    <3>2. QED
      BY <1>1, <3>1, SetStateStep
  <2>3. QED
    BY <2>1, <2>2
<1>3. QED
  BY <1>1, <1>2 DEF RunConn, TypeOK

LEMMA RunPingStep ==
    ASSUME ConfigAssumption, IInv, RunPing
    PROVE  IInv'
<1> USE DEF IInv
<1> DEFINE j == Head(jobs)
<1>1. j.c \in Conns /\ Tail(jobs) \in Seq(Job) /\ j.res \in Reason
  BY HeadJob DEF RunPing
<1>2. CASE j.res = "failed"
  <2>1. PICK c \in Fresh(conns) : /\ conns' = Connect(conns, c)
                                  /\ jobs' = Tail(jobs) \o SettleVerified(j.c, "failed", c)
    BY <1>2 DEF RunPing
  <2>2. c \in Conns /\ conns' \in [Conns -> Conn] /\ \A d \in Conns : conns'[d].hook = conns[d].hook
    BY <2>1, ConnectType
  <2>3. jobs' \in Seq(Job)
    BY <1>1, <2>1, <2>2, JobTypes DEF Reason
  <2>4. QED
    BY <2>2, <2>3 DEF RunPing, TypeOK, HooksFollowState
<1>3. CASE j.res # "failed"
  <2>1. jobs' = Tail(jobs) \o SettleVerified(j.c, j.res, j.c) /\ conns' = conns
    BY <1>3 DEF RunPing
  <2>2. jobs' \in Seq(Job)
    BY <1>1, <2>1, JobTypes
  <2>3. QED
    BY <2>1, <2>2 DEF RunPing, TypeOK, HooksFollowState
<1>4. QED
  BY <1>2, <1>3

LEMMA RunVerifiedStep ==
    ASSUME ConfigAssumption, IInv, RunVerified
    PROVE  IInv'
<1> USE DEF IInv
<1> DEFINE d == Head(jobs).to
<1>1. d \in Conns /\ Tail(jobs) \in Seq(Job) /\ conns \in [Conns -> Conn]
  BY HeadJob DEF RunVerified, TypeOK
<1>2. PICK s \in {Ready(d), Connecting(d), Errored} : SetState(conns, s)
  BY DEF RunVerified
<1>3. s \in Mgr
  BY <1>1, <1>2, MgrStates
<1>4. mgr' \in Mgr /\ conns' \in [Conns -> Conn] /\ HooksFollowState'
  BY <1>1, <1>2, <1>3, SetStateStep
<1>5. QED
  BY <1>1, <1>4 DEF RunVerified, TypeOK

LEMMA ResumeType ==
    ASSUME TypeOK, NEW S \in SUBSET Calls, NEW q \in Seq(Job), Resume(S, q)
    PROVE  /\ call' \in [Calls -> Call] /\ jobs' \in Seq(Job)
           /\ dead' \in {"no", "event", "ping", "spin"}
<1>1. mgr \in Mgr /\ call \in [Calls -> Call] /\ dead \in {"no", "event", "ping", "spin"}
  BY DEF TypeOK
<1>2. \A l \in Call, pc \in {"go", "failed"} \cup Waiting, c \in Conns :
         [l EXCEPT !.pc = pc] \in Call /\ [l EXCEPT !.pc = pc, !.c = c] \in Call
  BY DEF Call
<1>3. CASE mgr.t = "ready"
  <2>1. mgr.c \in Conns
    BY <1>1, <1>3, MgrStates
  <2>2. [J("go", mgr.c, "ok") EXCEPT !.calls = S] \in Job
    BY <2>1, JobTypes
  <2>3. jobs' = Append(q, [J("go", mgr.c, "ok") EXCEPT !.calls = S]) /\ dead' = dead
    BY <1>3 DEF Resume
  <2>4. jobs' \in Seq(Job)
    BY <2>2, <2>3
  <2>5. call' = [r \in Calls |-> IF r \in S THEN [call[r] EXCEPT !.pc = "go", !.c = mgr.c]
                                 ELSE call[r]]
    BY <1>3 DEF Resume
  <2>6. call' \in [Calls -> Call]
    BY <1>1, <1>2, <2>1, <2>5
  <2>7. QED
    BY <1>1, <2>3, <2>4, <2>6
<1>4. CASE mgr.t \in {"connecting", "verifying"}
  <2> DEFINE pc == IF mgr.t = "connecting" THEN "conn" ELSE "verify"
  <2>1. mgr.c \in Conns /\ pc \in Waiting
    BY <1>1, <1>4, MgrStates DEF Waiting
  <2>2. /\ call' = [r \in Calls |-> IF r \in S THEN [call[r] EXCEPT !.pc = pc, !.c = mgr.c]
                                    ELSE call[r]]
        /\ jobs' = q /\ dead' = dead
    BY <1>4 DEF Resume
  <2> HIDE DEF pc
  <2>3. call' \in [Calls -> Call]
    BY <1>1, <1>2, <2>1, <2>2
  <2>4. QED
    BY <1>1, <2>2, <2>3
<1>5. CASE mgr.t = "error"
  <2>1. jobs' = Append(q, UserJob) /\ UserJob \in Job /\ dead' = dead
    BY <1>5, JobTypes DEF Resume
  <2>2. jobs' \in Seq(Job)
    BY <2>1
  <2>3. call' = [r \in Calls |-> IF r \in S THEN [call[r] EXCEPT !.pc = "failed"] ELSE call[r]]
    BY <1>5 DEF Resume
  <2>4. call' \in [Calls -> Call]
    <3>1. \A l \in Call : [l EXCEPT !.pc = "failed"] \in Call
      BY DEF Call
    <3>2. QED
      BY <1>1, <2>3, <3>1
  <2>5. QED
    BY <1>1, <2>1, <2>2, <2>4
<1>6. CASE mgr.t \notin {"ready", "connecting", "verifying", "error"}
  BY <1>1, <1>6 DEF Resume
<1>7. QED
  BY <1>3, <1>4, <1>5, <1>6

LEMMA RunWaitStep ==
    ASSUME ConfigAssumption, IInv, NEW k, NEW pc \in Waiting, RunWait(k, pc)
    PROVE  IInv'
<1> USE DEF IInv
<1> DEFINE j == Head(jobs)
           S == {r \in Calls : call[r].pc = pc /\ call[r].c = j.c}
<1>1. Tail(jobs) \in Seq(Job) /\ S \in SUBSET Calls
  BY HeadJob DEF RunWait
<1>2. mgr' \in Mgr /\ conns' \in [Conns -> Conn] /\ HooksFollowState'
  BY Unmoved DEF RunWait
<1>3. /\ call' \in [Calls -> Call] /\ jobs' \in Seq(Job)
      /\ dead' \in {"no", "event", "ping", "spin"}
  <2>1. CASE Fulfilled(j)
    <3>1. Resume(S, Tail(jobs))
      BY <2>1 DEF RunWait
    <3> HIDE DEF S
    <3>2. QED
      BY <1>1, <3>1, ResumeType
  <2>2. CASE ~Fulfilled(j)
    <3>1. jobs' = Append(Tail(jobs), UserJob) /\ UserJob \in Job /\ dead' = dead
      BY <2>2, JobTypes DEF RunWait
    <3>2. jobs' \in Seq(Job)
      BY <1>1, <3>1
    <3>3. call' = [r \in Calls |-> IF r \in S THEN [call[r] EXCEPT !.pc = "failed"] ELSE call[r]]
      BY <2>2 DEF RunWait
    <3>4. \A l \in Call : [l EXCEPT !.pc = "failed"] \in Call
      BY DEF Call
    <3>5. QED
      BY <3>1, <3>2, <3>3, <3>4 DEF TypeOK
  <2>3. QED
    BY <2>1, <2>2
<1>4. QED
  BY <1>2, <1>3 DEF RunWait, TypeOK

LEMMA RunGoStep ==
    ASSUME ConfigAssumption, IInv, RunGo
    PROVE  IInv'
<1> USE DEF IInv
<1> DEFINE j == Head(jobs)
           R == {r \in j.calls : call[r].kind = "request"}
<1>1. /\ j.c \in Conns /\ Tail(jobs) \in Seq(Job) /\ j.calls \in SUBSET Calls
      /\ conns[j.c] \in Conn
  BY HeadJob DEF RunGo, TypeOK
<1>2. Cardinality(R) \in Nat
  BY <1>1, FS_CardinalityType, FS_Subset DEF ConfigAssumption
<1>3. mgr' \in Mgr /\ conns' \in [Conns -> Conn] /\ HooksFollowState'
  <2> DEFINE k == RegisterRequests(conns[j.c], Cardinality(R))
  <2>1. k \in Conn /\ k.hook = conns[j.c].hook
    BY <1>1, <1>2, StreamOpsType
  <2>2. mgr' = mgr /\ (conns' = conns \/ conns' = [conns EXCEPT ![j.c] = k])
    BY DEF RunGo
  <2> HIDE DEF k
  <2>3. QED
    BY <1>1, <2>1, <2>2, Unmoved, SetConnStep DEF SetConn
<1>4. call' \in [Calls -> Call]
  <2>1. \A l \in Call, pc \in {"done", "failed"} \cup Streaming : [l EXCEPT !.pc = pc] \in Call
    BY DEF Call
  <2>2. QED
    BY <2>1 DEF RunGo, TypeOK, Streaming
<1>5. jobs' \in Seq(Job)
  <2>1. jobs' = Append(Tail(jobs), UserJob) /\ UserJob \in Job
    BY JobTypes DEF RunGo
  <2>2. QED
    BY <1>1, <2>1
<1>6. QED
  BY <1>3, <1>4, <1>5 DEF RunGo, TypeOK

LEMMA RunUserStep ==
    ASSUME ConfigAssumption, IInv, RunUser
    PROVE  IInv'
<1>1. Tail(jobs) \in Seq(Job)
  BY HeadJob DEF RunUser, IInv
<1>2. QED
  BY <1>1, Unmoved DEF RunUser, IInv, TypeOK

(***************************************************************************)
(* Events preserve the invariant.  Every one is SetConn or SetState of a   *)
(* typed record that keeps the hook of its connection.                     *)
(***************************************************************************)
LEMMA ConnectEvents ==
    ASSUME ConfigAssumption, IInv, NEW c \in Conns, OnConnect(c) \/ ConnectFails(c)
    PROVE  IInv'
<1> USE DEF IInv
<1> DEFINE k == conns[c]
           k1 == [k EXCEPT !.life = "open", !.lst = @ \ {"connect"}, !.prom = "settled"]
           k2 == [k EXCEPT !.life = "open"]
           k3 == [k EXCEPT !.life = "gone"]
           k4 == [k3 EXCEPT !.lst = {}, !.prom = "settled"]
<1>1. k \in Conn
  BY DEF TypeOK
<1>2. /\ k1 \in Conn /\ k1.hook = k.hook
      /\ k2 \in Conn /\ k2.hook = k.hook
      /\ k3 \in Conn /\ k3.hook = k.hook
  <2>1. ASSUME NEW f \in Life, NEW L \in SUBSET Listener, NEW p \in Promise
        PROVE  LET n == [k EXCEPT !.life = f, !.lst = L, !.prom = p]
               IN  n \in Conn /\ n.hook = k.hook
    BY <1>1 DEF Conn
  <2>2. \A f \in Life : [k EXCEPT !.life = f] \in Conn /\ [k EXCEPT !.life = f].hook = k.hook
    BY <1>1 DEF Conn
  <2>3. {"open", "gone"} \subseteq Life /\ "settled" \in Promise /\ k.lst \ {"connect"} \in SUBSET Listener
    BY <1>1 DEF Life, Promise, Conn
  <2> HIDE DEF k
  <2>4. QED
    BY <2>1, <2>2, <2>3
<1>3. k4 \in Conn /\ k4.hook = k.hook
  <2>1. ASSUME NEW l \in Conn, NEW L \in SUBSET Listener, NEW p \in Promise
        PROVE  LET n == [l EXCEPT !.lst = L, !.prom = p]
               IN  n \in Conn /\ n.hook = l.hook
    BY DEF Conn
  <2>2. {} \in SUBSET Listener /\ "settled" \in Promise
    BY DEF Promise
  <2>3. \A l \in Conn : LET n == [l EXCEPT !.lst = {}, !.prom = "settled"]
                        IN  n \in Conn /\ n.hook = l.hook
    BY <2>1, <2>2, Zenon
  <2> HIDE DEF k, k3
  <2>4. QED
    BY <1>2, <2>3
<1>4. mgr' = mgr /\ (SetConn(c, k1) \/ SetConn(c, k2) \/ SetConn(c, k3) \/ SetConn(c, k4))
  BY DEF OnConnect, ConnectFails
<1>5. mgr' \in Mgr /\ conns' \in [Conns -> Conn] /\ HooksFollowState'
  <2> HIDE DEF k1, k2, k3, k4
  <2>1. QED
    BY <1>2, <1>3, <1>4, SetConnStep
<1>6. jobs' \in Seq(Job)
  <2>1. jobs' = jobs \/ jobs' = SettleConn(c, "ok") \/ jobs' = SettleConn(c, "failed")
    BY DEF OnConnect, ConnectFails
  <2>2. QED
    BY <2>1, JobTypes DEF TypeOK, Reason
<1>7. QED
  BY <1>5, <1>6 DEF OnConnect, ConnectFails, TypeOK

LEMMA PeerEvents ==
    ASSUME ConfigAssumption, IInv, NEW c \in Conns,
           \/ \E fault \in {"reset", "close"} : SocketEnds(c, fault)
           \/ PeerMute(c) \/ Goaway(c) \/ GoawayCalm(c) \/ GetStale(c)
    PROVE  IInv'
<1> USE DEF IInv
<1>1. conns[c] \in Conn
  BY DEF TypeOK
<1>2. PICK k \in Conn : SetConn(c, k) /\ k.hook = conns[c].hook
  <2>1. CASE \E fault \in {"reset", "close"} : SocketEnds(c, fault)
    BY <1>1, <2>1, DestroyType DEF SocketEnds
  <2>2. CASE Goaway(c) \/ GoawayCalm(c)
    BY <1>1, <2>2, EndOpsType, DestroyType DEF Goaway, GoawayCalm
  <2>3. CASE PeerMute(c)
    <3>1. [conns[c] EXCEPT !.mute = TRUE] \in Conn /\ [conns[c] EXCEPT !.mute = TRUE].hook = conns[c].hook
      BY <1>1 DEF Conn
    <3>2. QED
      BY <2>3, <3>1 DEF PeerMute
  <2>4. CASE GetStale(c)
    <3>1. [conns[c] EXCEPT !.stale = TRUE] \in Conn /\ [conns[c] EXCEPT !.stale = TRUE].hook = conns[c].hook
      BY <1>1 DEF Conn
    <3>2. QED
      BY <2>4, <3>1 DEF GetStale
  <2>5. QED
    BY <2>1, <2>2, <2>3, <2>4
<1>3. mgr' = mgr
  BY DEF SocketEnds, PeerMute, Goaway, GoawayCalm, GetStale
<1>4. mgr' \in Mgr /\ conns' \in [Conns -> Conn] /\ HooksFollowState'
  BY <1>2, <1>3, SetConnStep
<1>5. UNCHANGED <<jobs, call, turn, aborts, dead>>
  BY DEF SocketEnds, PeerMute, Goaway, GoawayCalm, GetStale
<1>6. calmed' \in {calmed, calmed + 1} /\ doubled' \in {doubled, doubled + 1}
  BY DEF SocketEnds, PeerMute, Goaway, GoawayCalm, GetStale
<1>7. QED
  BY <1>4, <1>5, <1>6 DEF TypeOK

LEMMA EndEventStep ==
    ASSUME ConfigAssumption, IInv, NEW c \in Conns, EndEvent(c)
    PROVE  IInv'
<1> USE DEF IInv
<1> DEFINE k == [conns[c] EXCEPT !.life = "gone", !.lst = @ \ {"ping", "swallow"}]
           k2 == [k EXCEPT !.ping = "settled"]
<1>1. conns[c] \in Conn /\ conns[c].lst \ {"ping", "swallow"} \in SUBSET Listener
  BY DEF TypeOK, Conn
<1>2. k \in Conn /\ k.hook = conns[c].hook
  BY <1>1 DEF Conn, Life
<1>3. k2 \in Conn /\ k2.hook = conns[c].hook
  <2> HIDE DEF k
  <2>1. QED
    BY <1>2 DEF Conn, Promise
<1>4. Cleanup(k) \in Conn /\ Cleanup(k).hook = conns[c].hook
  BY <1>2, OpsType
<1>5. \/ SetConn(c, k) /\ mgr' = mgr
      \/ SetConn(c, k2) /\ mgr' = mgr
      \/ SetConn(c, Cleanup(k)) /\ mgr' = mgr
      \/ \E s \in {Errored, Closed} : SetState([conns EXCEPT ![c] = Cleanup(k)], s)
  BY DEF EndEvent
<1>6. jobs' = jobs \/ jobs' = <<J("ping", c, "failed")>>
  BY DEF EndEvent
<1>7. jobs' \in Seq(Job)
  <2>1. J("ping", c, "failed") \in Job
    BY JobTypes DEF JobKind, Reason
  <2>2. QED
    <3>1. jobs \in Seq(Job)
      BY DEF TypeOK
    <3>2. CASE jobs' = <<J("ping", c, "failed")>>
      BY <2>1, <3>2
    <3>3. QED
      BY <1>6, <3>1, <3>2
<1>8. mgr' \in Mgr /\ conns' \in [Conns -> Conn] /\ HooksFollowState'
  <2> HIDE DEF k, k2
  <2>1. CASE \E s \in {Errored, Closed} : SetState([conns EXCEPT ![c] = Cleanup(k)], s)
    BY <1>4, <2>1, OneConn, SetStateStep, MgrStates
  <2>2. CASE ~ \E s \in {Errored, Closed} : SetState([conns EXCEPT ![c] = Cleanup(k)], s)
    BY <1>2, <1>3, <1>4, <1>5, <2>2, SetConnStep
  <2>3. QED
    BY <2>1, <2>2
<1>9. dead' \in {"no", "event", "ping", "spin"}
  BY DEF EndEvent, TypeOK
<1>10. QED
  BY <1>7, <1>8, <1>9 DEF EndEvent, TypeOK

LEMMA PingEvents ==
    ASSUME ConfigAssumption, IInv, NEW c \in Conns,
           \/ \E late \in BOOLEAN : PingAnswered(c, late)
           \/ \E late \in BOOLEAN : IntervalPingAnswered(c, late)
           \/ OnPingTimeout(c)
    PROVE  IInv'
<1> USE DEF IInv
<1> DEFINE k == conns[c]
           k1 == [k EXCEPT !.tmr = @ \ {"timeout"}]
           k2 == [SeenAlive(k1) EXCEPT !.ping = "settled"]
           k3 == [k EXCEPT !.tmr = @ \ {"timeout"}, !.pings = @ - 1]
<1>1. k \in Conn
  BY DEF TypeOK
<1>2. k1 \in Conn /\ k1.hook = k.hook
  BY <1>1 DEF Conn
<1>3. k2 \in Conn /\ k2.hook = k.hook
  <2>1. \A l \in Conn : [l EXCEPT !.ping = "settled"] \in Conn /\ [l EXCEPT !.ping = "settled"].hook = l.hook
    BY DEF Conn, Promise
  <2> HIDE DEF k1, k
  <2>2. QED
    BY <1>2, <2>1, OpsType
<1>4. k.pings > 0 => k3 \in Conn /\ k3.hook = k.hook
  <2>1. ASSUME NEW p \in 0 .. MaxPings, NEW T \in SUBSET Timer
        PROVE  LET n == [k EXCEPT !.tmr = T, !.pings = p]
               IN  n \in Conn /\ n.hook = k.hook
    BY <1>1 DEF Conn
  <2>2. k.pings > 0 => k.pings - 1 \in 0 .. MaxPings
    BY <1>1 DEF Conn, ConfigAssumption
  <2>3. k.tmr \ {"timeout"} \in SUBSET Timer
    BY <1>1 DEF Conn
  <2> HIDE DEF k
  <2>4. QED
    BY <2>1, <2>2, <2>3
<1>5. PICK n \in Conn : SetConn(c, n) /\ n.hook = k.hook
  <2>1. CASE \E late \in BOOLEAN : PingAnswered(c, late)
    <3>1. SetConn(c, Destroy(k1, TRUE)) \/ SetConn(c, k2)
      BY <2>1 DEF PingAnswered
    <3> HIDE DEF k1, k2, k
    <3>2. Destroy(k1, TRUE) \in Conn /\ Destroy(k1, TRUE).hook = k.hook
      BY <1>2, DestroyType
    <3>3. QED
      BY <1>3, <3>1, <3>2, Zenon
  <2>2. CASE \E late \in BOOLEAN : IntervalPingAnswered(c, late)
    <3>1. /\ k.pings > 0
          /\ SetConn(c, Destroy(k3, TRUE)) \/ SetConn(c, ResetPingInterval(SeenAlive(k3)))
      BY <2>2 DEF IntervalPingAnswered
    <3> HIDE DEF k3, k
    <3>2. Destroy(k3, TRUE) \in Conn /\ Destroy(k3, TRUE).hook = k.hook
      BY <1>4, <3>1, DestroyType
    <3>3. /\ ResetPingInterval(SeenAlive(k3)) \in Conn
          /\ ResetPingInterval(SeenAlive(k3)).hook = k.hook
      BY <1>4, <3>1, OpsType
    <3>4. QED
      BY <3>1, <3>2, <3>3, Zenon
  <2>3. CASE OnPingTimeout(c)
    <3>1. SetConn(c, Destroy(k1, TRUE))
      BY <2>3 DEF OnPingTimeout
    <3> HIDE DEF k1, k
    <3>2. Destroy(k1, TRUE) \in Conn /\ Destroy(k1, TRUE).hook = k.hook
      BY <1>2, DestroyType
    <3>3. QED
      BY <3>1, <3>2, Zenon
  <2>4. QED
    BY <2>1, <2>2, <2>3
<1>6. mgr' = mgr
  BY DEF PingAnswered, IntervalPingAnswered, OnPingTimeout
<1>7. mgr' \in Mgr /\ conns' \in [Conns -> Conn] /\ HooksFollowState'
  BY <1>5, <1>6, SetConnStep
<1>8. jobs' \in Seq(Job)
  <2>1. jobs' = jobs \/ jobs' = <<J("ping", c, "ok")>>
    BY DEF PingAnswered, IntervalPingAnswered, OnPingTimeout
  <2>2. J("ping", c, "ok") \in Job /\ jobs \in Seq(Job)
    BY JobTypes DEF JobKind, Reason, TypeOK
  <2>3. CASE jobs' = <<J("ping", c, "ok")>>
    BY <2>2, <2>3
  <2>4. QED
    BY <2>1, <2>2, <2>3
<1>9. UNCHANGED <<call, turn, aborts, calmed, doubled, dead>>
  BY DEF PingAnswered, IntervalPingAnswered, OnPingTimeout
<1>10. QED
  BY <1>7, <1>8, <1>9 DEF TypeOK

LEMMA TimerEvents ==
    ASSUME ConfigAssumption, IInv, NEW c \in Conns, OnPingInterval(c) \/ OnIdleTimeout(c)
    PROVE  IInv'
<1> USE DEF IInv
<1> DEFINE k == conns[c]
           k1 == [k EXCEPT !.tmr = (@ \ {"interval"}) \cup {"timeout"}]
           k2 == [k1 EXCEPT !.pings = @ + 1]
           k3 == [k1 EXCEPT !.tmr = @ \ {"timeout"}]
           k4 == [k EXCEPT !.tmr = @ \ {"idle"}]
           k5 == Cleanup(Close(k4, c))
<1>1. k \in Conn
  BY DEF TypeOK
<1>2. k1 \in Conn /\ k1.hook = k.hook
  BY <1>1 DEF Conn, Timer
<1>3. /\ PingSent(k1) => k2 \in Conn /\ k2.hook = k.hook
      /\ k3 \in Conn /\ k3.hook = k.hook
  <2> HIDE DEF k1, k
  <2>1. ASSUME NEW p \in 0 .. MaxPings
        PROVE  [k1 EXCEPT !.pings = p] \in Conn /\ [k1 EXCEPT !.pings = p].hook = k1.hook
    BY <1>2 DEF Conn
  <2>2. PingSent(k1) => k1.pings + 1 \in 0 .. MaxPings
    BY <1>2 DEF Conn, ConfigAssumption, PingSent
  <2>3. k3 \in Conn /\ k3.hook = k.hook
    BY <1>2 DEF Conn
  <2>4. QED
    BY <1>2, <2>1, <2>2, <2>3
<1>4. k4 \in Conn /\ k4.hook = k.hook
  BY <1>1 DEF Conn
<1>5. k5 \in Conn /\ k5.hook = k.hook
  <2> HIDE DEF k4, k
  <2>1. QED
    BY <1>4, EndOpsType, OpsType
<1>6. mgr' \in Mgr /\ conns' \in [Conns -> Conn] /\ HooksFollowState'
  <2>1. CASE OnPingInterval(c)
    <3>1. /\ mgr' = mgr
          /\ SetConn(c, k1) \/ SetConn(c, k3) \/ (PingSent(k1) /\ SetConn(c, k2))
      BY <2>1 DEF OnPingInterval
    <3> HIDE DEF k1, k2, k3
    <3>2. QED
      BY <1>2, <1>3, <3>1, SetConnStep
  <2>2. CASE OnIdleTimeout(c)
    <3>1. \/ SetState([conns EXCEPT ![c] = k5], Closed)
          \/ SetConn(c, k5) /\ mgr' = mgr
      BY <2>2 DEF OnIdleTimeout
    <3> HIDE DEF k5
    <3>2. CASE SetState([conns EXCEPT ![c] = k5], Closed)
      BY <1>5, <3>2, OneConn, SetStateStep, MgrStates
    <3>3. CASE SetConn(c, k5) /\ mgr' = mgr
      BY <1>5, <3>3, SetConnStep
    <3>4. QED
      BY <3>1, <3>2, <3>3
  <2>3. QED
    BY <2>1, <2>2
<1>7. /\ UNCHANGED <<jobs, call, turn, aborts, calmed, doubled>>
      /\ dead' \in {dead, "ping"}
  BY DEF OnPingInterval, OnIdleTimeout
<1>8. QED
  BY <1>6, <1>7 DEF TypeOK

LEMMA StreamEvents ==
    ASSUME ConfigAssumption, IInv, NEW r \in Calls,
           StreamResponse(r) \/ StreamBytes(r) \/ OnStreamClose(r)
    PROVE  IInv'
<1> USE DEF IInv
<1> DEFINE c == call[r].c
           k == StreamClosed(conns[c])
<1>1. /\ call[r] \in Call /\ call \in [Calls -> Call]
      /\ conns \in [Conns -> Conn] /\ c \in Conns \cup {NoConn}
  BY DEF TypeOK, Call
<1>2. call' \in [Calls -> Call]
  <2>1. \A l \in Call : [l EXCEPT !.pc = "reading"] \in Call /\ [l EXCEPT !.pc = "done"] \in Call
    BY DEF Call, Streaming
  <2>2. \/ call' = [call EXCEPT ![r] = [call[r] EXCEPT !.pc = "reading"]]
        \/ call' = call
        \/ call' = [call EXCEPT ![r] = [call[r] EXCEPT !.pc = "done"]]
    BY DEF StreamResponse, StreamBytes, OnStreamClose
  <2>3. QED
    BY <1>1, <2>1, <2>2
<1>3. CASE c \in Conns
  <2>1. conns[c] \in Conn
    BY <1>1, <1>3
  <2>2. PICK n \in Conn : SetConn(c, n) /\ n.hook = conns[c].hook
    <3>1. CASE StreamResponse(r) \/ StreamBytes(r)
      BY <2>1, <3>1, OpsType DEF StreamResponse, StreamBytes
    <3>2. CASE OnStreamClose(r)
      <4>1. k \in Conn /\ k.hook = conns[c].hook
        BY <2>1, StreamOpsType
      <4>2. SetConn(c, Destroy(k, FALSE)) \/ SetConn(c, k)
        BY <3>2 DEF OnStreamClose
      <4> HIDE DEF k
      <4>3. Destroy(k, FALSE) \in Conn /\ Destroy(k, FALSE).hook = conns[c].hook
        BY <4>1, DestroyType
      <4>4. QED
        BY <4>1, <4>2, <4>3, Zenon
    <3>3. QED
      BY <3>1, <3>2
  <2>3. mgr' = mgr /\ UNCHANGED <<jobs, turn, aborts, calmed, doubled, dead>>
    BY DEF StreamResponse, StreamBytes, OnStreamClose
  <2>4. mgr' \in Mgr /\ conns' \in [Conns -> Conn] /\ HooksFollowState'
    BY <1>3, <2>2, <2>3, SetConnStep
  <2>5. QED
    BY <1>2, <2>3, <2>4 DEF TypeOK
<1>4. CASE c \notin Conns
  <2>1. \E n : conns' = [conns EXCEPT ![c] = n]
    BY DEF StreamResponse, StreamBytes, OnStreamClose, SetConn
  <2>2. conns' = conns
    BY <1>1, <1>4, <2>1
  <2>3. mgr' = mgr /\ UNCHANGED <<jobs, turn, aborts, calmed, doubled, dead>>
    BY DEF StreamResponse, StreamBytes, OnStreamClose
  <2>4. QED
    BY <1>2, <2>2, <2>3, Unmoved DEF TypeOK
<1>5. QED
  BY <1>3, <1>4

(***************************************************************************)
(* Types and hooks.                                                        *)
(***************************************************************************)
LEMMA Inductive ==
    ASSUME ConfigAssumption, IInv, [Next]_vars
    PROVE  IInv'
<1>1. ASSUME UserCode PROVE IInv'
  <2>1. ASSUME EndTurn PROVE IInv'
    BY <2>1, Unmoved DEF EndTurn, IInv, TypeOK
  <2>2. QED
    BY <1>1, <2>1, CallSteps, AbortStep DEF UserCode
<1>2. ASSUME Microtask PROVE IInv'
  BY <1>2, RunConnStep, RunPingStep, RunVerifiedStep, RunWaitStep, RunGoStep, RunUserStep
     DEF Microtask, RunConnWait, RunVerifiedWait, Waiting
<1>3. ASSUME Event PROVE IInv'
  BY <1>3, ConnectEvents, PeerEvents, EndEventStep, PingEvents, TimerEvents, StreamEvents DEF Event
<1>4. ASSUME UNCHANGED vars PROVE IInv'
  BY <1>4, Unmoved DEF vars, IInv, TypeOK
<1>5. QED
  BY <1>1, <1>2, <1>3, <1>4 DEF Next

LEMMA Initial ==
    ASSUME ConfigAssumption, Init
    PROVE  IInv
<1>1. NewConn \in Conn /\ ~NewConn.hook
  BY DEF NewConn, Conn, Life, Promise, ConfigAssumption
<1>2. \A r \in Calls : [pc |-> "new", kind |-> "request", c |-> NoConn] \in Call
  BY DEF Call
<1>3. Closed \in Mgr /\ \A c \in Conns : Closed # Ready(c)
  BY MgrStates DEF Closed, Ready
<1>4. TypeOK
  <2>1. mgr \in Mgr /\ conns \in [Conns -> Conn] /\ call \in [Calls -> Call]
    BY <1>1, <1>2, <1>3 DEF Init
  <2>2. jobs \in Seq(Job)
    BY DEF Init
  <2>3. aborts \in 0 .. MaxAborts /\ calmed \in Nat /\ doubled \in Nat
    BY DEF Init, ConfigAssumption
  <2>4. QED
    BY <2>1, <2>2, <2>3 DEF Init, TypeOK
<1>5. HooksFollowState
  BY <1>1, <1>3 DEF Init, HooksFollowState
<1>6. QED
  BY <1>4, <1>5 DEF IInv

\* The variables keep their types: in particular the manager is connecting,
\* verifying or ready only with a session, and node's limit of outstanding
\* PINGs is kept by the calls of the keep-alive timer.
THEOREM TypeCorrect == Spec => []TypeOK
<1>1. Init => IInv
  BY Initial, ConfigAssumption
<1>2. IInv /\ [Next]_vars => IInv'
  BY Inductive, ConfigAssumption
<1>3. IInv => TypeOK
  BY DEF IInv
<1>4. QED
  BY <1>1, <1>2, <1>3, PTL DEF Spec

\* onClose and onError are set on the connection of the ready state and on no
\* other one, through any interleaving: only that connection can move the
\* manager, whatever timers and listeners of older connections still fire.
THEOREM HooksCorrect == Spec => []HooksFollowState
<1>1. Init => IInv
  BY Initial, ConfigAssumption
<1>2. IInv /\ [Next]_vars => IInv'
  BY Inductive, ConfigAssumption
<1>3. IInv => HooksFollowState
  BY DEF IInv
<1>4. QED
  BY <1>1, <1>2, <1>3, PTL DEF Spec

(***************************************************************************)
(* The invariant of the queue, the promises and the connections.           *)
(***************************************************************************)

\* A connection that is not established has a promise to settle and no timer.
ConnOK(k) ==
    k.life \in {"unused", "connecting"} =>
        /\ k.tmr = {}
        /\ k.prom = (IF k.life = "unused" THEN "none" ELSE "pending")

ConnsOK == \A c \in Conns : ConnOK(conns[c])

\* The connection of a connecting state was begun, and so was the one that a
\* failed verification has opened.
Begun ==
    /\ \A c \in Conns : mgr = Connecting(c) => conns[c].life # "unused"
    /\ \A i \in 1 .. Len(jobs) :
          jobs[i].job = "verified" /\ jobs[i].res = "failed" => conns[jobs[i].to].life # "unused"

\* The places of the jobs of one kind.
At(kind) == {i \in 1 .. Len(jobs) : jobs[i].job = kind}

Verifications == At("ping") \cup At("verified")

Follows(j, i) == j.c = i.c /\ j.res = i.res

\* The job of the calls directly follows the reaction of setState().
Paired(q) ==
    \A i \in 2 .. Len(q) :
        /\ q[i].job = "conn-wait" => q[i - 1].job = "conn" /\ Follows(q[i - 1], q[i])
        /\ q[i].job = "verified-wait" => q[i - 1].job = "verified" /\ Follows(q[i - 1], q[i])

\* A job of the calls that has come to the front finds the state that the
\* reaction before it has set: no other code has run in between.
FrontWait ==
    (jobs # <<>> /\ jobs[1].job \in {"conn-wait", "verified-wait"}) =>
        /\ turn = FALSE
        /\ jobs[1].res = "ok" => mgr.t = "ready"
        /\ jobs[1].job = "verified-wait" /\ jobs[1].res = "failed" => mgr.t = "connecting"

\* A connection attempt that succeeds is handled before anything else happens.
ConnectedFirst ==
    \A i \in At("conn") : jobs[i].res = "ok" =>
        /\ i = 1 /\ turn = FALSE
        /\ conns[jobs[i].c].life = "open" /\ conns[jobs[i].c].prom = "settled"

\* The promise of the connection is settled, and setState() has reacted.
Established(c) ==
    conns[c].prom = "settled" /\ \A i \in At("conn") : jobs[i].c = c => jobs[i].res # "ok"

\* Only an established connection is used or verified.
Used(c) ==
    \/ mgr = Ready(c) \/ mgr = Verifying(c)
    \/ conns[c].ping # "none"
    \/ \E r \in Calls : call[r].c = c /\ call[r].pc \in {"go", "stream", "reading"}

\* A call that was made belongs to a connection.
Placed == \A r \in Calls : call[r].pc # "new" => call[r].c \in Conns

UsedEstablished == \A c \in Conns : Used(c) => Established(c)

PingJobs ==
    \A i \in Verifications :
        /\ conns[jobs[i].c].ping # "none"
        /\ jobs[i].job = "verified" /\ jobs[i].res # "failed" => jobs[i].to = jobs[i].c

\* A call that has its connection has one job that goes on with it.
GoJobs ==
    \A i \in At("go") : \A r \in jobs[i].calls :
        /\ call[r].pc = "go" /\ call[r].c = jobs[i].c
        /\ \A j \in At("go") : r \in jobs[j].calls => i = j

\* The manager listens to the connection, and closes it when it is idle.
Attended(k) ==
    /\ "ready" \in k.lst
    /\ k.life \in {"open", "closing", "destroyed"}
    /\ k.streams = 0 => "idle" \in k.tmr

UnverifiedAttended ==
    \A c \in Conns : mgr = Ready(c) /\ conns[c].ping = "none" => Attended(conns[c])

\* What holds until abort() is called: the queue and the listeners belong to
\* the state that the manager is in.
ConnJobs ==
    \A i \in At("conn") :
        /\ i = 1 /\ turn = FALSE /\ mgr = Connecting(jobs[i].c)
        /\ conns[jobs[i].c].life # "connecting"
        /\ jobs[i].res # "ok" => ~Alive(conns[jobs[i].c])

VerifyJobs ==
    \A i \in Verifications :
        /\ \A j \in Verifications : i = j
        /\ mgr = Verifying(jobs[i].c)
        /\ conns[jobs[i].c].ping = "settled"
        /\ jobs[i].res # "ok" => ~Alive(conns[jobs[i].c])
        /\ jobs[i].job = "verified" /\ jobs[i].res = "failed" =>
              conns[jobs[i].to].life = "connecting" /\ "connect" \in conns[jobs[i].to].lst

PingsAwaited == \A c \in Conns : PingUnsettled(conns[c]) => mgr = Verifying(c)

Attempted(c) == conns[c].life = "connecting" /\ "connect" \in conns[c].lst

ConnectingAwaited ==
    \A c \in Conns : mgr = Connecting(c) =>
        Attempted(c) \/ (jobs # <<>> /\ jobs[1].job = "conn" /\ jobs[1].c = c)

Unaborted == aborts = 0 => ConnJobs /\ VerifyJobs /\ PingsAwaited /\ ConnectingAwaited

\* Inductive for every instance, together with IInv.
QueueInv == Paired(jobs) /\ FrontWait /\ ConnectedFirst /\ PingJobs /\ GoJobs
StateInv == ConnsOK /\ Begun /\ Placed /\ UsedEstablished /\ UnverifiedAttended /\ StreamsCounted
PromiseInv == Unaborted /\ SingleConnection /\ NoStrandedCall /\ NoSpin

SessionInv == IInv /\ QueueInv /\ StateInv /\ PromiseInv

(***************************************************************************)
(* The queue.                                                              *)
(***************************************************************************)
LEMMA Joined ==
    ASSUME NEW q \in Seq(Job), NEW n \in Seq(Job)
    PROVE  /\ q \o n \in Seq(Job) /\ Len(q \o n) = Len(q) + Len(n)
           /\ Len(q) \in Nat /\ Len(n) \in Nat
           /\ \A i \in 1 .. Len(q) : (q \o n)[i] = q[i]
           /\ \A i \in Len(q) + 1 .. Len(q \o n) : (q \o n)[i] = n[i - Len(q)]
<1>1. q \o n \in Seq(Job) /\ Len(q \o n) = Len(q) + Len(n) /\ Len(q) \in Nat /\ Len(n) \in Nat
  OBVIOUS
<1>2. \A i \in 1 .. Len(q) + Len(n) : (q \o n)[i] = IF i <= Len(q) THEN q[i] ELSE n[i - Len(q)]
  OBVIOUS
<1>3. QED
  BY <1>1, <1>2

LEMMA Dropped ==
    ASSUME NEW q \in Seq(Job), q # <<>>
    PROVE  /\ Tail(q) \in Seq(Job) /\ Len(Tail(q)) = Len(q) - 1 /\ Len(q) \in Nat \ {0}
           /\ Head(q) = q[1] /\ q[1] \in Job
           /\ \A i \in 1 .. Len(Tail(q)) : Tail(q)[i] = q[i + 1]
  OBVIOUS

LEMMA Added ==
    ASSUME NEW q \in Seq(Job), NEW j \in Job
    PROVE  /\ Append(q, j) \in Seq(Job) /\ Len(Append(q, j)) = Len(q) + 1 /\ Len(q) \in Nat
           /\ \A i \in 1 .. Len(q) : Append(q, j)[i] = q[i]
           /\ Append(q, j)[Len(q) + 1] = j
  OBVIOUS

IsWait(j) == j.job \in {"conn-wait", "verified-wait"}

\* What keeps every job of the calls next to its reaction.
LEMMA PairedTail ==
    ASSUME NEW q \in Seq(Job), q # <<>>, Paired(q)
    PROVE  /\ Paired(Tail(q))
           /\ Len(q) > 1 => /\ q[2].job = "conn-wait" => q[1].job = "conn" /\ Follows(q[1], q[2])
                            /\ q[2].job = "verified-wait" => q[1].job = "verified" /\ Follows(q[1], q[2])
<1>1. Paired(Tail(q))
  <2> SUFFICES ASSUME NEW i \in 2 .. Len(Tail(q))
      PROVE  /\ Tail(q)[i].job = "conn-wait" =>
                  Tail(q)[i - 1].job = "conn" /\ Follows(Tail(q)[i - 1], Tail(q)[i])
             /\ Tail(q)[i].job = "verified-wait" =>
                  Tail(q)[i - 1].job = "verified" /\ Follows(Tail(q)[i - 1], Tail(q)[i])
    BY DEF Paired
  <2>1. Tail(q)[i] = q[i + 1] /\ Tail(q)[i - 1] = q[i] /\ i + 1 \in 2 .. Len(q) /\ (i + 1) - 1 = i
    BY Dropped
  <2>2. QED
    BY <2>1 DEF Paired
<1>2. Len(q) > 1 => 2 \in 2 .. Len(q) /\ 2 - 1 = 1
  BY Dropped
<1>3. QED
  BY <1>1, <1>2 DEF Paired

LEMMA PairedAdded ==
    ASSUME NEW q \in Seq(Job), Paired(q), NEW j \in Job, ~IsWait(j)
    PROVE  Paired(Append(q, j))
<1> DEFINE a == Append(q, j)
<1> SUFFICES ASSUME NEW i \in 2 .. Len(a)
    PROVE  /\ a[i].job = "conn-wait" => a[i - 1].job = "conn" /\ Follows(a[i - 1], a[i])
           /\ a[i].job = "verified-wait" => a[i - 1].job = "verified" /\ Follows(a[i - 1], a[i])
  BY DEF Paired
<1>1. CASE i \in 2 .. Len(q)
  <2>1. a[i] = q[i] /\ a[i - 1] = q[i - 1]
    BY <1>1, Added
  <2>2. QED
    BY <1>1, <2>1 DEF Paired
<1>2. CASE i = Len(q) + 1
  BY <1>2, Added DEF IsWait
<1>3. QED
  BY <1>1, <1>2, Added

LEMMA PairedJoined ==
    ASSUME NEW q \in Seq(Job), Paired(q), NEW n \in Seq(Job), Paired(n), Len(n) > 0 => ~IsWait(n[1])
    PROVE  Paired(q \o n)
<1> DEFINE a == q \o n
<1> SUFFICES ASSUME NEW i \in 2 .. Len(a)
    PROVE  /\ a[i].job = "conn-wait" => a[i - 1].job = "conn" /\ Follows(a[i - 1], a[i])
           /\ a[i].job = "verified-wait" => a[i - 1].job = "verified" /\ Follows(a[i - 1], a[i])
  BY DEF Paired
<1>1. CASE i \in 2 .. Len(q)
  <2>1. a[i] = q[i] /\ a[i - 1] = q[i - 1]
    BY <1>1, Joined
  <2>2. QED
    BY <1>1, <2>1 DEF Paired
<1>2. CASE i = Len(q) + 1
  <2>1. a[i] = n[1] /\ Len(n) > 0
    BY <1>2, Joined
  <2>2. QED
    BY <2>1 DEF IsWait
<1>3. CASE i \in Len(q) + 2 .. Len(a)
  <2>1. /\ a[i] = n[i - Len(q)] /\ a[i - 1] = n[(i - Len(q)) - 1]
        /\ i - Len(q) \in 2 .. Len(n)
    BY <1>3, Joined
  <2>2. QED
    BY <2>1 DEF Paired
<1>4. QED
  BY <1>1, <1>2, <1>3, Joined

\* The two jobs of a promise that has settled.
LEMMA Settled ==
    ASSUME NEW c \in Conns, NEW res \in Reason, NEW d \in Conns
    PROVE  /\ SettleConn(c, res) \in Seq(Job) /\ Len(SettleConn(c, res)) = 2
           /\ SettleConn(c, res)[1] = J("conn", c, res)
           /\ SettleConn(c, res)[2] = J("conn-wait", c, res)
           /\ Paired(SettleConn(c, res)) /\ ~IsWait(SettleConn(c, res)[1])
           /\ SettleVerified(c, res, d) \in Seq(Job) /\ Len(SettleVerified(c, res, d)) = 2
           /\ SettleVerified(c, res, d)[1] = [J("verified", c, res) EXCEPT !.to = d]
           /\ SettleVerified(c, res, d)[2] = J("verified-wait", c, res)
           /\ Paired(SettleVerified(c, res, d)) /\ ~IsWait(SettleVerified(c, res, d)[1])
<1> DEFINE s == SettleConn(c, res)
           v == SettleVerified(c, res, d)
<1>1. s \in Seq(Job) /\ Len(s) = 2 /\ s[1] = J("conn", c, res) /\ s[2] = J("conn-wait", c, res)
  BY JobTypes DEF SettleConn
<1>2. /\ v \in Seq(Job) /\ Len(v) = 2 /\ v[1] = [J("verified", c, res) EXCEPT !.to = d]
      /\ v[2] = J("verified-wait", c, res)
  BY JobTypes DEF SettleVerified
<1> HIDE DEF s, v
<1>3. \A i \in 2 .. 2 : i = 2 /\ i - 1 = 1
  OBVIOUS
<1>4. Paired(s) /\ ~IsWait(s[1])
  BY <1>1, <1>3 DEF Paired, Follows, J, IsWait
<1>5. Paired(v) /\ ~IsWait(v[1])
  BY <1>2, <1>3 DEF Paired, Follows, J, IsWait
<1>6. QED
  BY <1>1, <1>2, <1>4, <1>5 DEF s, v

(***************************************************************************)
(* Events that neither move the manager nor settle a promise.              *)
(***************************************************************************)

\* What such an event may do to its connection.
Quiet(k, n) ==
    /\ n.prom = k.prom /\ n.ping = k.ping
    /\ \/ n.life = k.life
       \/ /\ k.life \notin {"unused", "gone"} /\ n.life \in {"open", "closing", "destroyed", "gone"}
          /\ n.life = "open" => k.life = "connecting"
          /\ k.life = "connecting" => "connect" \notin k.lst
    /\ "connect" \in k.lst => "connect" \in n.lst
    /\ k.life \in {"unused", "connecting"} => n.tmr = {}
    /\ k.hook /\ Attended(k) => Attended(n)

InUse == {"go", "stream", "reading"}

LEMMA QuietEvent ==
    ASSUME ConfigAssumption, SessionInv, IInv', Macro,
           NEW c \in Conns, NEW n \in Conn, conns' = [conns EXCEPT ![c] = n], Quiet(conns[c], n),
           UNCHANGED <<mgr, jobs, turn, aborts>>, dead' \in {dead, "event", "ping"},
           \A r \in Calls : /\ call'[r].c = call[r].c
                            /\ call'[r].pc = "conn" => call[r].pc = "conn"
                            /\ call'[r].pc \in InUse => call[r].pc \in InUse
                            /\ call'[r].pc # "new" => call[r].pc # "new",
           StreamsCounted'
    PROVE  SessionInv'
<1>1. /\ conns \in [Conns -> Conn] /\ mgr \in Mgr /\ jobs = <<>> /\ jobs' = <<>>
      /\ HooksFollowState /\ ConnsOK /\ UsedEstablished /\ UnverifiedAttended
  BY DEF SessionInv, IInv, TypeOK, StateInv, Macro
<1>2. \A d \in Conns : conns'[d] = (IF d = c THEN n ELSE conns[d])
  BY <1>1
<1>3. \A kind : At(kind) = {} /\ At(kind)' = {}
  BY <1>1 DEF At
<1>4. QueueInv'
  <2>1. Paired(jobs)'
    BY <1>1 DEF Paired
  <2>2. FrontWait'
    BY <1>1 DEF FrontWait
  <2>3. ConnectedFirst' /\ PingJobs' /\ GoJobs'
    BY <1>3 DEF ConnectedFirst, PingJobs, GoJobs, Verifications
  <2>4. QED
    BY <2>1, <2>2, <2>3 DEF QueueInv
<1>5. ConnsOK'
  <2> SUFFICES ASSUME NEW d \in Conns PROVE ConnOK(conns'[d])
    BY DEF ConnsOK
  <2>1. ConnOK(conns[d])
    BY <1>1 DEF ConnsOK
  <2>2. d = c => ConnOK(n)
    BY <2>1 DEF ConnOK, Quiet
  <2>3. QED
    BY <1>2, <2>1, <2>2
<1>6. \A d \in Conns : conns'[d].prom = conns[d].prom /\ conns'[d].ping = conns[d].ping
  BY <1>2 DEF Quiet
<1>7. UsedEstablished'
  <2> SUFFICES ASSUME NEW d \in Conns, Used(d)' PROVE Established(d)'
    BY DEF UsedEstablished
  <2>1. Used(d)
    BY <1>6 DEF Used, InUse
  <2>2. Established(d)
    BY <1>1, <2>1 DEF UsedEstablished
  <2>3. QED
    BY <1>3, <1>6, <2>2 DEF Established
<1>8. UnverifiedAttended'
  <2> SUFFICES ASSUME NEW d \in Conns, mgr = Ready(d), conns[d].ping = "none"
      PROVE  Attended(conns'[d])
    BY <1>6 DEF UnverifiedAttended
  <2>1. Attended(conns[d]) /\ conns[d].hook
    BY <1>1 DEF UnverifiedAttended, HooksFollowState
  <2>2. QED
    BY <1>2, <2>1 DEF Quiet
<1>9. Unaborted'
  <2> SUFFICES ASSUME aborts = 0
      PROVE  ConnJobs' /\ VerifyJobs' /\ PingsAwaited' /\ ConnectingAwaited'
    BY DEF Unaborted
  <2>1. PingsAwaited /\ ConnectingAwaited
    BY DEF SessionInv, PromiseInv, Unaborted
  <2>2. ConnJobs' /\ VerifyJobs'
    BY <1>3 DEF ConnJobs, VerifyJobs, Verifications
  <2>3. PingsAwaited'
    BY <1>6, <2>1 DEF PingsAwaited, PingUnsettled
  <2>4. \A d \in Conns : Attempted(d) => Attempted(d)'
    BY <1>2 DEF Attempted, Quiet
  <2>5. ConnectingAwaited'
    BY <1>1, <2>1, <2>4 DEF ConnectingAwaited
  <2>6. QED
    BY <2>2, <2>3, <2>5
<1>10. SingleConnection'
  <2> SUFFICES ASSUME NEW d \in Conns, aborts = 0, conns'[d].life \in {"connecting", "open"}
      PROVE  mgr.c = d
    BY DEF SingleConnection
  <2>1. conns[d].life \in {"connecting", "open"}
    BY <1>2 DEF Quiet
  <2>2. QED
    BY <1>1, <2>1 DEF SessionInv, PromiseInv, SingleConnection
<1>11. NoStrandedCall'
  <2> SUFFICES ASSUME NEW r \in Calls, aborts = 0, call'[r].pc = "conn"
      PROVE  conns'[call'[r].c].life = "connecting" /\ "connect" \in conns'[call'[r].c].lst
    BY DEF NoStrandedCall
  <2>1. conns[call[r].c].life = "connecting" /\ "connect" \in conns[call[r].c].lst
    BY <1>1 DEF SessionInv, PromiseInv, NoStrandedCall
  <2>2. CASE call[r].c = c
    BY <1>2, <2>1, <2>2 DEF Quiet
  <2>3. CASE call[r].c # c
    <3>1. conns'[call[r].c] = conns[call[r].c]
      BY <1>1, <2>3
    <3>2. QED
      BY <2>1, <3>1
  <2>4. QED
    BY <2>2, <2>3
<1>12. NoSpin' /\ Placed'
  BY DEF SessionInv, PromiseInv, NoSpin, StateInv, Placed
<1>13. Begun'
  <2>1. \A d \in Conns : conns'[d].life = "unused" => conns[d].life = "unused"
    BY <1>2 DEF Quiet
  <2>2. Len(jobs') = 0 /\ \A i \in 1 .. 0 : FALSE
    BY <1>1
  <2>3. QED
    BY <2>1, <2>2 DEF SessionInv, StateInv, Begun
<1>14. QED
  BY <1>4, <1>5, <1>7, <1>8, <1>9, <1>10, <1>11, <1>12, <1>13
     DEF SessionInv, QueueInv, StateInv, PromiseInv

\* The fields that timers, PINGs and the end of a session leave alone.
Same(k, n) ==
    /\ n.prom = k.prom /\ n.ping = k.ping /\ n.lst = k.lst /\ n.streams = k.streams
    /\ "idle" \in k.tmr => "idle" \in n.tmr

Ends(k, n) ==
    \/ n.life = k.life
    \/ k.life \notin {"unused", "gone"} /\ n.life \in {"closing", "destroyed"}

LEMMA QuietChange ==
    ASSUME NEW k \in Conn, NEW n \in Conn, k.life \notin {"unused", "connecting"},
           Same(k, n), Ends(k, n)
    PROVE  Quiet(k, n)
<1>1. Attended(k) => Attended(n)
  BY DEF Attended, Same, Ends
<1>2. QED
  BY <1>1 DEF Quiet, Same, Ends

LEMMA TimerOps ==
    ASSUME NEW k \in Conn
    PROVE  /\ Same(k, StopPingInterval(k)) /\ StopPingInterval(k).life = k.life
           /\ Same(k, ResetPingInterval(k)) /\ ResetPingInterval(k).life = k.life
           /\ Same(k, ResetIdleTimeout(k)) /\ ResetIdleTimeout(k).life = k.life
           /\ Same(k, SeenAlive(k)) /\ SeenAlive(k).life = k.life
<1>1. \A T \in SUBSET Timer, b \in BOOLEAN : ("idle" \in k.tmr => "idle" \in T) =>
         /\ Same(k, [k EXCEPT !.tmr = T]) /\ [k EXCEPT !.tmr = T].life = k.life
         /\ Same(k, [k EXCEPT !.stale = b]) /\ [k EXCEPT !.stale = b].life = k.life
  BY DEF Same, Conn
<1>2. Same(k, StopPingInterval(k)) /\ StopPingInterval(k).life = k.life
  BY DEF Same, Conn, StopPingInterval
<1>3. Same(k, ResetPingInterval(k)) /\ ResetPingInterval(k).life = k.life
  BY <1>2 DEF Same, Conn, ResetPingInterval
<1>4. Same(k, ResetIdleTimeout(k)) /\ ResetIdleTimeout(k).life = k.life
  BY DEF Same, Conn, ResetIdleTimeout
<1>5. Same(k, SeenAlive(k)) /\ SeenAlive(k).life = k.life
  BY DEF Same, Conn, SeenAlive
<1>6. QED
  BY <1>2, <1>3, <1>4, <1>5

LEMMA DestroyOps ==
    ASSUME NEW k \in Conn, NEW e \in BOOLEAN
    PROVE  /\ Same(k, Destroy(k, e)) /\ Ends(k, Destroy(k, e)) /\ ~Alive(Destroy(k, e))
           /\ Destroy(k, e).err = (IF Alive(k) THEN e ELSE k.err)
<1>1. CASE Alive(k)
  <2> DEFINE n == [k EXCEPT !.life = "destroyed", !.err = e, !.pings = 0, !.tmr = @ \ {"timeout"}]
  <2>1. /\ n.prom = k.prom /\ n.ping = k.ping /\ n.lst = k.lst /\ n.streams = k.streams
        /\ n.life = "destroyed" /\ n.tmr = k.tmr \ {"timeout"} /\ n.err = e
    BY DEF Conn
  <2>2. Destroy(k, e) = n
    BY <1>1 DEF Destroy
  <2> HIDE DEF n
  <2>3. QED
    BY <1>1, <2>1, <2>2 DEF Same, Ends, Alive
<1>2. CASE ~Alive(k)
  BY <1>2 DEF Destroy, Same, Ends
<1>3. QED
  BY <1>1, <1>2

LEMMA CloseOps ==
    ASSUME NEW k \in Conn, NEW c
    PROVE  Same(k, Close(k, c)) /\ Ends(k, Close(k, c)) /\ Close(k, c).life # "open"
<1>1. Same(k, [k EXCEPT !.life = "closing"]) /\ [k EXCEPT !.life = "closing"].life = "closing"
  BY DEF Same, Conn
<1>2. Same(k, Destroy(k, FALSE)) /\ Ends(k, Destroy(k, FALSE)) /\ ~Alive(Destroy(k, FALSE))
  BY DestroyOps
<1>3. QED
  BY <1>1, <1>2 DEF Close, Same, Ends, Alive

LEMMA Chained ==
    ASSUME NEW k, NEW m, NEW n, Same(k, m), m.life = k.life, Same(m, n), Ends(m, n)
    PROVE  Same(k, n) /\ Ends(k, n)
  BY DEF Same, Ends

LEMMA CountKept ==
    ASSUME StreamsCounted, \A c \in Conns : conns'[c].streams = conns[c].streams,
           \A r \in Calls : /\ call'[r].pc \in Streaming <=> call[r].pc \in Streaming
                            /\ call'[r].pc \in Streaming => call'[r].c = call[r].c
    PROVE  StreamsCounted' /\ \A c \in Conns : StreamsOf(c)' = StreamsOf(c)
<1>1. \A c \in Conns : StreamsOf(c)' = StreamsOf(c)
  BY DEF StreamsOf
<1>2. QED
  BY <1>1 DEF StreamsCounted

\* Ends of a session, PINGs and timers that leave the promises alone.
LEMMA SameEvent ==
    ASSUME ConfigAssumption, SessionInv, IInv', Macro,
           NEW c \in Conns, NEW n, SetConn(c, n), Same(conns[c], n), Ends(conns[c], n),
           conns[c].life \notin {"unused", "connecting"},
           UNCHANGED <<mgr, jobs, call, turn, aborts>>, dead' \in {dead, "event", "ping"}
    PROVE  SessionInv'
<1>1. conns \in [Conns -> Conn] /\ conns' \in [Conns -> Conn] /\ conns[c] \in Conn
  BY DEF SessionInv, IInv, TypeOK
<1>2. conns' = [conns EXCEPT ![c] = n]
  BY DEF SetConn
<1>3. n \in Conn
  BY <1>1, <1>2
<1>4. Quiet(conns[c], n)
  BY <1>1, <1>3, QuietChange
<1>5. StreamsCounted'
  <2>1. \A d \in Conns : conns'[d].streams = conns[d].streams
    BY <1>1, <1>2 DEF Same
  <2>2. QED
    BY <2>1, CountKept DEF SessionInv, StateInv
<1>6. QED
  BY <1>2, <1>3, <1>4, <1>5, QuietEvent

LEMMA EndKeeps ==
    ASSUME ConfigAssumption, SessionInv, IInv', NEW c \in Conns,
           \/ \E fault \in {"reset", "close"} : SocketEnds(c, fault)
           \/ PeerMute(c) \/ Goaway(c) \/ GoawayCalm(c) \/ GetStale(c)
           \/ PingAnswered(c, TRUE) \/ OnPingTimeout(c)
    PROVE  SessionInv'
<1> DEFINE k == conns[c]
           t == [k EXCEPT !.tmr = @ \ {"timeout"}]
<1>1. k \in Conn /\ ConnOK(k)
  BY DEF SessionInv, IInv, TypeOK, StateInv, ConnsOK
<1>2. ASSUME NEW n, SetConn(c, n), Macro, Same(k, n), Ends(k, n),
             k.life \notin {"unused", "connecting"},
             UNCHANGED <<mgr, jobs, call, turn, aborts>>, dead' \in {dead, "event", "ping"}
      PROVE  SessionInv'
  BY <1>2, SameEvent
<1>3. t \in Conn /\ Same(k, t) /\ t.life = k.life
  BY <1>1 DEF Conn, Same
<1>4. CASE \E fault \in {"reset", "close"} : SocketEnds(c, fault)
  <2>1. PICK fault \in {"reset", "close"} : SocketEnds(c, fault)
    BY <1>4
  <2>2. Same(k, Destroy(k, fault = "reset")) /\ Ends(k, Destroy(k, fault = "reset"))
    BY <1>1, DestroyOps
  <2>3. QED
    BY <1>2, <2>1, <2>2 DEF SocketEnds
<1>5. CASE PeerMute(c)
  <2>1. Same(k, [k EXCEPT !.mute = TRUE]) /\ [k EXCEPT !.mute = TRUE].life = k.life
    BY <1>1 DEF Conn, Same
  <2>2. QED
    BY <1>2, <1>5, <2>1 DEF PeerMute, Ends
<1>6. CASE Goaway(c)
  BY <1>1, <1>2, <1>6, CloseOps DEF Goaway
<1>7. CASE GoawayCalm(c)
  BY <1>1, <1>2, <1>7, DestroyOps DEF GoawayCalm
<1>8. CASE GetStale(c)
  <2>1. Same(k, [k EXCEPT !.stale = TRUE]) /\ [k EXCEPT !.stale = TRUE].life = k.life
    BY <1>1 DEF Conn, Same
  <2>2. QED
    BY <1>2, <1>8, <2>1 DEF GetStale, Ends
<1>9. Same(k, Destroy(t, TRUE)) /\ Ends(k, Destroy(t, TRUE))
  <2>1. Same(t, Destroy(t, TRUE)) /\ Ends(t, Destroy(t, TRUE))
    BY <1>3, DestroyOps
  <2> HIDE DEF k, t
  <2>2. QED
    BY <1>3, <2>1, Chained
<1>10. CASE PingAnswered(c, TRUE)
  BY <1>2, <1>9, <1>10 DEF PingAnswered
<1>11. CASE OnPingTimeout(c)
  <2>1. k.life \notin {"unused", "connecting"}
    BY <1>1, <1>11 DEF OnPingTimeout, ConnOK
  <2>2. QED
    BY <1>2, <1>9, <1>11, <2>1 DEF OnPingTimeout
<1>12. QED
  BY <1>4, <1>5, <1>6, <1>7, <1>8, <1>10, <1>11

LEMMA IntervalKeeps ==
    ASSUME ConfigAssumption, SessionInv, IInv', NEW c \in Conns,
           (\E late \in BOOLEAN : IntervalPingAnswered(c, late)) \/ OnPingInterval(c)
    PROVE  SessionInv'
<1> DEFINE k == conns[c]
<1>1. k \in Conn /\ ConnOK(k)
  BY DEF SessionInv, IInv, TypeOK, StateInv, ConnsOK
<1>2. ASSUME NEW n, SetConn(c, n), Macro, Same(k, n), Ends(k, n),
             k.life \notin {"unused", "connecting"},
             UNCHANGED <<mgr, jobs, call, turn, aborts>>, dead' \in {dead, "event", "ping"}
      PROVE  SessionInv'
  BY <1>2, SameEvent
<1>3. CASE \E late \in BOOLEAN : IntervalPingAnswered(c, late)
  <2> DEFINE m == [k EXCEPT !.tmr = @ \ {"timeout"}, !.pings = @ - 1]
             n(late) == IF late THEN Destroy(m, TRUE) ELSE ResetPingInterval(SeenAlive(m))
  <2>1. PICK late \in BOOLEAN : IntervalPingAnswered(c, late)
    BY <1>3
  <2>2. k.pings > 0 /\ k.life \in {"open", "closing"} /\ SetConn(c, n(late)) /\ Macro
        /\ UNCHANGED <<mgr, jobs, call, turn, aborts, dead>>
    BY <2>1 DEF IntervalPingAnswered
  <2>3. m \in Conn /\ Same(k, m) /\ m.life = k.life
    <3>1. ASSUME NEW p \in 0 .. MaxPings, NEW T \in SUBSET Timer, T = k.tmr \ {"timeout"}
          PROVE  LET l == [k EXCEPT !.tmr = T, !.pings = p]
                 IN  l \in Conn /\ Same(k, l) /\ l.life = k.life
      BY <1>1, <3>1 DEF Conn, Same
    <3>2. k.pings - 1 \in 0 .. MaxPings /\ k.tmr \ {"timeout"} \in SUBSET Timer
      BY <1>1, <2>2 DEF Conn, ConfigAssumption
    <3> HIDE DEF k
    <3>3. QED
      BY <3>1, <3>2
  <2> HIDE DEF k, m
  <2>4. Same(m, Destroy(m, TRUE)) /\ Ends(m, Destroy(m, TRUE))
    BY <2>3, DestroyOps
  <2>5. Same(m, ResetPingInterval(SeenAlive(m))) /\ Ends(m, ResetPingInterval(SeenAlive(m)))
    <3>1. SeenAlive(m) \in Conn /\ Same(m, SeenAlive(m)) /\ SeenAlive(m).life = m.life
      BY <2>3, TimerOps, OpsType
    <3>2. /\ Same(SeenAlive(m), ResetPingInterval(SeenAlive(m)))
          /\ Ends(SeenAlive(m), ResetPingInterval(SeenAlive(m)))
      BY <3>1, TimerOps DEF Ends
    <3>3. QED
      BY <3>1, <3>2, Chained
  <2>6. Same(k, n(late)) /\ Ends(k, n(late))
    BY <2>3, <2>4, <2>5, Chained
  <2>7. QED
    BY <1>2, <2>2, <2>6 DEF k
<1>4. CASE OnPingInterval(c)
  <2> DEFINE m == [k EXCEPT !.tmr = (@ \ {"interval"}) \cup {"timeout"}]
  <2>1. k.life \notin {"unused", "connecting"}
    BY <1>1, <1>4 DEF OnPingInterval, ConnOK
  <2>2. m \in Conn /\ Same(k, m) /\ m.life = k.life
    BY <1>1 DEF Conn, Same, Timer
  <2>3. /\ Same(m, [m EXCEPT !.pings = @ + 1]) /\ [m EXCEPT !.pings = @ + 1].life = m.life
        /\ Same(m, [m EXCEPT !.tmr = @ \ {"timeout"}]) /\ [m EXCEPT !.tmr = @ \ {"timeout"}].life = m.life
    BY <2>2 DEF Conn, Same
  <2>4. PICK n \in {m, [m EXCEPT !.pings = @ + 1], [m EXCEPT !.tmr = @ \ {"timeout"}]} : SetConn(c, n)
    BY <1>4 DEF OnPingInterval
  <2>5. Macro /\ UNCHANGED <<mgr, jobs, call, turn, aborts>> /\ dead' \in {dead, "event", "ping"}
    BY <1>4 DEF OnPingInterval
  <2>6. Same(m, n) /\ Ends(m, n)
    BY <2>3, <2>4 DEF Same, Ends
  <2> HIDE DEF k, m
  <2>7. Same(k, n) /\ Ends(k, n)
    BY <2>2, <2>6, Chained
  <2>8. QED
    BY <1>2, <2>1, <2>4, <2>5, <2>7 DEF k
<1>5. QED
  BY <1>3, <1>4

\* A stream belongs to an established connection.
LEMMA StreamConn ==
    ASSUME SessionInv, NEW r \in Calls, call[r].pc \in Streaming
    PROVE  /\ call[r].c \in Conns /\ conns[call[r].c] \in Conn
           /\ conns[call[r].c].life \notin {"unused", "connecting"}
<1> DEFINE c == call[r].c
<1>1. c \in Conns /\ conns[c] \in Conn /\ ConnOK(conns[c])
  BY DEF SessionInv, StateInv, Placed, ConnsOK, IInv, TypeOK, Streaming
<1>2. Established(c)
  BY <1>1 DEF SessionInv, StateInv, UsedEstablished, Used, Streaming
<1>3. QED
  BY <1>1, <1>2 DEF Established, ConnOK

LEMMA StreamDataKeeps ==
    ASSUME ConfigAssumption, SessionInv, IInv', NEW r \in Calls, StreamResponse(r) \/ StreamBytes(r)
    PROVE  SessionInv'
<1> DEFINE c == call[r].c
           k == conns[c]
           n == ResetPingInterval(SeenAlive(k))
<1>1. call[r].pc \in Streaming
  BY DEF StreamResponse, StreamBytes, Streaming
<1>2. c \in Conns /\ k \in Conn /\ k.life \notin {"unused", "connecting"}
  BY <1>1, StreamConn
<1>3. SetConn(c, n) /\ Macro /\ UNCHANGED <<mgr, jobs, turn, aborts, dead>>
  BY DEF StreamResponse, StreamBytes
<1>4. Same(k, n) /\ Ends(k, n) /\ n \in Conn
  <2> HIDE DEF k
  <2>1. SeenAlive(k) \in Conn /\ Same(k, SeenAlive(k)) /\ SeenAlive(k).life = k.life
    BY <1>2, TimerOps, OpsType
  <2>2. Same(SeenAlive(k), n) /\ Ends(SeenAlive(k), n) /\ n \in Conn
    BY <2>1, TimerOps, OpsType DEF Ends
  <2>3. QED
    BY <2>1, <2>2, Chained
<1>5. \A q \in Calls :
        /\ call'[q].c = call[q].c
        /\ \/ call'[q].pc = call[q].pc
           \/ call'[q].pc = "reading" /\ call[q].pc = "stream"
  <2>1. \/ call' = call
        \/ call[r].pc = "stream" /\ call' = [call EXCEPT ![r].pc = "reading"]
    BY DEF StreamResponse, StreamBytes
  <2>2. call \in [Calls -> Call]
    BY DEF SessionInv, IInv, TypeOK
  <2>3. QED
    BY <2>1, <2>2 DEF Call
<1> HIDE DEF k, n
<1>6. conns' = [conns EXCEPT ![c] = n] /\ conns \in [Conns -> Conn]
  BY <1>3 DEF SetConn, SessionInv, IInv, TypeOK
<1>7. StreamsCounted'
  <2>1. \A d \in Conns : conns'[d].streams = conns[d].streams
    BY <1>2, <1>4, <1>6 DEF Same, k
  <2>2. QED
    BY <1>5, <2>1, CountKept DEF SessionInv, StateInv, Streaming
<1>8. Quiet(conns[c], n)
  BY <1>2, <1>4, QuietChange DEF k
<1>9. QED
  BY <1>2, <1>3, <1>4, <1>5, <1>6, <1>7, <1>8, QuietEvent DEF InUse

\* The close of a stream, also of one that ends its session.
LEMMA StreamCloseKeeps ==
    ASSUME ConfigAssumption, SessionInv, IInv', NEW r \in Calls, OnStreamClose(r)
    PROVE  SessionInv'
<1> DEFINE c == call[r].c
           k == conns[c]
           s == StreamClosed(k)
           n == IF s.life = "closing" /\ StreamsOf(c) = {r} THEN Destroy(s, FALSE) ELSE s
<1>1. call[r].pc \in Streaming
  BY DEF OnStreamClose
<1>2. c \in Conns /\ k \in Conn /\ k.life \notin {"unused", "connecting"}
  BY <1>1, StreamConn
<1>3. SetConn(c, n) /\ Macro /\ UNCHANGED <<mgr, jobs, turn, aborts, dead>>
  BY DEF OnStreamClose
<1>4. \A q \in Calls : call'[q] = IF q = r THEN [call[r] EXCEPT !.pc = "done"] ELSE call[q]
  BY DEF OnStreamClose, SessionInv, IInv, TypeOK
<1>5. call'[r].pc = "done" /\ call'[r].c = call[r].c
  BY <1>4 DEF SessionInv, IInv, TypeOK, Call
<1>6. /\ s \in Conn /\ s.prom = k.prom /\ s.ping = k.ping /\ s.lst = k.lst /\ s.life = k.life
      /\ s.streams = k.streams - 1 /\ (s.streams = 0 \/ "idle" \in k.tmr => "idle" \in s.tmr)
  <2> HIDE DEF k
  <2> DEFINE k1 == [k EXCEPT !.streams = @ - 1]
             k2 == ResetPingInterval(k1)
  <2>1. /\ k1 \in Conn /\ k1.prom = k.prom /\ k1.ping = k.ping /\ k1.lst = k.lst
        /\ k1.life = k.life /\ k1.streams = k.streams - 1 /\ k1.tmr = k.tmr
        /\ k1.streams = 0 <=> k.streams = 1
    BY <1>2 DEF Conn
  <2>2. s = IF k.streams = 1 THEN ResetIdleTimeout(k2) ELSE k1
    BY DEF StreamClosed
  <2> HIDE DEF k1
  <2>3. k2 \in Conn /\ Same(k1, k2) /\ k2.life = k1.life
    BY <2>1, TimerOps, OpsType
  <2> HIDE DEF k2
  <2>4. /\ ResetIdleTimeout(k2) \in Conn /\ Same(k2, ResetIdleTimeout(k2))
        /\ ResetIdleTimeout(k2).life = k2.life
    BY <2>3, TimerOps, OpsType
  <2>5. "idle" \in ResetIdleTimeout(k2).tmr
    BY <2>3 DEF ResetIdleTimeout, Conn
  <2>6. QED
    BY <2>1, <2>2, <2>3, <2>4, <2>5 DEF Same
<1> HIDE DEF s
<1>7. /\ n \in Conn /\ n.prom = k.prom /\ n.ping = k.ping /\ n.lst = k.lst /\ Ends(k, n)
      /\ n.streams = k.streams - 1 /\ (n.streams = 0 \/ "idle" \in k.tmr => "idle" \in n.tmr)
  <2>1. Same(s, Destroy(s, FALSE)) /\ Ends(s, Destroy(s, FALSE)) /\ Destroy(s, FALSE) \in Conn
    BY <1>6, DestroyOps, DestroyType
  <2>2. QED
    BY <1>6, <2>1 DEF Same, Ends
<1> HIDE DEF k, n
<1>8. conns' = [conns EXCEPT ![c] = n] /\ conns \in [Conns -> Conn]
  BY <1>3 DEF SetConn, SessionInv, IInv, TypeOK
<1>9. StreamsCounted'
  <2> SUFFICES ASSUME NEW d \in Conns PROVE conns'[d].streams = Cardinality(StreamsOf(d)')
    BY DEF StreamsCounted
  <2>1. conns[d].streams = Cardinality(StreamsOf(d))
    BY DEF SessionInv, StateInv, StreamsCounted
  <2>2. CASE d # c
    <3>1. StreamsOf(d)' = StreamsOf(d)
      BY <1>4, <1>5, <2>2 DEF StreamsOf
    <3>2. QED
      BY <1>8, <2>1, <2>2, <3>1
  <2>3. CASE d = c
    <3>1. StreamsOf(d)' = StreamsOf(d) \ {r} /\ r \in StreamsOf(d)
      BY <1>1, <1>4, <1>5, <2>3 DEF StreamsOf, Streaming
    <3>2. IsFiniteSet(StreamsOf(d))
      BY FS_Subset DEF ConfigAssumption, StreamsOf
    <3>3. Cardinality(StreamsOf(d) \ {r}) = Cardinality(StreamsOf(d)) - 1
      BY <3>1, <3>2, FS_RemoveElement
    <3>4. QED
      BY <1>7, <1>8, <2>1, <2>3, <3>1, <3>3 DEF k
  <2>4. QED
    BY <2>2, <2>3
<1>10. Quiet(k, n)
  BY <1>2, <1>7 DEF Quiet, Ends, Attended
<1>11. QED
  <2>1. \A q \in Calls : /\ call'[q].c = call[q].c
                         /\ call'[q].pc = "conn" => call[q].pc = "conn"
                         /\ call'[q].pc \in InUse => call[q].pc \in InUse
                         /\ call'[q].pc # "new" => call[q].pc # "new"
    BY <1>1, <1>4, <1>5 DEF Streaming, InUse
  <2>2. QED
    BY <1>2, <1>3, <1>7, <1>8, <1>9, <1>10, <2>1, QuietEvent DEF k

(***************************************************************************)
(* Events that move the manager.                                           *)
(***************************************************************************)
Exited(k, n) ==
    /\ n.life = k.life /\ n.prom = k.prom /\ n.ping = k.ping /\ n.streams = k.streams
    /\ n.tmr \subseteq k.tmr

\* What setState() does to a connection.
LEMMA SetStateEffect ==
    ASSUME TypeOK, NEW cs \in [Conns -> Conn], NEW s \in Mgr, SetState(cs, s), NEW d \in Conns
    PROVE  /\ mgr' = s /\ Exited(cs[d], conns'[d])
           /\ mgr # Ready(d) => /\ conns'[d].tmr = cs[d].tmr
                                /\ "ready" \in cs[d].lst => "ready" \in conns'[d].lst
           /\ mgr # Connecting(d) /\ "connect" \in cs[d].lst => "connect" \in conns'[d].lst
<1> DEFINE e == ExitState(cs)
           k == cs[d]
<1>1. mgr \in Mgr /\ k \in Conn
  BY DEF TypeOK
<1>2. e \in [Conns -> Conn]
  BY ExitStateType
<1>3. mgr.t \in {"connecting", "ready"} => mgr.c \in Conns
  BY <1>1 DEF Mgr
<1>4. CASE mgr = Connecting(d)
  <2>1. e[d] = [k EXCEPT !.lst = @ \ {"connect"}]
    BY <1>4 DEF ExitState, Connecting
  <2>2. Exited(k, e[d]) /\ e[d].tmr = k.tmr /\ ("ready" \in k.lst => "ready" \in e[d].lst)
    BY <1>1, <2>1 DEF Exited, Conn
  <2>3. QED
    <3> HIDE DEF e
    <3>1. /\ conns'[d].life = e[d].life /\ conns'[d].prom = e[d].prom /\ conns'[d].ping = e[d].ping
          /\ conns'[d].streams = e[d].streams /\ conns'[d].tmr = e[d].tmr /\ conns'[d].lst = e[d].lst
      BY <1>2 DEF SetState, Conn, e
    <3>2. QED
      BY <1>4, <2>2, <3>1 DEF Exited, SetState
<1>5. CASE mgr = Ready(d)
  <2>1. e[d] = ExitReady(k)
    BY <1>5 DEF ExitState, Ready
  <2>2. Exited(k, ExitReady(k)) /\ ExitReady(k).lst = k.lst \ {"ready"}
    BY <1>1 DEF Exited, Conn, ExitReady, Cleanup
  <2>3. /\ conns'[d].life = e[d].life /\ conns'[d].prom = e[d].prom /\ conns'[d].ping = e[d].ping
        /\ conns'[d].streams = e[d].streams /\ conns'[d].tmr = e[d].tmr /\ conns'[d].lst = e[d].lst
    BY <1>2 DEF SetState, Conn
  <2>4. QED
    <3> HIDE DEF e
    <3>1. QED
      BY <1>5, <2>1, <2>2, <2>3 DEF Exited, SetState
<1>6. CASE mgr # Connecting(d) /\ mgr # Ready(d)
  <2>1. e[d] = k
    <3>1. mgr.t = "connecting" => mgr.c # d
      BY <1>1, <1>6 DEF Mgr, Connecting
    <3>2. mgr.t = "ready" => mgr.c # d
      BY <1>1, <1>6, MgrStates
    <3>3. QED
      BY <1>3, <3>1, <3>2 DEF ExitState
  <2>2. /\ conns'[d].life = e[d].life /\ conns'[d].prom = e[d].prom /\ conns'[d].ping = e[d].ping
        /\ conns'[d].streams = e[d].streams /\ conns'[d].tmr = e[d].tmr /\ conns'[d].lst = e[d].lst
    BY <1>2 DEF SetState, Conn
  <2>3. QED
    BY <2>1, <2>2 DEF Exited, SetState
<1>7. QED
  BY <1>4, <1>5, <1>6

\* The end, or the closing, of the connection of the ready state.
LEMMA LeaveReady ==
    ASSUME ConfigAssumption, SessionInv, IInv', Macro,
           NEW c \in Conns, mgr = Ready(c), NEW n \in Conn, NEW s \in {Closed, Errored},
           SetState([conns EXCEPT ![c] = n], s),
           n.prom = conns[c].prom, n.ping = conns[c].ping, n.streams = conns[c].streams,
           n.life \in {"closing", "destroyed", "gone"},
           UNCHANGED <<jobs, call, turn, aborts, dead>>
    PROVE  SessionInv'
<1> DEFINE cs == [conns EXCEPT ![c] = n]
<1>1. /\ conns \in [Conns -> Conn] /\ mgr \in Mgr /\ jobs = <<>> /\ jobs' = <<>> /\ TypeOK
      /\ ConnsOK /\ UsedEstablished /\ StreamsCounted /\ Placed
  BY DEF SessionInv, IInv, TypeOK, StateInv, Macro
<1>2. cs \in [Conns -> Conn] /\ \A d \in Conns : cs[d] = (IF d = c THEN n ELSE conns[d])
  BY <1>1
<1>3. s \in Mgr /\ s.t \in {"closed", "error"} /\ \A d : s # Ready(d) /\ s # Verifying(d) /\ s # Connecting(d)
  BY MgrStates DEF Closed, Errored, Ready, Verifying, Connecting
<1>4. \A d \in Conns :
        /\ Exited(cs[d], conns'[d])
        /\ "connect" \in cs[d].lst => "connect" \in conns'[d].lst
  <2>1. \A d : mgr # Connecting(d)
    BY DEF Connecting, Ready
  <2> HIDE DEF cs
  <2>2. QED
    BY <1>1, <1>2, <1>3, <2>1, SetStateEffect DEF cs
<1>5. mgr' = s
  BY DEF SetState
<1> HIDE DEF cs
<1>6. \A kind : At(kind) = {} /\ At(kind)' = {}
  BY <1>1 DEF At
<1>7. QueueInv'
  <2>1. Paired(jobs)'
    BY <1>1 DEF Paired
  <2>2. FrontWait'
    BY <1>1 DEF FrontWait
  <2>3. ConnectedFirst' /\ PingJobs' /\ GoJobs'
    BY <1>6 DEF ConnectedFirst, PingJobs, GoJobs, Verifications
  <2>4. QED
    BY <2>1, <2>2, <2>3 DEF QueueInv
<1>8. \A d \in Conns :
        /\ conns'[d].prom = conns[d].prom /\ conns'[d].ping = conns[d].ping
        /\ conns'[d].streams = conns[d].streams
        /\ d # c => conns'[d].life = conns[d].life
  BY <1>2, <1>4 DEF Exited
<1>9. conns'[c].life \in {"closing", "destroyed", "gone"}
  BY <1>2, <1>4 DEF Exited
<1>10. StateInv'
  <2>1. ConnsOK'
    <3> SUFFICES ASSUME NEW d \in Conns PROVE ConnOK(conns'[d])
      BY DEF ConnsOK
    <3>1. ConnOK(conns[d])
      BY <1>1 DEF ConnsOK
    <3>2. d # c => conns'[d].tmr \subseteq conns[d].tmr
      BY <1>2, <1>4 DEF Exited
    <3>3. QED
      BY <1>8, <1>9, <3>1, <3>2 DEF ConnOK
  <2>2. Placed'
    BY <1>1 DEF Placed
  <2>3. UsedEstablished'
    <3> SUFFICES ASSUME NEW d \in Conns, Used(d)' PROVE Established(d)'
      BY DEF UsedEstablished
    <3>1. Used(d)
      BY <1>3, <1>5, <1>8 DEF Used
    <3>2. Established(d)
      BY <1>1, <3>1 DEF UsedEstablished
    <3>3. QED
      BY <1>6, <1>8, <3>2 DEF Established
  <2>4. UnverifiedAttended'
    BY <1>3, <1>5 DEF UnverifiedAttended
  <2>5. StreamsCounted'
    BY <1>1, <1>8, CountKept
  <2>6. Begun'
    <3>1. Len(jobs') = 0 /\ \A i \in 1 .. 0 : FALSE
      BY <1>1
    <3>2. QED
      BY <1>3, <1>5, <3>1 DEF Begun
  <2>7. QED
    BY <2>1, <2>2, <2>3, <2>4, <2>5, <2>6 DEF StateInv
<1>11. Unaborted'
  <2> SUFFICES ASSUME aborts = 0
      PROVE  ConnJobs' /\ VerifyJobs' /\ PingsAwaited' /\ ConnectingAwaited'
    BY DEF Unaborted
  <2>1. PingsAwaited
    BY DEF SessionInv, PromiseInv, Unaborted
  <2>2. ConnJobs' /\ VerifyJobs'
    BY <1>6 DEF ConnJobs, VerifyJobs, Verifications
  <2>3. PingsAwaited'
    BY <1>8, <2>1 DEF PingsAwaited, PingUnsettled, Ready, Verifying
  <2>4. ConnectingAwaited'
    BY <1>3, <1>5 DEF ConnectingAwaited
  <2>5. QED
    BY <2>2, <2>3, <2>4
<1>12. SingleConnection'
  <2> SUFFICES ASSUME NEW d \in Conns, aborts = 0, conns'[d].life \in {"connecting", "open"}
      PROVE  FALSE
    BY DEF SingleConnection
  <2>1. d # c /\ conns[d].life \in {"connecting", "open"}
    BY <1>8, <1>9
  <2>2. QED
    BY <1>1, <2>1 DEF SessionInv, PromiseInv, SingleConnection, Ready
<1>13. NoStrandedCall'
  <2> SUFFICES ASSUME NEW r \in Calls, aborts = 0, call[r].pc = "conn"
      PROVE  conns'[call[r].c].life = "connecting" /\ "connect" \in conns'[call[r].c].lst
    BY DEF NoStrandedCall
  <2>1. conns[call[r].c].life = "connecting" /\ "connect" \in conns[call[r].c].lst
    BY <1>1 DEF SessionInv, PromiseInv, NoStrandedCall
  <2>2. call[r].c \in Conns
    BY <1>1 DEF Placed
  <2>3. call[r].c # c
    <3>1. Established(c)
      BY <1>1 DEF UsedEstablished, Used
    <3>2. QED
      BY <1>1, <2>1, <3>1 DEF Established, ConnsOK, ConnOK
  <2>4. QED
    BY <1>2, <1>4, <1>8, <2>1, <2>2, <2>3
<1>14. NoSpin'
  BY DEF SessionInv, PromiseInv, NoSpin
<1>15. QED
  BY <1>7, <1>10, <1>11, <1>12, <1>13, <1>14 DEF SessionInv, PromiseInv

(***************************************************************************)
(* Events that settle a promise.                                           *)
(***************************************************************************)
LEMMA SettleStep ==
    ASSUME ConfigAssumption, SessionInv, IInv', Macro,
           NEW c \in Conns, NEW n \in Conn, NEW res \in {"ok", "failed"},
           Attempted(c), conns' = [conns EXCEPT ![c] = n],
           n.prom = "settled", n.life = (IF res = "ok" THEN "open" ELSE "gone"),
           n.ping = conns[c].ping, n.streams = conns[c].streams,
           jobs' = SettleConn(c, res), UNCHANGED <<mgr, call, turn, aborts, dead>>
    PROVE  SessionInv'
<1>1. /\ conns \in [Conns -> Conn] /\ mgr \in Mgr /\ jobs = <<>> /\ turn = FALSE
      /\ ConnsOK /\ UsedEstablished /\ UnverifiedAttended /\ StreamsCounted /\ Placed
  BY DEF SessionInv, IInv, TypeOK, StateInv, Macro
<1>2. \A d \in Conns : conns'[d] = (IF d = c THEN n ELSE conns[d])
  BY <1>1
<1>3. /\ Len(jobs') = 2 /\ Paired(jobs)' /\ jobs' # <<>>
      /\ jobs'[1] = J("conn", c, res) /\ jobs'[2] = J("conn-wait", c, res)
  <2>1. res \in Reason
    BY DEF Reason
  <2>2. /\ Len(jobs') = 2 /\ Paired(jobs') /\ jobs' \in Seq(Job)
        /\ jobs'[1] = J("conn", c, res) /\ jobs'[2] = J("conn-wait", c, res)
    BY <2>1, Settled
  <2>3. Paired(jobs)'
    BY <2>2, Zenon DEF Paired
  <2>4. jobs' # <<>>
    BY <2>2
  <2>5. QED
    BY <2>2, <2>3, <2>4
<1>4. \A i \in 1 .. 2 : i = 1 \/ i = 2
  OBVIOUS
<1>5. At("conn")' = {1} /\ Verifications' = {} /\ At("go")' = {}
  BY <1>3, <1>4 DEF At, Verifications, J
<1>6. jobs'[1].job = "conn" /\ jobs'[1].c = c /\ jobs'[1].res = res
      /\ jobs'[2].job = "conn-wait" /\ jobs'[2].c = c
  BY <1>3 DEF J
<1>7. conns[c].prom = "pending" /\ \A d \in Conns : Used(d) => d # c /\ conns[d].prom = "settled"
  BY <1>1 DEF Attempted, ConnsOK, ConnOK, UsedEstablished, Established
<1>8. QueueInv'
  <2>1. FrontWait'
    BY <1>6 DEF FrontWait
  <2>2. ConnectedFirst'
    BY <1>1, <1>2, <1>5, <1>6 DEF ConnectedFirst
  <2>3. PingJobs' /\ GoJobs'
    BY <1>5 DEF PingJobs, GoJobs
  <2>4. QED
    BY <1>3, <2>1, <2>2, <2>3 DEF QueueInv
<1>9. StateInv'
  <2>1. ConnsOK'
    BY <1>1, <1>2 DEF ConnsOK, ConnOK
  <2>2. Placed'
    BY <1>1 DEF Placed
  <2>3. \A d \in Conns : Used(d)' => Used(d)
    BY <1>2 DEF Used
  <2>4. UsedEstablished'
    <3> SUFFICES ASSUME NEW d \in Conns, Used(d)' PROVE Established(d)'
      BY DEF UsedEstablished
    <3>1. d # c /\ conns[d].prom = "settled"
      BY <1>7, <2>3
    <3>2. QED
      BY <1>2, <1>5, <1>6, <3>1 DEF Established
  <2>5. UnverifiedAttended'
    <3> SUFFICES ASSUME NEW d \in Conns, mgr = Ready(d), conns'[d].ping = "none"
        PROVE  Attended(conns'[d])
      BY DEF UnverifiedAttended
    <3>1. d # c
      BY <1>7 DEF Used
    <3>2. QED
      BY <1>1, <1>2, <3>1 DEF UnverifiedAttended
  <2>6. StreamsCounted'
    BY <1>1, <1>2, CountKept
  <2>7. Begun'
    <3>1. \A d \in Conns : conns'[d].life = "unused" => conns[d].life = "unused"
      BY <1>2
    <3>2. QED
      BY <1>3, <1>4, <1>6, <3>1 DEF SessionInv, StateInv, Begun
  <2>8. QED
    BY <2>1, <2>2, <2>4, <2>5, <2>6, <2>7 DEF StateInv
<1>10. aborts = 0 => mgr = Connecting(c)
  <2> SUFFICES ASSUME aborts = 0 PROVE mgr = Connecting(c)
    OBVIOUS
  <2>1. mgr.c = c
    BY <1>1 DEF SessionInv, PromiseInv, SingleConnection, Attempted
  <2>2. mgr # Ready(c) /\ mgr # Verifying(c)
    BY <1>7 DEF Used
  <2>3. QED
    BY <1>1, <2>1, <2>2 DEF Mgr, Connecting, Ready, Verifying, ConfigAssumption
<1>11. Unaborted'
  <2> SUFFICES ASSUME aborts = 0
      PROVE  ConnJobs' /\ VerifyJobs' /\ PingsAwaited' /\ ConnectingAwaited'
    BY DEF Unaborted
  <2>1. ConnJobs'
    BY <1>1, <1>2, <1>5, <1>6, <1>10 DEF ConnJobs, Alive
  <2>2. VerifyJobs'
    BY <1>5 DEF VerifyJobs
  <2>3. PingsAwaited'
    BY <1>2 DEF SessionInv, PromiseInv, Unaborted, PingsAwaited, PingUnsettled
  <2>4. ConnectingAwaited'
    BY <1>3, <1>6, <1>10 DEF ConnectingAwaited, Connecting
  <2>5. QED
    BY <2>1, <2>2, <2>3, <2>4
<1>12. SingleConnection'
  <2> SUFFICES ASSUME NEW d \in Conns, aborts = 0, conns'[d].life \in {"connecting", "open"}
      PROVE  mgr.c = d
    BY DEF SingleConnection
  <2>1. d # c => conns[d].life \in {"connecting", "open"}
    BY <1>2
  <2>2. QED
    BY <1>1, <1>10, <2>1 DEF SessionInv, PromiseInv, SingleConnection, Connecting
<1>13. NoStrandedCall'
  <2> SUFFICES ASSUME NEW r \in Calls, aborts = 0, call[r].pc = "conn"
      PROVE  \/ conns'[call[r].c].life = "connecting" /\ "connect" \in conns'[call[r].c].lst
             \/ \E i \in 1 .. Len(jobs') : jobs'[i].job = "conn-wait" /\ jobs'[i].c = call[r].c
    BY DEF NoStrandedCall
  <2>1. CASE call[r].c = c
    <3>1. 2 \in 1 .. Len(jobs')
      BY <1>3
    <3>2. QED
      BY <1>6, <2>1, <3>1
  <2>2. CASE call[r].c # c
    BY <1>1, <1>2, <2>2 DEF SessionInv, PromiseInv, NoStrandedCall, Placed
  <2>3. QED
    BY <2>1, <2>2
<1>14. NoSpin'
  BY DEF SessionInv, PromiseInv, NoSpin
<1>15. QED
  BY <1>8, <1>9, <1>11, <1>12, <1>13, <1>14 DEF SessionInv, PromiseInv

LEMMA PingSettles ==
    ASSUME ConfigAssumption, SessionInv, IInv', Macro,
           NEW c \in Conns, NEW n \in Conn, NEW res \in {"ok", "failed"},
           PingUnsettled(conns[c]), conns' = [conns EXCEPT ![c] = n],
           n.ping = "settled", n.prom = conns[c].prom, n.streams = conns[c].streams,
           n.life = (IF res = "ok" THEN conns[c].life ELSE "gone"),
           jobs' = <<J("ping", c, res)>>, UNCHANGED <<mgr, call, turn, aborts, dead>>
    PROVE  SessionInv'
<1>1. /\ conns \in [Conns -> Conn] /\ mgr \in Mgr /\ jobs = <<>> /\ turn = FALSE
      /\ ConnsOK /\ UsedEstablished /\ UnverifiedAttended /\ StreamsCounted /\ Placed
  BY DEF SessionInv, IInv, TypeOK, StateInv, Macro
<1>2. \A d \in Conns : conns'[d] = (IF d = c THEN n ELSE conns[d])
  BY <1>1
<1>3. Len(jobs') = 1 /\ jobs' # <<>> /\ jobs'[1] = J("ping", c, res) /\ \A i \in 1 .. 1 : i = 1
  OBVIOUS
<1>4. jobs'[1].job = "ping" /\ jobs'[1].c = c /\ jobs'[1].res = res
  BY <1>3 DEF J
<1>5. At("conn")' = {} /\ Verifications' = {1} /\ At("go")' = {}
  BY <1>3, <1>4 DEF At, Verifications
<1>6. Established(c) /\ conns[c].life \notin {"unused", "connecting"}
  BY <1>1 DEF PingUnsettled, UsedEstablished, Used, Established, ConnsOK, ConnOK
<1>7. QueueInv'
  <2>1. Paired(jobs)'
    BY <1>3 DEF Paired
  <2>2. FrontWait'
    BY <1>4 DEF FrontWait
  <2>3. ConnectedFirst' /\ GoJobs'
    BY <1>5 DEF ConnectedFirst, GoJobs
  <2>4. PingJobs'
    BY <1>2, <1>4, <1>5 DEF PingJobs
  <2>5. QED
    BY <2>1, <2>2, <2>3, <2>4 DEF QueueInv
<1>8. StateInv'
  <2>1. ConnsOK'
    BY <1>1, <1>2, <1>6 DEF ConnsOK, ConnOK
  <2>2. Placed'
    BY <1>1 DEF Placed
  <2>3. UsedEstablished'
    <3> SUFFICES ASSUME NEW d \in Conns, Used(d)' PROVE Established(d)'
      BY DEF UsedEstablished
    <3>1. Established(d)
      BY <1>1, <1>2, <1>6 DEF Used, UsedEstablished
    <3>2. QED
      BY <1>2, <1>5, <3>1 DEF Established
  <2>4. UnverifiedAttended'
    <3> SUFFICES ASSUME NEW d \in Conns, mgr = Ready(d), conns'[d].ping = "none"
        PROVE  Attended(conns'[d])
      BY DEF UnverifiedAttended
    <3>1. d # c
      BY <1>2
    <3>2. QED
      BY <1>1, <1>2, <3>1 DEF UnverifiedAttended
  <2>5. StreamsCounted'
    BY <1>1, <1>2, CountKept
  <2>6. Begun'
    <3>1. \A d \in Conns : conns'[d].life = "unused" => conns[d].life = "unused"
      BY <1>2
    <3>2. QED
      BY <1>3, <1>4, <3>1 DEF SessionInv, StateInv, Begun
  <2>7. QED
    BY <2>1, <2>2, <2>3, <2>4, <2>5, <2>6 DEF StateInv
<1>9. Unaborted'
  <2> SUFFICES ASSUME aborts = 0
      PROVE  ConnJobs' /\ VerifyJobs' /\ PingsAwaited' /\ ConnectingAwaited'
    BY DEF Unaborted
  <2>1. PingsAwaited
    BY DEF SessionInv, PromiseInv, Unaborted
  <2>2. mgr = Verifying(c)
    BY <2>1 DEF PingsAwaited
  <2>3. ConnJobs'
    BY <1>5 DEF ConnJobs
  <2>4. VerifyJobs'
    BY <1>2, <1>4, <1>5, <2>2 DEF VerifyJobs, Alive
  <2>5. PingsAwaited'
    BY <1>2, <2>1 DEF PingsAwaited, PingUnsettled
  <2>6. ConnectingAwaited'
    BY <2>2 DEF ConnectingAwaited, Connecting, Verifying
  <2>7. QED
    BY <2>3, <2>4, <2>5, <2>6
<1>10. SingleConnection'
  <2> SUFFICES ASSUME NEW d \in Conns, aborts = 0, conns'[d].life \in {"connecting", "open"}
      PROVE  mgr.c = d
    BY DEF SingleConnection
  <2>1. conns[d].life \in {"connecting", "open"}
    BY <1>2
  <2>2. QED
    BY <1>1, <2>1 DEF SessionInv, PromiseInv, SingleConnection
<1>11. NoStrandedCall'
  <2> SUFFICES ASSUME NEW r \in Calls, aborts = 0, call[r].pc = "conn"
      PROVE  conns'[call[r].c].life = "connecting" /\ "connect" \in conns'[call[r].c].lst
    BY DEF NoStrandedCall
  <2>1. conns[call[r].c].life = "connecting" /\ "connect" \in conns[call[r].c].lst
    BY <1>1 DEF SessionInv, PromiseInv, NoStrandedCall
  <2>2. call[r].c \in Conns /\ call[r].c # c
    BY <1>1, <1>6, <2>1 DEF Placed
  <2>3. QED
    BY <1>2, <2>1, <2>2
<1>12. NoSpin'
  BY DEF SessionInv, PromiseInv, NoSpin
<1>13. QED
  BY <1>7, <1>8, <1>9, <1>10, <1>11, <1>12 DEF SessionInv, PromiseInv

LEMMA ConnectKeeps ==
    ASSUME ConfigAssumption, SessionInv, IInv', NEW c \in Conns, OnConnect(c) \/ ConnectFails(c)
    PROVE  SessionInv'
<1> DEFINE k == conns[c]
           open == [k EXCEPT !.life = "open"]
           gone == [k EXCEPT !.life = "gone"]
           ok   == [k EXCEPT !.life = "open", !.lst = @ \ {"connect"}, !.prom = "settled"]
           fail == [gone EXCEPT !.lst = {}, !.prom = "settled"]
<1>1. /\ k \in Conn /\ conns \in [Conns -> Conn] /\ k.life = "connecting" /\ Macro
      /\ k.tmr = {}
  BY DEF SessionInv, IInv, TypeOK, StateInv, ConnsOK, ConnOK, OnConnect, ConnectFails
<1>2. CASE "connect" \in k.lst
  <2>1. /\ ok \in Conn /\ ok.prom = "settled" /\ ok.life = "open"
        /\ ok.ping = k.ping /\ ok.streams = k.streams
    BY <1>1 DEF Conn, Life, Promise
  <2>2. gone \in Conn /\ gone.ping = k.ping /\ gone.streams = k.streams /\ gone.life = "gone"
        /\ gone.lst = k.lst
    BY <1>1 DEF Conn, Life
  <2>3. /\ fail \in Conn /\ fail.prom = "settled" /\ fail.life = "gone"
        /\ fail.ping = k.ping /\ fail.streams = k.streams
    <3> HIDE DEF gone
    <3>1. QED
      BY <2>2 DEF Conn, Promise
  <2>4. Attempted(c)
    BY <1>1, <1>2 DEF Attempted
  <2>5. CASE OnConnect(c)
    <3>1. /\ conns' = [conns EXCEPT ![c] = ok] /\ jobs' = SettleConn(c, "ok")
          /\ UNCHANGED <<mgr, call, turn, aborts, dead>>
      BY <1>2, <2>5 DEF OnConnect, SetConn
    <3> HIDE DEF ok, k
    <3>2. QED
      BY <1>1, <2>1, <2>4, <3>1, SettleStep DEF k
  <2>6. CASE ConnectFails(c)
    <3>1. /\ conns' = [conns EXCEPT ![c] = fail] /\ jobs' = SettleConn(c, "failed")
          /\ UNCHANGED <<mgr, call, turn, aborts, dead>>
      BY <1>2, <2>2, <2>6 DEF ConnectFails, SetConn
    <3> HIDE DEF fail, k
    <3>2. QED
      BY <1>1, <2>3, <2>4, <3>1, SettleStep DEF k
  <2>7. QED
    BY <2>5, <2>6
<1>3. CASE "connect" \notin k.lst
  <2>1. ASSUME NEW n \in {open, gone}
        PROVE  /\ n \in Conn /\ n.prom = k.prom /\ n.ping = k.ping /\ n.lst = k.lst
               /\ n.streams = k.streams /\ n.tmr = k.tmr /\ n.life \in {"open", "gone"}
    BY <1>1 DEF Conn, Life
  <2>2. PICK n \in {open, gone} : conns' = [conns EXCEPT ![c] = n]
    BY <1>3, <2>1 DEF OnConnect, ConnectFails, SetConn
  <2>3. UNCHANGED <<mgr, jobs, call, turn, aborts>> /\ dead' \in {dead, "event", "ping"}
    BY <1>3, <2>1 DEF OnConnect, ConnectFails
  <2> HIDE DEF open, gone, k
  <2>4. Quiet(k, n)
    BY <1>1, <1>3, <2>1 DEF Quiet, Attended
  <2>5. StreamsCounted'
    <3>1. \A d \in Conns : conns'[d].streams = conns[d].streams
      BY <1>1, <2>1, <2>2 DEF k
    <3>2. QED
      BY <2>3, <3>1, CountKept DEF SessionInv, StateInv
  <2>6. QED
    BY <1>1, <2>1, <2>2, <2>3, <2>4, <2>5, QuietEvent DEF k
<1>4. QED
  BY <1>2, <1>3

LEMMA PingAnswerKeeps ==
    ASSUME ConfigAssumption, SessionInv, IInv', NEW c \in Conns, PingAnswered(c, FALSE)
    PROVE  SessionInv'
<1> DEFINE k == conns[c]
           n == [SeenAlive([k EXCEPT !.tmr = @ \ {"timeout"}]) EXCEPT !.ping = "settled"]
<1>1. k \in Conn /\ conns \in [Conns -> Conn] /\ conns' \in [Conns -> Conn] /\ PingUnsettled(k)
  BY DEF SessionInv, IInv, TypeOK, PingAnswered, PingUnsettled
<1>2. /\ conns' = [conns EXCEPT ![c] = n] /\ jobs' = <<J("ping", c, "ok")>> /\ Macro
      /\ UNCHANGED <<mgr, call, turn, aborts, dead>>
  BY DEF PingAnswered, SetConn
<1>3. n \in Conn
  BY <1>1, <1>2
<1>4. n.ping = "settled" /\ n.prom = k.prom /\ n.streams = k.streams /\ n.life = k.life
  BY <1>1 DEF Conn, SeenAlive
<1> HIDE DEF n, k
<1>5. QED
  BY <1>1, <1>2, <1>3, <1>4, PingSettles DEF k

LEMMA EndEventKeeps ==
    ASSUME ConfigAssumption, SessionInv, IInv', NEW c \in Conns, EndEvent(c)
    PROVE  SessionInv'
<1> DEFINE k0 == conns[c]
           k == [k0 EXCEPT !.life = "gone", !.lst = @ \ {"ping", "swallow"}]
           s == [k EXCEPT !.ping = "settled"]
<1>1. /\ k0 \in Conn /\ conns \in [Conns -> Conn] /\ conns' \in [Conns -> Conn]
      /\ k0.life = "destroyed" /\ Macro /\ UNCHANGED <<call, turn, aborts>>
      /\ mgr \in Mgr /\ HooksFollowState
  BY DEF SessionInv, IInv, TypeOK, EndEvent
<1>2. /\ k \in Conn /\ k.life = "gone" /\ k.lst = k0.lst \ {"ping", "swallow"} /\ k.prom = k0.prom
      /\ k.ping = k0.ping /\ k.streams = k0.streams /\ k.tmr = k0.tmr /\ k.hook = k0.hook
  BY <1>1 DEF Conn, Life
<1>3. /\ s \in Conn /\ s.ping = "settled" /\ s.prom = k0.prom /\ s.streams = k0.streams /\ s.life = "gone"
  <2> HIDE DEF k
  <2>1. QED
    BY <1>2 DEF Conn, Promise
<1>4. /\ Cleanup(k) \in Conn /\ Cleanup(k).life = "gone" /\ Cleanup(k).prom = k0.prom
      /\ Cleanup(k).ping = k0.ping /\ Cleanup(k).streams = k0.streams /\ Cleanup(k).tmr = {}
      /\ Cleanup(k).lst = k.lst \ {"ready"} /\ Cleanup(k).hook = k.hook
  <2> HIDE DEF k
  <2>1. QED
    BY <1>2, OpsType DEF Cleanup, Conn
<1>5. ASSUME NEW n \in Conn, SetConn(c, n), UNCHANGED <<mgr, jobs>>, dead' \in {dead, "event"},
             n.prom = k0.prom, n.ping = k0.ping, n.streams = k0.streams, n.life = "gone",
             "connect" \in k0.lst => "connect" \in n.lst,
             ~k0.hook \/ "ready" \notin k0.lst
      PROVE  SessionInv'
  <2>1. conns' = [conns EXCEPT ![c] = n]
    BY <1>5 DEF SetConn
  <2>2. Quiet(conns[c], n)
    BY <1>1, <1>5 DEF Quiet, Attended
  <2>3. StreamsCounted'
    <3>1. \A d \in Conns : conns'[d].streams = conns[d].streams
      BY <1>1, <1>5, <2>1
    <3>2. QED
      BY <1>1, <3>1, CountKept DEF SessionInv, StateInv
  <2>4. dead' \in {dead, "event", "ping"}
    BY <1>5
  <2>5. QED
    BY <1>1, <1>5, <2>1, <2>2, <2>3, <2>4, QuietEvent
<1> HIDE DEF k, s
<1>6. CASE k0.err /\ k0.lst = {}
  <2>1. SetConn(c, k) /\ UNCHANGED <<mgr, jobs>> /\ dead' = "event"
    BY <1>6 DEF EndEvent, k
  <2>2. QED
    BY <1>2, <1>5, <1>6, <2>1
<1>7. CASE ~(k0.err /\ k0.lst = {}) /\ "ready" \in k0.lst
  <2>1. CASE k.hook
    <3>1. mgr = Ready(c)
      BY <1>1, <1>2, <2>1 DEF HooksFollowState
    <3>2. \E t \in {Errored, Closed} : SetState([conns EXCEPT ![c] = Cleanup(k)], t)
      BY <1>7, <2>1 DEF EndEvent, k
    <3>3. UNCHANGED <<jobs, dead>>
      BY <1>7 DEF EndEvent
    <3>4. QED
      BY <1>1, <1>4, <3>1, <3>2, <3>3, LeaveReady
  <2>2. CASE ~k.hook
    <3>1. SetConn(c, Cleanup(k)) /\ UNCHANGED <<mgr, jobs, dead>>
      BY <1>7, <2>2 DEF EndEvent, k
    <3>2. QED
      BY <1>2, <1>4, <1>5, <2>2, <3>1
  <2>3. QED
    BY <2>1, <2>2
<1>8. CASE "ready" \notin k0.lst /\ "ping" \in k0.lst /\ k0.err /\ PingUnsettled(k)
  <2>1. k0.lst # {}
    BY <1>8
  <2>2. SetConn(c, s) /\ jobs' = <<J("ping", c, "failed")>> /\ UNCHANGED <<mgr, dead>>
    BY <1>8, <2>1 DEF EndEvent, k, s
  <2>3. PingUnsettled(conns[c])
    BY <1>2, <1>8 DEF PingUnsettled
  <2>4. QED
    BY <1>1, <1>3, <2>2, <2>3, PingSettles DEF SetConn
<1>9. CASE /\ ~(k0.err /\ k0.lst = {}) /\ "ready" \notin k0.lst
           /\ ~("ping" \in k0.lst /\ k0.err /\ PingUnsettled(k))
  <2>1. SetConn(c, k) /\ UNCHANGED <<mgr, jobs, dead>>
    BY <1>9 DEF EndEvent, k
  <2>2. QED
    BY <1>2, <1>5, <1>9, <2>1
<1>10. QED
  BY <1>6, <1>7, <1>8, <1>9

LEMMA IdleKeeps ==
    ASSUME ConfigAssumption, SessionInv, IInv', NEW c \in Conns, OnIdleTimeout(c)
    PROVE  SessionInv'
<1> DEFINE k0 == conns[c]
           k1 == [k0 EXCEPT !.tmr = @ \ {"idle"}]
           k2 == Close(k1, c)
           k == Cleanup(k2)
<1>1. /\ k0 \in Conn /\ conns \in [Conns -> Conn] /\ HooksFollowState
      /\ k0.life \notin {"unused", "connecting"} /\ Macro
      /\ UNCHANGED <<jobs, call, turn, aborts, dead>>
      /\ IF k.hook THEN SetState([conns EXCEPT ![c] = k], Closed) ELSE SetConn(c, k) /\ mgr' = mgr
  BY DEF SessionInv, IInv, TypeOK, OnIdleTimeout, StateInv, ConnsOK, ConnOK
<1>2. /\ k1 \in Conn /\ k1.life = k0.life /\ k1.prom = k0.prom /\ k1.ping = k0.ping
      /\ k1.streams = k0.streams /\ k1.lst = k0.lst /\ k1.hook = k0.hook
  BY <1>1 DEF Conn
<1> HIDE DEF k1, k0
<1>3. /\ k2 \in Conn /\ k2.life # "open" /\ Ends(k1, k2) /\ Same(k1, k2) /\ k2.hook = k1.hook
  BY <1>2, CloseOps, EndOpsType
<1>4. /\ k2.prom = k0.prom /\ k2.ping = k0.ping /\ k2.streams = k0.streams /\ k2.lst = k0.lst
      /\ k2.hook = k0.hook /\ k2.life \in {"closing", "destroyed", "gone"}
  BY <1>1, <1>2, <1>3 DEF Same, Ends, Conn, Life
<1> HIDE DEF k2
<1>5. /\ k \in Conn /\ k.prom = k0.prom /\ k.ping = k0.ping /\ k.streams = k0.streams
      /\ k.lst = k0.lst \ {"ready"} /\ k.hook = k0.hook /\ k.life = k2.life
  BY <1>3, <1>4, OpsType DEF Cleanup, Conn
<1>6. \/ k.life = k0.life
      \/ k0.life \notin {"unused", "gone"} /\ k.life \in {"closing", "destroyed"}
  BY <1>2, <1>3, <1>5 DEF Ends
<1> HIDE DEF k
<1>7. CASE k.hook
  <2>1. mgr = Ready(c) /\ SetState([conns EXCEPT ![c] = k], Closed)
    BY <1>1, <1>5, <1>7 DEF HooksFollowState, k0
  <2>2. QED
    BY <1>1, <1>4, <1>5, <2>1, LeaveReady DEF k0
<1>8. CASE ~k.hook
  <2>1. conns' = [conns EXCEPT ![c] = k] /\ mgr' = mgr
    BY <1>1, <1>8 DEF SetConn
  <2>2. Quiet(k0, k)
    BY <1>1, <1>4, <1>5, <1>6, <1>8 DEF Quiet
  <2>3. StreamsCounted'
    <3>1. \A d \in Conns : conns'[d].streams = conns[d].streams
      BY <1>1, <1>5, <2>1 DEF k0
    <3>2. QED
      BY <1>1, <3>1, CountKept DEF SessionInv, StateInv
  <2>4. dead' \in {dead, "event", "ping"}
    BY <1>1
  <2>5. QED
    BY <1>1, <1>5, <2>1, <2>2, <2>3, <2>4, QuietEvent DEF k0
<1>9. QED
  BY <1>7, <1>8

(***************************************************************************)
(* User code.                                                              *)
(***************************************************************************)

\* What a step leaves of the queue, and what it adds behind.
LEMMA Extended ==
    ASSUME NEW q \in Seq(Job), Paired(q), NEW n \in Seq(Job), Paired(n),
           Len(n) > 0 => ~IsWait(n[1]), Len(q) > 0 => ~IsWait(q[1]),
           jobs' = q \o n
    PROVE  /\ Paired(jobs)' /\ FrontWait'
           /\ Len(q) \in Nat /\ Len(n) \in Nat /\ Len(jobs') = Len(q) + Len(n)
           /\ \A i \in 1 .. Len(q) : jobs'[i] = q[i] /\ i \in 1 .. Len(jobs')
           /\ \A i \in 1 .. Len(n) : jobs'[Len(q) + i] = n[i] /\ Len(q) + i \in 1 .. Len(jobs')
           /\ \A i \in 1 .. Len(jobs') :
                 \/ i \in 1 .. Len(q) /\ jobs'[i] = q[i]
                 \/ i - Len(q) \in 1 .. Len(n) /\ jobs'[i] = n[i - Len(q)]
<1>1. /\ q \o n \in Seq(Job) /\ Len(jobs') = Len(q) + Len(n) /\ Len(q) \in Nat /\ Len(n) \in Nat
      /\ \A i \in 1 .. Len(q) : jobs'[i] = q[i]
      /\ \A i \in Len(q) + 1 .. Len(jobs') : jobs'[i] = n[i - Len(q)]
  BY Joined
<1>2. Paired(jobs')
  BY PairedJoined
<1>3. Paired(jobs)'
  BY <1>2, Zenon DEF Paired
<1>4. jobs' # <<>> => ~IsWait(jobs'[1])
  <2>1. CASE Len(q) > 0
    BY <1>1, <2>1
  <2>2. CASE Len(q) = 0 /\ Len(n) > 0
    BY <1>1, <2>2
  <2>3. CASE Len(q) = 0 /\ Len(n) = 0
    BY <1>1, <2>3
  <2>4. QED
    BY <1>1, <2>1, <2>2, <2>3
<1>5. FrontWait'
  BY <1>4 DEF FrontWait, IsWait
<1>6. /\ \A i \in 1 .. Len(q) : jobs'[i] = q[i] /\ i \in 1 .. Len(jobs')
      /\ \A i \in 1 .. Len(n) : jobs'[Len(q) + i] = n[i] /\ Len(q) + i \in 1 .. Len(jobs')
      /\ \A i \in 1 .. Len(jobs') :
            \/ i \in 1 .. Len(q) /\ jobs'[i] = q[i]
            \/ i - Len(q) \in 1 .. Len(n) /\ jobs'[i] = n[i - Len(q)]
  BY <1>1
<1>7. QED
  BY <1>1, <1>3, <1>5, <1>6

\* One job, or none, as the addition.
LEMMA OneJob ==
    ASSUME NEW j \in Job, ~IsWait(j)
    PROVE  /\ <<j>> \in Seq(Job) /\ Paired(<<j>>) /\ Len(<<j>>) = 1 /\ <<j>>[1] = j
           /\ \A i \in 1 .. 1 : i = 1
  BY DEF Paired

LEMMA NoJob ==
    ASSUME NEW q \in Seq(Job)
    PROVE  q = q \o <<>> /\ <<>> \in Seq(Job) /\ Paired(<<>>) /\ Len(<<>>) = 0
  BY DEF Paired

\* User code runs while no reaction of a connection attempt is due.
LEMMA UserFront ==
    ASSUME SessionInv, UserMay
    PROVE  /\ jobs \in Seq(Job) /\ Paired(jobs) /\ (Len(jobs) > 0 => ~IsWait(jobs[1]))
           /\ \A i \in At("conn") : jobs[i].res # "ok"
           /\ aborts = 0 => At("conn") = {}
           /\ aborts = 0 => ConnJobs /\ VerifyJobs /\ PingsAwaited /\ ConnectingAwaited
<1>1. jobs \in Seq(Job) /\ Paired(jobs)
  BY DEF SessionInv, IInv, TypeOK, QueueInv
<1>2. Len(jobs) > 0 => turn = TRUE
  BY DEF UserMay, Up
<1>3. Len(jobs) > 0 => ~IsWait(jobs[1])
  BY <1>1, <1>2 DEF SessionInv, QueueInv, FrontWait, IsWait
<1>4. \A kind : At(kind) # {} => turn = TRUE
  BY <1>1, <1>2 DEF At
<1>5. \A i \in At("conn") : jobs[i].res # "ok"
  BY <1>4 DEF SessionInv, QueueInv, ConnectedFirst
<1>6. aborts = 0 => ConnJobs /\ VerifyJobs /\ PingsAwaited /\ ConnectingAwaited
  BY DEF SessionInv, PromiseInv, Unaborted
<1>7. aborts = 0 => At("conn") = {}
  BY <1>4, <1>6 DEF ConnJobs
<1>8. QED
  BY <1>1, <1>3, <1>5, <1>6, <1>7

\* An established connection stays one; what comes into use is established.
LEMMA UseKept ==
    ASSUME SessionInv,
           \A d \in Conns : Used(d)' => Used(d),
           \A d \in Conns : conns[d].prom = "settled" => conns'[d].prom = "settled",
           \A i \in At("conn")' : jobs'[i].res # "ok"
    PROVE  UsedEstablished' /\ ConnectedFirst'
<1>1. ConnectedFirst'
  BY DEF ConnectedFirst
<1>2. ASSUME NEW d \in Conns, Used(d)' PROVE Established(d)'
  BY <1>2 DEF SessionInv, StateInv, UsedEstablished, Established
<1>3. QED
  BY <1>1, <1>2 DEF UsedEstablished

\* The queue has grown by the jobs n.
Longer(n) ==
    /\ Paired(jobs)' /\ FrontWait'
    /\ Len(jobs) \in Nat /\ Len(n) \in Nat
    /\ \A i \in 1 .. Len(jobs) : jobs'[i] = jobs[i] /\ i \in 1 .. Len(jobs')
    /\ \A i \in 1 .. Len(jobs') :
          \/ i \in 1 .. Len(jobs) /\ jobs'[i] = jobs[i]
          \/ i - Len(jobs) \in 1 .. Len(n) /\ jobs'[i] = n[i - Len(jobs)]

LEMMA UserAdds ==
    ASSUME SessionInv, UserMay,
           NEW n \in Seq(Job), Paired(n), Len(n) > 0 => ~IsWait(n[1]), jobs' = jobs \o n
    PROVE  Longer(n)
<1>1. jobs \in Seq(Job) /\ Paired(jobs) /\ (Len(jobs) > 0 => ~IsWait(jobs[1]))
  BY UserFront
<1>2. QED
  BY <1>1, Extended DEF Longer

LEMMA UserAddsNone ==
    ASSUME SessionInv, UserMay, jobs' = jobs
    PROVE  \E n \in Seq(Job) : Longer(n) /\ Len(n) = 0
<1>1. jobs \in Seq(Job)
  BY DEF SessionInv, IInv, TypeOK
<1> DEFINE n == <<>>
<1>2. jobs' = jobs \o n /\ n \in Seq(Job) /\ Paired(n) /\ Len(n) = 0
  BY <1>1, NoJob
<1> HIDE DEF n
<1>3. Len(n) > 0 => ~IsWait(n[1])
  BY <1>2
<1>4. Longer(n)
  BY <1>2, <1>3, UserAdds
<1>5. QED
  BY <1>2, <1>4

LEMMA KeptAt ==
    ASSUME NEW n \in Seq(Job), Longer(n), NEW kind, \A i \in 1 .. Len(n) : n[i].job # kind
    PROVE  At(kind)' = At(kind) /\ \A i \in At(kind) : jobs'[i] = jobs[i]
<1>1. \A i : i \in At(kind)' <=> i \in At(kind)
  BY DEF Longer, At
<1>2. QED
  BY <1>1 DEF Longer, At

LEMMA UserAddsOne ==
    ASSUME SessionInv, UserMay, NEW j \in Job, ~IsWait(j), jobs' = Append(jobs, j)
    PROVE  \E n \in Seq(Job) : Longer(n) /\ Len(n) = 1 /\ n[1] = j
<1>1. jobs \in Seq(Job)
  BY DEF SessionInv, IInv, TypeOK
<1>2. jobs' = jobs \o <<j>> /\ <<j>> \in Seq(Job) /\ Paired(<<j>>) /\ Len(<<j>>) = 1 /\ <<j>>[1] = j
  BY <1>1, OneJob, AppendIsConcat
<1>3. QED
  BY <1>2, UserAdds

\* A step that leaves the manager and the connections alone, adds jobs that
\* settle nothing, and moves one new call.
LEMMA QueueStep ==
    ASSUME SessionInv, IInv', UserMay, mgr' = mgr, conns' = conns, aborts' = aborts, dead' = dead,
           NEW n \in Seq(Job), Longer(n),
           \A i \in 1 .. Len(n) : n[i].job = "go",
           \A s \in Calls : call[s].pc = "go" => call'[s] = call[s],
           \A s \in Calls : /\ call'[s].pc \in Streaming <=> call[s].pc \in Streaming
                            /\ call'[s].pc \in Streaming => call'[s].c = call[s].c,
           \A s \in Calls : call'[s].pc # "new" => call'[s].c \in Conns,
           \A s \in Calls : call'[s].pc = "go" => mgr = Ready(call'[s].c) \/ call[s] = call'[s],
           \A s \in Calls : call'[s].pc = "conn" => mgr = Connecting(call'[s].c) \/ call[s] = call'[s],
           \A i \in 1 .. Len(n) : \A s \in n[i].calls :
              /\ call[s].pc # "go" /\ call'[s].pc = "go" /\ call'[s].c = n[i].c
              /\ \A h \in 1 .. Len(n) : h = i
    PROVE  SessionInv'
<1>1. /\ jobs \in Seq(Job) /\ Paired(jobs) /\ (Len(jobs) > 0 => ~IsWait(jobs[1]))
      /\ \A i \in At("conn") : jobs[i].res # "ok"
      /\ aborts = 0 => At("conn") = {}
      /\ aborts = 0 => ConnJobs /\ VerifyJobs /\ PingsAwaited /\ ConnectingAwaited
  BY UserFront
<1>2. /\ Paired(jobs)' /\ FrontWait'
      /\ Len(jobs) \in Nat /\ Len(n) \in Nat
      /\ \A i \in 1 .. Len(jobs) : jobs'[i] = jobs[i] /\ i \in 1 .. Len(jobs')
      /\ \A i \in 1 .. Len(jobs') :
            \/ i \in 1 .. Len(jobs) /\ jobs'[i] = jobs[i]
            \/ i - Len(jobs) \in 1 .. Len(n) /\ jobs'[i] = n[i - Len(jobs)]
  BY DEF Longer
<1>3. /\ At("conn")' = At("conn") /\ \A i \in At("conn") : jobs'[i] = jobs[i]
      /\ At("ping")' = At("ping") /\ \A i \in At("ping") : jobs'[i] = jobs[i]
      /\ At("verified")' = At("verified") /\ \A i \in At("verified") : jobs'[i] = jobs[i]
  <2>1. \A i \in 1 .. Len(n) : n[i].job # "conn" /\ n[i].job # "ping" /\ n[i].job # "verified"
    OBVIOUS
  <2>2. QED
    BY <2>1, KeptAt
<1>4. Verifications' = Verifications /\ \A i \in Verifications : jobs'[i] = jobs[i]
  BY <1>3 DEF Verifications
<1>5. QueueInv'
  <2>1. PingJobs'
    BY <1>4 DEF SessionInv, QueueInv, PingJobs
  <2>2. GoJobs'
    <3> SUFFICES ASSUME NEW i \in At("go")', NEW s \in jobs'[i].calls
        PROVE  /\ call'[s].pc = "go" /\ call'[s].c = jobs'[i].c
               /\ \A h \in At("go")' : s \in jobs'[h].calls => i = h
      BY DEF GoJobs
    <3>0. jobs' \in Seq(Job) /\ i \in 1 .. Len(jobs')
      BY DEF IInv, TypeOK, At
    <3>1. s \in Calls
      <4>1. jobs'[i] \in Job
        BY <3>0
      <4>2. jobs'[i].calls \subseteq Calls
        BY <4>1 DEF Job
      <4>3. QED
        BY <4>2
    <3>2. \A h \in At("go")' : (h \in At("go") /\ jobs'[h] = jobs[h])
                                \/ (h - Len(jobs) \in 1 .. Len(n) /\ jobs'[h] = n[h - Len(jobs)])
      BY <1>2 DEF At
    <3>3. CASE i \in At("go") /\ jobs'[i] = jobs[i]
      <4>1. /\ call[s].pc = "go" /\ call[s].c = jobs[i].c
            /\ \A h \in At("go") : s \in jobs[h].calls => i = h
        BY <3>3 DEF SessionInv, QueueInv, GoJobs
      <4>2. \A h \in 1 .. Len(n) : s \notin n[h].calls
        BY <4>1
      <4>3. QED
        BY <3>1, <3>2, <3>3, <4>1, <4>2
    <3>4. CASE i - Len(jobs) \in 1 .. Len(n) /\ jobs'[i] = n[i - Len(jobs)]
      <4>1. /\ call[s].pc # "go" /\ call'[s].pc = "go" /\ call'[s].c = jobs'[i].c
            /\ \A h \in 1 .. Len(n) : h = i - Len(jobs)
        BY <3>4
      <4>2. \A h \in At("go") : s \notin jobs[h].calls
        BY <4>1 DEF SessionInv, QueueInv, GoJobs
      <4>3. ASSUME NEW h \in At("go")', s \in jobs'[h].calls PROVE i = h
        <5>1. h - Len(jobs) = i - Len(jobs)
          BY <3>2, <4>1, <4>2, <4>3
        <5>2. h \in Int /\ i \in Int
          BY <3>0 DEF At
        <5>3. QED
          BY <1>2, <5>1, <5>2
      <4>4. QED
        BY <4>1, <4>3
    <3>5. i \in At("go")'
      OBVIOUS
    <3>6. QED
      BY <3>2, <3>3, <3>4, <3>5
  <2>3. ConnectedFirst'
    BY <1>1, <1>3 DEF ConnectedFirst
  <2>4. QED
    BY <1>2, <2>1, <2>2, <2>3 DEF QueueInv
<1>6. StateInv'
  <2>1. ConnsOK' /\ UnverifiedAttended'
    BY DEF SessionInv, StateInv, ConnsOK, ConnOK, UnverifiedAttended, Attended
  <2>2. Begun'
    <3>1. \A i \in At("verified")' : i \in At("verified") /\ jobs'[i] = jobs[i]
      BY <1>3
    <3>2. QED
      BY <3>1 DEF SessionInv, StateInv, Begun, At
  <2>3. Placed'
    BY DEF Placed
  <2>4. \A d \in Conns : Used(d)' => Used(d)
    BY DEF Used, Streaming
  <2>5. UsedEstablished'
    BY <1>1, <1>3, <2>4, UseKept
  <2>6. StreamsCounted'
    BY CountKept DEF SessionInv, StateInv
  <2>7. QED
    BY <2>1, <2>2, <2>3, <2>5, <2>6 DEF StateInv
<1>7. Unaborted'
  <2> SUFFICES ASSUME aborts = 0
      PROVE  ConnJobs' /\ VerifyJobs' /\ PingsAwaited' /\ ConnectingAwaited'
    BY DEF Unaborted
  <2>1. ConnJobs'
    BY <1>1, <1>3 DEF ConnJobs
  <2>2. VerifyJobs'
    BY <1>1, <1>4 DEF VerifyJobs, Alive
  <2>3. PingsAwaited'
    BY <1>1 DEF PingsAwaited, PingUnsettled
  <2>4. ConnectingAwaited'
    <3>1. ~(jobs # <<>> /\ jobs[1].job = "conn")
      <4>1. jobs # <<>> => 1 \in 1 .. Len(jobs)
        BY <1>1
      <4>2. QED
        BY <1>1, <4>1 DEF At
    <3>2. QED
      BY <1>1, <3>1 DEF ConnectingAwaited, Attempted
  <2>5. QED
    BY <2>1, <2>2, <2>3, <2>4
<1>8. SingleConnection'
  <2> SUFFICES ASSUME NEW d \in Conns, aborts = 0, conns[d].life \in {"connecting", "open"}, mgr.c # d
      PROVE  \E i \in 1 .. Len(jobs') : jobs'[i].job = "verified" /\ jobs'[i].to = d
    BY DEF SingleConnection
  <2>1. PICK i \in 1 .. Len(jobs) : jobs[i].job = "verified" /\ jobs[i].to = d
    BY DEF SessionInv, PromiseInv, SingleConnection
  <2>2. QED
    BY <1>2, <2>1
<1>9. NoStrandedCall'
  <2> SUFFICES ASSUME NEW s \in Calls, aborts = 0, call'[s].pc = "conn", ~Attempted(call'[s].c)
      PROVE  \E i \in 1 .. Len(jobs') : jobs'[i].job = "conn-wait" /\ jobs'[i].c = call'[s].c
    BY DEF NoStrandedCall, Attempted
  <2>1. call'[s].c \in Conns
    BY DEF Placed
  <2>2. mgr # Connecting(call'[s].c)
    <3>1. ~(jobs # <<>> /\ jobs[1].job = "conn")
      <4>1. jobs # <<>> => 1 \in 1 .. Len(jobs)
        BY <1>1
      <4>2. QED
        BY <1>1, <4>1 DEF At
    <3>2. QED
      BY <1>1, <2>1, <3>1 DEF ConnectingAwaited
  <2>3. call[s] = call'[s]
    BY <2>2
  <2>4. PICK i \in 1 .. Len(jobs) : jobs[i].job = "conn-wait" /\ jobs[i].c = call'[s].c
    BY <2>3 DEF SessionInv, PromiseInv, NoStrandedCall, Attempted
  <2>5. QED
    BY <1>2, <2>4
<1>10. NoSpin'
  BY DEF SessionInv, PromiseInv, NoSpin
<1>11. QED
  BY <1>5, <1>6, <1>7, <1>8, <1>9, <1>10 DEF SessionInv, PromiseInv

LEMMA CallReadyKeeps ==
    ASSUME ConfigAssumption, SessionInv, IInv', NEW r \in Calls, NEW kind, CallReady(r, kind)
    PROVE  SessionInv'
<1> DEFINE j == [J("go", mgr.c, "ok") EXCEPT !.calls = {r}]
<1>1. /\ mgr \in Mgr /\ call \in [Calls -> Call] /\ jobs \in Seq(Job) /\ Placed
      /\ mgr.t = "ready" /\ call[r].pc = "new" /\ UserMay
      /\ call' = [call EXCEPT ![r] = [pc |-> "go", kind |-> kind, c |-> mgr.c]]
      /\ jobs' = Append(jobs, j) /\ UNCHANGED <<mgr, conns, aborts, dead>>
  BY DEF SessionInv, IInv, TypeOK, StateInv, CallReady, Wait
<1>2. mgr.c \in Conns /\ mgr = Ready(mgr.c)
  BY <1>1, MgrStates
<1>3. j \in Job
  BY <1>2, JobTypes
<1>4. j.job = "go" /\ j.calls = {r} /\ j.c = mgr.c
  BY DEF J
<1>5. \A s \in Calls : call'[s] = (IF s = r THEN [pc |-> "go", kind |-> kind, c |-> mgr.c] ELSE call[s])
  BY <1>1
<1> HIDE DEF j
<1>6. PICK n \in Seq(Job) : Longer(n) /\ Len(n) = 1 /\ n[1] = j
  BY <1>1, <1>3, <1>4, UserAddsOne DEF IsWait
<1>7. \A i \in 1 .. 1 : i = 1
  OBVIOUS
<1>8. \A s \in Calls : call'[s].pc # "new" => call'[s].c \in Conns
  BY <1>2, <1>1, <1>5 DEF Placed
<1>9. \A s \in Calls :
        /\ call[s].pc = "go" => call'[s] = call[s]
        /\ call'[s].pc \in Streaming <=> call[s].pc \in Streaming
        /\ call'[s].pc \in Streaming => call'[s].c = call[s].c
        /\ call'[s].pc = "go" => mgr = Ready(call'[s].c) \/ call[s] = call'[s]
        /\ call'[s].pc = "conn" => mgr = Connecting(call'[s].c) \/ call[s] = call'[s]
  BY <1>1, <1>2, <1>5 DEF Streaming
<1>10. /\ \A i \in 1 .. Len(n) : n[i].job = "go"
       /\ \A i \in 1 .. Len(n) : \A s \in n[i].calls :
             /\ call[s].pc # "go" /\ call'[s].pc = "go" /\ call'[s].c = n[i].c
             /\ \A h \in 1 .. Len(n) : h = i
  BY <1>1, <1>4, <1>5, <1>6, <1>7
<1>11. QED
  BY <1>1, <1>6, <1>8, <1>9, <1>10, QueueStep

LEMMA CallWaitKeeps ==
    ASSUME ConfigAssumption, SessionInv, IInv', NEW r \in Calls, NEW kind, CallWait(r, kind)
    PROVE  SessionInv'
<1>1. /\ mgr \in Mgr /\ call \in [Calls -> Call] /\ jobs \in Seq(Job) /\ Placed
      /\ mgr.t \in {"connecting", "verifying"} /\ call[r].pc = "new" /\ UserMay
      /\ call' = [call EXCEPT ![r] = [pc |-> IF mgr.t = "connecting" THEN "conn" ELSE "verify",
                                      kind |-> kind, c |-> mgr.c]]
      /\ jobs' = jobs /\ UNCHANGED <<mgr, conns, aborts, dead>>
  BY DEF SessionInv, IInv, TypeOK, StateInv, CallWait, Wait
<1>2. mgr.c \in Conns /\ (mgr.t = "connecting" => mgr = Connecting(mgr.c))
  BY <1>1 DEF Mgr, Connecting
<1>3. \A s \in Calls : IF s = r
        THEN call'[s].pc \in {"conn", "verify"} /\ call'[s].c = mgr.c
             /\ (call'[s].pc = "conn" => mgr.t = "connecting")
        ELSE call'[s] = call[s]
  BY <1>1
<1>4. PICK n \in Seq(Job) : Longer(n) /\ Len(n) = 0
  BY <1>1, UserAddsNone
<1>5. \A s \in Calls : call'[s].pc # "new" => call'[s].c \in Conns
  BY <1>2, <1>1, <1>3 DEF Placed
<1>6. \A s \in Calls :
        /\ call[s].pc = "go" => call'[s] = call[s]
        /\ call'[s].pc \in Streaming <=> call[s].pc \in Streaming
        /\ call'[s].pc \in Streaming => call'[s].c = call[s].c
        /\ call'[s].pc = "go" => mgr = Ready(call'[s].c) \/ call[s] = call'[s]
        /\ call'[s].pc = "conn" => mgr = Connecting(call'[s].c) \/ call[s] = call'[s]
  BY <1>1, <1>2, <1>3 DEF Streaming
<1>7. \A i \in 1 .. Len(n) : FALSE
  BY <1>4
<1>8. QED
  BY <1>1, <1>4, <1>5, <1>6, <1>7, QueueStep

LEMMA EndTurnKeeps ==
    ASSUME ConfigAssumption, SessionInv, IInv', EndTurn
    PROVE  SessionInv'
<1>1. UserMay /\ UNCHANGED <<mgr, conns, jobs, call, aborts, dead>>
  BY DEF EndTurn, UserMay
<1>2. PICK n \in Seq(Job) : Longer(n) /\ Len(n) = 0
  BY <1>1, UserAddsNone
<1>3. \A i \in 1 .. Len(n) : FALSE
  BY <1>2
<1>4. \A s \in Calls : call'[s].pc # "new" => call'[s].c \in Conns
  BY <1>1 DEF SessionInv, StateInv, Placed
<1>5. QED
  BY <1>1, <1>2, <1>3, <1>4, QueueStep

LEMMA JobConn ==
    ASSUME jobs \in Seq(Job)
    PROVE  /\ \A i \in 1 .. Len(jobs) : jobs[i].calls \subseteq Calls
           /\ \A i \in 1 .. Len(jobs) : jobs[i].job # "user" => jobs[i].c \in Conns
           /\ \A i \in At("verified") : jobs[i].to \in Conns
<1>1. \A j \in Job : /\ j.calls \subseteq Calls /\ (j.job # "user" => j.c \in Conns)
                     /\ (j.job = "verified" => j.to \in Conns)
  BY DEF Job, JobKind
<1>2. \A i \in 1 .. Len(jobs) : jobs[i] \in Job
  OBVIOUS
<1>3. QED
  BY <1>1, <1>2 DEF At

\* Jobs that settle nothing leave what is said of the verifications and of the
\* calls that have a connection.
LEMMA JobsKept ==
    ASSUME SessionInv, NEW n \in Seq(Job), Longer(n),
           \A i \in 1 .. Len(n) : n[i].job \notin {"verified", "go"},
           \A i \in 1 .. Len(n) : n[i].job = "ping" => conns'[n[i].c].ping # "none",
           \A d \in Conns : conns[d].ping # "none" => conns'[d].ping # "none",
           \A s \in Calls : call[s].pc = "go" => call'[s] = call[s]
    PROVE  PingJobs' /\ GoJobs' /\ At("verified")' = At("verified")
<1>1. /\ At("verified")' = At("verified") /\ \A i \in At("verified") : jobs'[i] = jobs[i]
      /\ At("go")' = At("go") /\ \A i \in At("go") : jobs'[i] = jobs[i]
  <2>1. \A i \in 1 .. Len(n) : n[i].job # "verified" /\ n[i].job # "go"
    OBVIOUS
  <2>2. QED
    BY <2>1, KeptAt
<1>2. /\ \A i \in 1 .. Len(jobs) : jobs[i].calls \subseteq Calls
      /\ \A i \in 1 .. Len(jobs) : jobs[i].job # "user" => jobs[i].c \in Conns
  BY JobConn DEF SessionInv, IInv, TypeOK
<1>3. GoJobs'
  <2>1. \A i \in At("go") : jobs[i].calls \subseteq Calls
    BY <1>2 DEF At
  <2>2. QED
    BY <1>1, <2>1 DEF SessionInv, QueueInv, GoJobs
<1>4. PingJobs'
  <2> SUFFICES ASSUME NEW i \in Verifications'
      PROVE  /\ conns'[jobs'[i].c].ping # "none"
             /\ jobs'[i].job = "verified" /\ jobs'[i].res # "failed" => jobs'[i].to = jobs'[i].c
    BY DEF PingJobs
  <2>1. i \in 1 .. Len(jobs') /\ jobs'[i].job \in {"ping", "verified"}
    BY DEF Verifications, At
  <2>2. CASE i \in 1 .. Len(jobs) /\ jobs'[i] = jobs[i]
    <3>1. i \in Verifications
      BY <2>1, <2>2 DEF Verifications, At
    <3>2. jobs[i].c \in Conns
      BY <1>2, <2>1, <2>2
    <3>3. QED
      BY <2>2, <3>1, <3>2 DEF SessionInv, QueueInv, PingJobs
  <2>3. CASE i - Len(jobs) \in 1 .. Len(n) /\ jobs'[i] = n[i - Len(jobs)]
    BY <2>1, <2>3
  <2>4. QED
    BY <2>1, <2>2, <2>3 DEF Longer
<1>5. QED
  BY <1>1, <1>3, <1>4

LEMMA CallVerifyKeeps ==
    ASSUME ConfigAssumption, SessionInv, IInv', NEW r \in Calls, NEW kind, CallVerify(r, kind)
    PROVE  SessionInv'
<1> DEFINE c == mgr.c
           k == conns[c]
           v == VerifyPing(k)
           cs == [conns EXCEPT ![c] = v]
           j == J("ping", c, "canceled")
<1>1. /\ TypeOK /\ mgr \in Mgr /\ conns \in [Conns -> Conn] /\ call \in [Calls -> Call]
      /\ mgr.t = "ready" /\ call[r].pc = "new" /\ UserMay
      /\ SetState(cs, Verifying(c))
      /\ call' = [call EXCEPT ![r] = [pc |-> "verify", kind |-> kind, c |-> c]]
      /\ jobs' = IF Alive(k) THEN jobs ELSE Append(jobs, j)
      /\ UNCHANGED <<aborts, dead>>
      /\ ConnsOK /\ Begun /\ Placed /\ UsedEstablished /\ StreamsCounted
  BY DEF SessionInv, IInv, TypeOK, StateInv, CallVerify, Wait
<1>2. c \in Conns /\ mgr = Ready(c) /\ k \in Conn
  BY <1>1, MgrStates
<1>3. /\ v \in Conn /\ v.life = k.life /\ v.prom = k.prom /\ v.streams = k.streams
      /\ v.ping # "none" /\ (~Alive(k) => v.ping = "settled")
  <2>1. v \in Conn
    BY <1>2, VerifyPingType
  <2>2. CASE ~Alive(k)
    BY <1>2, <2>1, <2>2 DEF Conn, VerifyPing
  <2>3. CASE Alive(k) /\ PingSent(k)
    BY <1>2, <2>1, <2>3 DEF Conn, VerifyPing
  <2>4. CASE Alive(k) /\ ~PingSent(k)
    BY <1>2, <2>1, <2>4 DEF Conn, VerifyPing
  <2>5. QED
    BY <2>2, <2>3, <2>4
<1> HIDE DEF v, k
<1>4. cs \in [Conns -> Conn] /\ \A d \in Conns : cs[d] = (IF d = c THEN v ELSE conns[d])
  BY <1>1, <1>2, <1>3
<1> HIDE DEF cs
<1>5. \A d \in Conns :
        /\ conns'[d].prom = conns[d].prom /\ conns'[d].streams = conns[d].streams
        /\ conns'[d].life = conns[d].life
        /\ d # c => /\ conns'[d].ping = conns[d].ping /\ conns'[d].tmr \subseteq conns[d].tmr
                    /\ "connect" \in conns[d].lst => "connect" \in conns'[d].lst
        /\ d = c => conns'[d].ping = v.ping
  <2> SUFFICES ASSUME NEW d \in Conns
      PROVE  /\ conns'[d].prom = conns[d].prom /\ conns'[d].streams = conns[d].streams
             /\ conns'[d].life = conns[d].life
             /\ d # c => /\ conns'[d].ping = conns[d].ping /\ conns'[d].tmr \subseteq conns[d].tmr
                         /\ "connect" \in conns[d].lst => "connect" \in conns'[d].lst
             /\ d = c => conns'[d].ping = v.ping
    OBVIOUS
  <2>0. \A e \in Conns : Ready(e) # Connecting(d)
    BY DEF Ready, Connecting
  <2>1. Verifying(c) \in Mgr /\ mgr # Connecting(d)
    BY <1>2, <2>0, MgrStates
  <2>2. Exited(cs[d], conns'[d]) /\ ("connect" \in cs[d].lst => "connect" \in conns'[d].lst)
    BY <1>1, <1>4, <2>1, SetStateEffect
  <2>3. QED
    BY <1>3, <1>4, <2>2 DEF Exited, k
<1>6. mgr' = Verifying(c)
  BY <1>1 DEF SetState
<1>7. \A d : mgr' # Ready(d) /\ mgr' # Connecting(d) /\ (mgr' = Verifying(d) => d = c)
  BY <1>6 DEF Verifying, Ready, Connecting
<1>8. Established(c) /\ Used(c)
  BY <1>1, <1>2 DEF UsedEstablished, Used
<1>9. \A s \in Calls : call'[s] = (IF s = r THEN [pc |-> "verify", kind |-> kind, c |-> c] ELSE call[s])
  BY <1>1
<1>10. PICK n \in Seq(Job) : /\ Longer(n)
                             /\ Len(n) = 0 \/ (~Alive(k) /\ Len(n) = 1 /\ n[1] = j)
  <2>1. CASE Alive(k)
    BY <1>1, <2>1, UserAddsNone
  <2>2. CASE ~Alive(k)
    <3>1. j \in Job /\ ~IsWait(j)
      BY <1>2, JobTypes DEF IsWait, J, JobKind, Reason
    <3>2. QED
      BY <1>1, <2>2, <3>1, UserAddsOne
  <2>3. QED
    BY <2>1, <2>2
<1>11. /\ j.job = "ping" /\ j.c = c /\ j.res = "canceled"
  BY DEF J
<1> HIDE DEF j
<1>12. \A i \in 1 .. Len(n) : n[i] = j /\ i = 1 /\ ~Alive(k)
  <2>1. \A i \in 1 .. 0 : FALSE
    OBVIOUS
  <2>2. \A i \in 1 .. 1 : i = 1
    OBVIOUS
  <2>3. QED
    BY <1>10, <2>1, <2>2
<1>13. /\ \A i \in 1 .. Len(n) : n[i].job # "conn" /\ n[i].job \notin {"verified", "go"}
       /\ \A i \in 1 .. Len(n) : n[i].job = "ping" => conns'[n[i].c].ping # "none"
  BY <1>2, <1>3, <1>5, <1>11, <1>12
<1>14. PingJobs' /\ GoJobs' /\ At("verified")' = At("verified")
  <2>1. \A d \in Conns : conns[d].ping # "none" => conns'[d].ping # "none"
    BY <1>3, <1>5
  <2>2. \A s \in Calls : call[s].pc = "go" => call'[s] = call[s]
    BY <1>1, <1>9
  <2>3. QED
    BY <1>10, <1>13, <2>1, <2>2, JobsKept
<1>15. /\ At("conn")' = At("conn") /\ \A i \in At("conn") : jobs'[i] = jobs[i]
  BY <1>10, <1>13, KeptAt
<1>16. /\ \A i \in At("conn") : jobs[i].res # "ok"
       /\ aborts = 0 => At("conn") = {} /\ ConnJobs /\ VerifyJobs /\ PingsAwaited
  BY <1>1, UserFront
<1>17. UsedEstablished' /\ ConnectedFirst'
  <2>1. \A d \in Conns : Used(d)' => Used(d)
    <3> SUFFICES ASSUME NEW d \in Conns, Used(d)', d # c PROVE Used(d)
      BY <1>8
    <3>1. QED
      BY <1>5, <1>7, <1>9 DEF Used
  <2>2. QED
    BY <1>5, <1>15, <1>16, <2>1, UseKept
<1>18. QueueInv'
  BY <1>10, <1>14, <1>17 DEF QueueInv, Longer
<1>19. StateInv'
  <2>1. ConnsOK'
    <3> SUFFICES ASSUME NEW d \in Conns PROVE ConnOK(conns'[d])
      BY DEF ConnsOK
    <3>1. ConnOK(conns[d])
      BY <1>1 DEF ConnsOK
    <3>2. CASE d = c
      BY <1>5, <1>8, <3>1, <3>2 DEF ConnOK, Established
    <3>3. CASE d # c
      BY <1>5, <3>1, <3>3 DEF ConnOK
    <3>4. QED
      BY <3>2, <3>3
  <2>2. Begun'
    <3> SUFFICES ASSUME NEW i \in 1 .. Len(jobs'), jobs'[i].job = "verified", jobs'[i].res = "failed"
        PROVE  conns'[jobs'[i].to].life # "unused"
      BY <1>7 DEF Begun
    <3>1. i \in 1 .. Len(jobs) /\ jobs'[i] = jobs[i]
      BY <1>10, <1>13 DEF Longer
    <3>2. jobs[i].to \in Conns
      BY <1>1, <3>1, JobConn DEF TypeOK, At
    <3>3. QED
      BY <1>1, <1>5, <3>1, <3>2 DEF Begun
  <2>3. Placed'
    BY <1>1, <1>2, <1>9 DEF Placed
  <2>4. UnverifiedAttended'
    BY <1>7 DEF UnverifiedAttended
  <2>5. StreamsCounted'
    BY <1>1, <1>5, <1>9, CountKept DEF Streaming
  <2>6. QED
    BY <1>17, <2>1, <2>2, <2>3, <2>4, <2>5 DEF StateInv
<1>20. aborts = 0 => Verifications = {}
  BY <1>2, <1>16 DEF VerifyJobs, Verifying, Ready
<1>21. Unaborted'
  <2> SUFFICES ASSUME aborts = 0
      PROVE  ConnJobs' /\ VerifyJobs' /\ PingsAwaited' /\ ConnectingAwaited'
    BY <1>1 DEF Unaborted
  <2>1. ConnJobs' /\ ConnectingAwaited'
    BY <1>7, <1>15, <1>16 DEF ConnJobs, ConnectingAwaited
  <2>2. \A i \in Verifications' : i = Len(jobs) + 1 /\ jobs'[i] = j /\ ~Alive(k)
    <3> SUFFICES ASSUME NEW i \in Verifications' PROVE i = Len(jobs) + 1 /\ jobs'[i] = j /\ ~Alive(k)
      OBVIOUS
    <3>1. i \in 1 .. Len(jobs') /\ jobs'[i].job \in {"ping", "verified"}
      BY DEF Verifications, At
    <3>2. ~(i \in 1 .. Len(jobs) /\ jobs'[i] = jobs[i])
      BY <1>20, <3>1 DEF Verifications, At
    <3>3. Len(jobs) \in Nat /\ i - Len(jobs) \in 1 .. Len(n) /\ jobs'[i] = n[i - Len(jobs)]
      BY <1>10, <3>1, <3>2 DEF Longer
    <3>4. i - Len(jobs) = 1
      BY <1>12, <3>3
    <3>5. QED
      BY <1>12, <3>1, <3>3, <3>4
  <2>3. VerifyJobs'
    BY <1>2, <1>3, <1>5, <1>6, <1>11, <2>2 DEF VerifyJobs, Alive, k
  <2>4. PingsAwaited'
    <3> SUFFICES ASSUME NEW d \in Conns, PingUnsettled(conns'[d]) PROVE mgr' = Verifying(d)
      BY DEF PingsAwaited
    <3>1. d # c => PingUnsettled(conns[d])
      BY <1>5 DEF PingUnsettled
    <3>2. d # c => mgr = Verifying(d)
      BY <1>16, <3>1 DEF PingsAwaited
    <3>3. QED
      BY <1>2, <1>6, <3>2 DEF Ready, Verifying
  <2>5. QED
    BY <2>1, <2>3, <2>4
<1>22. SingleConnection'
  <2> SUFFICES ASSUME NEW d \in Conns, aborts = 0, conns'[d].life \in {"connecting", "open"}
      PROVE  mgr'.c = d
    BY <1>1 DEF SingleConnection
  <2>1. At("verified") = {}
    BY <1>20 DEF Verifications
  <2>2. mgr.c = d
    BY <1>5, <2>1 DEF SessionInv, PromiseInv, SingleConnection, At
  <2>3. QED
    BY <1>6, <2>2 DEF Verifying
<1>23. NoStrandedCall'
  <2> SUFFICES ASSUME NEW s \in Calls, aborts = 0, call'[s].pc = "conn", ~Attempted(call[s].c)'
      PROVE  \E i \in 1 .. Len(jobs') : jobs'[i].job = "conn-wait" /\ jobs'[i].c = call'[s].c
    BY <1>1 DEF NoStrandedCall, Attempted
  <2>1. call'[s] = call[s] /\ call[s].c \in Conns
    BY <1>1, <1>9 DEF Placed
  <2>2. ~Attempted(call[s].c)
    <3>1. CASE call[s].c = c
      BY <1>1, <1>2, <1>8, <3>1 DEF Attempted, Established, ConnsOK, ConnOK
    <3>2. CASE call[s].c # c
      BY <1>5, <2>1, <3>2 DEF Attempted
    <3>3. QED
      BY <3>1, <3>2
  <2>3. PICK i \in 1 .. Len(jobs) : jobs[i].job = "conn-wait" /\ jobs[i].c = call[s].c
    BY <2>1, <2>2 DEF SessionInv, PromiseInv, NoStrandedCall, Attempted
  <2>4. QED
    BY <1>10, <2>1, <2>3 DEF Longer
<1>24. NoSpin'
  BY <1>1 DEF SessionInv, PromiseInv, NoSpin
<1>25. QED
  BY <1>18, <1>19, <1>21, <1>22, <1>23, <1>24 DEF SessionInv, PromiseInv

LEMMA CallConnectKeeps ==
    ASSUME ConfigAssumption, SessionInv, IInv', NEW r \in Calls, NEW kind, CallConnect(r, kind)
    PROVE  SessionInv'
<1>1. /\ TypeOK /\ mgr \in Mgr /\ conns \in [Conns -> Conn] /\ call \in [Calls -> Call]
      /\ mgr.t \in {"closed", "error"} /\ call[r].pc = "new" /\ UserMay
      /\ jobs' = jobs /\ UNCHANGED <<aborts, dead>>
      /\ ConnsOK /\ Begun /\ Placed /\ UsedEstablished /\ UnverifiedAttended /\ StreamsCounted
  BY DEF SessionInv, IInv, TypeOK, StateInv, CallConnect
<1>2. PICK c \in Fresh(conns) : /\ SetState(Connect(conns, c), Connecting(c))
                                /\ Wait(r, kind, "conn", c)
  BY DEF CallConnect
<1>3. /\ c \in Conns /\ conns[c].life = "unused"
      /\ mgr' = Connecting(c) /\ conns' = Connect(conns, c)
  <2>1. Connecting(c).t = "connecting"
    BY DEF Connecting
  <2>2. QED
    BY <1>1, <1>2, <2>1 DEF Fresh, SetState, ExitState
<1>4. \A s \in Calls : call'[s] = (IF s = r THEN [pc |-> "conn", kind |-> kind, c |-> c] ELSE call[s])
  BY <1>1, <1>2 DEF Wait
<1>5. /\ conns'[c].life = "connecting" /\ conns'[c].lst = {"connect"} /\ conns'[c].prom = "pending"
      /\ conns'[c].ping = conns[c].ping /\ conns'[c].streams = conns[c].streams
      /\ conns'[c].tmr = conns[c].tmr
      /\ \A d \in Conns : d # c => conns'[d] = conns[d]
  BY <1>1, <1>3 DEF Connect, Conn
<1>6. conns[c].prom = "none" /\ conns[c].tmr = {} /\ ~Used(c)
  BY <1>1, <1>3 DEF ConnsOK, ConnOK, UsedEstablished, Established
<1>7. PICK n \in Seq(Job) : Longer(n) /\ Len(n) = 0
  BY <1>1, UserAddsNone
<1>8. \A i \in 1 .. Len(n) : FALSE
  BY <1>7
<1>9. PingJobs' /\ GoJobs' /\ At("verified")' = At("verified")
  <2>1. \A d \in Conns : conns[d].ping # "none" => conns'[d].ping # "none"
    BY <1>5
  <2>2. \A s \in Calls : call[s].pc = "go" => call'[s] = call[s]
    BY <1>1, <1>4
  <2>3. QED
    BY <1>7, <1>8, <2>1, <2>2, JobsKept
<1>10. At("conn")' = At("conn") /\ \A i \in At("conn") : jobs'[i] = jobs[i]
  BY <1>7, <1>8, KeptAt
<1>11. /\ \A i \in At("conn") : jobs[i].res # "ok"
       /\ aborts = 0 => At("conn") = {} /\ ConnJobs /\ VerifyJobs /\ PingsAwaited
  BY <1>1, UserFront
<1>12. \A d : mgr # Ready(d) /\ mgr # Verifying(d) /\ mgr' # Ready(d) /\ mgr' # Verifying(d)
  BY <1>1, <1>3 DEF Ready, Verifying, Connecting
<1>13. UsedEstablished' /\ ConnectedFirst'
  <2>1. \A d \in Conns : Used(d)' => Used(d)
    BY <1>4, <1>5, <1>12 DEF Used
  <2>2. \A d \in Conns : conns[d].prom = "settled" => conns'[d].prom = "settled"
    BY <1>5, <1>6
  <2>3. QED
    BY <1>10, <1>11, <2>1, <2>2, UseKept
<1>14. QueueInv'
  BY <1>7, <1>9, <1>13 DEF QueueInv, Longer
<1>15. StateInv'
  <2>1. ConnsOK'
    <3> SUFFICES ASSUME NEW d \in Conns PROVE ConnOK(conns'[d])
      BY DEF ConnsOK
    <3>1. ConnOK(conns[d])
      BY <1>1 DEF ConnsOK
    <3>2. QED
      BY <1>5, <1>6, <3>1 DEF ConnOK
  <2>2. Begun'
    <3>1. \A d \in Conns : mgr' = Connecting(d) => d = c
      BY <1>3 DEF Connecting
    <3>2. \A d \in Conns : conns'[d].life = "unused" => conns[d].life = "unused"
      BY <1>5
    <3>3. \A i \in At("verified") : jobs[i].to \in Conns
      BY <1>1, JobConn DEF TypeOK
    <3>4. QED
      BY <1>1, <1>5, <3>1, <3>2, <3>3 DEF Begun, At
  <2>3. Placed'
    BY <1>1, <1>3, <1>4 DEF Placed
  <2>4. UnverifiedAttended'
    BY <1>12 DEF UnverifiedAttended
  <2>5. StreamsCounted'
    BY <1>1, <1>4, <1>5, CountKept DEF Streaming
  <2>6. QED
    BY <1>13, <2>1, <2>2, <2>3, <2>4, <2>5 DEF StateInv
<1>16. aborts = 0 => Verifications = {}
  BY <1>11, <1>12 DEF VerifyJobs
<1>17. aborts = 0 => Verifications' = {}
  BY <1>1, <1>16 DEF Verifications, At
<1>18. Unaborted'
  <2> SUFFICES ASSUME aborts = 0
      PROVE  ConnJobs' /\ VerifyJobs' /\ PingsAwaited' /\ ConnectingAwaited'
    BY <1>1 DEF Unaborted
  <2>1. ConnJobs' /\ VerifyJobs'
    BY <1>10, <1>11, <1>17 DEF ConnJobs, VerifyJobs
  <2>2. PingsAwaited'
    BY <1>5, <1>11, <1>12 DEF PingsAwaited, PingUnsettled
  <2>3. ConnectingAwaited'
    BY <1>3, <1>5 DEF ConnectingAwaited, Attempted, Connecting
  <2>4. QED
    BY <2>1, <2>2, <2>3
<1>19. SingleConnection'
  <2> SUFFICES ASSUME NEW d \in Conns, aborts = 0, conns'[d].life \in {"connecting", "open"}, d # c
      PROVE  FALSE
    BY <1>1, <1>3 DEF SingleConnection, Connecting
  <2>1. At("verified") = {}
    BY <1>16 DEF Verifications
  <2>2. mgr.c = d
    BY <1>5, <2>1 DEF SessionInv, PromiseInv, SingleConnection, At
  <2>3. QED
    BY <1>1, <2>2 DEF Mgr, ConfigAssumption
<1>20. NoStrandedCall'
  <2> SUFFICES ASSUME NEW s \in Calls, aborts = 0, call'[s].pc = "conn", call'[s].c # c,
                      ~Attempted(call[s].c)'
      PROVE  \E i \in 1 .. Len(jobs') : jobs'[i].job = "conn-wait" /\ jobs'[i].c = call'[s].c
    BY <1>1, <1>4, <1>5 DEF NoStrandedCall, Attempted
  <2>1. call'[s] = call[s] /\ call[s].c \in Conns
    BY <1>1, <1>4 DEF Placed
  <2>2. ~Attempted(call[s].c)
    BY <1>5, <2>1 DEF Attempted
  <2>3. PICK i \in 1 .. Len(jobs) : jobs[i].job = "conn-wait" /\ jobs[i].c = call[s].c
    BY <2>1, <2>2 DEF SessionInv, PromiseInv, NoStrandedCall, Attempted
  <2>4. QED
    BY <1>7, <2>1, <2>3 DEF Longer
<1>21. NoSpin'
  BY <1>1 DEF SessionInv, PromiseInv, NoSpin
<1>22. QED
  BY <1>14, <1>15, <1>18, <1>19, <1>20, <1>21 DEF SessionInv, PromiseInv

LEMMA AbortKeeps ==
    ASSUME ConfigAssumption, SessionInv, IInv', NEW reason \in {"canceled", "failed"}, Abort(reason)
    PROVE  SessionInv'
<1> DEFINE c == mgr.c
           k == conns[c]
           d1 == Destroy(k, FALSE)
           k1 == [d1 EXCEPT !.prom = "settled"]
           k2 == AbortReady(k)
<1>1. /\ TypeOK /\ mgr \in Mgr /\ conns \in [Conns -> Conn] /\ call \in [Calls -> Call]
      /\ jobs \in Seq(Job) /\ UserMay /\ UNCHANGED <<call, dead>> /\ aborts' # 0
      /\ ConnsOK /\ Begun /\ Placed /\ UsedEstablished /\ StreamsCounted
  BY DEF SessionInv, IInv, TypeOK, StateInv, Abort
<1>2. ClosedOrError(reason) \in Mgr /\ \A d : /\ ClosedOrError(reason) # Ready(d)
                                              /\ ClosedOrError(reason) # Verifying(d)
                                              /\ ClosedOrError(reason) # Connecting(d)
  BY MgrStates DEF ClosedOrError, Closed, Errored, Ready, Verifying, Connecting
\* What the manager does to the connections before it leaves its state.
<1>3. PICK cs \in [Conns -> Conn] :
        /\ SetState(cs, ClosedOrError(reason))
        /\ \A d \in Conns :
              /\ cs[d].ping = conns[d].ping /\ cs[d].streams = conns[d].streams
              /\ conns[d].prom = "settled" => cs[d].prom = "settled"
              /\ cs[d].life = "unused" => conns[d].life = "unused"
              /\ ConnOK(cs[d])
  <2>0. \A d \in Conns : ConnOK(conns[d])
    BY <1>1 DEF ConnsOK
  <2>1. CASE mgr.t = "connecting"
    <3>1. /\ c \in Conns /\ mgr = Connecting(c) /\ k \in Conn /\ k.life # "unused" /\ ConnOK(k)
      BY <1>1, <2>0, <2>1 DEF Mgr, Connecting, Begun
    <3>2. SetState([conns EXCEPT ![c] = k1], ClosedOrError(reason))
      BY <2>1 DEF Abort
    <3> HIDE DEF k
    <3>3. /\ d1 \in Conn /\ Same(k, d1) /\ Ends(k, d1) /\ ~Alive(d1)
      BY <3>1, DestroyType, DestroyOps
    <3> HIDE DEF d1
    <3>4. /\ k1 \in Conn /\ k1.prom = "settled" /\ k1.ping = k.ping /\ k1.streams = k.streams
          /\ k1.life = d1.life
      BY <3>3 DEF Conn, Promise, Same
    <3>5. k1.life \notin {"unused", "connecting"}
      BY <3>1, <3>3, <3>4 DEF Ends, Alive
    <3> HIDE DEF k1
    <3>6. /\ [conns EXCEPT ![c] = k1] \in [Conns -> Conn]
          /\ \A d \in Conns : [conns EXCEPT ![c] = k1][d] = (IF d = c THEN k1 ELSE conns[d])
      BY <1>1, <3>1, <3>4
    <3>7. ConnOK(k1)
      BY <3>5 DEF ConnOK
    <3>8. QED
      BY <2>0, <3>2, <3>4, <3>5, <3>6, <3>7 DEF k
  <2>2. CASE mgr.t \in {"verifying", "ready"}
    <3>1. /\ c \in Conns /\ (mgr = Verifying(c) \/ mgr = Ready(c)) /\ k \in Conn /\ ConnOK(k)
      BY <1>1, <2>0, <2>2 DEF Mgr, Verifying, Ready
    <3>2. k.prom = "settled" /\ k.life \notin {"unused", "connecting"}
      BY <1>1, <3>1 DEF UsedEstablished, Used, Established, ConnOK
    <3>3. SetState([conns EXCEPT ![c] = k2], ClosedOrError(reason))
      BY <2>2 DEF Abort
    <3> HIDE DEF k
    <3>4. /\ k2 \in Conn /\ k2.prom = k.prom /\ k2.ping = k.ping /\ k2.streams = k.streams
          /\ k2.life \notin {"unused", "connecting"}
      <4>1. k2 \in Conn
        BY <3>1, EndOpsType
      <4> DEFINE w == [k EXCEPT !.lst = @ \cup {"swallow"}]
      <4>2. /\ w \in Conn /\ w.prom = k.prom /\ w.ping = k.ping /\ w.streams = k.streams /\ w.life = k.life
        BY <3>1 DEF Conn, Listener
      <4> HIDE DEF w
      <4>3. Same(w, Destroy(w, TRUE)) /\ Ends(w, Destroy(w, TRUE))
        BY <4>2, DestroyOps
      <4>4. k2 = (IF Alive(k) THEN Destroy(w, TRUE) ELSE k)
        BY DEF AbortReady, w
      <4>5. QED
        BY <3>2, <4>1, <4>2, <4>3, <4>4 DEF Same, Ends
    <3> HIDE DEF k2
    <3>5. /\ [conns EXCEPT ![c] = k2] \in [Conns -> Conn]
          /\ \A d \in Conns : [conns EXCEPT ![c] = k2][d] = (IF d = c THEN k2 ELSE conns[d])
      BY <1>1, <3>1, <3>4
    <3>6. ConnOK(k2)
      BY <3>4 DEF ConnOK
    <3>7. QED
      BY <2>0, <3>2, <3>3, <3>4, <3>5, <3>6 DEF k
  <2>3. CASE mgr.t \notin {"connecting", "verifying", "ready"}
    BY <1>1, <2>0, <2>3 DEF Abort
  <2>4. QED
    BY <2>1, <2>2, <2>3
<1>4. \A d \in Conns :
        /\ conns'[d].ping = conns[d].ping /\ conns'[d].streams = conns[d].streams
        /\ conns[d].prom = "settled" => conns'[d].prom = "settled"
        /\ conns'[d].life = "unused" => conns[d].life = "unused"
        /\ ConnOK(conns'[d])
  <2>1. \A d \in Conns : Exited(cs[d], conns'[d])
    BY <1>1, <1>2, <1>3, SetStateEffect
  <2>2. QED
    BY <1>3, <2>1 DEF Exited, ConnOK
<1>5. mgr' = ClosedOrError(reason)
  BY <1>3 DEF SetState
<1>6. PICK n \in Seq(Job) :
        /\ Longer(n)
        /\ \A i \in 1 .. Len(n) : n[i].job \in {"conn", "conn-wait"} /\ n[i].res # "ok"
  <2>1. CASE mgr.t = "connecting" /\ conns[c].prom = "pending"
    <3> DEFINE n == SettleConn(c, reason)
    <3>1. jobs' = jobs \o n
      BY <2>1 DEF Abort, RejectConnecting
    <3>2. c \in Conns /\ reason \in Reason
      BY <1>1, <2>1 DEF Mgr, Reason
    <3>3. /\ n \in Seq(Job) /\ Len(n) = 2 /\ Paired(n) /\ ~IsWait(n[1])
          /\ n[1] = J("conn", c, reason) /\ n[2] = J("conn-wait", c, reason)
      BY <3>2, Settled
    <3>4. \A i \in 1 .. 2 : i = 1 \/ i = 2
      OBVIOUS
    <3> HIDE DEF n
    <3>5. \A i \in 1 .. Len(n) : n[i].job \in {"conn", "conn-wait"} /\ n[i].res # "ok"
      BY <3>3, <3>4 DEF J
    <3>6. Longer(n)
      BY <1>1, <3>1, <3>3, UserAdds
    <3>7. QED
      BY <3>3, <3>5, <3>6
  <2>2. CASE ~(mgr.t = "connecting" /\ conns[c].prom = "pending")
    <3>1. jobs' = jobs
      <4>1. jobs \o <<>> = jobs
        BY <1>1, NoJob
      <4>2. QED
        BY <2>2, <4>1 DEF Abort, RejectConnecting
    <3>2. PICK n \in Seq(Job) : Longer(n) /\ Len(n) = 0
      BY <1>1, <3>1, UserAddsNone
    <3>3. \A i \in 1 .. Len(n) : FALSE
      BY <3>2
    <3>4. QED
      BY <3>2, <3>3
  <2>3. QED
    BY <2>1, <2>2
<1>7. PingJobs' /\ GoJobs' /\ At("verified")' = At("verified")
  <2>1. \A d \in Conns : conns[d].ping # "none" => conns'[d].ping # "none"
    BY <1>4
  <2>2. \A s \in Calls : call[s].pc = "go" => call'[s] = call[s]
    BY <1>1
  <2>3. \A i \in 1 .. Len(n) : n[i].job \notin {"verified", "go"} /\ n[i].job # "ping"
    BY <1>6
  <2>4. QED
    BY <1>6, <2>1, <2>2, <2>3, JobsKept
<1>8. \A i \in At("conn")' : jobs'[i].res # "ok"
  <2>1. \A i \in At("conn") : jobs[i].res # "ok"
    BY <1>1, UserFront
  <2>2. QED
    BY <1>6, <2>1 DEF Longer, At
<1>9. UsedEstablished' /\ ConnectedFirst'
  <2>1. \A d \in Conns : Used(d)' => Used(d)
    BY <1>1, <1>2, <1>4, <1>5 DEF Used
  <2>2. QED
    BY <1>4, <1>8, <2>1, UseKept
<1>10. QueueInv'
  BY <1>6, <1>7, <1>9 DEF QueueInv, Longer
<1>11. StateInv'
  <2>1. ConnsOK'
    BY <1>4 DEF ConnsOK
  <2>2. Begun'
    <3> SUFFICES ASSUME NEW i \in 1 .. Len(jobs'), jobs'[i].job = "verified", jobs'[i].res = "failed"
        PROVE  conns'[jobs'[i].to].life # "unused"
      BY <1>2, <1>5 DEF Begun
    <3>1. i \in 1 .. Len(jobs) /\ jobs'[i] = jobs[i]
      BY <1>6 DEF Longer
    <3>2. jobs[i].to \in Conns
      BY <1>1, <3>1, JobConn DEF At
    <3>3. QED
      BY <1>1, <1>4, <3>1, <3>2 DEF Begun
  <2>3. Placed'
    BY <1>1 DEF Placed
  <2>4. UnverifiedAttended'
    BY <1>2, <1>5 DEF UnverifiedAttended
  <2>5. StreamsCounted'
    BY <1>1, <1>4, CountKept
  <2>6. QED
    BY <1>9, <2>1, <2>2, <2>3, <2>4, <2>5 DEF StateInv
<1>12. PromiseInv'
  BY <1>1 DEF SessionInv, PromiseInv, NoSpin, Unaborted, SingleConnection, NoStrandedCall
<1>13. QED
  BY <1>10, <1>11, <1>12 DEF SessionInv

(***************************************************************************)
(* Microtasks.                                                             *)
(***************************************************************************)

\* The first job has left the queue, which has grown by the jobs n.
Shifted(n) ==
    /\ Paired(jobs)' /\ Len(jobs) \in Nat \ {0} /\ Len(n) \in Nat
    /\ \A i \in 2 .. Len(jobs) : jobs'[i - 1] = jobs[i] /\ i - 1 \in 1 .. Len(jobs')
    /\ \A i \in 1 .. Len(jobs') :
          \/ i + 1 \in 2 .. Len(jobs) /\ jobs'[i] = jobs[i + 1]
          \/ i - (Len(jobs) - 1) \in 1 .. Len(n) /\ jobs'[i] = n[i - (Len(jobs) - 1)]

LEMMA MicroFront ==
    ASSUME SessionInv, NEW k, Micro(k)
    PROVE  /\ jobs \in Seq(Job) /\ jobs # <<>> /\ Len(jobs) \in Nat \ {0} /\ 1 \in 1 .. Len(jobs)
           /\ Head(jobs) = jobs[1] /\ jobs[1] \in Job /\ jobs[1].job = k /\ turn = FALSE
           /\ Tail(jobs) \in Seq(Job) /\ Paired(Tail(jobs))
           /\ k # "user" => jobs[1].c \in Conns
           /\ Len(jobs) > 1 =>
                /\ jobs[2].job = "conn-wait" => k = "conn" /\ Follows(jobs[1], jobs[2])
                /\ jobs[2].job = "verified-wait" => k = "verified" /\ Follows(jobs[1], jobs[2])
           /\ aborts = 0 => ConnJobs /\ VerifyJobs /\ PingsAwaited /\ ConnectingAwaited
           /\ aborts = 0 => \A i \in At("conn") : i = 1
           /\ \A i \in At("conn") : jobs[i].res = "ok" => i = 1
<1>1. jobs \in Seq(Job) /\ jobs # <<>> /\ turn = FALSE /\ Paired(jobs)
  BY DEF SessionInv, IInv, TypeOK, Micro, QueueInv
<1>2. /\ Tail(jobs) \in Seq(Job) /\ Len(jobs) \in Nat \ {0} /\ Head(jobs) = jobs[1] /\ jobs[1] \in Job
      /\ 1 \in 1 .. Len(jobs)
  BY <1>1, Dropped
<1>3. jobs[1].job = k
  BY <1>2 DEF Micro
<1>4. k # "user" => jobs[1].c \in Conns
  BY <1>1, <1>2, <1>3, JobConn
<1>5. /\ Paired(Tail(jobs))
      /\ Len(jobs) > 1 =>
           /\ jobs[2].job = "conn-wait" => k = "conn" /\ Follows(jobs[1], jobs[2])
           /\ jobs[2].job = "verified-wait" => k = "verified" /\ Follows(jobs[1], jobs[2])
  BY <1>1, <1>3, PairedTail
<1>6. aborts = 0 => ConnJobs /\ VerifyJobs /\ PingsAwaited /\ ConnectingAwaited
  BY DEF SessionInv, PromiseInv, Unaborted
<1>7. aborts = 0 => \A i \in At("conn") : i = 1
  BY <1>6 DEF ConnJobs
<1>8. \A i \in At("conn") : jobs[i].res = "ok" => i = 1
  BY DEF SessionInv, QueueInv, ConnectedFirst
<1>9. QED
  BY <1>1, <1>2, <1>3, <1>4, <1>5, <1>6, <1>7, <1>8

\* Only after a reaction of setState() are the calls of a promise next.
LEMMA NextFront ==
    ASSUME SessionInv, NEW k, Micro(k), k \notin {"conn", "verified"}, Len(jobs) > 1
    PROVE  ~IsWait(jobs[2])
<1>1. ~(jobs[2].job = "conn-wait") /\ ~(jobs[2].job = "verified-wait")
  BY MicroFront
<1>2. QED
  BY <1>1 DEF IsWait

\* What the first job adds, and what is then first.
LEMMA MicroAdds ==
    ASSUME SessionInv, NEW k, Micro(k),
           NEW n \in Seq(Job), Paired(n), Len(n) > 0 => ~IsWait(n[1]), jobs' = Tail(jobs) \o n
    PROVE  /\ Shifted(n)
           /\ jobs' # <<>> /\ IsWait(jobs'[1]) =>
                Len(jobs) > 1 /\ jobs'[1] = jobs[2]
<1> DEFINE q == Tail(jobs)
<1>1. q \in Seq(Job) /\ Paired(q) /\ jobs \in Seq(Job) /\ jobs # <<>>
  BY MicroFront
<1>2. /\ Len(q) = Len(jobs) - 1 /\ Len(jobs) \in Nat \ {0}
      /\ \A i \in 1 .. Len(q) : q[i] = jobs[i + 1]
  BY <1>1, Dropped
<1>3. jobs' = q \o n
  OBVIOUS
<1> HIDE DEF q
<1>4. /\ jobs' \in Seq(Job) /\ Len(jobs') = Len(q) + Len(n)
      /\ Len(q) \in Nat /\ Len(n) \in Nat
      /\ \A i \in 1 .. Len(q) : jobs'[i] = q[i]
      /\ \A i \in Len(q) + 1 .. Len(jobs') : jobs'[i] = n[i - Len(q)]
  <2>1. /\ q \o n \in Seq(Job) /\ Len(q \o n) = Len(q) + Len(n)
        /\ Len(q) \in Nat /\ Len(n) \in Nat
        /\ \A i \in 1 .. Len(q) : (q \o n)[i] = q[i]
        /\ \A i \in Len(q) + 1 .. Len(q \o n) : (q \o n)[i] = n[i - Len(q)]
    BY <1>1, Joined
  <2>2. QED
    BY <1>3, <2>1, Zenon
<1>5. Paired(jobs)'
  <2>1. Paired(jobs')
    BY <1>1, <1>3, PairedJoined
  <2>2. QED
    BY <2>1, Zenon DEF Paired
<1>6. \A i \in 2 .. Len(jobs) : jobs'[i - 1] = jobs[i] /\ i - 1 \in 1 .. Len(jobs')
  <2> SUFFICES ASSUME NEW i \in 2 .. Len(jobs)
      PROVE  jobs'[i - 1] = jobs[i] /\ i - 1 \in 1 .. Len(jobs')
    OBVIOUS
  <2>1. i - 1 \in 1 .. Len(q) /\ (i - 1) + 1 = i /\ i - 1 \in 1 .. Len(jobs')
    BY <1>2, <1>4
  <2>2. QED
    BY <1>2, <1>4, <2>1
<1>7. \A i \in 1 .. Len(jobs') :
        \/ i + 1 \in 2 .. Len(jobs) /\ jobs'[i] = jobs[i + 1]
        \/ i - (Len(jobs) - 1) \in 1 .. Len(n) /\ jobs'[i] = n[i - (Len(jobs) - 1)]
  <2> SUFFICES ASSUME NEW i \in 1 .. Len(jobs')
      PROVE  \/ i + 1 \in 2 .. Len(jobs) /\ jobs'[i] = jobs[i + 1]
             \/ i - (Len(jobs) - 1) \in 1 .. Len(n) /\ jobs'[i] = n[i - (Len(jobs) - 1)]
    OBVIOUS
  <2>1. CASE i \in 1 .. Len(q)
    BY <1>2, <1>4, <2>1
  <2>2. CASE i \in Len(q) + 1 .. Len(jobs')
    BY <1>2, <1>4, <2>2
  <2>3. QED
    BY <1>4, <2>1, <2>2
<1>8. Shifted(n)
  BY <1>2, <1>4, <1>5, <1>6, <1>7 DEF Shifted
<1>9. ASSUME jobs' # <<>>, IsWait(jobs'[1]) PROVE Len(jobs) > 1 /\ jobs'[1] = jobs[2]
  <2>1. 1 \in 1 .. Len(jobs')
    BY <1>4, <1>9
  <2>2. 1 \in 1 .. Len(q)
    BY <1>4, <1>9, <2>1
  <2>3. QED
    BY <1>2, <1>4, <2>2
<1>10. QED
  BY <1>8, <1>9

LEMMA MicroAddsNone ==
    ASSUME SessionInv, NEW k, Micro(k), jobs' = Tail(jobs)
    PROVE  /\ \E n \in Seq(Job) : Shifted(n) /\ Len(n) = 0
           /\ jobs' # <<>> /\ IsWait(jobs'[1]) =>
                Len(jobs) > 1 /\ jobs'[1] = jobs[2]
<1>1. Tail(jobs) \in Seq(Job)
  BY MicroFront
<1> DEFINE n == <<>>
<1>2. jobs' = Tail(jobs) \o n /\ n \in Seq(Job) /\ Paired(n) /\ Len(n) = 0
  BY <1>1, NoJob
<1> HIDE DEF n
<1>3. Len(n) > 0 => ~IsWait(n[1])
  BY <1>2
<1>4. QED
  BY <1>2, <1>3, MicroAdds

LEMMA MicroAddsOne ==
    ASSUME SessionInv, NEW k, Micro(k), NEW j \in Job, ~IsWait(j), jobs' = Append(Tail(jobs), j)
    PROVE  /\ \E n \in Seq(Job) : Shifted(n) /\ Len(n) = 1 /\ n[1] = j
           /\ jobs' # <<>> /\ IsWait(jobs'[1]) =>
                Len(jobs) > 1 /\ jobs'[1] = jobs[2]
<1>1. Tail(jobs) \in Seq(Job)
  BY MicroFront
<1> DEFINE n == <<j>>
<1>2. /\ jobs' = Tail(jobs) \o n /\ n \in Seq(Job) /\ Paired(n) /\ Len(n) = 1 /\ n[1] = j
  BY <1>1, OneJob, AppendIsConcat
<1> HIDE DEF n
<1>3. QED
  BY <1>2, MicroAdds

\* No reaction of a successful connection attempt is behind the first job.
LEMMA ConnLeft ==
    ASSUME SessionInv, NEW k, Micro(k), NEW n \in Seq(Job), Shifted(n),
           \A i \in 1 .. Len(n) : n[i].job # "conn"
    PROVE  /\ \A i \in At("conn")' : jobs'[i].res # "ok"
           /\ aborts = 0 => At("conn")' = {}
<1>1. ASSUME NEW i \in At("conn")' PROVE i + 1 \in At("conn") /\ i + 1 # 1 /\ jobs'[i] = jobs[i + 1]
  <2>1. i \in 1 .. Len(jobs') /\ jobs'[i].job = "conn"
    BY DEF At
  <2>2. i + 1 \in 2 .. Len(jobs) /\ jobs'[i] = jobs[i + 1]
    BY <2>1 DEF Shifted
  <2>3. Len(jobs) \in Nat
    BY DEF Shifted
  <2>4. QED
    BY <2>1, <2>2, <2>3 DEF At
<1>2. QED
  BY <1>1, MicroFront

LEMMA GoLeft ==
    ASSUME SessionInv, IInv', NEW n \in Seq(Job), Shifted(n),
           \A i \in At("go") : i # 1 => \A s \in jobs[i].calls : call'[s] = call[s],
           \A i \in 1 .. Len(n) : n[i].job = "go" => \A s \in n[i].calls :
              /\ call[s].pc # "go" /\ call'[s].pc = "go" /\ call'[s].c = n[i].c
              /\ \A h \in 1 .. Len(n) : h = i
    PROVE  GoJobs'
<1> SUFFICES ASSUME NEW i \in At("go")', NEW s \in jobs'[i].calls
    PROVE  /\ call'[s].pc = "go" /\ call'[s].c = jobs'[i].c
           /\ \A h \in At("go")' : s \in jobs'[h].calls => i = h
  BY DEF GoJobs
<1>1. \A h \in At("go")' :
        \/ h + 1 \in At("go") /\ h + 1 # 1 /\ jobs'[h] = jobs[h + 1]
        \/ h - (Len(jobs) - 1) \in 1 .. Len(n) /\ jobs'[h] = n[h - (Len(jobs) - 1)]
  BY DEF At, Shifted
<1>2. Len(jobs) \in Nat /\ \A h \in At("go")' : h \in Int /\ jobs'[h].job = "go"
  BY DEF At, Shifted
<1>3. CASE i + 1 \in At("go") /\ i + 1 # 1 /\ jobs'[i] = jobs[i + 1]
  <2>1. /\ call[s].pc = "go" /\ call[s].c = jobs[i + 1].c /\ call'[s] = call[s]
        /\ \A h \in At("go") : s \in jobs[h].calls => i + 1 = h
    BY <1>3 DEF SessionInv, QueueInv, GoJobs
  <2>2. \A h \in 1 .. Len(n) : n[h].job = "go" => s \notin n[h].calls
    BY <2>1
  <2>3. ASSUME NEW h \in At("go")', s \in jobs'[h].calls PROVE i = h
    <3>1. h + 1 = i + 1
      BY <1>1, <1>2, <2>1, <2>2, <2>3
    <3>2. QED
      BY <1>2, <3>1
  <2>4. QED
    BY <1>3, <2>1, <2>3
<1>4. CASE i - (Len(jobs) - 1) \in 1 .. Len(n) /\ jobs'[i] = n[i - (Len(jobs) - 1)]
  <2>1. /\ call[s].pc # "go" /\ call'[s].pc = "go" /\ call'[s].c = jobs'[i].c
        /\ \A h \in 1 .. Len(n) : h = i - (Len(jobs) - 1)
    BY <1>2, <1>4
  <2>2. \A h \in At("go") : s \notin jobs[h].calls
    BY <2>1 DEF SessionInv, QueueInv, GoJobs
  <2>3. ASSUME NEW h \in At("go")', s \in jobs'[h].calls PROVE i = h
    <3>1. h - (Len(jobs) - 1) = i - (Len(jobs) - 1)
      BY <1>1, <2>1, <2>2, <2>3
    <3>2. QED
      BY <1>2, <3>1
  <2>4. QED
    BY <2>1, <2>3
<1>5. QED
  BY <1>1, <1>3, <1>4

LEMMA PingLeft ==
    ASSUME SessionInv, NEW n \in Seq(Job), Shifted(n),
           \A i \in 1 .. Len(n) : n[i].job \in {"ping", "verified"} =>
              /\ conns'[n[i].c].ping # "none"
              /\ n[i].job = "verified" /\ n[i].res # "failed" => n[i].to = n[i].c,
           \A d \in Conns : conns[d].ping # "none" => conns'[d].ping # "none"
    PROVE  PingJobs'
<1> SUFFICES ASSUME NEW i \in Verifications'
    PROVE  /\ conns'[jobs'[i].c].ping # "none"
           /\ jobs'[i].job = "verified" /\ jobs'[i].res # "failed" => jobs'[i].to = jobs'[i].c
  BY DEF PingJobs
<1>1. i \in 1 .. Len(jobs') /\ jobs'[i].job \in {"ping", "verified"}
  BY DEF Verifications, At
<1>2. CASE i + 1 \in 2 .. Len(jobs) /\ jobs'[i] = jobs[i + 1]
  <2>1. i + 1 \in Verifications /\ i + 1 \in 1 .. Len(jobs)
    BY <1>1, <1>2 DEF Verifications, At, Shifted
  <2>2. jobs[i + 1].c \in Conns
    BY <1>1, <1>2, <2>1, JobConn DEF SessionInv, IInv, TypeOK
  <2>3. QED
    BY <1>2, <2>1, <2>2 DEF SessionInv, QueueInv, PingJobs
<1>3. CASE i - (Len(jobs) - 1) \in 1 .. Len(n) /\ jobs'[i] = n[i - (Len(jobs) - 1)]
  BY <1>1, <1>3
<1>4. QED
  BY <1>1, <1>2, <1>3 DEF Shifted

LEMMA BegunLeft ==
    ASSUME SessionInv, NEW n \in Seq(Job), Shifted(n),
           \A d \in Conns : conns'[d].life = "unused" => conns[d].life = "unused",
           \A i \in 1 .. Len(n) :
              n[i].job = "verified" /\ n[i].res = "failed" => conns'[n[i].to].life # "unused",
           \A d \in Conns : mgr' = Connecting(d) => mgr = Connecting(d) \/ conns'[d].life # "unused"
    PROVE  Begun'
<1>1. \A d \in Conns : mgr' = Connecting(d) => conns'[d].life # "unused"
  BY DEF SessionInv, StateInv, Begun
<1> SUFFICES ASSUME NEW i \in 1 .. Len(jobs'), jobs'[i].job = "verified", jobs'[i].res = "failed"
    PROVE  conns'[jobs'[i].to].life # "unused"
  BY <1>1 DEF Begun
<1>2. CASE i + 1 \in 2 .. Len(jobs) /\ jobs'[i] = jobs[i + 1]
  <2>1. i + 1 \in 1 .. Len(jobs)
    BY <1>2 DEF Shifted
  <2>2. jobs[i + 1].to \in Conns
    BY <1>2, <2>1, JobConn DEF SessionInv, IInv, TypeOK, At
  <2>3. QED
    BY <1>2, <2>1, <2>2 DEF SessionInv, StateInv, Begun
<1>3. CASE i - (Len(jobs) - 1) \in 1 .. Len(n) /\ jobs'[i] = n[i - (Len(jobs) - 1)]
  BY <1>3
<1>4. QED
  BY <1>2, <1>3 DEF Shifted

\* A job that moves calls but neither the manager nor a promise.
LEMMA RestStep ==
    ASSUME SessionInv, IInv', NEW k \in {"conn-wait", "verified-wait", "go", "user"}, Micro(k),
           mgr' = mgr, aborts' = aborts, dead' = dead,
           \A d \in Conns : /\ conns'[d].life = conns[d].life /\ conns'[d].prom = conns[d].prom
                            /\ conns'[d].ping = conns[d].ping /\ conns'[d].lst = conns[d].lst
                            /\ conns[d].life \in {"unused", "connecting"} => conns'[d] = conns[d]
                            /\ Attended(conns[d]) => Attended(conns'[d]),
           \A d \in Conns : Used(d)' => Used(d),
           StreamsCounted',
           NEW n \in Seq(Job), Shifted(n), ~(jobs' # <<>> /\ IsWait(jobs'[1])),
           \A i \in 1 .. Len(n) : n[i].job \in {"go", "user"},
           \A i \in At("go") : i # 1 => \A s \in jobs[i].calls : call'[s] = call[s],
           \A i \in 1 .. Len(n) : n[i].job = "go" => \A s \in n[i].calls :
              /\ call[s].pc # "go" /\ call'[s].pc = "go" /\ call'[s].c = n[i].c
              /\ \A h \in 1 .. Len(n) : h = i,
           Placed',
           \A s \in Calls : call'[s].pc = "conn" =>
              \/ mgr = Connecting(call'[s].c)
              \/ call'[s] = call[s] /\ ~(k = "conn-wait" /\ call[s].c = jobs[1].c)
    PROVE  SessionInv'
<1>1. /\ jobs \in Seq(Job) /\ jobs # <<>> /\ Len(jobs) \in Nat \ {0} /\ 1 \in 1 .. Len(jobs)
      /\ jobs[1].job = k
      /\ aborts = 0 => ConnJobs /\ VerifyJobs /\ PingsAwaited /\ ConnectingAwaited
  BY MicroFront
<1>2. \A i \in 1 .. Len(n) : n[i].job \notin {"conn", "ping", "verified", "conn-wait"}
  OBVIOUS
<1>3. /\ \A i \in At("conn")' : jobs'[i].res # "ok"
      /\ aborts = 0 => At("conn")' = {}
  <2>1. \A i \in 1 .. Len(n) : n[i].job # "conn"
    BY <1>2
  <2>2. QED
    BY <2>1, ConnLeft
<1>4. QueueInv'
  <2>1. FrontWait'
    BY DEF FrontWait, IsWait
  <2>2. PingJobs'
    BY <1>2, PingLeft
  <2>3. GoJobs'
    BY GoLeft
  <2>4. ConnectedFirst'
    BY <1>3 DEF ConnectedFirst
  <2>5. Paired(jobs)'
    BY DEF Shifted
  <2>6. QED
    BY <2>1, <2>2, <2>3, <2>4, <2>5 DEF QueueInv
<1>5. StateInv'
  <2>1. ConnsOK'
    BY DEF SessionInv, StateInv, ConnsOK, ConnOK
  <2>2. Begun'
    BY <1>2, BegunLeft
  <2>3. UsedEstablished'
    BY <1>3, UseKept
  <2>4. UnverifiedAttended'
    BY DEF SessionInv, StateInv, UnverifiedAttended
  <2>5. QED
    BY <2>1, <2>2, <2>3, <2>4 DEF StateInv
<1>6. aborts = 0 => ConnectingAwaited' /\ \A d \in Conns : mgr = Connecting(d) => Attempted(d)
  <2>1. aborts = 0 => \A d \in Conns : mgr = Connecting(d) => Attempted(d)
    BY <1>1 DEF ConnectingAwaited
  <2>2. QED
    BY <2>1 DEF ConnectingAwaited, Attempted
<1>7. Unaborted'
  <2> SUFFICES ASSUME aborts = 0
      PROVE  ConnJobs' /\ VerifyJobs' /\ PingsAwaited' /\ ConnectingAwaited'
    BY DEF Unaborted
  <2>1. ConnJobs'
    BY <1>3 DEF ConnJobs
  <2>2. ASSUME NEW i \in Verifications'
        PROVE  i + 1 \in Verifications /\ jobs'[i] = jobs[i + 1] /\ i \in Int
    <3>1. i \in 1 .. Len(jobs') /\ jobs'[i].job \in {"ping", "verified"}
      BY DEF Verifications, At
    <3>2. i + 1 \in 2 .. Len(jobs) /\ jobs'[i] = jobs[i + 1]
      BY <1>2, <3>1 DEF Shifted
    <3>3. QED
      BY <1>1, <3>1, <3>2 DEF Verifications, At
  <2>3. VerifyJobs'
    <3> SUFFICES ASSUME NEW i \in Verifications'
        PROVE  /\ \A j \in Verifications' : i = j
               /\ mgr' = Verifying(jobs'[i].c)
               /\ conns'[jobs'[i].c].ping = "settled"
               /\ jobs'[i].res # "ok" => ~Alive(conns'[jobs'[i].c])
               /\ jobs'[i].job = "verified" /\ jobs'[i].res = "failed" =>
                     conns'[jobs'[i].to].life = "connecting" /\ "connect" \in conns'[jobs'[i].to].lst
      BY DEF VerifyJobs
    <3>1. i + 1 \in Verifications /\ jobs'[i] = jobs[i + 1] /\ i \in Int
      BY <2>2
    <3>2. \A j \in Verifications' : i = j
      <4> SUFFICES ASSUME NEW j \in Verifications' PROVE i = j
        OBVIOUS
      <4>1. j + 1 \in Verifications /\ j \in Int
        BY <2>2
      <4>2. i + 1 = j + 1
        BY <1>1, <3>1, <4>1 DEF VerifyJobs
      <4>3. QED
        BY <3>1, <4>1, <4>2
    <3>3. jobs[i + 1].c \in Conns /\ (jobs[i + 1].job = "verified" => jobs[i + 1].to \in Conns)
      BY <1>1, <3>1, JobConn DEF Verifications, At
    <3>4. QED
      BY <1>1, <3>1, <3>2, <3>3 DEF VerifyJobs, Alive
  <2>4. PingsAwaited'
    BY <1>1 DEF PingsAwaited, PingUnsettled
  <2>5. QED
    BY <1>6, <2>1, <2>3, <2>4
<1>8. SingleConnection'
  <2> SUFFICES ASSUME NEW d \in Conns, aborts = 0, conns[d].life \in {"connecting", "open"}, mgr.c # d
      PROVE  \E i \in 1 .. Len(jobs') : jobs'[i].job = "verified" /\ jobs'[i].to = d
    BY DEF SingleConnection
  <2>1. PICK i \in 1 .. Len(jobs) : jobs[i].job = "verified" /\ jobs[i].to = d
    BY DEF SessionInv, PromiseInv, SingleConnection
  <2>2. i \in 2 .. Len(jobs)
    BY <1>1, <2>1
  <2>3. QED
    BY <2>1, <2>2 DEF Shifted
<1>9. NoStrandedCall'
  <2> SUFFICES ASSUME NEW s \in Calls, aborts = 0, call'[s].pc = "conn", ~Attempted(call'[s].c)
      PROVE  \E i \in 1 .. Len(jobs') : jobs'[i].job = "conn-wait" /\ jobs'[i].c = call'[s].c
    BY DEF NoStrandedCall, Attempted, Placed
  <2>1. call'[s].c \in Conns
    BY DEF Placed
  <2>2. mgr # Connecting(call'[s].c)
    BY <1>6, <2>1
  <2>3. call'[s] = call[s] /\ ~(k = "conn-wait" /\ call[s].c = jobs[1].c)
    BY <2>2
  <2>4. PICK i \in 1 .. Len(jobs) : jobs[i].job = "conn-wait" /\ jobs[i].c = call[s].c
    BY <2>3 DEF SessionInv, PromiseInv, NoStrandedCall, Attempted
  <2>5. i \in 2 .. Len(jobs)
    BY <1>1, <2>3, <2>4
  <2>6. jobs'[i - 1] = jobs[i] /\ i - 1 \in 1 .. Len(jobs')
    BY <2>5 DEF Shifted
  <2>7. jobs'[i - 1].job = "conn-wait" /\ jobs'[i - 1].c = call'[s].c
    BY <2>3, <2>4, <2>6
  <2>8. QED
    BY <2>6, <2>7
<1>10. NoSpin'
  BY DEF SessionInv, PromiseInv, NoSpin
<1>11. QED
  BY <1>4, <1>5, <1>7, <1>8, <1>9, <1>10 DEF SessionInv, PromiseInv

LEMMA RunUserKeeps ==
    ASSUME ConfigAssumption, SessionInv, IInv', RunUser
    PROVE  SessionInv'
<1>1. Micro("user") /\ jobs' = Tail(jobs) /\ UNCHANGED <<mgr, conns, call, aborts, dead>>
  BY DEF RunUser
<1>2. /\ \E n \in Seq(Job) : Shifted(n) /\ Len(n) = 0
      /\ jobs' # <<>> /\ IsWait(jobs'[1]) => Len(jobs) > 1 /\ jobs'[1] = jobs[2]
  BY <1>1, MicroAddsNone
<1>3. PICK n \in Seq(Job) : Shifted(n) /\ Len(n) = 0
  BY <1>2
<1>4. ~(jobs' # <<>> /\ IsWait(jobs'[1]))
  <2>1. Len(jobs) > 1 => ~IsWait(jobs[2])
    BY <1>1, NextFront
  <2>2. QED
    BY <1>2, <2>1
<1>5. \A i \in 1 .. Len(n) : FALSE
  BY <1>3
<1>6. \A d \in Conns : Used(d)' => Used(d)
  BY <1>1 DEF Used
<1>7. StreamsCounted' /\ Placed'
  BY <1>1, CountKept DEF SessionInv, StateInv, Placed
<1>8. \A s \in Calls : call'[s].pc = "conn" => call'[s] = call[s] /\ "user" # "conn-wait"
  BY <1>1
<1>9. QED
  BY <1>1, <1>3, <1>4, <1>5, <1>6, <1>7, <1>8, RestStep

LEMMA RunGoKeeps ==
    ASSUME ConfigAssumption, SessionInv, IInv', RunGo
    PROVE  SessionInv'
<1> DEFINE j == Head(jobs)
           c == j.c
           R == {r \in j.calls : call[r].kind = "request"}
           usable == conns[c].life = "open"
           k == RegisterRequests(conns[c], Cardinality(R))
<1>1. /\ Micro("go") /\ jobs' = Append(Tail(jobs), UserJob)
      /\ UNCHANGED <<mgr, aborts, dead>>
      /\ call' = [r \in Calls |-> IF r \notin j.calls THEN call[r]
                                  ELSE [call[r] EXCEPT !.pc = IF r \notin R THEN "done"
                                                              ELSE IF usable THEN "stream" ELSE "failed"]]
      /\ conns' = IF usable THEN [conns EXCEPT ![c] = k] ELSE conns
  BY DEF RunGo
<1>2. /\ jobs \in Seq(Job) /\ Len(jobs) \in Nat \ {0} /\ 1 \in 1 .. Len(jobs) /\ j = jobs[1]
      /\ jobs[1].job = "go" /\ c \in Conns
  <2>1. /\ jobs \in Seq(Job) /\ Len(jobs) \in Nat \ {0} /\ 1 \in 1 .. Len(jobs) /\ j = jobs[1]
        /\ jobs[1].job = "go"
    BY <1>1, MicroFront
  <2>2. jobs[1].c \in Conns
    BY <2>1, JobConn
  <2>3. QED
    BY <2>1, <2>2
<1>3. /\ conns \in [Conns -> Conn] /\ call \in [Calls -> Call] /\ IsFiniteSet(Calls)
      /\ StreamsCounted /\ Placed /\ conns[c] \in Conn
  BY <1>2 DEF SessionInv, IInv, TypeOK, StateInv, ConfigAssumption
<1>4. /\ j.calls \subseteq Calls
      /\ \A r \in j.calls : call[r].pc = "go" /\ call[r].c = c
      /\ \A i \in At("go") : i # 1 => \A s \in jobs[i].calls : s \notin j.calls
  <2>1. 1 \in At("go")
    BY <1>2 DEF At
  <2>2. QED
    BY <1>2, <2>1, JobConn DEF SessionInv, QueueInv, GoJobs
<1> HIDE DEF j, k
<1>5. \A s \in Calls : IF s \notin j.calls THEN call'[s] = call[s]
        ELSE /\ call'[s].c = c /\ call'[s].pc \in {"done", "stream", "failed"}
             /\ call'[s].pc = "stream" <=> (s \in R /\ usable)
  <2> SUFFICES ASSUME NEW s \in Calls, s \in j.calls
      PROVE  /\ call'[s].c = c /\ call'[s].pc \in {"done", "stream", "failed"}
             /\ call'[s].pc = "stream" <=> (s \in R /\ usable)
    BY <1>1
  <2>1. call'[s] = [call[s] EXCEPT !.pc = IF s \notin R THEN "done"
                                          ELSE IF usable THEN "stream" ELSE "failed"]
    BY <1>1
  <2>2. call[s] \in Call
    BY <1>3
  <2>3. call'[s].c = call[s].c
    BY <2>1, <2>2 DEF Call
  <2>4. call'[s].pc = IF s \notin R THEN "done" ELSE IF usable THEN "stream" ELSE "failed"
    BY <2>1, <2>2 DEF Call
  <2> HIDE DEF R, usable
  <2>5. QED
    BY <1>4, <2>3, <2>4
<1>6. R \subseteq Calls /\ IsFiniteSet(R) /\ Cardinality(R) \in Nat
  BY <1>3, <1>4, FS_Subset, FS_CardinalityType
<1> DEFINE n0 == Cardinality(R)
<1>7. conns[c].streams \in Nat
  <2>1. IsFiniteSet(StreamsOf(c))
    BY <1>3, FS_Subset DEF StreamsOf
  <2>2. QED
    BY <1>2, <1>3, <2>1, FS_CardinalityType DEF StreamsCounted
<1>8. /\ k.life = conns[c].life /\ k.prom = conns[c].prom /\ k.ping = conns[c].ping
      /\ k.lst = conns[c].lst /\ k.streams = conns[c].streams + n0
      /\ Attended(conns[c]) => Attended(k)
  <2> DEFINE a == conns[c]
             k1 == [a EXCEPT !.streams = @ + n0]
  <2>1. /\ k1 \in Conn /\ k1.life = a.life /\ k1.prom = a.prom /\ k1.ping = a.ping
        /\ k1.lst = a.lst /\ k1.streams = a.streams + n0 /\ k1.tmr = a.tmr
    BY <1>3, <1>6 DEF Conn
  <2>2. k = (IF n0 > 0 /\ a.streams = 0 THEN StopIdleTimeout(ResetPingInterval(k1)) ELSE k1)
    BY DEF k, RegisterRequests
  <2> HIDE DEF k1
  <2>3. CASE n0 > 0 /\ a.streams = 0
    <3> DEFINE k2 == ResetPingInterval(k1)
    <3>1. k2 \in Conn /\ Same(k1, k2) /\ k2.life = k1.life
      BY <2>1, OpsType, TimerOps
    <3> HIDE DEF k2
    <3>2. LET k3 == StopIdleTimeout(k2)
          IN  /\ k3.life = k2.life /\ k3.prom = k2.prom /\ k3.ping = k2.ping /\ k3.lst = k2.lst
              /\ k3.streams = k2.streams
      BY <3>1 DEF Conn, StopIdleTimeout
    <3>3. k = StopIdleTimeout(k2)
      BY <2>2, <2>3 DEF k2
    <3>4. k.streams # 0
      BY <1>7, <1>6, <2>1, <2>3, <3>1, <3>2, <3>3 DEF Same
    <3>5. QED
      BY <2>1, <3>1, <3>2, <3>3, <3>4 DEF Same, Attended
  <2>4. CASE ~(n0 > 0 /\ a.streams = 0)
    <3>1. k = k1
      BY <2>2, <2>4
    <3>2. k1.streams = 0 => a.streams = 0
      BY <1>6, <1>7, <2>1
    <3>3. QED
      BY <2>1, <3>1, <3>2 DEF Attended
  <2>5. QED
    BY <2>3, <2>4
<1> HIDE DEF usable, R
<1>9. \A d \in Conns : conns'[d] = (IF usable /\ d = c THEN k ELSE conns[d])
  BY <1>1, <1>2, <1>3
<1>10. StreamsCounted'
  <2> SUFFICES ASSUME NEW d \in Conns PROVE conns'[d].streams = Cardinality(StreamsOf(d)')
    BY DEF StreamsCounted
  <2>1. conns[d].streams = Cardinality(StreamsOf(d)) /\ IsFiniteSet(StreamsOf(d))
    BY <1>3, FS_Subset DEF StreamsCounted, StreamsOf
  <2>2. CASE usable /\ d = c
    <3>1. StreamsOf(d)' = StreamsOf(d) \cup R
      BY <1>4, <1>5, <1>6, <2>2 DEF StreamsOf, Streaming, R
    <3>2. StreamsOf(d) \cap R = {}
      BY <1>4 DEF StreamsOf, Streaming, R
    <3>3. Cardinality(StreamsOf(d) \cup R) = Cardinality(StreamsOf(d)) + Cardinality(R) - Cardinality({})
      BY <1>6, <2>1, <3>2, FS_Union
    <3>4. Cardinality({}) = 0
      BY FS_EmptySet
    <3>5. Cardinality(StreamsOf(d) \cup R) = Cardinality(StreamsOf(d)) + Cardinality(R)
      BY <1>6, <2>1, <3>3, <3>4, FS_CardinalityType
    <3>6. QED
      BY <1>8, <1>9, <2>1, <2>2, <3>1, <3>5
  <2>3. CASE ~(usable /\ d = c)
    <3>1. StreamsOf(d)' = StreamsOf(d)
      BY <1>4, <1>5, <2>3 DEF StreamsOf, Streaming
    <3>2. QED
      BY <1>9, <2>1, <2>3, <3>1
  <2>4. QED
    BY <2>2, <2>3
<1>11. /\ \E n \in Seq(Job) : Shifted(n) /\ Len(n) = 1 /\ n[1] = UserJob
       /\ jobs' # <<>> /\ IsWait(jobs'[1]) => Len(jobs) > 1 /\ jobs'[1] = jobs[2]
  <2>1. UserJob \in Job /\ ~IsWait(UserJob)
    BY JobTypes DEF UserJob, J, IsWait
  <2>2. QED
    BY <1>1, <2>1, MicroAddsOne
<1>12. PICK n \in Seq(Job) : Shifted(n) /\ Len(n) = 1 /\ n[1] = UserJob
  BY <1>11
<1>13. ~(jobs' # <<>> /\ IsWait(jobs'[1]))
  <2>1. Len(jobs) > 1 => ~IsWait(jobs[2])
    BY <1>1, NextFront
  <2>2. QED
    BY <1>11, <2>1
<1>14. \A i \in 1 .. Len(n) : n[i].job = "user"
  <2>1. \A i \in 1 .. 1 : i = 1
    OBVIOUS
  <2>2. QED
    BY <1>12, <2>1 DEF UserJob, J
<1>15. \A d \in Conns : /\ conns'[d].life = conns[d].life /\ conns'[d].prom = conns[d].prom
                        /\ conns'[d].ping = conns[d].ping /\ conns'[d].lst = conns[d].lst
                        /\ conns[d].life \in {"unused", "connecting"} => conns'[d] = conns[d]
                        /\ Attended(conns[d]) => Attended(conns'[d])
  BY <1>8, <1>9 DEF usable
<1>16. \A d \in Conns : Used(d)' => Used(d)
  BY <1>1, <1>4, <1>5, <1>15 DEF Used
<1>17. Placed'
  BY <1>2, <1>3, <1>5 DEF Placed
<1>18. \A i \in At("go") : i # 1 => \A s \in jobs[i].calls : call'[s] = call[s]
  <2>1. \A i \in At("go") : jobs[i].calls \subseteq Calls
    BY <1>2, JobConn DEF At
  <2>2. QED
    BY <1>4, <1>5, <2>1
<1>19. \A s \in Calls : call'[s].pc = "conn" => call'[s] = call[s] /\ "go" # "conn-wait"
  BY <1>5
<1>20. /\ \A i \in 1 .. Len(n) : n[i].job \in {"go", "user"}
       /\ \A i \in 1 .. Len(n) : n[i].job = "go" => FALSE
  BY <1>14
<1>21. QED
  BY <1>1, <1>10, <1>12, <1>13, <1>15, <1>16, <1>17, <1>18, <1>19, <1>20, RestStep

LEMMA RunWaitKeeps ==
    ASSUME ConfigAssumption, SessionInv, IInv', RunConnWait \/ RunVerifiedWait
    PROVE  SessionInv'
<1> DEFINE j == Head(jobs)
           Woken(pc) == {r \in Calls : call[r].pc = pc /\ call[r].c = j.c}
<1>1. PICK k \in {"conn-wait", "verified-wait"}, pc \in Waiting :
        RunWait(k, pc) /\ (k = "conn-wait" => pc = "conn") /\ (k = "verified-wait" => pc = "verify")
  BY DEF RunConnWait, RunVerifiedWait, Waiting
<1> DEFINE S == Woken(pc)
           c == mgr.c
           g == [J("go", c, "ok") EXCEPT !.calls = S]
<1>2. Micro(k) /\ UNCHANGED <<mgr, conns, aborts>>
  BY <1>1 DEF RunWait
<1>3. /\ jobs \in Seq(Job) /\ jobs # <<>> /\ Len(jobs) \in Nat \ {0} /\ 1 \in 1 .. Len(jobs)
      /\ j = jobs[1] /\ jobs[1].job = k /\ jobs[1] \in Job /\ Tail(jobs) \in Seq(Job)
  BY <1>2, MicroFront
<1>4. /\ conns \in [Conns -> Conn] /\ call \in [Calls -> Call] /\ StreamsCounted /\ Placed
      /\ mgr \in Mgr
  BY DEF SessionInv, IInv, TypeOK, StateInv
<1>5. jobs[1].c \in Conns
  BY <1>3, JobConn
<1>6. jobs[1].res = "ok" => mgr.t = "ready"
  BY <1>3 DEF SessionInv, QueueInv, FrontWait
<1>7. jobs[1].job = "verified-wait" /\ jobs[1].res = "failed" => mgr.t = "connecting"
  BY <1>3 DEF SessionInv, QueueInv, FrontWait
<1>8. Fulfilled(j) => \/ mgr.t = "ready" \/ mgr.t = "connecting"
  BY <1>3, <1>6, <1>7 DEF Fulfilled
<1> HIDE DEF j
<1>9. S \subseteq Calls /\ \A r \in S : call[r].pc \in Waiting
  BY <1>1 DEF Waiting
<1>10. \A r \in Calls : call[r].pc = "conn" /\ call[r].c = jobs[1].c /\ k = "conn-wait" => r \in S
  BY <1>1, <1>3
<1> HIDE DEF S
\* Every outcome moves the calls of the promise, and adds one job or none.
<1>11. PICK n \in Seq(Job) :
         /\ Shifted(n)
         /\ jobs' # <<>> /\ IsWait(jobs'[1]) => Len(jobs) > 1 /\ jobs'[1] = jobs[2]
         /\ \/ \A i \in 1 .. Len(n) : n[i].job = "user"
            \/ /\ \A i \in 1 .. Len(n) : n[i] = g /\ \A h \in 1 .. Len(n) : h = i
               /\ \A r \in S : call'[r].pc = "go" /\ call'[r].c = c
               /\ g.job = "go" /\ g.calls = S /\ g.c = c
         /\ dead' = dead
         /\ \A r \in Calls : r \notin S => call'[r] = call[r]
         /\ \/ \A r \in S : call'[r].pc = "failed" /\ call'[r].c = call[r].c
            \/ /\ mgr = Ready(c) /\ c \in Conns
               /\ \A r \in S : call'[r].pc = "go" /\ call'[r].c = c
            \/ /\ mgr = Connecting(c) /\ c \in Conns
               /\ \A r \in S : call'[r].pc = "conn" /\ call'[r].c = c
  <2>1. CASE ~Fulfilled(j)
    <3>1. /\ call' = [r \in Calls |-> IF r \in S THEN [call[r] EXCEPT !.pc = "failed"] ELSE call[r]]
          /\ jobs' = Append(Tail(jobs), UserJob) /\ dead' = dead
      BY <1>1, <2>1 DEF RunWait, S, j
    <3>2. UserJob \in Job /\ ~IsWait(UserJob) /\ UserJob.job = "user"
      BY JobTypes DEF UserJob, J, IsWait
    <3>3. /\ \E n \in Seq(Job) : Shifted(n) /\ Len(n) = 1 /\ n[1] = UserJob
          /\ jobs' # <<>> /\ IsWait(jobs'[1]) => Len(jobs) > 1 /\ jobs'[1] = jobs[2]
      BY <1>2, <3>1, <3>2, MicroAddsOne
    <3>4. PICK n \in Seq(Job) : Shifted(n) /\ Len(n) = 1 /\ n[1] = UserJob
      BY <3>3
    <3>5. \A i \in 1 .. Len(n) : n[i].job = "user"
      <4>1. \A i \in 1 .. 1 : i = 1
        OBVIOUS
      <4>2. QED
        BY <3>2, <3>4, <4>1
    <3>6. \A r \in Calls : /\ r \notin S => call'[r] = call[r]
                           /\ r \in S => call'[r].pc = "failed" /\ call'[r].c = call[r].c
      BY <1>4, <3>1 DEF Call
    <3>7. \A r \in S : call'[r].pc = "failed" /\ call'[r].c = call[r].c
      BY <1>9, <3>6
    <3>8. QED
      BY <3>1, <3>3, <3>4, <3>5, <3>6, <3>7
  <2>2. CASE Fulfilled(j) /\ mgr.t = "ready"
    <3>1. /\ call' = [r \in Calls |-> IF r \in S THEN [call[r] EXCEPT !.pc = "go", !.c = c] ELSE call[r]]
          /\ jobs' = Append(Tail(jobs), g) /\ dead' = dead
      BY <1>1, <2>2 DEF RunWait, Resume, S, j
    <3>2. c \in Conns /\ mgr = Ready(c)
      BY <1>4, <2>2, MgrStates
    <3>3. g \in Job /\ ~IsWait(g) /\ g.job = "go" /\ g.calls = S /\ g.c = c
      <4>1. g \in Job
        BY <1>9, <3>2, JobTypes
      <4>2. g.job = "go" /\ g.calls = S /\ g.c = c
        BY DEF J
      <4>3. QED
        BY <4>1, <4>2 DEF IsWait
    <3> HIDE DEF g
    <3>4. /\ \E n \in Seq(Job) : Shifted(n) /\ Len(n) = 1 /\ n[1] = g
          /\ jobs' # <<>> /\ IsWait(jobs'[1]) => Len(jobs) > 1 /\ jobs'[1] = jobs[2]
      BY <1>2, <3>1, <3>3, MicroAddsOne
    <3>5. PICK n \in Seq(Job) : Shifted(n) /\ Len(n) = 1 /\ n[1] = g
      BY <3>4
    <3>6. \A i \in 1 .. Len(n) : n[i] = g /\ \A h \in 1 .. Len(n) : h = i
      <4>1. \A i \in 1 .. 1 : i = 1
        OBVIOUS
      <4>2. QED
        BY <3>5, <4>1
    <3>7. \A r \in Calls : /\ r \notin S => call'[r] = call[r]
                           /\ r \in S => call'[r].pc = "go" /\ call'[r].c = c
      BY <1>4, <3>1 DEF Call
    <3>8. \A r \in S : call'[r].pc = "go" /\ call'[r].c = c
      BY <1>9, <3>7
    <3>9. QED
      BY <3>1, <3>2, <3>3, <3>4, <3>5, <3>6, <3>7, <3>8
  <2>3. CASE Fulfilled(j) /\ mgr.t = "connecting"
    <3>1. /\ call' = [r \in Calls |-> IF r \in S THEN [call[r] EXCEPT !.pc = "conn", !.c = c] ELSE call[r]]
          /\ jobs' = Tail(jobs) /\ dead' = dead
      BY <1>1, <2>3 DEF RunWait, Resume, S, j
    <3>2. c \in Conns /\ mgr = Connecting(c)
      BY <1>4, <2>3 DEF Mgr, Connecting
    <3>3. /\ \E n \in Seq(Job) : Shifted(n) /\ Len(n) = 0
          /\ jobs' # <<>> /\ IsWait(jobs'[1]) => Len(jobs) > 1 /\ jobs'[1] = jobs[2]
      BY <1>2, <3>1, MicroAddsNone
    <3>4. PICK n \in Seq(Job) : Shifted(n) /\ Len(n) = 0
      BY <3>3
    <3>5. \A i \in 1 .. Len(n) : n[i].job = "user"
      BY <3>4
    <3>6. \A r \in Calls : /\ r \notin S => call'[r] = call[r]
                           /\ r \in S => call'[r].pc = "conn" /\ call'[r].c = c
      BY <1>4, <3>1 DEF Call
    <3>7. \A r \in S : call'[r].pc = "conn" /\ call'[r].c = c
      BY <1>9, <3>6
    <3>8. QED
      BY <3>1, <3>2, <3>3, <3>4, <3>5, <3>6, <3>7
  <2>4. QED
    BY <1>8, <2>1, <2>2, <2>3
<1> HIDE DEF g, c
<1>12. ~(jobs' # <<>> /\ IsWait(jobs'[1]))
  <2>1. Len(jobs) > 1 => ~IsWait(jobs[2])
    <3>1. k \notin {"conn", "verified"}
      OBVIOUS
    <3>2. QED
      BY <1>2, <3>1, NextFront
  <2>2. QED
    BY <1>11, <2>1
<1>13. Placed'
  <2>1. \A r \in S : call[r].pc # "new"
    BY <1>9 DEF Waiting
  <2>2. QED
    BY <1>4, <1>9, <1>11, <2>1 DEF Placed
<1>14. \A s \in Calls : call'[s].pc \in Streaming <=> call[s].pc \in Streaming
  BY <1>9, <1>11 DEF Streaming, Waiting
<1>15. StreamsCounted'
  <2>1. \A s \in Calls : call'[s].pc \in Streaming => call'[s].c = call[s].c
    BY <1>9, <1>11 DEF Streaming
  <2>2. QED
    BY <1>2, <1>4, <1>14, <2>1, CountKept
<1>16. \A d \in Conns : Used(d)' => Used(d)
  BY <1>2, <1>9, <1>11 DEF Used
<1>17. \A i \in 1 .. Len(n) : n[i].job \in {"go", "user"}
  BY <1>11
<1>18. \A i \in At("go") : \A s \in jobs[i].calls : call'[s] = call[s]
  <2>1. \A i \in At("go") : jobs[i].calls \subseteq Calls /\ \A s \in jobs[i].calls : call[s].pc = "go"
    BY <1>3, JobConn DEF SessionInv, QueueInv, GoJobs, At
  <2>2. QED
    BY <1>9, <1>11, <2>1 DEF Waiting
<1>19. \A i \in 1 .. Len(n) : n[i].job = "go" => \A s \in n[i].calls :
          /\ call[s].pc # "go" /\ call'[s].pc = "go" /\ call'[s].c = n[i].c
          /\ \A h \in 1 .. Len(n) : h = i
  BY <1>9, <1>11 DEF Waiting
<1>20. \A s \in Calls : call'[s].pc = "conn" =>
          \/ mgr = Connecting(call'[s].c)
          \/ call'[s] = call[s] /\ ~(k = "conn-wait" /\ call[s].c = jobs[1].c)
  <2> SUFFICES ASSUME NEW s \in Calls, call'[s].pc = "conn"
      PROVE  \/ mgr = Connecting(call'[s].c)
             \/ call'[s] = call[s] /\ ~(k = "conn-wait" /\ call[s].c = jobs[1].c)
    OBVIOUS
  <2>1. CASE s \in S
    BY <1>11, <2>1
  <2>2. CASE s \notin S
    BY <1>10, <1>11, <2>2
  <2>3. QED
    BY <2>1, <2>2
<1>21. QED
  BY <1>2, <1>11, <1>12, <1>13, <1>15, <1>16, <1>17, <1>18, <1>19, <1>20, RestStep

\* The job of the calls behind the first job is its own.
LEMMA BehindFront ==
    ASSUME SessionInv, NEW k, Micro(k), Len(jobs) > 1
    PROVE  /\ jobs[2].job = "conn-wait" => k = "conn" /\ Follows(jobs[1], jobs[2])
           /\ jobs[2].job = "verified-wait" => k = "verified" /\ Follows(jobs[1], jobs[2])
  BY MicroFront

\* The reaction of setState() to a promise, which moves the manager.
LEMMA MoveStep ==
    ASSUME SessionInv, IInv', NEW k \in {"conn", "verified"}, Micro(k), jobs' = Tail(jobs),
           call' = call, aborts' = aborts, dead' = dead,
           \A d \in Conns : /\ conns'[d].life = conns[d].life /\ conns'[d].prom = conns[d].prom
                            /\ conns'[d].ping = conns[d].ping /\ conns'[d].streams = conns[d].streams
                            /\ ConnOK(conns'[d]),
           FrontWait', UnverifiedAttended',
           \A d \in Conns : Used(d)' => conns[d].prom = "settled",
           \A d \in Conns : mgr' = Connecting(d) => mgr = Connecting(d) \/ conns'[d].life # "unused",
           aborts = 0 =>
              /\ \A i \in Verifications : i = 1
              /\ PingsAwaited' /\ ConnectingAwaited'
              /\ \A d \in Conns : conns[d].life \in {"connecting", "open"} => mgr'.c = d
              /\ \A d \in Conns : Attempted(d) => "connect" \in conns'[d].lst
    PROVE  SessionInv'
<1>1. /\ jobs \in Seq(Job) /\ jobs # <<>> /\ Len(jobs) \in Nat \ {0} /\ 1 \in 1 .. Len(jobs)
      /\ jobs[1].job = k
  BY MicroFront
<1>2. PICK n \in Seq(Job) : Shifted(n) /\ Len(n) = 0
  BY MicroAddsNone
<1>3. \A i \in 1 .. Len(n) : FALSE
  BY <1>2
<1>4. /\ \A i \in At("conn")' : jobs'[i].res # "ok"
      /\ aborts = 0 => At("conn")' = {}
  BY <1>2, <1>3, ConnLeft
<1>5. QueueInv'
  <2>1. PingJobs'
    BY <1>2, <1>3, PingLeft
  <2>2. GoJobs'
    BY <1>2, <1>3, GoLeft
  <2>3. ConnectedFirst'
    BY <1>4 DEF ConnectedFirst
  <2>4. Paired(jobs)'
    BY <1>2 DEF Shifted
  <2>5. QED
    BY <2>1, <2>2, <2>3, <2>4 DEF QueueInv
<1>6. StateInv'
  <2>1. ConnsOK'
    BY DEF ConnsOK
  <2>2. Begun'
    BY <1>2, <1>3, BegunLeft
  <2>3. Placed'
    BY DEF SessionInv, StateInv, Placed
  <2>4. UsedEstablished'
    BY <1>4 DEF UsedEstablished, Established
  <2>5. StreamsCounted'
    BY CountKept DEF SessionInv, StateInv
  <2>6. QED
    BY <2>1, <2>2, <2>3, <2>4, <2>5 DEF StateInv
<1>7. Unaborted'
  <2> SUFFICES ASSUME aborts = 0
      PROVE  ConnJobs' /\ VerifyJobs' /\ PingsAwaited' /\ ConnectingAwaited'
    BY DEF Unaborted
  <2>1. ConnJobs'
    BY <1>4 DEF ConnJobs
  <2>2. Verifications' = {}
    <3> SUFFICES ASSUME NEW i \in Verifications' PROVE FALSE
      OBVIOUS
    <3>1. i \in 1 .. Len(jobs') /\ jobs'[i].job \in {"ping", "verified"}
      BY DEF Verifications, At
    <3>2. i + 1 \in 2 .. Len(jobs) /\ jobs'[i] = jobs[i + 1]
      BY <1>2, <1>3, <3>1 DEF Shifted
    <3>3. i + 1 \in Verifications /\ i + 1 # 1
      BY <1>1, <3>1, <3>2 DEF Verifications, At
    <3>4. QED
      BY <3>3
  <2>3. VerifyJobs'
    BY <2>2 DEF VerifyJobs
  <2>4. QED
    BY <2>1, <2>3
<1>8. SingleConnection'
  BY DEF SingleConnection
<1>9. NoStrandedCall'
  <2> SUFFICES ASSUME NEW s \in Calls, aborts = 0, call[s].pc = "conn", ~Attempted(call[s].c)'
      PROVE  \E i \in 1 .. Len(jobs') : jobs'[i].job = "conn-wait" /\ jobs'[i].c = call[s].c
    BY DEF NoStrandedCall, Attempted
  <2>1. call[s].c \in Conns
    BY DEF SessionInv, StateInv, Placed
  <2>2. ~Attempted(call[s].c)
    BY <2>1 DEF Attempted
  <2>3. PICK i \in 1 .. Len(jobs) : jobs[i].job = "conn-wait" /\ jobs[i].c = call[s].c
    BY <2>2 DEF SessionInv, PromiseInv, NoStrandedCall, Attempted
  <2>4. i \in 2 .. Len(jobs)
    BY <1>1, <2>3
  <2>5. jobs'[i - 1] = jobs[i] /\ i - 1 \in 1 .. Len(jobs')
    BY <1>2, <2>4 DEF Shifted
  <2>6. QED
    BY <2>3, <2>5
<1>10. NoSpin'
  BY DEF SessionInv, PromiseInv, NoSpin
<1>11. QED
  BY <1>5, <1>6, <1>7, <1>8, <1>9, <1>10 DEF SessionInv, PromiseInv

LEMMA RunConnKeeps ==
    ASSUME ConfigAssumption, SessionInv, IInv', RunConn
    PROVE  SessionInv'
<1> DEFINE j == Head(jobs)
           c == j.c
           k == ReadyState(conns[c])
           cs == [conns EXCEPT ![c] = k]
<1>1. /\ Micro("conn") /\ jobs' = Tail(jobs) /\ UNCHANGED <<call, turn, aborts, dead>>
      /\ IF j.res = "ok" THEN SetState(cs, Ready(c)) ELSE SetState(conns, ClosedOrError(j.res))
  BY DEF RunConn
<1>2. /\ jobs \in Seq(Job) /\ jobs # <<>> /\ Len(jobs) \in Nat \ {0} /\ 1 \in 1 .. Len(jobs)
      /\ j = jobs[1] /\ jobs[1].job = "conn" /\ turn = FALSE
      /\ aborts = 0 => ConnJobs /\ VerifyJobs /\ PingsAwaited
  BY <1>1, MicroFront
<1>13. Len(jobs) > 1 => /\ jobs[2].job = "conn-wait" => Follows(jobs[1], jobs[2])
                       /\ jobs[2].job # "verified-wait"
  BY <1>1, BehindFront
<1>3. 1 \in At("conn") /\ c \in Conns
  BY <1>2, JobConn DEF At
<1> HIDE DEF j
<1>4. /\ TypeOK /\ conns \in [Conns -> Conn] /\ mgr \in Mgr /\ conns[c] \in Conn /\ ConnsOK /\ UsedEstablished
      /\ UnverifiedAttended /\ StreamsCounted /\ Placed
  BY <1>3 DEF SessionInv, IInv, TypeOK, StateInv
<1>5. \A d \in Conns : ConnOK(conns[d])
  BY <1>4 DEF ConnsOK
<1>6. aborts = 0 => mgr = Connecting(c) /\ conns[c].life # "connecting" /\ (j.res # "ok" => ~Alive(conns[c]))
  BY <1>2, <1>3 DEF ConnJobs
<1>7. aborts = 0 => Verifications = {}
  BY <1>2, <1>6 DEF VerifyJobs, Verifying, Connecting
<1>8. /\ jobs' # <<>> /\ jobs'[1].job = "conn-wait" => jobs'[1].res = j.res
      /\ jobs' # <<>> => jobs'[1].job # "verified-wait"
  BY <1>1, <1>2, <1>13, MicroAddsNone DEF IsWait, Follows
<1>9. aborts = 0 => /\ \A d \in Conns : ~PingUnsettled(conns[d])
                    /\ \A d \in Conns : conns[d].life \in {"connecting", "open"} => d = c
  <2> SUFFICES ASSUME aborts = 0, NEW d \in Conns
      PROVE  /\ ~PingUnsettled(conns[d])
             /\ conns[d].life \in {"connecting", "open"} => d = c
    OBVIOUS
  <2>1. ~PingUnsettled(conns[d])
    BY <1>2, <1>6 DEF PingsAwaited, Verifying, Connecting
  <2>2. conns[d].life \in {"connecting", "open"} => mgr.c = d
    BY <1>7 DEF SessionInv, PromiseInv, SingleConnection, Verifications, At
  <2>3. QED
    BY <1>6, <2>1, <2>2 DEF Connecting
<1>10. CASE j.res = "ok"
  <2>1. conns[c].life = "open" /\ conns[c].prom = "settled"
    BY <1>2, <1>3, <1>10 DEF SessionInv, QueueInv, ConnectedFirst
  <2>2. ~Established(c)
    BY <1>2, <1>3, <1>10 DEF Established
  <2>3. /\ ~Used(c) /\ mgr # Ready(c)
    BY <1>3, <1>4, <2>2 DEF UsedEstablished, Used
  <2>4. conns[c].streams = 0
    <3>1. StreamsOf(c) = {}
      BY <2>3 DEF Used, StreamsOf, Streaming
    <3>2. QED
      BY <1>3, <1>4, <3>1, FS_EmptySet DEF StreamsCounted
  <2>5. /\ k \in Conn /\ k.life = "open" /\ k.prom = "settled" /\ k.ping = conns[c].ping
        /\ k.streams = 0 /\ k.tmr = {"idle"} /\ "ready" \in k.lst
    <3>1. k \in Conn
      BY <1>4, OpsType
    <3>2. QED
      BY <1>4, <2>1, <3>1 DEF ReadyState, Conn
  <2> HIDE DEF k
  <2>6. cs \in [Conns -> Conn] /\ \A d \in Conns : cs[d] = (IF d = c THEN k ELSE conns[d])
    BY <1>3, <1>4, <2>5
  <2>7. SetState(cs, Ready(c)) /\ mgr' = Ready(c) /\ Ready(c) \in Mgr
    BY <1>1, <1>3, <1>10, MgrStates DEF SetState
  <2> HIDE DEF cs
  <2>8. \A d \in Conns :
          /\ Exited(cs[d], conns'[d])
          /\ d = c => conns'[d].tmr = cs[d].tmr /\ "ready" \in conns'[d].lst
          /\ mgr # Connecting(d) /\ "connect" \in cs[d].lst => "connect" \in conns'[d].lst
    BY <1>4, <2>3, <2>5, <2>6, <2>7, SetStateEffect
  <2>9. \A d \in Conns :
          /\ conns'[d].life = conns[d].life /\ conns'[d].prom = conns[d].prom
          /\ conns'[d].ping = conns[d].ping /\ conns'[d].streams = conns[d].streams
          /\ ConnOK(conns'[d])
    <3> SUFFICES ASSUME NEW d \in Conns
        PROVE  /\ conns'[d].life = conns[d].life /\ conns'[d].prom = conns[d].prom
               /\ conns'[d].ping = conns[d].ping /\ conns'[d].streams = conns[d].streams
               /\ ConnOK(conns'[d])
      OBVIOUS
    <3>1. CASE d = c
      BY <2>1, <2>4, <2>5, <2>6, <2>8, <3>1 DEF Exited, ConnOK
    <3>2. CASE d # c
      BY <1>5, <2>6, <2>8, <3>2 DEF Exited, ConnOK
    <3>3. QED
      BY <3>1, <3>2
  <2>10. FrontWait'
    BY <1>1, <1>2, <1>8, <1>10, <2>7 DEF FrontWait, Ready
  <2>11. \A d : mgr' = Ready(d) => d = c
    BY <2>7 DEF Ready
  <2>12. \A d : mgr' # Connecting(d) /\ mgr' # Verifying(d)
    BY <2>7 DEF Ready, Connecting, Verifying
  <2>13. UnverifiedAttended'
    <3>1. Attended(conns'[c])
      BY <1>3, <2>1, <2>5, <2>6, <2>8, <2>9 DEF Attended
    <3>2. QED
      BY <2>11, <3>1 DEF UnverifiedAttended
  <2>14. \A d \in Conns : Used(d)' => conns[d].prom = "settled"
    <3> SUFFICES ASSUME NEW d \in Conns, Used(d)', d # c PROVE conns[d].prom = "settled"
      BY <2>1
    <3>1. Used(d)
      BY <1>1, <2>9, <2>11, <2>12 DEF Used
    <3>2. QED
      BY <1>4, <3>1 DEF UsedEstablished, Established
  <2>15. aborts = 0 =>
           /\ \A i \in Verifications : i = 1
           /\ PingsAwaited' /\ ConnectingAwaited'
           /\ \A d \in Conns : conns[d].life \in {"connecting", "open"} => mgr'.c = d
           /\ \A d \in Conns : Attempted(d) => "connect" \in conns'[d].lst
    <3> SUFFICES ASSUME aborts = 0
        PROVE  /\ PingsAwaited' /\ ConnectingAwaited'
               /\ \A d \in Conns : conns[d].life \in {"connecting", "open"} => mgr'.c = d
               /\ \A d \in Conns : Attempted(d) => "connect" \in conns'[d].lst
      BY <1>7
    <3>1. PingsAwaited'
      BY <1>9, <2>9 DEF PingsAwaited, PingUnsettled
    <3>2. ConnectingAwaited'
      BY <2>12 DEF ConnectingAwaited
    <3>3. \A d \in Conns : conns[d].life \in {"connecting", "open"} => mgr'.c = d
      BY <1>9, <2>7 DEF Ready
    <3>4. ASSUME NEW d \in Conns, Attempted(d) PROVE "connect" \in conns'[d].lst
      <4>1. conns[d].life = "connecting" /\ "connect" \in conns[d].lst
        BY <3>4 DEF Attempted
      <4>2. d = c
        BY <1>9, <4>1
      <4>3. QED
        BY <1>6, <4>1, <4>2
    <3>5. QED
      BY <3>1, <3>2, <3>3, <3>4
  <2>16. QED
    BY <1>1, <2>9, <2>10, <2>12, <2>13, <2>14, <2>15, MoveStep
<1>11. CASE j.res # "ok"
  <2> DEFINE s == ClosedOrError(j.res)
  <2>1. SetState(conns, s) /\ mgr' = s
    BY <1>1, <1>11 DEF SetState
  <2>2. s \in Mgr /\ \A d : s # Ready(d) /\ s # Verifying(d) /\ s # Connecting(d)
    BY MgrStates DEF ClosedOrError, Closed, Errored, Ready, Verifying, Connecting
  <2> HIDE DEF s
  <2>3. \A d \in Conns : Exited(conns[d], conns'[d])
    BY <1>4, <2>1, <2>2, SetStateEffect
  <2>4. \A d \in Conns :
          /\ conns'[d].life = conns[d].life /\ conns'[d].prom = conns[d].prom
          /\ conns'[d].ping = conns[d].ping /\ conns'[d].streams = conns[d].streams
          /\ ConnOK(conns'[d])
    BY <1>5, <2>3 DEF Exited, ConnOK
  <2>5. FrontWait'
    BY <1>1, <1>2, <1>8, <1>11 DEF FrontWait
  <2>6. UnverifiedAttended'
    BY <2>1, <2>2 DEF UnverifiedAttended
  <2>7. \A d \in Conns : Used(d)' => conns[d].prom = "settled"
    <3> SUFFICES ASSUME NEW d \in Conns, Used(d)' PROVE conns[d].prom = "settled"
      OBVIOUS
    <3>1. Used(d)
      BY <1>1, <2>1, <2>2, <2>4 DEF Used
    <3>2. QED
      BY <1>4, <3>1 DEF UsedEstablished, Established
  <2>8. aborts = 0 => \A d \in Conns : conns[d].life \notin {"connecting", "open"}
    BY <1>6, <1>9, <1>11 DEF Alive
  <2>9. aborts = 0 =>
          /\ \A i \in Verifications : i = 1
          /\ PingsAwaited' /\ ConnectingAwaited'
          /\ \A d \in Conns : conns[d].life \in {"connecting", "open"} => mgr'.c = d
          /\ \A d \in Conns : Attempted(d) => "connect" \in conns'[d].lst
    BY <1>7, <1>9, <2>1, <2>2, <2>4, <2>8
       DEF PingsAwaited, PingUnsettled, ConnectingAwaited, Attempted
  <2>10. QED
    BY <1>1, <2>1, <2>2, <2>4, <2>5, <2>6, <2>7, <2>9, MoveStep
<1>12. QED
  BY <1>10, <1>11

LEMMA RunVerifiedKeeps ==
    ASSUME ConfigAssumption, SessionInv, IInv', RunVerified
    PROVE  SessionInv'
<1> DEFINE j == Head(jobs)
           c == j.c
           s == CASE j.res = "ok"     -> Ready(j.to)
                  [] j.res = "failed" -> Connecting(j.to)
                  [] OTHER            -> Errored
<1>1. /\ Micro("verified") /\ jobs' = Tail(jobs) /\ UNCHANGED <<call, turn, aborts, dead>>
      /\ SetState(conns, s)
  BY DEF RunVerified
<1>2. /\ jobs \in Seq(Job) /\ jobs # <<>> /\ Len(jobs) \in Nat \ {0} /\ 1 \in 1 .. Len(jobs)
      /\ j = jobs[1] /\ jobs[1].job = "verified" /\ turn = FALSE
      /\ aborts = 0 => VerifyJobs /\ PingsAwaited
  BY <1>1, MicroFront
<1>3. Len(jobs) > 1 => /\ jobs[2].job # "conn-wait"
                       /\ jobs[2].job = "verified-wait" => jobs[2].res = j.res
  BY <1>1, <1>2, BehindFront DEF Follows
<1>4. 1 \in Verifications /\ 1 \in At("verified") /\ c \in Conns /\ j.to \in Conns
  BY <1>2, JobConn DEF At, Verifications
<1> HIDE DEF j
<1>5. /\ TypeOK /\ conns \in [Conns -> Conn] /\ ConnsOK /\ UsedEstablished /\ Begun /\ PingJobs
  BY DEF SessionInv, IInv, TypeOK, StateInv, QueueInv
<1>6. conns[c].ping # "none" /\ (j.res # "failed" => j.to = c)
  BY <1>2, <1>4, <1>5 DEF PingJobs
<1>7. j.res = "failed" => conns[j.to].life # "unused"
  BY <1>2, <1>5 DEF Begun
<1>8. /\ s \in Mgr /\ \A d \in Conns : s # Verifying(d) /\ (s = Ready(d) => d = c)
      /\ j.res = "ok" => s = Ready(c) /\ s.t = "ready" /\ s.c = c
      /\ j.res = "failed" => s = Connecting(j.to) /\ s.t = "connecting" /\ s.c = j.to
      /\ \A d \in Conns : s = Connecting(d) => j.res = "failed" /\ d = j.to
  BY <1>4, <1>6, MgrStates DEF Ready, Verifying, Connecting, Errored
<1> HIDE DEF s
<1>9. /\ mgr' = s
      /\ \A d \in Conns : /\ Exited(conns[d], conns'[d])
                          /\ mgr # Connecting(d) /\ "connect" \in conns[d].lst => "connect" \in conns'[d].lst
  <2>1. mgr' = s
    BY <1>1 DEF SetState
  <2>2. QED
    BY <1>1, <1>5, <1>8, <2>1, SetStateEffect
<1>10. \A d \in Conns :
         /\ conns'[d].life = conns[d].life /\ conns'[d].prom = conns[d].prom
         /\ conns'[d].ping = conns[d].ping /\ conns'[d].streams = conns[d].streams
         /\ ConnOK(conns'[d])
  BY <1>5, <1>9 DEF Exited, ConnsOK, ConnOK
<1>11. FrontWait'
  <2>1. /\ jobs' # <<>> /\ jobs'[1].job = "verified-wait" => jobs'[1].res = j.res
        /\ jobs' # <<>> => jobs'[1].job # "conn-wait"
    BY <1>1, <1>3, MicroAddsNone DEF IsWait
  <2>2. QED
    BY <1>1, <1>2, <1>8, <1>9, <2>1 DEF FrontWait
<1>12. UnverifiedAttended'
  BY <1>4, <1>6, <1>8, <1>9, <1>10 DEF UnverifiedAttended
<1>13. \A d \in Conns : Used(d)' => conns[d].prom = "settled"
  <2> SUFFICES ASSUME NEW d \in Conns, Used(d)' PROVE conns[d].prom = "settled"
    OBVIOUS
  <2>1. CASE d = c
    BY <1>5, <1>6, <2>1 DEF UsedEstablished, Used, Established
  <2>2. CASE d # c
    <3>1. Used(d)
      BY <1>1, <1>8, <1>9, <1>10, <2>2 DEF Used
    <3>2. QED
      BY <1>5, <3>1 DEF UsedEstablished, Established
  <2>3. QED
    BY <2>1, <2>2
<1>14. \A d \in Conns : mgr' = Connecting(d) => mgr = Connecting(d) \/ conns'[d].life # "unused"
  BY <1>7, <1>8, <1>9, <1>10
<1>15. aborts = 0 =>
         /\ \A i \in Verifications : i = 1
         /\ PingsAwaited' /\ ConnectingAwaited'
         /\ \A d \in Conns : conns[d].life \in {"connecting", "open"} => mgr'.c = d
         /\ \A d \in Conns : Attempted(d) => "connect" \in conns'[d].lst
  <2> SUFFICES ASSUME aborts = 0
      PROVE  /\ \A i \in Verifications : i = 1
             /\ PingsAwaited' /\ ConnectingAwaited'
             /\ \A d \in Conns : conns[d].life \in {"connecting", "open"} => mgr'.c = d
             /\ \A d \in Conns : Attempted(d) => "connect" \in conns'[d].lst
    OBVIOUS
  <2>1. /\ \A i \in Verifications : i = 1
        /\ mgr = Verifying(c) /\ conns[c].ping = "settled"
        /\ j.res # "ok" => ~Alive(conns[c])
        /\ j.res = "failed" => conns[j.to].life = "connecting" /\ "connect" \in conns[j.to].lst
    BY <1>2, <1>4 DEF VerifyJobs
  <2>2. mgr.c = c /\ \A d \in Conns : mgr # Connecting(d) /\ (mgr = Verifying(d) => d = c)
    BY <2>1 DEF Verifying, Connecting
  <2>3. PingsAwaited'
    BY <1>2, <1>10, <2>1, <2>2 DEF PingsAwaited, PingUnsettled
  <2>4. ConnectingAwaited'
    BY <1>4, <1>8, <1>9, <1>10, <2>1, <2>2 DEF ConnectingAwaited, Attempted
  <2>5. ASSUME NEW d \in Conns, conns[d].life \in {"connecting", "open"} PROVE mgr'.c = d
    <3>1. d = c \/ d = j.to
      <4>1. mgr.c = d \/ \E i \in 1 .. Len(jobs) : jobs[i].job = "verified" /\ jobs[i].to = d
        BY <2>5 DEF SessionInv, PromiseInv, SingleConnection
      <4>2. \A i \in 1 .. Len(jobs) : jobs[i].job = "verified" => i = 1
        BY <2>1 DEF Verifications, At
      <4>3. QED
        BY <1>2, <2>2, <4>1, <4>2
    <3>2. j.res # "ok" => d # c
      BY <2>1, <2>5 DEF Alive
    <3>3. QED
      BY <1>6, <1>8, <1>9, <3>1, <3>2
  <2>6. \A d \in Conns : Attempted(d) => "connect" \in conns'[d].lst
    BY <1>9, <2>2 DEF Attempted
  <2>7. QED
    BY <2>1, <2>3, <2>4, <2>5, <2>6
<1>16. QED
  BY <1>1, <1>10, <1>11, <1>12, <1>13, <1>14, <1>15, MoveStep

\* The verification ends: what it adds names the connection that goes on.
LEMMA RunPingKeeps ==
    ASSUME ConfigAssumption, SessionInv, IInv', RunPing
    PROVE  SessionInv'
<1> DEFINE j == Head(jobs)
           c == j.c
<1>1. /\ Micro("ping") /\ UNCHANGED <<mgr, call, turn, aborts, dead>>
  BY DEF RunPing
<1>2. /\ jobs \in Seq(Job) /\ jobs # <<>> /\ Len(jobs) \in Nat \ {0} /\ 1 \in 1 .. Len(jobs)
      /\ j = jobs[1] /\ jobs[1] \in Job /\ jobs[1].job = "ping" /\ turn = FALSE
      /\ Tail(jobs) \in Seq(Job) /\ Len(Tail(jobs)) = Len(jobs) - 1
      /\ aborts = 0 => VerifyJobs /\ PingsAwaited
  <2>1. /\ jobs \in Seq(Job) /\ jobs # <<>> /\ Len(jobs) \in Nat \ {0} /\ 1 \in 1 .. Len(jobs)
        /\ j = jobs[1] /\ jobs[1] \in Job /\ jobs[1].job = "ping" /\ turn = FALSE
        /\ aborts = 0 => VerifyJobs /\ PingsAwaited
    BY <1>1, MicroFront
  <2>2. QED
    BY <2>1, Dropped
<1>3. 1 \in Verifications /\ c \in Conns /\ j.res \in Reason
  BY <1>1, <1>2, JobConn, HeadJob DEF At, Verifications, SessionInv, IInv
<1> HIDE DEF j
<1>4. PICK to \in Conns :
        /\ jobs' = Tail(jobs) \o SettleVerified(c, j.res, to)
        /\ \/ j.res # "failed" /\ to = c /\ conns' = conns
           \/ j.res = "failed" /\ to \in Fresh(conns) /\ conns' = Connect(conns, to)
  BY <1>3 DEF RunPing, Fresh, j
<1>5. /\ TypeOK /\ conns \in [Conns -> Conn] /\ mgr \in Mgr /\ ConnsOK /\ UsedEstablished /\ PingJobs
      /\ UnverifiedAttended /\ StreamsCounted /\ Placed
  BY DEF SessionInv, IInv, TypeOK, StateInv, QueueInv
<1>6. conns[c].ping # "none" /\ conns[c].prom = "settled" /\ conns[c].life # "unused"
  <2>1. conns[c].ping # "none"
    BY <1>2, <1>3, <1>5 DEF PingJobs
  <2>2. conns[c].prom = "settled"
    BY <1>3, <1>5, <2>1 DEF UsedEstablished, Used, Established
  <2>3. QED
    BY <1>3, <1>5, <2>1, <2>2 DEF ConnsOK, ConnOK
<1>7. \A d \in Conns :
        /\ conns'[d].ping = conns[d].ping /\ conns'[d].streams = conns[d].streams
        /\ \/ conns'[d] = conns[d]
           \/ /\ d = to /\ conns[d].life = "unused" /\ j.res = "failed"
              /\ conns'[d].life = "connecting" /\ conns'[d].lst = {"connect"}
              /\ conns'[d].prom = "pending" /\ conns'[d].tmr = conns[d].tmr
        /\ j.res = "failed" /\ d = to => conns'[d].life = "connecting" /\ conns'[d].lst = {"connect"}
  BY <1>4, <1>5 DEF Connect, Fresh, Conn
<1>8. j.res # "failed" => to = c
  BY <1>4
<1>9. conns'[c] = conns[c]
  BY <1>3, <1>6, <1>7
<1> DEFINE n == SettleVerified(c, j.res, to)
<1>10. /\ n \in Seq(Job) /\ Len(n) = 2 /\ Paired(n) /\ ~IsWait(n[1])
       /\ n[1].job = "verified" /\ n[1].c = c /\ n[1].res = j.res /\ n[1].to = to
       /\ n[2].job = "verified-wait"
  <2>1. /\ n \in Seq(Job) /\ Len(n) = 2 /\ Paired(n) /\ ~IsWait(n[1])
        /\ n[1] = [J("verified", c, j.res) EXCEPT !.to = to] /\ n[2] = J("verified-wait", c, j.res)
    BY <1>3, Settled
  <2>2. QED
    BY <2>1 DEF J
<1>11. /\ jobs' = Tail(jobs) \o n
  BY <1>4
<1> HIDE DEF n
<1>12. \A i \in 1 .. Len(n) : i = 1 \/ n[i].job = "verified-wait"
  BY <1>10
<1>13. Shifted(n) /\ ~(jobs' # <<>> /\ IsWait(jobs'[1]))
  <2>1. Shifted(n) /\ (jobs' # <<>> /\ IsWait(jobs'[1]) => Len(jobs) > 1 /\ jobs'[1] = jobs[2])
    BY <1>1, <1>10, <1>11, MicroAdds
  <2>2. Len(jobs) > 1 => ~IsWait(jobs[2])
    BY <1>1, NextFront
  <2>3. QED
    BY <2>1, <2>2
<1>14. PICK x \in 1 .. Len(jobs') : jobs'[x] = n[1]
  <2>1. /\ Len(Tail(jobs) \o n) = Len(Tail(jobs)) + Len(n)
        /\ \A i \in Len(Tail(jobs)) + 1 .. Len(Tail(jobs) \o n) :
              (Tail(jobs) \o n)[i] = n[i - Len(Tail(jobs))]
    BY <1>2, <1>10, Joined
  <2>2. /\ Len(jobs) \in 1 .. Len(Tail(jobs) \o n)
        /\ (Tail(jobs) \o n)[Len(jobs)] = n[1]
    BY <1>2, <1>10, <2>1
  <2>3. QED
    BY <1>11, <2>2, Zenon
<1>15. /\ \A i \in At("conn")' : jobs'[i].res # "ok"
       /\ aborts = 0 => At("conn")' = {}
  <2>1. \A i \in 1 .. Len(n) : n[i].job # "conn"
    BY <1>10, <1>12
  <2>2. QED
    BY <1>1, <1>10, <1>13, <2>1, ConnLeft
<1>16. QueueInv'
  <2>1. FrontWait'
    BY <1>13 DEF FrontWait, IsWait
  <2>2. ConnectedFirst'
    BY <1>15 DEF ConnectedFirst
  <2>3. PingJobs'
    <3>1. \A i \in 1 .. Len(n) : n[i].job \in {"ping", "verified"} =>
              /\ conns'[n[i].c].ping # "none"
              /\ n[i].job = "verified" /\ n[i].res # "failed" => n[i].to = n[i].c
      BY <1>6, <1>8, <1>9, <1>10, <1>12
    <3>2. QED
      BY <1>7, <1>10, <1>13, <3>1, PingLeft
  <2>4. GoJobs'
    <3>1. \A i \in 1 .. Len(n) : n[i].job # "go"
      BY <1>10, <1>12
    <3>2. \A s \in Calls : call'[s] = call[s]
      BY <1>1
    <3>3. \A i \in At("go") : \A s \in jobs[i].calls : call'[s] = call[s]
      BY <1>1
    <3>4. QED
      BY <1>10, <1>13, <3>1, <3>3, GoLeft
  <2>5. Paired(jobs)'
    BY <1>13 DEF Shifted
  <2>6. QED
    BY <2>1, <2>2, <2>3, <2>4, <2>5 DEF QueueInv
<1>17. StateInv'
  <2>1. ConnsOK'
    BY <1>5, <1>7 DEF ConnsOK, ConnOK
  <2>2. Begun'
    <3>1. \A d \in Conns : conns'[d].life = "unused" => conns[d].life = "unused"
      BY <1>7
    <3>2. \A i \in 1 .. Len(n) :
            n[i].job = "verified" /\ n[i].res = "failed" => conns'[n[i].to].life # "unused"
      BY <1>7, <1>10, <1>12
    <3>3. QED
      BY <1>1, <1>10, <1>13, <3>1, <3>2, BegunLeft
  <2>3. Placed'
    BY <1>1, <1>5 DEF Placed
  <2>4. UsedEstablished'
    <3>1. \A d \in Conns : Used(d)' => Used(d)
      BY <1>1, <1>7 DEF Used
    <3>2. \A d \in Conns : conns[d].prom = "settled" => conns'[d].prom = "settled"
      BY <1>5, <1>7 DEF ConnsOK, ConnOK
    <3>3. QED
      BY <1>15, <3>1, <3>2, UseKept
  <2>5. UnverifiedAttended'
    BY <1>1, <1>5, <1>7 DEF UnverifiedAttended, Attended
  <2>6. StreamsCounted'
    BY <1>1, <1>5, <1>7, CountKept
  <2>7. QED
    BY <2>1, <2>2, <2>3, <2>4, <2>5, <2>6 DEF StateInv
<1>18. aborts = 0 =>
         /\ \A i \in Verifications : i = 1
         /\ mgr = Verifying(c) /\ conns[c].ping = "settled"
         /\ j.res # "ok" => ~Alive(conns[c])
  BY <1>2, <1>3 DEF VerifyJobs
<1>19. Unaborted'
  <2> SUFFICES ASSUME aborts = 0
      PROVE  ConnJobs' /\ VerifyJobs' /\ PingsAwaited' /\ ConnectingAwaited'
    BY <1>1 DEF Unaborted
  <2>1. ConnJobs'
    BY <1>15 DEF ConnJobs
  <2>2. ASSUME NEW i \in Verifications' PROVE i = Len(jobs) /\ jobs'[i] = n[1]
    <3>1. i \in 1 .. Len(jobs') /\ jobs'[i].job \in {"ping", "verified"}
      BY DEF Verifications, At
    <3>2. CASE i + 1 \in 2 .. Len(jobs) /\ jobs'[i] = jobs[i + 1]
      <4>1. i + 1 \in Verifications /\ i + 1 # 1
        BY <1>2, <3>1, <3>2 DEF Verifications, At
      <4>2. QED
        BY <1>18, <4>1
    <3>3. CASE i - (Len(jobs) - 1) \in 1 .. Len(n) /\ jobs'[i] = n[i - (Len(jobs) - 1)]
      <4>1. i - (Len(jobs) - 1) = 1
        BY <1>12, <3>1, <3>3
      <4>2. QED
        BY <1>2, <3>1, <3>3, <4>1
    <3>4. QED
      BY <1>13, <3>1, <3>2, <3>3 DEF Shifted
  <2>3. VerifyJobs'
    <3> SUFFICES ASSUME NEW i \in Verifications'
        PROVE  /\ \A h \in Verifications' : i = h
               /\ mgr' = Verifying(jobs'[i].c)
               /\ conns'[jobs'[i].c].ping = "settled"
               /\ jobs'[i].res # "ok" => ~Alive(conns'[jobs'[i].c])
               /\ jobs'[i].job = "verified" /\ jobs'[i].res = "failed" =>
                     conns'[jobs'[i].to].life = "connecting" /\ "connect" \in conns'[jobs'[i].to].lst
      BY DEF VerifyJobs
    <3>1. jobs'[i] = n[1] /\ \A h \in Verifications' : i = h
      BY <2>2
    <3>2. QED
      BY <1>1, <1>7, <1>9, <1>10, <1>18, <3>1
  <2>4. PingsAwaited'
    BY <1>1, <1>2, <1>7 DEF PingsAwaited, PingUnsettled
  <2>5. ConnectingAwaited'
    BY <1>1, <1>18 DEF ConnectingAwaited, Verifying, Connecting
  <2>6. QED
    BY <2>1, <2>3, <2>4, <2>5
<1>20. SingleConnection'
  <2> SUFFICES ASSUME NEW d \in Conns, aborts = 0, conns'[d].life \in {"connecting", "open"}, mgr.c # d
      PROVE  \E i \in 1 .. Len(jobs') : jobs'[i].job = "verified" /\ jobs'[i].to = d
    BY <1>1 DEF SingleConnection
  <2>1. CASE conns'[d] = conns[d]
    <3>1. PICK i \in 1 .. Len(jobs) : jobs[i].job = "verified" /\ jobs[i].to = d
      BY <2>1 DEF SessionInv, PromiseInv, SingleConnection
    <3>2. i = 1
      BY <1>18, <3>1 DEF Verifications, At
    <3>3. QED
      BY <1>2, <3>1, <3>2
  <2>2. CASE conns'[d] # conns[d]
    BY <1>7, <1>10, <1>14, <2>2
  <2>3. QED
    BY <2>1, <2>2
<1>21. NoStrandedCall'
  <2> SUFFICES ASSUME NEW s \in Calls, aborts = 0, call[s].pc = "conn", ~Attempted(call[s].c)'
      PROVE  \E i \in 1 .. Len(jobs') : jobs'[i].job = "conn-wait" /\ jobs'[i].c = call[s].c
    BY <1>1 DEF NoStrandedCall, Attempted
  <2>1. call[s].c \in Conns
    BY <1>5 DEF Placed
  <2>2. ~Attempted(call[s].c)
    BY <1>1, <1>7, <2>1 DEF Attempted
  <2>3. PICK i \in 1 .. Len(jobs) : jobs[i].job = "conn-wait" /\ jobs[i].c = call[s].c
    BY <2>2 DEF SessionInv, PromiseInv, NoStrandedCall, Attempted
  <2>4. i \in 2 .. Len(jobs)
    BY <1>2, <2>3
  <2>5. jobs'[i - 1] = jobs[i] /\ i - 1 \in 1 .. Len(jobs')
    BY <1>13, <2>4 DEF Shifted
  <2>6. QED
    BY <2>3, <2>5
<1>22. NoSpin'
  BY <1>1 DEF SessionInv, PromiseInv, NoSpin
<1>23. QED
  BY <1>16, <1>17, <1>19, <1>20, <1>21, <1>22 DEF SessionInv, PromiseInv

(***************************************************************************)
(* The invariant holds, and the theorems that follow from it.              *)
(***************************************************************************)
LEMMA SessionInitial ==
    ASSUME ConfigAssumption, Init
    PROVE  SessionInv
<1>1. IInv
  BY Initial
<1>2. \A c \in Conns : conns[c] = NewConn
  BY DEF Init
<1>3. \A r \in Calls : call[r].pc = "new"
  BY DEF Init
<1>4. Len(jobs) = 0 /\ jobs = <<>> /\ \A k : At(k) = {}
  BY DEF Init, At
<1>5. \A c \in Conns : mgr # Connecting(c) /\ mgr # Ready(c) /\ mgr # Verifying(c)
  BY DEF Init, Closed, Connecting, Ready, Verifying
<1>6. QueueInv
  BY <1>4 DEF QueueInv, Paired, FrontWait, ConnectedFirst, PingJobs, GoJobs, Verifications
<1>7. StateInv
  <2>1. ConnsOK
    BY <1>2 DEF ConnsOK, ConnOK, NewConn
  <2>2. Begun
    BY <1>4, <1>5 DEF Begun
  <2>3. Placed
    BY <1>3 DEF Placed
  <2>4. \A c \in Conns : ~Used(c)
    BY <1>2, <1>3, <1>5 DEF Used, NewConn
  <2>5. UnverifiedAttended
    BY <1>5 DEF UnverifiedAttended
  <2>6. StreamsCounted
    <3>1. \A c \in Conns : StreamsOf(c) = {}
      BY <1>3 DEF StreamsOf, Streaming
    <3>2. \A c \in Conns : conns[c].streams = 0
      BY <1>2 DEF NewConn
    <3>3. QED
      BY <3>1, <3>2, FS_EmptySet DEF StreamsCounted
  <2>7. QED
    BY <2>1, <2>2, <2>3, <2>4, <2>5, <2>6 DEF StateInv, UsedEstablished
<1>8. PromiseInv
  <2>1. Unaborted
    BY <1>2, <1>4, <1>5
       DEF Unaborted, ConnJobs, VerifyJobs, Verifications, PingsAwaited, ConnectingAwaited,
           PingUnsettled, NewConn
  <2>2. SingleConnection
    BY <1>2 DEF SingleConnection, NewConn
  <2>3. NoStrandedCall
    BY <1>3 DEF NoStrandedCall
  <2>4. NoSpin
    BY DEF Init, NoSpin
  <2>5. QED
    BY <2>1, <2>2, <2>3, <2>4 DEF PromiseInv
<1>9. QED
  BY <1>1, <1>6, <1>7, <1>8 DEF SessionInv

LEMMA StutterStep ==
    ASSUME SessionInv, UNCHANGED vars
    PROVE  SessionInv'
<1>1. UNCHANGED <<mgr, conns, jobs, call, turn, aborts, calmed, doubled, dead>>
  BY DEF vars
<1>2. IInv'
  BY <1>1, Unmoved DEF SessionInv, IInv, TypeOK
<1>3. QueueInv'
  BY <1>1 DEF SessionInv, QueueInv, Paired, FrontWait, ConnectedFirst, PingJobs, GoJobs,
              Verifications, At, Follows
<1>4. StateInv'
  BY <1>1, CountKept
     DEF SessionInv, StateInv, ConnsOK, ConnOK, Begun, Placed, UsedEstablished, Used, Established,
         UnverifiedAttended, Attended, At
<1>5. Unaborted'
  BY <1>1 DEF SessionInv, PromiseInv, Unaborted, ConnJobs, VerifyJobs, PingsAwaited, ConnectingAwaited,
              Verifications, At, Attempted, Alive, PingUnsettled
<1>6. SingleConnection' /\ NoStrandedCall' /\ NoSpin'
  BY <1>1 DEF SessionInv, PromiseInv, SingleConnection, NoStrandedCall, NoSpin
<1>7. QED
  BY <1>2, <1>3, <1>4, <1>5, <1>6 DEF SessionInv, PromiseInv

\* Every action of the program keeps the invariant.
LEMMA SessionInductive ==
    ASSUME ConfigAssumption, SessionInv, [Next]_vars
    PROVE  SessionInv'
<1>1. IInv'
  BY Inductive DEF SessionInv
<1>2. ASSUME UserCode PROVE SessionInv'
  BY <1>1, <1>2, CallReadyKeeps, CallVerifyKeeps, CallConnectKeeps, CallWaitKeeps, AbortKeeps, EndTurnKeeps
     DEF UserCode
<1>3. ASSUME Microtask PROVE SessionInv'
  BY <1>1, <1>3, RunConnKeeps, RunWaitKeeps, RunPingKeeps, RunVerifiedKeeps, RunGoKeeps, RunUserKeeps
     DEF Microtask
<1>4. ASSUME Event PROVE SessionInv'
  <2>1. ASSUME NEW c \in Conns, NEW late \in BOOLEAN, PingAnswered(c, late) PROVE SessionInv'
    <3>1. CASE late = TRUE
      BY <1>1, <2>1, <3>1, EndKeeps
    <3>2. CASE late = FALSE
      BY <1>1, <2>1, <3>2, PingAnswerKeeps
    <3>3. QED
      BY <3>1, <3>2
  <2>2. QED
    BY <1>1, <1>4, <2>1, ConnectKeeps, EndKeeps, EndEventKeeps, IntervalKeeps, IdleKeeps,
       StreamDataKeeps, StreamCloseKeeps
       DEF Event
<1>5. QED
  BY <1>2, <1>3, <1>4, StutterStep DEF Next

LEMMA SessionCorrect == Spec => []SessionInv
<1>1. Init => SessionInv
  BY SessionInitial, ConfigAssumption
<1>2. SessionInv /\ [Next]_vars => SessionInv'
  BY SessionInductive, ConfigAssumption
<1>3. QED
  BY <1>1, <1>2, PTL DEF Spec

\* streamCount is the number of streams of the connection that are open, through
\* verification, abort() and loss of the connection: the value on which the idle
\* timer and the keep-alive PINGs depend never drifts.
THEOREM CountsCorrect == Spec => []StreamsCounted
<1>1. SessionInv => StreamsCounted
  BY DEF SessionInv, StateInv
<1>2. QED
  BY <1>1, SessionCorrect, PTL

\* The loop of gotoReady() never spins: a call whose promise has fulfilled finds
\* the state that setState() entered in the job before it, so that something is
\* left to await.
THEOREM LoopAwaits == Spec => []NoSpin
<1>1. SessionInv => NoSpin
  BY DEF SessionInv, PromiseInv
<1>2. QED
  BY <1>1, SessionCorrect, PTL

\* Until abort() is called, a call that waits for a connection waits for a promise
\* that can settle, or that has settled with its job still in the queue.
THEOREM NoCallStranded == Spec => []NoStrandedCall
<1>1. SessionInv => NoStrandedCall
  BY DEF SessionInv, PromiseInv
<1>2. QED
  BY <1>1, SessionCorrect, PTL

\* Until abort() is called, at most one session is being established or open, and
\* the manager's state, or the job that is about to set it, is about that one.
THEOREM OneConnection == Spec => []SingleConnection
<1>1. SessionInv => SingleConnection
  BY DEF SessionInv, PromiseInv
<1>2. QED
  BY <1>1, SessionCorrect, PTL

\* The state of a ready manager is about one of its sessions.
LEMMA ReadyAttended ==
    ASSUME SessionInv, Unverified
    PROVE  Attended(conns[mgr.c])
<1>1. mgr.c \in Conns /\ mgr = Ready(mgr.c)
  BY MgrStates DEF SessionInv, IInv, TypeOK, Unverified
<1>2. QED
  BY <1>1 DEF SessionInv, StateInv, UnverifiedAttended, Unverified

\* A manager that was never verified notices the end of its connection: it is not
\* "ready" with a session whose "close" was emitted.
THEOREM EndIsNoticed == Spec => []EndNoticed
<1>1. SessionInv => EndNoticed
  BY ReadyAttended DEF EndNoticed, Missed, Attended
<1>2. QED
  BY <1>1, SessionCorrect, PTL

\* A manager that was never verified and whose connection has no stream has its
\* idle timer running.
THEOREM IdleTimed == Spec => []IdleIsTimed
<1>1. SessionInv => IdleIsTimed
  BY ReadyAttended DEF IdleIsTimed, Attended
<1>2. QED
  BY <1>1, SessionCorrect, PTL

(***************************************************************************)
(* The calls of a promise.                                                 *)
(***************************************************************************)

\* The calls that come to the front find the manager in a state about their
\* connection or, as long as abort() was not called, their connection lost.
FrontOwn ==
    jobs # <<>> /\ IsWait(jobs[1]) =>
        /\ mgr.t # "verifying"
        /\ aborts = 0 => IF jobs[1].res = "ok" THEN mgr.c = jobs[1].c
                         ELSE conns[jobs[1].c].life \in {"destroyed", "gone"}

\* A connection is verified for a call that waits for it.
VerificationWanted ==
    mgr.t = "verifying" => \E r \in Calls : call[r].pc = "verify" /\ call[r].c = mgr.c

SharedInv == SessionInv /\ FrontOwn /\ VerificationWanted

\* What was established was begun, and what the manager is about.
LEMMA EstablishedLife ==
    ASSUME SessionInv, NEW c \in Conns
    PROVE  /\ Established(c) => conns[c].life \in {"open", "closing", "destroyed", "gone"}
           /\ Used(c) => Established(c)
           /\ mgr = Connecting(c) \/ mgr = Verifying(c) \/ mgr = Ready(c) =>
                 conns[c].life # "unused"
<1>1. /\ conns[c].life \in Life /\ ConnOK(conns[c])
      /\ UsedEstablished /\ Begun
  BY DEF SessionInv, IInv, TypeOK, Conn, StateInv, ConnsOK
<1>2. Established(c) => conns[c].life \in {"open", "closing", "destroyed", "gone"}
  BY <1>1 DEF Established, ConnOK, Life
<1>3. Used(c) => Established(c)
  BY <1>1 DEF UsedEstablished
<1>4. mgr = Verifying(c) \/ mgr = Ready(c) => Used(c)
  BY DEF Used
<1>5. mgr = Connecting(c) => conns[c].life # "unused"
  BY <1>1 DEF Begun
<1>6. QED
  BY <1>2, <1>3, <1>4, <1>5

\* The manager's state is about a connection that was begun.
LEMMA ManagedLife ==
    ASSUME SessionInv, mgr.t \in {"connecting", "verifying", "ready"}
    PROVE  mgr.c \in Conns /\ conns[mgr.c].life # "unused"
<1>1. mgr \in Mgr
  BY DEF SessionInv, IInv, TypeOK
<1>2. mgr.c \in Conns
  BY <1>1, MgrStates
<1>3. mgr = Connecting(mgr.c) \/ mgr = Verifying(mgr.c) \/ mgr = Ready(mgr.c)
  BY <1>1 DEF Mgr, Connecting, Verifying, Ready
<1>4. QED
  BY <1>2, <1>3, EstablishedLife

\* User code adds to the queue behind what is there.
LEMMA UserQueue ==
    ASSUME ConfigAssumption, SessionInv, UserCode
    PROVE  jobs' # <<>> => ~IsWait(jobs'[1])
<1>1. UserMay
  BY DEF UserCode, CallReady, CallVerify, CallConnect, CallWait, Abort, EndTurn, UserMay
<1>2. jobs \in Seq(Job) /\ mgr \in Mgr /\ conns \in [Conns -> Conn]
  BY DEF SessionInv, IInv, TypeOK
<1>3. mgr.t \in {"connecting", "verifying", "ready"} => mgr.c \in Conns
  BY <1>2, MgrStates
<1>4. \E n \in Seq(Job) : Longer(n) /\ (Len(n) > 0 => ~IsWait(n[1]))
  <2>1. CASE jobs' = jobs
    BY <1>1, <2>1, UserAddsNone
  <2>2. CASE \E j \in Job : ~IsWait(j) /\ jobs' = Append(jobs, j)
    BY <1>1, <2>2, UserAddsOne
  <2>3. CASE \E c \in Conns, res \in Reason : jobs' = jobs \o SettleConn(c, res)
    <3>1. PICK c \in Conns, res \in Reason : jobs' = jobs \o SettleConn(c, res)
      BY <2>3
    <3>2. /\ SettleConn(c, res) \in Seq(Job) /\ Paired(SettleConn(c, res))
          /\ ~IsWait(SettleConn(c, res)[1])
      BY Settled
    <3>3. Longer(SettleConn(c, res))
      BY <1>1, <3>1, <3>2, UserAdds
    <3>4. QED
      BY <3>2, <3>3
  <2>4. ASSUME NEW r \in Calls, NEW kind \in {"request", "connect"}, CallReady(r, kind)
        PROVE  \E j \in Job : ~IsWait(j) /\ jobs' = Append(jobs, j)
    <3> DEFINE j == [J("go", mgr.c, "ok") EXCEPT !.calls = {r}]
    <3>1. jobs' = Append(jobs, j) /\ mgr.t = "ready"
      BY <2>4 DEF CallReady
    <3>2. j \in Job
      BY <1>3, <3>1, JobTypes
    <3>3. ~IsWait(j)
      BY DEF J, IsWait
    <3>4. QED
      BY <3>1, <3>2, <3>3
  <2>5. ASSUME NEW r \in Calls, NEW kind \in {"request", "connect"}, CallVerify(r, kind)
        PROVE  jobs' = jobs \/ \E j \in Job : ~IsWait(j) /\ jobs' = Append(jobs, j)
    <3>1. mgr.c \in Conns
      BY <1>3, <2>5 DEF CallVerify
    <3>2. J("ping", mgr.c, "canceled") \in Job /\ ~IsWait(J("ping", mgr.c, "canceled"))
      BY <3>1, JobTypes DEF JobKind, Reason, J, IsWait
    <3>3. jobs' = jobs \/ jobs' = Append(jobs, J("ping", mgr.c, "canceled"))
      BY <2>5 DEF CallVerify
    <3>4. QED
      BY <3>2, <3>3
  <2>6. ASSUME NEW reason \in {"canceled", "failed"}, Abort(reason)
        PROVE  jobs' = jobs \/ \E c \in Conns, res \in Reason : jobs' = jobs \o SettleConn(c, res)
    <3>1. CASE mgr.t = "connecting"
      <4>1. jobs' = jobs \o RejectConnecting(mgr.c, reason)
        BY <2>6, <3>1 DEF Abort
      <4>2. RejectConnecting(mgr.c, reason) \in {<<>>, SettleConn(mgr.c, reason)}
        BY DEF RejectConnecting
      <4>3. jobs \o <<>> = jobs /\ reason \in Reason
        BY <1>2, NoJob DEF Reason
      <4>4. QED
        BY <1>3, <3>1, <4>1, <4>2, <4>3
    <3>2. CASE mgr.t # "connecting"
      BY <2>6, <3>2 DEF Abort
    <3>3. QED
      BY <3>1, <3>2
  <2>7. QED
    BY <2>1, <2>2, <2>3, <2>4, <2>5, <2>6 DEF UserCode, CallConnect, CallWait, EndTurn
<1>5. PICK n \in Seq(Job) : Longer(n) /\ (Len(n) > 0 => ~IsWait(n[1]))
  BY <1>4
<1>6. Len(jobs) > 0 => ~IsWait(jobs[1])
  BY <1>1, UserFront
<1>7. ASSUME 1 \in 1 .. Len(jobs') PROVE ~IsWait(jobs'[1])
  <2>1. CASE 1 \in 1 .. Len(jobs) /\ jobs'[1] = jobs[1]
    BY <1>2, <1>6, <2>1
  <2>2. CASE 1 - Len(jobs) \in 1 .. Len(n) /\ jobs'[1] = n[1 - Len(jobs)]
    <3>1. Len(jobs) \in Nat /\ Len(n) \in Nat
      BY <1>5 DEF Longer
    <3>2. 1 - Len(jobs) = 1 /\ Len(n) > 0
      BY <2>2, <3>1
    <3>3. QED
      BY <1>5, <2>2, <3>2
  <2>3. QED
    BY <1>5, <1>7, <2>1, <2>2 DEF Longer
<1>8. jobs' \in Seq(Job)
  BY Inductive DEF SessionInv, IInv, TypeOK, Next
<1>9. jobs' # <<>> => 1 \in 1 .. Len(jobs')
  BY <1>8
<1>10. QED
  BY <1>7, <1>9

\* Events find the queue empty, and leave what settles a promise at its front.
LEMMA EventQueue ==
    ASSUME ConfigAssumption, SessionInv, Event
    PROVE  jobs' # <<>> => ~IsWait(jobs'[1])
<1>1. Macro => jobs = <<>>
  BY DEF Macro
<1>2. \A c \in Conns, res \in Reason : SettleConn(c, res) # <<>> => ~IsWait(SettleConn(c, res)[1])
  BY Settled
<1>3. \A c, res : ~IsWait(<<J("ping", c, res)>>[1])
  BY DEF J, IsWait
<1>4. ASSUME NEW c \in Conns, OnConnect(c) \/ ConnectFails(c)
      PROVE  jobs' # <<>> => ~IsWait(jobs'[1])
  BY <1>1, <1>2, <1>4 DEF OnConnect, ConnectFails, Reason
<1>5. ASSUME NEW c \in Conns, EndEvent(c) \/ \E late \in BOOLEAN : PingAnswered(c, late)
      PROVE  jobs' # <<>> => ~IsWait(jobs'[1])
  BY <1>1, <1>3, <1>5 DEF EndEvent, PingAnswered
<1>6. ASSUME NEW c \in Conns,
             \/ \E fault \in {"reset", "close"} : SocketEnds(c, fault)
             \/ PeerMute(c) \/ Goaway(c) \/ GoawayCalm(c)
             \/ \E late \in BOOLEAN : IntervalPingAnswered(c, late)
             \/ OnPingInterval(c) \/ OnPingTimeout(c) \/ OnIdleTimeout(c) \/ GetStale(c)
      PROVE  jobs' = <<>>
  BY <1>1, <1>6 DEF SocketEnds, PeerMute, Goaway, GoawayCalm, IntervalPingAnswered,
                    OnPingInterval, OnPingTimeout, OnIdleTimeout, GetStale
<1>7. ASSUME NEW r \in Calls, StreamResponse(r) \/ StreamBytes(r) \/ OnStreamClose(r)
      PROVE  jobs' = <<>>
  BY <1>1, <1>7 DEF StreamResponse, StreamBytes, OnStreamClose
<1>8. QED
  BY <1>4, <1>5, <1>6, <1>7 DEF Event

\* Only the reactions of setState() bring calls to the front.
LEMMA MicroNext ==
    ASSUME ConfigAssumption, SessionInv, Microtask, jobs' # <<>>, IsWait(jobs'[1])
    PROVE  Len(jobs) > 1 /\ jobs'[1] = jobs[2] /\ (RunConn \/ RunVerified)
<1>1. ASSUME NEW k, Micro(k), k \notin {"conn", "verified"},
             Len(jobs) > 1 /\ jobs'[1] = jobs[2]
      PROVE  FALSE
  BY <1>1, NextFront
<1>2. ASSUME NEW k, Micro(k), jobs' = Tail(jobs)
      PROVE  Len(jobs) > 1 /\ jobs'[1] = jobs[2]
  BY <1>2, MicroAddsNone
<1>3. ASSUME NEW k, Micro(k), NEW j \in Job, ~IsWait(j), jobs' = Append(Tail(jobs), j)
      PROVE  Len(jobs) > 1 /\ jobs'[1] = jobs[2]
  BY <1>3, MicroAddsOne
<1>4. UserJob \in Job /\ ~IsWait(UserJob)
  BY JobTypes DEF UserJob, J, IsWait
<1>5. CASE RunConn
  BY <1>2, <1>5 DEF RunConn
<1>6. CASE RunVerified
  BY <1>2, <1>6 DEF RunVerified
<1>7. CASE RunUser
  BY <1>1, <1>2, <1>7 DEF RunUser
<1>8. CASE RunGo
  BY <1>1, <1>3, <1>4, <1>8 DEF RunGo
<1>9. ASSUME NEW k \in {"conn-wait", "verified-wait"}, NEW pc, RunWait(k, pc) PROVE FALSE
  <2> DEFINE j == Head(jobs)
             S == {r \in Calls : call[r].pc = pc /\ call[r].c = j.c}
             g == [J("go", mgr.c, "ok") EXCEPT !.calls = S]
  <2>1. Micro(k)
    BY <1>9 DEF RunWait
  <2>2. mgr.t = "ready" => g \in Job /\ ~IsWait(g)
    <3>1. mgr.t = "ready" => mgr.c \in Conns
      BY MgrStates DEF SessionInv, IInv, TypeOK
    <3>2. S \in SUBSET Calls
      OBVIOUS
    <3>3. ~IsWait(g)
      BY DEF J, IsWait
    <3> HIDE DEF S
    <3>4. QED
      BY <3>1, <3>2, <3>3, JobTypes
  <2>3. \/ jobs' = Tail(jobs) \/ jobs' = Append(Tail(jobs), UserJob)
        \/ mgr.t = "ready" /\ jobs' = Append(Tail(jobs), g)
    BY <1>9 DEF RunWait, Resume
  <2> HIDE DEF g
  <2>4. QED
    BY <1>1, <1>2, <1>3, <1>4, <2>1, <2>2, <2>3
<1>10. CASE RunPing
  <2>1. Micro("ping")
    BY <1>10 DEF RunPing
  <2>2. PICK c \in Conns, res \in Reason, to \in Conns :
           jobs' = Tail(jobs) \o SettleVerified(c, res, to)
    <3>1. Head(jobs).c \in Conns /\ Head(jobs).res \in Reason
      BY <2>1, HeadJob DEF SessionInv, IInv
    <3>2. CASE Head(jobs).res = "failed"
      BY <1>10, <3>1, <3>2 DEF RunPing, Fresh
    <3>3. CASE Head(jobs).res # "failed"
      BY <1>10, <3>1, <3>3 DEF RunPing
    <3>4. QED
      BY <3>2, <3>3
  <2> DEFINE n == SettleVerified(c, res, to)
  <2>3. n \in Seq(Job) /\ Paired(n) /\ ~IsWait(n[1])
    BY Settled
  <2> HIDE DEF n
  <2>4. jobs' = Tail(jobs) \o n
    BY <2>2 DEF n
  <2>5. QED
    BY <1>1, <2>1, <2>3, <2>4, MicroAdds
<1>11. QED
  BY <1>5, <1>6, <1>7, <1>8, <1>9, <1>10 DEF Microtask, RunConnWait, RunVerifiedWait

\* The reaction of setState() to a promise: the manager is then in a state about
\* the connection of the promise, or this one is lost.
LEMMA ReactionOwn ==
    ASSUME ConfigAssumption, SessionInv, RunConn \/ RunVerified,
           Len(jobs) > 1, jobs'[1] = jobs[2], IsWait(jobs[2])
    PROVE  /\ mgr'.t # "verifying"
           /\ aborts' = 0 => IF jobs[2].res = "ok" THEN mgr'.c = jobs[2].c
                             ELSE conns'[jobs[2].c].life \in {"destroyed", "gone"}
<1> DEFINE j == jobs[1]
<1>1. /\ TypeOK /\ conns \in [Conns -> Conn] /\ mgr \in Mgr /\ jobs \in Seq(Job)
      /\ aborts' = aborts
  BY DEF SessionInv, IInv, TypeOK, RunConn, RunVerified
<1>2. PICK k \in {"conn", "verified"} : Micro(k)
  BY DEF RunConn, RunVerified
<1>3. /\ Head(jobs) = j /\ j.job = k /\ 1 \in 1 .. Len(jobs) /\ j.c \in Conns
      /\ aborts = 0 => ConnJobs /\ VerifyJobs
  BY <1>2, MicroFront
<1>4. jobs[2].c = j.c /\ jobs[2].res = j.res
  BY <1>2, MicroFront DEF IsWait, Follows
<1>5. j.res \in Reason /\ (k = "verified" => j.to \in Conns)
  BY <1>2, <1>3, HeadJob DEF SessionInv, IInv
<1> HIDE DEF j
<1>6. CASE RunConn
  <2>1. k = "conn"
    BY <1>3, <1>6 DEF RunConn, Micro
  <2>2. CASE j.res = "ok"
    <3>1. mgr' = Ready(j.c)
      BY <1>3, <1>6, <2>2 DEF RunConn, SetState
    <3>2. QED
      BY <1>4, <2>2, <3>1 DEF Ready
  <2>3. CASE j.res # "ok"
    <3> DEFINE s == ClosedOrError(j.res)
    <3>1. SetState(conns, s)
      BY <1>3, <1>6, <2>3 DEF RunConn
    <3>2. s \in {Closed, Errored} /\ s \in Mgr
      BY MgrStates
    <3> HIDE DEF s
    <3>3. conns'[j.c].life = conns[j.c].life /\ mgr' = s
      BY <1>1, <1>3, <3>1, <3>2, SetStateEffect DEF Exited
    <3>4. mgr'.t # "verifying"
      BY <3>2, <3>3 DEF Closed, Errored
    <3>5. aborts = 0 => mgr = Connecting(j.c) /\ ~Alive(conns[j.c])
      BY <1>3, <2>1, <2>3 DEF ConnJobs, At, j
    <3>6. aborts = 0 => conns[j.c].life # "unused"
      BY <1>3, <3>5, EstablishedLife
    <3>7. aborts = 0 => conns[j.c].life \in {"destroyed", "gone"}
      BY <1>1, <1>3, <3>5, <3>6 DEF Alive, Conn, Life
    <3>8. QED
      BY <1>1, <1>4, <2>3, <3>3, <3>4, <3>7
  <2>4. QED
    BY <2>2, <2>3
<1>7. CASE RunVerified
  <2>1. k = "verified"
    BY <1>3, <1>7 DEF RunVerified, Micro
  <2>2. PICK s \in Mgr : SetState(conns, s) /\ s \in {Ready(j.to), Connecting(j.to), Errored}
                        /\ (j.res = "ok" => s = Ready(j.to))
    BY <1>3, <1>5, <1>7, <2>1, MgrStates DEF RunVerified
  <2>3. conns'[j.c].life = conns[j.c].life /\ mgr' = s
    BY <1>1, <1>3, <2>2, SetStateEffect DEF Exited
  <2>4. mgr'.t # "verifying"
    BY <2>2, <2>3 DEF Ready, Connecting, Errored
  <2>5. 1 \in Verifications
    BY <1>3, <2>1 DEF Verifications, At, j
  <2>6. j.res = "ok" => j.to = j.c
    BY <2>1, <2>5, <1>3 DEF SessionInv, QueueInv, PingJobs, j
  <2>7. j.res = "ok" => mgr'.c = j.c
    BY <2>2, <2>3, <2>6 DEF Ready
  <2>8. aborts = 0 /\ j.res # "ok" => mgr = Verifying(j.c) /\ ~Alive(conns[j.c])
    BY <1>3, <2>5 DEF VerifyJobs, j
  <2>9. aborts = 0 /\ j.res # "ok" => conns[j.c].life \in {"destroyed", "gone"}
    BY <1>1, <1>3, <2>8, EstablishedLife DEF Alive, Conn, Life
  <2>10. QED
    BY <1>1, <1>4, <2>3, <2>4, <2>7, <2>9
<1>8. QED
  BY <1>6, <1>7

LEMMA FrontOwnKept ==
    ASSUME ConfigAssumption, SessionInv, FrontOwn, [Next]_vars
    PROVE  FrontOwn'
<1>1. CASE UserCode
  BY <1>1, UserQueue DEF FrontOwn, IsWait
<1>2. CASE Microtask
  <2> SUFFICES ASSUME jobs' # <<>>, IsWait(jobs'[1])
      PROVE  /\ mgr'.t # "verifying"
             /\ aborts' = 0 => IF jobs'[1].res = "ok" THEN mgr'.c = jobs'[1].c
                               ELSE conns'[jobs'[1].c].life \in {"destroyed", "gone"}
    BY DEF FrontOwn, IsWait
  <2>1. Len(jobs) > 1 /\ jobs'[1] = jobs[2] /\ (RunConn \/ RunVerified)
    BY <1>2, MicroNext
  <2>2. IsWait(jobs[2])
    BY <2>1
  <2>3. QED
    BY <2>1, <2>2, ReactionOwn
<1>3. CASE Event
  BY <1>3, EventQueue DEF FrontOwn, IsWait
<1>4. CASE UNCHANGED vars
  BY <1>4 DEF vars, FrontOwn, IsWait
<1>5. QED
  BY <1>1, <1>2, <1>3, <1>4 DEF Next

\* A call that waits for a verification goes on waiting while the manager verifies.
LEMMA VerificationWantedKept ==
    ASSUME ConfigAssumption, SessionInv, FrontOwn, VerificationWanted, [Next]_vars
    PROVE  VerificationWanted'
<1> SUFFICES ASSUME mgr'.t = "verifying"
    PROVE  \E r \in Calls : call'[r].pc = "verify" /\ call'[r].c = mgr'.c
  BY DEF VerificationWanted
<1>1. call \in [Calls -> Call] /\ mgr \in Mgr
  BY DEF SessionInv, IInv, TypeOK
<1>2. ASSUME mgr' = mgr, \A r \in Calls : call[r].pc = "verify" => call'[r] = call[r]
      PROVE  \E r \in Calls : call'[r].pc = "verify" /\ call'[r].c = mgr'.c
  BY <1>2 DEF VerificationWanted
<1>3. ASSUME NEW s \in Mgr, s.t # "verifying", mgr' = s PROVE FALSE
  BY <1>3
<1>4. CASE UserCode
  <2>1. ASSUME NEW r \in Calls, NEW kind \in {"request", "connect"}, CallVerify(r, kind)
        PROVE  \E q \in Calls : call'[q].pc = "verify" /\ call'[q].c = mgr'.c
    BY <1>1, <2>1 DEF CallVerify, Wait, SetState, Verifying
  <2>2. ASSUME NEW r \in Calls, NEW kind \in {"request", "connect"},
               CallReady(r, kind) \/ CallWait(r, kind)
        PROVE  mgr' = mgr /\ \A q \in Calls : call[q].pc = "verify" => call'[q] = call[q]
    BY <1>1, <2>2 DEF CallReady, CallWait, Wait
  <2>3. ASSUME NEW r \in Calls, NEW kind \in {"request", "connect"}, CallConnect(r, kind)
        PROVE  FALSE
    BY <2>3 DEF CallConnect, SetState, Connecting
  <2>4. ASSUME NEW reason \in {"canceled", "failed"}, Abort(reason) PROVE FALSE
    BY <2>4 DEF Abort, SetState, ClosedOrError, Closed, Errored
  <2>5. CASE EndTurn
    BY <1>2, <2>5 DEF EndTurn
  <2>6. QED
    BY <1>2, <1>4, <2>1, <2>2, <2>3, <2>4, <2>5 DEF UserCode
<1>5. CASE Microtask
  <2>1. CASE RunConn
    BY <2>1 DEF RunConn, SetState, Ready, ClosedOrError, Closed, Errored
  <2>2. CASE RunVerified
    BY <2>2 DEF RunVerified, SetState, Ready, Connecting, Errored
  <2>3. CASE RunPing \/ RunUser
    BY <1>2, <2>3 DEF RunPing, RunUser
  <2>4. CASE RunConnWait
    <3>1. mgr' = mgr /\ \A r \in Calls : call[r].pc = "verify" => call'[r] = call[r]
      BY <1>1, <2>4 DEF RunConnWait, RunWait, Resume
    <3>2. QED
      BY <1>2, <3>1
  <2>5. CASE RunVerifiedWait
    <3>1. Micro("verified-wait") /\ mgr' = mgr
      BY <2>5 DEF RunVerifiedWait, RunWait
    <3>2. jobs # <<>> /\ IsWait(jobs[1])
      BY <3>1, MicroFront DEF IsWait
    <3>3. QED
      BY <3>1, <3>2 DEF FrontOwn
  <2>6. CASE RunGo
    <3>1. Micro("go") /\ mgr' = mgr
      BY <2>6 DEF RunGo
    <3>2. Head(jobs) = jobs[1] /\ 1 \in At("go")
      BY <3>1, MicroFront DEF At
    <3>3. \A r \in Head(jobs).calls : call[r].pc = "go"
      BY <3>2 DEF SessionInv, QueueInv, GoJobs
    <3>4. \A r \in Calls : call[r].pc = "verify" => call'[r] = call[r]
      BY <1>1, <2>6, <3>3 DEF RunGo
    <3>5. QED
      BY <1>2, <3>1, <3>4
  <2>7. QED
    BY <1>5, <2>1, <2>2, <2>3, <2>4, <2>5, <2>6 DEF Microtask
<1>6. CASE Event
  <2>1. ASSUME NEW c \in Conns,
               \/ OnConnect(c) \/ ConnectFails(c)
               \/ \E fault \in {"reset", "close"} : SocketEnds(c, fault)
               \/ PeerMute(c) \/ Goaway(c) \/ GoawayCalm(c)
               \/ \E late \in BOOLEAN : PingAnswered(c, late)
               \/ \E late \in BOOLEAN : IntervalPingAnswered(c, late)
               \/ OnPingInterval(c) \/ OnPingTimeout(c) \/ GetStale(c)
        PROVE  mgr' = mgr /\ call' = call
    BY <2>1 DEF OnConnect, ConnectFails, SocketEnds, PeerMute, Goaway, GoawayCalm, PingAnswered,
                IntervalPingAnswered, OnPingInterval, OnPingTimeout, GetStale
  <2>2. ASSUME NEW c \in Conns, EndEvent(c) \/ OnIdleTimeout(c)
        PROVE  call' = call /\ (mgr' = mgr \/ mgr' = Closed \/ mgr' = Errored)
    BY <2>2 DEF EndEvent, OnIdleTimeout, SetState
  <2>3. ASSUME NEW r \in Calls, StreamResponse(r) \/ StreamBytes(r) \/ OnStreamClose(r)
        PROVE  mgr' = mgr /\ \A q \in Calls : call[q].pc = "verify" => call'[q] = call[q]
    BY <1>1, <2>3 DEF StreamResponse, StreamBytes, OnStreamClose, Streaming
  <2>4. Closed.t # "verifying" /\ Errored.t # "verifying"
    BY DEF Closed, Errored
  <2>5. QED
    BY <1>2, <1>6, <2>1, <2>2, <2>3, <2>4 DEF Event
<1>7. CASE UNCHANGED vars
  BY <1>2, <1>7 DEF vars
<1>8. QED
  BY <1>4, <1>5, <1>6, <1>7 DEF Next

LEMMA SharedInvCorrect == Spec => []SharedInv
<1>1. Init => SharedInv
  <2> SUFFICES ASSUME Init PROVE SharedInv
    OBVIOUS
  <2>1. SessionInv
    BY SessionInitial, ConfigAssumption
  <2>2. FrontOwn
    BY DEF Init, FrontOwn
  <2>3. VerificationWanted
    BY DEF Init, VerificationWanted, Closed
  <2>4. QED
    BY <2>1, <2>2, <2>3 DEF SharedInv
<1>2. SharedInv /\ [Next]_vars => SharedInv'
  BY SessionInductive, FrontOwnKept, VerificationWantedKept, ConfigAssumption DEF SharedInv
<1>3. QED
  BY <1>1, <1>2, PTL DEF Spec

(***************************************************************************)
(* The manager implements SharedConnection.                                *)
(***************************************************************************)

LEMMA LinkIs ==
    ASSUME NEW life \in Life
    PROVE  /\ LinkOf(life) = "none" <=> life = "unused"
           /\ LinkOf(life) = "opening" <=> life = "connecting"
           /\ LinkOf(life) = "open" <=> life = "open"
           /\ LinkOf(life) = "draining" <=> life = "closing"
           /\ LinkOf(life) = "gone" <=> life \in {"destroyed", "gone"}
  BY DEF LinkOf, Life

LEMMA UseIs ==
    /\ UseOf("new") = "new" /\ UseOf("done") = "over" /\ UseOf("failed") = "failed"
    /\ UseOf("conn") = "waiting" /\ UseOf("verify") = "waiting" /\ UseOf("go") = "waiting"
    /\ UseOf("stream") = "using" /\ UseOf("reading") = "using"
  BY DEF UseOf, Waiting, Streaming

\* What SharedConnection sees of the connections and the calls.
SameLife(c) == conns'[c].life = conns[c].life
SameCall(r) == UseOf(call'[r].pc) = UseOf(call[r].pc) /\ call'[r].c = call[r].c

LEMMA Stutters ==
    ASSUME \A c \in Conns : SameLife(c), \A r \in Calls : SameCall(r), aborts' = aborts
    PROVE  UNCHANGED Shared!vars
  BY DEF Shared!vars, SameLife, SameCall

\* A connection goes on to its end.
Loses(a, b) ==
    \/ a = "open" /\ b = "closing"
    \/ a \in {"connecting", "open", "closing"} /\ b \in {"destroyed", "gone"}

Forward(a, b) ==
    \/ b = a
    \/ a = "connecting" /\ b = "open"
    \/ Loses(a, b)
    \/ a = "destroyed" /\ b = "gone"

LEMMA Becoming ==
    ASSUME NEW c \in Conns, \A d \in Conns \ {c} : SameLife(d),
           NEW l, LinkOf(conns'[c].life) = l
    PROVE  Shared!Becomes(c, l)
  BY DEF Shared!Becomes, SameLife

LEMMA Losing ==
    ASSUME TypeOK, NEW c \in Conns, \A d \in Conns \ {c} : SameLife(d),
           Loses(conns[c].life, conns'[c].life)
    PROVE  Shared!Lost(c)
<1>1. conns[c].life \in Life /\ conns'[c].life \in Life
  BY DEF TypeOK, Conn, Loses, Life
<1>2. [d \in Conns |-> LinkOf(conns[d].life)][c] = LinkOf(conns[c].life)
  OBVIOUS
<1>3. CASE conns[c].life = "open" /\ conns'[c].life = "closing"
  <2>1. LinkOf(conns'[c].life) = "draining" /\ LinkOf(conns[c].life) = "open"
    BY <1>1, <1>3, LinkIs
  <2>2. Shared!Becomes(c, "draining")
    BY <2>1, Becoming
  <2>3. QED
    BY <1>2, <2>1, <2>2 DEF Shared!Lost
<1>4. CASE conns[c].life \in {"connecting", "open", "closing"} /\ conns'[c].life \in {"destroyed", "gone"}
  <2>1. LinkOf(conns'[c].life) = "gone" /\ LinkOf(conns[c].life) \in {"opening", "open", "draining"}
    BY <1>1, <1>4, LinkIs
  <2>2. Shared!Becomes(c, "gone")
    BY <2>1, Becoming
  <2>3. QED
    BY <1>2, <2>1, <2>2 DEF Shared!Lost
<1>5. QED
  BY <1>3, <1>4 DEF Loses

\* A step of one connection that no call takes part in.
LEMMA LifeStep ==
    ASSUME TypeOK, NEW c \in Conns, \A d \in Conns \ {c} : SameLife(d),
           Forward(conns[c].life, conns'[c].life),
           \A r \in Calls : SameCall(r), aborts' = aborts
    PROVE  [Shared!Next]_(Shared!vars)
<1>0. conns[c].life \in Life
  BY DEF TypeOK, Conn
<1>1. UNCHANGED [r \in Calls |-> UseOf(call[r].pc)] /\ UNCHANGED [r \in Calls |-> call[r].c]
  BY DEF SameCall
<1>2. CASE LinkOf(conns'[c].life) = LinkOf(conns[c].life)
  <2>1. UNCHANGED [d \in Conns |-> LinkOf(conns[d].life)]
    BY <1>2 DEF SameLife
  <2>2. QED
    BY <1>1, <2>1 DEF Shared!vars
<1>3. CASE conns[c].life = "connecting" /\ conns'[c].life = "open"
  <2>1. LinkOf(conns[c].life) = "opening" /\ LinkOf(conns'[c].life) = "open"
    BY <1>0, <1>3, LinkIs DEF Life
  <2>2. Shared!Becomes(c, "open")
    BY <2>1, Becoming
  <2>3. Shared!Establish(c)
    BY <1>1, <2>1, <2>2 DEF Shared!Establish
  <2>4. QED
    BY <2>3 DEF Shared!Next
<1>4. CASE Loses(conns[c].life, conns'[c].life)
  <2>1. Shared!Lost(c)
    BY <1>4, Losing
  <2>2. Shared!Lose(c)
    BY <1>1, <2>1 DEF Shared!Lose
  <2>3. QED
    BY <2>2 DEF Shared!Next
<1>5. CASE conns[c].life = "destroyed" /\ conns'[c].life = "gone"
  BY <1>0, <1>2, <1>5, LinkIs DEF Life
<1>6. QED
  BY <1>2, <1>3, <1>4, <1>5 DEF Forward

\* The functions of ready() on the life of a connection.
LEMMA LifeOps ==
    ASSUME NEW k \in Conn
    PROVE  /\ StopPingInterval(k).life = k.life /\ ResetPingInterval(k).life = k.life
           /\ StopIdleTimeout(k).life = k.life /\ ResetIdleTimeout(k).life = k.life
           /\ Cleanup(k).life = k.life /\ ReadyState(k).life = k.life
           /\ SeenAlive(k).life = k.life /\ VerifyPing(k).life = k.life
           /\ \A n \in Nat : RegisterRequests(k, n).life = k.life
           /\ StreamClosed(k).life = k.life
           /\ \A e \in BOOLEAN : Forward(k.life, Destroy(k, e).life)
           /\ \A e \in BOOLEAN : Destroy(k, e).life = k.life \/ Loses(k.life, Destroy(k, e).life)
           /\ \A c : Forward(k.life, Close(k, c).life)
           /\ AbortReady(k).life = k.life \/ Loses(k.life, AbortReady(k).life)
<1>1. /\ StopPingInterval(k).life = k.life /\ ResetPingInterval(k).life = k.life
      /\ StopIdleTimeout(k).life = k.life /\ ResetIdleTimeout(k).life = k.life
      /\ SeenAlive(k).life = k.life
  BY DEF Conn, StopPingInterval, ResetPingInterval, StopIdleTimeout, ResetIdleTimeout, SeenAlive
<1>2. Cleanup(k).life = k.life /\ ReadyState(k).life = k.life
  BY DEF Conn, Cleanup, ReadyState
<1>3. VerifyPing(k).life = k.life
  BY DEF Conn, VerifyPing
<1>4. \A l \in Conn : ResetPingInterval(l).life = l.life /\ StopIdleTimeout(l).life = l.life
                      /\ ResetIdleTimeout(l).life = l.life
  BY DEF Conn, StopPingInterval, ResetPingInterval, StopIdleTimeout, ResetIdleTimeout
<1>5. ASSUME NEW z \in Int
      PROVE  LET m == [k EXCEPT !.streams = z] IN
             /\ m.life = k.life /\ ResetPingInterval(m).life = k.life
             /\ StopIdleTimeout(ResetPingInterval(m)).life = k.life
             /\ ResetIdleTimeout(ResetPingInterval(m)).life = k.life
  <2> DEFINE m == [k EXCEPT !.streams = z]
  <2>1. m \in Conn /\ m.life = k.life
    BY DEF Conn
  <2> HIDE DEF m
  <2>2. ResetPingInterval(m) \in Conn
    BY <2>1, OpsType
  <2>3. QED
    BY <1>4, <2>1, <2>2 DEF m
<1>6. k.streams \in Int
  BY DEF Conn
<1>7. \A n \in Nat : RegisterRequests(k, n).life = k.life
  <2> SUFFICES ASSUME NEW n \in Nat PROVE RegisterRequests(k, n).life = k.life
    OBVIOUS
  <2>1. k.streams + n \in Int
    BY <1>6
  <2>2. QED
    BY <1>5, <2>1 DEF RegisterRequests
<1>8. StreamClosed(k).life = k.life
  <2>1. k.streams - 1 \in Int
    BY <1>6
  <2>2. QED
    BY <1>5, <2>1 DEF StreamClosed
<1>9. ASSUME NEW l \in Conn, NEW e \in BOOLEAN
      PROVE  Destroy(l, e).life = l.life \/ Loses(l.life, Destroy(l, e).life)
  <2>1. Alive(l) => Destroy(l, e).life = "destroyed"
    BY DEF Destroy, Conn
  <2>2. ~Alive(l) => Destroy(l, e) = l
    BY DEF Destroy
  <2>3. QED
    BY <2>1, <2>2 DEF Alive, Loses
<1>10. \A e \in BOOLEAN : Forward(k.life, Destroy(k, e).life)
  <2> SUFFICES ASSUME NEW e \in BOOLEAN PROVE Forward(k.life, Destroy(k, e).life)
    OBVIOUS
  <2>1. Destroy(k, e).life = k.life \/ Loses(k.life, Destroy(k, e).life)
    BY <1>9
  <2>2. QED
    BY <2>1 DEF Forward
<1>11. \A c : Forward(k.life, Close(k, c).life)
  <2> SUFFICES ASSUME NEW c PROVE Forward(k.life, Close(k, c).life)
    OBVIOUS
  <2>1. [k EXCEPT !.life = "closing"].life = "closing"
    BY DEF Conn
  <2>2. Forward(k.life, Destroy(k, FALSE).life) /\ Forward(k.life, k.life)
    BY <1>10 DEF Forward
  <2>3. k.life = "open" => Forward(k.life, "closing")
    BY DEF Forward, Loses
  <2>4. QED
    BY <2>1, <2>2, <2>3 DEF Close
<1>12. AbortReady(k).life = k.life \/ Loses(k.life, AbortReady(k).life)
  <2> DEFINE m == [k EXCEPT !.lst = @ \cup {"swallow"}]
  <2>1. m \in Conn /\ m.life = k.life
    BY DEF Conn, Listener
  <2> HIDE DEF m
  <2>2. AbortReady(k) = k \/ AbortReady(k) = Destroy(m, TRUE)
    BY DEF AbortReady, m
  <2>3. QED
    BY <1>9, <2>1, <2>2
<1>13. QED
  BY <1>1, <1>2, <1>3, <1>7, <1>8, <1>9, <1>10, <1>11, <1>12

LEMMA CallsAlone ==
    ASSUME call' = call
    PROVE  \A r \in Calls : SameCall(r)
  BY DEF SameCall

\* setState() leaves the life of a connection as it finds it.
LEMMA SetStateLife ==
    ASSUME TypeOK, NEW cs \in [Conns -> Conn], NEW s \in Mgr, SetState(cs, s)
    PROVE  \A d \in Conns : conns'[d].life = cs[d].life
  BY SetStateEffect DEF Exited

\* An event of one connection, or of a timer of it.
LEMMA EventOfOne ==
    ASSUME TypeOK, NEW c \in Conns, NEW n \in Conn, Forward(conns[c].life, n.life),
           \/ SetConn(c, n)
           \/ \E s \in Mgr : SetState([conns EXCEPT ![c] = n], s),
           call' = call, aborts' = aborts
    PROVE  [Shared!Next]_(Shared!vars)
<1>1. conns \in [Conns -> Conn]
  BY DEF TypeOK
<1> DEFINE cs == [conns EXCEPT ![c] = n]
<1>2. cs \in [Conns -> Conn] /\ cs[c] = n /\ \A d \in Conns \ {c} : cs[d] = conns[d]
  BY <1>1
<1>3. \A d \in Conns : conns'[d].life = cs[d].life
  <2>1. CASE SetConn(c, n)
    BY <2>1 DEF SetConn
  <2>2. CASE \E s \in Mgr : SetState(cs, s)
    <3> HIDE DEF cs
    <3>1. QED
      BY <1>2, <2>2, SetStateLife
  <2>3. QED
    BY <2>1, <2>2
<1> HIDE DEF cs
<1>4. conns'[c].life = n.life /\ \A d \in Conns \ {c} : SameLife(d)
  BY <1>2, <1>3 DEF SameLife
<1>5. QED
  BY <1>4, CallsAlone, LifeStep

LEMMA EventsShared ==
    ASSUME ConfigAssumption, SharedInv, Event
    PROVE  [Shared!Next]_(Shared!vars)
<1>1. TypeOK /\ conns \in [Conns -> Conn] /\ call \in [Calls -> Call]
  BY DEF SharedInv, SessionInv, IInv, TypeOK
<1>2. Closed \in Mgr /\ Errored \in Mgr
  BY MgrStates
<1>3. ASSUME NEW c \in Conns, OnConnect(c) \/ ConnectFails(c)
      PROVE  [Shared!Next]_(Shared!vars)
  <2>1. PICK n : SetConn(c, n) /\ Forward(conns[c].life, n.life)
    <3>1. conns[c] \in Conn
      BY <1>1
    <3> DEFINE k == conns[c]
    <3>2. CASE OnConnect(c)
      <4> DEFINE m == [k EXCEPT !.life = "open", !.lst = @ \ {"connect"}, !.prom = "settled"]
                 n == [k EXCEPT !.life = "open"]
      <4>1. k.life = "connecting" /\ m.life = "open" /\ n.life = "open"
        BY <3>1, <3>2 DEF OnConnect, Conn
      <4>2. SetConn(c, m) \/ SetConn(c, n)
        BY <3>2 DEF OnConnect
      <4> HIDE DEF k, m, n
      <4>3. QED
        BY <4>1, <4>2 DEF Forward, k
    <3>3. CASE ConnectFails(c)
      <4> DEFINE n == [k EXCEPT !.life = "gone"]
                 m == [n EXCEPT !.lst = {}, !.prom = "settled"]
      <4>1. k.life = "connecting" /\ n.life = "gone" /\ m.life = "gone"
        BY <3>1, <3>3 DEF ConnectFails, Conn
      <4>2. SetConn(c, m) \/ SetConn(c, n)
        BY <3>3 DEF ConnectFails
      <4> HIDE DEF k, m, n
      <4>3. QED
        BY <4>1, <4>2 DEF Forward, Loses, k
    <3>4. QED
      BY <1>3, <3>2, <3>3
  <2>2. call' = call /\ aborts' = aborts
    BY <1>3 DEF OnConnect, ConnectFails
  <2>3. conns'[c].life = n.life /\ \A d \in Conns \ {c} : SameLife(d)
    BY <1>1, <2>1 DEF SetConn, SameLife
  <2>4. QED
    BY <1>1, <2>1, <2>2, <2>3, CallsAlone, LifeStep
<1>4. ASSUME NEW c \in Conns,
             \/ \E fault \in {"reset", "close"} : SocketEnds(c, fault)
             \/ Goaway(c) \/ GoawayCalm(c) \/ PeerMute(c) \/ GetStale(c)
      PROVE  [Shared!Next]_(Shared!vars)
  <2> DEFINE k == conns[c]
  <2>1. k \in Conn
    BY <1>1
  <2>2. /\ [k EXCEPT !.mute = TRUE] \in Conn /\ Forward(k.life, [k EXCEPT !.mute = TRUE].life)
        /\ [k EXCEPT !.stale = TRUE] \in Conn /\ Forward(k.life, [k EXCEPT !.stale = TRUE].life)
    BY <2>1 DEF Conn, Forward
  <2>3. \A e \in BOOLEAN : Destroy(k, e) \in Conn /\ Forward(k.life, Destroy(k, e).life)
    BY <2>1, DestroyType, LifeOps
  <2>4. Close(k, c) \in Conn /\ Forward(k.life, Close(k, c).life)
    BY <2>1, EndOpsType, LifeOps
  <2>5. (\E n \in {[k EXCEPT !.mute = TRUE], [k EXCEPT !.stale = TRUE], Close(k, c),
                   Destroy(k, TRUE), Destroy(k, FALSE)} : SetConn(c, n))
        /\ call' = call /\ aborts' = aborts
    BY <1>4 DEF SocketEnds, Goaway, GoawayCalm, PeerMute, GetStale
  <2> HIDE DEF k
  <2>6. PICK n \in Conn : SetConn(c, n) /\ Forward(k.life, n.life)
    BY <2>2, <2>3, <2>4, <2>5
  <2>7. QED
    BY <1>1, <2>5, <2>6, EventOfOne DEF k
<1>5. ASSUME NEW c \in Conns, EndEvent(c)
      PROVE  [Shared!Next]_(Shared!vars)
  <2> DEFINE k == [conns[c] EXCEPT !.life = "gone", !.lst = @ \ {"ping", "swallow"}]
             p == [k EXCEPT !.ping = "settled"]
  <2>1. conns[c] \in Conn /\ conns[c].life = "destroyed"
    BY <1>1, <1>5 DEF EndEvent
  <2>2. k \in Conn /\ k.life = "gone" /\ p \in Conn /\ p.life = "gone"
    BY <2>1 DEF Conn, Life, Promise
  <2>3. Cleanup(k) \in Conn /\ Cleanup(k).life = "gone"
    BY <2>2, OpsType, LifeOps
  <2>4. /\ \/ SetConn(c, k) \/ SetConn(c, p) \/ SetConn(c, Cleanup(k))
           \/ SetState([conns EXCEPT ![c] = Cleanup(k)], Errored)
           \/ SetState([conns EXCEPT ![c] = Cleanup(k)], Closed)
        /\ call' = call /\ aborts' = aborts
    BY <1>5 DEF EndEvent
  <2>5. \A n : n.life = "gone" => Forward(conns[c].life, n.life)
    BY <2>1 DEF Forward
  <2> HIDE DEF k, p
  <2>6. \E n \in {k, p, Cleanup(k)} :
           SetConn(c, n) \/ \E s \in Mgr : SetState([conns EXCEPT ![c] = n], s)
    BY <1>2, <2>4
  <2>7. QED
    BY <1>1, <2>2, <2>3, <2>4, <2>5, <2>6, EventOfOne
<1>6. ASSUME NEW c \in Conns, NEW late \in BOOLEAN,
             PingAnswered(c, late) \/ IntervalPingAnswered(c, late)
      PROVE  [Shared!Next]_(Shared!vars)
  <2> DEFINE k == [conns[c] EXCEPT !.tmr = @ \ {"timeout"}]
             m == [conns[c] EXCEPT !.tmr = @ \ {"timeout"}, !.pings = @ - 1]
             p == [SeenAlive(k) EXCEPT !.ping = "settled"]
  <2>1. conns[c] \in Conn
    BY <1>1
  <2>2. k \in Conn /\ k.life = conns[c].life
    BY <2>1 DEF Conn
  <2>3. IntervalPingAnswered(c, late) => m \in Conn /\ m.life = conns[c].life
    <3>1. ASSUME conns[c].pings > 0 PROVE conns[c].pings - 1 \in 0 .. MaxPings
      BY <2>1, <3>1 DEF Conn, ConfigAssumption
    <3>2. conns[c].tmr \ {"timeout"} \in SUBSET Timer
      BY <2>1 DEF Conn
    <3>3. conns[c].pings > 0 => m \in Conn /\ m.life = conns[c].life
      BY <2>1, <3>1, <3>2 DEF Conn
    <3>4. QED
      BY <3>3 DEF IntervalPingAnswered
  <2>4. p \in Conn /\ p.life = conns[c].life
    <3>1. SeenAlive(k) \in Conn /\ SeenAlive(k).life = conns[c].life
      BY <2>2, OpsType, LifeOps
    <3> HIDE DEF k
    <3>2. QED
      BY <3>1 DEF Conn, Promise
  <2>5. /\ \/ SetConn(c, Destroy(k, TRUE)) \/ SetConn(c, p)
           \/ /\ IntervalPingAnswered(c, late)
              /\ SetConn(c, Destroy(m, TRUE)) \/ SetConn(c, ResetPingInterval(SeenAlive(m)))
        /\ call' = call /\ aborts' = aborts
    BY <1>6 DEF PingAnswered, IntervalPingAnswered
  <2> HIDE DEF k, m, p
  <2>6. ASSUME NEW l \in Conn, l.life = conns[c].life
        PROVE  /\ Destroy(l, TRUE) \in Conn /\ Forward(conns[c].life, Destroy(l, TRUE).life)
               /\ ResetPingInterval(SeenAlive(l)) \in Conn
               /\ Forward(conns[c].life, ResetPingInterval(SeenAlive(l)).life)
    <3>1. Destroy(l, TRUE) \in Conn /\ Forward(conns[c].life, Destroy(l, TRUE).life)
      BY <2>6, DestroyType, LifeOps
    <3>2. SeenAlive(l) \in Conn /\ SeenAlive(l).life = conns[c].life
      BY <2>6, OpsType, LifeOps
    <3>3. QED
      BY <3>1, <3>2, OpsType, LifeOps DEF Forward
  <2>7. PICK n \in Conn : SetConn(c, n) /\ Forward(conns[c].life, n.life)
    <3>1. Forward(conns[c].life, p.life)
      BY <2>4 DEF Forward
    <3>2. QED
      BY <2>2, <2>3, <2>4, <2>5, <2>6, <3>1
  <2>8. QED
    BY <1>1, <2>5, <2>7, EventOfOne
<1>7. ASSUME NEW c \in Conns, OnPingInterval(c) \/ OnPingTimeout(c)
      PROVE  [Shared!Next]_(Shared!vars)
  <2> DEFINE k == conns[c]
             w == [k EXCEPT !.tmr = (@ \ {"interval"}) \cup {"timeout"}]
             x == [w EXCEPT !.tmr = @ \ {"timeout"}]
             y == [w EXCEPT !.pings = @ + 1]
             z == [k EXCEPT !.tmr = @ \ {"timeout"}]
  <2>1. k \in Conn
    BY <1>1
  <2>2. w \in Conn /\ w.life = k.life /\ w.pings = k.pings /\ z \in Conn /\ z.life = k.life
    BY <2>1 DEF Conn, Timer
  <2>3. x \in Conn /\ x.life = k.life
    <3> HIDE DEF w
    <3>1. QED
      BY <2>2 DEF Conn
  <2>4. PingSent(w) => y \in Conn /\ y.life = k.life
    <3> HIDE DEF w
    <3>1. PingSent(w) => w.pings + 1 \in 0 .. MaxPings
      BY <2>2 DEF PingSent, Conn, ConfigAssumption
    <3>2. QED
      BY <2>2, <3>1 DEF Conn
  <2>5. Destroy(z, TRUE) \in Conn /\ Forward(k.life, Destroy(z, TRUE).life)
    BY <2>2, DestroyType, LifeOps
  <2>6. /\ \/ SetConn(c, w) \/ SetConn(c, x) \/ (PingSent(w) /\ SetConn(c, y))
           \/ SetConn(c, Destroy(z, TRUE))
        /\ call' = call /\ aborts' = aborts
    BY <1>7 DEF OnPingInterval, OnPingTimeout
  <2>7. \A n : n.life = k.life => Forward(k.life, n.life)
    BY DEF Forward
  <2> HIDE DEF k, w, x, y, z
  <2>8. PICK n \in Conn : SetConn(c, n) /\ Forward(k.life, n.life)
    BY <2>2, <2>3, <2>4, <2>5, <2>6, <2>7
  <2>9. QED
    BY <1>1, <2>6, <2>8, EventOfOne DEF k
<1>8. ASSUME NEW c \in Conns, OnIdleTimeout(c)
      PROVE  [Shared!Next]_(Shared!vars)
  <2> DEFINE z == [conns[c] EXCEPT !.tmr = @ \ {"idle"}]
             k == Cleanup(Close(z, c))
  <2>1. conns[c] \in Conn
    BY <1>1
  <2>2. z \in Conn /\ z.life = conns[c].life
    BY <2>1 DEF Conn
  <2>3. /\ SetConn(c, k) \/ SetState([conns EXCEPT ![c] = k], Closed)
        /\ call' = call /\ aborts' = aborts
    BY <1>8 DEF OnIdleTimeout
  <2> HIDE DEF z
  <2>4. Close(z, c) \in Conn /\ Forward(conns[c].life, Close(z, c).life)
    BY <2>2, EndOpsType, LifeOps
  <2>5. k \in Conn /\ Forward(conns[c].life, k.life)
    BY <2>4, OpsType, LifeOps
  <2> HIDE DEF k
  <2>6. QED
    BY <1>1, <1>2, <2>3, <2>5, EventOfOne
<1>9. ASSUME NEW r \in Calls, StreamResponse(r) \/ StreamBytes(r)
      PROVE  [Shared!Next]_(Shared!vars)
  <2> DEFINE c == call[r].c
             k == ResetPingInterval(SeenAlive(conns[c]))
  <2>1. c \in Conns
    <3>1. call[r].pc # "new"
      BY <1>9 DEF StreamResponse, StreamBytes
    <3>2. QED
      BY <3>1 DEF SharedInv, SessionInv, StateInv, Placed
  <2>2. SeenAlive(conns[c]) \in Conn /\ SeenAlive(conns[c]).life = conns[c].life
    BY <1>1, <2>1, OpsType, LifeOps
  <2>3. k.life = conns[c].life
    BY <2>2, LifeOps
  <2>4. /\ conns' = [conns EXCEPT ![c] = k] /\ aborts' = aborts
        /\ call' = call \/ (call[r].pc = "stream" /\ call' = [call EXCEPT ![r].pc = "reading"])
    BY <1>9 DEF StreamResponse, StreamBytes, SetConn
  <2> HIDE DEF k
  <2>5. \A d \in Conns : SameLife(d)
    BY <1>1, <2>1, <2>3, <2>4 DEF SameLife
  <2>6. \A q \in Calls : SameCall(q)
    <3>1. CASE call' = call
      BY <3>1, CallsAlone
    <3>2. CASE call[r].pc = "stream" /\ call' = [call EXCEPT ![r].pc = "reading"]
      <4>1. call'[r].pc = "reading" /\ call'[r].c = call[r].c
            /\ \A q \in Calls \ {r} : call'[q] = call[q]
        BY <1>1, <3>2 DEF Call
      <4>2. QED
        BY <3>2, <4>1, UseIs DEF SameCall
    <3>3. QED
      BY <2>4, <3>1, <3>2
  <2>7. QED
    BY <2>4, <2>5, <2>6, Stutters
<1>10. ASSUME NEW r \in Calls, OnStreamClose(r)
       PROVE  [Shared!Next]_(Shared!vars)
  <2> DEFINE c == call[r].c
             k == StreamClosed(conns[c])
  <2>1. call[r].pc \in Streaming /\ call[r].pc # "new" /\ UseOf(call[r].pc) = "using"
    BY <1>10, UseIs DEF OnStreamClose, Streaming
  <2>2. c \in Conns
    BY <2>1 DEF SharedInv, SessionInv, StateInv, Placed
  <2>3. k \in Conn /\ k.life = conns[c].life
    BY <1>1, <2>2, StreamOpsType, LifeOps
  <2>4. Destroy(k, FALSE).life = k.life \/ Loses(k.life, Destroy(k, FALSE).life)
    BY <2>3, LifeOps
  <2>5. /\ \/ conns' = [conns EXCEPT ![c] = k]
           \/ k.life = "closing" /\ conns' = [conns EXCEPT ![c] = Destroy(k, FALSE)]
        /\ call' = [call EXCEPT ![r].pc = "done"] /\ aborts' = aborts
    BY <1>10 DEF OnStreamClose, SetConn
  <2> HIDE DEF k
  <2>6. \A d \in Conns \ {c} : SameLife(d)
    BY <1>1, <2>2, <2>5 DEF SameLife
  <2>7. conns'[c].life = conns[c].life
        \/ (conns[c].life = "closing" /\ conns'[c].life \in {"destroyed", "gone"})
    BY <1>1, <2>2, <2>3, <2>4, <2>5 DEF Loses
  <2>8. /\ call'[r].pc = "done" /\ \A q \in Calls : call'[q].c = call[q].c
        /\ \A q \in Calls \ {r} : call'[q].pc = call[q].pc
    BY <1>1, <2>5 DEF Call
  <2> DEFINE link == [d \in Conns |-> LinkOf(conns[d].life)]
             use == [q \in Calls |-> UseOf(call[q].pc)]
             on == [q \in Calls |-> call[q].c]
  <2>9. use' = [use EXCEPT ![r] = "over"] /\ use[r] = "using" /\ on' = on /\ on[r] = c
    BY <2>1, <2>8, UseIs
  <2>10. link' = link \/ (link[c] = "draining" /\ Shared!Becomes(c, "gone"))
    <3>1. CASE conns'[c].life = conns[c].life
      BY <2>6, <3>1 DEF SameLife
    <3>2. CASE conns[c].life = "closing" /\ conns'[c].life \in {"destroyed", "gone"}
      <4>1. LinkOf(conns'[c].life) = "gone" /\ LinkOf(conns[c].life) = "draining"
        BY <3>2, LinkIs DEF Life
      <4>2. QED
        BY <2>2, <2>6, <4>1, Becoming
    <3>3. QED
      BY <2>7, <3>1, <3>2
  <2>11. Shared!Finish(r)
    BY <2>5, <2>9, <2>10 DEF Shared!Finish
  <2>12. QED
    BY <2>11 DEF Shared!Next
<1>11. QED
  BY <1>3, <1>4, <1>5, <1>6, <1>7, <1>8, <1>9, <1>10 DEF Event

\* Until abort(), a connection that is being established or open is the
\* manager's, or replaces the manager's, which is lost.
LEMMA CurrentIs ==
    ASSUME SharedInv, aborts = 0, NEW d \in Conns, conns[d].life \in {"connecting", "open"}
    PROVE  \/ d = mgr.c
           \/ /\ mgr.t = "verifying" /\ mgr.c \in Conns
              /\ conns[mgr.c].life \in {"destroyed", "gone"}
<1>1. SingleConnection /\ VerifyJobs /\ PingJobs /\ mgr \in Mgr /\ jobs \in Seq(Job)
      /\ conns \in [Conns -> Conn]
  BY DEF SharedInv, SessionInv, IInv, TypeOK, PromiseInv, QueueInv, Unaborted
<1>2. SUFFICES ASSUME d # mgr.c
      PROVE  /\ mgr.t = "verifying" /\ mgr.c \in Conns
             /\ conns[mgr.c].life \in {"destroyed", "gone"}
  OBVIOUS
<1>3. PICK i \in 1 .. Len(jobs) : jobs[i].job = "verified" /\ jobs[i].to = d
  BY <1>1, <1>2 DEF SingleConnection
<1>4. i \in Verifications
  BY <1>3 DEF Verifications, At
<1>5. mgr = Verifying(jobs[i].c)
  BY <1>1, <1>4 DEF VerifyJobs
<1>6. mgr.t = "verifying" /\ mgr.c = jobs[i].c
  BY <1>5 DEF Verifying
<1>7. jobs[i].res = "failed"
  BY <1>1, <1>2, <1>3, <1>4, <1>6 DEF PingJobs
<1>8. ~Alive(conns[mgr.c])
  BY <1>1, <1>4, <1>6, <1>7 DEF VerifyJobs
<1>9. mgr.c \in Conns /\ conns[mgr.c].life # "unused"
  BY <1>6, ManagedLife DEF SharedInv
<1>10. QED
  BY <1>1, <1>6, <1>8, <1>9 DEF Alive, Conn, Life

\* A call of user code that joins the manager's connection.
LEMMA Joins ==
    ASSUME ConfigAssumption, SharedInv, NEW r \in Calls, call[r].pc = "new",
           mgr.t \in {"connecting", "verifying", "ready"},
           NEW pc \in {"go", "conn", "verify"}, NEW kind, Wait(r, kind, pc, mgr.c),
           \A d \in Conns : SameLife(d), aborts' = aborts
    PROVE  [Shared!Next]_(Shared!vars)
<1>0. PICK c \in Conns : c = mgr.c
  BY ManagedLife DEF SharedInv
<1> DEFINE link == [d \in Conns |-> LinkOf(conns[d].life)]
           use == [q \in Calls |-> UseOf(call[q].pc)]
           on == [q \in Calls |-> call[q].c]
<1>1. call \in [Calls -> Call] /\ conns \in [Conns -> Conn] /\ aborts \in Nat
  BY DEF SharedInv, SessionInv, IInv, TypeOK, ConfigAssumption
<1>2. c \in Conns /\ conns[c].life \in Life /\ conns[c].life # "unused"
  BY <1>0, <1>1, ManagedLife DEF SharedInv, Conn
<1>3. /\ call'[r].pc = pc /\ call'[r].c = c
      /\ \A q \in Calls \ {r} : call'[q] = call[q]
  BY <1>0, <1>1 DEF Wait
<1>4. use[r] = "new" /\ use' = [use EXCEPT ![r] = "waiting"]
  BY <1>3, UseIs
<1>5. on' = [on EXCEPT ![r] = c]
  BY <1>3
<1>6. link' = link
  BY DEF SameLife
<1>7. link[c] # "none"
  BY <1>2, LinkIs
<1>8. aborts = 0 => link[c] = "gone" \/ Shared!Current \subseteq {c}
  <2> SUFFICES ASSUME aborts = 0, link[c] # "gone", NEW d \in Shared!Current PROVE d = c
    OBVIOUS
  <2>1. d \in Conns /\ LinkOf(conns[d].life) \in {"opening", "open"}
    BY DEF Shared!Current
  <2>2. conns[d].life \in {"connecting", "open"}
    BY <1>1, <2>1, LinkIs DEF Conn
  <2>3. conns[c].life \notin {"destroyed", "gone"}
    BY <1>2, LinkIs
  <2>4. QED
    BY <1>0, <2>1, <2>2, <2>3, CurrentIs
<1>9. aborts > 0 \/ aborts = 0
  BY <1>1
<1>10. Shared!Ask(r, c)
  <2> HIDE DEF link
  <2>1. (aborts > 0) \/ link[c] = "gone" \/ Shared!Current \subseteq {c}
    BY <1>8, <1>9
  <2>2. QED
    BY <1>4, <1>5, <1>6, <1>7, <2>1 DEF Shared!Ask, link
<1>11. QED
  BY <1>10 DEF Shared!Next

\* connect() on a connection that was never used.
LEMMA ConnectLife ==
    ASSUME TypeOK, NEW c \in Fresh(conns)
    PROVE  /\ c \in Conns /\ Connect(conns, c) \in [Conns -> Conn]
           /\ conns[c].life = "unused" /\ Connect(conns, c)[c].life = "connecting"
           /\ \A d \in Conns \ {c} : Connect(conns, c)[d].life = conns[d].life
<1>1. c \in Conns /\ Connect(conns, c) \in [Conns -> Conn] /\ conns[c].life = "unused"
  BY ConnectType DEF Fresh
<1>2. conns \in [Conns -> Conn]
  BY DEF TypeOK
<1>3. Connect(conns, c)[c].life = "connecting"
  BY <1>1, <1>2 DEF Connect, Conn
<1>4. \A d \in Conns \ {c} : Connect(conns, c)[d] = conns[d]
  BY <1>1, <1>2 DEF Connect
<1>5. QED
  BY <1>1, <1>3, <1>4

\* A connection is opened while there is none that calls could share.
LEMMA Opens ==
    ASSUME ConfigAssumption, SharedInv, NEW c \in Conns,
           conns[c].life = "unused", conns'[c].life = "connecting",
           \A d \in Conns \ {c} : SameLife(d),
           aborts = 0 => \A d \in Conns : conns[d].life \notin {"connecting", "open"}
    PROVE  Shared!Open(c)
<1>1. conns \in [Conns -> Conn] /\ aborts \in Nat
  BY DEF SharedInv, SessionInv, IInv, TypeOK, ConfigAssumption
<1>2. \A d \in Conns : conns[d].life \in Life
  BY <1>1 DEF Conn
<1>3. LinkOf(conns[c].life) = "none" /\ LinkOf(conns'[c].life) = "opening"
  BY LinkIs DEF Life
<1>4. Shared!Becomes(c, "opening")
  BY <1>3, Becoming
<1>5. aborts = 0 => Shared!Current = {}
  <2> SUFFICES ASSUME aborts = 0, NEW d \in Shared!Current PROVE FALSE
    OBVIOUS
  <2>1. d \in Conns /\ LinkOf(conns[d].life) \in {"opening", "open"}
    BY DEF Shared!Current
  <2>2. QED
    BY <1>2, <2>1, LinkIs
<1>6. (aborts > 0) \/ Shared!Current = {}
  BY <1>1, <1>5
<1>7. [d \in Conns |-> LinkOf(conns[d].life)][c] = "none"
  BY <1>3
<1>8. QED
  BY <1>4, <1>6, <1>7 DEF Shared!Open

LEMMA UserShared ==
    ASSUME ConfigAssumption, SharedInv, UserCode
    PROVE  [Shared!Next]_(Shared!vars)
<1>1. /\ TypeOK /\ conns \in [Conns -> Conn] /\ call \in [Calls -> Call] /\ mgr \in Mgr
      /\ aborts \in Nat
  BY DEF SharedInv, SessionInv, IInv, TypeOK, ConfigAssumption
<1>2. mgr.t \in {"connecting", "verifying", "ready"} => mgr.c \in Conns
  BY <1>1, MgrStates
<1>3. ASSUME NEW r \in Calls, NEW kind \in {"request", "connect"}, CallReady(r, kind)
      PROVE  [Shared!Next]_(Shared!vars)
  BY <1>3, Joins DEF CallReady, SameLife
<1>4. ASSUME NEW r \in Calls, NEW kind \in {"request", "connect"}, CallWait(r, kind)
      PROVE  [Shared!Next]_(Shared!vars)
  <2>1. \E pc \in {"conn", "verify"} : Wait(r, kind, pc, mgr.c)
    BY <1>4 DEF CallWait
  <2>2. QED
    BY <1>4, <2>1, Joins DEF CallWait, SameLife
<1>5. ASSUME NEW r \in Calls, NEW kind \in {"request", "connect"}, CallVerify(r, kind)
      PROVE  [Shared!Next]_(Shared!vars)
  <2> DEFINE c == mgr.c
             k == VerifyPing(conns[c])
             cs == [conns EXCEPT ![c] = k]
  <2>1. /\ c \in Conns /\ SetState(cs, Verifying(c)) /\ Verifying(c) \in Mgr
        /\ Wait(r, kind, "verify", c) /\ mgr.t = "ready" /\ call[r].pc = "new" /\ aborts' = aborts
    BY <1>2, <1>5, MgrStates DEF CallVerify
  <2>2. k \in Conn /\ k.life = conns[c].life
    BY <1>1, <2>1, VerifyPingType, LifeOps
  <2> HIDE DEF k
  <2>3. cs \in [Conns -> Conn] /\ \A d \in Conns : cs[d].life = conns[d].life
    BY <1>1, <2>1, <2>2
  <2> HIDE DEF cs
  <2>4. \A d \in Conns : SameLife(d)
    BY <1>1, <2>1, <2>3, SetStateLife DEF SameLife
  <2>5. QED
    BY <2>1, <2>4, Joins
<1>6. ASSUME NEW r \in Calls, NEW kind \in {"request", "connect"}, CallConnect(r, kind)
      PROVE  [Shared!Next]_(Shared!vars)
  <2>1. PICK c \in Fresh(conns) : /\ SetState(Connect(conns, c), Connecting(c))
                                  /\ Wait(r, kind, "conn", c)
    BY <1>6 DEF CallConnect
  <2>2. call[r].pc = "new" /\ mgr.t \in {"closed", "error"} /\ aborts' = aborts
    BY <1>6 DEF CallConnect
  <2>3. /\ c \in Conns /\ Connect(conns, c) \in [Conns -> Conn]
        /\ conns[c].life = "unused" /\ Connect(conns, c)[c].life = "connecting"
        /\ \A d \in Conns \ {c} : Connect(conns, c)[d].life = conns[d].life
    BY <1>1, ConnectLife
  <2>4. conns'[c].life = "connecting" /\ \A d \in Conns \ {c} : SameLife(d)
    BY <1>1, <2>1, <2>3, SetStateLife, MgrStates DEF SameLife
  <2>5. mgr.c \notin Conns
    BY <1>1, <2>2 DEF Mgr, ConfigAssumption
  <2>6. aborts = 0 => \A d \in Conns : conns[d].life \notin {"connecting", "open"}
    BY <2>2, <2>5, CurrentIs
  <2>7. Shared!Open(c)
    BY <2>3, <2>4, <2>6, Opens
  <2>8. call'[r].pc = "conn" /\ call'[r].c = c /\ \A q \in Calls \ {r} : call'[q] = call[q]
    BY <1>1, <2>1 DEF Wait
  <2> DEFINE use == [q \in Calls |-> UseOf(call[q].pc)]
             on == [q \in Calls |-> call[q].c]
  <2>9. use[r] = "new" /\ use' = [use EXCEPT ![r] = "waiting"] /\ on' = [on EXCEPT ![r] = c]
    BY <2>2, <2>8, UseIs
  <2>10. Shared!Ask(r, c)
    BY <2>2, <2>7, <2>9 DEF Shared!Ask
  <2>11. QED
    BY <2>3, <2>10 DEF Shared!Next
<1>7. ASSUME NEW reason \in {"canceled", "failed"}, Abort(reason)
      PROVE  [Shared!Next]_(Shared!vars)
  <2> DEFINE c == mgr.c
  <2>1. aborts' = aborts + 1 /\ call' = call
    BY <1>7 DEF Abort
  <2>2. (aborts > 0)' = TRUE
    BY <1>1, <2>1
  <2>3. PICK cs \in [Conns -> Conn], s \in Mgr :
           /\ SetState(cs, s)
           /\ \/ cs = conns
              \/ /\ c \in Conns /\ \A d \in Conns \ {c} : cs[d] = conns[d]
                 /\ cs[c].life = conns[c].life \/ Loses(conns[c].life, cs[c].life)
    <3> DEFINE k == conns[c]
               d0 == Destroy(k, FALSE)
               n == [d0 EXCEPT !.prom = "settled"]
    <3>1. ClosedOrError(reason) \in Mgr
      BY MgrStates
    <3>2. CASE mgr.t = "connecting"
      <4>1. c \in Conns /\ k \in Conn /\ SetState([conns EXCEPT ![c] = n], ClosedOrError(reason))
        BY <1>1, <1>2, <1>7, <3>2 DEF Abort
      <4>2. d0 \in Conn /\ (d0.life = k.life \/ Loses(k.life, d0.life))
        BY <4>1, DestroyType, LifeOps
      <4> HIDE DEF d0
      <4>3. n \in Conn /\ n.life = d0.life
        BY <4>2 DEF Conn, Promise
      <4> HIDE DEF n
      <4>4. /\ [conns EXCEPT ![c] = n] \in [Conns -> Conn] /\ [conns EXCEPT ![c] = n][c] = n
            /\ \A d \in Conns \ {c} : [conns EXCEPT ![c] = n][d] = conns[d]
        BY <1>1, <4>1, <4>3
      <4>5. QED
        BY <3>1, <4>1, <4>2, <4>3, <4>4
    <3>3. CASE mgr.t \in {"verifying", "ready"}
      <4> DEFINE m == AbortReady(k)
      <4>1. c \in Conns /\ k \in Conn /\ SetState([conns EXCEPT ![c] = m], ClosedOrError(reason))
        BY <1>1, <1>2, <1>7, <3>3 DEF Abort
      <4>2. m \in Conn /\ (m.life = k.life \/ Loses(k.life, m.life))
        BY <4>1, EndOpsType, LifeOps
      <4> HIDE DEF m
      <4>3. /\ [conns EXCEPT ![c] = m] \in [Conns -> Conn] /\ [conns EXCEPT ![c] = m][c] = m
            /\ \A d \in Conns \ {c} : [conns EXCEPT ![c] = m][d] = conns[d]
        BY <1>1, <4>1, <4>2
      <4>4. QED
        BY <3>1, <4>1, <4>2, <4>3
    <3>4. CASE mgr.t \notin {"connecting", "verifying", "ready"}
      BY <1>1, <1>7, <3>1, <3>4 DEF Abort
    <3>5. QED
      BY <3>2, <3>3, <3>4
  <2>4. \A d \in Conns : conns'[d].life = cs[d].life
    BY <1>1, <2>3, SetStateLife
  <2>5. UNCHANGED [d \in Conns |-> LinkOf(conns[d].life)] \/ \E d \in Conns : Shared!Lost(d)
    <3>1. CASE \A d \in Conns : cs[d].life = conns[d].life
      BY <2>4, <3>1
    <3>2. CASE /\ c \in Conns /\ \A d \in Conns \ {c} : cs[d] = conns[d]
               /\ Loses(conns[c].life, cs[c].life)
      <4>1. \A d \in Conns \ {c} : SameLife(d)
        BY <2>4, <3>2 DEF SameLife
      <4>2. Loses(conns[c].life, conns'[c].life)
        BY <2>4, <3>2
      <4>3. Shared!Lost(c)
        BY <1>1, <3>2, <4>1, <4>2, Losing
      <4>4. QED
        BY <3>2, <4>3
    <3>3. QED
      <4>1. CASE cs = conns
        BY <3>1, <4>1
      <4>2. CASE /\ c \in Conns /\ \A d \in Conns \ {c} : cs[d] = conns[d]
                 /\ cs[c].life = conns[c].life
        BY <3>1, <4>2
      <4>3. QED
        BY <2>3, <3>2, <4>1, <4>2
  <2>6. Shared!Abort
    BY <2>1, <2>2, <2>5 DEF Shared!Abort
  <2>7. QED
    BY <2>6 DEF Shared!Next
<1>8. CASE EndTurn
  <2>1. conns' = conns /\ call' = call /\ aborts' = aborts
    BY <1>8 DEF EndTurn
  <2>2. QED
    BY <2>1, Stutters DEF SameLife, SameCall
<1>9. QED
  BY <1>3, <1>4, <1>5, <1>6, <1>7, <1>8 DEF UserCode

\* A step that changes neither calls nor connections but for the listeners.
LEMMA Moving ==
    ASSUME TypeOK, NEW s \in Mgr, SetState(conns, s), call' = call, aborts' = aborts
    PROVE  UNCHANGED Shared!vars
<1>1. \A d \in Conns : SameLife(d)
  BY SetStateLife DEF TypeOK, SameLife
<1>2. QED
  BY <1>1, CallsAlone, Stutters

\* The calls of a promise.
LEMMA WaitShared ==
    ASSUME ConfigAssumption, SharedInv,
           NEW k \in {"conn-wait", "verified-wait"}, NEW pc \in {"conn", "verify"}, RunWait(k, pc)
    PROVE  [Shared!Next]_(Shared!vars)
<1> DEFINE j == Head(jobs)
           S == {r \in Calls : call[r].pc = pc /\ call[r].c = j.c}
           link == [d \in Conns |-> LinkOf(conns[d].life)]
           use == [q \in Calls |-> UseOf(call[q].pc)]
           on == [q \in Calls |-> call[q].c]
<1>1. /\ conns \in [Conns -> Conn] /\ call \in [Calls -> Call] /\ mgr \in Mgr
      /\ aborts \in Nat /\ SessionInv
  BY DEF SharedInv, SessionInv, IInv, TypeOK, ConfigAssumption
<1>2. Micro(k) /\ conns' = conns /\ aborts' = aborts
  BY DEF RunWait
<1>3. j = jobs[1] /\ jobs # <<>> /\ j.job = k /\ IsWait(j) /\ j.c \in Conns
  BY <1>1, <1>2, MicroFront DEF IsWait
<1>4. aborts = 0 => IF j.res = "ok" THEN mgr.c = j.c ELSE conns[j.c].life \in {"destroyed", "gone"}
  BY <1>3 DEF SharedInv, FrontOwn
<1>5. /\ j.res = "ok" => mgr.t = "ready"
      /\ k = "verified-wait" /\ j.res = "failed" => mgr.t = "connecting"
  BY <1>1, <1>3 DEF SessionInv, QueueInv, FrontWait
<1>6. link' = link /\ UNCHANGED (aborts > 0)
  BY <1>2
<1>7. conns[j.c].life \in {"destroyed", "gone"} => link[j.c] = "gone"
  BY <1>1, <1>3, LinkIs DEF Conn
<1>8. aborts > 0 \/ aborts = 0
  BY <1>1
<1>9. \A r \in S : use[r] = "waiting" /\ on[r] = j.c
  BY UseIs
<1>10. CASE Fulfilled(j)
  <2>1. mgr.t \in {"ready", "connecting"}
    BY <1>3, <1>5, <1>10 DEF Fulfilled
  <2>2. mgr.c \in Conns /\ conns[mgr.c].life # "unused"
    BY <1>1, <2>1, ManagedLife
  <2>3. PICK now \in {"go", "conn"} :
           call' = [r \in Calls |-> IF r \in S THEN [call[r] EXCEPT !.pc = now, !.c = mgr.c]
                                    ELSE call[r]]
    <3>1. Resume(S, Tail(jobs))
      BY <1>10 DEF RunWait
    <3> HIDE DEF S
    <3>2. CASE mgr.t = "ready"
      BY <3>1, <3>2 DEF Resume
    <3>3. CASE mgr.t = "connecting"
      BY <3>1, <3>3 DEF Resume
    <3>4. QED
      BY <2>1, <3>2, <3>3
  <2>4. \A r \in Calls : /\ r \in S => call'[r].pc = now /\ call'[r].c = mgr.c
                         /\ r \notin S => call'[r] = call[r]
    <3> HIDE DEF S
    <3>1. QED
      BY <1>1, <2>3 DEF Call
  <2> HIDE DEF j
  <2>5. \A r \in Calls : UseOf(call'[r].pc) = UseOf(call[r].pc)
    <3>1. \A r \in S : UseOf(call[r].pc) = "waiting"
      BY <1>9
    <3>2. UseOf(now) = "waiting"
      BY <2>3, UseIs
    <3> HIDE DEF S
    <3>3. QED
      BY <2>4, <3>1, <3>2
  <2>6. use' = use
    BY <2>5
  <2>7. link[mgr.c] # "none"
    BY <1>1, <2>2, LinkIs DEF Conn
  <2>8. ASSUME NEW r \in Calls, on'[r] # on[r]
        PROVE  /\ use[r] = "waiting" /\ (aborts > 0 \/ link[on[r]] = "gone")
               /\ on'[r] \in Conns /\ link[on'[r]] # "none"
    <3>1. r \in S
      <4>1. r \notin S => call'[r].c = call[r].c
        <5> HIDE DEF S
        <5>1. QED
          BY <2>4
      <4>2. QED
        BY <2>8, <4>1
    <3>2. use[r] = "waiting" /\ on[r] = j.c
      BY <1>9, <3>1
    <3>3. on'[r] = mgr.c
      <4>1. call'[r].c = mgr.c
        <5> HIDE DEF S
        <5>1. QED
          BY <2>4, <3>1
      <4>2. QED
        BY <4>1
    <3> HIDE DEF S, link, on, use
    <3>4. aborts = 0 => link[on[r]] = "gone"
      BY <1>4, <1>7, <2>8, <3>2, <3>3
    <3>5. QED
      BY <1>8, <2>2, <2>7, <3>2, <3>3, <3>4
  <2>9. Shared!Move
    BY <1>6, <2>6, <2>8 DEF Shared!Move
  <2>10. QED
    BY <2>9 DEF Shared!Next
<1>11. CASE ~Fulfilled(j)
  <2>1. call' = [r \in Calls |-> IF r \in S THEN [call[r] EXCEPT !.pc = "failed"] ELSE call[r]]
    BY <1>11 DEF RunWait
  <2>2. \A r \in Calls : /\ r \in S => call'[r].pc = "failed" /\ call'[r].c = call[r].c
                         /\ r \notin S => call'[r] = call[r]
    <3> HIDE DEF S
    <3>1. QED
      BY <1>1, <2>1 DEF Call
  <2>3. j.res # "ok"
    BY <1>11 DEF Fulfilled
  <2> HIDE DEF j
  <2>4. on' = on
    <3>1. \A r \in Calls : call'[r].c = call[r].c
      <4> HIDE DEF S
      <4>1. QED
        BY <2>2
    <3>2. QED
      BY <3>1
  <2>5. ASSUME NEW r \in Calls, use'[r] # use[r]
        PROVE  Shared!Answers(r, use'[r])
    <3>1. r \in S
      <4>1. r \notin S => call'[r].pc = call[r].pc
        <5> HIDE DEF S
        <5>1. QED
          BY <2>2
      <4>2. QED
        BY <2>5, <4>1
    <3>2. use'[r] = "failed"
      <4>1. call'[r].pc = "failed"
        <5> HIDE DEF S
        <5>1. QED
          BY <2>2, <3>1
      <4>2. QED
        BY <4>1, UseIs
    <3>3. use[r] = "waiting" /\ on[r] = j.c
      BY <1>9, <3>1
    <3>4. (aborts > 0) \/ link[on[r]] = "gone"
      <4> HIDE DEF S, link, on, use
      <4>1. QED
        BY <1>4, <1>7, <1>8, <2>3, <3>3
    <3>5. QED
      BY <3>2, <3>3, <3>4 DEF Shared!Answers
  <2>6. Shared!Answer
    BY <1>6, <2>4, <2>5 DEF Shared!Answer
  <2>7. QED
    BY <2>6 DEF Shared!Next
<1>12. QED
  BY <1>10, <1>11

LEMMA GoShared ==
    ASSUME ConfigAssumption, SharedInv, RunGo
    PROVE  [Shared!Next]_(Shared!vars)
<1> DEFINE j == Head(jobs)
           R == {r \in j.calls : call[r].kind = "request"}
           usable == conns[j.c].life = "open"
           link == [d \in Conns |-> LinkOf(conns[d].life)]
           use == [q \in Calls |-> UseOf(call[q].pc)]
           on == [q \in Calls |-> call[q].c]
<1>1. /\ TypeOK /\ conns \in [Conns -> Conn] /\ call \in [Calls -> Call] /\ SessionInv
  BY DEF SharedInv, SessionInv, IInv, TypeOK
<1>2. Micro("go") /\ aborts' = aborts
  BY DEF RunGo
<1>3. j = jobs[1] /\ 1 \in At("go") /\ j.c \in Conns /\ j.calls \subseteq Calls
  BY <1>1, <1>2, MicroFront, HeadJob DEF At
<1>4. \A r \in j.calls : call[r].pc = "go" /\ call[r].c = j.c
  BY <1>1, <1>3 DEF SessionInv, QueueInv, GoJobs
<1>5. j.calls # {} => conns[j.c].life \in {"open", "closing", "destroyed", "gone"}
  BY <1>1, <1>3, <1>4, EstablishedLife DEF Used
<1>6. \A d \in Conns : SameLife(d)
  <2> DEFINE k == RegisterRequests(conns[j.c], Cardinality(R))
  <2>1. Cardinality(R) \in Nat
    <3>1. R \subseteq Calls
      BY <1>3
    <3>2. IsFiniteSet(R)
      BY <3>1, FS_Subset DEF ConfigAssumption
    <3>3. QED
      BY <3>2, FS_CardinalityType
  <2>2. k.life = conns[j.c].life
    <3> HIDE DEF R
    <3>1. QED
      BY <1>1, <1>3, <2>1, LifeOps
  <2>3. conns' = conns \/ conns' = [conns EXCEPT ![j.c] = k]
    BY DEF RunGo
  <2> HIDE DEF k
  <2>4. QED
    BY <1>1, <1>3, <2>2, <2>3 DEF SameLife
<1>7. \A r \in Calls :
        /\ call'[r].c = call[r].c
        /\ r \in j.calls => call'[r].pc \in {"done", IF usable THEN "stream" ELSE "failed"}
        /\ r \notin j.calls => call'[r].pc = call[r].pc
  <2> DEFINE Set(r, p) == [call[r] EXCEPT !.pc = p]
             next(r) == IF r \notin R THEN "done" ELSE IF usable THEN "stream" ELSE "failed"
  <2>1. \A r \in Calls : call'[r] = IF r \notin j.calls THEN call[r] ELSE Set(r, next(r))
    BY DEF RunGo
  <2>2. \A r \in Calls : \A p : Set(r, p).pc = p /\ Set(r, p).c = call[r].c
    BY <1>1 DEF Call
  <2> HIDE DEF Set
  <2>3. \A r \in Calls : next(r) \in {"done", IF usable THEN "stream" ELSE "failed"}
    <3> HIDE DEF usable, R
    <3>1. QED
      OBVIOUS
  <2> HIDE DEF R, usable, j, next
  <2>4. QED
    BY <2>1, <2>2, <2>3
<1> HIDE DEF j
<1>8. link' = link /\ on' = on /\ UNCHANGED (aborts > 0)
  BY <1>2, <1>6, <1>7 DEF SameLife
<1>9. ASSUME NEW r \in Calls, use'[r] # use[r]
      PROVE  Shared!Answers(r, use'[r])
  <2>1. r \in j.calls
    BY <1>7, <1>9
  <2>2. use[r] = "waiting" /\ on[r] = j.c
    BY <1>4, <2>1, UseIs
  <2>3. link[j.c] \in {"open", "draining", "gone"} /\ (link[j.c] = "open" <=> usable)
    BY <1>1, <1>3, <1>5, <2>1, LinkIs DEF Conn
  <2>4. use'[r] \in {"over", IF usable THEN "using" ELSE "failed"}
    <3>1. call'[r].pc \in {"done", IF usable THEN "stream" ELSE "failed"}
      BY <1>7, <2>1
    <3>2. QED
      BY <3>1, UseIs
  <2> HIDE DEF link, use, on, usable
  <2>5. /\ use'[r] = "over" \/ (use'[r] = "using" /\ link[on[r]] = "open")
           \/ (use'[r] = "failed" /\ link[on[r]] \in {"draining", "gone"})
        /\ link[on[r]] \in {"open", "draining", "gone"}
    BY <2>2, <2>3, <2>4
  <2>6. QED
    BY <2>2, <2>5 DEF Shared!Answers, link, use, on
<1>10. Shared!Answer
  BY <1>8, <1>9 DEF Shared!Answer
<1>11. QED
  BY <1>10 DEF Shared!Next

\* A verification that failed opens another connection, for the calls that wait.
LEMMA PingShared ==
    ASSUME ConfigAssumption, SharedInv, RunPing
    PROVE  [Shared!Next]_(Shared!vars)
<1> DEFINE j == Head(jobs)
<1>1. /\ TypeOK /\ conns \in [Conns -> Conn] /\ SessionInv /\ jobs \in Seq(Job) /\ aborts \in Nat
  BY DEF SharedInv, SessionInv, IInv, TypeOK, ConfigAssumption
<1>2. Micro("ping") /\ call' = call /\ aborts' = aborts
  BY DEF RunPing
<1>3. j = jobs[1] /\ 1 \in Verifications /\ 1 \in 1 .. Len(jobs) /\ j.c \in Conns /\ j.job = "ping"
  <2>1. /\ 1 \in 1 .. Len(jobs) /\ Head(jobs) = jobs[1] /\ jobs[1].job = "ping"
        /\ "ping" # "user" => jobs[1].c \in Conns
    <3>1. SessionInv /\ Micro("ping")
      BY <1>1, <1>2
    <3>2. QED
      BY ONLY <3>1, MicroFront
  <2>2. QED
    BY <2>1 DEF At, Verifications
<1>4. CASE j.res # "failed"
  <2>1. conns' = conns
    BY <1>4 DEF RunPing
  <2>2. QED
    BY <1>2, <2>1, CallsAlone, Stutters DEF SameLife
<1>5. CASE j.res = "failed"
  <2>1. PICK c \in Fresh(conns) : conns' = Connect(conns, c)
    BY <1>5 DEF RunPing
  <2>2. /\ c \in Conns /\ conns[c].life = "unused" /\ conns'[c].life = "connecting"
        /\ \A d \in Conns \ {c} : SameLife(d)
    BY <1>1, <2>1, ConnectLife DEF SameLife
  <2> HIDE DEF j
  <2>3. aborts = 0 =>
          /\ mgr = Verifying(j.c) /\ ~Alive(conns[j.c])
          /\ \A i \in Verifications : i = 1
    BY <1>1, <1>3, <1>5 DEF SessionInv, PromiseInv, Unaborted, VerifyJobs
  <2>4. aborts = 0 => conns[j.c].life \in {"destroyed", "gone"}
    BY <1>1, <1>3, <2>3, EstablishedLife DEF Alive, Conn, Life
  <2>5. aborts = 0 => \A d \in Conns : conns[d].life \notin {"connecting", "open"}
    <3> SUFFICES ASSUME aborts = 0, NEW d \in Conns, conns[d].life \in {"connecting", "open"}
                 PROVE  FALSE
      OBVIOUS
    <3>1. mgr.c = j.c /\ d # j.c
      BY <2>3, <2>4 DEF Verifying
    <3>2. PICK i \in 1 .. Len(jobs) : jobs[i].job = "verified"
      BY <1>1, <3>1 DEF SessionInv, PromiseInv, SingleConnection
    <3>3. i = 1
      BY <2>3, <3>2 DEF Verifications, At
    <3>4. QED
      BY <1>3, <3>2, <3>3
  <2>6. Shared!Open(c)
    BY <2>2, <2>5, Opens
  <2>7. aborts = 0 => \E r \in Calls : UseOf(call[r].pc) = "waiting" /\ LinkOf(conns[call[r].c].life) = "gone"
    <3> SUFFICES ASSUME aborts = 0
        PROVE  \E r \in Calls : UseOf(call[r].pc) = "waiting" /\ LinkOf(conns[call[r].c].life) = "gone"
      OBVIOUS
    <3>1. mgr.t = "verifying" /\ mgr.c = j.c
      BY <2>3 DEF Verifying
    <3>2. PICK r \in Calls : call[r].pc = "verify" /\ call[r].c = j.c
      BY <3>1 DEF SharedInv, VerificationWanted
    <3>3. LinkOf(conns[j.c].life) = "gone"
      BY <1>1, <1>3, <2>4, LinkIs DEF Conn
    <3>4. QED
      BY <3>2, <3>3, UseIs
  <2>8. aborts = 0 => \E r \in Calls : /\ [q \in Calls |-> UseOf(call[q].pc)][r] = "waiting"
                                        /\ [d \in Conns |-> LinkOf(conns[d].life)][
                                             [q \in Calls |-> call[q].c][r]] = "gone"
    <3> SUFFICES ASSUME aborts = 0
        PROVE  \E r \in Calls : /\ [q \in Calls |-> UseOf(call[q].pc)][r] = "waiting"
                                /\ [d \in Conns |-> LinkOf(conns[d].life)][
                                     [q \in Calls |-> call[q].c][r]] = "gone"
      OBVIOUS
    <3>1. PICK r \in Calls : UseOf(call[r].pc) = "waiting" /\ LinkOf(conns[call[r].c].life) = "gone"
      BY <2>7
    <3>2. call[r].c \in Conns
      <4>1. call[r].pc # "new"
        BY <3>1, UseIs
      <4>2. QED
        BY <1>1, <4>1 DEF SessionInv, StateInv, Placed
    <3>3. QED
      BY <3>1, <3>2
  <2>9. aborts > 0 \/ aborts = 0
    BY <1>1
  <2>10. Shared!Replace(c)
    BY <1>2, <2>6, <2>8, <2>9 DEF Shared!Replace
  <2>11. QED
    BY <2>2, <2>10 DEF Shared!Next
<1>6. QED
  BY <1>4, <1>5

LEMMA MicroShared ==
    ASSUME ConfigAssumption, SharedInv, Microtask
    PROVE  [Shared!Next]_(Shared!vars)
<1>1. TypeOK /\ conns \in [Conns -> Conn]
  BY DEF SharedInv, SessionInv, IInv, TypeOK
<1>2. CASE RunConn
  <2> DEFINE j == Head(jobs)
             k == ReadyState(conns[j.c])
             cs == [conns EXCEPT ![j.c] = k]
  <2>1. call' = call /\ aborts' = aborts /\ Micro("conn")
    BY <1>2 DEF RunConn
  <2>2. j.c \in Conns
    BY <1>1, <2>1, HeadJob
  <2>3. CASE j.res = "ok"
    <3>1. SetState(cs, Ready(j.c)) /\ Ready(j.c) \in Mgr
      BY <1>2, <2>2, <2>3, MgrStates DEF RunConn
    <3>2. k \in Conn /\ k.life = conns[j.c].life
      BY <1>1, <2>2, OpsType, LifeOps
    <3> HIDE DEF k
    <3>3. cs \in [Conns -> Conn] /\ \A d \in Conns : cs[d].life = conns[d].life
      BY <1>1, <2>2, <3>2
    <3> HIDE DEF cs
    <3>4. \A d \in Conns : SameLife(d)
      BY <1>1, <3>1, <3>3, SetStateLife DEF SameLife
    <3>5. QED
      BY <2>1, <3>4, CallsAlone, Stutters
  <2>4. CASE j.res # "ok"
    <3>1. SetState(conns, ClosedOrError(j.res)) /\ ClosedOrError(j.res) \in Mgr
      BY <1>2, <2>4, MgrStates DEF RunConn
    <3>2. QED
      BY <1>1, <2>1, <3>1, Moving
  <2>5. QED
    BY <2>3, <2>4
<1>3. CASE RunVerified
  <2>1. call' = call /\ aborts' = aborts /\ Micro("verified")
    BY <1>3 DEF RunVerified
  <2>2. Head(jobs).to \in Conns
    BY <1>1, <2>1, HeadJob
  <2>3. \E s \in Mgr : SetState(conns, s)
    BY <1>3, <2>2, MgrStates DEF RunVerified
  <2>4. QED
    BY <1>1, <2>1, <2>3, Moving
<1>4. CASE RunUser
  <2>1. conns' = conns /\ call' = call /\ aborts' = aborts
    BY <1>4 DEF RunUser
  <2>2. QED
    BY <2>1, CallsAlone, Stutters DEF SameLife
<1>5. QED
  BY <1>2, <1>3, <1>4, WaitShared, GoShared, PingShared DEF Microtask, RunConnWait, RunVerifiedWait

\* The manager implements SharedConnection: calls share one connection, which is
\* opened for them and only when there is no other, and a call that fails has lost
\* the very connection that it waited for, until abort() is called.
THEOREM Sharing == Spec => ImplementsShared
<1>1. Init => Shared!Init
  <2> SUFFICES ASSUME Init PROVE Shared!Init
    OBVIOUS
  <2>1. \A c \in Conns : LinkOf(conns[c].life) = "none"
    BY LinkIs DEF Init, NewConn, Life
  <2>2. \A r \in Calls : UseOf(call[r].pc) = "new" /\ call[r].c = NoConn
    BY UseIs DEF Init
  <2>3. (aborts > 0) = FALSE
    BY DEF Init
  <2>4. QED
    BY <2>1, <2>2, <2>3 DEF Shared!Init
<1>2. SharedInv /\ [Next]_vars => [Shared!Next]_(Shared!vars)
  <2> SUFFICES ASSUME SharedInv, [Next]_vars PROVE [Shared!Next]_(Shared!vars)
    OBVIOUS
  <2>1. CASE UNCHANGED vars
    <3>1. conns' = conns /\ call' = call /\ aborts' = aborts
      BY <2>1 DEF vars
    <3>2. QED
      BY <3>1, CallsAlone, Stutters DEF SameLife
  <2>2. QED
    BY <2>1, UserShared, MicroShared, EventsShared, ConfigAssumption DEF Next
<1>3. QED
  BY <1>1, <1>2, SharedInvCorrect, PTL DEF Spec, ImplementsShared, Shared!Spec
=============================================================================
