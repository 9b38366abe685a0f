---------------------------- MODULE Http2Session ----------------------------
(***************************************************************************)
(* The HTTP/2 session manager of dubbo-node                                *)
(* (src/packages/dubbo-node/src/http2-session-manager.ts) at the           *)
(* granularity of the JavaScript event loop: a handler runs to completion, *)
(* the reactions of settled promises wait in the queue "jobs" and run in   *)
(* order before the next event, and user code runs synchronously while     *)
(* "turn" holds.  An event of the environment (socket, timer, stream, or a *)
(* fresh turn of user code) is taken only when no job waits.               *)
(*                                                                         *)
(* All calls that await one promise are resumed by consecutive reactions,  *)
(* which do not change the manager's state.  One job stands for them.      *)
(***************************************************************************)
EXTENDS Integers, Sequences, FiniteSets

CONSTANTS
    Conns,      \* identities of the http2 sessions that may be created
    Calls,      \* identities of the calls of request() and connect()
    NoConn,     \* not a connection
    KeepAlive,  \* pingIntervalMs is finite: interval timers fire, connections get stale
    PingIdle,   \* the option pingIdleConnection
    Faults,     \* what the network may do: a subset of AllFaults
    MaxAborts,  \* bound: number of calls of abort()
    MaxPings    \* maxOutstandingPings of node (10 unless configured)

AllFaults == {"reset", "close", "silent", "goaway", "calm"}

ASSUME ConfigAssumption ==
    /\ NoConn \notin Conns
    /\ IsFiniteSet(Calls)
    /\ KeepAlive \in BOOLEAN
    /\ PingIdle \in BOOLEAN
    /\ Faults \subseteq AllFaults
    /\ MaxAborts \in Nat
    /\ MaxPings \in Nat \ {0}

VARIABLES
    mgr,        \* this.s: the manager's state and the connection it is about
    conns,      \* per connection: the node session, its promises, and StateReady
    jobs,       \* the microtask queue
    call,       \* per call of request() or connect(): how far it is
    turn,       \* user code is running
    aborts,     \* number of abort() calls so far
    calmed,     \* GOAWAY frames with too_many_pings received so far
    doubled,    \* how often onGoaway doubled pingIntervalMs
    dead        \* "no", or what ended the process

vars == <<mgr, conns, jobs, call, turn, aborts, calmed, doubled, dead>>

-----------------------------------------------------------------------------
(* Values. *)

Life     == {"unused", "connecting", "open", "closing", "destroyed", "gone"}
Promise  == {"none", "pending", "dropped", "settled"}
Listener == {"connect", "ready", "ping", "swallow"}
Timer    == {"interval", "timeout", "idle"}
Reason   == {"ok", "canceled", "failed"}
JobKind  == {"conn", "conn-wait", "ping", "verified-wait", "go"}
Waiting  == {"conn", "verify"}
Streaming == {"stream", "reading"}

\* One session object and the StateConnecting and StateReady made for it:
\* the promises of connect() and of verify()'s ping() (whose PING node may have
\* dropped, leaving the promise to the "error" event), the listeners that are
\* attached, whether onClose/onError are set, the timers that run, the PINGs of
\* the interval that are not answered, streamCount, and whether lastAliveAt is
\* more than pingIntervalMs ago.
Conn == [life : Life, err : BOOLEAN, mute : BOOLEAN,
         prom : Promise, ping : Promise,
         lst : SUBSET Listener, hook : BOOLEAN, tmr : SUBSET Timer,
         pings : 0 .. MaxPings, streams : Int, stale : BOOLEAN]

NewConn == [life |-> "unused", err |-> FALSE, mute |-> FALSE,
            prom |-> "none", ping |-> "none",
            lst |-> {}, hook |-> FALSE, tmr |-> {},
            pings |-> 0, streams |-> 0, stale |-> FALSE]

Job == [job : JobKind, c : Conns, res : Reason, to : {NoConn}, calls : SUBSET Calls]
         \cup [job : {"verified"}, c : Conns, res : Reason, to : Conns, calls : {{}}]
         \cup [job : {"user"}, c : {NoConn}, res : {"ok"}, to : {NoConn}, calls : {{}}]

Call == [pc : {"new", "go", "done", "failed"} \cup Waiting \cup Streaming,
         kind : {"request", "connect"},
         c : Conns \cup {NoConn}]

Mgr == [t : {"closed", "error"}, c : {NoConn}]
         \cup [t : {"connecting", "verifying", "ready"}, c : Conns]

Closed        == [t |-> "closed", c |-> NoConn]
Errored       == [t |-> "error", c |-> NoConn]
Connecting(c) == [t |-> "connecting", c |-> c]
Verifying(c)  == [t |-> "verifying", c |-> c]
Ready(c)      == [t |-> "ready", c |-> c]

ClosedOrError(reason) == IF reason = "canceled" THEN Closed ELSE Errored

J(k, c, res) == [job |-> k, c |-> c, res |-> res, to |-> NoConn, calls |-> {}]
UserJob == J("user", NoConn, "ok")

\* The reaction that setState() registers runs before those of the calls.
SettleConn(c, res) == <<J("conn", c, res), J("conn-wait", c, res)>>

SettleVerified(c, res, to) ==
    <<[J("verified", c, res) EXCEPT !.to = to], J("verified-wait", c, res)>>

Init ==
    /\ mgr = Closed
    /\ conns = [c \in Conns |-> NewConn]
    /\ jobs = <<>>
    /\ call = [r \in Calls |-> [pc |-> "new", kind |-> "request", c |-> NoConn]]
    /\ turn = FALSE
    /\ aborts = 0
    /\ calmed = 0
    /\ doubled = 0
    /\ dead = "no"

-----------------------------------------------------------------------------
(* Functions of ready(), on the record of one connection. *)

StreamsOf(c) == {r \in Calls : call[r].pc \in Streaming /\ call[r].c = c}

Alive(k) == k.life \in {"connecting", "open", "closing"}

StopPingInterval(k) == [k EXCEPT !.tmr = @ \ {"interval", "timeout"}]

ResetPingInterval(k) ==
    IF k.streams > 0 \/ PingIdle
    THEN [k EXCEPT !.tmr = (@ \ {"timeout"}) \cup {"interval"}]
    ELSE StopPingInterval(k)

StopIdleTimeout(k) == [k EXCEPT !.tmr = @ \ {"idle"}]

ResetIdleTimeout(k) == [k EXCEPT !.tmr = @ \cup {"idle"}]

Cleanup(k) == [k EXCEPT !.tmr = {}, !.lst = @ \ {"ready"}]

Mut_ExitKeepsHooks(k) == Cleanup(k)

ExitReady(k) == [Cleanup(k) EXCEPT !.hook = FALSE]

Mut_ReadyUnattached(k) == [k EXCEPT !.tmr = {"idle"}, !.streams = 0, !.stale = FALSE]

ReadyState(k) ==
    [k EXCEPT !.tmr = {"idle"}, !.lst = @ \cup {"ready"}, !.streams = 0, !.stale = FALSE]

Mut_CountsFirstOnly(k, n) ==
    IF n > 0 /\ k.streams = 0
    THEN StopIdleTimeout(ResetPingInterval([k EXCEPT !.streams = 1])) ELSE k

Mut_NoPingForStreams(k, n) ==
    LET k1 == [k EXCEPT !.streams = @ + n]
    IN  IF n > 0 /\ k.streams = 0 THEN StopIdleTimeout(k1) ELSE k1

RegisterRequests(k, n) ==
    LET k1 == [k EXCEPT !.streams = @ + n]
    IN  IF n > 0 /\ k.streams = 0 THEN StopIdleTimeout(ResetPingInterval(k1)) ELSE k1

Mut_NoIdleReset(k) ==
    LET k1 == [k EXCEPT !.streams = @ - 1]
    IN  IF k.streams = 1 THEN ResetPingInterval(k1) ELSE k1

StreamClosed(k) ==
    LET k1 == [k EXCEPT !.streams = @ - 1]
    IN  IF k.streams = 1 THEN ResetIdleTimeout(ResetPingInterval(k1)) ELSE k1

SeenAlive(k) == [k EXCEPT !.stale = FALSE]

\* http2session.destroy(): cancels the PINGs, whose callbacks clear the timeout.
Destroy(k, err) ==
    IF Alive(k)
    THEN [k EXCEPT !.life = "destroyed", !.err = err, !.pings = 0, !.tmr = @ \ {"timeout"}]
    ELSE k

\* http2session.ping(): on a closing session, or with too many PINGs under way,
\* node does not send it, and its callback clears the timeout.
PingSent(k) == k.life = "open" /\ k.pings < MaxPings

\* http2session.close(): destroys the session at once when it has no stream.
Close(k, c) ==
    IF k.life # "open" THEN k
    ELSE IF StreamsOf(c) = {} THEN Destroy(k, FALSE)
    ELSE [k EXCEPT !.life = "closing"]

-----------------------------------------------------------------------------
(* setState(): leave the old state, enter the new one. *)

ExitState(cs) ==
    CASE mgr.t = "connecting" -> [cs EXCEPT ![mgr.c].lst = @ \ {"connect"}]
      [] mgr.t = "ready"      -> [cs EXCEPT ![mgr.c] = ExitReady(@)]
      [] OTHER                -> cs

SetState(cs, s) ==
    /\ mgr' = s
    /\ conns' = IF s.t = "ready"
                THEN [ExitState(cs) EXCEPT ![s.c].hook = TRUE]
                ELSE ExitState(cs)

\* connect(): a new session with its listeners and its promise.
Fresh(cs) == {c \in Conns : cs[c].life = "unused"}

Connect(cs, c) ==
    [cs EXCEPT ![c].life = "connecting", ![c].lst = {"connect"}, ![c].prom = "pending"]

-----------------------------------------------------------------------------
(* User code: request(), connect() and abort(). *)

Up == dead = "no"
UserMay == Up /\ (turn \/ jobs = <<>>)

Wait(r, kind, pc, c) ==
    call' = [call EXCEPT ![r] = [pc |-> pc, kind |-> kind, c |-> c]]

\* gotoReady() on a connection that needs no verification: the call goes on
\* with it in the next microtask.
CallReady(r, kind) ==
    /\ UserMay /\ call[r].pc = "new"
    /\ mgr.t = "ready" /\ ~conns[mgr.c].stale
    /\ Wait(r, kind, "go", mgr.c)
    /\ jobs' = Append(jobs, [J("go", mgr.c, "ok") EXCEPT !.calls = {r}])
    /\ turn' = TRUE
    /\ UNCHANGED <<mgr, conns, aborts, calmed, doubled, dead>>

\* gotoReady() with requiresVerify(): verify() pings, and only then setState()
\* leaves the ready state.  On a destroyed session the ping throws before its
\* "error" listener is attached.
VerifyPing(k) ==
    IF ~Alive(k) THEN [k EXCEPT !.ping = "settled"]
    ELSE IF PingSent(k)
    THEN [k EXCEPT !.ping = "pending", !.lst = @ \cup {"ping"}, !.tmr = @ \cup {"timeout"}]
    ELSE [k EXCEPT !.ping = "dropped", !.lst = @ \cup {"ping"}, !.tmr = @ \ {"timeout"}]

CallVerify(r, kind) ==
    /\ UserMay /\ call[r].pc = "new"
    /\ mgr.t = "ready" /\ conns[mgr.c].stale
    /\ Wait(r, kind, "verify", mgr.c)
    /\ SetState([conns EXCEPT ![mgr.c] = VerifyPing(@)], Verifying(mgr.c))
    /\ jobs' = IF Alive(conns[mgr.c]) THEN jobs ELSE Append(jobs, J("ping", mgr.c, "canceled"))
    /\ turn' = TRUE
    /\ UNCHANGED <<aborts, calmed, doubled, dead>>

Mut_ConnectAgain(r, kind) ==
    /\ UserMay /\ call[r].pc = "new"
    /\ mgr.t \in {"closed", "error", "connecting"}
    /\ \E c \in Fresh(conns) :
          /\ SetState(Connect(conns, c), Connecting(c))
          /\ Wait(r, kind, "conn", c)
    /\ turn' = TRUE
    /\ UNCHANGED <<jobs, aborts, calmed, doubled, dead>>

\* gotoReady() opens a connection.
CallConnect(r, kind) ==
    /\ UserMay /\ call[r].pc = "new"
    /\ mgr.t \in {"closed", "error"}
    /\ \E c \in Fresh(conns) :
          /\ SetState(Connect(conns, c), Connecting(c))
          /\ Wait(r, kind, "conn", c)
    /\ turn' = TRUE
    /\ UNCHANGED <<jobs, aborts, calmed, doubled, dead>>

\* gotoReady() joins the calls that wait for the connection or its verification.
CallWait(r, kind) ==
    /\ UserMay /\ call[r].pc = "new"
    /\ mgr.t \in {"connecting", "verifying"}
    /\ Wait(r, kind, IF mgr.t = "connecting" THEN "conn" ELSE "verify", mgr.c)
    /\ turn' = TRUE
    /\ UNCHANGED <<mgr, conns, jobs, aborts, calmed, doubled, dead>>

\* abort() of a connecting state rejects its promise by hand.
RejectConnecting(c, reason) ==
    IF conns[c].prom = "pending" THEN SettleConn(c, reason) ELSE <<>>

\* abort() of a ready state: a listener swallows the error of destroy().
AbortReady(k) ==
    IF Alive(k) THEN Destroy([k EXCEPT !.lst = @ \cup {"swallow"}], TRUE) ELSE k

\* abort(): abort of the current state, then setState().
Abort(reason) ==
    /\ UserMay /\ aborts < MaxAborts
    /\ aborts' = aborts + 1
    /\ turn' = TRUE
    /\ LET c == mgr.c IN
       CASE mgr.t = "connecting" ->
              /\ SetState([conns EXCEPT ![c] = [Destroy(@, FALSE) EXCEPT !.prom = "settled"]],
                          ClosedOrError(reason))
              /\ jobs' = jobs \o RejectConnecting(c, reason)
         [] mgr.t \in {"verifying", "ready"} ->
              /\ SetState([conns EXCEPT ![c] = AbortReady(@)], ClosedOrError(reason))
              /\ jobs' = jobs
         [] OTHER ->
              /\ SetState(conns, ClosedOrError(reason))
              /\ jobs' = jobs
    /\ UNCHANGED <<call, calmed, doubled, dead>>

\* The turn of user code ends.
EndTurn ==
    /\ Up /\ turn
    /\ turn' = FALSE
    /\ UNCHANGED <<mgr, conns, jobs, call, aborts, calmed, doubled, dead>>

-----------------------------------------------------------------------------
(* Microtasks. *)

Micro(k) == Up /\ ~turn /\ jobs # <<>> /\ Head(jobs).job = k

\* setState()'s reaction to the promise of a connecting state.
RunConn ==
    /\ Micro("conn")
    /\ LET j == Head(jobs) IN
       IF j.res = "ok"
       THEN SetState([conns EXCEPT ![j.c] = ReadyState(@)], Ready(j.c))
       ELSE SetState(conns, ClosedOrError(j.res))
    /\ jobs' = Tail(jobs)
    /\ UNCHANGED <<call, turn, aborts, calmed, doubled, dead>>

\* The `then` of verify(): a new connection if the ping failed, a rejection
\* ("canceled" stands for the exception of ping()) passes through.
RunPing ==
    /\ Micro("ping")
    /\ LET j == Head(jobs) IN
       IF j.res = "failed"
       THEN \E c \in Fresh(conns) :
              /\ conns' = Connect(conns, c)
              /\ jobs' = Tail(jobs) \o SettleVerified(j.c, "failed", c)
       ELSE /\ conns' = conns
            /\ jobs' = Tail(jobs) \o SettleVerified(j.c, j.res, j.c)
    /\ UNCHANGED <<mgr, call, turn, aborts, calmed, doubled, dead>>

\* setState()'s reaction to the promise of a verifying state: StateReady again,
\* the StateConnecting of the new connection, or the error of the ping.
RunVerified ==
    /\ Micro("verified")
    /\ LET j == Head(jobs) IN
       CASE j.res = "ok"     -> SetState(conns, Ready(j.to))
         [] j.res = "failed" -> SetState(conns, Connecting(j.to))
         [] OTHER            -> SetState(conns, Errored)
    /\ jobs' = Tail(jobs)
    /\ UNCHANGED <<call, turn, aborts, calmed, doubled, dead>>

\* The calls that awaited a promise re-evaluate the loop of gotoReady().
Resume(S, q) ==
    CASE mgr.t = "ready" ->
           /\ call' = [r \in Calls |-> IF r \in S THEN [call[r] EXCEPT !.pc = "go", !.c = mgr.c]
                                       ELSE call[r]]
           /\ jobs' = Append(q, [J("go", mgr.c, "ok") EXCEPT !.calls = S])
           /\ dead' = dead
      [] mgr.t \in {"connecting", "verifying"} ->
           /\ call' = [r \in Calls |->
                         IF r \in S
                         THEN [call[r] EXCEPT !.pc = IF mgr.t = "connecting" THEN "conn" ELSE "verify",
                                              !.c = mgr.c]
                         ELSE call[r]]
           /\ jobs' = q
           /\ dead' = dead
      [] mgr.t = "error" ->
           /\ call' = [r \in Calls |-> IF r \in S THEN [call[r] EXCEPT !.pc = "failed"] ELSE call[r]]
           /\ jobs' = Append(q, UserJob)
           /\ dead' = dead
      [] OTHER ->       \* no branch of the loop awaits anything: it never ends
           /\ dead' = IF S = {} THEN dead ELSE "spin"
           /\ jobs' = q
           /\ call' = call

Mut_RejectionIgnored(j) == TRUE

\* A failed ping fulfils the promise of verify() with the new StateConnecting.
Fulfilled(j) == j.res = "ok" \/ (j.job = "verified-wait" /\ j.res = "failed")

RunWait(k, pc) ==
    /\ Micro(k)
    /\ LET j == Head(jobs)
           S == {r \in Calls : call[r].pc = pc /\ call[r].c = j.c}
       IN  IF Fulfilled(j)
           THEN Resume(S, Tail(jobs))
           ELSE /\ call' = [r \in Calls |-> IF r \in S THEN [call[r] EXCEPT !.pc = "failed"]
                                            ELSE call[r]]
                /\ jobs' = Append(Tail(jobs), UserJob)
                /\ dead' = dead
    /\ UNCHANGED <<mgr, conns, turn, aborts, calmed, doubled>>

RunConnWait == RunWait("conn-wait", "conn")
RunVerifiedWait == RunWait("verified-wait", "verify")

\* The rest of request(): a stream on the connection that gotoReady() returned,
\* if the session still takes requests.  connect() is done.
RunGo ==
    /\ Micro("go")
    /\ LET j == Head(jobs)
           usable == conns[j.c].life = "open"
           R == {r \in j.calls : call[r].kind = "request"}
       IN  /\ call' = [r \in Calls |->
                         IF r \notin j.calls THEN call[r]
                         ELSE [call[r] EXCEPT !.pc = IF r \notin R THEN "done"
                                                     ELSE IF usable THEN "stream" ELSE "failed"]]
           /\ conns' = IF usable
                       THEN [conns EXCEPT ![j.c] = RegisterRequests(@, Cardinality(R))]
                       ELSE conns
    /\ jobs' = Append(Tail(jobs), UserJob)
    /\ UNCHANGED <<mgr, turn, aborts, calmed, doubled, dead>>

\* User code that awaited a call continues.
RunUser ==
    /\ Micro("user")
    /\ jobs' = Tail(jobs)
    /\ turn' = TRUE
    /\ UNCHANGED <<mgr, conns, call, aborts, calmed, doubled, dead>>

-----------------------------------------------------------------------------
(* Events: sockets, timers, streams. *)

Macro == Up /\ ~turn /\ jobs = <<>>

SetConn(c, k) == conns' = [conns EXCEPT ![c] = k]

\* "connect": onConnect() resolves the promise, if it is still attached.
OnConnect(c) ==
    /\ Macro /\ conns[c].life = "connecting"
    /\ IF "connect" \in conns[c].lst
       THEN /\ SetConn(c, [conns[c] EXCEPT !.life = "open", !.lst = @ \ {"connect"},
                                           !.prom = "settled"])
            /\ jobs' = SettleConn(c, "ok")
       ELSE /\ SetConn(c, [conns[c] EXCEPT !.life = "open"])
            /\ jobs' = jobs
    /\ UNCHANGED <<mgr, call, turn, aborts, calmed, doubled, dead>>

Mut_ErrorNoReject(c) ==
    /\ Macro /\ conns[c].life = "connecting"
    /\ SetConn(c, [conns[c] EXCEPT !.life = "gone", !.lst = {}])
    /\ UNCHANGED <<mgr, jobs, call, turn, aborts, calmed, doubled, dead>>

\* The connection cannot be established: onError() rejects the promise.
ConnectFails(c) ==
    /\ Macro /\ conns[c].life = "connecting"
    /\ LET k == [conns[c] EXCEPT !.life = "gone"]
       IN  IF "connect" \in k.lst
           THEN /\ SetConn(c, [k EXCEPT !.lst = {}, !.prom = "settled"])
                /\ jobs' = SettleConn(c, "failed")
                /\ dead' = dead
           ELSE /\ SetConn(c, k)
                /\ jobs' = jobs
                /\ dead' = "event"
    /\ UNCHANGED <<mgr, call, turn, aborts, calmed, doubled>>

\* The socket breaks, or the peer closes it.
SocketEnds(c, fault) ==
    /\ Macro /\ fault \in Faults \cap {"reset", "close"}
    /\ conns[c].life \in {"open", "closing"}
    /\ SetConn(c, Destroy(conns[c], fault = "reset"))
    /\ UNCHANGED <<mgr, jobs, call, turn, aborts, calmed, doubled, dead>>

\* The peer stops answering.
PeerMute(c) ==
    /\ Macro /\ "silent" \in Faults
    /\ conns[c].life \in {"open", "closing"} /\ ~conns[c].mute
    /\ SetConn(c, [conns[c] EXCEPT !.mute = TRUE])
    /\ UNCHANGED <<mgr, jobs, call, turn, aborts, calmed, doubled, dead>>

\* GOAWAY with NO_ERROR closes the session gracefully.
Goaway(c) ==
    /\ Macro /\ "goaway" \in Faults
    /\ conns[c].life = "open" /\ ~conns[c].mute
    /\ SetConn(c, Close(conns[c], c))
    /\ UNCHANGED <<mgr, jobs, call, turn, aborts, calmed, doubled, dead>>

\* GOAWAY with ENHANCE_YOUR_CALM and too_many_pings: onGoaway() doubles the
\* interval, node destroys the session.
GoawayCalm(c) ==
    /\ Macro /\ "calm" \in Faults
    /\ conns[c].life = "open" /\ ~conns[c].mute
    /\ SetConn(c, Destroy(conns[c], TRUE))
    /\ calmed' = calmed + 1
    /\ doubled' = IF "ready" \in conns[c].lst THEN doubled + 1 ELSE doubled
    /\ UNCHANGED <<mgr, jobs, call, turn, aborts, dead>>

\* The promise of ping() settles once.
PingUnsettled(k) == k.ping \in {"pending", "dropped"}

\* "error" (if there is one) and "close" of a destroyed session, after its
\* streams have closed.
EndEvent(c) ==
    /\ Macro /\ conns[c].life = "destroyed" /\ StreamsOf(c) = {}
    /\ LET k == [conns[c] EXCEPT !.life = "gone", !.lst = @ \ {"ping", "swallow"}]
       IN  IF conns[c].err /\ conns[c].lst = {}
           THEN /\ dead' = "event"
                /\ SetConn(c, k)
                /\ UNCHANGED <<mgr, jobs>>
           ELSE IF "ready" \in conns[c].lst
           THEN /\ IF k.hook
                   THEN SetState([conns EXCEPT ![c] = Cleanup(k)],
                                 IF conns[c].err THEN Errored ELSE Closed)
                   ELSE SetConn(c, Cleanup(k)) /\ mgr' = mgr
                /\ UNCHANGED <<jobs, dead>>
           ELSE IF "ping" \in conns[c].lst /\ conns[c].err /\ PingUnsettled(k)
           THEN /\ SetConn(c, [k EXCEPT !.ping = "settled"])
                /\ jobs' = <<J("ping", c, "failed")>>
                /\ UNCHANGED <<mgr, dead>>
           ELSE /\ SetConn(c, k)
                /\ UNCHANGED <<mgr, jobs, dead>>
    /\ UNCHANGED <<call, turn, aborts, calmed, doubled>>

Mut_LatePingKeepsConn(c, late) ==
    /\ Macro /\ conns[c].life \in {"open", "closing"} /\ ~conns[c].mute
    /\ conns[c].ping = "pending"
    /\ SetConn(c, [SeenAlive(conns[c]) EXCEPT !.tmr = @ \ {"timeout"}, !.ping = "settled"])
    /\ jobs' = <<J("ping", c, IF late THEN "failed" ELSE "ok")>>
    /\ UNCHANGED <<mgr, call, turn, aborts, calmed, doubled, dead>>

\* The callback of a PING: in time, or after more than pingTimeoutMs.
PingAnswered(c, late) ==
    /\ Macro /\ conns[c].life \in {"open", "closing"} /\ ~conns[c].mute
    /\ conns[c].ping = "pending"
    /\ LET k == [conns[c] EXCEPT !.tmr = @ \ {"timeout"}]
       IN  IF late
           THEN SetConn(c, Destroy(k, TRUE)) /\ jobs' = jobs
           ELSE /\ SetConn(c, [SeenAlive(k) EXCEPT !.ping = "settled"])
                /\ jobs' = <<J("ping", c, "ok")>>
    /\ UNCHANGED <<mgr, call, turn, aborts, calmed, doubled, dead>>

IntervalPingAnswered(c, late) ==
    /\ Macro /\ conns[c].life \in {"open", "closing"} /\ ~conns[c].mute
    /\ conns[c].pings > 0
    /\ LET k == [conns[c] EXCEPT !.tmr = @ \ {"timeout"}, !.pings = @ - 1]
       IN  SetConn(c, IF late THEN Destroy(k, TRUE) ELSE ResetPingInterval(SeenAlive(k)))
    /\ UNCHANGED <<mgr, jobs, call, turn, aborts, calmed, doubled, dead>>

\* onPingInterval(): the timeout is set before the PING, which throws in the
\* timer's callback if the session is destroyed.
OnPingInterval(c) ==
    /\ Macro /\ KeepAlive /\ "interval" \in conns[c].tmr
    /\ LET k == [conns[c] EXCEPT !.tmr = (@ \ {"interval"}) \cup {"timeout"}]
       IN  IF Alive(k)
           THEN /\ SetConn(c, IF PingSent(k) THEN [k EXCEPT !.pings = @ + 1]
                              ELSE [k EXCEPT !.tmr = @ \ {"timeout"}])
                /\ dead' = dead
           ELSE SetConn(c, k) /\ dead' = "ping"
    /\ UNCHANGED <<mgr, jobs, call, turn, aborts, calmed, doubled>>

\* The callback of pingTimeoutId.
OnPingTimeout(c) ==
    /\ Macro /\ "timeout" \in conns[c].tmr
    /\ SetConn(c, Destroy([conns[c] EXCEPT !.tmr = @ \ {"timeout"}], TRUE))
    /\ UNCHANGED <<mgr, jobs, call, turn, aborts, calmed, doubled, dead>>

\* onIdleTimeout(): close the session and change the state right away.
OnIdleTimeout(c) ==
    /\ Macro /\ "idle" \in conns[c].tmr
    /\ LET k == Cleanup(Close([conns[c] EXCEPT !.tmr = @ \ {"idle"}], c))
       IN  IF k.hook
           THEN SetState([conns EXCEPT ![c] = k], Closed)
           ELSE SetConn(c, k) /\ mgr' = mgr
    /\ UNCHANGED <<jobs, call, turn, aborts, calmed, doubled, dead>>

\* More than pingIntervalMs since lastAliveAt.
GetStale(c) ==
    /\ Macro /\ KeepAlive
    /\ conns[c].prom = "settled" /\ conns[c].life \in {"open", "closing"}
    /\ ~conns[c].stale
    /\ SetConn(c, [conns[c] EXCEPT !.stale = TRUE])
    /\ UNCHANGED <<mgr, jobs, call, turn, aborts, calmed, doubled, dead>>

\* "response" of a stream.
StreamResponse(r) ==
    LET c == call[r].c IN
    /\ Macro /\ call[r].pc = "stream"
    /\ conns[c].life \in {"open", "closing"} /\ ~conns[c].mute
    /\ SetConn(c, ResetPingInterval(SeenAlive(conns[c])))
    /\ call' = [call EXCEPT ![r].pc = "reading"]
    /\ UNCHANGED <<mgr, jobs, turn, aborts, calmed, doubled, dead>>

\* notifyResponseByteRead(): only the current state listens, and only for a
\* stream of its own connection while that one is open.
StreamBytes(r) ==
    LET c == call[r].c IN
    /\ Macro /\ call[r].pc = "reading"
    /\ conns[c].life \in {"open", "closing"} /\ ~conns[c].mute
    /\ mgr = Ready(c) /\ conns[c].life = "open" /\ conns[c].streams > 0
    /\ SetConn(c, ResetPingInterval(SeenAlive(conns[c])))
    /\ UNCHANGED <<mgr, jobs, call, turn, aborts, calmed, doubled, dead>>

\* "close" of a stream, also when its session is destroyed; the last stream of
\* a closing session ends it.
OnStreamClose(r) ==
    LET c == call[r].c
        k == StreamClosed(conns[c])
    IN
    /\ Macro /\ call[r].pc \in Streaming
    /\ SetConn(c, IF k.life = "closing" /\ StreamsOf(c) = {r} THEN Destroy(k, FALSE) ELSE k)
    /\ call' = [call EXCEPT ![r].pc = "done"]
    /\ UNCHANGED <<mgr, jobs, turn, aborts, calmed, doubled, dead>>

-----------------------------------------------------------------------------

UserCode ==
    \/ \E r \in Calls, kind \in {"request", "connect"} :
          \/ CallReady(r, kind)
          \/ CallVerify(r, kind)
          \/ CallConnect(r, kind)
          \/ CallWait(r, kind)
    \/ \E reason \in {"canceled", "failed"} : Abort(reason)
    \/ EndTurn

Microtask ==
    \/ RunConn \/ RunConnWait
    \/ RunPing \/ RunVerified \/ RunVerifiedWait
    \/ RunGo \/ RunUser

Event ==
    \/ \E c \in Conns :
          \/ OnConnect(c)
          \/ ConnectFails(c)
          \/ \E fault \in {"reset", "close"} : SocketEnds(c, fault)
          \/ PeerMute(c)
          \/ Goaway(c)
          \/ GoawayCalm(c)
          \/ EndEvent(c)
          \/ \E late \in BOOLEAN : PingAnswered(c, late)
          \/ \E late \in BOOLEAN : IntervalPingAnswered(c, late)
          \/ OnPingInterval(c)
          \/ OnPingTimeout(c)
          \/ OnIdleTimeout(c)
          \/ GetStale(c)
    \/ \E r \in Calls :
          \/ StreamResponse(r)
          \/ StreamBytes(r)
          \/ OnStreamClose(r)

Next == UserCode \/ Microtask \/ Event

Spec == Init /\ [][Next]_vars

\* What the event loop, the sockets and the timers owe: jobs and user code run
\* on, a pending connection attempt has an outcome, a destroyed session emits
\* its events and closes its streams, a due timer fires, and a peer that is not
\* mute answers a PING.  Nothing obliges the network to fail, a peer to end a
\* stream, or user code to call anything.
FairLoop == WF_vars(EndTurn) /\ WF_vars(Microtask)

FairConn(c) ==
    /\ WF_vars(OnConnect(c) \/ ConnectFails(c))
    /\ WF_vars(EndEvent(c))
    /\ WF_vars(PingAnswered(c, FALSE) \/ PingAnswered(c, TRUE))
    /\ WF_vars(IntervalPingAnswered(c, FALSE) \/ IntervalPingAnswered(c, TRUE))
    /\ WF_vars(OnPingInterval(c))
    /\ WF_vars(OnPingTimeout(c))
    /\ WF_vars(OnIdleTimeout(c))

DestroyedStreamCloses(r) ==
    /\ call[r].pc \in Streaming /\ ~Alive(conns[call[r].c])
    /\ OnStreamClose(r)

Fairness ==
    /\ FairLoop
    /\ \A c \in Conns : FairConn(c)
    /\ \A r \in Calls : WF_vars(DestroyedStreamCloses(r))

FairSpec == Spec /\ Fairness

-----------------------------------------------------------------------------
(* Properties that hold of every instance. *)

TypeOK ==
    /\ mgr \in Mgr
    /\ conns \in [Conns -> Conn]
    /\ jobs \in Seq(Job)
    /\ call \in [Calls -> Call]
    /\ turn \in BOOLEAN
    /\ aborts \in 0 .. MaxAborts
    /\ calmed \in Nat
    /\ doubled \in Nat
    /\ dead \in {"no", "event", "ping", "spin"}

\* onClose/onError are set on exactly the StateReady the manager is in: a
\* connection the manager has left, whose timers and listeners may still fire
\* (a stream that closes after cleanup() starts both timers again), cannot move
\* it (lines 256-305, 588-592, 654-657, 675-704).
HooksFollowState ==
    \A c \in Conns : conns[c].hook <=> mgr = Ready(c)

\* streamCount is the number of streams that request() opened on the connection
\* and whose "close" was not seen yet, through verification, abort() and loss of
\* the connection (lines 541-558): it decides between "open" and "idle" and
\* when the idle timer runs.
StreamsCounted ==
    \A c \in Conns : conns[c].streams = Cardinality(StreamsOf(c))

\* No call of gotoReady() finds the manager "closed" when its promise has
\* fulfilled: the loop of lines 246-256 would spin forever and block the process.
NoSpin == dead # "spin"

\* Until abort() is called, a call that waits, waits for a promise that somebody
\* can still settle: the connection attempt keeps its listeners, or its outcome
\* is in the queue (lines 243-256, 398-421).
NoStrandedCall ==
    \A r \in Calls :
        aborts = 0 /\ call[r].pc = "conn" =>
            \/ /\ conns[call[r].c].life = "connecting"
               /\ "connect" \in conns[call[r].c].lst
            \/ \E i \in 1 .. Len(jobs) : jobs[i].job = "conn-wait" /\ jobs[i].c = call[r].c

\* "Manage a single HTTP/2 connection" (line 75): a session that is being
\* established or is open belongs to the manager's current state, or the job
\* that makes it current is queued.  A session may only drain beside it.  After
\* abort() this does not hold: see CallsAnswered in session_abort_connect.
SingleConnection ==
    \A c \in Conns :
        aborts = 0 /\ conns[c].life \in {"connecting", "open"} =>
            \/ mgr.c = c
            \/ \E i \in 1 .. Len(jobs) : jobs[i].job = "verified" /\ jobs[i].to = c

\* When no user code and no job runs, the manager is "ready" only with a session
\* whose end it has not missed: once "close" was emitted it is not "open" or
\* "idle" any more (lines 93-107).
Missed == turn = FALSE /\ jobs = <<>> /\ mgr.t = "ready" /\ conns[mgr.c].life = "gone"

ReadyNotGone == ~Missed

\* A verification leaves the manager deaf (ReadyNotGone in session_verify_lost).
Unverified == mgr.t = "ready" /\ conns[mgr.c].ping = "none"

\* The end of a connection that was never verified is not missed, whatever else
\* happens before it (lines 532-540, 675-704).
EndNoticed == Missed => ~Unverified

\* "If a connection is idle for longer than idleConnectionTimeoutMs, it closes"
\* (line 106): an idle connection that was never verified has its idle timer running.
IdleIsTimed ==
    (turn = FALSE /\ jobs = <<>> /\ Unverified /\ dead = "no"
       /\ conns[mgr.c].streams = 0) => "idle" \in conns[mgr.c].tmr

\* How SharedConnection sees a connection and a call.
LinkOf(life) ==
    CASE life = "unused"     -> "none"
      [] life = "connecting" -> "opening"
      [] life = "open"       -> "open"
      [] life = "closing"    -> "draining"
      [] OTHER               -> "gone"

UseOf(pc) ==
    CASE pc \in Waiting \cup {"go"} -> "waiting"
      [] pc \in Streaming           -> "using"
      [] pc = "done"                -> "over"
      [] OTHER                      -> pc

Shared == INSTANCE SharedConnection WITH
    link    <- [c \in Conns |-> LinkOf(conns[c].life)],
    use     <- [r \in Calls |-> UseOf(call[r].pc)],
    on      <- [r \in Calls |-> call[r].c],
    aborted <- aborts > 0

\* "Manage a single HTTP/2 connection" (line 75): the manager implements the
\* promise of SharedConnection.  However calls, verifications and the ends of
\* connections interleave, a connection is opened only for a call and while there
\* is no other, and a call fails only with the connection that it waits for.
ImplementsShared == Shared!Spec

-----------------------------------------------------------------------------
(* Liveness. *)

\* "This method automatically opens a connection if none exists" (line 187): a
\* call of request() or connect() that waits for a connection is answered, or
\* waits for a verification, of which VerificationEnds speaks.
CallsAnswered ==
    \A r \in Calls :
        call[r].pc \in Waiting \cup {"go"}
            ~> call[r].pc \in Streaming \cup {"done", "failed", "verify"} \/ dead # "no"

\* "A PING frame is sent, and if it times out within pingTimeoutMs, a new
\* connection is opened" (lines 111-113).
VerificationEnds ==
    mgr.t = "verifying" ~> mgr.t # "verifying" \/ dead # "no"

\* "If a PING frame is not responded to within pingTimeoutMs, the connection and
\* all open streams close" (lines 99-101): a mute connection loses its streams,
\* as long as it is not closing, node still takes PINGs, and it is not verified.
MuteStreamsClose ==
    \A r \in Calls :
        (call[r].pc \in Streaming /\ conns[call[r].c].mute /\ PingSent(conns[call[r].c]))
            ~> \/ call[r].pc = "done"
               \/ call[r].pc \in Streaming /\ conns[call[r].c].ping # "none"
               \/ dead # "no"
=============================================================================
