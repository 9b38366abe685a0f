------------------------------- MODULE Meters -------------------------------
(***************************************************************************)
(* The counters of the observability package: what the negotiating handler *)
(* of one method counts of its requests, what the interceptors that        *)
(* transports install count of their calls, the window of seconds that     *)
(* requests per second are read from, and the SDK that exports all this.    *)
(*                                                                         *)
(* A metric is the sum that was added to it; attributes are left out.  Time*)
(* is in seconds.                                                          *)
(***************************************************************************)
EXTENDS Naturals, FiniteSets, Functions

CONSTANTS
    MaxTransports,  \* bound: transports of the process, with observability enabled
    MaxRequests,    \* bound: requests a handler receives
    MaxCalls,       \* bound: calls of the transports
    MaxTime,        \* bound: seconds that pass
    Retained,       \* seconds the counter keeps besides the current one: 5
    MaxLag          \* bound: seconds that the interval of the counter runs late

ASSUME MetersAssumption ==
    /\ MaxTransports \in Nat
    /\ MaxRequests \in Nat /\ MaxCalls \in Nat /\ MaxTime \in Nat
    /\ Retained \in Nat \ {0} /\ MaxLag \in Nat

VARIABLES
    provider,   \* metrics of the handler
    working,    \* its requests in the hands of a protocol handler
    aside,      \* its requests that it answered itself or passed on uncounted
    counter,    \* QpsCounter.counter: requests of the seconds it remembers
    interval,   \* the interval of the counter: "none", "running", "stopped"
    late,       \* seconds since the interval ran
    clock,      \* Date, in seconds
    arrivals,   \* the requests of every second
    consumer,   \* metrics of the interceptors, all of the same name
    lists,      \* the interceptors a transport finds in its options, once created
    pending,    \* calls without an answer, by the number of interceptors they passed
    calls,      \* calls made
    sdks        \* SDKs that transports have started

metersVars == <<provider, working, aside, counter, interval, late, clock, arrivals,
          consumer, lists, pending, calls, sdks>>

providerVars == <<provider, working, aside, counter, interval, late, clock, arrivals>>
consumerVars == <<consumer, lists, pending, calls>>

TransportIds == 1 .. MaxTransports

NoMetric == [total |-> 0, succeed |-> 0, failed |-> 0]

-----------------------------------------------------------------------------
(* QpsCounter *)

CurrentSecond == clock

\* getQps(): the second before, if it is remembered.
GetQps ==
    IF CurrentSecond > 0 /\ CurrentSecond - 1 \in DOMAIN counter
    THEN counter[CurrentSecond - 1] ELSE 0

Increment(c) ==
    IF CurrentSecond \in DOMAIN c THEN [c EXCEPT ![CurrentSecond] = @ + 1]
    ELSE [s \in DOMAIN c \cup {CurrentSecond} |->
             IF s = CurrentSecond THEN 1 ELSE c[s]]

\* A plausible bug: the second before is forgotten.
Mut_CleanedEarly(c) == Restrict(c, {s \in DOMAIN c : s >= CurrentSecond})

\* What the interval leaves.
Cleaned(c) == Restrict(c, {s \in DOMAIN c : s + Retained >= CurrentSecond})

-----------------------------------------------------------------------------
(* The provider: protocolNegotiatingHandler() and ProviderMeterCollector. *)

\* A plausible bug: success is counted with the request.
Mut_SucceedWithTotal(p) == [p EXCEPT !.total = @ + 1, !.succeed = @ + 1]

\* The first request creates the counter and its interval.
ProviderRequest(p) == [p EXCEPT !.total = @ + 1]

Request ==
    /\ provider.total < MaxRequests
    /\ provider' = ProviderRequest(provider)
    /\ counter' = Increment(counter)
    /\ interval' = IF interval = "none" THEN "running" ELSE interval
    /\ late' = IF interval = "none" THEN 0 ELSE late
    /\ arrivals' = [arrivals EXCEPT ![clock] = @ + 1]

\* A handler was found by the content type.
Accept ==
    /\ Request
    /\ working' = working + 1
    /\ UNCHANGED <<aside, clock, consumerVars, sdks>>

\* HTTP version, verb or content type do not fit, or a single handler takes the
\* request without a content type: neither success nor failure are counted.
AnswerAside ==
    /\ Request
    /\ aside' = aside + 1
    /\ UNCHANGED <<working, clock, consumerVars, sdks>>

\* The promise of the protocol handler is fulfilled, with any response, also that
\* of an error.
Fulfil ==
    /\ working > 0
    /\ working' = working - 1
    /\ provider' = [provider EXCEPT !.succeed = @ + 1]
    /\ UNCHANGED <<aside, counter, interval, late, clock, arrivals, consumerVars, sdks>>

\* It is rejected, for a body that is no byte stream.
Reject ==
    /\ working > 0
    /\ working' = working - 1
    /\ provider' = [provider EXCEPT !.failed = @ + 1]
    /\ UNCHANGED <<aside, counter, interval, late, clock, arrivals, consumerVars, sdks>>

\* The seconds pass; the interval may run late, but not for ever.
Tick ==
    /\ clock < MaxTime
    /\ interval = "running" => late <= MaxLag
    /\ clock' = clock + 1
    /\ late' = IF interval = "running" THEN late + 1 ELSE late
    /\ UNCHANGED <<provider, working, aside, counter, interval, arrivals, consumerVars, sdks>>

CleanUp ==
    /\ interval = "running"
    /\ late > 0
    /\ late' = 0
    /\ counter' = Cleaned(counter)
    /\ UNCHANGED <<provider, working, aside, interval, clock, arrivals, consumerVars, sdks>>

\* shutdown() of the collector, which the repository itself never calls.
Shutdown ==
    /\ interval = "running"
    /\ interval' = "stopped"
    /\ UNCHANGED <<provider, working, aside, counter, late, clock, arrivals,
                   consumerVars, sdks>>

-----------------------------------------------------------------------------
(* The consumer: createTransport() and ConsumerMeterCollector. *)

Created == {t \in TransportIds : lists[t] # "none"}

\* Transports that were given the same array share what is pushed on it.
Interceptors(t) ==
    IF lists[t] = "own" THEN 1
    ELSE Cardinality({u \in TransportIds : lists[u] = "shared"})

\* initObservable(): one SDK for all transports.
InitObservable(s) == IF s = 0 THEN 1 ELSE s

CreateTransport(t) ==
    /\ lists[t] = "none"
    /\ \A u \in 1 .. t - 1 : u \in Created
    /\ \E list \in {"own", "shared"} : lists' = [lists EXCEPT ![t] = list]
    /\ sdks' = InitObservable(sdks)
    /\ UNCHANGED <<providerVars, consumer, pending, calls>>

\* A call runs the interceptors that its transport has when it starts.
StartCall(t) ==
    /\ t \in Created
    /\ calls < MaxCalls
    /\ calls' = calls + 1
    /\ pending' = [pending EXCEPT ![Interceptors(t)] = @ + 1]
    /\ consumer' = [consumer EXCEPT !.total = @ + Interceptors(t)]
    /\ UNCHANGED <<providerVars, lists, sdks>>

\* The error passes every interceptor.
ConsumerRequestFailed(n) == [consumer EXCEPT !.failed = @ + n]

ConsumerRequestSucceed(n) == [consumer EXCEPT !.succeed = @ + n]

\* A response arrives; what a stream brings later is not counted.
CallAnswered(n) ==
    /\ pending[n] > 0
    /\ pending' = [pending EXCEPT ![n] = @ - 1]
    /\ consumer' = ConsumerRequestSucceed(n)
    /\ UNCHANGED <<providerVars, lists, calls, sdks>>

CallFails(n) ==
    /\ pending[n] > 0
    /\ pending' = [pending EXCEPT ![n] = @ - 1]
    /\ consumer' = ConsumerRequestFailed(n)
    /\ UNCHANGED <<providerVars, lists, calls, sdks>>

-----------------------------------------------------------------------------

MetersInit ==
    /\ provider = NoMetric
    /\ working = 0
    /\ aside = 0
    /\ counter = [s \in {} |-> 0]
    /\ interval = "none"
    /\ late = 0
    /\ clock = 0
    /\ arrivals = [s \in 0 .. MaxTime |-> 0]
    /\ consumer = NoMetric
    /\ lists = [t \in TransportIds |-> "none"]
    /\ pending = [n \in TransportIds |-> 0]
    /\ calls = 0
    /\ sdks = 0

MetersNext ==
    \/ Accept \/ AnswerAside \/ Fulfil \/ Reject
    \/ Tick \/ CleanUp \/ Shutdown
    \/ \E t \in TransportIds : CreateTransport(t) \/ StartCall(t)
    \/ \E n \in DOMAIN pending : CallAnswered(n) \/ CallFails(n)

MetersSpec == MetersInit /\ [][MetersNext]_metersVars

-----------------------------------------------------------------------------
(* Properties. *)

\* Every request of a handler is counted as a success or a failure once its answer
\* is there, unless it was answered aside.
ProviderBalanced ==
    provider.total = provider.succeed + provider.failed + working + aside

\* The interceptors that wait for the answers of p: the i-th of the j-th call that
\* passed n of them.
Waiting(p) ==
    {w \in TransportIds \X ((1 .. MaxCalls) \X TransportIds) :
        LET n == w[1]  j == w[2][1]  i == w[2][2] IN j <= p[n] /\ i <= n}

Pending == Cardinality(Waiting(pending))

\* So is every call, as often as it passes an interceptor; and where no array is
\* shared, every call is counted once.
ConsumerBalanced ==
    /\ consumer.total = consumer.succeed + consumer.failed + Pending
    /\ Cardinality({t \in TransportIds : lists[t] = "shared"}) <= 1 => consumer.total = calls

\* The counters agree with each other and with what happened, through requests
\* that are answered in any order, and however many transports share their
\* interceptors.  Sums of succeeded and failed requests stay below the total for
\* ever where clients use GET or a wrong content type.
CountersBalanced == ProviderBalanced /\ ConsumerBalanced

\* Requests per second are those of the second before, however late the interval
\* cleans up and whether it was stopped, as long as the clock never goes back.
QpsExact == clock > 0 => GetQps = arrivals[clock - 1]

\* The counter remembers no second before those it should, except when the interval
\* is late, and unless it was stopped: then it grows for ever.
WindowBounded ==
    interval # "stopped" => \A s \in DOMAIN counter : s + Retained + late >= clock

=============================================================================
