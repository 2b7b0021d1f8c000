---------------------------- MODULE PaymentKeys ----------------------------
(***************************************************************************)
(* PaymentKeyResolver of scripts/x402_payment_context.py: threads that     *)
(* validate payments share one cached key set and one retrieval of it.     *)
(*                                                                         *)
(* Every thread is a program counter over `current_keys`; one action is    *)
(* what the code does between two points where another thread can run: the *)
(* two sections under the lock, the start and the end of the retrieval     *)
(* outside it, the release of the waiters, and a waiter's waking up.       *)
(*                                                                         *)
(* Abstractions: a key set is named by the retrieval that brought it, so   *)
(* `cached` is the number of a flight; parsing, status and media-type      *)
(* checks are the choice between a usable response and a failure; time is  *)
(* in whole seconds.  The wait of a waiter runs on another clock than the  *)
(* resolver's, so its timeout may come at any moment.                      *)
(***************************************************************************)
EXTENDS KeyFreshness

CONSTANTS
    Callers,      \* the threads that ask for keys
    MaxFlights    \* bound: retrievals in a behaviour

ASSUME BoundsAssumption == MaxFlights \in Nat

Flights == 1 .. MaxFlights
NoFlight == 0

\* How a retrieval ends: with keys, with an Exception, or with a BaseException
\* (an interrupt), which is not caught but passes through `finally`.
Outcomes == {"ok", "failed", "interrupted"}

\* A _Flight.  `lifetime` is when the server that made the key set stops
\* vouching for it, which the resolver knows from the headers only; a flight is
\* `lost` when its leader was interrupted where no `finally` ends it.
FlightRecords ==
    [state: {"unused", "pending"} \cup Outcomes, done: BOOLEAN,
     received: Nat, expires: Nat, lifetime: Nat, lost: BOOLEAN]

NewFlight(state) ==
    [state |-> state, done |-> FALSE, received |-> 0, expires |-> 0, lifetime |-> 0,
     lost |-> FALSE]

VARIABLES
    clock,      \* what self._clock() reads
    cached,     \* self._cached: the flight whose keys are cached, or NoFlight
    current,    \* self._flight: the flight callers join, or NoFlight
    launched,   \* number of flights so far; the flights are numbered in order
    flights,    \* the _Flight objects
    pc,         \* where each thread is
    on,         \* the flight a thread leads or waits for, or whose keys it took
    sentAt,     \* started_at of the thread that retrieves, while it does
    entered,    \* clock when the thread's present call began, or its last with keys
    answer      \* the flight whose keys its last call returned, or NoFlight

vars == <<clock, cached, current, launched, flights, pc, on, sentAt, entered, answer>>

Leading == {"leading", "fetching", "publishing", "signalling"}

\* What a call ends with: the keys of a flight, or none, if it raised a PaymentHold
\* or was interrupted.
Answers == Flights \cup {NoFlight}

TypeOK ==
    /\ clock \in 0 .. MaxClock
    /\ cached \in Flights \cup {NoFlight}
    /\ current \in Flights \cup {NoFlight}
    /\ launched \in 0 .. MaxFlights
    /\ flights \in [Flights -> FlightRecords]
    /\ pc \in [Callers -> {"idle", "waiting"} \cup Leading]
    /\ on \in [Callers -> Flights \cup {NoFlight}]
    /\ sentAt \in [Callers -> 0 .. MaxClock]
    /\ entered \in [Callers -> 0 .. MaxClock]
    /\ answer \in [Callers -> Answers]

Init ==
    /\ clock = 0
    /\ cached = NoFlight
    /\ current = NoFlight
    /\ launched = 0
    /\ flights = [f \in Flights |-> NewFlight("unused")]
    /\ pc = [t \in Callers |-> "idle"]
    /\ on = [t \in Callers |-> NoFlight]
    /\ sentAt = [t \in Callers |-> 0]
    /\ entered = [t \in Callers |-> 0]
    /\ answer = [t \in Callers |-> NoFlight]

-----------------------------------------------------------------------------
(* current_keys                                                            *)

CacheFresh == cached # NoFlight /\ clock < flights[cached].expires

\* Under the lock, with fresh keys cached: the call returns them.
ReturnCached(t) ==
    /\ pc[t] = "idle"
    /\ CacheFresh
    /\ entered' = [entered EXCEPT ![t] = clock]
    /\ on' = [on EXCEPT ![t] = NoFlight]
    /\ answer' = [answer EXCEPT ![t] = cached]
    /\ UNCHANGED <<clock, cached, current, launched, flights, pc, sentAt>>

\* Under the lock, without fresh keys: the cache is dropped and the call joins
\* the retrieval that is going on ...
Join(t) ==
    /\ pc[t] = "idle"
    /\ ~CacheFresh
    /\ current # NoFlight
    /\ cached' = NoFlight
    /\ pc' = [pc EXCEPT ![t] = "waiting"]
    /\ on' = [on EXCEPT ![t] = current]
    /\ entered' = [entered EXCEPT ![t] = clock]
    /\ answer' = [answer EXCEPT ![t] = NoFlight]
    /\ UNCHANGED <<clock, current, launched, flights, sentAt>>

\* ... or, when there is none, starts one that later callers can join.
Lead(t) ==
    /\ pc[t] = "idle"
    /\ ~CacheFresh
    /\ current = NoFlight
    /\ launched < MaxFlights
    /\ cached' = NoFlight
    /\ launched' = launched + 1
    /\ current' = launched + 1
    /\ flights' = [flights EXCEPT ![launched + 1] = NewFlight("pending")]
    /\ pc' = [pc EXCEPT ![t] = "leading"]
    /\ on' = [on EXCEPT ![t] = launched + 1]
    /\ entered' = [entered EXCEPT ![t] = clock]
    /\ answer' = [answer EXCEPT ![t] = NoFlight]
    /\ UNCHANGED <<clock, sentAt>>

\* _retrieve, first half: started_at is read and the request goes out.
Send(t) ==
    /\ pc[t] = "leading"
    /\ sentAt' = [sentAt EXCEPT ![t] = clock]
    /\ pc' = [pc EXCEPT ![t] = "fetching"]
    /\ UNCHANGED <<clock, cached, current, launched, flights, on, entered, answer>>

\* _retrieve, second half: a usable response with headers h, read at
\* received_at, whose keys are vouched for until `lifetime`.
Accept(t, h, lifetime) ==
    flights' = [flights EXCEPT ![on[t]] =
        [state |-> "ok", done |-> FALSE, received |-> clock,
         expires |-> clock + Freshness(h, sentAt[t], clock), lifetime |-> lifetime,
         lost |-> FALSE]]

Receive(t) ==
    /\ pc[t] = "fetching"
    /\ \E sent \in sentAt[t] .. clock :
       \E date \in 0 .. sent, maxAge \in 0 .. MaxAge, reusable, dated, aged \in BOOLEAN :
          /\ dated \/ aged
          /\ Accept(t, HeadersOf(date, sent, maxAge, reusable, dated, aged), date + maxAge)
    /\ sentAt' = [sentAt EXCEPT ![t] = 0]
    /\ pc' = [pc EXCEPT ![t] = "publishing"]
    /\ UNCHANGED <<clock, cached, current, launched, on, entered, answer>>

\* Mutant: an error leaves the call without passing through `finally`.
FailAbandons(t) ==
    /\ pc[t] = "fetching"
    /\ \E state \in {"failed", "interrupted"} :
          flights' = [flights EXCEPT ![on[t]] = NewFlight(state)]
    /\ sentAt' = [sentAt EXCEPT ![t] = 0]
    /\ pc' = [pc EXCEPT ![t] = "idle"]
    /\ UNCHANGED <<clock, cached, current, launched, on, entered, answer>>

\* No usable response: a transport error, a timeout, a response that is refused,
\* or an interrupt of the thread.
Fail(t) ==
    /\ pc[t] = "fetching"
    /\ \E state \in {"failed", "interrupted"} :
          flights' = [flights EXCEPT ![on[t]] = NewFlight(state)]
    /\ sentAt' = [sentAt EXCEPT ![t] = 0]
    /\ pc' = [pc EXCEPT ![t] = "publishing"]
    /\ UNCHANGED <<clock, cached, current, launched, on, entered, answer>>

\* Mutant: the flight is not taken down when keys were cached.
PublishKeepsFlight(t) ==
    /\ pc[t] = "publishing"
    /\ IF flights[on[t]].state = "ok" /\ clock < flights[on[t]].expires
       THEN cached' = on[t] /\ UNCHANGED current
       ELSE current' = NoFlight /\ UNCHANGED cached
    /\ pc' = [pc EXCEPT ![t] = "signalling"]
    /\ UNCHANGED <<clock, launched, flights, on, sentAt, entered, answer>>

\* `finally`, under the lock: cache what is still fresh, end the flight.
Publish(t) ==
    /\ pc[t] = "publishing"
    /\ cached' = IF flights[on[t]].state = "ok" /\ clock < flights[on[t]].expires
                 THEN on[t] ELSE cached
    /\ current' = NoFlight
    /\ pc' = [pc EXCEPT ![t] = "signalling"]
    /\ UNCHANGED <<clock, launched, flights, on, sentAt, entered, answer>>

\* Mutant: the error of the flight is not looked at.
LandedBlindly(f) == f

\* What a call ends with once its flight f is over: its keys, or an exception.
Landed(f) == IF flights[f].state = "ok" THEN f ELSE NoFlight

\* done.set(), outside the lock, and the leader's own call ends.
Signal(t) ==
    /\ pc[t] = "signalling"
    /\ flights' = [flights EXCEPT ![on[t]].done = TRUE]
    /\ pc' = [pc EXCEPT ![t] = "idle"]
    /\ answer' = [answer EXCEPT ![t] = Landed(on[t])]
    /\ UNCHANGED <<clock, cached, current, launched, on, sentAt, entered>>

\* An interrupt between the lock and the `try`, or in the `finally` before it is
\* through: the flight is never signalled, and unless it was taken down already
\* every later caller joins it.  Its keys may have been cached.
Strand(t) ==
    /\ pc[t] \in {"leading", "publishing", "signalling"}
    /\ \/ UNCHANGED cached
       \/ /\ pc[t] = "publishing"
          /\ flights[on[t]].state = "ok" /\ clock < flights[on[t]].expires
          /\ cached' = on[t]
    /\ flights' = [flights EXCEPT ![on[t]].lost = TRUE]
    /\ pc' = [pc EXCEPT ![t] = "idle"]
    /\ on' = [on EXCEPT ![t] = NoFlight]
    /\ entered' = [entered EXCEPT ![t] = 0]
    /\ answer' = [answer EXCEPT ![t] = NoFlight]
    /\ UNCHANGED <<clock, current, launched, sentAt>>

\* Mutant: the waiter puts the keys it woke up with in the cache.
WakeCaches(t) ==
    /\ pc[t] = "waiting"
    /\ flights[on[t]].done
    /\ cached' = IF flights[on[t]].state = "ok" THEN on[t] ELSE cached
    /\ pc' = [pc EXCEPT ![t] = "idle"]
    /\ answer' = [answer EXCEPT ![t] = Landed(on[t])]
    /\ UNCHANGED <<clock, current, launched, flights, on, sentAt, entered>>

\* A waiter whose flight is over takes its keys or its error.
Wake(t) ==
    /\ pc[t] = "waiting"
    /\ flights[on[t]].done
    /\ pc' = [pc EXCEPT ![t] = "idle"]
    /\ answer' = [answer EXCEPT ![t] = Landed(on[t])]
    /\ UNCHANGED <<clock, cached, current, launched, flights, on, sentAt, entered>>

\* Mutant: a wait without a timeout.
GiveUpNever(t) ==
    /\ pc[t] = "waiting"
    /\ flights[on[t]].done
    /\ pc' = [pc EXCEPT ![t] = "idle"]
    /\ on' = [on EXCEPT ![t] = NoFlight]
    /\ entered' = [entered EXCEPT ![t] = 0]
    /\ answer' = [answer EXCEPT ![t] = NoFlight]
    /\ UNCHANGED <<clock, cached, current, launched, flights, sentAt>>

\* done.wait gives up: KEYS_UNAVAILABLE, whatever the flight brings later.
GiveUp(t) ==
    /\ pc[t] = "waiting"
    /\ ~flights[on[t]].done
    /\ pc' = [pc EXCEPT ![t] = "idle"]
    /\ on' = [on EXCEPT ![t] = NoFlight]
    /\ entered' = [entered EXCEPT ![t] = 0]
    /\ answer' = [answer EXCEPT ![t] = NoFlight]
    /\ UNCHANGED <<clock, cached, current, launched, flights, sentAt>>

Tick ==
    /\ clock < MaxClock
    /\ clock' = clock + 1
    /\ UNCHANGED <<cached, current, launched, flights, pc, on, sentAt, entered, answer>>

-----------------------------------------------------------------------------

Call(t) == ReturnCached(t) \/ Join(t) \/ Lead(t)
LeaderStep(t) == Send(t) \/ Receive(t) \/ Fail(t) \/ Publish(t) \/ Signal(t)
WaiterStep(t) == Wake(t) \/ GiveUp(t)

Next == Tick \/ \E t \in Callers : Call(t) \/ LeaderStep(t) \/ Strand(t) \/ WaiterStep(t)

Spec == Init /\ [][Next]_vars

\* A thread that holds the result of its fetch, or waits with a timeout, keeps
\* running.  Nothing is promised of the fetch itself, which may hang, nor that
\* anybody calls.
FairSpec ==
    /\ Spec
    /\ \A t \in Callers : WF_vars(Send(t) \/ Publish(t) \/ Signal(t))
    /\ \A t \in Callers : WF_vars(WaiterStep(t))

\* What the timeouts of the default fetch add: every fetch ends somehow.
FetchesEnd == \A t \in Callers : WF_vars(Receive(t) \/ Fail(t))

-----------------------------------------------------------------------------
(* Properties                                                              *)

Retrieving(t) == pc[t] \in {"leading", "fetching", "publishing"}

\* "Concurrent callers share one retrieval": the current flight is always led
\* by exactly one thread, unless that thread was interrupted outside its `try`,
\* and nobody else talks to the key server, although a flight ends (Publish)
\* before its leader and its waiters have returned.
OneRetrieval ==
    /\ \A t, s \in Callers : Retrieving(t) /\ Retrieving(s) => t = s
    /\ current # NoFlight /\ ~flights[current].lost
          <=> \E t \in Callers : Retrieving(t) /\ on[t] = current

\* Whatever the delay, the Age and the Date of the responses were, keys in the
\* cache count as fresh only while the server that made them vouches for them.
CacheWithinLifetime == CacheFresh => clock < flights[cached].lifetime

\* Fail closed: a call that returns keys returns those of a retrieval that
\* succeeded, either the one it took part in or one that was fresh when the
\* call began; a failed, interrupted or late retrieval never falls back on keys.
NoFallback ==
    \A t \in Callers : answer[t] # NoFlight =>
        LET f == answer[t]
        IN  /\ flights[f].state = "ok"
            /\ f = on[t] \/ (on[t] = NoFlight /\ entered[t] < flights[f].expires)

\* The cache only moves to later retrievals: a slow thread never puts back keys
\* that a later retrieval has replaced.
CacheMovesForward ==
    [][cached' # NoFlight /\ cached' # cached =>
          \A f \in Flights : flights[f].state = "ok" => f <= cached']_vars

\* The docstring's "expired keys are never reused": a call returns keys that
\* were received since it began or had not expired when it began.
ExpiredKeysNeverReused ==
    \A t \in Callers : answer[t] # NoFlight /\ pc[t] = "idle" =>
        \/ flights[answer[t]].received >= entered[t]
        \/ flights[answer[t]].expires > entered[t]

\* What a retrieval meets never wedges the resolver: if fetches end, with keys, an
\* error or an interrupt, every flight is over at some point and another can
\* start.  Only an interrupt that meets its leader outside the `try` leaves one
\* behind.
FlightsEnd ==
    FetchesEnd =>
        (current # NoFlight ~> current = NoFlight \/ flights[current].lost)

\* A fetch that hangs costs its own thread only: whoever joined it returns.
WaitersReturn == \A t \in Callers : pc[t] = "waiting" ~> pc[t] = "idle"

=============================================================================
