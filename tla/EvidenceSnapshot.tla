-------------------------- MODULE EvidenceSnapshot --------------------------
(***************************************************************************)
(* ops/evidence-snapshot-worker: requests for the one paid resource, whose *)
(* PAYMENT-CONTEXT is verified at the time the request came in, with keys  *)
(* that all requests of the Worker share and that are retrieved within a   *)
(* timeout.  One action is what runs between two awaits that wait for      *)
(* something outside the Worker.                                           *)
(*                                                                         *)
(* Abstractions: a key set is what its response said; time is in whole     *)
(* seconds; the parts of a JWKS response that are checked are the choice   *)
(* between a usable one and a failure.                                     *)
(***************************************************************************)
EXTENDS PaymentContext, KeyFreshness

CONSTANTS
    Requests,     \* requests that reach the Worker
    Tokens,       \* PAYMENT-CONTEXT values ...
    Content,      \* ... and what is read from them
    Route,        \* what the Worker expects of a token: AUDIENCE, AMOUNT_ATOMIC ...
    KeySets,      \* the key sets the key server may have
    Timeout       \* FETCH_TIMEOUT_MS

ASSUME SnapshotAssumption ==
    /\ Timeout \in Nat \ {0} /\ None \notin Tokens
    /\ Route.leeway \in Nat /\ Route.scheme = "exact"
ASSUME ContentAssumption ==
    \A t \in Tokens : Content[t].claims # Invalid => Content[t].claims.exp \in Int \cup {Invalid}

\* The keys of a response that was received at some time: until when the resolver
\* reuses them, and until when their server vouches for them.
KeySet(keys, received, expires, lifetime) ==
    [keys |-> keys, received |-> received, expires |-> expires, lifetime |-> lifetime]
NoKeys == KeySet({}, 0, 0, 0)

\* The retrieval while `pending` is undefined.
NoRetrieval == [started |-> -1, result |-> None]

KeySetRecords ==
    [keys: KeySets \cup {{}}, received: 0 .. MaxClock, expires: Nat, lifetime: Nat]

VARIABLES
    clock,      \* now()
    cached,     \* `cached`, or None
    pending,    \* `pending`: when it started, and the keys it has brought or None
    calls       \* handleRequest of each request

vars == <<clock, cached, pending, calls>>

\* A call; the keys that made it a 200 are history.
Call(stage, token, asked, answered, status, used) ==
    [stage |-> stage, token |-> token, asked |-> asked, answered |-> answered,
     status |-> status, used |-> used]
Unseen == Call("unseen", None, 0, 0, 0, NoKeys)
Answered(token, asked, status, used) == Call("done", token, asked, clock, status, used)

CallRecords ==
    [stage: {"unseen", "waiting", "done"}, token: Tokens \cup {None},
     asked: 0 .. MaxClock, answered: 0 .. MaxClock,
     status: {0, 200, 402, 403, 404, 405}, used: KeySetRecords]

\* A request that waits waits for the retrieval that is going on.
TypeOK ==
    /\ clock \in 0 .. MaxClock
    /\ cached \in KeySetRecords \cup {None}
    /\ pending \in [started: -1 .. MaxClock, result: KeySetRecords \cup {None}]
    /\ calls \in [Requests -> CallRecords]
    /\ \A r \in Requests : calls[r].stage = "waiting" => pending # NoRetrieval

Init ==
    /\ clock = 0
    /\ cached = None
    /\ pending = NoRetrieval
    /\ calls = [r \in Requests |-> Unseen]

-----------------------------------------------------------------------------
(* handleRequest                                                           *)

\* What is expected of a context that came in at some time.
At(now) == Expectation(Route.scheme, Route.leeway, Route.audience, Route.amount, now, None)

\* What is answered without any key: 0 when it takes keys to tell.
StatusBefore(request, t) ==
    IF request = "other method" THEN 405
    ELSE IF request = "other resource" THEN 404
    ELSE IF t = None \/ Content[t].form = "absent" THEN 402
    ELSE IF EarlyVerdict(Content[t], At(clock)) # "valid" THEN 403
    ELSE 0

\* The end of a call that came in at `asked` and has a key set to decide with.
DecidedWith(t, asked, set) ==
    IF LateVerdict(Content[t], At(asked), set.keys) = "valid"
    THEN Answered(t, asked, 200, set) ELSE Answered(t, asked, 403, NoKeys)

\* Mutant: keys that were cached once are used for ever.
CacheKept == cached # None

CacheFresh == cached # None /\ clock < cached.expires

\* Refused, or asking for payment, at once.
AnswerWithoutKeys(r, request, t) ==
    /\ StatusBefore(request, t) # 0
    /\ calls' = [calls EXCEPT ![r] = Answered(t, clock, StatusBefore(request, t), NoKeys)]
    /\ UNCHANGED <<clock, cached, pending>>

\* Decided at once with the cached keys.
AnswerFromCache(r, request, t) ==
    /\ StatusBefore(request, t) = 0
    /\ CacheFresh
    /\ calls' = [calls EXCEPT ![r] = DecidedWith(t, clock, cached)]
    /\ UNCHANGED <<clock, cached, pending>>

\* Without fresh keys the cache is dropped and the request waits for the retrieval
\* that is going on, or for one of its own that later requests can join.
AwaitKeys(r, request, t) ==
    /\ StatusBefore(request, t) = 0
    /\ ~CacheFresh
    /\ cached' = None
    /\ pending' = IF pending = NoRetrieval THEN [started |-> clock, result |-> None]
                  ELSE pending
    /\ calls' = [calls EXCEPT ![r] = Call("waiting", t, clock, 0, 0, NoKeys)]
    /\ UNCHANGED clock

\* Bound: requests come in early enough for a retrieval to time out.
Arrive(r, request, t) ==
    /\ calls[r].stage = "unseen"
    /\ clock + Timeout <= MaxClock
    /\ \/ AnswerWithoutKeys(r, request, t)
       \/ AnswerFromCache(r, request, t)
       \/ AwaitKeys(r, request, t)

-----------------------------------------------------------------------------
(* retrieve                                                                *)

\* The headers of a response are there, and received_at is read.
Receive(keys) ==
    /\ pending # NoRetrieval /\ pending.result = None
    /\ \E sent \in pending.started .. clock :
       \E date \in 0 .. sent, maxAge \in 0 .. MaxAge, reusable, dated, aged \in BOOLEAN :
          LET h == HeadersOf(date, sent, maxAge, reusable, dated, aged)
              expires == clock + Freshness(h, pending.started, clock)
          IN  /\ dated \/ aged
              /\ pending' = [pending EXCEPT !.result = KeySet(keys, clock, expires, date + maxAge)]
    /\ UNCHANGED <<clock, cached, calls>>

\* Everyone who awaits the keys goes on with them.
Land ==
    /\ pending # NoRetrieval /\ pending.result # None
    /\ LET result == pending.result
       IN  /\ cached' = IF clock < result.expires THEN result ELSE cached
           /\ calls' = [r \in Requests |->
                 LET call == calls[r]
                 IN  IF call.stage = "waiting"
                     THEN DecidedWith(call.token, call.asked, result)
                     ELSE call]
    /\ pending' = NoRetrieval
    /\ UNCHANGED clock

\* Mutant: those who joined the retrieval are not told.
AbandonAlone ==
    /\ pending' = NoRetrieval
    /\ UNCHANGED <<clock, cached, calls>>

\* A retrieval that fails refuses everyone who awaits it.
Abandon ==
    /\ pending' = NoRetrieval
    /\ calls' = [r \in Requests |->
          LET call == calls[r]
          IN  IF call.stage = "waiting" THEN Answered(call.token, call.asked, 403, NoKeys) ELSE call]
    /\ UNCHANGED <<clock, cached>>

\* The key server is unreachable or answers what is no key set.
FetchFails == pending # NoRetrieval /\ Abandon

Overdue == pending # NoRetrieval /\ clock >= pending.started + Timeout

\* Mutant: the timer is cleared once the headers are there.
TimesOutOnHeaders == Overdue /\ pending.result = None /\ Abandon

\* The timer covers the headers and the body.
TimesOut == Overdue /\ Abandon

\* Time goes on; a timer that is due fires first.
Tick ==
    /\ clock < MaxClock
    /\ ~Overdue
    /\ clock' = clock + 1
    /\ UNCHANGED <<cached, pending, calls>>

Next ==
    \/ \E r \in Requests, request \in {"other method", "other resource", "snapshot"},
          t \in Tokens \cup {None} : Arrive(r, request, t)
    \/ \E keys \in KeySets : Receive(keys)
    \/ Land \/ FetchFails \/ TimesOut \/ Tick

Spec == Init /\ [][Next]_vars

\* Time goes on and timers fire; the key server promises nothing.
FairSpec == Spec /\ WF_vars(Tick) /\ WF_vars(TimesOut)

-----------------------------------------------------------------------------
(* Properties                                                              *)

\* The clock is read before the keys are awaited, so a snapshot may be served for
\* a context that has expired meanwhile: no later than the timeout after a moment
\* at which the context was valid, for the exact price of this resource, by a key
\* of a set that its server vouched for at that moment or that was received within
\* the timeout.
ServedInTime ==
    \A r \in Requests : calls[r].status = 200 =>
        LET call == calls[r]
            c == Content[call.token].claims
        IN  /\ c.aud = Route.audience /\ c.scheme = "exact" /\ c.amount = Route.amount
            /\ call.asked < c.exp + Route.leeway
            /\ call.answered <= call.asked + Timeout
            /\ \E k \in call.used.keys : k.key = Content[call.token].signer
            /\ \/ call.asked < call.used.lifetime
               \/ call.answered <= call.used.received + Timeout

\* A key server that hangs, before its headers or in its body, delays a request by
\* the timeout at most, whenever the request joined the retrieval.
EveryRequestAnswered == \A r \in Requests : calls[r].stage = "waiting" ~> calls[r].stage = "done"

=============================================================================
