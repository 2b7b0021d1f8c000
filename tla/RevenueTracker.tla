--------------------------- MODULE RevenueTracker ---------------------------
(***************************************************************************)
(* ops/revenue-tracker-worker: requests that pass through to the origin    *)
(* while their PAYMENT-CONTEXT is verified beside it, with keys that all   *)
(* requests of the Worker share, and the rows that are recorded once both  *)
(* the origin and the verification have ended.                             *)
(*                                                                         *)
(* One action is what runs between two awaits: the start of a request, its *)
(* asking for keys, the end of a key retrieval (which resumes everyone who *)
(* awaits it), the end of the origin fetch, and the recording.             *)
(*                                                                         *)
(* Abstractions: a token is a value with the claims it carries, equal      *)
(* tokens standing for equal blob4; reason codes, issuer, revision and     *)
(* audience columns are left out; a context outside its exp and nbf is one *)
(* that does not verify; cached keys go stale at any moment.               *)
(***************************************************************************)
EXTENDS Integers, FiniteSets

CONSTANTS
    Requests,      \* requests that reach the Worker
    AudienceOf,    \* origin and path of each
    Tokens,        \* PAYMENT-CONTEXT values
    Claims,        \* what each carries
    Statuses,      \* statuses the origin answers with
    Reports,       \* amounts its PAYMENT-SETTLEMENT can name
    MinAtomic, MaxAtomic,   \* price bounds
    None,          \* no token, no header
    Malformed      \* a PAYMENT-SETTLEMENT that names no amount

ASSUME BoundsAssumption ==
    MinAtomic \in Nat \ {0} /\ MaxAtomic \in Nat /\ Reports \subseteq Nat /\ Statuses \subseteq 200 .. 599

\* `form` is "malformed" when the header alone refuses the token (no JWT, not
\* EdDSA, a key location of its own), "forged" when no key of the key server
\* verifies it, and "signed" otherwise.
ASSUME ClaimsAssumption ==
    Claims \in [Tokens -> [form: {"malformed", "forged", "signed"}, aud: STRING,
                           scheme: STRING, amount: Nat]]

ASSUME NoneAssumption == None \notin Tokens /\ None \notin Nat /\ Malformed \notin Nat \cup {None}

\* The PAYMENT-SETTLEMENT of a response, when it has one.
Settlements == Reports \cup {Malformed}

\* Why and with what the origin fetch ended; a transport failure has status 0.
Unanswered == [status |-> -1, settlement |-> None]
Endings == [status: Statuses, settlement: Settlements \cup {None}]
TransportFailure == [status |-> 0, settlement |-> None]

VARIABLES
    stage,          \* where handleRequest is, and then its waitUntil task
    token,          \* the PAYMENT-CONTEXT of the request, or None
    verification,   \* what the promise `verification` has come to
    origin,         \* how the origin fetch ended
    rows,           \* the data points the dataset has taken of each request
    keysFresh,      \* `cached` holds keys that have not expired
    pending         \* a key retrieval is going on

vars == <<stage, token, verification, origin, rows, keysFresh, pending>>

\* Mutant: recording waits for a verdict, and an outage brings none.
DecidedByKeys == {"absent", "ok", "refused"}

Decided == {"absent", "ok", "refused", "keys_unavailable"}

Row == [event: {"payment_authorized", "settlement_reported",
                "payment_context_rejected", "settlement_ignored"},
        token: Tokens \cup {None}, authorized: Nat, reported: Nat, effective: Nat,
        status: Statuses \cup {0}]

TypeOK ==
    /\ stage \in [Requests -> {"unseen", "fetching", "recording", "over"}]
    /\ token \in [Requests -> Tokens \cup {None}]
    /\ verification \in [Requests -> {"unseen", "started", "waiting"} \cup Decided]
    /\ origin \in [Requests -> Endings \cup {Unanswered, TransportFailure}]
    /\ rows \in [Requests -> SUBSET Row]
    /\ keysFresh \in BOOLEAN /\ pending \in BOOLEAN

Init ==
    /\ stage = [r \in Requests |-> "unseen"]
    /\ token = [r \in Requests |-> None]
    /\ verification = [r \in Requests |-> "unseen"]
    /\ origin = [r \in Requests |-> Unanswered]
    /\ rows = [r \in Requests |-> {}]
    /\ keysFresh = FALSE
    /\ pending = FALSE

-----------------------------------------------------------------------------
(* Verification                                                            *)

\* What the verifier makes of token t at a resource, with keys in hand.
Verdict(t, audience) ==
    LET c == Claims[t]
    IN  IF /\ c.form = "signed"
           /\ c.aud = audience
           /\ c.scheme \in {"exact", "upto"}
           /\ c.amount \in MinAtomic .. MaxAtomic
        THEN "ok" ELSE "refused"

\* Refused on its header, before keys are asked for.
RefuseHeader(r) ==
    /\ verification[r] = "started"
    /\ Claims[token[r]].form = "malformed"
    /\ verification' = [verification EXCEPT ![r] = "refused"]
    /\ UNCHANGED <<stage, token, origin, rows, keysFresh, pending>>

\* Decided with the cached keys, or waiting for the one retrieval there is.
AskKeys(r) ==
    /\ verification[r] = "started"
    /\ Claims[token[r]].form # "malformed"
    /\ \/ /\ keysFresh
          /\ verification' = [verification EXCEPT ![r] = Verdict(token[r], AudienceOf[r])]
          /\ UNCHANGED pending
       \/ /\ ~keysFresh
          /\ verification' = [verification EXCEPT ![r] = "waiting"]
          /\ pending' = TRUE
    /\ UNCHANGED <<stage, token, origin, rows, keysFresh>>

\* Keys arrive, and everyone who awaits them goes on with its own verdict; they
\* are kept only when they are still fresh.
Retrieved ==
    /\ pending
    /\ pending' = FALSE
    /\ keysFresh' \in BOOLEAN
    /\ verification' = [r \in Requests |->
          IF verification[r] = "waiting" THEN Verdict(token[r], AudienceOf[r]) ELSE verification[r]]
    /\ UNCHANGED <<stage, token, origin, rows>>

\* The key server is unreachable, answers nonsense, or not within five seconds.
RetrievalFails ==
    /\ pending
    /\ pending' = FALSE
    /\ verification' = [r \in Requests |->
          IF verification[r] = "waiting" THEN "keys_unavailable" ELSE verification[r]]
    /\ UNCHANGED <<stage, token, origin, rows, keysFresh>>

Expire ==
    /\ keysFresh
    /\ keysFresh' = FALSE
    /\ UNCHANGED <<stage, token, verification, origin, rows, pending>>

-----------------------------------------------------------------------------
(* assessSettlement and eventsFor                                          *)

\* A settlement of `authorized` counts only for a variable price that the origin
\* served, in the gateway's form.
Countable(scheme, end) == scheme = "upto" /\ end.status < 400 /\ end.settlement # Malformed

\* Mutant: the report is not capped.
EffectiveReported(reported, authorized) == reported

Effective(reported, authorized) == IF reported > authorized THEN authorized ELSE reported

\* The row of an event about token t; the amounts are zero unless it says more.
DataPoint(event, t, authorized, reported, effective, status) ==
    [event |-> event, token |-> t, authorized |-> authorized, reported |-> reported,
     effective |-> effective, status |-> status]

\* With a verified context: its authorization, and the settlement there is.
VerifiedEvents(t, end) ==
    LET c == Claims[t]
        settled ==
            IF Countable(c.scheme, end)
            THEN DataPoint("settlement_reported", t, c.amount, end.settlement,
                           Effective(end.settlement, c.amount), end.status)
            ELSE DataPoint("settlement_ignored", t, c.amount, 0, 0, end.status)
    IN  {DataPoint("payment_authorized", t, c.amount, 0, 0, end.status)}
        \cup (IF end.settlement # None THEN {settled} ELSE {})

\* Without one: the rejection of the context there is, the settlement ignored.
UnverifiedEvents(t, end) ==
    (IF t # None THEN {DataPoint("payment_context_rejected", t, 0, 0, 0, end.status)} ELSE {})
    \cup (IF end.settlement # None THEN {DataPoint("settlement_ignored", t, 0, 0, 0, end.status)}
          ELSE {})

\* Mutant: a context that is not refused counts.
EventsUnlessRefused(t, outcome, end) ==
    IF t # None /\ outcome # "refused" THEN VerifiedEvents(t, end) ELSE UnverifiedEvents(t, end)

EventsFor(t, outcome, end) ==
    IF outcome = "ok" THEN VerifiedEvents(t, end) ELSE UnverifiedEvents(t, end)

-----------------------------------------------------------------------------
(* handleRequest                                                           *)

\* A request arrives: its verification starts, then its origin fetch.
Arrive(r, t) ==
    /\ stage[r] = "unseen"
    /\ stage' = [stage EXCEPT ![r] = "fetching"]
    /\ token' = [token EXCEPT ![r] = t]
    /\ verification' = [verification EXCEPT ![r] = IF t = None THEN "absent" ELSE "started"]
    /\ UNCHANGED <<origin, rows, keysFresh, pending>>

\* The origin answers: the response is returned as it is, and a request that
\* carries a token or a settlement goes on to be recorded.
OriginAnswers(r, end) ==
    /\ stage[r] = "fetching"
    /\ origin' = [origin EXCEPT ![r] = end]
    /\ stage' = [stage EXCEPT ![r] =
          IF token[r] # None \/ end.settlement # None THEN "recording" ELSE "over"]
    /\ UNCHANGED <<token, verification, rows, keysFresh, pending>>

\* Mutant: the failure is recorded without a status of its own.
OriginFailsUnmarked(r) ==
    /\ stage[r] = "fetching"
    /\ stage' = [stage EXCEPT ![r] = IF token[r] # None THEN "recording" ELSE "over"]
    /\ UNCHANGED <<token, verification, origin, rows, keysFresh, pending>>

\* The origin fetch throws: the error is passed on, a token is still recorded.
OriginFails(r) ==
    /\ stage[r] = "fetching"
    /\ origin' = [origin EXCEPT ![r] = TransportFailure]
    /\ stage' = [stage EXCEPT ![r] = IF token[r] # None THEN "recording" ELSE "over"]
    /\ UNCHANGED <<token, verification, rows, keysFresh, pending>>

\* The waitUntil task: once the verification is decided the events are written
\* one by one; a write that throws loses its own row only, and without a bound
\* dataset all of them are lost.
Record(r) ==
    /\ stage[r] = "recording"
    /\ verification[r] \in Decided
    /\ stage' = [stage EXCEPT ![r] = "over"]
    /\ \E taken \in SUBSET EventsFor(token[r], verification[r], origin[r]) :
          rows' = [rows EXCEPT ![r] = taken]
    /\ UNCHANGED <<token, verification, origin, keysFresh, pending>>

Verify(r) == RefuseHeader(r) \/ AskKeys(r)
OriginEnds(r) == OriginFails(r) \/ \E end \in Endings : OriginAnswers(r, end)

Next ==
    \/ Retrieved \/ RetrievalFails \/ Expire
    \/ \E r \in Requests :
          \/ \E t \in Tokens \cup {None} : Arrive(r, t)
          \/ Verify(r) \/ OriginEnds(r) \/ Record(r)

Spec == Init /\ [][Next]_vars

\* What the event loop runs by itself, and the two ends of a key retrieval: it
\* has a timeout of its own.  The origin promises nothing.
FairSpec ==
    /\ Spec
    /\ WF_vars(Retrieved \/ RetrievalFails)
    /\ \A r \in Requests : WF_vars(Verify(r)) /\ WF_vars(Record(r))

-----------------------------------------------------------------------------
(* Properties                                                              *)

\* "Counting only what is cryptographically or origin-attested": a row that
\* counts an amount is about a context signed for this very resource and within
\* the price bounds, with the signed amount; it counts as settled only what an
\* origin that served the request reported for a variable price, never more than
\* the client authorized; however the origin and the verification interleaved
\* and whichever of the writes failed.
CountsOnlyAttested ==
    \A r \in Requests : \A row \in rows[r] :
        LET c == Claims[token[r]]
        IN  /\ row.authorized > 0 =>
                /\ row.token = token[r] /\ token[r] # None
                /\ c.form = "signed" /\ c.aud = AudienceOf[r]
                /\ row.authorized = c.amount /\ c.amount \in MinAtomic .. MaxAtomic
            /\ row.effective > 0 =>
                /\ row.authorized > 0 /\ row.effective <= row.authorized
                /\ c.scheme = "upto"
                /\ origin[r].status \in 200 .. 399
                /\ row.effective <= origin[r].settlement

\* "A JWKS outage only means nothing is counted", and a request whose origin
\* never answered is not in the README's query of authorizations.
FailuresCountNothing ==
    \A r \in Requests :
        /\ verification[r] = "keys_unavailable" => \A row \in rows[r] : row.authorized = 0
        /\ origin[r] = TransportFailure => \A row \in rows[r] : row.status = 0 /\ row.effective = 0

\* "Recording neither delays nor blocks traffic", and never gets stuck itself: a
\* request whose origin fetch has ended is recorded, whether its keys come, fail
\* or go stale meanwhile.
RecordingEnds == \A r \in Requests : stage[r] = "recording" ~> stage[r] = "over"

=============================================================================
