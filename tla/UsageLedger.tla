---------------------------- MODULE UsageLedger ----------------------------
(***************************************************************************)
(* The billing-event ledger of scripts/x402_usage_ledger.py.  One process  *)
(* calls `authorize` and `transition`; every call either changes the three *)
(* dictionaries of the ledger or raises LedgerHold(reason) and changes     *)
(* nothing.  The reason a call holds for is what AuthorizeVerdict and      *)
(* TransitionVerdict return, so a call that holds is a stuttering step.    *)
(*                                                                         *)
(* Abstractions: the fields of an admission the ledger stores and never    *)
(* reads (principal, SKU, route, revisions ...) are one opaque `body`; the *)
(* SHA-256 of canonical JSON is collision-free, so a digest is the content *)
(* it was taken over; provider_reference and evidence_digest are part of   *)
(* no decision and are left out.                                           *)
(***************************************************************************)
EXTENDS Integers, FiniteSetsExt

CONSTANTS
    EventIds,      \* event_id values callers use
    Tenants,       \* tenant_id values
    RequestIds,    \* request_id values
    Bodies,        \* the remaining admission fields, taken together
    Numbers,       \* integers callers pass as quote, quantity or actual amount
    Cap,           \* cap_atomic of the constructor
    None,          \* Python's None: nothing stored, or no amount measured
    NotInt,        \* a value whose type is not int
    Absent         \* a keyword or a required field the caller leaves out

ASSUME CapAssumption == Cap \in Nat
ASSUME NumbersAssumption == Numbers \subseteq Int
ASSUME NoneAssumption == None \notin EventIds \cup Int \cup {NotInt, Absent}
ASSUME MarkAssumption == {NotInt, Absent} \cap Int = {} /\ NotInt # Absent

Lifecycles == {"AUTHORIZED", "PRODUCED", "SETTLEMENT_PENDING", "SETTLED",
               "FAILED", "CANCELLED", "DISPUTED", "REFUNDED"}

\* Mutant: the table of transitions is not consulted.
SuccessorsAny(lifecycle) == Lifecycles \ {lifecycle}

Successors(lifecycle) ==
    CASE lifecycle = "AUTHORIZED"         -> {"PRODUCED", "FAILED", "CANCELLED"}
      [] lifecycle = "PRODUCED"           -> {"SETTLEMENT_PENDING", "FAILED", "CANCELLED"}
      [] lifecycle = "SETTLEMENT_PENDING" -> {"SETTLED", "FAILED", "DISPUTED"}
      [] lifecycle = "SETTLED"            -> {"DISPUTED", "REFUNDED"}
      [] lifecycle = "DISPUTED"           -> {"REFUNDED", "SETTLED"}
      [] OTHER                            -> {}

\* What a caller may pass: any amount, of any type, or no amount at all.
Amounts == Numbers \cup {NotInt, Absent}

Requests == Tenants \X RequestIds

Fields == [event: EventIds, request: Requests, body: Bodies,
           quantity: Amounts, quoted: Amounts]

\* The keyword arguments of `transition`.  `quoted` stands for every name
\* outside TRANSITION_FIELDS, `sensitive` for the two forbidden names.
Updates == [actual: Amounts, quoted: Amounts, sensitive: BOOLEAN]

\* What is stored: an admission that passed the checks, and what was measured.
Rows == [event: EventIds, request: Requests, body: Bodies,
         quantity: Nat, quoted: Int, lifecycle: Lifecycles,
         actual: Int \cup {None}]

ASSUME RowAssumption == None \notin Rows
ASSUME RequestAssumption == None \notin Requests

VARIABLES
    byEvent,           \* _by_event: the current record of each event
    byRequest,         \* _by_request: the event that used a (tenant, request)
    admissionDigest,   \* _admission_digest: digest of the record as admitted
    recordDigest       \* the record_digest stored inside each record

vars == <<byEvent, byRequest, admissionDigest, recordDigest>>

TypeOK ==
    /\ byEvent \in [EventIds -> Rows \cup {None}]
    /\ byRequest \in [Requests -> EventIds \cup {None}]
    /\ admissionDigest \in [EventIds -> Rows \cup {None}]
    /\ recordDigest \in [EventIds -> Rows \cup {None}]

Init ==
    /\ byEvent = [e \in EventIds |-> None]
    /\ byRequest = [r \in Requests |-> None]
    /\ admissionDigest = [e \in EventIds |-> None]
    /\ recordDigest = [e \in EventIds |-> None]

Admitted(e) == byEvent[e] # None

-----------------------------------------------------------------------------
(* authorize                                                               *)

\* The record a call proposes, and the digest taken over a record.
Proposed(f) ==
    [event |-> f.event, request |-> f.request, body |-> f.body,
     quantity |-> f.quantity, quoted |-> f.quoted,
     lifecycle |-> "AUTHORIZED", actual |-> None]

Digest(row) == row

\* Why a call that hands over the secret material `sensitive` (a signature or
\* a raw payload) or not, and the fields f, is refused; or what it does.
AuthorizeVerdict(f, sensitive) ==
    IF sensitive THEN "FORBIDDEN_SENSITIVE_FIELD"
    ELSE IF Absent \in {f.quantity, f.quoted} THEN "MISSING_FIELD"
    ELSE IF NotInt \in {f.quantity, f.quoted} THEN "INTEGER_REQUIRED"
    ELSE IF f.quoted < 0 \/ f.quantity < 0 THEN "NEGATIVE_QUANTITY"
    ELSE IF f.quoted > Cap THEN "COST_CAP"
    ELSE IF Admitted(f.event)
         THEN IF admissionDigest[f.event] # Digest(Proposed(f))
              THEN "DUPLICATE_CONFLICT" ELSE "RETURN_CURRENT"
    ELSE IF byRequest[f.request] # None THEN "REPLAY"
    ELSE "ADMIT"

\* Mutant: a request that another event used is not a replay.
AuthorizeReplays(f, sensitive) ==
    /\ AuthorizeVerdict(f, sensitive) \in {"ADMIT", "REPLAY"}
    /\ byEvent' = [byEvent EXCEPT ![f.event] = Proposed(f)]
    /\ byRequest' = [byRequest EXCEPT ![f.request] = f.event]
    /\ admissionDigest' = [admissionDigest EXCEPT ![f.event] = Digest(Proposed(f))]
    /\ recordDigest' = [recordDigest EXCEPT ![f.event] = Digest(Proposed(f))]

Authorize(f, sensitive) ==
    /\ AuthorizeVerdict(f, sensitive) = "ADMIT"
    /\ byEvent' = [byEvent EXCEPT ![f.event] = Proposed(f)]
    /\ byRequest' = [byRequest EXCEPT ![f.request] = f.event]
    /\ admissionDigest' = [admissionDigest EXCEPT ![f.event] = Digest(Proposed(f))]
    /\ recordDigest' = [recordDigest EXCEPT ![f.event] = Digest(Proposed(f))]

-----------------------------------------------------------------------------
(* transition                                                              *)

TransitionVerdict(e, lifecycle, u) ==
    IF ~Admitted(e) THEN "UNKNOWN_EVENT"
    ELSE IF lifecycle \notin Successors(byEvent[e].lifecycle) THEN "ILLEGAL_TRANSITION"
    ELSE IF u.sensitive THEN "FORBIDDEN_SENSITIVE_FIELD"
    ELSE IF u.quoted # Absent THEN "IMMUTABLE_FIELD"
    ELSE IF u.actual = NotInt THEN "INTEGER_REQUIRED"
    ELSE IF u.actual # Absent /\ (u.actual < 0 \/ u.actual > byEvent[e].quoted)
         THEN "AMOUNT_OUT_OF_BOUNDS"
    ELSE "STORE"

\* Mutants: a keyword that is left out overwrites, partial amounts are added up.
UpdatedAlways(given, old) == given
UpdatedSum(given, old) ==
    IF given = Absent THEN old ELSE IF old = None THEN given ELSE old + given

\* dict.update with one keyword: what the caller gave replaces what was there.
Updated(given, old) == IF given = Absent THEN old ELSE given

\* Mutant: the quote is lowered to what was measured.
NextRowRequoted(row, lifecycle, u) ==
    [row EXCEPT !.lifecycle = lifecycle,
                !.actual = Updated(u.actual, @),
                !.quoted = Updated(u.actual, @)]

NextRow(row, lifecycle, u) ==
    [row EXCEPT !.lifecycle = lifecycle,
                !.actual = Updated(u.actual, @),
                !.quoted = Updated(u.quoted, @)]

\* Mutant: the admission digest follows the record.
TransitionRedigests(e, lifecycle, u) ==
    /\ TransitionVerdict(e, lifecycle, u) = "STORE"
    /\ byEvent' = [byEvent EXCEPT ![e] = NextRow(@, lifecycle, u)]
    /\ recordDigest' = [recordDigest EXCEPT ![e] = Digest(NextRow(byEvent[e], lifecycle, u))]
    /\ admissionDigest' = [admissionDigest EXCEPT ![e] = recordDigest'[e]]
    /\ UNCHANGED byRequest

Transition(e, lifecycle, u) ==
    /\ TransitionVerdict(e, lifecycle, u) = "STORE"
    /\ byEvent' = [byEvent EXCEPT ![e] = NextRow(@, lifecycle, u)]
    /\ recordDigest' = [recordDigest EXCEPT ![e] = Digest(NextRow(byEvent[e], lifecycle, u))]
    /\ UNCHANGED <<byRequest, admissionDigest>>

-----------------------------------------------------------------------------
(* recognized_revenue_atomic                                               *)

Settled == {e \in EventIds : Admitted(e) /\ byEvent[e].lifecycle = "SETTLED"}

\* Mutant: whatever was ever priced counts, also when disputed or refunded.
RevenueOfPriced ==
    IF \E e \in Settled : byEvent[e].actual = None THEN "UNPRICED_SETTLEMENT"
    ELSE MapThenSumSet(LAMBDA e : byEvent[e].actual,
                       {e \in EventIds : Admitted(e) /\ byEvent[e].actual # None})

RecognizedRevenue ==
    IF \E e \in Settled : byEvent[e].actual = None THEN "UNPRICED_SETTLEMENT"
    ELSE MapThenSumSet(LAMBDA e : byEvent[e].actual, Settled)

-----------------------------------------------------------------------------

Next ==
    \/ \E f \in Fields, sensitive \in BOOLEAN : Authorize(f, sensitive)
    \/ \E e \in EventIds, lifecycle \in Lifecycles, u \in Updates :
          Transition(e, lifecycle, u)

Spec == Init /\ [][Next]_vars

-----------------------------------------------------------------------------
(* Properties                                                              *)

\* The two dictionaries of `authorize` agree: a (tenant, request) points to an
\* event exactly when that event's current record is for it.  So no request is
\* ever billed by two events, whatever transitions happened in between.
OneEventPerRequest ==
    \A e \in EventIds, r \in Requests :
        byRequest[r] = e <=> Admitted(e) /\ byEvent[e].request = r

\* The record as it was admitted, when no transition changed more than it may.
AdmittedAs(e) == [byEvent[e] EXCEPT !.lifecycle = "AUTHORIZED", !.actual = None]

\* Both digests keep binding what they were taken over: what was admitted is
\* unchanged in the current record however often it was replaced, and the
\* digest stored in the record is that of its present content.
DigestsBindRecords ==
    \A e \in EventIds :
        /\ Admitted(e) <=> admissionDigest[e] # None
        /\ Admitted(e) =>
              /\ byEvent[e].event = e
              /\ admissionDigest[e] = Digest(AdmittedAs(e))
              /\ recordDigest[e] = Digest(byEvent[e])

\* No record carries an amount beyond what was quoted, nor a quote beyond the
\* cap, although a price may be given, changed or kept by every transition.
AmountsWithinQuote ==
    \A e \in EventIds : Admitted(e) =>
        /\ byEvent[e].quoted \in 0 .. Cap
        /\ byEvent[e].actual \in (0 .. byEvent[e].quoted) \cup {None}

\* "Duplicate retries with the same admitted input return the current lifecycle
\* record": in every state the exact input an event was admitted with is
\* answered with its current record, and any other input for that event, or
\* for its request under another event, never admits a second charge.
RetriesNeverCharge ==
    \A e \in EventIds : Admitted(e) =>
        \A f \in Fields :
            LET verdict == AuthorizeVerdict(f, FALSE)
            IN  /\ Proposed(f) = AdmittedAs(e) => verdict = "RETURN_CURRENT"
                /\ f.event = e \/ f.request = byEvent[e].request => verdict # "ADMIT"

\* recognized_revenue_atomic either reports the hold an unpriced settlement
\* causes, or a total no larger than the cap for every request with a settled
\* event: refunds, disputes, retries and re-settlements never add up twice.
RevenueWithinCap ==
    LET billed == {byEvent[e].request : e \in Settled}
    IN  IF \E e \in Settled : byEvent[e].actual \notin Int
        THEN RecognizedRevenue = "UNPRICED_SETTLEMENT"
        ELSE RecognizedRevenue \in 0 .. (Cap * Cardinality(billed))

-----------------------------------------------------------------------------
(* The ledger implements the abstract billing of module Billing.           *)

StageOf(row) ==
    CASE row.lifecycle = "AUTHORIZED"                          -> "open"
      [] row.lifecycle \in {"PRODUCED", "SETTLEMENT_PENDING"} -> "delivered"
      [] row.lifecycle = "SETTLED"                             -> "recognized"
      [] row.lifecycle = "DISPUTED"                            -> "disputed"
      [] OTHER                                                 -> "closed"

BillOf(row) ==
    [stage |-> StageOf(row), request |-> row.request, limit |-> row.quoted,
     price |-> IF row.lifecycle = "SETTLED" THEN row.actual ELSE None]

Abstract == INSTANCE Billing WITH
    bills <- [e \in EventIds |-> IF Admitted(e) THEN BillOf(byEvent[e])
                                ELSE [stage |-> "none", request |-> None,
                                      limit |-> 0, price |-> None]]

\* Every admission, transition and retry of the ledger is a step of the
\* abstract billing or leaves every bill as it is.
ImplementsBilling == Abstract!Spec

=============================================================================
