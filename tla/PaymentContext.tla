--------------------------- MODULE PaymentContext ---------------------------
(***************************************************************************)
(* What validate_payment_context of scripts/x402_payment_context.py and    *)
(* verifyPaymentContext of the evidence Worker's payment-context.mjs       *)
(* decide about a PAYMENT-CONTEXT, in the order both decide it.            *)
(*                                                                         *)
(* Abstractions: a token is what can be read from it, and Invalid stands   *)
(* for a value that is missing, of the wrong type or not canonical; a      *)
(* signature is the key that made it over these very bytes; hosts have no  *)
(* upper case, a key set lists no key twice.                               *)
(***************************************************************************)
EXTENDS Integers, FiniteSets

CONSTANTS
    MinAtomic, MaxAtomic,   \* the bounds of a price, in atomic units
    MaxLeeway,              \* MAX_LEEWAY_SECONDS
    Invalid,                \* a value that is not what it should be
    None                    \* a part that may be left out and is

ASSUME MarksNoNumbers == Invalid \notin Int /\ None \notin Int /\ Invalid # None
ASSUME AtomicAssumption == MinAtomic \in Nat /\ MaxAtomic \in Nat /\ MaxLeeway \in Nat

Schemes == {"exact", "upto"}
ForbiddenParams == {"jku", "jwk", "x5u", "x5c"}
UnsupportedParams == {"crit", "b64"}

\* The claims a token is signed over.
Claims(iat, nbf, exp, aud, scheme, amount, jti) ==
    [iat |-> iat, nbf |-> nbf, exp |-> exp, aud |-> aud, scheme |-> scheme,
     amount |-> amount, jti |-> jti]

\* A token: "absent", "garbled" when it is too long or no three canonical
\* segments with a header object, else "jws".
Token(form, alg, params, kid, signer, claims) ==
    [form |-> form, alg |-> alg, params |-> params, kid |-> kid,
     signer |-> signer, claims |-> claims]

\* What a caller expects of a token, and the time it read.
Expectation(scheme, leeway, audience, amount, now, request) ==
    [scheme |-> scheme, leeway |-> leeway, audience |-> audience, amount |-> amount,
     now |-> now, request |-> request]

\* A URL; an audience is one without a query and with no part left out but the port.
URL(scheme, host, port, path, query) ==
    [scheme |-> scheme, host |-> host, port |-> port, path |-> path, query |-> query]
IsAudience(u) == u # Invalid /\ u.scheme = "https" /\ u.query = None /\ u.path # None

-----------------------------------------------------------------------------

\* The stages of a decision: the first refusal counts.
Then(first, next) == IF first = "valid" THEN next ELSE first

\* _check_config
ConfigVerdict(e) ==
    IF e.scheme \notin Schemes THEN "UNKNOWN_SCHEME"
    ELSE IF e.leeway \notin 0 .. MaxLeeway THEN "BAD_LEEWAY"
    ELSE IF ~IsAudience(e.audience) THEN "BAD_AUDIENCE"
    ELSE IF e.amount \notin MinAtomic .. MaxAtomic THEN "BAD_EXPECTED_AMOUNT"
    ELSE IF e.now = Invalid THEN "BAD_NOW"
    ELSE "valid"

\* _parse_header and _check_header
HeaderVerdict(t) ==
    IF t.form = "absent" THEN "ABSENT"
    ELSE IF t.form = "garbled" THEN "MALFORMED_TOKEN"
    ELSE IF t.alg # "EdDSA" THEN "WRONG_ALGORITHM"
    ELSE IF t.params \cap ForbiddenParams # {} THEN "TOKEN_SUPPLIED_KEY_MATERIAL"
    ELSE IF t.params \cap UnsupportedParams # {} THEN "UNSUPPORTED_HEADER"
    ELSE IF t.kid = Invalid THEN "MALFORMED_TOKEN"
    ELSE "valid"

\* _select_key's candidates: without a kid, the only key there is.
Matching(t, keys) ==
    IF t.kid # None THEN {k \in keys : k.kid = t.kid}
    ELSE IF Cardinality(keys) = 1 THEN keys ELSE {}

\* _select_key and _verified_payload; keys that cannot be had are None.
KeyVerdict(t, keys) ==
    IF keys = None THEN "KEYS_UNAVAILABLE"
    ELSE IF Cardinality(Matching(t, keys)) # 1 THEN "UNKNOWN_KEY"
    ELSE IF \A k \in Matching(t, keys) : k.key # t.signer THEN "BAD_SIGNATURE"
    ELSE "valid"

\* _check_times
TimeVerdict(c, leeway, now) ==
    IF Invalid \in {c.iat, c.nbf, c.exp} THEN "TIME_CLAIMS_INVALID"
    ELSE IF c.iat > c.exp \/ c.nbf > c.exp THEN "TIME_CLAIMS_INVALID"
    ELSE IF c.exp <= now - leeway THEN "EXPIRED"
    ELSE IF c.nbf > now + leeway \/ c.iat > now + leeway THEN "NOT_YET_VALID"
    ELSE "valid"

\* request_matches_audience: the query does not count, a missing path is "/", and
\* 443 is the same as no port.
Matches(u, audience) ==
    /\ u # Invalid
    /\ audience = [u EXCEPT !.query = None,
                            !.path = IF u.path = None THEN "/" ELSE u.path,
                            !.port = IF u.scheme = "https" /\ u.port = 443 THEN None ELSE u.port]

AmountVerdict(c, e) ==
    IF c.amount = Invalid THEN "MALFORMED_AMOUNT"
    ELSE IF c.amount \notin MinAtomic .. MaxAtomic THEN "AMOUNT_OUT_OF_BOUNDS"
    ELSE IF e.scheme = "exact" /\ c.amount # e.amount THEN "AMOUNT_MISMATCH"
    ELSE IF e.scheme = "upto" /\ c.amount > e.amount THEN "AMOUNT_ABOVE_MAXIMUM"
    ELSE "valid"

ClaimsVerdict(c, e) ==
    IF c = Invalid THEN "MALFORMED_TOKEN"
    ELSE IF TimeVerdict(c, e.leeway, e.now) # "valid" THEN TimeVerdict(c, e.leeway, e.now)
    ELSE IF c.aud # e.audience THEN "WRONG_AUDIENCE"
    ELSE IF e.request # None /\ ~Matches(e.request, e.audience) THEN "REQUEST_NOT_AUDIENCE"
    ELSE IF c.scheme # e.scheme THEN "WRONG_SCHEME"
    ELSE AmountVerdict(c, e)

\* What is decided before any key is asked for, and after.
EarlyVerdict(t, e) == Then(ConfigVerdict(e), HeaderVerdict(t))
LateVerdict(t, e, keys) == Then(KeyVerdict(t, keys), ClaimsVerdict(t.claims, e))

\* validate_payment_context up to the replay guard.
Verdict(t, e, keys) == Then(EarlyVerdict(t, e), LateVerdict(t, e, keys))

=============================================================================
