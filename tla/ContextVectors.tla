--------------------------- MODULE ContextVectors ---------------------------
(***************************************************************************)
(* build_vectors of tools/x402_payment_context_vectors.py: contexts with   *)
(* the result both validators must return, written by hand from the        *)
(* contract, as PaymentContext reads them.  Vectors that differ only in    *)
(* the way a value is malformed are one row here.                          *)
(***************************************************************************)
EXTENDS PaymentContext, Sequences

CONSTANTS primary, rotated, untrusted, pk, rk, unknown

\* Time counts from NOW, amounts in thousands of atomic units, of which the
\* least that is in bounds is 1 and 0 is below.
LOCAL Iat == -60
LOCAL Exp == 60
LOCAL Aud == URL("https", "api", None, "/premium-data", None)
LOCAL Keys == {[kid |-> pk, key |-> primary], [kid |-> rk, key |-> rotated]}
LOCAL Single == {[kid |-> pk, key |-> primary]}

LOCAL Exact == Claims(Iat, Iat, Exp, Aud, "exact", 25, None)
LOCAL Upto == Claims(Iat, Iat, Exp, Aud, "upto", 100, None)
LOCAL Sign(claims) == Token("jws", "EdDSA", {}, pk, primary, claims)
LOCAL Good == Sign(Exact)
LOCAL Route == Expectation("exact", 5, Aud, 25, 0, None)
LOCAL UptoRoute == [Route EXCEPT !.scheme = "upto", !.amount = 100]
LOCAL At(now) == [Route EXCEPT !.now = now]
LOCAL From(url) == [Route EXCEPT !.request = url]

\* Rows are a token, what is expected, the keys, and the result.
Vectors == <<
    \* Accepted.
    <<Good, Route, Keys, "valid">>,
    <<Sign(Upto), UptoRoute, Keys, "valid">>,
    <<Sign([Upto EXCEPT !.amount = 40]), UptoRoute, Keys, "valid">>,
    <<[Good EXCEPT !.kid = rk, !.signer = rotated], Route, Keys, "valid">>,
    <<[Good EXCEPT !.kid = None], Route, Single, "valid">>,
    <<Sign([Exact EXCEPT !.nbf = 4]), Route, Keys, "valid">>,
    <<Sign([Exact EXCEPT !.iat = 4]), Route, Keys, "valid">>,
    <<Good, At(Exp + 4), Keys, "valid">>,
    <<Good, [Route EXCEPT !.leeway = 0], Keys, "valid">>,
    <<Good, From([Aud EXCEPT !.query = "stream=false"]), Keys, "valid">>,
    <<Good, From([Aud EXCEPT !.port = 443]), Keys, "valid">>,
    \* Wrong amount or scheme.
    <<Sign([Exact EXCEPT !.amount = 10]), Route, Keys, "AMOUNT_MISMATCH">>,
    <<Sign([Exact EXCEPT !.amount = 50]), Route, Keys, "AMOUNT_MISMATCH">>,
    <<Sign([Upto EXCEPT !.amount = 200]), UptoRoute, Keys, "AMOUNT_ABOVE_MAXIMUM">>,
    <<Sign([Upto EXCEPT !.amount = 1]), Route, Keys, "WRONG_SCHEME">>,
    <<Sign([Upto EXCEPT !.scheme = "exact"]), UptoRoute, Keys, "WRONG_SCHEME">>,
    <<Sign([Exact EXCEPT !.scheme = Invalid]), Route, Keys, "WRONG_SCHEME">>,
    <<Sign([Exact EXCEPT !.amount = Invalid]), Route, Keys, "MALFORMED_AMOUNT">>,
    <<Sign([Exact EXCEPT !.amount = MinAtomic - 1]), Route, Keys, "AMOUNT_OUT_OF_BOUNDS">>,
    <<Sign([Exact EXCEPT !.amount = MaxAtomic + 1]), Route, Keys, "AMOUNT_OUT_OF_BOUNDS">>,
    \* Time claims.
    <<Good, At(Exp + 5), Keys, "EXPIRED">>,
    <<Good, [At(Exp) EXCEPT !.leeway = 0], Keys, "EXPIRED">>,
    <<Sign([Exact EXCEPT !.nbf = 6]), Route, Keys, "NOT_YET_VALID">>,
    <<Sign([Exact EXCEPT !.iat = 6]), Route, Keys, "NOT_YET_VALID">>,
    <<Sign([Exact EXCEPT !.exp = Invalid]), Route, Keys, "TIME_CLAIMS_INVALID">>,
    <<Sign([Exact EXCEPT !.iat = Invalid]), Route, Keys, "TIME_CLAIMS_INVALID">>,
    <<Sign([Exact EXCEPT !.nbf = Invalid]), Route, Keys, "TIME_CLAIMS_INVALID">>,
    <<Sign([Exact EXCEPT !.iat = Exp + 1]), At(Exp - 1), Keys, "TIME_CLAIMS_INVALID">>,
    \* Audience and request URL.
    <<Sign([Exact EXCEPT !.aud.path = "/other"]), Route, Keys, "WRONG_AUDIENCE">>,
    <<Sign([Exact EXCEPT !.aud.query = "x=1"]), Route, Keys, "WRONG_AUDIENCE">>,
    <<Sign([Exact EXCEPT !.aud.host = "evil"]), Route, Keys, "WRONG_AUDIENCE">>,
    <<Sign([Exact EXCEPT !.aud = Invalid]), Route, Keys, "WRONG_AUDIENCE">>,
    <<Good, From([Aud EXCEPT !.host = "inference"]), Keys, "REQUEST_NOT_AUDIENCE">>,
    <<Good, From([Aud EXCEPT !.path = "/premium-data/extra"]), Keys, "REQUEST_NOT_AUDIENCE">>,
    <<Good, From([Aud EXCEPT !.scheme = "http"]), Keys, "REQUEST_NOT_AUDIENCE">>,
    <<Good, From(Invalid), Keys, "REQUEST_NOT_AUDIENCE">>,
    <<Good, From([Aud EXCEPT !.port = 8443]), Keys, "REQUEST_NOT_AUDIENCE">>,
    \* Keys and signatures: a signature over other bytes is no key's.
    <<[Good EXCEPT !.signer = None], Route, Keys, "BAD_SIGNATURE">>,
    <<[Good EXCEPT !.signer = untrusted], Route, Keys, "BAD_SIGNATURE">>,
    <<[Good EXCEPT !.kid = unknown], Route, Keys, "UNKNOWN_KEY">>,
    <<[Good EXCEPT !.kid = None], Route, Keys, "UNKNOWN_KEY">>,
    <<[Good EXCEPT !.kid = Invalid], Route, Keys, "MALFORMED_TOKEN">>,
    \* Header policy.
    <<[Good EXCEPT !.alg = "HS256"], Route, Keys, "WRONG_ALGORITHM">>,
    <<[Good EXCEPT !.alg = Invalid], Route, Keys, "WRONG_ALGORITHM">>,
    <<[Good EXCEPT !.params = {"jku"}], Route, Keys, "TOKEN_SUPPLIED_KEY_MATERIAL">>,
    <<[Good EXCEPT !.params = {"x5c"}], Route, Keys, "TOKEN_SUPPLIED_KEY_MATERIAL">>,
    <<[Good EXCEPT !.params = {"crit"}], Route, Keys, "UNSUPPORTED_HEADER">>,
    <<[Good EXCEPT !.params = {"b64"}], Route, Keys, "UNSUPPORTED_HEADER">>,
    \* Malformed input.
    <<[Good EXCEPT !.form = "absent"], Route, Keys, "ABSENT">>,
    <<[Good EXCEPT !.form = "garbled"], Route, Keys, "MALFORMED_TOKEN">>,
    <<Sign(Invalid), Route, Keys, "MALFORMED_TOKEN">>,
    \* Configuration.
    <<Good, [Route EXCEPT !.leeway = MaxLeeway + 1], Keys, "BAD_LEEWAY">>,
    <<Good, [Route EXCEPT !.leeway = -1], Keys, "BAD_LEEWAY">>,
    <<Good, [Route EXCEPT !.leeway = Invalid], Keys, "BAD_LEEWAY">>,
    <<Good, [Route EXCEPT !.amount = Invalid], Keys, "BAD_EXPECTED_AMOUNT">>,
    <<Good, [Route EXCEPT !.amount = MinAtomic - 1], Keys, "BAD_EXPECTED_AMOUNT">>,
    <<Good, [Route EXCEPT !.audience.scheme = "http"], Keys, "BAD_AUDIENCE">>,
    <<Good, [Route EXCEPT !.audience.query = "x=1"], Keys, "BAD_AUDIENCE">>,
    <<Good, [Route EXCEPT !.audience.path = None], Keys, "BAD_AUDIENCE">>,
    <<Good, [Route EXCEPT !.scheme = "fixed"], Keys, "UNKNOWN_SCHEME">>,
    <<Good, [Route EXCEPT !.now = Invalid], Keys, "BAD_NOW">> >>

\* Every vector gets the result the generator writes down for it.
ASSUME VectorsAgree ==
    \A i \in DOMAIN Vectors : Verdict(Vectors[i][1], Vectors[i][2], Vectors[i][3]) = Vectors[i][4]

=============================================================================
