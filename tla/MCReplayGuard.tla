--------------------------- MODULE MCReplayGuard ---------------------------
(***************************************************************************)
(* Instances of ReplayGuard for TLC, and the conformance vectors.          *)
(***************************************************************************)
EXTENDS ReplayGuard, ContextVectors, TLC

CONSTANTS t1, t2, t3, t4, jti, v1, v2, v3

\* Two contexts with one jti and different expiries, one that is valid later and
\* one that is valid throughout; with leeways of 1 and 2 the bounds of the first
\* two are met within 3 seconds.
Resource == URL("https", "api", None, "/paid", None)
Signed(iat, nbf, exp, id) ==
    Token("jws", "EdDSA", {}, pk, primary, Claims(iat, nbf, exp, Resource, "exact", 2, id))
MCContent ==
    t1 :> Signed(0, 0, 1, jti) @@ t2 :> Signed(0, 1, 2, jti)
    @@ t3 :> Signed(2, 2, 3, None) @@ t4 :> Signed(0, 0, 3, None)
MCTrustedKeys == {[kid |-> pk, key |-> primary]}

With(leeway) == Expectation("exact", leeway, Resource, 2, 0, None)

\* A verifier with a larger leeway than the two others, and three alike.
MCExpected == v1 :> With(1) @@ v2 :> With(1) @@ v3 :> With(2)
Alike == Permutations({v1, v2})
MCAlike == [v \in Validations |-> With(1)]
=============================================================================
