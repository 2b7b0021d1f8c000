------------------------- MODULE MCEvidenceSnapshot -------------------------
(***************************************************************************)
(* An instance of EvidenceSnapshot for TLC.                                *)
(***************************************************************************)
EXTENDS EvidenceSnapshot, TLC

CONSTANTS good, brief, cheap, weak, primary, rotated, pk, rk

Snapshot == URL("https", "a-11-oy", None, "/api/v1/evidence-snapshot", None)
MCRoute == Expectation("exact", 1, Snapshot, 2, 0, None)

\* A context that is valid throughout, one that expires while keys are awaited,
\* one for another price, and one that its header refuses; a key server that is
\* between two keys.
Signed(exp, amount) ==
    Token("jws", "EdDSA", {}, pk, primary, Claims(0, 0, exp, Snapshot, "exact", amount, None))
MCContent ==
    good :> Signed(5, 2) @@ brief :> Signed(1, 2) @@ cheap :> Signed(5, 1)
    @@ weak :> [Signed(5, 2) EXCEPT !.alg = "HS256"]
MCKeySets == {{[kid |-> pk, key |-> primary]}, {[kid |-> rk, key |-> rotated]}}
=============================================================================
