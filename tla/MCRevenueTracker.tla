-------------------------- MODULE MCRevenueTracker --------------------------
(***************************************************************************)
(* Instance of RevenueTracker for TLC: two requests for two resources.     *)
(***************************************************************************)
EXTENDS RevenueTracker, TLC

CONSTANTS r1, r2, exact, upto, cheap, forged, garbled

MCAudienceOf == r1 :> "a" @@ r2 :> "b"

\* A fixed price at one resource, a variable one at the other, one below the
\* lowest price, and two that do not verify.
MCClaims ==
    LET c(form, aud, scheme, amount) ==
            [form |-> form, aud |-> aud, scheme |-> scheme, amount |-> amount]
    IN  exact :> c("signed", "a", "exact", 2)
        @@ upto :> c("signed", "b", "upto", 2)
        @@ cheap :> c("signed", "b", "upto", 1)
        @@ forged :> c("forged", "b", "upto", 2)
        @@ garbled :> c("malformed", "b", "upto", 2)
=============================================================================
