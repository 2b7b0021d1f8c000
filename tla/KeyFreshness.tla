---------------------------- MODULE KeyFreshness ----------------------------
(***************************************************************************)
(* How long a key set may be reused after it was received: the arithmetic  *)
(* of freshness_seconds in scripts/x402_payment_context.py and, the same   *)
(* in milliseconds, of freshness in the Workers' payment-keys.mjs.         *)
(***************************************************************************)
EXTENDS Integers

CONSTANTS
    MaxClock,     \* bound: last second of a behaviour
    MaxAge        \* bound: largest max-age a response carries

ASSUME TimeAssumption == MaxClock \in Nat /\ MaxAge \in Nat

Larger(a, b) == IF a >= b THEN a ELSE b

\* Headers of a response: `reusable` is false for no-store, no-cache, a repeated
\* directive or no usable max-age; `dated` tells whether there is a Date, which
\* is when the response was made.  A missing Age reads as zero.
Headers == [reusable: BOOLEAN, maxAge: 0 .. MaxAge, age: 0 .. MaxClock,
            dated: BOOLEAN, date: 0 .. MaxClock]

\* Mutants: a remaining lifetime that may be negative, one that ignores delays.
FreshnessSigned(h, started, received) ==
    IF h.reusable THEN h.maxAge - (h.age + received - started) ELSE 0
FreshnessOnArrival(h, started, received) == IF h.reusable THEN h.maxAge ELSE 0

Freshness(h, started, received) ==
    LET apparentAge  == IF h.dated THEN Larger(0, received - h.date) ELSE 0
        correctedAge == Larger(apparentAge, h.age + Larger(0, received - started))
    IN  IF h.reusable THEN Larger(0, h.maxAge - correctedAge) ELSE 0

\* The headers of a response made at `date` and answered at `sent`, by the server
\* itself or a cache on the way: an Age that is right, a Date, or both.
HeadersOf(date, sent, maxAge, reusable, dated, aged) ==
    [reusable |-> reusable, maxAge |-> maxAge, dated |-> dated, date |-> date,
     age |-> IF aged THEN sent - date ELSE 0]

=============================================================================
