---------------------------- MODULE ReplayGuard ----------------------------
(***************************************************************************)
(* MemoryReplayGuard of scripts/x402_payment_context.py behind the checks  *)
(* of validate_payment_context, with several validations under way at once *)
(* and verifiers of different leeways that share the guard.  A validation  *)
(* reads the time first (its `now` parameter), may then wait for keys      *)
(* while others run, and reaches the guard, whose body is one section      *)
(* under a lock, with the time it read.  The keys may be unavailable to any *)
(* of them.                                                                *)
(* ops/evidence-snapshot-worker/src/payment-context.mjs has the same code. *)
(***************************************************************************)
EXTENDS PaymentContext

CONSTANTS
    Validations,   \* calls of validate_payment_context that can overlap
    Expected,      \* what each of them expects of a token
    TrustedKeys,   \* the key set
    Tokens,        \* the digests of the tokens that are presented ...
    Content,       \* ... and the tokens
    Jtis,          \* the jti that tokens carry
    MaxEntries,    \* max_entries of the guard
    MaxClock       \* bound: last second of a behaviour

ASSUME LeewayAssumption == \A v \in Validations : Expected[v].leeway \in Nat
ASSUME ExpiryAssumption ==
    \A t \in Tokens : Content[t].claims # Invalid => Content[t].claims.exp \in Int \cup {Invalid}
ASSUME NumberAssumption == MaxEntries \in Nat \ {0} /\ MaxClock \in Nat
ASSUME NoneAssumption == None \notin Tokens
ASSUME KeysFinite == IsFiniteSet(Jtis) /\ IsFiniteSet(Tokens)

\* The guard remembers a token by its jti, or by its digest when it has none.
Keys == Jtis \cup Tokens
KeyOf(t) == IF Content[t].claims.jti \in Jtis THEN Content[t].claims.jti ELSE t

Leeway(v) == Expected[v].leeway

\* The tokens with an expiry that can be read.
Dated == {t \in Tokens : Content[t].claims # Invalid /\ Content[t].claims.exp \in Int}

VARIABLES
    clock,      \* the time the callers read
    seen,       \* _seen: the expiry each key is remembered until
    pending,    \* the token a validation is about, None when it is not under way
    now,        \* the time it read when it began, 0 when it is not under way
    accepted,   \* history: tokens that were accepted, with the leeway ...
    latest      \* ... and the largest `now` the guard has been called with

vars == <<clock, seen, pending, now, accepted, latest>>

TypeOK ==
    /\ clock \in 0 .. MaxClock
    /\ seen \in [Keys -> Int \cup {None}]
    /\ pending \in [Validations -> Tokens \cup {None}]
    /\ now \in [Validations -> 0 .. MaxClock]
    /\ accepted \subseteq Dated \X Nat
    /\ latest \in 0 .. MaxClock

Init ==
    /\ clock = 0
    /\ seen = [k \in Keys |-> None]
    /\ pending = [v \in Validations |-> None]
    /\ now = [v \in Validations |-> 0]
    /\ accepted = {}
    /\ latest = 0

-----------------------------------------------------------------------------

\* What validation v, which read time n, finds about token t before the guard,
\* with the keys that it gets.
FindingWith(keys, v, t, n) ==
    LET e == Expected[v]
    IN  Verdict(Content[t], Expectation(e.scheme, e.leeway, e.audience, e.amount, n, e.request),
                keys)

Finding == [v \in Validations |-> [t \in Tokens |-> [n \in 0 .. MaxClock |->
              FindingWith(TrustedKeys, v, t, n)]]]

\* Mutant: an entry is forgotten at exp, while the leeway still lets the token in.
ExpiresAtExp(t, leeway) == Content[t].claims.exp

ExpiresAt(t, leeway) == Content[t].claims.exp + leeway

\* Mutant: the leeway is subtracted when pruning as well.
UnexpiredEarly(n) ==
    [k \in Keys |-> IF seen[k] # None /\ seen[k] <= n + MaxLeeway THEN None ELSE seen[k]]

\* The entries that are left when the guard is called at time n.
Unexpired(n) == [k \in Keys |-> IF seen[k] # None /\ seen[k] <= n THEN None ELSE seen[k]]

Remembered(entries) == {k \in Keys : entries[k] # None}

\* Mutant: off by one at the limit.
GuardVerdictOver(k, n) ==
    IF Unexpired(n)[k] # None THEN "REPLAYED"
    ELSE IF Cardinality(Remembered(Unexpired(n))) > MaxEntries THEN "REPLAY_CACHE_FULL"
    ELSE "accept"

\* check_and_remember's refusal of key k at time n, or "accept".
GuardVerdict(k, n) ==
    IF Unexpired(n)[k] # None THEN "REPLAYED"
    ELSE IF Cardinality(Remembered(Unexpired(n))) >= MaxEntries THEN "REPLAY_CACHE_FULL"
    ELSE "accept"

\* Mutant: the leeway is added to the time that is read.
BeginAhead(v, t) ==
    /\ pending[v] = None
    /\ pending' = [pending EXCEPT ![v] = t]
    /\ now' = [now EXCEPT ![v] = clock + Leeway(v)]
    /\ UNCHANGED <<clock, seen, accepted, latest>>

\* A validation of token t begins and reads the time.
Begin(v, t) ==
    /\ pending[v] = None
    /\ pending' = [pending EXCEPT ![v] = t]
    /\ now' = [now EXCEPT ![v] = clock]
    /\ UNCHANGED <<clock, seen, accepted, latest>>

\* It ends before the guard is reached, for what it found or for want of keys.
Refuse(v) ==
    /\ pending[v] # None
    /\ \/ Finding[v][pending[v]][now[v]] # "valid"
       \/ FindingWith(None, v, pending[v], now[v]) = "KEYS_UNAVAILABLE"
    /\ pending' = [pending EXCEPT ![v] = None]
    /\ now' = [now EXCEPT ![v] = 0]
    /\ UNCHANGED <<clock, seen, accepted, latest>>

\* It ends in the guard, which prunes the expired entries whatever it decides.
Guard(v) ==
    LET t == pending[v]
        k == KeyOf(t)
        n == now[v]
    IN  /\ t # None
        /\ Finding[v][t][n] = "valid"
        /\ pending' = [pending EXCEPT ![v] = None]
        /\ now' = [now EXCEPT ![v] = 0]
        /\ latest' = IF n > latest THEN n ELSE latest
        /\ \/ /\ GuardVerdict(k, n) # "accept"
              /\ seen' = Unexpired(n)
              /\ UNCHANGED accepted
           \/ /\ GuardVerdict(k, n) = "accept"
              /\ seen' = [Unexpired(n) EXCEPT ![k] = ExpiresAt(t, Leeway(v))]
              /\ accepted' = accepted \cup {<<t, Leeway(v)>>}
        /\ UNCHANGED clock

Tick ==
    /\ clock < MaxClock
    /\ clock' = clock + 1
    /\ UNCHANGED <<seen, pending, now, accepted, latest>>

Next ==
    \/ Tick
    \/ \E v \in Validations :
          (\E t \in Tokens : Begin(v, t)) \/ Refuse(v) \/ Guard(v)

Spec == Init /\ [][Next]_vars

-----------------------------------------------------------------------------
(* Properties                                                              *)

\* Validation v accepts token t in this step.
Accepts(v, t) ==
    /\ pending[v] = t
    /\ Guard(v)
    /\ GuardVerdict(KeyOf(t), now[v]) = "accept"

\* "When full of unexpired entries it rejects new contexts instead of forgetting
\* old ones": an accepted token is remembered until the guard has been called at
\* its expiry, however many other tokens came and in whatever order.
RemembersAccepted ==
    \A a \in accepted :
        latest >= ExpiresAt(a[1], a[2]) \/ seen[KeyOf(a[1])] = ExpiresAt(a[1], a[2])

\* The guard never holds more than max_entries, whatever order prunings and
\* acceptances came in.
WithinCapacity == Cardinality(Remembered(seen)) <= MaxEntries

\* A token is accepted a second time only by a validation that read the time
\* before another one pruned the token's entry at a later time, or one with a
\* larger leeway than the verifier that accepted it first.
SecondAcceptanceExplained ==
    [][\A v \in Validations, a \in accepted : Accepts(v, a[1]) =>
          LET expiry == ExpiresAt(a[1], a[2])
          IN  \/ now[v] < expiry /\ expiry <= latest
              \/ expiry <= now[v] /\ a[2] < Leeway(v)]_vars

\* "At exp + leeway neither context can validate again, so both entries are
\* pruned": a token that was accepted is never accepted again.
AcceptedOnce ==
    [][\A v \in Validations, a \in accepted : ~Accepts(v, a[1])]_vars

=============================================================================
