------------------------- MODULE ReplayGuardProofs -------------------------
(***************************************************************************)
(* Proofs about ReplayGuard, for any tokens, keys, leeways and capacity    *)
(* and any number of overlapping validations.                              *)
(***************************************************************************)
EXTENDS ReplayGuard, TLAPS, FiniteSetTheorems

\* Pruning leaves entries of the same type.
LEMMA UnexpiredType ==
    ASSUME TypeOK, NEW n \in Int
    PROVE  /\ Unexpired(n) \in [Keys -> Int \cup {None}]
           /\ \A k \in Keys : Unexpired(n)[k] =
                 IF seen[k] # None /\ seen[k] <= n THEN None ELSE seen[k]
BY DEF TypeOK, Unexpired

\* A validation that reaches the guard is about a token that has not expired.
LEMMA ValidIsUnexpired ==
    ASSUME NEW v \in Validations, NEW t \in Tokens, NEW n \in 0 .. MaxClock,
           Finding[v][t][n] = "valid"
    PROVE  t \in Dated /\ n < ExpiresAt(t, Leeway(v))
<1> DEFINE c == Content[t].claims
           e == Expectation(Expected[v].scheme, Expected[v].leeway, Expected[v].audience,
                            Expected[v].amount, n, Expected[v].request)
<1>1. Verdict(Content[t], e, TrustedKeys) = "valid"
  BY DEF Finding, FindingWith
<1>2. ClaimsVerdict(c, e) = "valid"
  <2> HIDE DEF c, e
  <2>1. LateVerdict(Content[t], e, TrustedKeys) = "valid"
    BY <1>1 DEF Verdict, Then
  <2>2. QED
    BY <2>1 DEF LateVerdict, Then, c
<1>3. c # Invalid /\ TimeVerdict(c, Leeway(v), n) = "valid"
  <2>1. e.leeway = Leeway(v) /\ e.now = n
    BY DEF Expectation, Leeway
  <2> HIDE DEF c, e
  <2>2. QED
    BY <1>2, <2>1 DEF ClaimsVerdict
<1>4. c.exp # Invalid /\ ~(c.exp <= n - Leeway(v))
  <2> HIDE DEF c
  <2>1. QED
    BY <1>3 DEF TimeVerdict
<1>5. c.exp \in Int
  BY <1>3, <1>4, ExpiryAssumption
<1>6. Leeway(v) \in Int /\ n \in Int
  BY LeewayAssumption, NumberAssumption DEF Leeway
<1>7. c.exp + Leeway(v) > n
  <2> HIDE DEF c
  <2>1. QED
    BY <1>4, <1>5, <1>6
<1>8. QED
  BY <1>3, <1>5, <1>7 DEF Dated, ExpiresAt

\* The guard's key of a token is one of its keys.
LEMMA KeyOfType == ASSUME NEW t \in Tokens PROVE KeyOf(t) \in Keys
BY DEF KeyOf, Keys

\* The expiry of an accepted token is a number.
LEMMA ExpiryType ==
    ASSUME NEW t \in Dated, NEW leeway \in Nat
    PROVE  t \in Tokens /\ ExpiresAt(t, leeway) \in Int /\ ExpiresAt(t, leeway) # None
BY MarksNoNumbers DEF Dated, ExpiresAt

\* What an accepting step of the guard does to the entries.
LEMMA GuardStep ==
    ASSUME TypeOK, NEW v \in Validations, Guard(v)
    PROVE  /\ pending[v] \in Dated /\ Leeway(v) \in Nat /\ KeyOf(pending[v]) \in Keys
           /\ ExpiresAt(pending[v], Leeway(v)) \in Int /\ now[v] \in 0 .. MaxClock
           /\ latest' >= latest /\ latest' >= now[v] /\ latest' \in 0 .. MaxClock
           /\ \/ seen' = Unexpired(now[v]) /\ accepted' = accepted
              \/ /\ GuardVerdict(KeyOf(pending[v]), now[v]) = "accept"
                 /\ seen' = [Unexpired(now[v]) EXCEPT
                                ![KeyOf(pending[v])] = ExpiresAt(pending[v], Leeway(v))]
                 /\ accepted' = accepted \cup {<<pending[v], Leeway(v)>>}
<1>1. pending[v] \in Tokens /\ Finding[v][pending[v]][now[v]] = "valid"
  BY DEF TypeOK, Guard
<1>2. KeyOf(pending[v]) \in Keys
  BY <1>1, KeyOfType
<1>4. latest \in 0 .. MaxClock /\ now[v] \in 0 .. MaxClock
  BY DEF TypeOK
<1>3. /\ pending[v] \in Dated /\ Leeway(v) \in Nat
      /\ ExpiresAt(pending[v], Leeway(v)) \in Int
  <2>1. pending[v] \in Dated
    BY <1>1, <1>4, ValidIsUnexpired
  <2>2. Leeway(v) \in Nat
    BY LeewayAssumption DEF Leeway
  <2>3. QED
    BY <2>1, <2>2, ExpiryType
<1>5. latest' = IF now[v] > latest THEN now[v] ELSE latest
  BY DEF Guard
<1>6. QED
  BY <1>1, <1>2, <1>3, <1>4, <1>5, NumberAssumption DEF Guard

\* Every step of a validation keeps the types.
LEMMA TypeStep == TypeOK /\ [Next]_vars => TypeOK'
<1> SUFFICES ASSUME TypeOK, [Next]_vars
             PROVE  TypeOK'
  OBVIOUS
<1>1. CASE Tick
  BY <1>1, NumberAssumption DEF Tick, TypeOK
<1>2. ASSUME NEW v \in Validations, NEW t \in Tokens, Begin(v, t)
      PROVE  TypeOK'
  BY <1>2 DEF Begin, TypeOK
<1>3. ASSUME NEW v \in Validations, Refuse(v)
      PROVE  TypeOK'
  BY <1>3, NumberAssumption DEF Refuse, TypeOK
<1>4. ASSUME NEW v \in Validations, Guard(v)
      PROVE  TypeOK'
  <2>1. now[v] \in Int
    BY NumberAssumption DEF TypeOK
  <2>2. seen' \in [Keys -> Int \cup {None}] /\ accepted' \subseteq Dated \X Nat
        /\ latest' \in 0 .. MaxClock
    BY <1>4, <2>1, GuardStep, UnexpiredType DEF TypeOK
  <2>3. QED
    BY <1>4, <2>2, NumberAssumption DEF Guard, TypeOK
<1>5. CASE UNCHANGED vars
  BY <1>5 DEF vars, TypeOK
<1>6. QED
  BY <1>1, <1>2, <1>3, <1>4, <1>5 DEF Next

\* Every variable keeps its type.
THEOREM TypeCorrect == Spec => []TypeOK
<1>1. Init => TypeOK
  BY NumberAssumption DEF Init, TypeOK
<1>2. QED
  BY <1>1, TypeStep, PTL DEF Spec

-----------------------------------------------------------------------------

\* Every step keeps accepted tokens remembered until a pruning forgets them.
LEMMA RememberStep == TypeOK /\ RemembersAccepted /\ [Next]_vars => RemembersAccepted'
<1> SUFFICES ASSUME TypeOK, RemembersAccepted, [Next]_vars
             PROVE  RemembersAccepted'
  OBVIOUS
<1>1. ASSUME NEW v \in Validations, Guard(v)
      PROVE  RemembersAccepted'
  <2> DEFINE t == pending[v]
             n == now[v]
  <2> SUFFICES ASSUME NEW s \in accepted', ~(latest' >= ExpiresAt(s[1], s[2]))
               PROVE  seen'[KeyOf(s[1])] = ExpiresAt(s[1], s[2])
    BY DEF RemembersAccepted, ExpiresAt
  <2>1. /\ KeyOf(t) \in Keys /\ ExpiresAt(t, Leeway(v)) \in Int /\ n \in Int
        /\ latest' \in Int /\ latest \in Int /\ latest' >= latest /\ latest' >= n
    BY <1>1, GuardStep, NumberAssumption DEF TypeOK
  <2>2. /\ Unexpired(n) \in [Keys -> Int \cup {None}]
        /\ \A k \in Keys : Unexpired(n)[k] =
              IF seen[k] # None /\ seen[k] <= n THEN None ELSE seen[k]
    BY <2>1, UnexpiredType
  <2>3. ASSUME s \in accepted
        PROVE  /\ KeyOf(s[1]) \in Keys
               /\ seen[KeyOf(s[1])] = ExpiresAt(s[1], s[2])
               /\ Unexpired(n)[KeyOf(s[1])] = ExpiresAt(s[1], s[2])
               /\ ExpiresAt(s[1], s[2]) # None
    <3>1. KeyOf(s[1]) \in Keys /\ ExpiresAt(s[1], s[2]) \in Int
      <4>1. s[1] \in Dated /\ s[2] \in Nat
        BY <2>3 DEF TypeOK
      <4>2. QED
        BY <4>1, ExpiryType, KeyOfType
    <3>2. ~(latest >= ExpiresAt(s[1], s[2]))
      BY <2>1, <3>1
    <3>3. seen[KeyOf(s[1])] = ExpiresAt(s[1], s[2])
      BY <2>3, <3>2 DEF RemembersAccepted
    <3>4. ~(ExpiresAt(s[1], s[2]) <= n)
      BY <2>1, <3>1
    <3>5. QED
      BY <2>2, <3>1, <3>3, <3>4, MarksNoNumbers
  <2>4. CASE seen' = Unexpired(n) /\ accepted' = accepted
    BY <2>3, <2>4
  <2>5. CASE /\ GuardVerdict(KeyOf(t), n) = "accept"
             /\ seen' = [Unexpired(n) EXCEPT ![KeyOf(t)] = ExpiresAt(t, Leeway(v))]
             /\ accepted' = accepted \cup {<<t, Leeway(v)>>}
    <3>1. Unexpired(n)[KeyOf(t)] = None
      BY <2>5 DEF GuardVerdict
    <3>2. CASE s = <<t, Leeway(v)>>
      BY <2>1, <2>2, <2>5, <3>2
    <3>3. CASE s # <<t, Leeway(v)>>
      <4>1. s \in accepted
        BY <2>5, <3>3
      <4>2. KeyOf(s[1]) # KeyOf(t)
        BY <2>3, <3>1, <4>1
      <4>3. QED
        BY <2>2, <2>3, <2>5, <4>1, <4>2
    <3>4. QED
      BY <3>2, <3>3
  <2>6. QED
    BY <1>1, <2>4, <2>5, GuardStep
<1>2. CASE \/ Tick
           \/ UNCHANGED vars
           \/ \E v \in Validations : Refuse(v) \/ \E t \in Tokens : Begin(v, t)
  <2>1. seen' = seen /\ accepted' = accepted /\ latest' = latest
    BY <1>2 DEF Tick, vars, Refuse, Begin
  <2>2. QED
    BY <2>1 DEF RemembersAccepted, ExpiresAt
<1>3. QED
  BY <1>1, <1>2 DEF Next

\* Accepted tokens are remembered until the guard is called at their expiry.
THEOREM Remembering == Spec => []RemembersAccepted
<1>1. Init => RemembersAccepted
  BY DEF Init, RemembersAccepted
<1>2. QED
  BY <1>1, RememberStep, TypeCorrect, PTL DEF Spec

\* A token is accepted a second time only by a validation that was overtaken, or
\* that has a larger leeway than the first one.
THEOREM SecondAcceptance == Spec => SecondAcceptanceExplained
<1> DEFINE Explained == \A v \in Validations, a \in accepted : Accepts(v, a[1]) =>
              \/ now[v] < ExpiresAt(a[1], a[2]) /\ ExpiresAt(a[1], a[2]) <= latest
              \/ ExpiresAt(a[1], a[2]) <= now[v] /\ a[2] < Leeway(v)
<1>1. TypeOK /\ RemembersAccepted => Explained
  <2> SUFFICES ASSUME TypeOK, RemembersAccepted, NEW v \in Validations, NEW a \in accepted,
                      Accepts(v, a[1])
               PROVE  \/ now[v] < ExpiresAt(a[1], a[2]) /\ ExpiresAt(a[1], a[2]) <= latest
                      \/ ExpiresAt(a[1], a[2]) <= now[v] /\ a[2] < Leeway(v)
    OBVIOUS
  <2> DEFINE t == a[1]
             expiry == ExpiresAt(a[1], a[2])
  <2>1. /\ t \in Dated /\ t \in Tokens /\ KeyOf(t) \in Keys
        /\ a[2] \in Nat /\ expiry \in Int /\ expiry # None
        /\ now[v] \in 0 .. MaxClock /\ now[v] \in Int /\ latest \in Int
        /\ Leeway(v) \in Nat
    <3>1. t \in Dated /\ a[2] \in Nat /\ now[v] \in 0 .. MaxClock /\ latest \in 0 .. MaxClock
      BY DEF TypeOK
    <3>2. Leeway(v) \in Nat
      BY LeewayAssumption DEF Leeway
    <3>3. QED
      BY <3>1, <3>2, ExpiryType, KeyOfType, NumberAssumption
  <2>2. CASE now[v] < expiry
    <3>1. ~(seen[KeyOf(t)] = expiry)
      <4>1. Unexpired(now[v])[KeyOf(t)] = None
        BY DEF Accepts, GuardVerdict
      <4>2. Unexpired(now[v])[KeyOf(t)] =
              IF seen[KeyOf(t)] # None /\ seen[KeyOf(t)] <= now[v] THEN None
              ELSE seen[KeyOf(t)]
        BY <2>1, UnexpiredType
      <4>3. ~(expiry <= now[v])
        BY <2>1, <2>2
      <4>4. QED
        BY <2>1, <4>1, <4>2, <4>3
    <3>2. latest >= expiry
      BY <3>1 DEF RemembersAccepted
    <3>3. QED
      BY <2>1, <2>2, <3>2
  <2>3. CASE ~(now[v] < expiry)
    <3>1. now[v] < ExpiresAt(t, Leeway(v))
      BY <2>1, ValidIsUnexpired DEF Accepts, Guard
    <3>2. Content[t].claims.exp \in Int
      BY <2>1 DEF Dated
    <3>3. QED
      BY <2>1, <2>3, <3>1, <3>2 DEF ExpiresAt
  <2>4. QED
    BY <2>2, <2>3
<1>2. TypeOK /\ RemembersAccepted /\ [Next]_vars => [Explained]_vars
  BY <1>1
<1>3. QED
  BY <1>2, TypeCorrect, Remembering, PTL DEF Spec, SecondAcceptanceExplained

-----------------------------------------------------------------------------

\* Pruning never adds an entry, and accepting adds one at most.
LEMMA CapacityStep == TypeOK /\ WithinCapacity /\ [Next]_vars => WithinCapacity'
<1> SUFFICES ASSUME TypeOK, WithinCapacity, [Next]_vars
             PROVE  WithinCapacity'
  OBVIOUS
<1>0. \A n \in Int : /\ IsFiniteSet(Remembered(Unexpired(n)))
                     /\ Cardinality(Remembered(Unexpired(n))) \in Nat
                     /\ Cardinality(Remembered(Unexpired(n))) <= MaxEntries
  <2> SUFFICES ASSUME NEW n \in Int
               PROVE  /\ IsFiniteSet(Remembered(Unexpired(n)))
                      /\ Cardinality(Remembered(Unexpired(n))) \in Nat
                      /\ Cardinality(Remembered(Unexpired(n))) <= MaxEntries
    OBVIOUS
  <2>1. Remembered(seen) \in SUBSET Keys
    BY DEF Remembered
  <2>2. IsFiniteSet(Remembered(seen))
    <3>1. IsFiniteSet(Keys)
      BY KeysFinite, FS_Union DEF Keys
    <3>2. QED
      BY <2>1, <3>1, FS_Subset
  <2>3. Remembered(Unexpired(n)) \in SUBSET Remembered(seen)
    BY UnexpiredType DEF Remembered
  <2>4. /\ IsFiniteSet(Remembered(Unexpired(n)))
        /\ Cardinality(Remembered(Unexpired(n))) <= Cardinality(Remembered(seen))
    BY <2>2, <2>3, FS_Subset
  <2>5. Cardinality(Remembered(Unexpired(n))) \in Nat /\ Cardinality(Remembered(seen)) \in Nat
    BY <2>2, <2>4, FS_CardinalityType
  <2>6. QED
    BY <2>4, <2>5, NumberAssumption DEF WithinCapacity
<1>1. ASSUME NEW v \in Validations, Guard(v)
      PROVE  WithinCapacity'
  <2> DEFINE k == KeyOf(pending[v])
             left == Unexpired(now[v])
  <2>1. now[v] \in Int /\ k \in Keys
    BY <1>1, GuardStep, NumberAssumption
  <2>2. CASE seen' = left
    BY <1>0, <2>1, <2>2 DEF WithinCapacity
  <2>3. CASE /\ GuardVerdict(k, now[v]) = "accept"
             /\ seen' = [left EXCEPT ![k] = ExpiresAt(pending[v], Leeway(v))]
    <3>1. ~(Cardinality(Remembered(left)) >= MaxEntries)
      BY <2>3 DEF GuardVerdict
    <3>2. Remembered(seen') \in SUBSET (Remembered(left) \cup {k})
      BY <2>1, <2>3, UnexpiredType DEF Remembered
    <3>3. /\ IsFiniteSet(Remembered(left) \cup {k})
          /\ Cardinality(Remembered(left) \cup {k}) <= Cardinality(Remembered(left)) + 1
      <4>1. IsFiniteSet(Remembered(left)) /\ Cardinality(Remembered(left)) \in Nat
        BY <1>0, <2>1
      <4> HIDE DEF left
      <4>2. /\ IsFiniteSet(Remembered(left) \cup {k})
            /\ Cardinality(Remembered(left) \cup {k}) =
                 IF k \in Remembered(left) THEN Cardinality(Remembered(left))
                 ELSE Cardinality(Remembered(left)) + 1
        BY <4>1, FS_AddElement
      <4>3. QED
        BY <4>1, <4>2
    <3>4. Cardinality(Remembered(seen')) <= Cardinality(Remembered(left) \cup {k})
          /\ IsFiniteSet(Remembered(seen'))
      BY <3>2, <3>3, FS_Subset
    <3>5. /\ Cardinality(Remembered(left) \cup {k}) \in Nat
          /\ Cardinality(Remembered(seen')) \in Nat
          /\ Cardinality(Remembered(left)) \in Nat
      BY <1>0, <2>1, <3>3, <3>4, FS_CardinalityType
    <3>6. QED
      BY <3>1, <3>3, <3>4, <3>5, NumberAssumption DEF WithinCapacity
  <2>4. QED
    BY <1>1, <2>2, <2>3, GuardStep
<1>2. CASE \/ Tick
           \/ UNCHANGED vars
           \/ \E v \in Validations : Refuse(v) \/ \E t \in Tokens : Begin(v, t)
  BY <1>2 DEF Tick, vars, Refuse, Begin, WithinCapacity
<1>3. QED
  BY <1>1, <1>2 DEF Next

\* The guard stays within max_entries.
THEOREM Capacity == Spec => []WithinCapacity
<1>1. Init => WithinCapacity
  <2> SUFFICES ASSUME Init
               PROVE  WithinCapacity
    OBVIOUS
  <2>1. Remembered(seen) = {}
    BY DEF Init, Remembered
  <2>2. Cardinality(Remembered(seen)) = 0
    BY <2>1, FS_EmptySet
  <2>3. QED
    BY <2>2, NumberAssumption DEF WithinCapacity
<1>2. QED
  BY <1>1, CapacityStep, TypeCorrect, PTL DEF Spec

=============================================================================
