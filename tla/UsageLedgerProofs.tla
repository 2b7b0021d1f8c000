------------------------- MODULE UsageLedgerProofs -------------------------
(***************************************************************************)
(* Proofs about UsageLedger, for every set of events, tenants, requests    *)
(* and amounts and for every cap.                                          *)
(***************************************************************************)
EXTENDS UsageLedger, FiniteSetTheorems, TLAPS

\* The inductive invariant.  The request index alone is not inductive: that a
\* transition leaves it right needs the record to keep its request, which is
\* what DigestsBindRecords says, and that needs records to be well-typed.
IInv ==
    /\ TypeOK
    /\ OneEventPerRequest
    /\ DigestsBindRecords
    /\ AmountsWithinQuote

\* An admission that passes every check is stored as a well-formed record
\* whose quote is within the cap.
LEMMA AdmittedRow ==
    ASSUME NEW f \in Fields, NEW sensitive \in BOOLEAN,
           AuthorizeVerdict(f, sensitive) = "ADMIT"
    PROVE  /\ Proposed(f) \in Rows
           /\ Proposed(f).quoted \in 0 .. Cap
           /\ ~Admitted(f.event)
           /\ byRequest[f.request] = None
<1>1. /\ Absent \notin {f.quantity, f.quoted}
      /\ NotInt \notin {f.quantity, f.quoted}
      /\ ~(f.quoted < 0 \/ f.quantity < 0)
      /\ ~(f.quoted > Cap)
      /\ ~Admitted(f.event)
      /\ byRequest[f.request] = None
  BY DEF AuthorizeVerdict
<1>2. f.quantity \in Int /\ f.quoted \in Int
  BY <1>1, NumbersAssumption DEF Fields, Amounts
<1>3. QED
  BY <1>1, <1>2, CapAssumption DEF Proposed, Rows, Fields, Lifecycles

\* A transition that passes every check stores a well-formed record that
\* differs from the one before in its lifecycle and its price only.
LEMMA TransitionRow ==
    ASSUME NEW e \in EventIds, NEW lifecycle \in Lifecycles, NEW u \in Updates,
           TransitionVerdict(e, lifecycle, u) = "STORE",
           byEvent[e] \in Rows \cup {None}, 
           Admitted(e) => byEvent[e].actual \in (0 .. byEvent[e].quoted) \cup {None}
    PROVE  /\ Admitted(e)
           /\ byEvent[e] \in Rows
           /\ lifecycle \in Successors(byEvent[e].lifecycle)
           /\ NextRow(byEvent[e], lifecycle, u) \in Rows
           /\ \E a \in (0 .. byEvent[e].quoted) \cup {None} :
                NextRow(byEvent[e], lifecycle, u)
                  = [byEvent[e] EXCEPT !.lifecycle = lifecycle, !.actual = a]
<1>1. /\ Admitted(e)
      /\ lifecycle \in Successors(byEvent[e].lifecycle)
      /\ u.quoted = Absent
      /\ u.actual # NotInt
      /\ ~(u.actual # Absent /\ (u.actual < 0 \/ u.actual > byEvent[e].quoted))
  BY DEF TransitionVerdict
<1>2. byEvent[e] \in Rows
  BY <1>1 DEF Admitted
<1> DEFINE a == Updated(u.actual, byEvent[e].actual)
<1>3. a \in (0 .. byEvent[e].quoted) \cup {None}
  <2>1. CASE u.actual = Absent
    BY <1>1, <2>1 DEF Updated
  <2>2. CASE u.actual # Absent
    <3>1. u.actual \in Int /\ byEvent[e].quoted \in Int
      BY <1>1, <1>2, <2>2, NumbersAssumption DEF Updates, Amounts, Rows
    <3>2. QED
      BY <1>1, <2>2, <3>1 DEF Updated
  <2>3. QED
    BY <2>1, <2>2
<1>4. NextRow(byEvent[e], lifecycle, u)
        = [byEvent[e] EXCEPT !.lifecycle = lifecycle, !.actual = a]
  BY <1>1, <1>2 DEF NextRow, Updated, Rows
<1>5. a \in Int \cup {None}
  BY <1>3, <1>2 DEF Rows
<1>6. NextRow(byEvent[e], lifecycle, u) \in Rows
  BY <1>2, <1>4, <1>5 DEF Rows
<1>7. QED
  BY <1>1, <1>2, <1>3, <1>4, <1>6

-----------------------------------------------------------------------------

\* An admission keeps the invariant.
LEMMA AuthorizeStep ==
    ASSUME IInv, NEW f \in Fields, NEW sensitive \in BOOLEAN, Authorize(f, sensitive)
    PROVE  IInv'
<1> DEFINE e == f.event
           row == Proposed(f)
<1>1. /\ row \in Rows
      /\ row.quoted \in 0 .. Cap
      /\ byEvent[e] = None
      /\ byRequest[f.request] = None
  BY AdmittedRow DEF Authorize, Admitted
<1>2. e \in EventIds /\ f.request \in Requests
  BY DEF Fields
<1>3. /\ row # None /\ row.event = e /\ row.request = f.request
      /\ row.lifecycle = "AUTHORIZED" /\ row.actual = None
  BY <1>1, RowAssumption DEF Proposed
<1>4. /\ byEvent' = [byEvent EXCEPT ![e] = row]
      /\ byRequest' = [byRequest EXCEPT ![f.request] = e]
      /\ admissionDigest' = [admissionDigest EXCEPT ![e] = row]
      /\ recordDigest' = [recordDigest EXCEPT ![e] = row]
  BY DEF Authorize, Digest
<1> HIDE DEF e, row
<1>5. TypeOK'
  BY <1>1, <1>2, <1>4 DEF IInv, TypeOK
<1>6. OneEventPerRequest'
  <2> SUFFICES ASSUME NEW d \in EventIds, NEW r \in Requests
               PROVE  byRequest'[r] = d <=> byEvent'[d] # None /\ byEvent'[d].request = r
    BY DEF OneEventPerRequest, Admitted
  <2>1. byRequest[r] = d <=> byEvent[d] # None /\ byEvent[d].request = r
    BY DEF IInv, OneEventPerRequest, Admitted
  <2>2. d # None
    BY NoneAssumption
  <2>3. byEvent'[d] = IF d = e THEN row ELSE byEvent[d]
    BY <1>2, <1>4 DEF IInv, TypeOK
  <2>4. byRequest'[r] = IF r = f.request THEN e ELSE byRequest[r]
    BY <1>2, <1>4 DEF IInv, TypeOK
  <2>5. CASE r = f.request
    BY <1>1, <1>3, <2>1, <2>2, <2>3, <2>4, <2>5
  <2>6. CASE r # f.request
    BY <1>1, <1>3, <2>1, <2>3, <2>4, <2>6
  <2>7. QED
    BY <2>5, <2>6
<1>7. DigestsBindRecords'
  <2> SUFFICES ASSUME NEW d \in EventIds
               PROVE  /\ byEvent'[d] # None <=> admissionDigest'[d] # None
                      /\ byEvent'[d] # None =>
                           /\ byEvent'[d].event = d
                           /\ [byEvent'[d] EXCEPT !.lifecycle = "AUTHORIZED",
                                                  !.actual = None] = admissionDigest'[d]
                           /\ recordDigest'[d] = byEvent'[d]
    BY DEF DigestsBindRecords, AdmittedAs, Admitted, Digest
  <2>1. CASE d = e
    <3>1. byEvent'[d] = row /\ admissionDigest'[d] = row /\ recordDigest'[d] = row
      BY <1>2, <1>4, <2>1 DEF IInv, TypeOK
    <3>2. [row EXCEPT !.lifecycle = "AUTHORIZED", !.actual = None] = row
      BY <1>1, <1>3 DEF Rows
    <3>3. QED
      BY <1>3, <2>1, <3>1, <3>2
  <2>2. CASE d # e
    <3>1. /\ byEvent'[d] = byEvent[d]
          /\ admissionDigest'[d] = admissionDigest[d]
          /\ recordDigest'[d] = recordDigest[d]
      BY <1>2, <1>4, <2>2 DEF IInv, TypeOK
    <3>2. QED
      BY <3>1 DEF IInv, DigestsBindRecords, AdmittedAs, Admitted, Digest
  <2>3. QED
    BY <2>1, <2>2
<1>8. AmountsWithinQuote'
  <2> SUFFICES ASSUME NEW d \in EventIds, byEvent'[d] # None
               PROVE  /\ byEvent'[d].quoted \in 0 .. Cap
                      /\ byEvent'[d].actual \in (0 .. byEvent'[d].quoted) \cup {None}
    BY DEF AmountsWithinQuote, Admitted
  <2>1. byEvent'[d] = IF d = e THEN row ELSE byEvent[d]
    BY <1>2, <1>4 DEF IInv, TypeOK
  <2>2. QED
    BY <1>1, <1>3, <2>1 DEF IInv, AmountsWithinQuote, Admitted
<1>9. QED
  BY <1>5, <1>6, <1>7, <1>8 DEF IInv

\* A transition keeps the invariant.
LEMMA TransitionStep ==
    ASSUME IInv, NEW e \in EventIds, NEW lifecycle \in Lifecycles, NEW u \in Updates,
           Transition(e, lifecycle, u)
    PROVE  IInv'
<1> DEFINE row == byEvent[e]
           next == NextRow(byEvent[e], lifecycle, u)
<1>1. /\ row # None
      /\ row \in Rows
      /\ next \in Rows
      /\ \E a \in (0 .. row.quoted) \cup {None} :
           next = [row EXCEPT !.lifecycle = lifecycle, !.actual = a]
  BY TransitionRow DEF Transition, IInv, TypeOK, AmountsWithinQuote, Admitted
<1>2. PICK a \in (0 .. row.quoted) \cup {None} :
        next = [row EXCEPT !.lifecycle = lifecycle, !.actual = a]
  BY <1>1
<1>3. /\ next # None
      /\ next.event = row.event
      /\ next.request = row.request
      /\ next.quoted = row.quoted
      /\ next.actual = a
      /\ [next EXCEPT !.lifecycle = "AUTHORIZED", !.actual = None]
           = [row EXCEPT !.lifecycle = "AUTHORIZED", !.actual = None]
  BY <1>1, <1>2, RowAssumption DEF Rows
<1>4. /\ byEvent' = [byEvent EXCEPT ![e] = next]
      /\ recordDigest' = [recordDigest EXCEPT ![e] = next]
      /\ UNCHANGED <<byRequest, admissionDigest>>
  BY DEF Transition, Digest
<1> HIDE DEF next
<1>5. TypeOK'
  BY <1>1, <1>4 DEF IInv, TypeOK
<1>6. \A d \in EventIds :
        /\ byEvent'[d] = IF d = e THEN next ELSE byEvent[d]
        /\ recordDigest'[d] = IF d = e THEN next ELSE recordDigest[d]
  BY <1>4 DEF IInv, TypeOK
<1>7. OneEventPerRequest'
  BY <1>1, <1>3, <1>4, <1>6 DEF IInv, OneEventPerRequest, Admitted
<1>8. DigestsBindRecords'
  <2> SUFFICES ASSUME NEW d \in EventIds
               PROVE  /\ byEvent'[d] # None <=> admissionDigest[d] # None
                      /\ byEvent'[d] # None =>
                           /\ byEvent'[d].event = d
                           /\ [byEvent'[d] EXCEPT !.lifecycle = "AUTHORIZED",
                                                  !.actual = None] = admissionDigest[d]
                           /\ recordDigest'[d] = byEvent'[d]
    BY <1>4 DEF DigestsBindRecords, AdmittedAs, Admitted, Digest
  <2>1. CASE d = e
    BY <1>1, <1>3, <1>6, <2>1 DEF IInv, DigestsBindRecords, AdmittedAs, Admitted, Digest
  <2>2. CASE d # e
    BY <1>6, <2>2 DEF IInv, DigestsBindRecords, AdmittedAs, Admitted, Digest
  <2>3. QED
    BY <2>1, <2>2
<1>9. AmountsWithinQuote'
  BY <1>1, <1>3, <1>6 DEF IInv, AmountsWithinQuote, Admitted
<1>10. QED
  BY <1>5, <1>7, <1>8, <1>9 DEF IInv

\* The ledger's invariant: types, the request index, the digests and the bounds
\* on amounts hold after any sequence of calls.
THEOREM InvariantHolds == Spec => []IInv
<1>1. Init => IInv
  BY NoneAssumption, RowAssumption
     DEF Init, IInv, TypeOK, OneEventPerRequest, DigestsBindRecords,
         AmountsWithinQuote, Admitted
<1>2. IInv /\ [Next]_vars => IInv'
  <2> SUFFICES ASSUME IInv, [Next]_vars
               PROVE  IInv'
    OBVIOUS
  <2>1. CASE \E f \in Fields, sensitive \in BOOLEAN : Authorize(f, sensitive)
    <3>1. PICK f \in Fields, sensitive \in BOOLEAN : Authorize(f, sensitive)
      BY <2>1
    <3>2. QED
      BY <3>1, AuthorizeStep
  <2>2. CASE \E e \in EventIds, lifecycle \in Lifecycles, u \in Updates :
               Transition(e, lifecycle, u)
    <3>1. PICK e \in EventIds, lifecycle \in Lifecycles, u \in Updates :
            Transition(e, lifecycle, u)
      BY <2>2
    <3>2. QED
      BY <3>1, TransitionStep
  <2>3. CASE UNCHANGED vars
    <3>1. byEvent' = byEvent /\ byRequest' = byRequest
          /\ admissionDigest' = admissionDigest /\ recordDigest' = recordDigest
      BY <2>3 DEF vars
    <3>2. TypeOK'
      BY <3>1 DEF IInv, TypeOK
    <3>3. OneEventPerRequest'
      BY <3>1 DEF IInv, OneEventPerRequest, Admitted
    <3>4. DigestsBindRecords'
      BY <3>1 DEF IInv, DigestsBindRecords, AdmittedAs, Admitted, Digest
    <3>5. AmountsWithinQuote'
      BY <3>1 DEF IInv, AmountsWithinQuote, Admitted
    <3>6. QED
      BY <3>2, <3>3, <3>4, <3>5 DEF IInv
  <2>4. QED
    BY <2>1, <2>2, <2>3 DEF Next
<1>3. QED
  BY <1>1, <1>2, PTL DEF Spec

\* Every variable keeps its type.
THEOREM TypeCorrect == Spec => []TypeOK
  BY InvariantHolds, PTL DEF IInv

\* A (tenant, request) is never billed by two events.
THEOREM NoDoubleBilling == Spec => []OneEventPerRequest
  BY InvariantHolds, PTL DEF IInv

\* What was admitted is never rewritten, and the stored digest is current.
THEOREM DigestsBind == Spec => []DigestsBindRecords
  BY InvariantHolds, PTL DEF IInv

\* No charge exceeds the quote, no quote the cap.
THEOREM AmountsBounded == Spec => []AmountsWithinQuote
  BY InvariantHolds, PTL DEF IInv

\* In every state, an identical retry is answered with the current record and
\* nothing else for the same event or the same request is admitted.
THEOREM RetriesAreFree == Spec => []RetriesNeverCharge
<1>1. IInv => RetriesNeverCharge
  <2> SUFFICES ASSUME IInv, NEW e \in EventIds, Admitted(e), NEW f \in Fields
               PROVE  /\ Proposed(f) = AdmittedAs(e) =>
                           AuthorizeVerdict(f, FALSE) = "RETURN_CURRENT"
                      /\ f.event = e \/ f.request = byEvent[e].request =>
                           AuthorizeVerdict(f, FALSE) # "ADMIT"
    BY DEF RetriesNeverCharge
  <2> DEFINE row == byEvent[e]
  <2>a. /\ row \in Rows
        /\ row.quoted \in 0 .. Cap
        /\ row.event = e
        /\ admissionDigest[e] = AdmittedAs(e)
    BY DEF IInv, TypeOK, AmountsWithinQuote, DigestsBindRecords, Digest, Admitted
  <2>b. row.request \in Requests
    BY <2>a DEF Rows
  <2>1. byRequest[row.request] = e
    BY <2>b DEF IInv, OneEventPerRequest
  <2>2. ASSUME Proposed(f) = AdmittedAs(e)
        PROVE  AuthorizeVerdict(f, FALSE) = "RETURN_CURRENT"
    <3>1. f.event = e /\ f.quantity = row.quantity /\ f.quoted = row.quoted
      <4>1. [row EXCEPT !.lifecycle = "AUTHORIZED", !.actual = None] = Proposed(f)
        BY <2>2 DEF AdmittedAs
      <4>2. /\ Proposed(f).event = row.event
            /\ Proposed(f).quantity = row.quantity
            /\ Proposed(f).quoted = row.quoted
        BY <2>a, <4>1 DEF Rows
      <4>3. QED
        BY <2>a, <4>2 DEF Proposed
    <3>2. /\ Absent \notin {f.quantity, f.quoted}
          /\ NotInt \notin {f.quantity, f.quoted}
          /\ ~(f.quoted < 0 \/ f.quantity < 0)
          /\ ~(f.quoted > Cap)
      BY <2>a, <3>1, MarkAssumption, CapAssumption DEF Rows
    <3>3. Admitted(f.event) /\ admissionDigest[f.event] = Digest(Proposed(f))
      BY <2>a, <2>2, <3>1 DEF Digest
    <3>4. QED
      BY <3>2, <3>3 DEF AuthorizeVerdict
  <2>3. ASSUME f.event = e \/ f.request = row.request
        PROVE  AuthorizeVerdict(f, FALSE) # "ADMIT"
    <3>1. Admitted(f.event) \/ byRequest[f.request] # None
      BY <2>b, <2>1, <2>3, NoneAssumption
    <3>2. QED
      BY <3>1, AdmittedRow
  <2>4. QED
    BY <2>2, <2>3
<1>2. QED
  BY <1>1, InvariantHolds, PTL

-----------------------------------------------------------------------------
(* Sums over finite sets                                                   *)

\* Of subsets of a finite set there is one of which no smaller one is among them.
LEMMA Minimal ==
    ASSUME NEW S, IsFiniteSet(S), NEW T, T \subseteq SUBSET S, T # {}
    PROVE  \E s \in T : \A u \in T : u \subseteq s => u = s
<1>1. T \subseteq FiniteSubsetsOf(S)
  <2>1. \A s \in SUBSET S : IsFiniteSet(s)
    BY FS_Subset
  <2>2. QED
    BY <2>1 DEF FiniteSubsetsOf
<1>2. IsWellFoundedOn(StrictSubsetOrdering(S), FiniteSubsetsOf(S))
  BY FS_StrictSubsetOrderingWellFounded
<1>3. PICK s \in T : \A u \in T : <<u, s>> \notin StrictSubsetOrdering(S)
  BY <1>1, <1>2, WFMin
<1>4. QED
  BY <1>3 DEF StrictSubsetOrdering

\* The sums of f over the subsets of a set, as MapThenSumSet computes them: each
\* from that of the subset without the element it chooses.
Chosen(s) == CHOOSE x \in s : TRUE
SumFrom(g, f, S) ==
    [s \in SUBSET S |-> IF s = {} THEN 0 ELSE f[Chosen(s)] + g[s \ {Chosen(s)}]]
Sums(f, S) == CHOOSE g : g = SumFrom(g, f, S)

\* The element that is chosen is one, and the rest is less.
LEMMA ChosenMember ==
    ASSUME NEW s, s # {}
    PROVE  /\ Chosen(s) \in s /\ s \ {Chosen(s)} \subseteq s
           /\ s \ {Chosen(s)} # s
BY DEF Chosen

\* Two such sums agree on every set that both are of, ...
LEMMA SumsAgree ==
    ASSUME NEW f, NEW S, IsFiniteSet(S), NEW U, NEW V,
           NEW g, g = SumFrom(g, f, U), NEW h, h = SumFrom(h, f, V),
           S \subseteq U, S \subseteq V
    PROVE  g[S] = h[S]
<1> DEFINE T == {s \in SUBSET S : g[s] # h[s]}
<1>1. \A s \in SUBSET S : /\ g[s] = IF s = {} THEN 0 ELSE f[Chosen(s)] + g[s \ {Chosen(s)}]
                          /\ h[s] = IF s = {} THEN 0 ELSE f[Chosen(s)] + h[s \ {Chosen(s)}]
  <2> SUFFICES ASSUME NEW s \in SUBSET S
               PROVE  /\ g[s] = IF s = {} THEN 0 ELSE f[Chosen(s)] + g[s \ {Chosen(s)}]
                      /\ h[s] = IF s = {} THEN 0 ELSE f[Chosen(s)] + h[s \ {Chosen(s)}]
    OBVIOUS
  <2>1. s \in SUBSET U /\ s \in SUBSET V
    OBVIOUS
  <2>2. /\ SumFrom(g, f, U)[s] = IF s = {} THEN 0 ELSE f[Chosen(s)] + g[s \ {Chosen(s)}]
        /\ SumFrom(h, f, V)[s] = IF s = {} THEN 0 ELSE f[Chosen(s)] + h[s \ {Chosen(s)}]
    BY <2>1, Zenon DEF SumFrom
  <2>3. QED
    BY <2>2
<1>2. SUFFICES ASSUME T # {} PROVE FALSE
  OBVIOUS
<1>3. PICK s \in T : \A u \in T : u \subseteq s => u = s
  <2>1. T \subseteq SUBSET S
    OBVIOUS
  <2> HIDE DEF T
  <2>2. QED
    BY <1>2, <2>1, Minimal
<1>4. s # {}
  BY <1>1, <1>3
<1>5. s \ {Chosen(s)} \in SUBSET S /\ s \ {Chosen(s)} \notin T
  BY <1>3, <1>4, ChosenMember
<1>6. g[s \ {Chosen(s)}] = h[s \ {Chosen(s)}]
  BY <1>5
<1>7. QED
  BY <1>1, <1>3, <1>4, <1>6

\* ... and there is one of every finite set.
LEMMA SumsExist ==
    ASSUME NEW f, NEW S, IsFiniteSet(S)
    PROVE  \E g : g = SumFrom(g, f, S)
<1> DEFINE T == {s \in SUBSET S : ~ \E g : g = SumFrom(g, f, s)}
<1>1. SUFFICES ASSUME T # {} PROVE FALSE
  OBVIOUS
<1>2. PICK s \in T : \A u \in T : u \subseteq s => u = s
  <2>1. T \subseteq SUBSET S
    OBVIOUS
  <2> HIDE DEF T
  <2>2. QED
    BY <1>1, <2>1, Minimal
<1> DEFINE Own(u) == Sums(f, u)
           Rest(u) == u \ {Chosen(u)}
           whole == [t \in SUBSET s |-> IF t = {} THEN 0 ELSE f[Chosen(t)] + Own(Rest(t))[Rest(t)]]
<1>3. ASSUME NEW u \in SUBSET s, u # s PROVE Own(u) = SumFrom(Own(u), f, u) /\ IsFiniteSet(u)
  <2>1. u \in SUBSET S /\ u \notin T
    BY <1>2, <1>3
  <2>2. \E g : g = SumFrom(g, f, u)
    BY <2>1
  <2>3. QED
    BY <2>1, <2>2, FS_Subset DEF Sums
<1>4. ASSUME NEW u \in SUBSET s, u # s
      PROVE  Own(u)[u] = IF u = {} THEN 0 ELSE f[Chosen(u)] + Own(Rest(u))[Rest(u)]
  <2>1. Own(u) = SumFrom(Own(u), f, u) /\ u \in SUBSET u
    BY <1>3, <1>4
  <2>2. SumFrom(Own(u), f, u)[u] = IF u = {} THEN 0 ELSE f[Chosen(u)] + Own(u)[Rest(u)]
    BY <2>1, Zenon DEF SumFrom
  <2>3. CASE u = {}
    BY <2>1, <2>2, <2>3
  <2>4. CASE u # {}
    <3>1. Rest(u) \subseteq u /\ Rest(u) \in SUBSET s /\ Rest(u) # s
      BY <1>4, <2>4, ChosenMember
    <3>2. Own(Rest(u)) = SumFrom(Own(Rest(u)), f, Rest(u)) /\ IsFiniteSet(Rest(u))
      BY <1>3, <3>1
    <3>3. Own(u)[Rest(u)] = Own(Rest(u))[Rest(u)]
      <4> HIDE DEF Own, Rest
      <4>1. QED
        BY <2>1, <3>1, <3>2, SumsAgree
    <3>4. QED
      BY <2>1, <2>2, <2>4, <3>3
  <2>5. QED
    BY <2>3, <2>4
<1>5. ASSUME NEW t \in SUBSET s, t # {}
      PROVE  whole[t] = f[Chosen(t)] + whole[Rest(t)]
  <2>1. Rest(t) \in SUBSET s /\ Rest(t) # s
    BY <1>5, ChosenMember
  <2> HIDE DEF Rest, Own
  <2>2. whole[t] = f[Chosen(t)] + Own(Rest(t))[Rest(t)]
    BY <1>5
  <2>3. whole[Rest(t)] = Own(Rest(t))[Rest(t)]
    BY <1>4, <2>1
  <2>4. QED
    BY <2>2, <2>3
<1>6. whole = SumFrom(whole, f, s)
  <2>1. \A t \in SUBSET s : whole[t] = IF t = {} THEN 0 ELSE f[Chosen(t)] + whole[t \ {Chosen(t)}]
    <3>1. whole[{}] = 0
      OBVIOUS
    <3>2. QED
      BY <1>5, <3>1
  <2>2. whole = [t \in SUBSET s |-> whole[t]]
    OBVIOUS
  <2> HIDE DEF whole
  <2>3. QED
    BY <2>1, <2>2 DEF SumFrom
<1>7. QED
  BY <1>2, <1>6

\* A sum of numbers up to a bound is at most as many times the bound.
LEMMA SumBound ==
    ASSUME NEW S, IsFiniteSet(S), NEW bound \in Nat, NEW f, \A x \in S : f[x] \in 0 .. bound
    PROVE  Sums(f, S)[S] \in 0 .. bound * Cardinality(S)
<1> DEFINE g == Sums(f, S)
           T == {s \in SUBSET S : g[s] \notin 0 .. bound * Cardinality(s)}
<1>1. g = SumFrom(g, f, S)
  BY SumsExist, Zenon DEF Sums
<1> HIDE DEF g
<1>2. \A s \in SUBSET S : g[s] = IF s = {} THEN 0 ELSE f[Chosen(s)] + g[s \ {Chosen(s)}]
  <2>1. \A s \in SUBSET S :
            SumFrom(g, f, S)[s] = IF s = {} THEN 0 ELSE f[Chosen(s)] + g[s \ {Chosen(s)}]
    BY DEF SumFrom
  <2>2. QED
    BY <1>1, <2>1
<1>3. SUFFICES ASSUME T # {} PROVE FALSE
  BY DEF g
<1>4. PICK s \in T : \A u \in T : u \subseteq s => u = s
  <2>1. T \subseteq SUBSET S
    OBVIOUS
  <2> HIDE DEF T
  <2>2. QED
    BY <1>3, <2>1, Minimal
<1>5. s # {}
  <2>1. g[{}] = 0
    BY <1>2
  <2>2. Cardinality({}) = 0 /\ bound * 0 = 0
    BY FS_EmptySet
  <2>3. g[{}] \in 0 .. bound * Cardinality({})
    BY <2>1, <2>2
  <2>4. QED
    BY <1>4, <2>3
<1> DEFINE u == s \ {Chosen(s)}
           n == Cardinality(u)
<1>6. Chosen(s) \in s /\ u \in SUBSET S /\ u \notin T
  BY <1>4, <1>5, ChosenMember
<1>7. g[u] \in 0 .. bound * n
  BY <1>6
<1>8. n \in Nat /\ Cardinality(s) = n + 1
  <2>1. IsFiniteSet(s) /\ IsFiniteSet(u)
    BY <1>4, <1>6, FS_Subset
  <2>2. Cardinality(u) = Cardinality(s) - 1
    BY <1>6, <2>1, FS_RemoveElement
  <2>3. QED
    BY <2>1, <2>2, FS_CardinalityType
<1>9. g[s] = f[Chosen(s)] + g[u] /\ f[Chosen(s)] \in 0 .. bound
  BY <1>2, <1>4, <1>5, <1>6
<1> HIDE DEF u, n
<1>10. bound * (n + 1) = bound * n + bound /\ bound * n \in Nat
  BY <1>8
<1>11. g[s] \in 0 .. bound * Cardinality(s)
  <2>1. bound * Cardinality(s) = bound * n + bound
    BY <1>8, <1>10
  <2> HIDE DEF T
  <2>2. QED
    BY <1>7, <1>9, <1>10, <2>1
<1>12. QED
  BY <1>4, <1>11

-----------------------------------------------------------------------------
(* Revenue                                                                 *)

\* Finitely many events are admitted at any time, however many there may be.
FinitelyAdmitted == IsFiniteSet({e \in EventIds : Admitted(e)})

\* Every settled event brings at most the cap, and they are of different requests.
LEMMA Revenue ==
    ASSUME TypeOK, OneEventPerRequest, AmountsWithinQuote, FinitelyAdmitted
    PROVE  RevenueWithinCap
<1> DEFINE actual == [e \in Settled |-> byEvent[e].actual]
           billed == {byEvent[e].request : e \in Settled}
           of == [e \in Settled |-> byEvent[e].request]
<1>1. \A e \in Settled : /\ e \in EventIds /\ Admitted(e) /\ byEvent[e] \in Rows
                          /\ byEvent[e].quoted \in 0 .. Cap
                          /\ byEvent[e].actual \in (0 .. byEvent[e].quoted) \cup {None}
  BY DEF Settled, TypeOK, AmountsWithinQuote, Admitted
<1>2. \A e \in Settled : byEvent[e].actual \in (0 .. Cap) \cup {None}
  BY <1>1, CapAssumption
<1>3. None \notin Int
  BY NoneAssumption
<1>4. CASE \E e \in Settled : byEvent[e].actual = None
  <2>1. RecognizedRevenue = "UNPRICED_SETTLEMENT"
    BY <1>4 DEF RecognizedRevenue
  <2>2. \E e \in Settled : byEvent[e].actual \notin Int
    BY <1>3, <1>4
  <2>3. QED
    BY <2>1, <2>2 DEF RevenueWithinCap
<1>5. CASE ~ \E e \in Settled : byEvent[e].actual = None
  <2>1. \A e \in Settled : byEvent[e].actual \in 0 .. Cap
    BY <1>2, <1>5
  <2>2. IsFiniteSet(Settled)
    <3>1. Settled \in SUBSET {e \in EventIds : Admitted(e)}
      BY DEF Settled
    <3>2. QED
      BY <3>1, FS_Subset DEF FinitelyAdmitted
  <2>3. RecognizedRevenue = Sums(actual, Settled)[Settled]
    <3>1. RecognizedRevenue = MapThenSumSet(LAMBDA e : byEvent[e].actual, Settled)
      BY <1>5 DEF RecognizedRevenue
    <3>2. MapThenSumSet(LAMBDA e : byEvent[e].actual, Settled)
            = (CHOOSE g : g = [s \in SUBSET Settled |->
                IF s = {} THEN 0 ELSE byEvent[Chosen(s)].actual + g[s \ {Chosen(s)}]])[Settled]
      BY DEF MapThenSumSet, MapThenFoldSet, Chosen
    <3>3. ASSUME NEW g
          PROVE  [s \in SUBSET Settled |->
                    IF s = {} THEN 0 ELSE byEvent[Chosen(s)].actual + g[s \ {Chosen(s)}]]
                   = SumFrom(g, actual, Settled)
      <4>1. \A s \in SUBSET Settled : s # {} => actual[Chosen(s)] = byEvent[Chosen(s)].actual
        BY ChosenMember
      <4> HIDE DEF actual
      <4>2. QED
        BY <4>1 DEF SumFrom
    <3> HIDE DEF actual
    <3>4. (CHOOSE g : g = [s \in SUBSET Settled |->
                IF s = {} THEN 0 ELSE byEvent[Chosen(s)].actual + g[s \ {Chosen(s)}]])
            = Sums(actual, Settled)
      BY <3>3, Zenon DEF Sums
    <3>5. QED
      BY <3>1, <3>2, <3>4
  <2>4. Sums(actual, Settled)[Settled] \in 0 .. Cap * Cardinality(Settled)
    <3>1. \A e \in Settled : actual[e] \in 0 .. Cap
      BY <2>1
    <3> HIDE DEF actual
    <3>2. QED
      BY <2>2, <3>1, CapAssumption, SumBound
  <2>5. Cardinality(billed) = Cardinality(Settled)
    <3>1. \A e \in Settled : of[e] \in billed /\ of[e] = byEvent[e].request
      OBVIOUS
    <3>2. ASSUME NEW d \in Settled, NEW e \in Settled, of[d] = of[e] PROVE d = e
      <4>1. byEvent[d].request = byEvent[e].request /\ byEvent[d].request \in Requests
        BY <1>1, <3>2 DEF Rows
      <4>2. byRequest[byEvent[d].request] = d /\ byRequest[byEvent[d].request] = e
        BY <1>1, <4>1 DEF OneEventPerRequest
      <4>3. QED
        BY <4>2
    <3>3. of \in Bijection(Settled, billed)
      BY <3>1, <3>2 DEF Bijection, Injection, Surjection, IsInjective
    <3>4. QED
      BY <2>2, <3>3, FS_Bijection DEF ExistsBijection
  <2>6. ~ \E e \in Settled : byEvent[e].actual \notin Int
    BY <2>1
  <2>7. RecognizedRevenue \in 0 .. (Cap * Cardinality(billed))
    BY <2>3, <2>4, <2>5
  <2>8. QED
    BY <2>6, <2>7 DEF RevenueWithinCap
<1>6. QED
  BY <1>4, <1>5

\* Admissions add one event at a time.
LEMMA FiniteStep ==
    ASSUME TypeOK, FinitelyAdmitted, [Next]_vars
    PROVE  FinitelyAdmitted'
<1> DEFINE admitted == {e \in EventIds : Admitted(e)}
<1>1. IsFiniteSet(admitted)
  BY DEF FinitelyAdmitted
<1>2. \E e : admitted' \subseteq admitted \cup {e}
  <2>1. ASSUME NEW f \in Fields, NEW sensitive \in BOOLEAN, Authorize(f, sensitive)
        PROVE  admitted' \subseteq admitted \cup {f.event}
    BY <2>1 DEF Authorize, Admitted, TypeOK
  <2>2. ASSUME NEW e \in EventIds, NEW lifecycle \in Lifecycles, NEW u \in Updates,
               Transition(e, lifecycle, u)
        PROVE  admitted' \subseteq admitted \cup {e}
    BY <2>2 DEF Transition, Admitted, TypeOK
  <2>3. CASE UNCHANGED vars
    BY <2>3 DEF vars, Admitted
  <2>4. QED
    BY <2>1, <2>2, <2>3 DEF Next
<1>3. PICK e : admitted' \subseteq admitted \cup {e}
  BY <1>2
<1>4. IsFiniteSet(admitted \cup {e}) /\ admitted' \in SUBSET (admitted \cup {e})
  BY <1>1, <1>3, FS_AddElement
<1> HIDE DEF admitted
<1>5. IsFiniteSet(admitted')
  BY <1>4, FS_Subset
<1>6. QED
  BY <1>5 DEF admitted, FinitelyAdmitted

\* Recognized revenue never exceeds the cap for each request that was settled.
THEOREM RevenueBounded == Spec => []RevenueWithinCap
<1>1. Init => FinitelyAdmitted
  <2>1. Init => {e \in EventIds : Admitted(e)} = {}
    BY DEF Init, Admitted
  <2>2. QED
    BY <2>1, FS_EmptySet DEF FinitelyAdmitted
<1>2. TypeOK /\ FinitelyAdmitted /\ [Next]_vars => FinitelyAdmitted'
  BY FiniteStep
<1>3. TypeOK /\ OneEventPerRequest /\ AmountsWithinQuote /\ FinitelyAdmitted => RevenueWithinCap
  BY Revenue
<1>4. QED
  BY <1>1, <1>2, <1>3, TypeCorrect, NoDoubleBilling, AmountsBounded, PTL DEF Spec

-----------------------------------------------------------------------------
(* The ledger implements Billing.                                          *)

\* The refinement mapping, as a state function of this module.
bills == [e \in EventIds |-> IF Admitted(e) THEN BillOf(byEvent[e])
                             ELSE [stage |-> "none", request |-> None,
                                   limit |-> 0, price |-> None]]

\* An admission opens the bill of its event.
LEMMA AuthorizeOpens ==
    ASSUME IInv, IInv', NEW f \in Fields, NEW sensitive \in BOOLEAN,
           Authorize(f, sensitive)
    PROVE  Abstract!Open(f.event, f.request, f.quoted)
<1> DEFINE e == f.event
           row == Proposed(f)
<1>1. /\ row \in Rows /\ row # None
      /\ ~Admitted(e)
      /\ byRequest[f.request] = None
  BY AdmittedRow, RowAssumption DEF Authorize
<1>2. e \in EventIds /\ f.request \in Requests
  BY DEF Fields
<1>3. bills[e] = [stage |-> "none", request |-> None, limit |-> 0, price |-> None]
  BY <1>1, <1>2 DEF bills
<1>4. \A d \in EventIds : bills[d].request # f.request
  <2> SUFFICES ASSUME NEW d \in EventIds
               PROVE  bills[d].request # f.request
    OBVIOUS
  <2>1. CASE Admitted(d)
    <3>1. byEvent[d].request # f.request
      BY <1>1, <1>2, <2>1, NoneAssumption DEF IInv, OneEventPerRequest
    <3>2. QED
      BY <2>1, <3>1 DEF bills, BillOf
  <2>2. CASE ~Admitted(d)
    <3>1. f.request # None
      BY <1>2, RequestAssumption
    <3>2. QED
      BY <2>2, <3>1 DEF bills
  <2>3. QED
    BY <2>1, <2>2
<1>5. bills' = [bills EXCEPT ![e] = [stage |-> "open", request |-> f.request,
                                     limit |-> f.quoted, price |-> None]]
  <2>1. byEvent' = [byEvent EXCEPT ![e] = row]
    BY DEF Authorize
  <2>2. BillOf(row) = [stage |-> "open", request |-> f.request,
                       limit |-> f.quoted, price |-> None]
    BY DEF BillOf, StageOf, Proposed
  <2>3. QED
    BY <1>1, <1>2, <2>1, <2>2 DEF bills, Admitted, IInv, TypeOK
<1>6. QED
  BY <1>3, <1>4, <1>5 DEF Abstract!Open, Abstract!NoBill, Abstract!Bill, bills

\* A transition moves the bill of its event along, or leaves it as it was.
LEMMA TransitionMoves ==
    ASSUME IInv, NEW e \in EventIds, NEW lifecycle \in Lifecycles, NEW u \in Updates,
           Transition(e, lifecycle, u)
    PROVE  \/ Abstract!Deliver(e)
           \/ Abstract!Recognize(e)
           \/ Abstract!Dispute(e)
           \/ Abstract!Close(e)
           \/ bills' = bills
<1> DEFINE row == byEvent[e]
           next == NextRow(byEvent[e], lifecycle, u)
<1>1. /\ Admitted(e)
      /\ row \in Rows
      /\ next \in Rows
      /\ lifecycle \in Successors(row.lifecycle)
      /\ \E a \in (0 .. row.quoted) \cup {None} :
           next = [row EXCEPT !.lifecycle = lifecycle, !.actual = a]
  <2>1. /\ TransitionVerdict(e, lifecycle, u) = "STORE"
        /\ row \in Rows \cup {None}
        /\ Admitted(e) => row.actual \in (0 .. row.quoted) \cup {None}
    BY DEF Transition, IInv, TypeOK, AmountsWithinQuote
  <2>2. QED
    BY <2>1, TransitionRow
<1>2. PICK a \in (0 .. row.quoted) \cup {None} :
        next = [row EXCEPT !.lifecycle = lifecycle, !.actual = a]
  BY <1>1
<1>3. next.lifecycle = lifecycle /\ next.actual = a
      /\ next.request = row.request /\ next.quoted = row.quoted
  BY <1>1, <1>2 DEF Rows
<1> DEFINE price == IF lifecycle = "SETTLED" THEN a ELSE None
<1>4. bills[e] = BillOf(row)
  BY <1>1 DEF bills
<1>5. BillOf(next) = [stage |-> StageOf(next), request |-> row.request,
                      limit |-> row.quoted, price |-> price]
  BY <1>3 DEF BillOf
<1>6. bills' = [bills EXCEPT ![e] = BillOf(next)]
  <2>1. next # None
    BY <1>1, RowAssumption
  <2>2. byEvent' = [byEvent EXCEPT ![e] = next]
    BY DEF Transition
  <2> HIDE DEF next
  <2>3. QED
    BY <1>1, <2>1, <2>2 DEF bills, Admitted, IInv, TypeOK
<1>7. bills[e].request = row.request /\ bills[e].limit = row.quoted
      /\ bills[e].stage = StageOf(row)
  BY <1>4 DEF BillOf
<1>8. bills' = [bills EXCEPT ![e] = [stage |-> StageOf(next),
                   request |-> bills[e].request, limit |-> bills[e].limit,
                   price |-> price]]
  BY <1>5, <1>6, <1>7
<1> DEFINE Moved(from, to) ==
             StageOf(row) \in from /\ StageOf(next) = to
<1>9. CASE lifecycle = "PRODUCED"
  <2>1. Moved({"open"}, "delivered") /\ price = None
    BY <1>1, <1>3, <1>9 DEF Successors, StageOf, Rows, Lifecycles
  <2>2. QED
    BY <1>7, <1>8, <2>1 DEF Abstract!Deliver, Abstract!Move, Abstract!Bill, bills
<1>10. CASE lifecycle = "SETTLEMENT_PENDING"
  <2>1. Moved({"delivered"}, "delivered") /\ price = None /\ row.lifecycle # "SETTLED"
    BY <1>1, <1>3, <1>10 DEF Successors, StageOf, Rows, Lifecycles
  <2>2. BillOf(next) = bills[e]
    BY <1>4, <1>5, <2>1 DEF BillOf
  <2>3. QED
    BY <1>6, <2>2 DEF bills
<1>11. CASE lifecycle = "SETTLED"
  <2>1. Moved({"delivered", "disputed"}, "recognized") /\ price = a
    BY <1>1, <1>3, <1>11 DEF Successors, StageOf, Rows, Lifecycles
  <2>2. QED
    BY <1>7, <1>8, <2>1 DEF Abstract!Recognize, Abstract!Move, Abstract!Bill, bills
<1>12. CASE lifecycle = "DISPUTED"
  <2>1. Moved({"delivered", "recognized"}, "disputed") /\ price = None
    BY <1>1, <1>3, <1>12 DEF Successors, StageOf, Rows, Lifecycles
  <2>2. QED
    BY <1>7, <1>8, <2>1 DEF Abstract!Dispute, Abstract!Move, Abstract!Bill, bills
<1>13. CASE lifecycle \in {"FAILED", "CANCELLED", "REFUNDED"}
  <2>1. Moved(Abstract!Stages \ {"none", "closed"}, "closed") /\ price = None
    BY <1>1, <1>3, <1>13 DEF Successors, StageOf, Rows, Lifecycles, Abstract!Stages
  <2>2. QED
    BY <1>7, <1>8, <2>1 DEF Abstract!Close, Abstract!Move, Abstract!Bill, bills
<1>14. \/ lifecycle \in {"FAILED", "CANCELLED", "REFUNDED"}
       \/ lifecycle = "PRODUCED" \/ lifecycle = "SETTLEMENT_PENDING"
       \/ lifecycle = "SETTLED" \/ lifecycle = "DISPUTED"
  BY <1>1 DEF Successors
<1>15. QED
  BY <1>9, <1>10, <1>11, <1>12, <1>13, <1>14

\* The ledger implements the abstract billing: each call is one step of it or
\* leaves every bill as it is.
THEOREM LedgerImplementsBilling == Spec => ImplementsBilling
<1>1. Init => Abstract!Init
  BY DEF Init, Admitted, Abstract!Init, Abstract!NoBill, Abstract!Bill
<1>2. IInv /\ IInv' /\ [Next]_vars => [Abstract!Next]_bills
  <2> SUFFICES ASSUME IInv, IInv', [Next]_vars
               PROVE  Abstract!Next \/ bills' = bills
    OBVIOUS
  <2>1. ASSUME NEW f \in Fields, NEW sensitive \in BOOLEAN, Authorize(f, sensitive)
        PROVE  Abstract!Next
    <3>1. Abstract!Open(f.event, f.request, f.quoted)
      BY <2>1, AuthorizeOpens
    <3>2. f.event \in EventIds /\ f.request \in Requests /\ f.quoted \in 0 .. Cap
      BY <2>1, AdmittedRow DEF Fields, Authorize, Proposed
    <3>3. QED
      BY <3>1, <3>2 DEF Abstract!Next
  <2>2. ASSUME NEW e \in EventIds, NEW lifecycle \in Lifecycles, NEW u \in Updates,
               Transition(e, lifecycle, u)
        PROVE  Abstract!Next \/ bills' = bills
    BY <2>2, TransitionMoves DEF Abstract!Next
  <2>3. CASE UNCHANGED vars
    BY <2>3 DEF vars, bills, Admitted
  <2>4. QED
    BY <2>1, <2>2, <2>3 DEF Next
<1>3. QED
  BY <1>1, <1>2, InvariantHolds, PTL DEF Spec, ImplementsBilling, Abstract!Spec, bills

=============================================================================
