----------------------- MODULE RevenueTrackerProofs -----------------------
(***************************************************************************)
(* Proofs about RevenueTracker, for any requests, tokens, price bounds,    *)
(* statuses and reported amounts.                                          *)
(***************************************************************************)
EXTENDS RevenueTracker, TLAPS

\* What each stage of a request implies: a verdict is that of its own token at
\* its own resource, and nothing is recorded before both parts have ended.
Consistent(r) ==
    /\ stage[r] = "unseen" <=> verification[r] = "unseen"
    /\ verification[r] \in {"started", "waiting", "ok", "refused", "keys_unavailable"} =>
          token[r] \in Tokens
    /\ verification[r] = "ok" => Verdict(token[r], AudienceOf[r]) = "ok"
    /\ stage[r] = "fetching" /\ token[r] = None => verification[r] = "absent"
    /\ stage[r] = "over" => verification[r] \in Decided
    /\ stage[r] # "over" => rows[r] = {}
    /\ rows[r] \subseteq EventsFor(token[r], verification[r], origin[r])
    /\ stage[r] \in {"recording", "over"} => origin[r] \in Endings \cup {TransportFailure}

StageInv == \A r \in Requests : Consistent(r)

\* The rows of a verified context carry its amount, capped reports and the
\* status the origin gave.
LEMMA VerifiedRows ==
    ASSUME NEW t \in Tokens, NEW end \in Endings \cup {TransportFailure},
           NEW row \in VerifiedEvents(t, end)
    PROVE  /\ row \in Row /\ row.token = t /\ row.authorized = Claims[t].amount
           /\ row.status = end.status
           /\ row.effective > 0 => /\ Claims[t].scheme = "upto"
                                   /\ end.status \in 200 .. 399
                                   /\ row.effective <= row.authorized
                                   /\ row.effective <= end.settlement
<1> DEFINE c == Claims[t]
           settled ==
               IF Countable(c.scheme, end)
               THEN DataPoint("settlement_reported", t, c.amount, end.settlement,
                              Effective(end.settlement, c.amount), end.status)
               ELSE DataPoint("settlement_ignored", t, c.amount, 0, 0, end.status)
<1>1. c.amount \in Nat /\ end.status \in Statuses \cup {0}
  BY ClaimsAssumption DEF Endings, TransportFailure
<1>2. CASE row = DataPoint("payment_authorized", t, c.amount, 0, 0, end.status)
  BY <1>1, <1>2 DEF DataPoint, Row
<1>3. CASE end.settlement # None /\ row = settled
  <2>1. end \in Endings
    BY <1>3 DEF TransportFailure
  <2>2. end.status \in 200 .. 599
    BY <2>1, BoundsAssumption DEF Endings
  <2>3. CASE Countable(c.scheme, end)
    <3>1. end.settlement \in Nat
      BY <1>3, <2>1, <2>3, BoundsAssumption DEF Endings, Settlements, Countable
    <3>2. /\ Effective(end.settlement, c.amount) \in Nat
          /\ Effective(end.settlement, c.amount) <= c.amount
          /\ Effective(end.settlement, c.amount) <= end.settlement
      BY <1>1, <3>1 DEF Effective
    <3>3. c.scheme = "upto" /\ end.status \in 200 .. 399
      BY <2>2, <2>3 DEF Countable
    <3>4. row = DataPoint("settlement_reported", t, c.amount, end.settlement,
                          Effective(end.settlement, c.amount), end.status)
      BY <1>3, <2>3
    <3>5. QED
      BY <1>1, <3>1, <3>2, <3>3, <3>4 DEF DataPoint, Row
  <2>4. CASE ~Countable(c.scheme, end)
    <3>1. row = DataPoint("settlement_ignored", t, c.amount, 0, 0, end.status)
      BY <1>3, <2>4
    <3>2. QED
      BY <1>1, <3>1 DEF DataPoint, Row
  <2>5. QED
    BY <2>3, <2>4
<1>4. QED
  BY <1>2, <1>3 DEF VerifiedEvents

\* The rows of anything else count nothing.
LEMMA UnverifiedRows ==
    ASSUME NEW t \in Tokens \cup {None}, NEW end \in Endings \cup {TransportFailure},
           NEW row \in UnverifiedEvents(t, end)
    PROVE  /\ row \in Row /\ row.authorized = 0 /\ row.effective = 0
           /\ row.status = end.status
<1>1. end.status \in Statuses \cup {0}
  BY DEF Endings, TransportFailure
<1>2. \/ row = DataPoint("payment_context_rejected", t, 0, 0, 0, end.status)
      \/ row = DataPoint("settlement_ignored", t, 0, 0, 0, end.status)
  BY DEF UnverifiedEvents
<1>3. QED
  BY <1>1, <1>2 DEF DataPoint, Row

\* With keys in hand a token is accepted or refused.
LEMMA VerdictType == \A t, a : Verdict(t, a) \in {"ok", "refused"}
BY DEF Verdict

\* The rows of a request whose verification is decided are well typed.
LEMMA EventsType ==
    ASSUME TypeOK, StageInv, NEW r \in Requests, stage[r] \in {"recording", "over"}
    PROVE  EventsFor(token[r], verification[r], origin[r]) \subseteq Row
<1>1. token[r] \in Tokens \cup {None} /\ origin[r] \in Endings \cup {TransportFailure}
  BY DEF TypeOK, StageInv, Consistent
<1>2. verification[r] = "ok" => token[r] \in Tokens
  BY DEF StageInv, Consistent
<1>3. QED
  BY <1>1, <1>2, VerifiedRows, UnverifiedRows DEF EventsFor

-----------------------------------------------------------------------------
(* The invariant                                                           *)

IInv == TypeOK /\ StageInv

\* Every step keeps the types.
LEMMA TypeStep == IInv /\ [Next]_vars => TypeOK'
<1> SUFFICES ASSUME TypeOK, StageInv, [Next]_vars
             PROVE  TypeOK'
  BY DEF IInv
<1>1. CASE UNCHANGED vars
  BY <1>1 DEF TypeOK, vars
<1>2. CASE Retrieved
  BY <1>2, VerdictType DEF TypeOK, Retrieved, Decided
<1>3. CASE RetrievalFails \/ Expire
  BY <1>3 DEF TypeOK, RetrievalFails, Expire, Decided
<1>4. ASSUME NEW r \in Requests, NEW t \in Tokens \cup {None}, Arrive(r, t)
      PROVE  TypeOK'
  BY <1>4 DEF TypeOK, Arrive, Decided
<1>5. ASSUME NEW r \in Requests, Verify(r)
      PROVE  TypeOK'
  <2>1. CASE RefuseHeader(r)
    BY <2>1 DEF TypeOK, RefuseHeader, Decided
  <2>2. CASE AskKeys(r)
    <3>1. Verdict(token[r], AudienceOf[r]) \in Decided
      BY VerdictType DEF Decided
    <3>2. verification' \in [Requests -> {"unseen", "started", "waiting"} \cup Decided]
      BY <2>2, <3>1 DEF TypeOK, AskKeys
    <3>3. QED
      BY <2>2, <3>2 DEF TypeOK, AskKeys
  <2>3. QED
    BY <1>5, <2>1, <2>2 DEF Verify
<1>6. ASSUME NEW r \in Requests, OriginEnds(r)
      PROVE  TypeOK'
  BY <1>6 DEF TypeOK, OriginEnds, OriginFails, OriginAnswers
<1>7. ASSUME NEW r \in Requests, Record(r)
      PROVE  TypeOK'
  <2>1. EventsFor(token[r], verification[r], origin[r]) \subseteq Row
    BY <1>7, EventsType DEF Record
  <2>2. rows' \in [Requests -> SUBSET Row]
    BY <1>7, <2>1 DEF TypeOK, Record
  <2>3. QED
    BY <1>7, <2>2 DEF TypeOK, Record
<1>8. QED
  BY <1>1, <1>2, <1>3, <1>4, <1>5, <1>6, <1>7 DEF Next

\* Every step keeps what the stages imply.
LEMMA StageStep == IInv /\ [Next]_vars => StageInv'
<1> SUFFICES ASSUME TypeOK, StageInv, [Next]_vars, NEW q \in Requests, Consistent(q)
             PROVE  Consistent(q)'
  BY DEF IInv, StageInv
<1> USE DEF Decided
<1>1. CASE UNCHANGED vars
  BY <1>1 DEF Consistent, vars
<1>2. CASE Retrieved
  <2>1. /\ verification'[q] = IF verification[q] = "waiting" THEN Verdict(token[q], AudienceOf[q])
                              ELSE verification[q]
        /\ UNCHANGED <<stage, token, origin, rows>>
    BY <1>2 DEF Retrieved
  <2>2. CASE verification[q] = "waiting"
    BY <2>1, <2>2, VerdictType DEF Consistent
  <2>3. CASE verification[q] # "waiting"
    BY <2>1, <2>3 DEF Consistent
  <2>4. QED
    BY <2>2, <2>3
<1>3. CASE RetrievalFails \/ Expire
  BY <1>3 DEF Consistent, RetrievalFails, Expire
<1>4. ASSUME NEW r \in Requests, NEW t \in Tokens \cup {None}, Arrive(r, t)
      PROVE  Consistent(q)'
  <2>1. CASE r = q
    <3>1. /\ stage'[q] = "fetching" /\ token'[q] = t
          /\ verification'[q] = IF t = None THEN "absent" ELSE "started"
          /\ origin'[q] = origin[q] /\ rows'[q] = rows[q] /\ rows[q] = {}
      BY <1>4, <2>1 DEF TypeOK, Consistent, Arrive
    <3>2. QED
      BY <3>1 DEF Consistent
  <2>2. CASE r # q
    BY <1>4, <2>2 DEF TypeOK, Consistent, Arrive
  <2>3. QED
    BY <2>1, <2>2
<1>5. ASSUME NEW r \in Requests, Verify(r)
      PROVE  Consistent(q)'
  <2>1. UNCHANGED <<stage, token, origin, rows>>
    BY <1>5 DEF Verify, RefuseHeader, AskKeys
  <2>2. CASE r = q
    <3>1. /\ verification[q] = "started"
          /\ \/ verification'[q] \in {"refused", "waiting"}
             \/ verification'[q] = Verdict(token[q], AudienceOf[q])
      BY <1>5, <2>2 DEF TypeOK, Verify, RefuseHeader, AskKeys
    <3>2. QED
      BY <2>1, <3>1, VerdictType DEF Consistent
  <2>3. CASE r # q
    <3>1. verification'[q] = verification[q]
      BY <1>5, <2>3 DEF TypeOK, Verify, RefuseHeader, AskKeys
    <3>2. QED
      BY <2>1, <3>1 DEF Consistent
  <2>4. QED
    BY <2>2, <2>3
<1>6. ASSUME NEW r \in Requests, OriginEnds(r)
      PROVE  Consistent(q)'
  <2>1. UNCHANGED <<token, verification, rows>>
    BY <1>6 DEF OriginEnds, OriginFails, OriginAnswers
  <2>2. CASE r = q
    <3>1. /\ stage[q] = "fetching" /\ origin'[q] \in Endings \cup {TransportFailure}
          /\ \/ stage'[q] = "recording"
             \/ stage'[q] = "over" /\ token[q] = None
      BY <1>6, <2>2 DEF TypeOK, OriginEnds, OriginFails, OriginAnswers
    <3>2. QED
      BY <2>1, <3>1 DEF Consistent
  <2>3. CASE r # q
    <3>1. stage'[q] = stage[q] /\ origin'[q] = origin[q]
      BY <1>6, <2>3 DEF TypeOK, OriginEnds, OriginFails, OriginAnswers
    <3>2. QED
      BY <2>1, <3>1 DEF Consistent
  <2>4. QED
    BY <2>2, <2>3
<1>7. ASSUME NEW r \in Requests, Record(r)
      PROVE  Consistent(q)'
  <2>1. CASE r = q
    <3>1. /\ stage[q] = "recording" /\ stage'[q] = "over" /\ verification[q] \in Decided
          /\ rows'[q] \subseteq EventsFor(token[q], verification[q], origin[q])
          /\ UNCHANGED <<token, verification, origin>>
      BY <1>7, <2>1 DEF TypeOK, Record
    <3>2. QED
      BY <3>1 DEF Consistent
  <2>2. CASE r # q
    BY <1>7, <2>2 DEF TypeOK, Consistent, Record
  <2>3. QED
    BY <2>1, <2>2
<1>8. QED
  BY <1>1, <1>2, <1>3, <1>4, <1>5, <1>6, <1>7 DEF Next

\* The invariant of the tracker: types, and what the stages of a request imply.
THEOREM InvariantHolds == Spec => []IInv
<1>1. Init => IInv
  BY DEF Init, IInv, TypeOK, StageInv, Consistent
<1>2. QED
  BY <1>1, TypeStep, StageStep, PTL DEF Spec, IInv

\* Every variable keeps its type.
THEOREM TypeCorrect == Spec => []TypeOK
BY InvariantHolds, PTL DEF IInv

-----------------------------------------------------------------------------
(* What is counted                                                         *)

\* Only what was signed for the resource, and what an origin that served it
\* reported within the authorization, is ever counted.
THEOREM OnlyAttestedCounts == Spec => []CountsOnlyAttested
<1>1. IInv => CountsOnlyAttested
  <2> SUFFICES ASSUME TypeOK, StageInv, NEW r \in Requests, NEW row \in rows[r]
               PROVE  LET c == Claims[token[r]]
                      IN  /\ row.authorized > 0 =>
                              /\ row.token = token[r] /\ token[r] # None
                              /\ c.form = "signed" /\ c.aud = AudienceOf[r]
                              /\ row.authorized = c.amount /\ c.amount \in MinAtomic .. MaxAtomic
                          /\ row.effective > 0 =>
                              /\ row.authorized > 0 /\ row.effective <= row.authorized
                              /\ c.scheme = "upto"
                              /\ origin[r].status \in 200 .. 399
                              /\ row.effective <= origin[r].settlement
    BY DEF IInv, CountsOnlyAttested
  <2>1. /\ stage[r] = "over" /\ token[r] \in Tokens \cup {None}
        /\ origin[r] \in Endings \cup {TransportFailure}
        /\ row \in EventsFor(token[r], verification[r], origin[r])
    BY DEF TypeOK, StageInv, Consistent
  <2>2. CASE verification[r] = "ok"
    <3>1. token[r] \in Tokens /\ Verdict(token[r], AudienceOf[r]) = "ok"
      BY <2>2 DEF StageInv, Consistent
    <3>2. /\ Claims[token[r]].form = "signed" /\ Claims[token[r]].aud = AudienceOf[r]
          /\ Claims[token[r]].amount \in MinAtomic .. MaxAtomic
      BY <3>1 DEF Verdict
    <3>3. row \in VerifiedEvents(token[r], origin[r])
      BY <2>1, <2>2 DEF EventsFor
    <3>4. Claims[token[r]].amount > 0 /\ token[r] # None
      BY <3>1, <3>2, BoundsAssumption, NoneAssumption
    <3>5. /\ row.token = token[r] /\ row.authorized = Claims[token[r]].amount
          /\ row.status = origin[r].status
          /\ row.effective > 0 => /\ Claims[token[r]].scheme = "upto"
                                  /\ origin[r].status \in 200 .. 399
                                  /\ row.effective <= row.authorized
                                  /\ row.effective <= origin[r].settlement
      BY <2>1, <3>1, <3>3, VerifiedRows
    <3>6. QED
      BY <3>2, <3>4, <3>5
  <2>3. CASE verification[r] # "ok"
    BY <2>1, <2>3, UnverifiedRows DEF EventsFor
  <2>4. QED
    BY <2>2, <2>3
<1>2. QED
  BY <1>1, InvariantHolds, PTL

\* Neither a key outage nor an origin that did not answer counts anything.
THEOREM FailuresAreFree == Spec => []FailuresCountNothing
<1>1. IInv => FailuresCountNothing
  <2> SUFFICES ASSUME TypeOK, StageInv, NEW r \in Requests, NEW row \in rows[r]
               PROVE  /\ verification[r] = "keys_unavailable" => row.authorized = 0
                      /\ origin[r] = TransportFailure => row.status = 0 /\ row.effective = 0
    BY DEF IInv, FailuresCountNothing
  <2>1. /\ token[r] \in Tokens \cup {None}
        /\ origin[r] \in Endings \cup {TransportFailure}
        /\ row \in EventsFor(token[r], verification[r], origin[r])
    BY DEF TypeOK, StageInv, Consistent
  <2>2. CASE verification[r] = "ok"
    <3>1. token[r] \in Tokens /\ row \in VerifiedEvents(token[r], origin[r])
      BY <2>1, <2>2 DEF StageInv, Consistent, EventsFor
    <3>2. /\ row \in Row /\ row.status = origin[r].status
          /\ row.effective > 0 => origin[r].status \in 200 .. 399
      BY <2>1, <3>1, VerifiedRows
    <3>3. row.effective \in Nat
      BY <3>2 DEF Row
    <3>4. QED
      BY <2>2, <3>2, <3>3 DEF TransportFailure
  <2>3. CASE verification[r] # "ok"
    <3>1. row.authorized = 0 /\ row.effective = 0 /\ row.status = origin[r].status
      BY <2>1, <2>3, UnverifiedRows DEF EventsFor
    <3>2. QED
      BY <3>1 DEF TransportFailure
  <2>4. QED
    BY <2>2, <2>3
<1>2. QED
  BY <1>1, InvariantHolds, PTL

WaitersAreServed == \A r \in Requests : verification[r] = "waiting" => pending

\* Whoever waits for keys waits for a retrieval that is going on; nobody is left
\* behind when one ends.
THEOREM NobodyLeftWaiting == Spec => []WaitersAreServed
<1>1. Init => WaitersAreServed
  BY DEF Init, WaitersAreServed
<1>2. TypeOK /\ WaitersAreServed /\ [Next]_vars => WaitersAreServed'
  <2> SUFFICES ASSUME TypeOK, WaitersAreServed, [Next]_vars, NEW q \in Requests,
                      verification'[q] = "waiting"
               PROVE  pending'
    BY DEF WaitersAreServed
  <2>1. CASE UNCHANGED vars
    BY <2>1 DEF WaitersAreServed, vars
  <2>2. CASE Retrieved
    BY <2>2, VerdictType DEF Retrieved
  <2>3. CASE RetrievalFails
    BY <2>3 DEF RetrievalFails
  <2>4. CASE Expire
    BY <2>4 DEF WaitersAreServed, Expire
  <2>5. ASSUME NEW r \in Requests, NEW t \in Tokens \cup {None}, Arrive(r, t)
        PROVE  pending'
    BY <2>5 DEF TypeOK, WaitersAreServed, Arrive
  <2>6. ASSUME NEW r \in Requests, RefuseHeader(r)
        PROVE  pending'
    BY <2>6 DEF TypeOK, WaitersAreServed, RefuseHeader
  <2>7. ASSUME NEW r \in Requests, AskKeys(r)
        PROVE  pending'
    <3>1. CASE verification[q] = "waiting"
      BY <2>7, <3>1 DEF WaitersAreServed, AskKeys
    <3>2. CASE verification[q] # "waiting"
      BY <2>7, <3>2, VerdictType DEF TypeOK, AskKeys
    <3>3. QED
      BY <3>1, <3>2
  <2>8. ASSUME NEW r \in Requests, OriginEnds(r) \/ Record(r)
        PROVE  pending'
    BY <2>8 DEF WaitersAreServed, OriginEnds, OriginFails, OriginAnswers, Record
  <2>9. QED
    BY <2>1, <2>2, <2>3, <2>4, <2>5, <2>6, <2>7, <2>8 DEF Next, Verify
<1>3. QED
  BY <1>1, <1>2, TypeCorrect, PTL DEF Spec

=============================================================================
