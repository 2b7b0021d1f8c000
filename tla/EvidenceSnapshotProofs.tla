----------------------- MODULE EvidenceSnapshotProofs -----------------------
(***************************************************************************)
(* Proofs about EvidenceSnapshot, for any requests, contexts, key sets and *)
(* timeout.                                                                *)
(***************************************************************************)
EXTENDS EvidenceSnapshot, TLAPS

\* Keys that can be reused at all expire no later than the server that made
\* them says: the age the resolver computes is never below their true age.
LEMMA FreshnessSound ==
    ASSUME NEW started \in Nat, NEW received \in Nat,
           NEW sent \in started .. received, NEW date \in 0 .. sent,
           NEW maxAge \in 0 .. MaxAge,
           NEW reusable \in BOOLEAN, NEW dated \in BOOLEAN, NEW aged \in BOOLEAN,
           dated \/ aged
    PROVE  LET h == HeadersOf(date, sent, maxAge, reusable, dated, aged)
               fresh == Freshness(h, started, received)
           IN  fresh \in Nat /\ (fresh > 0 => received + fresh <= date + maxAge)
<1> DEFINE h == HeadersOf(date, sent, maxAge, reusable, dated, aged)
<1>1. /\ h.reusable = reusable /\ h.maxAge = maxAge /\ h.dated = dated /\ h.date = date
      /\ h.age = IF aged THEN sent - date ELSE 0
  BY DEF HeadersOf
<1> HIDE DEF h
<1>2. maxAge \in Nat /\ sent \in Nat /\ date \in Nat
  BY TimeAssumption
<1>3. QED
  BY <1>1, <1>2 DEF Freshness, Larger, h

\* Keys that may be reused at all are reused only while their server vouches for
\* them.
Vouched(set) == set.expires > set.received => set.expires <= set.lifetime

\* Keys in the cache have been received and are vouched for.
CacheSound ==
    cached # None =>
        cached.received <= clock /\ cached.received < cached.expires /\ Vouched(cached)

\* A retrieval never outlives its timer, and what it brought came while it went on.
PendingSound ==
    pending # NoRetrieval =>
        /\ 0 <= pending.started
        /\ pending.started <= clock /\ clock <= pending.started + Timeout
        /\ pending.result # None =>
              /\ pending.started <= pending.result.received
              /\ pending.result.received <= clock
              /\ Vouched(pending.result)

\* A request that waits came in while the retrieval went on.
WaitingSound ==
    \A r \in Requests : calls[r].stage = "waiting" =>
        calls[r].token \in Tokens /\ pending.started <= calls[r].asked /\ calls[r].asked <= clock

IInv == TypeOK /\ CacheSound /\ PendingSound /\ WaitingSound /\ ServedInTime

\* A call that was answered with keys of the set.
Valid(t, asked, set) ==
    LET c == Content[t].claims
    IN  /\ c.aud = Route.audience /\ c.scheme = "exact" /\ c.amount = Route.amount
        /\ asked < c.exp + Route.leeway
        /\ \E k \in set.keys : k.key = Content[t].signer

-----------------------------------------------------------------------------

\* What a late verdict of "valid" means.
LEMMA LateVerdictMeans ==
    ASSUME NEW t \in Tokens, NEW asked \in Nat, NEW set,
           LateVerdict(Content[t], At(asked), set.keys) = "valid"
    PROVE  Valid(t, asked, set)
<1> DEFINE c == Content[t].claims
           e == At(asked)
<1>1. /\ e.scheme = "exact" /\ e.leeway = Route.leeway /\ e.audience = Route.audience
      /\ e.amount = Route.amount /\ e.now = asked
  BY SnapshotAssumption DEF At, Expectation
<1>2. KeyVerdict(Content[t], set.keys) = "valid" /\ ClaimsVerdict(c, e) = "valid"
  <2> HIDE DEF e
  <2>1. QED
    BY DEF LateVerdict, Then, e
<1> HIDE DEF c, e
<1>3. \E k \in set.keys : k.key = Content[t].signer
  <2>1. PICK k \in Matching(Content[t], set.keys) : k.key = Content[t].signer
    BY <1>2 DEF KeyVerdict
  <2>2. Matching(Content[t], set.keys) \subseteq set.keys
    BY DEF Matching
  <2>3. QED
    BY <2>1, <2>2
<1>4. /\ c # Invalid /\ TimeVerdict(c, e.leeway, e.now) = "valid"
      /\ c.aud = e.audience /\ c.scheme = e.scheme /\ AmountVerdict(c, e) = "valid"
  BY <1>2, <1>1 DEF ClaimsVerdict
<1>5. c.amount = e.amount
  BY <1>1, <1>4 DEF AmountVerdict
<1>6. c.exp # Invalid /\ ~(c.exp <= asked - Route.leeway)
  BY <1>1, <1>4 DEF TimeVerdict
<1>7. c.exp \in Int
  BY <1>4, <1>6, ContentAssumption DEF c
<1>8. asked < c.exp + Route.leeway
  BY <1>6, <1>7, SnapshotAssumption
<1>9. QED
  BY <1>1, <1>3, <1>4, <1>5, <1>8 DEF Valid, c

\* A call that is over is well typed.
LEMMA AnsweredType ==
    ASSUME NEW t \in Tokens \cup {None}, NEW asked \in 0 .. MaxClock, clock \in 0 .. MaxClock,
           NEW status \in {200, 402, 403, 404, 405}, NEW set \in KeySetRecords
    PROVE  /\ Answered(t, asked, status, set) \in CallRecords
           /\ Answered(t, asked, status, set).stage = "done"
           /\ Answered(t, asked, status, set).status = status
           /\ Answered(t, asked, status, set).used = set
           /\ Answered(t, asked, status, set).token = t
           /\ Answered(t, asked, status, set).asked = asked
           /\ Answered(t, asked, status, set).answered = clock
BY DEF Answered, Call, CallRecords

\* Without keys a request is refused or asked to pay, or takes a token and keys.
LEMMA StatusBeforeMeans ==
    ASSUME NEW request, NEW t \in Tokens \cup {None}
    PROVE  /\ StatusBefore(request, t) \in {0, 402, 403, 404, 405}
           /\ StatusBefore(request, t) = 0 => t \in Tokens
<1> DEFINE absent == t = None \/ Content[t].form = "absent"
<1>1. \/ StatusBefore(request, t) = 405
      \/ StatusBefore(request, t) = 404
      \/ StatusBefore(request, t) = 402
      \/ StatusBefore(request, t) = 403
      \/ StatusBefore(request, t) = 0 /\ ~absent
  <2> DEFINE early == EarlyVerdict(Content[t], At(clock))
  <2>1. StatusBefore(request, t) =
          IF request = "other method" THEN 405
          ELSE IF request = "other resource" THEN 404
          ELSE IF t = None \/ Content[t].form = "absent" THEN 402
          ELSE IF early # "valid" THEN 403 ELSE 0
    BY DEF StatusBefore
  <2> HIDE DEF early
  <2>2. CASE request = "other method"
    BY <2>1, <2>2
  <2>3. CASE request = "other resource"
    BY <2>1, <2>3
  <2>4. CASE request # "other method" /\ request # "other resource"
    BY <2>1, <2>4
  <2>5. QED
    BY <2>2, <2>3, <2>4
<1>2. ~absent => t \in Tokens
  OBVIOUS
<1> HIDE DEF absent
<1>3. QED
  BY <1>1, <1>2

\* No keys are a key set record.
LEMMA NoKeysType == NoKeys \in KeySetRecords
BY TimeAssumption DEF NoKeys, KeySet, KeySetRecords

\* What a call is decided with.
LEMMA DecidedWithKeys ==
    ASSUME NEW t \in Tokens, NEW asked \in 0 .. MaxClock, clock \in 0 .. MaxClock,
           NEW set \in KeySetRecords
    PROVE  LET d == DecidedWith(t, asked, set)
           IN  /\ d \in CallRecords /\ d.stage = "done"
               /\ d.status = 200 =>
                     /\ d.used = set /\ d.token = t /\ d.asked = asked /\ d.answered = clock
                     /\ Valid(t, asked, set)
<1>1. CASE LateVerdict(Content[t], At(asked), set.keys) = "valid"
  <2>1. DecidedWith(t, asked, set) = Answered(t, asked, 200, set)
    BY <1>1 DEF DecidedWith
  <2>2. Valid(t, asked, set)
    BY <1>1, LateVerdictMeans, TimeAssumption
  <2>3. QED
    BY <2>1, <2>2, AnsweredType
<1>2. CASE LateVerdict(Content[t], At(asked), set.keys) # "valid"
  <2>1. DecidedWith(t, asked, set) = Answered(t, asked, 403, NoKeys)
    BY <1>2 DEF DecidedWith
  <2>2. QED
    BY <2>1, AnsweredType, NoKeysType
<1>3. QED
  BY <1>1, <1>2

\* What a served call owes, of one call.
Timely(call) ==
    call.status = 200 =>
        /\ Valid(call.token, call.asked, call.used)
        /\ call.answered <= call.asked + Timeout
        /\ \/ call.asked < call.used.lifetime
           \/ call.answered <= call.used.received + Timeout

\* ServedInTime, call by call.
LEMMA ServedInTimeByCall == ServedInTime <=> \A r \in Requests : Timely(calls[r])
BY DEF ServedInTime, Timely, Valid

-----------------------------------------------------------------------------

\* The start.
LEMMA Initially == Init => IInv
<1> SUFFICES ASSUME Init
             PROVE  IInv
  OBVIOUS
<1>1. Unseen \in CallRecords /\ Unseen.stage = "unseen" /\ Unseen.status = 0
  BY NoKeysType, TimeAssumption DEF Unseen, Call, CallRecords
<1>2. calls \in [Requests -> CallRecords]
      /\ \A r \in Requests : calls[r].stage = "unseen" /\ calls[r].status = 0
  BY <1>1 DEF Init
<1>3. TypeOK
  BY <1>2, TimeAssumption DEF Init, TypeOK, NoRetrieval
<1>4. QED
  BY <1>2, <1>3 DEF Init, IInv, CacheSound, PendingSound, WaitingSound, ServedInTime

\* A step that leaves the retrieval and the cache alone and ends or adds a call.
LEMMA CallStep ==
    ASSUME IInv, NEW r \in Requests, NEW call \in CallRecords,
           calls' = [calls EXCEPT ![r] = call], call.stage = "done",
           UNCHANGED <<clock, cached, pending>>, Timely(call)
    PROVE  IInv'
<1>1. /\ calls' \in [Requests -> CallRecords]
      /\ \A q \in Requests : calls'[q] = IF q = r THEN call ELSE calls[q]
  BY DEF IInv, TypeOK
<1>2. TypeOK'
  BY <1>1 DEF IInv, TypeOK
<1>3. CacheSound' /\ PendingSound'
  BY DEF IInv, CacheSound, PendingSound
<1>4. WaitingSound'
  BY <1>1 DEF IInv, WaitingSound
<1>5. \A q \in Requests : Timely(calls'[q])
  BY <1>1, ServedInTimeByCall DEF IInv
<1>6. ServedInTime'
  BY <1>5 DEF ServedInTime, Timely, Valid
<1>7. QED
  BY <1>2, <1>3, <1>4, <1>6 DEF IInv

\* A request comes in.
LEMMA ArriveStep ==
    ASSUME IInv, NEW r \in Requests, NEW request, NEW t \in Tokens \cup {None},
           Arrive(r, request, t)
    PROVE  IInv'
<1>0. clock \in 0 .. MaxClock /\ clock \in Nat
  BY TimeAssumption DEF IInv, TypeOK
<1>1. CASE AnswerWithoutKeys(r, request, t)
  <2> DEFINE call == Answered(t, clock, StatusBefore(request, t), NoKeys)
  <2>1. StatusBefore(request, t) \in {402, 403, 404, 405}
    BY <1>1, StatusBeforeMeans DEF AnswerWithoutKeys
  <2>2. call \in CallRecords /\ call.stage = "done" /\ call.status # 200
    BY <1>0, <2>1, AnsweredType, NoKeysType
  <2>3. QED
    BY <1>1, <2>2, CallStep DEF AnswerWithoutKeys, Timely
<1>2. CASE AnswerFromCache(r, request, t)
  <2> DEFINE call == DecidedWith(t, clock, cached)
  <2>1. t \in Tokens
    BY <1>2, StatusBeforeMeans DEF AnswerFromCache
  <2>2. cached \in KeySetRecords /\ cached # None /\ clock < cached.expires
    BY <1>2 DEF AnswerFromCache, CacheFresh, IInv, TypeOK
  <2>3. cached.expires \in Nat /\ cached.lifetime \in Nat
    BY <2>2 DEF KeySetRecords
  <2>4. clock < cached.lifetime
    BY <1>0, <2>2, <2>3 DEF IInv, CacheSound, Vouched
  <2>5. /\ call \in CallRecords /\ call.stage = "done"
        /\ call.status = 200 =>
              /\ call.used = cached /\ call.token = t /\ call.asked = clock
              /\ call.answered = clock /\ Valid(t, clock, cached)
    BY <1>0, <2>1, <2>2, DecidedWithKeys
  <2> HIDE DEF call
  <2>6. Timely(call)
    BY <1>0, <2>4, <2>5, SnapshotAssumption DEF Timely
  <2>7. QED
    BY <1>2, <2>5, <2>6, CallStep DEF AnswerFromCache, call
<1>3. CASE AwaitKeys(r, request, t)
  <2> DEFINE call == Call("waiting", t, clock, 0, 0, NoKeys)
  <2>1. t \in Tokens
    BY <1>3, StatusBeforeMeans DEF AwaitKeys
  <2>2. /\ call \in CallRecords /\ call.stage = "waiting" /\ call.status = 0
        /\ call.token = t /\ call.asked = clock
    BY <1>0, <2>1, NoKeysType, TimeAssumption DEF Call, CallRecords
  <2> HIDE DEF call
  <2>3. /\ calls' \in [Requests -> CallRecords]
        /\ \A q \in Requests : calls'[q] = IF q = r THEN call ELSE calls[q]
    BY <1>3, <2>2 DEF AwaitKeys, IInv, TypeOK, call
  <2>4. cached' = None /\ clock' = clock
    BY <1>3 DEF AwaitKeys
  <2>5. /\ pending' \in [started: -1 .. MaxClock, result: KeySetRecords \cup {None}]
        /\ 0 <= pending'.started
        /\ pending'.started <= clock /\ clock <= pending'.started + Timeout
        /\ IF pending = NoRetrieval THEN pending'.result = None ELSE pending' = pending
    <3>1. CASE pending = NoRetrieval
      <4>1. pending' = [started |-> clock, result |-> None]
        BY <1>3, <3>1 DEF AwaitKeys
      <4>2. QED
        BY <1>0, <3>1, <4>1, SnapshotAssumption, TimeAssumption
    <3>2. CASE pending # NoRetrieval
      BY <1>3, <3>2 DEF AwaitKeys, IInv, TypeOK, PendingSound
    <3>3. QED
      BY <3>1, <3>2
  <2>6. TypeOK'
    <3>1. pending' # NoRetrieval
      BY <1>0, <1>3 DEF AwaitKeys, NoRetrieval
    <3>2. QED
      BY <1>0, <2>3, <2>4, <2>5, <3>1 DEF TypeOK
  <2>7. PendingSound'
    BY <2>4, <2>5 DEF IInv, PendingSound
  <2>8. WaitingSound'
    <3> SUFFICES ASSUME NEW q \in Requests, calls'[q].stage = "waiting"
                 PROVE  /\ calls'[q].token \in Tokens /\ pending'.started <= calls'[q].asked
                        /\ calls'[q].asked <= clock'
      BY DEF WaitingSound
    <3>1. CASE q = r
      BY <1>0, <2>1, <2>2, <2>3, <2>4, <2>5, <3>1
    <3>2. CASE q # r
      BY <2>3, <2>4, <2>5, <3>2 DEF IInv, TypeOK, WaitingSound
    <3>3. QED
      BY <3>1, <3>2
  <2>9. ServedInTime'
    <3>1. \A q \in Requests : Timely(calls'[q])
      BY <2>2, <2>3, ServedInTimeByCall DEF IInv, Timely
    <3>2. QED
      BY <3>1 DEF ServedInTime, Timely, Valid
  <2>10. QED
    BY <2>4, <2>6, <2>7, <2>8, <2>9 DEF IInv, CacheSound
<1>4. QED
  BY <1>1, <1>2, <1>3 DEF Arrive

\* The response of the key server comes.
LEMMA ReceiveStep ==
    ASSUME IInv, NEW keys \in KeySets, Receive(keys)
    PROVE  IInv'
<1>1. /\ clock \in 0 .. MaxClock /\ clock \in Nat
      /\ pending \in [started: -1 .. MaxClock, result: KeySetRecords \cup {None}]
      /\ pending.started \in Nat /\ pending.started <= clock
  <2>1. /\ pending # NoRetrieval /\ clock \in 0 .. MaxClock
        /\ pending \in [started: -1 .. MaxClock, result: KeySetRecords \cup {None}]
    BY DEF Receive, IInv, TypeOK
  <2>2. pending.started \in 0 .. clock
    BY <2>1, TimeAssumption DEF IInv, PendingSound
  <2>3. QED
    BY <2>1, <2>2, TimeAssumption
<1> DEFINE Brings(sent, date, maxAge, reusable, dated, aged) ==
        /\ dated \/ aged
        /\ pending' = [pending EXCEPT !.result =
              KeySet(keys, clock,
                     clock + Freshness(HeadersOf(date, sent, maxAge, reusable, dated, aged),
                                       pending.started, clock),
                     date + maxAge)]
<1>a. PICK sent \in pending.started .. clock :
        \E date \in 0 .. sent, maxAge \in 0 .. MaxAge, reusable, dated, aged \in BOOLEAN :
           Brings(sent, date, maxAge, reusable, dated, aged)
  BY DEF Receive
<1>2. PICK date \in 0 .. sent, maxAge \in 0 .. MaxAge,
           reusable \in BOOLEAN, dated \in BOOLEAN, aged \in BOOLEAN :
        Brings(sent, date, maxAge, reusable, dated, aged)
  BY <1>a
<1> DEFINE fresh == Freshness(HeadersOf(date, sent, maxAge, reusable, dated, aged),
                              pending.started, clock)
           set == KeySet(keys, clock, clock + fresh, date + maxAge)
<1>3. fresh \in Nat /\ (fresh > 0 => clock + fresh <= date + maxAge)
  BY <1>1, <1>2, FreshnessSound
<1>4. date + maxAge \in Nat
  BY <1>1, <1>2, TimeAssumption
<1> HIDE DEF fresh
<1>5. /\ set \in KeySetRecords /\ set.received = clock
      /\ set.expires = clock + fresh /\ set.lifetime = date + maxAge
  BY <1>1, <1>3, <1>4 DEF KeySet, KeySetRecords
<1>6. pending' = [pending EXCEPT !.result = set]
  BY <1>2 DEF fresh
<1>7. Vouched(set)
  BY <1>1, <1>3, <1>5 DEF Vouched
<1> HIDE DEF set
<1>8. /\ pending' \in [started: -1 .. MaxClock, result: KeySetRecords \cup {None}]
      /\ pending'.started = pending.started /\ pending'.result = set
  BY <1>1, <1>5, <1>6
<1>9. clock' = clock /\ cached' = cached /\ calls' = calls
  BY DEF Receive
<1>10. pending # NoRetrieval /\ pending' # NoRetrieval
  BY <1>1, <1>8 DEF Receive, NoRetrieval
<1>11. TypeOK' /\ CacheSound' /\ WaitingSound' /\ ServedInTime'
  BY <1>8, <1>9, <1>10 DEF IInv, TypeOK, CacheSound, WaitingSound, ServedInTime
<1>12. PendingSound'
  BY <1>1, <1>5, <1>7, <1>8, <1>9, <1>10 DEF IInv, PendingSound
<1>13. QED
  BY <1>11, <1>12 DEF IInv

\* A retrieval that is over leaves no call waiting; those that waited are answered
\* with what it brought, or refused.
LEMMA OverStep ==
    ASSUME IInv, clock' = clock, pending' = NoRetrieval, CacheSound',
           cached' \in KeySetRecords \cup {None},
           calls' \in [Requests -> CallRecords],
           \A r \in Requests : IF calls[r].stage = "waiting"
                               THEN calls'[r].stage = "done" /\ Timely(calls'[r])
                               ELSE calls'[r] = calls[r]
    PROVE  IInv'
<1>1. \A r \in Requests : calls'[r].stage # "waiting" /\ Timely(calls'[r])
  BY ServedInTimeByCall DEF IInv
<1>2. TypeOK'
  BY <1>1, TimeAssumption DEF IInv, TypeOK, NoRetrieval
<1>3. PendingSound' /\ WaitingSound'
  BY <1>1 DEF PendingSound, WaitingSound
<1>4. ServedInTime'
  BY <1>1 DEF ServedInTime, Timely, Valid
<1>5. QED
  BY <1>2, <1>3, <1>4 DEF IInv

\* The keys land.
LEMMA LandStep ==
    ASSUME IInv, Land
    PROVE  IInv'
<1> DEFINE result == pending.result
           decided(r) == DecidedWith(calls[r].token, calls[r].asked, result)
<1>1. /\ clock \in 0 .. MaxClock /\ clock \in Nat /\ pending # NoRetrieval
      /\ result \in KeySetRecords /\ result # None
      /\ pending.started \in Int /\ pending.started <= result.received
      /\ result.received <= clock /\ clock <= pending.started + Timeout
      /\ Vouched(result)
  BY TimeAssumption DEF Land, IInv, TypeOK, PendingSound
<1>2. result.received \in Nat /\ result.expires \in Nat /\ result.lifetime \in Nat
  BY <1>1, TimeAssumption DEF KeySetRecords
<1> HIDE DEF result
<1>3. /\ clock' = clock /\ pending' = NoRetrieval
      /\ cached' = IF clock < result.expires THEN result ELSE cached
      /\ calls' = [r \in Requests |->
            IF calls[r].stage = "waiting" THEN decided(r) ELSE calls[r]]
  BY DEF Land, result
<1>4. ASSUME NEW r \in Requests, calls[r].stage = "waiting"
      PROVE  decided(r) \in CallRecords /\ decided(r).stage = "done" /\ Timely(decided(r))
  <2>1. /\ calls[r].token \in Tokens /\ calls[r].asked \in 0 .. MaxClock
        /\ calls[r].asked \in Nat /\ pending.started <= calls[r].asked
    BY <1>4, TimeAssumption DEF IInv, TypeOK, CallRecords, WaitingSound
  <2>2. /\ decided(r) \in CallRecords /\ decided(r).stage = "done"
        /\ decided(r).status = 200 =>
              /\ decided(r).used = result /\ decided(r).token = calls[r].token
              /\ decided(r).asked = calls[r].asked /\ decided(r).answered = clock
              /\ Valid(calls[r].token, calls[r].asked, result)
    BY <1>1, <2>1, DecidedWithKeys
  <2> HIDE DEF decided
  <2>3. clock <= calls[r].asked + Timeout /\ clock <= result.received + Timeout
    BY <1>1, <1>2, <2>1, SnapshotAssumption
  <2>4. QED
    BY <2>2, <2>3 DEF Timely
<1> HIDE DEF decided
<1>5. calls' \in [Requests -> CallRecords]
  BY <1>3, <1>4 DEF IInv, TypeOK
<1>6. CacheSound'
  BY <1>1, <1>2, <1>3 DEF IInv, CacheSound, Vouched
<1>7. cached' \in KeySetRecords \cup {None}
  BY <1>1, <1>3 DEF IInv, TypeOK
<1>8. QED
  BY <1>3, <1>4, <1>5, <1>6, <1>7, OverStep

\* A retrieval fails or times out.
LEMMA AbandonStep ==
    ASSUME IInv, Abandon
    PROVE  IInv'
<1> DEFINE refused(r) == Answered(calls[r].token, calls[r].asked, 403, NoKeys)
<1>1. /\ clock' = clock /\ cached' = cached /\ pending' = NoRetrieval
      /\ calls' = [r \in Requests |->
            IF calls[r].stage = "waiting" THEN refused(r) ELSE calls[r]]
  BY DEF Abandon
<1>2. ASSUME NEW r \in Requests
      PROVE  refused(r) \in CallRecords /\ refused(r).stage = "done" /\ Timely(refused(r))
  <2>1. /\ calls[r].token \in Tokens \cup {None} /\ calls[r].asked \in 0 .. MaxClock
        /\ clock \in 0 .. MaxClock
    BY DEF IInv, TypeOK, CallRecords
  <2>2. refused(r) \in CallRecords /\ refused(r).stage = "done" /\ refused(r).status = 403
    <3>1. \A t \in Tokens \cup {None}, asked \in 0 .. MaxClock :
            LET d == Answered(t, asked, 403, NoKeys)
            IN  d \in CallRecords /\ d.stage = "done" /\ d.status = 403
      BY <2>1, AnsweredType, NoKeysType
    <3>2. QED
      BY <2>1, <3>1
  <2> HIDE DEF refused
  <2>3. QED
    BY <2>2 DEF Timely
<1> HIDE DEF refused
<1>3. calls' \in [Requests -> CallRecords]
  BY <1>1, <1>2 DEF IInv, TypeOK
<1>4. CacheSound' /\ cached' \in KeySetRecords \cup {None}
  BY <1>1 DEF IInv, CacheSound, TypeOK
<1>5. QED
  BY <1>1, <1>2, <1>3, <1>4, OverStep

\* A second passes, but not over a timer that is due.
LEMMA TickStep ==
    ASSUME IInv, Tick
    PROVE  IInv'
<1>1. /\ clock \in Nat /\ clock' = clock + 1 /\ clock' \in 0 .. MaxClock
      /\ cached' = cached /\ pending' = pending /\ calls' = calls
  BY TimeAssumption DEF Tick, IInv, TypeOK
<1>2. TypeOK' /\ ServedInTime'
  BY <1>1 DEF IInv, TypeOK, ServedInTime
<1>3. CacheSound'
  BY <1>1, TimeAssumption DEF IInv, TypeOK, CacheSound, KeySetRecords
<1>4. PendingSound'
  <2> SUFFICES ASSUME pending # NoRetrieval
               PROVE  PendingSound'
    BY <1>1 DEF PendingSound
  <2>1. pending.started \in Int /\ ~(clock >= pending.started + Timeout)
    BY DEF Tick, Overdue, IInv, TypeOK
  <2>2. clock + 1 <= pending.started + Timeout
    BY <1>1, <2>1, SnapshotAssumption
  <2>3. pending.result # None => pending.result.received \in Nat
    BY TimeAssumption DEF IInv, TypeOK, KeySetRecords
  <2>4. QED
    BY <1>1, <2>1, <2>2, <2>3 DEF IInv, PendingSound
<1>5. WaitingSound'
  <2>1. \A r \in Requests : calls[r].asked \in Int
    BY DEF IInv, TypeOK, CallRecords
  <2>2. QED
    BY <1>1, <2>1 DEF IInv, WaitingSound
<1>6. QED
  BY <1>2, <1>3, <1>4, <1>5 DEF IInv

\* The invariant is inductive.
LEMMA Inductive == IInv /\ [Next]_vars => IInv'
<1> SUFFICES ASSUME IInv, [Next]_vars
             PROVE  IInv'
  OBVIOUS
<1>1. ASSUME NEW r \in Requests, NEW request, NEW t \in Tokens \cup {None},
             Arrive(r, request, t)
      PROVE  IInv'
  BY <1>1, ArriveStep
<1>2. ASSUME NEW keys \in KeySets, Receive(keys)
      PROVE  IInv'
  BY <1>2, ReceiveStep
<1>3. CASE Land
  BY <1>3, LandStep
<1>4. CASE FetchFails \/ TimesOut
  BY <1>4, AbandonStep DEF FetchFails, TimesOut
<1>5. CASE Tick
  BY <1>5, TickStep
<1>6. CASE UNCHANGED vars
  BY <1>6 DEF vars, IInv, TypeOK, CacheSound, PendingSound, WaitingSound, ServedInTime
<1>7. QED
  BY <1>1, <1>2, <1>3, <1>4, <1>5, <1>6 DEF Next

\* Every reachable state is well typed, and whoever waits waits for a retrieval
\* that is going on.
THEOREM TypeCorrect == Spec => []TypeOK
<1>1. IInv => TypeOK
  BY DEF IInv
<1>2. QED
  BY <1>1, Initially, Inductive, PTL DEF Spec

\* Every snapshot that is served was paid for in time, whatever the delays.
THEOREM ServedContexts == Spec => []ServedInTime
<1>1. IInv => ServedInTime
  BY DEF IInv
<1>2. QED
  BY <1>1, Initially, Inductive, PTL DEF Spec

=============================================================================
