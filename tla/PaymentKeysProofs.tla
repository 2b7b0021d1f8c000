------------------------- MODULE PaymentKeysProofs -------------------------
(***************************************************************************)
(* Proofs about PaymentKeys, for every number of callers and every bound.  *)
(* The invariants are proved in layers, each from the ones before: types,  *)
(* who leads which flight, what the cache and the flights hold, and what   *)
(* calls return.                                                           *)
(***************************************************************************)
EXTENDS PaymentKeys, TLAPS

-----------------------------------------------------------------------------
(* Freshness                                                               *)

\* The freshness of a response is a natural number.
LEMMA FreshnessType ==
    ASSUME NEW h \in Headers, NEW started \in Nat, NEW received \in Nat
    PROVE  Freshness(h, started, received) \in Nat
<1>1. h.maxAge \in Int /\ h.age \in Int /\ h.date \in Int
  BY TimeAssumption DEF Headers
<1>2. QED
  BY <1>1 DEF Freshness, Larger

\* Headers that a server or a cache on the way writes are well-formed.
LEMMA HeadersType ==
    ASSUME NEW date \in Nat, NEW sent \in 0 .. MaxClock, date <= sent,
           NEW maxAge \in 0 .. MaxAge,
           NEW reusable \in BOOLEAN, NEW dated \in BOOLEAN, NEW aged \in BOOLEAN
    PROVE  HeadersOf(date, sent, maxAge, reusable, dated, aged) \in Headers
BY TimeAssumption DEF HeadersOf, Headers

\* Keys that can be reused at all expire no later than the server that made
\* them says: the age the resolver computes is never below their true age.
THEOREM FreshnessSound ==
    ASSUME NEW started \in Nat, NEW received \in Nat,
           NEW sent \in started .. received, NEW date \in 0 .. sent,
           NEW maxAge \in 0 .. MaxAge,
           NEW reusable \in BOOLEAN, NEW dated \in BOOLEAN, NEW aged \in BOOLEAN,
           dated \/ aged
    PROVE  LET h == HeadersOf(date, sent, maxAge, reusable, dated, aged)
               fresh == Freshness(h, started, received)
           IN  fresh \in Nat /\ (fresh > 0 => received + fresh <= date + maxAge)
<1> DEFINE h == HeadersOf(date, sent, maxAge, reusable, dated, aged)
<1>1. /\ h.reusable = reusable /\ h.maxAge = maxAge /\ h.dated = dated /\ h.date = date
      /\ h.age = IF aged THEN sent - date ELSE 0
  BY DEF HeadersOf
<1> HIDE DEF h
<1>2. maxAge \in Nat /\ sent \in Nat /\ date \in Nat
  BY TimeAssumption
<1>3. QED
  BY <1>1, <1>2 DEF Freshness, Larger, h

-----------------------------------------------------------------------------
(* Types                                                                   *)

\* Every step of a thread, and every second that passes, keeps the types.
LEMMA TypeStep == TypeOK /\ [Next]_vars => TypeOK'
<1> SUFFICES ASSUME TypeOK, [Next]_vars
             PROVE  TypeOK'
  OBVIOUS
<1> USE BoundsAssumption, TimeAssumption DEF Flights, NoFlight
<1>1. CASE Tick
  BY <1>1 DEF Tick, TypeOK
<1>2. ASSUME NEW t \in Callers, ReturnCached(t)
      PROVE  TypeOK'
  BY <1>2 DEF ReturnCached, TypeOK, CacheFresh, Answers
<1>3. ASSUME NEW t \in Callers, Join(t)
      PROVE  TypeOK'
  BY <1>3 DEF Join, TypeOK, Answers
<1>4. ASSUME NEW t \in Callers, Lead(t)
      PROVE  TypeOK'
  BY <1>4 DEF Lead, TypeOK, Answers, Leading, NewFlight, FlightRecords
<1>5. ASSUME NEW t \in Callers, Send(t)
      PROVE  TypeOK'
  BY <1>5 DEF Send, TypeOK, Leading
<1>6. ASSUME NEW t \in Callers, Receive(t)
      PROVE  TypeOK'
  <2>1. PICK sent \in sentAt[t] .. clock :
          \E date \in 0 .. sent, maxAge \in 0 .. MaxAge, reusable, dated, aged \in BOOLEAN :
             Accept(t, HeadersOf(date, sent, maxAge, reusable, dated, aged), date + maxAge)
    BY <1>6 DEF Receive
  <2>2. PICK date \in 0 .. sent, maxAge \in 0 .. MaxAge, reusable \in BOOLEAN,
             dated \in BOOLEAN, aged \in BOOLEAN :
          Accept(t, HeadersOf(date, sent, maxAge, reusable, dated, aged), date + maxAge)
    BY <2>1
  <2> DEFINE h == HeadersOf(date, sent, maxAge, reusable, dated, aged)
             fresh == Freshness(h, sentAt[t], clock)
  <2>3. sentAt[t] \in Nat /\ clock \in Nat /\ sent \in 0 .. MaxClock /\ date \in Nat
        /\ date <= sent /\ maxAge \in Nat
    BY <2>1, <2>2 DEF TypeOK
  <2>4. h \in Headers
    BY <2>3, HeadersType
  <2>5. fresh \in Nat
    BY <2>3, <2>4, FreshnessType
  <2> DEFINE landed == [state |-> "ok", done |-> FALSE, received |-> clock,
                        expires |-> clock + fresh, lifetime |-> date + maxAge,
                        lost |-> FALSE]
  <2>6. flights' = [flights EXCEPT ![on[t]] = landed]
    BY <2>2 DEF Accept
  <2> HIDE DEF fresh
  <2>7. landed \in FlightRecords
    BY <2>3, <2>5 DEF FlightRecords, Outcomes
  <2> HIDE DEF landed
  <2>8. flights' \in [Flights -> FlightRecords]
    BY <2>6, <2>7 DEF TypeOK
  <2>9. QED
    BY <1>6, <2>8 DEF Receive, TypeOK, Leading
<1>7. ASSUME NEW t \in Callers, Fail(t)
      PROVE  TypeOK'
  <2>1. PICK state \in {"failed", "interrupted"} :
          flights' = [flights EXCEPT ![on[t]] = NewFlight(state)]
    BY <1>7 DEF Fail
  <2>2. NewFlight(state) \in FlightRecords
    BY DEF NewFlight, FlightRecords, Outcomes
  <2>3. flights' \in [Flights -> FlightRecords]
    BY <2>1, <2>2 DEF TypeOK
  <2>4. QED
    BY <1>7, <2>3 DEF Fail, TypeOK, Leading
<1>8. ASSUME NEW t \in Callers, Publish(t)
      PROVE  TypeOK'
  BY <1>8 DEF Publish, TypeOK, Leading
<1>9. ASSUME NEW t \in Callers, Signal(t)
      PROVE  TypeOK'
  <2>1. flights' = [flights EXCEPT ![on[t]] = [flights[on[t]] EXCEPT !.done = TRUE]]
    BY <1>9 DEF Signal
  <2>2. flights' \in [Flights -> FlightRecords]
    BY <2>1 DEF TypeOK, FlightRecords
  <2>3. answer' \in [Callers -> Answers]
    BY <1>9 DEF Signal, TypeOK, Answers, Landed
  <2>4. QED
    BY <1>9, <2>2, <2>3 DEF Signal, TypeOK
<1>10. ASSUME NEW t \in Callers, Wake(t) \/ GiveUp(t)
       PROVE  TypeOK'
  <2>0. Landed(on[t]) \in Answers /\ NoFlight \in Answers
    BY DEF TypeOK, Answers, Landed
  <2>1. answer' \in [Callers -> Answers]
    BY <1>10, <2>0 DEF Wake, GiveUp, TypeOK
  <2>2. CASE Wake(t)
    BY <2>1, <2>2 DEF Wake, TypeOK
  <2>3. CASE GiveUp(t)
    BY <2>1, <2>3 DEF GiveUp, TypeOK
  <2>4. QED
    BY <1>10, <2>2, <2>3
<1>11. ASSUME NEW t \in Callers, Strand(t)
       PROVE  TypeOK'
  <2>1. flights' = [flights EXCEPT ![on[t]] = [flights[on[t]] EXCEPT !.lost = TRUE]]
    BY <1>11 DEF Strand
  <2>2. flights' \in [Flights -> FlightRecords]
    BY <2>1 DEF TypeOK, FlightRecords
  <2>3. NoFlight \in Answers
    BY DEF Answers
  <2>4. answer' \in [Callers -> Answers]
    BY <1>11, <2>3 DEF Strand, TypeOK
  <2>5. QED
    BY <1>11, <2>2, <2>4 DEF Strand, TypeOK
<1>12. CASE UNCHANGED vars
  BY <1>12 DEF vars, TypeOK
<1>13. QED
  BY <1>1, <1>2, <1>3, <1>4, <1>5, <1>6, <1>7, <1>8, <1>9, <1>10, <1>11, <1>12
     DEF Next, Call, LeaderStep, WaiterStep

\* Every variable keeps its type.
THEOREM TypeCorrect == Spec => []TypeOK
<1>1. Init => TypeOK
  BY BoundsAssumption, TimeAssumption DEF Init, TypeOK, NewFlight, FlightRecords, Answers, NoFlight
<1>2. QED
  BY <1>1, TypeStep, PTL DEF Spec

-----------------------------------------------------------------------------
(* Who leads which flight                                                  *)

\* A thread that retrieves leads the current flight, which is the last one
\* launched, and its flight is pending until the answer is there; flights that
\* were not launched are unused.
FlightOrder ==
    /\ \A t \in Callers : Retrieving(t) => current # NoFlight /\ on[t] = current
    /\ \A t \in Callers : pc[t] \in {"leading", "fetching"} =>
          flights[on[t]].state = "pending"
    /\ current # NoFlight => current = launched
    /\ \A f \in Flights : f > launched => flights[f].state = "unused"
    /\ \A t \in Callers : pc[t] # "idle" => on[t] \in 1 .. launched
    /\ \A t \in Callers : Retrieving(t) => ~flights[on[t]].lost
    /\ \A t \in Callers : pc[t] = "signalling" => on[t] # current

LeaderInv == OneRetrieval /\ FlightOrder

\* Every step keeps the retrieval with its leader, and flights in their order.
LEMMA LeaderStepInv == TypeOK /\ LeaderInv /\ [Next]_vars => LeaderInv'
<1> SUFFICES ASSUME TypeOK, LeaderInv, [Next]_vars
             PROVE  LeaderInv'
  OBVIOUS
<1> USE BoundsAssumption, TimeAssumption DEF NoFlight, TypeOK, LeaderInv, OneRetrieval, FlightOrder,
                             Retrieving
<1>1. CASE Tick
  BY <1>1 DEF Tick
<1>2. ASSUME NEW t \in Callers, ReturnCached(t)
      PROVE  LeaderInv'
  BY <1>2 DEF ReturnCached
<1>3. ASSUME NEW t \in Callers, Join(t)
      PROVE  LeaderInv'
  BY <1>3 DEF Join, Flights
<1>4. ASSUME NEW t \in Callers, Lead(t)
      PROVE  LeaderInv'
  <2>1. launched + 1 \in Flights /\ launched' = launched + 1 /\ current' = launched + 1
    BY <1>4 DEF Lead, Flights
  <2>2. \A s \in Callers : ~Retrieving(s)
    BY <1>4 DEF Lead
  <2>3. /\ flights' = [flights EXCEPT ![launched + 1] = NewFlight("pending")]
        /\ on' = [on EXCEPT ![t] = launched + 1] /\ pc' = [pc EXCEPT ![t] = "leading"]
    BY <1>4 DEF Lead
  <2>4. flights'[launched + 1].state = "pending" /\ ~flights'[launched + 1].lost
    BY <2>1, <2>3 DEF NewFlight
  <2>5. OneRetrieval'
    BY <2>1, <2>2, <2>3, <2>4
  <2>6. \A s \in Callers : s # t => pc'[s] = pc[s] /\ on'[s] = on[s]
    BY <2>3
  <2>7. pc'[t] = "leading" /\ on'[t] = launched + 1
    BY <2>3
  <2>8. \A f \in Flights : f # launched + 1 => flights'[f] = flights[f]
    BY <2>3
  <2>9. \A s \in Callers : s # t /\ pc[s] # "idle" => on[s] \in Flights /\ on[s] # launched + 1
    BY DEF Flights
  <2>10. \A s \in Callers : Retrieving(s)' => s = t
    BY <2>2, <2>6
  <2>11. \A s \in Callers : Retrieving(s)' =>
           /\ current' # NoFlight /\ on'[s] = current' /\ ~flights'[on'[s]].lost
    BY <2>1, <2>4, <2>7, <2>10
  <2>12. \A s \in Callers : pc'[s] \in {"leading", "fetching"} => flights'[on'[s]].state = "pending"
    BY <2>4, <2>7, <2>10
  <2>13. current' # NoFlight => current' = launched'
    BY <2>1
  <2>14. \A f \in Flights : f > launched' => flights'[f].state = "unused"
    BY <2>1, <2>8 DEF Flights
  <2>15. \A s \in Callers : pc'[s] # "idle" => on'[s] \in 1 .. launched'
    BY <2>1, <2>6, <2>7
  <2>16. \A s \in Callers : pc'[s] = "signalling" => on'[s] # current'
    BY <2>1, <2>6, <2>7, <2>9
  <2>17. FlightOrder'
    BY <2>11, <2>12, <2>13, <2>14, <2>15, <2>16
  <2>18. QED
    BY <2>5, <2>17
<1>5. ASSUME NEW t \in Callers, Send(t)
      PROVE  LeaderInv'
  BY <1>5 DEF Send
<1>6. ASSUME NEW t \in Callers, Receive(t)
      PROVE  LeaderInv'
  BY <1>6 DEF Receive, Accept
<1>7. ASSUME NEW t \in Callers, Fail(t)
      PROVE  LeaderInv'
  BY <1>7 DEF Fail, NewFlight
<1>8. ASSUME NEW t \in Callers, Publish(t)
      PROVE  LeaderInv'
  BY <1>8 DEF Publish
<1>9. ASSUME NEW t \in Callers, Signal(t)
      PROVE  LeaderInv'
  BY <1>9 DEF Signal
<1>10. ASSUME NEW t \in Callers, Wake(t) \/ GiveUp(t)
       PROVE  LeaderInv'
  BY <1>10 DEF Wake, GiveUp
<1>11. ASSUME NEW t \in Callers, Strand(t)
       PROVE  LeaderInv'
  BY <1>11 DEF Strand
<1>12. CASE UNCHANGED vars
  BY <1>12 DEF vars
<1>13. QED
  BY <1>1, <1>2, <1>3, <1>4, <1>5, <1>6, <1>7, <1>8, <1>9, <1>10, <1>11, <1>12
     DEF Next, Call, LeaderStep, WaiterStep

\* One retrieval at a time: whoever retrieves leads the current flight.
THEOREM LeaderCorrect == Spec => []LeaderInv
<1>1. Init => LeaderInv
  BY BoundsAssumption, TimeAssumption DEF Init, LeaderInv, OneRetrieval, FlightOrder, Retrieving, NewFlight,
                          Flights, NoFlight
<1>2. QED
  BY <1>1, LeaderStepInv, TypeCorrect, PTL DEF Spec

\* Any number of threads share one retrieval: unless an interrupt lost it, `_flight`
\* names one exactly while one thread, its leader, retrieves, and no other does.
THEOREM SharedRetrieval == Spec => []OneRetrieval
  BY LeaderCorrect, PTL DEF LeaderInv

\* A flight that was launched has one leader until its `done` is set, unless an
\* interrupt lost it, and never two; the leader of an older flight may still be
\* signalling it.
LedInv ==
    /\ \A f \in 1 .. launched : ~flights[f].done /\ ~flights[f].lost =>
          \E s \in Callers : pc[s] \in Leading /\ on[s] = f
    /\ \A t, s \in Callers :
          pc[t] \in Leading /\ pc[s] \in Leading /\ on[t] = on[s] => t = s

\* Every step keeps the flights with their leaders.
LEMMA LedStep == TypeOK /\ LeaderInv /\ LedInv /\ [Next]_vars => LedInv'
<1> SUFFICES ASSUME TypeOK, LeaderInv, LedInv, [Next]_vars
             PROVE  LedInv'
  OBVIOUS
<1> USE BoundsAssumption, TimeAssumption DEF NoFlight, TypeOK, LeaderInv, FlightOrder, LedInv, Leading
<1>1. CASE Tick
  BY <1>1 DEF Tick
<1>2. ASSUME NEW t \in Callers, ReturnCached(t)
      PROVE  LedInv'
  BY <1>2 DEF ReturnCached
<1>3. ASSUME NEW t \in Callers, Join(t)
      PROVE  LedInv'
  BY <1>3 DEF Join, Flights
<1>4. ASSUME NEW t \in Callers, Lead(t)
      PROVE  LedInv'
  BY <1>4 DEF Lead, NewFlight, Flights
<1>5. ASSUME NEW t \in Callers, Send(t)
      PROVE  LedInv'
  BY <1>5 DEF Send
<1>6. ASSUME NEW t \in Callers, Receive(t)
      PROVE  LedInv'
  BY <1>6 DEF Receive, Accept, Flights
<1>7. ASSUME NEW t \in Callers, Fail(t)
      PROVE  LedInv'
  BY <1>7 DEF Fail, NewFlight, Flights
<1>8. ASSUME NEW t \in Callers, Publish(t)
      PROVE  LedInv'
  BY <1>8 DEF Publish
<1>9. ASSUME NEW t \in Callers, Signal(t)
      PROVE  LedInv'
  BY <1>9 DEF Signal, Flights
<1>10. ASSUME NEW t \in Callers, Wake(t) \/ GiveUp(t)
       PROVE  LedInv'
  BY <1>10 DEF Wake, GiveUp
<1>11. ASSUME NEW t \in Callers, Strand(t)
       PROVE  LedInv'
  BY <1>11 DEF Strand, Flights
<1>12. CASE UNCHANGED vars
  BY <1>12 DEF vars
<1>13. QED
  BY <1>1, <1>2, <1>3, <1>4, <1>5, <1>6, <1>7, <1>8, <1>9, <1>10, <1>11, <1>12
     DEF Next, Call, LeaderStep, WaiterStep

\* Nobody waits for a flight that was given up, unless an interrupt met its leader
\* where no `finally` ends it: until its `done` is set, also after an error, an
\* interrupt of the fetch or the end of the flight (Publish), the thread that leads
\* it is still in its call; what it leads is never led by two.
WaitersAreLed ==
    /\ \A t \in Callers :
          pc[t] = "waiting" /\ ~flights[on[t]].done /\ ~flights[on[t]].lost =>
             \E s \in Callers : pc[s] \in Leading /\ on[s] = on[t]
    /\ \A t, s \in Callers :
          pc[t] \in Leading /\ pc[s] \in Leading /\ on[t] = on[s] => t = s

\* No thread is left waiting for a flight nobody leads, for any number of threads
\* and flights: what joined a retrieval is released by the thread that leads it, as
\* long as no interrupt meets that thread outside its `try`.
THEOREM NobodyLeftWaiting == Spec => []WaitersAreLed
<1>1. Init => LedInv
  BY DEF Init, LedInv, Leading
<1>2. TypeOK /\ LeaderInv /\ LedInv => WaitersAreLed
  BY DEF TypeOK, LeaderInv, FlightOrder, LedInv, WaitersAreLed
<1>3. QED
  BY <1>1, <1>2, LedStep, LeaderCorrect, TypeCorrect, PTL DEF Spec

-----------------------------------------------------------------------------
(* What the cache and the flights hold                                     *)

\* The cache holds keys of a retrieval that succeeded, and the expiry of every
\* successful retrieval is within the lifetime of its keys.
CacheInv ==
    /\ cached # NoFlight => flights[cached].state = "ok"
    /\ \A f \in Flights : flights[f].state = "ok" =>
          /\ flights[f].received <= clock
          /\ flights[f].expires > flights[f].received =>
                flights[f].expires <= flights[f].lifetime

\* Every step keeps what is known of the cache and of finished retrievals.
LEMMA CacheStep == TypeOK /\ LeaderInv /\ CacheInv /\ [Next]_vars => CacheInv'
<1> SUFFICES ASSUME TypeOK, LeaderInv, CacheInv, [Next]_vars
             PROVE  CacheInv'
  OBVIOUS
<1> USE BoundsAssumption, TimeAssumption DEF NoFlight, TypeOK, CacheInv
<1>1. CASE Tick
  BY <1>1 DEF Tick, FlightRecords
<1>2. ASSUME NEW t \in Callers, ReturnCached(t) \/ Join(t) \/ Send(t) \/ Wake(t) \/ GiveUp(t)
      PROVE  CacheInv'
  BY <1>2 DEF ReturnCached, Join, Send, Wake, GiveUp
<1>3. ASSUME NEW t \in Callers, Lead(t)
      PROVE  CacheInv'
  BY <1>3 DEF Lead, NewFlight
<1>4. ASSUME NEW t \in Callers, Receive(t)
      PROVE  CacheInv'
  <2>1. PICK sent \in sentAt[t] .. clock :
          \E date \in 0 .. sent, maxAge \in 0 .. MaxAge, reusable, dated, aged \in BOOLEAN :
             /\ dated \/ aged
             /\ Accept(t, HeadersOf(date, sent, maxAge, reusable, dated, aged), date + maxAge)
    BY <1>4 DEF Receive
  <2>2. PICK date \in 0 .. sent, maxAge \in 0 .. MaxAge, reusable \in BOOLEAN,
             dated \in BOOLEAN, aged \in BOOLEAN :
          /\ dated \/ aged
          /\ Accept(t, HeadersOf(date, sent, maxAge, reusable, dated, aged), date + maxAge)
    BY <2>1
  <2> DEFINE fresh == Freshness(HeadersOf(date, sent, maxAge, reusable, dated, aged),
                                sentAt[t], clock)
             landed == [state |-> "ok", done |-> FALSE, received |-> clock,
                        expires |-> clock + fresh, lifetime |-> date + maxAge,
                        lost |-> FALSE]
  <2>3. sentAt[t] \in Nat /\ clock \in Nat
    OBVIOUS
  <2>4. fresh \in Nat /\ (fresh > 0 => clock + fresh <= date + maxAge)
    BY <2>2, <2>3, FreshnessSound
  <2>5. flights' = [flights EXCEPT ![on[t]] = landed]
    BY <2>2 DEF Accept
  <2> HIDE DEF fresh
  <2>6. /\ landed.state = "ok" /\ landed.received = clock
        /\ landed.expires > landed.received => landed.expires <= landed.lifetime
    BY <2>3, <2>4
  <2> HIDE DEF landed
  <2>7. \A f \in Flights : flights'[f] = landed \/ flights'[f] = flights[f]
    BY <2>5
  <2>8. clock' = clock /\ cached' = cached
    BY <1>4 DEF Receive
  <2>9. QED
    BY <2>3, <2>6, <2>7, <2>8
<1>5. ASSUME NEW t \in Callers, Fail(t)
      PROVE  CacheInv'
  <2>1. flights[on[t]].state = "pending"
    BY <1>5 DEF Fail, LeaderInv, FlightOrder
  <2>2. cached # on[t] \/ cached = NoFlight
    BY <2>1
  <2>3. QED
    BY <1>5, <2>2 DEF Fail, NewFlight
<1>6. ASSUME NEW t \in Callers, Publish(t)
      PROVE  CacheInv'
  BY <1>6 DEF Publish
<1>7. ASSUME NEW t \in Callers, Signal(t)
      PROVE  CacheInv'
  BY <1>7 DEF Signal, FlightRecords
<1>8. ASSUME NEW t \in Callers, Strand(t)
      PROVE  CacheInv'
  BY <1>8 DEF Strand, FlightRecords
<1>9. CASE UNCHANGED vars
  BY <1>9 DEF vars
<1>10. QED
  BY <1>1, <1>2, <1>3, <1>4, <1>5, <1>6, <1>7, <1>8, <1>9 DEF Next, Call, LeaderStep, WaiterStep

\* What the cache holds is a finished retrieval, and its expiry is never later
\* than the end of the lifetime its server gave it.
THEOREM CacheCorrect == Spec => []CacheInv
<1>1. Init => CacheInv
  BY DEF Init, CacheInv, NewFlight
<1>2. QED
  BY <1>1, CacheStep, TypeCorrect, LeaderCorrect, PTL DEF Spec

\* Cached keys are used only while the server that made them vouches for them.
THEOREM CacheLifetime == Spec => []CacheWithinLifetime
<1>1. TypeOK /\ CacheInv => CacheWithinLifetime
  BY BoundsAssumption, TimeAssumption DEF TypeOK, CacheInv, CacheWithinLifetime, CacheFresh, FlightRecords
<1>2. QED
  BY <1>1, CacheCorrect, TypeCorrect, PTL

\* The cache is only ever replaced by the keys of the latest retrieval.
THEOREM CacheForward == Spec => CacheMovesForward
<1> DEFINE Forward == cached' # NoFlight /\ cached' # cached =>
                        \A f \in Flights : flights[f].state = "ok" => f <= cached'
<1>1. TypeOK /\ LeaderInv /\ [Next]_vars => [Forward]_vars
  <2> SUFFICES ASSUME TypeOK, LeaderInv, Next, cached' # NoFlight, cached' # cached,
                      NEW f \in Flights, flights[f].state = "ok"
               PROVE  f <= cached'
    OBVIOUS
  <2>1. PICK t \in Callers : /\ Publish(t) \/ Strand(t)
                            /\ pc[t] = "publishing" /\ cached' = on[t]
    BY DEF Publish, Strand, Next, Call, LeaderStep, WaiterStep, Tick, ReturnCached, Join, Lead, Send,
           Receive, Fail, Signal, Wake, GiveUp
  <2>2. cached' = launched
    BY <2>1 DEF LeaderInv, FlightOrder, Retrieving
  <2>3. ~(f > launched)
    BY DEF LeaderInv, FlightOrder
  <2>4. QED
    BY <2>2, <2>3, BoundsAssumption, TimeAssumption DEF TypeOK, Flights
<1>2. QED
  BY <1>1, TypeCorrect, LeaderCorrect, PTL DEF Spec, CacheMovesForward

-----------------------------------------------------------------------------
(* What calls return                                                       *)

\* Every step keeps what is known of the answers of calls.
LEMMA AnswerStep ==
    TypeOK /\ LeaderInv /\ CacheInv /\ NoFallback /\ [Next]_vars => NoFallback'
<1> SUFFICES ASSUME TypeOK, LeaderInv, CacheInv, NoFallback, [Next]_vars
             PROVE  NoFallback'
  OBVIOUS
<1> USE DEF TypeOK, NoFallback, NoFlight
<1>1. \A c \in Callers : answer[c] # NoFlight => answer[c] \in Flights
  BY DEF Answers
<1>2. CASE Tick
  BY <1>2 DEF Tick
<1>3. ASSUME NEW t \in Callers, ReturnCached(t)
      PROVE  NoFallback'
  BY <1>3 DEF ReturnCached, CacheFresh, CacheInv
<1>4. ASSUME NEW t \in Callers, Join(t)
      PROVE  NoFallback'
  BY <1>4 DEF Join
<1>5. ASSUME NEW t \in Callers, Lead(t)
      PROVE  NoFallback'
  <2>1. launched + 1 \in Flights /\ flights[launched + 1].state = "unused"
    BY <1>5, BoundsAssumption, TimeAssumption DEF Lead, Flights, LeaderInv, FlightOrder
  <2>2. \A f \in Flights : flights[f].state = "ok" => flights'[f] = flights[f]
    BY <1>5, <2>1 DEF Lead
  <2>3. QED
    BY <1>1, <1>5, <2>2 DEF Lead
<1>6. ASSUME NEW t \in Callers, Send(t)
      PROVE  NoFallback'
  BY <1>6 DEF Send
<1>7. ASSUME NEW t \in Callers, Receive(t) \/ Fail(t)
      PROVE  NoFallback'
  <2>1. flights[on[t]].state = "pending"
    BY <1>7 DEF Receive, Fail, LeaderInv, FlightOrder
  <2>2. \A f \in Flights : flights[f].state = "ok" => flights'[f] = flights[f]
    BY <1>7, <2>1 DEF Receive, Fail, Accept
  <2>3. QED
    BY <1>1, <1>7, <2>2 DEF Receive, Fail
<1>8. ASSUME NEW t \in Callers, Publish(t)
      PROVE  NoFallback'
  BY <1>8 DEF Publish
<1>9. ASSUME NEW t \in Callers, Signal(t)
      PROVE  NoFallback'
  <2>1. \A f \in Flights : /\ flights'[f].state = flights[f].state
                           /\ flights'[f].expires = flights[f].expires
    BY <1>9 DEF Signal, FlightRecords
  <2>2. on[t] \in Flights
    BY <1>9, BoundsAssumption, TimeAssumption DEF Signal, LeaderInv, FlightOrder, Flights
  <2>3. QED
    <3> SUFFICES ASSUME NEW c \in Callers, answer'[c] # NoFlight
                 PROVE  /\ flights'[answer'[c]].state = "ok"
                        /\ \/ answer'[c] = on'[c]
                           \/ /\ on'[c] = NoFlight
                              /\ entered'[c] < flights'[answer'[c]].expires
      OBVIOUS
    <3>1. on' = on /\ entered' = entered
      BY <1>9 DEF Signal
    <3>2. CASE c = t
      <4>1. answer'[c] = Landed(on[t])
        BY <1>9, <3>2 DEF Signal
      <4>2. flights[on[t]].state = "ok" /\ answer'[c] = on[t]
        BY <4>1 DEF Landed
      <4>3. QED
        BY <2>1, <2>2, <3>1, <3>2, <4>2 DEF Flights
    <3>3. CASE c # t
      <4>1. answer'[c] = answer[c]
        BY <1>9, <3>3 DEF Signal
      <4>2. QED
        BY <1>1, <2>1, <3>1, <4>1
    <3>4. QED
      BY <3>2, <3>3
<1>10. ASSUME NEW t \in Callers, Wake(t)
       PROVE  NoFallback'
  <2>1. on[t] \in Flights
    BY <1>10, BoundsAssumption, TimeAssumption DEF Wake, LeaderInv, FlightOrder, Flights
  <2>2. QED
    <3> SUFFICES ASSUME NEW c \in Callers, answer'[c] # NoFlight
                 PROVE  /\ flights[answer'[c]].state = "ok"
                        /\ \/ answer'[c] = on[c]
                           \/ /\ on[c] = NoFlight
                              /\ entered[c] < flights[answer'[c]].expires
      BY <1>10 DEF Wake
    <3>1. CASE c = t
      <4>1. answer'[c] = Landed(on[t])
        BY <1>10, <3>1 DEF Wake
      <4>2. flights[on[t]].state = "ok" /\ answer'[c] = on[t]
        BY <4>1 DEF Landed
      <4>3. QED
        BY <2>1, <3>1, <4>2 DEF Flights
    <3>2. CASE c # t
      BY <1>10, <3>2 DEF Wake
    <3>3. QED
      BY <3>1, <3>2
<1>11. ASSUME NEW t \in Callers, GiveUp(t) \/ Strand(t)
       PROVE  NoFallback'
  <2>1. \A f \in Flights : /\ flights'[f].state = flights[f].state
                           /\ flights'[f].expires = flights[f].expires
    BY <1>11 DEF GiveUp, Strand, FlightRecords
  <2>2. answer'[t] = NoFlight
    BY <1>11 DEF GiveUp, Strand
  <2>3. \A c \in Callers : c # t =>
          answer'[c] = answer[c] /\ on'[c] = on[c] /\ entered'[c] = entered[c]
    BY <1>11 DEF GiveUp, Strand
  <2>4. QED
    BY <1>1, <2>1, <2>2, <2>3
<1>12. CASE UNCHANGED vars
  BY <1>12 DEF vars
<1>13. QED
  BY <1>2, <1>3, <1>4, <1>5, <1>6, <1>7, <1>8, <1>9, <1>10, <1>11, <1>12
     DEF Next, Call, LeaderStep, WaiterStep

\* Fail closed: no call ever returns keys of a failed retrieval or stale keys in
\* place of the ones it waited for.
THEOREM FailClosed == Spec => []NoFallback
<1>1. Init => NoFallback
  BY DEF Init, NoFallback
<1>2. QED
  BY <1>1, AnswerStep, TypeCorrect, LeaderCorrect, CacheCorrect, PTL DEF Spec

=============================================================================
