----------------------- MODULE EstateInventoryProofs -----------------------
(***************************************************************************)
(* Proofs about EstateInventory, for lists and pages of every size: what a *)
(* walk reports of a list that stands still, and of one that changes while *)
(* it is read.                                                             *)
(***************************************************************************)
EXTENDS EstateInventory, FiniteSetTheorems, SequenceTheorems, TLAPS

-----------------------------------------------------------------------------
(* Numbers                                                                 *)

\* Pages follow each other without a gap, and later ones begin later.
LEMMA Multiples ==
    ASSUME NEW a \in Nat, NEW b \in Nat, NEW p \in Nat
    PROVE  /\ a * p \in Nat
           /\ (a + 1) * p = a * p + p
           /\ a <= b => a * p <= b * p
<1>1. a * p \in Nat
  OBVIOUS
<1>2. (a + 1) * p = a * p + p
  OBVIOUS
<1>3. ASSUME a <= b PROVE a * p <= b * p
  <2> DEFINE c == b - a
  <2>1. c \in Nat /\ b = a + c
    BY <1>3
  <2> HIDE DEF c
  <2>2. c * p \in Nat
    BY <2>1
  <2>3. (a + c) * p = a * p + c * p
    BY <2>1
  <2>4. QED
    BY <1>1, <2>1, <2>2, <2>3
<1>4. QED
  BY <1>1, <1>2, <1>3

\* A list fills its last page if its length is a multiple of the page size, ...
LEMMA FullPages ==
    ASSUME NEW q \in Nat, NEW p \in Nat \ {0}
    PROVE  (q * p) % p = 0
OBVIOUS

\* ... and does not if it ends inside a page.
LEMMA PartPage ==
    ASSUME NEW q \in Nat, NEW p \in Nat \ {0}, NEW n \in Nat, q * p < n, n < q * p + p
    PROVE  n % p # 0
<1> DEFINE d == n \div p
<1>1. d \in Nat /\ n = p * d + (n % p)
  OBVIOUS
<1> HIDE DEF d
<1>2. CASE d <= q
  <2>1. d * p <= q * p /\ d * p = p * d
    BY <1>1, <1>2, Multiples
  <2>2. QED
    BY <1>1, <2>1
<1>3. CASE q + 1 <= d
  <2>1. (q + 1) * p <= d * p /\ (q + 1) * p = q * p + p /\ d * p = p * d
    BY <1>1, <1>3, Multiples
  <2>2. n % p \in Nat /\ p * d \in Nat /\ q * p \in Nat
    BY <1>1
  <2>3. QED
    BY <1>1, <2>1, <2>2
<1>4. QED
  BY <1>1, <1>2, <1>3

-----------------------------------------------------------------------------
(* Sequences                                                               *)

\* A sequence without one of its elements: what came after it moves forward.
LEMMA RemoveAtProperties ==
    ASSUME NEW S, NEW s \in Seq(S), NEW i \in 1 .. Len(s)
    PROVE  /\ RemoveAt(s, i) \in Seq(S)
           /\ Len(RemoveAt(s, i)) = Len(s) - 1
           /\ \A j \in 1 .. Len(s) - 1 : RemoveAt(s, i)[j] = IF j < i THEN s[j] ELSE s[j + 1]
<1> DEFINE before == SubSeq(s, 1, i - 1)
           after == SubSeq(s, i + 1, Len(s))
<1>1. i \in 1 .. Len(s) /\ Len(s) \in Nat /\ \A j \in 1 .. Len(s) : s[j] \in S
  BY LenProperties, ElementOfSeq
<1>2. /\ before \in Seq(S) /\ Len(before) = i - 1
      /\ \A j \in 1 .. i - 1 : before[j] = s[j]
  BY <1>1, SubSeqProperties
<1>3. /\ after \in Seq(S) /\ Len(after) = Len(s) - i
      /\ \A j \in 1 .. Len(s) - i : after[j] = s[i + j]
  BY <1>1, SubSeqProperties
<1>4. RemoveAt(s, i) = before \o after
  BY DEF RemoveAt
<1> HIDE DEF before, after
<1>5. /\ before \o after \in Seq(S) /\ Len(before \o after) = Len(s) - 1
      /\ \A j \in 1 .. Len(s) - 1 :
            (before \o after)[j] = IF j <= i - 1 THEN before[j] ELSE after[j - (i - 1)]
  <2>1. /\ before \o after \in Seq(S) /\ Len(before \o after) = Len(before) + Len(after)
        /\ \A j \in 1 .. Len(before) + Len(after) :
            (before \o after)[j] = IF j <= Len(before) THEN before[j] ELSE after[j - Len(before)]
    BY <1>2, <1>3, ConcatProperties
  <2>2. Len(before) + Len(after) = Len(s) - 1
    BY <1>1, <1>2, <1>3
  <2>3. QED
    BY <1>2, <2>1, <2>2
<1> DEFINE whole == before \o after
<1>6. /\ whole \in Seq(S) /\ Len(whole) = Len(s) - 1
      /\ \A j \in 1 .. Len(s) - 1 : whole[j] = IF j <= i - 1 THEN before[j] ELSE after[j - (i - 1)]
  BY <1>5
<1> HIDE DEF whole
<1>7. ASSUME NEW j \in 1 .. Len(s) - 1
      PROVE  whole[j] = IF j < i THEN s[j] ELSE s[j + 1]
  <2>1. CASE j < i
    <3>1. whole[j] = before[j] /\ before[j] = s[j]
      BY <1>1, <1>2, <1>6, <2>1
    <3>2. QED
      BY <2>1, <3>1
  <2>2. CASE j >= i
    <3>1. j - (i - 1) \in 1 .. Len(s) - i
      BY <1>1, <2>2
    <3>2. after[j - (i - 1)] = s[i + (j - (i - 1))] /\ i + (j - (i - 1)) = j + 1
      BY <1>1, <1>3, <3>1, <2>2
    <3>3. whole[j] = after[j - (i - 1)]
      BY <1>1, <1>6, <2>2
    <3>4. QED
      BY <1>1, <2>2, <3>2, <3>3
  <2>3. j < i \/ j >= i
    BY <1>1
  <2>4. QED
    BY <2>1, <2>2, <2>3, Zenon
<1>8. QED
  BY <1>4, <1>6, <1>7 DEF whole

\* A sequence with one more element: what came from there on moves back.
LEMMA InsertAtProperties ==
    ASSUME NEW S, NEW s \in Seq(S), NEW i \in 1 .. Len(s) + 1, NEW e \in S
    PROVE  /\ InsertAt(s, i, e) \in Seq(S)
           /\ Len(InsertAt(s, i, e)) = Len(s) + 1
           /\ \A j \in 1 .. Len(s) + 1 :
                InsertAt(s, i, e)[j] =
                    IF j < i THEN s[j] ELSE IF j = i THEN e ELSE s[j - 1]
<1> DEFINE before == SubSeq(s, 1, i - 1)
           after == SubSeq(s, i, Len(s))
           front == before \o <<e>>
<1>1. i \in 1 .. Len(s) + 1 /\ Len(s) \in Nat /\ \A j \in 1 .. Len(s) : s[j] \in S
  BY LenProperties, ElementOfSeq
<1>2. /\ before \in Seq(S) /\ Len(before) = i - 1
      /\ \A j \in 1 .. i - 1 : before[j] = s[j]
  BY <1>1, SubSeqProperties
<1>3. /\ after \in Seq(S) /\ Len(after) = Len(s) - i + 1
      /\ \A j \in 1 .. Len(s) - i + 1 : after[j] = s[i + j - 1]
  BY <1>1, SubSeqProperties
<1>4. InsertAt(s, i, e) = front \o after
  BY DEF InsertAt
<1> HIDE DEF before, after
<1>5. <<e>> \in Seq(S) /\ Len(<<e>>) = 1 /\ <<e>>[1] = e
  OBVIOUS
<1>6. /\ front \in Seq(S) /\ Len(front) = i
      /\ \A j \in 1 .. i : front[j] = IF j < i THEN s[j] ELSE e
  <2>1. /\ front \in Seq(S) /\ Len(front) = i
        /\ \A j \in 1 .. i : front[j] = IF j <= i - 1 THEN before[j] ELSE <<e>>[j - (i - 1)]
    BY <1>1, <1>2, <1>5, ConcatProperties
  <2> HIDE DEF front
  <2>2. QED
    BY <1>1, <1>2, <1>5, <2>1
<1> HIDE DEF front
<1>7. /\ front \o after \in Seq(S) /\ Len(front \o after) = Len(s) + 1
      /\ \A j \in 1 .. Len(s) + 1 :
            (front \o after)[j] = IF j <= i THEN front[j] ELSE after[j - i]
  <2>1. /\ front \o after \in Seq(S) /\ Len(front \o after) = Len(front) + Len(after)
        /\ \A j \in 1 .. Len(front) + Len(after) :
            (front \o after)[j] = IF j <= Len(front) THEN front[j] ELSE after[j - Len(front)]
    BY <1>3, <1>6, ConcatProperties
  <2>2. Len(front) + Len(after) = Len(s) + 1
    BY <1>1, <1>3, <1>6
  <2>3. QED
    BY <1>6, <2>1, <2>2
<1> DEFINE whole == front \o after
<1>8. /\ whole \in Seq(S) /\ Len(whole) = Len(s) + 1
      /\ \A j \in 1 .. Len(s) + 1 : whole[j] = IF j <= i THEN front[j] ELSE after[j - i]
  BY <1>7
<1> HIDE DEF whole
<1>9. ASSUME NEW j \in 1 .. Len(s) + 1
      PROVE  whole[j] = IF j < i THEN s[j] ELSE IF j = i THEN e ELSE s[j - 1]
  <2>1. CASE j <= i
    <3>1. whole[j] = front[j] /\ front[j] = IF j < i THEN s[j] ELSE e
      BY <1>1, <1>6, <1>8, <2>1
    <3>2. QED
      BY <1>1, <2>1, <3>1
  <2>2. CASE j > i
    <3>1. j - i \in 1 .. Len(s) - i + 1
      BY <1>1, <2>2
    <3>2. after[j - i] = s[i + (j - i) - 1] /\ i + (j - i) - 1 = j - 1
      BY <1>1, <1>3, <3>1, <2>2
    <3>3. whole[j] = after[j - i]
      BY <1>1, <1>8, <2>2
    <3>4. QED
      BY <1>1, <2>2, <3>2, <3>3
  <2>3. j <= i \/ j > i
    BY <1>1
  <2>4. QED
    BY <2>1, <2>2, <2>3, Zenon
<1>10. QED
  BY <1>4, <1>8, <1>9 DEF whole

\* The elements of a sequence are finitely many, and as many as it is long when
\* none is repeated.
LEMMA ElementsFinite ==
    ASSUME NEW S, NEW s \in Seq(S)
    PROVE  /\ IsFiniteSet(ToSet(s)) /\ Cardinality(ToSet(s)) \in Nat
           /\ IsInjective(s) => Cardinality(ToSet(s)) = Len(s)
<1>1. Len(s) \in Nat /\ DOMAIN s = 1 .. Len(s) /\ s \in [1 .. Len(s) -> ToSet(s)]
  BY LenProperties DEF ToSet
<1>2. IsFiniteSet(1 .. Len(s)) /\ Cardinality(1 .. Len(s)) = Len(s)
  BY <1>1, FS_Interval
<1>3. s \in Surjection(1 .. Len(s), ToSet(s))
  BY <1>1 DEF Surjection, ToSet
<1>4. /\ IsFiniteSet(ToSet(s))
      /\ Cardinality(ToSet(s)) = Cardinality(1 .. Len(s)) <=> s \in Injection(1 .. Len(s), ToSet(s))
  BY <1>2, <1>3, FS_Surjection
<1>5. IsInjective(s) => s \in Injection(1 .. Len(s), ToSet(s))
  BY <1>1 DEF Injection, IsInjective
<1>6. QED
  BY <1>2, <1>4, <1>5, FS_CardinalityType

-----------------------------------------------------------------------------
(* Pages and answers                                                       *)

\* A page holds the items that follow those of the pages before it, as many as
\* fit and as there are.
LEMMA PageProperties ==
    ASSUME list \in Seq(Items), NEW u \in URLs
    PROVE  LET before == (u.page - 1) * PageSize
           IN  /\ before \in Nat /\ u.page * PageSize = before + PageSize
               /\ PageOf(u) \in Seq(Items)
               /\ Len(PageOf(u)) = IF before + PageSize < Len(list) THEN PageSize
                                   ELSE IF before < Len(list) THEN Len(list) - before ELSE 0
               /\ \A j \in 1 .. Len(PageOf(u)) : PageOf(u)[j] = list[before + j]
<1> DEFINE before == (u.page - 1) * PageSize
           last == IF u.page * PageSize < Len(list) THEN u.page * PageSize ELSE Len(list)
<1> USE SizesAssumption
<1>1. u.page \in Nat /\ u.page - 1 \in Nat
  BY DEF URLs, URL
<1>2. before \in Nat /\ u.page * PageSize = before + PageSize
  <2>1. u.page = (u.page - 1) + 1
    BY <1>1
  <2>2. QED
    BY <1>1, <2>1, Multiples
<1>3. Len(list) \in Nat /\ \A j \in 1 .. Len(list) : list[j] \in Items
  BY LenProperties, ElementOfSeq
<1>4. PageOf(u) = SubSeq(list, before + 1, last)
  BY DEF PageOf
<1> HIDE DEF before
<1>5. last = IF before + PageSize < Len(list) THEN before + PageSize ELSE Len(list)
  BY <1>2
<1> HIDE DEF last
<1>6. before + 1 \in Int /\ last \in Int /\ \A j \in before + 1 .. last : list[j] \in Items
  BY <1>2, <1>3, <1>5
<1>7. /\ PageOf(u) \in Seq(Items)
      /\ Len(PageOf(u)) = IF before + 1 <= last THEN last - (before + 1) + 1 ELSE 0
      /\ \A j \in 1 .. last - (before + 1) + 1 : PageOf(u)[j] = list[before + 1 + j - 1]
  BY <1>4, <1>6, SubSeqProperties
<1>8. Len(PageOf(u)) = IF before + PageSize < Len(list) THEN PageSize
                       ELSE IF before < Len(list) THEN Len(list) - before ELSE 0
  BY <1>2, <1>3, <1>5, <1>7
<1>9. ASSUME NEW j \in 1 .. Len(PageOf(u)) PROVE PageOf(u)[j] = list[before + j]
  <2>1. j \in 1 .. last - (before + 1) + 1 /\ before + 1 + j - 1 = before + j
    BY <1>2, <1>3, <1>5, <1>7
  <2>2. QED
    BY <1>7, <2>1
<1>10. QED
  BY <1>2, <1>7, <1>8, <1>9 DEF before

\* What an answer may hold.
LEMMA AnswerShape ==
    ASSUME NEW u, NEW a \in Answers(u)
    PROVE  /\ a.kind \in {"list"} \cup Refusals
           /\ a.link \in URLs \cup {NoLink, Foreign, Malformed}
           /\ a.items = PageOf(u) \/ a.items = <<>>
           /\ a.kind = "list" => a.items = PageOf(u)
BY DEF Answers, Answer, Refusals

\* The special links are no URLs, and differ.
LEMMA LinksDiffer ==
    /\ NoLink \notin URLs /\ Foreign \notin URLs /\ Malformed \notin URLs
    /\ NoLink # Foreign /\ NoLink # Malformed /\ Foreign # Malformed
<1>1. \A u \in URLs : u.page \in 1 .. MaxPages + 1
  BY DEF URLs, URL
<1>2. NoLink.page = 0 /\ Foreign.page = 0 /\ Malformed.page = 0
  BY DEF NoLink, Foreign, Malformed, URL
<1>3. NoLink.path = "none" /\ Foreign.path = "foreign" /\ Malformed.path = "malformed"
  BY DEF NoLink, Foreign, Malformed, URL
<1>4. NoLink \notin URLs /\ Foreign \notin URLs /\ Malformed \notin URLs
  BY <1>1, <1>2, SizesAssumption
<1>5. QED
  BY <1>3, <1>4

\* Where the link of an answer leads.
LEMMA TargetShape ==
    ASSUME NEW scope, NEW u, NEW link \in URLs \cup {NoLink, Foreign, Malformed}
    PROVE  /\ NextTarget(scope, link, u) \in URLs \cup {NoLink, Foreign, Malformed}
           /\ NextTarget(scope, link, u) = NoLink <=> link = NoLink
BY LinksDiffer DEF NextTarget

\* How the walk may go on after an answer: it does so only with a list, a link
\* to follow and a page that is left, and is finished only after a list that has
\* no link and leaves room on its last page.
LEMMA VerdictShape ==
    ASSUME NEW u, NEW a \in Answers(u),
           NEW target \in URLs \cup {NoLink, Foreign, Malformed}
    PROVE  LET how == PageVerdict(a, target)
           IN  /\ how \in {"walking", "finished"} \cup WalkErrors
               /\ how = "walking" <=> a.kind = "list" /\ target \in URLs /\ page # MaxPages
               /\ how = "finished" <=>
                    a.kind = "list" /\ target = NoLink /\ Len(a.items) # PageSize
               /\ how = "FullPageWithoutNext" <=>
                    a.kind = "list" /\ target = NoLink /\ Len(a.items) = PageSize
               /\ how = "PageLimitExceeded" <=>
                    a.kind = "list" /\ target \in URLs /\ page = MaxPages
<1>1. a.kind \in {"list"} \cup Refusals
  BY AnswerShape
<1>2. CASE a.kind # "list"
  <2>1. PageVerdict(a, target) = a.kind
    BY <1>2 DEF PageVerdict
  <2>2. QED
    BY <1>1, <1>2, <2>1 DEF Refusals, WalkErrors, LinkErrors
<1>3. CASE a.kind = "list" /\ target = Malformed
  <2>1. PageVerdict(a, target) = "InvalidPaginationLink"
    BY <1>3, LinksDiffer DEF PageVerdict
  <2>2. QED
    BY <1>3, <2>1, LinksDiffer DEF Refusals, WalkErrors, LinkErrors
<1>4. CASE a.kind = "list" /\ target = Foreign
  <2>1. PageVerdict(a, target) = "PaginationOriginChanged"
    BY <1>4, LinksDiffer DEF PageVerdict
  <2>2. QED
    BY <1>4, <2>1, LinksDiffer DEF Refusals, WalkErrors, LinkErrors
<1>5. CASE a.kind = "list" /\ target = NoLink
  <2>1. PageVerdict(a, target) =
            IF Len(a.items) = PageSize THEN "FullPageWithoutNext" ELSE "finished"
    BY <1>5, LinksDiffer DEF PageVerdict
  <2>2. QED
    BY <1>5, <2>1, LinksDiffer DEF Refusals, WalkErrors, LinkErrors
<1>6. CASE a.kind = "list" /\ target \in URLs
  <2>1. PageVerdict(a, target) = LimitVerdict
    BY <1>6, LinksDiffer DEF PageVerdict
  <2>2. QED
    BY <1>6, <2>1, LinksDiffer DEF LimitVerdict, Refusals, WalkErrors, LinkErrors
<1>7. QED
  BY <1>1, <1>2, <1>3, <1>4, <1>5, <1>6, Zenon

-----------------------------------------------------------------------------
(* Lists that change                                                       *)

\* Deleting an item of a list without repetitions takes that one out of it.
LEMMA Removed ==
    ASSUME NEW S, NEW s \in Seq(S), IsInjective(s), NEW i \in 1 .. Len(s)
    PROVE  /\ IsInjective(RemoveAt(s, i))
           /\ ToSet(RemoveAt(s, i)) = ToSet(s) \ {s[i]}
<1> DEFINE t == RemoveAt(s, i)
<1>1. Len(s) \in Nat /\ DOMAIN s = 1 .. Len(s)
  BY LenProperties
<1>2. /\ t \in Seq(S) /\ Len(t) = Len(s) - 1
      /\ \A j \in 1 .. Len(s) - 1 : t[j] = IF j < i THEN s[j] ELSE s[j + 1]
  BY RemoveAtProperties
<1> HIDE DEF t
<1>3. DOMAIN t = 1 .. Len(s) - 1
  BY <1>2, LenProperties
<1>4. \A a, b \in 1 .. Len(s) : s[a] = s[b] => a = b
  BY <1>1 DEF IsInjective
<1>5. IsInjective(t)
  <2>1. ASSUME NEW a \in 1 .. Len(s) - 1, NEW b \in 1 .. Len(s) - 1, t[a] = t[b]
        PROVE  a = b
    BY <1>1, <1>2, <1>4, <2>1
  <2>2. QED
    BY <1>3, <2>1 DEF IsInjective
<1>6. ASSUME NEW x \in ToSet(t) PROVE x \in ToSet(s) \ {s[i]}
  <2>1. PICK j \in 1 .. Len(s) - 1 : t[j] = x
    BY <1>3 DEF ToSet
  <2>2. PICK k \in 1 .. Len(s) : k # i /\ s[k] = x
    BY <1>1, <1>2, <2>1
  <2>3. QED
    BY <1>1, <1>4, <2>2 DEF ToSet
<1>7. ASSUME NEW x \in ToSet(s) \ {s[i]} PROVE x \in ToSet(t)
  <2>1. PICK k \in 1 .. Len(s) : s[k] = x /\ k # i
    BY <1>1 DEF ToSet
  <2>2. PICK j \in 1 .. Len(s) - 1 : j = IF k < i THEN k ELSE k - 1
    BY <1>1, <2>1
  <2>3. t[j] = x
    BY <1>1, <1>2, <2>1, <2>2
  <2>4. QED
    BY <1>3, <2>3 DEF ToSet
<1>8. QED
  BY <1>5, <1>6, <1>7 DEF t

\* Creating an item that is new keeps a list without repetitions.
LEMMA Inserted ==
    ASSUME NEW S, NEW s \in Seq(S), IsInjective(s), NEW i \in 1 .. Len(s) + 1,
           NEW e \in S, e \notin ToSet(s)
    PROVE  /\ IsInjective(InsertAt(s, i, e))
           /\ ToSet(InsertAt(s, i, e)) = ToSet(s) \cup {e}
<1> DEFINE t == InsertAt(s, i, e)
<1>1. Len(s) \in Nat /\ DOMAIN s = 1 .. Len(s)
  BY LenProperties
<1>2. /\ t \in Seq(S) /\ Len(t) = Len(s) + 1
      /\ \A j \in 1 .. Len(s) + 1 :
            t[j] = IF j < i THEN s[j] ELSE IF j = i THEN e ELSE s[j - 1]
  BY InsertAtProperties
<1> HIDE DEF t
<1>3. DOMAIN t = 1 .. Len(s) + 1
  BY <1>2, LenProperties
<1>4. /\ \A a, b \in 1 .. Len(s) : s[a] = s[b] => a = b
      /\ \A a \in 1 .. Len(s) : s[a] # e
  BY <1>1 DEF IsInjective, ToSet
<1>5. IsInjective(t)
  <2>1. ASSUME NEW a \in 1 .. Len(s) + 1, NEW b \in 1 .. Len(s) + 1, t[a] = t[b]
        PROVE  a = b
    <3> DEFINE Old(j) == IF j < i THEN j ELSE j - 1
    <3>1. \A j \in 1 .. Len(s) + 1 : j # i => t[j] = s[Old(j)] /\ Old(j) \in 1 .. Len(s)
      BY <1>1, <1>2
    <3>2. t[i] = e /\ i \in 1 .. Len(s) + 1
      BY <1>1, <1>2
    <3>3. a # i /\ b # i => Old(a) = Old(b)
      BY <1>4, <2>1, <3>1
    <3>4. a # i /\ b # i /\ Old(a) = Old(b) => a = b
      BY <1>1
    <3>5. a = i <=> b = i
      BY <1>4, <2>1, <3>1, <3>2
    <3>6. QED
      BY <3>3, <3>4, <3>5, Zenon
  <2>2. QED
    BY <1>3, <2>1 DEF IsInjective
<1>6. ASSUME NEW x \in ToSet(t) PROVE x \in ToSet(s) \cup {e}
  <2>1. PICK j \in 1 .. Len(s) + 1 : t[j] = x
    BY <1>3 DEF ToSet
  <2>2. x = e \/ \E k \in 1 .. Len(s) : s[k] = x
    BY <1>1, <1>2, <2>1
  <2>3. QED
    BY <1>1, <2>2 DEF ToSet
<1>7. ASSUME NEW x \in ToSet(s) \cup {e} PROVE x \in ToSet(t)
  <2>1. CASE x = e
    <3>1. i \in 1 .. Len(s) + 1 /\ t[i] = e
      BY <1>1, <1>2
    <3>2. QED
      BY <1>3, <2>1, <3>1 DEF ToSet
  <2>2. CASE x # e
    <3>1. PICK k \in 1 .. Len(s) : s[k] = x
      BY <1>1, <2>2 DEF ToSet
    <3>2. PICK j \in 1 .. Len(s) + 1 : j = IF k < i THEN k ELSE k + 1
      BY <1>1, <3>1
    <3>3. t[j] = x
      BY <1>1, <1>2, <3>1, <3>2
    <3>4. QED
      BY <1>3, <3>3 DEF ToSet
  <2>3. QED
    BY <2>1, <2>2
<1>8. QED
  BY <1>5, <1>6, <1>7 DEF t

-----------------------------------------------------------------------------
(* Types                                                                   *)

\* What counts as read: the pages of a list that are behind a walk.
Frontier == (page - 1) * PageSize

\* The counters of changes name the items: those created get the next number.
CountInv ==
    /\ IsFiniteSet(seen)
    /\ created \in Nat /\ deleted \in Nat
    /\ \A x \in ToSet(list) \cup ToSet(rows) : x <= MaxItems + created

\* A walk under way is that of a list, has a page left, and has no more rows
\* than the pages it asked for hold.
WalkInv ==
    Walking => turn \in DOMAIN Scopes /\ page <= MaxPages /\ Len(rows) <= Frontier

TypeInv == TypeOK /\ CountInv /\ WalkInv

\* The rows of a sequence and of what is appended to it.
LEMMA Appended ==
    ASSUME NEW S, NEW s \in Seq(S), NEW t \in Seq(S)
    PROVE  /\ s \o t \in Seq(S) /\ Len(s \o t) = Len(s) + Len(t)
           /\ ToSet(s \o t) = ToSet(s) \cup ToSet(t)
<1>1. /\ s \o t \in Seq(S) /\ Len(s \o t) = Len(s) + Len(t)
      /\ \A i \in 1 .. Len(s) + Len(t) :
            (s \o t)[i] = IF i <= Len(s) THEN s[i] ELSE t[i - Len(s)]
  BY ConcatProperties
<1> DEFINE st == s \o t
<1>2. /\ Len(s) \in Nat /\ DOMAIN s = 1 .. Len(s)
      /\ Len(t) \in Nat /\ DOMAIN t = 1 .. Len(t)
      /\ DOMAIN st = 1 .. Len(s) + Len(t)
  BY <1>1, LenProperties
<1> HIDE DEF st
<1>3. \A i \in 1 .. Len(s) + Len(t) : st[i] = IF i <= Len(s) THEN s[i] ELSE t[i - Len(s)]
  BY <1>1 DEF st
<1>4. ASSUME NEW x \in ToSet(st) PROVE x \in ToSet(s) \cup ToSet(t)
  <2>1. PICK i \in 1 .. Len(s) + Len(t) : st[i] = x
    BY <1>2 DEF ToSet
  <2>2. CASE i <= Len(s)
    BY <1>2, <1>3, <2>1, <2>2 DEF ToSet
  <2>3. CASE i > Len(s)
    <3>1. i - Len(s) \in 1 .. Len(t) /\ t[i - Len(s)] = x
      BY <1>2, <1>3, <2>1, <2>3
    <3>2. QED
      BY <1>2, <3>1 DEF ToSet
  <2>4. QED
    BY <1>2, <2>2, <2>3
<1>5. ASSUME NEW x \in ToSet(s) PROVE x \in ToSet(st)
  <2>1. PICK i \in 1 .. Len(s) : s[i] = x
    BY <1>2 DEF ToSet
  <2>2. i \in 1 .. Len(s) + Len(t) /\ st[i] = x
    BY <1>2, <1>3, <2>1
  <2>3. QED
    BY <1>2, <2>2 DEF ToSet
<1>6. ASSUME NEW x \in ToSet(t) PROVE x \in ToSet(st)
  <2>1. PICK i \in 1 .. Len(t) : t[i] = x
    BY <1>2 DEF ToSet
  <2>2. i + Len(s) \in 1 .. Len(s) + Len(t) /\ ~(i + Len(s) <= Len(s)) /\ i + Len(s) - Len(s) = i
    BY <1>2
  <2>3. st[i + Len(s)] = x
    BY <1>3, <2>1, <2>2
  <2>4. QED
    BY <1>2, <2>2, <2>3 DEF ToSet
<1>7. QED
  BY <1>1, <1>4, <1>5, <1>6 DEF st

\* Nothing is on a page that is not on the list.
LEMMA PageItems ==
    ASSUME list \in Seq(Items), NEW u \in URLs, NEW s, s = PageOf(u) \/ s = <<>>
    PROVE  ToSet(s) \subseteq ToSet(list)
<1> DEFINE before == (u.page - 1) * PageSize
           on == PageOf(u)
<1>1. /\ before \in Nat /\ on \in Seq(Items)
      /\ Len(on) = IF before + PageSize < Len(list) THEN PageSize
                   ELSE IF before < Len(list) THEN Len(list) - before ELSE 0
      /\ \A j \in 1 .. Len(on) : on[j] = list[before + j]
  BY PageProperties
<1> HIDE DEF before, on
<1>2. /\ Len(list) \in Nat /\ DOMAIN list = 1 .. Len(list)
      /\ Len(on) \in Nat /\ DOMAIN on = 1 .. Len(on)
  BY <1>1, LenProperties
<1>3. ASSUME NEW j \in 1 .. Len(on)
      PROVE  on[j] = list[before + j] /\ before + j \in 1 .. Len(list)
  <2>1. Len(on) > 0
    BY <1>2
  <2>2. before + Len(on) <= Len(list)
    <3> DEFINE m == Len(on)
               n == Len(list)
    <3>1. /\ m \in Nat /\ n \in Nat /\ m > 0 /\ before \in Nat /\ PageSize \in Nat
          /\ m = IF before + PageSize < n THEN PageSize ELSE IF before < n THEN n - before ELSE 0
      BY <1>1, <1>2, <2>1, SizesAssumption
    <3> HIDE DEF m, n
    <3>2. before + m <= n
      BY <3>1
    <3>3. QED
      BY <3>2 DEF m, n
  <2>3. before + j \in 1 .. Len(list)
    <3>1. before \in Nat
      BY <1>1
    <3>2. QED
      BY <1>2, <2>2, <3>1
  <2>4. QED
    BY <1>1, <2>3
<1>4. ToSet(on) \subseteq ToSet(list)
  BY <1>2, <1>3 DEF ToSet
<1>5. s = <<>> => ToSet(s) = {}
  BY DEF ToSet
<1>6. QED
  BY <1>4, <1>5 DEF on

\* What a fetch does to the walk: which verdict it comes to, where it goes on,
\* and which rows it has then.
LEMMA FetchEffect ==
    ASSUME TypeInv, NEW a \in Answers(url), Fetch(a)
    PROVE  /\ Walking /\ url \in URLs /\ a.items \in Seq(Items)
           /\ a.items = PageOf(url) \/ a.items = <<>>
           /\ verdict' \in {"walking", "finished"} \cup WalkErrors
           /\ verdict' = "walking" =>
                /\ page # MaxPages /\ a.kind = "list"
                /\ url' \in URLs /\ url' = NextTarget(Scopes[turn], a.link, url)
                /\ rows' = rows \o PageOf(url)
           /\ verdict' = "finished" =>
                /\ a.kind = "list" /\ a.link = NoLink /\ Len(PageOf(url)) # PageSize
                /\ rows' = rows \o PageOf(url)
           /\ verdict' # "walking" => url' = url
           /\ rows' = rows \o a.items \/ rows' = <<>>
           /\ seen' = seen \cup {url} /\ url \notin seen /\ page' = page + 1
           /\ strayed' = (strayed \/ a # Regular(Scopes[turn], url))
           /\ UNCHANGED <<turn, list, kept, created, deleted>>
<1> DEFINE target == NextTarget(Scopes[turn], a.link, url)
           how == PageVerdict(a, target)
<1>1. url \in URLs /\ list \in Seq(Items) /\ PageOf(url) \in Seq(Items) /\ <<>> \in Seq(Items)
  BY PageProperties DEF TypeInv, TypeOK
<1>2. /\ a.link \in URLs \cup {NoLink, Foreign, Malformed}
      /\ a.items = PageOf(url) \/ a.items = <<>>
      /\ a.kind = "list" => a.items = PageOf(url)
  BY AnswerShape
<1>3. target \in URLs \cup {NoLink, Foreign, Malformed} /\ (target = NoLink <=> a.link = NoLink)
  BY <1>2, TargetShape
<1>4. /\ Walking /\ url \notin seen /\ seen' = seen \cup {url}
      /\ Conclude(Scopes[turn], how, rows \o a.items)
      /\ url' = IF how = "walking" THEN target ELSE url
      /\ page' = page + 1 /\ strayed' = (strayed \/ a # Regular(Scopes[turn], url))
      /\ UNCHANGED <<turn, list, kept, created, deleted>>
  BY DEF Fetch
<1> HIDE DEF target
<1>5. /\ how \in {"walking", "finished"} \cup WalkErrors
      /\ how = "walking" <=> a.kind = "list" /\ target \in URLs /\ page # MaxPages
      /\ how = "finished" <=>
            a.kind = "list" /\ target = NoLink /\ Len(a.items) # PageSize
  BY <1>3, VerdictShape
<1> HIDE DEF how
<1>6. "walking" \notin WalkErrors /\ "finished" \notin WalkErrors
  BY DEF WalkErrors, Refusals, LinkErrors
<1>7. /\ verdict' = how
      /\ rows' = rows \o a.items \/ rows' = <<>>
      /\ how \notin WalkErrors => rows' = rows \o a.items
  BY <1>4 DEF Conclude
<1>8. QED
  BY <1>1, <1>2, <1>3, <1>4, <1>5, <1>6, <1>7 DEF target

\* At the beginning nothing is walked.
LEMMA TypeInit == Init => TypeInv
<1> SUFFICES ASSUME Init PROVE TypeInv
  OBVIOUS
<1> USE SizesAssumption DEF Init
<1>1. Len(Scopes) \in Nat
  BY ScopesAssumption, LenProperties
<1>2. list \in Seq(Items) /\ IsInjective(list) /\ ToSet(list) = {} /\ ToSet(rows) = {}
      /\ rows \in Seq(Items) /\ Len(rows) = 0
  BY DEF IsInjective, ToSet
<1>3. url \in URLs
  BY DEF URLs, Paths
<1>4. IsFiniteSet(seen) /\ Cardinality(seen) = 0
  BY FS_EmptySet
<1>5. MaxPages * PageSize \in Nat
  BY Multiples
<1>6. TypeOK
  <2>1. turn \in 0 .. Len(Scopes) + 1 /\ page <= MaxPages + 1 /\ created + deleted \in 0 .. MaxChanges
    BY <1>1
  <2>2. errors \subseteq ToSet(Scopes) \cup Domains \cup Tokens
    OBVIOUS
  <2>3. /\ verdict \in {"walking", "finished"} \cup WalkErrors
        /\ seen \subseteq URLs /\ kept \subseteq ToSet(list) /\ strayed \in BOOLEAN
    OBVIOUS
  <2>4. page = Cardinality(seen) + 1 /\ Len(rows) <= MaxPages * PageSize
    BY <1>2, <1>4, <1>5
  <2>5. QED
    BY <1>2, <1>3, <2>1, <2>2, <2>3, <2>4 DEF TypeOK
<1>7. QED
  BY <1>2, <1>4, <1>6 DEF TypeInv, CountInv, WalkInv, Walking

\* What creating an item does.
LEMMA CreateEffect ==
    ASSUME TypeInv, NEW i \in 1 .. Len(list) + 1, Create(i)
    PROVE  /\ MaxItems + created + 1 \in Items
           /\ MaxItems + created + 1 \notin ToSet(list) \cup ToSet(rows)
           /\ list' = InsertAt(list, i, MaxItems + created + 1)
           /\ list' \in Seq(Items) /\ IsInjective(list')
           /\ ToSet(list') = ToSet(list) \cup {MaxItems + created + 1}
<1> USE SizesAssumption
<1>1. /\ created \in Nat /\ deleted \in Nat /\ created + deleted < MaxChanges
      /\ \A x \in ToSet(list) \cup ToSet(rows) : x <= MaxItems + created
      /\ list \in Seq(Items) /\ IsInjective(list)
      /\ list' = InsertAt(list, i, MaxItems + created + 1)
  BY DEF TypeInv, TypeOK, CountInv, Create
<1>2. MaxItems + created + 1 \in Items
  BY <1>1 DEF Items
<1>3. MaxItems + created + 1 \notin ToSet(list) \cup ToSet(rows)
  BY <1>1
<1>4. QED
  BY <1>1, <1>2, <1>3, Inserted, InsertAtProperties

\* A new item keeps the types: its number is within the bounds.
LEMMA TypeCreate ==
    ASSUME TypeInv, NEW i \in 1 .. Len(list) + 1, Create(i)
    PROVE  TypeInv'
<1> USE SizesAssumption
<1>1. /\ list' \in Seq(Items) /\ IsInjective(list')
      /\ ToSet(list') = ToSet(list) \cup {MaxItems + created + 1}
  BY CreateEffect
<1>2. /\ created' = created + 1 /\ created + deleted < MaxChanges
      /\ UNCHANGED <<turn, verdict, url, seen, page, rows, errors, kept, deleted, strayed>>
  BY DEF Create
<1>3. created \in Nat /\ deleted \in Nat
  BY DEF TypeInv, CountInv
<1>4. TypeOK'
  BY <1>1, <1>2, <1>3 DEF TypeInv, TypeOK
<1>5. CountInv'
  <2>1. ToSet(rows') = ToSet(rows)
    BY <1>2
  <2>2. \A x \in ToSet(list) \cup ToSet(rows) : x \in Items /\ x <= MaxItems + created
    <3>1. \A x \in ToSet(list) \cup ToSet(rows) : x \in Items
      BY LenProperties, ElementOfSeq DEF TypeInv, TypeOK, ToSet
    <3>2. QED
      BY <3>1 DEF TypeInv, CountInv
  <2>3. \A x \in ToSet(list') \cup ToSet(rows') : x <= MaxItems + created'
    BY <1>1, <1>2, <1>3, <2>1, <2>2 DEF Items
  <2>4. QED
    BY <1>2, <1>3, <2>3 DEF TypeInv, CountInv
<1>6. WalkInv'
  BY <1>2 DEF TypeInv, WalkInv, Walking, Frontier
<1>7. QED
  BY <1>4, <1>5, <1>6 DEF TypeInv

\* An item less keeps the types.
LEMMA TypeDelete ==
    ASSUME TypeInv, NEW i \in 1 .. Len(list), Delete(i)
    PROVE  TypeInv'
<1> USE SizesAssumption
<1>1. list \in Seq(Items) /\ IsInjective(list) /\ list' = RemoveAt(list, i)
  BY DEF TypeInv, TypeOK, Delete
<1>2. /\ list' \in Seq(Items) /\ IsInjective(list')
      /\ ToSet(list') = ToSet(list) \ {list[i]}
  BY <1>1, Removed, RemoveAtProperties
<1>3. /\ deleted' = deleted + 1 /\ created + deleted < MaxChanges
      /\ kept' = kept \ {list[i]}
      /\ UNCHANGED <<turn, verdict, url, seen, page, rows, errors, created, strayed>>
  BY DEF Delete
<1>4. created \in Nat /\ deleted \in Nat
  BY DEF TypeInv, CountInv
<1>5. TypeOK'
  BY <1>2, <1>3, <1>4 DEF TypeInv, TypeOK
<1>6. CountInv'
  <2>1. ToSet(rows') = ToSet(rows)
    BY <1>3
  <2>2. \A x \in ToSet(list') \cup ToSet(rows') : x <= MaxItems + created'
    BY <1>2, <1>3, <2>1 DEF TypeInv, CountInv
  <2>3. QED
    BY <1>3, <1>4, <2>2 DEF TypeInv, CountInv
<1>7. WalkInv'
  BY <1>3 DEF TypeInv, WalkInv, Walking, Frontier
<1>8. QED
  BY <1>5, <1>6, <1>7 DEF TypeInv

\* A walk begins with values of the types.
LEMMA TypeBegin ==
    ASSUME TypeInv, Begin
    PROVE  TypeInv'
<1> USE SizesAssumption
<1>1. PICK n \in 0 .. MaxItems : Lists(n)
  BY DEF Begin
<1>2. /\ list' = [i \in 1 .. n |-> i] /\ url' = URL("named", 1) /\ seen' = {} /\ page' = 1
      /\ rows' = <<>> /\ verdict' = "walking"
      /\ kept' = 1 .. n /\ created' = 0 /\ deleted' = 0 /\ strayed' = FALSE
      /\ turn' = turn + 1 /\ turn < Len(Scopes) /\ errors' = errors
  BY <1>1 DEF Lists, Begin
<1>3. Scopes \in Seq(STRING) /\ Len(Scopes) \in Nat /\ DOMAIN Scopes = 1 .. Len(Scopes)
  BY ScopesAssumption, LenProperties
<1>4. list' \in Seq(Items) /\ IsInjective(list') /\ ToSet(list') = 1 .. n
  <2>1. DOMAIN list' = 1 .. n /\ \A i \in 1 .. n : list'[i] = i
    BY <1>2
  <2>2. list' \in [1 .. n -> Items] /\ n \in Nat
    BY <1>2 DEF Items
  <2>3. list' \in Seq(Items)
    BY <2>2
  <2>4. QED
    BY <2>1, <2>3 DEF IsInjective, ToSet
<1>5. rows' \in Seq(Items) /\ Len(rows') = 0 /\ ToSet(rows') = {}
  BY <1>2 DEF ToSet
<1>6. url' \in URLs
  BY <1>2 DEF URLs, Paths
<1>7. IsFiniteSet(seen') /\ Cardinality(seen') = 0
  BY <1>2, FS_EmptySet
<1>8. MaxPages * PageSize \in Nat /\ (page' - 1) * PageSize = 0
  BY <1>2, Multiples
<1>9. TypeOK'
  <2>1. turn \in Nat /\ errors \subseteq ToSet(Scopes) \cup Domains \cup Tokens
    BY <1>3 DEF TypeInv, TypeOK
  <2>2. turn' \in 0 .. Len(Scopes) + 1 /\ page' <= MaxPages + 1 /\ created' + deleted' \in 0 .. MaxChanges
    BY <1>2, <1>3, <2>1
  <2>3. /\ verdict' \in {"walking", "finished"} \cup WalkErrors
        /\ errors' \subseteq ToSet(Scopes) \cup Domains \cup Tokens
        /\ seen' \subseteq URLs /\ kept' \subseteq ToSet(list') /\ strayed' \in BOOLEAN
    BY <1>2, <1>4, <2>1
  <2>4. page' = Cardinality(seen') + 1 /\ Len(rows') <= MaxPages * PageSize
    BY <1>2, <1>5, <1>7, <1>8
  <2>5. QED
    BY <1>4, <1>5, <1>6, <2>2, <2>3, <2>4 DEF TypeOK
<1>10. CountInv'
  BY <1>2, <1>4, <1>5, <1>7 DEF CountInv
<1>11. WalkInv'
  <2>1. turn \in Nat
    BY <1>3 DEF TypeInv, TypeOK
  <2>2. turn' \in DOMAIN Scopes
    BY <1>2, <1>3, <2>1
  <2>3. QED
    BY <1>2, <1>5, <1>8, <2>2 DEF WalkInv, Frontier
<1>12. QED
  BY <1>9, <1>10, <1>11 DEF TypeInv

\* A fetch keeps the types: it counts a URL that is new, and adds a page at most.
LEMMA TypeFetch ==
    ASSUME TypeInv, NEW a \in Answers(url), Fetch(a)
    PROVE  TypeInv'
<1> USE SizesAssumption
<1>1. /\ Walking /\ url \in URLs /\ a.items \in Seq(Items)
      /\ a.items = PageOf(url) \/ a.items = <<>>
      /\ verdict' \in {"walking", "finished"} \cup WalkErrors
      /\ verdict' = "walking" => page # MaxPages /\ url' \in URLs
      /\ verdict' # "walking" => url' = url
      /\ rows' = rows \o a.items \/ rows' = <<>>
      /\ seen' = seen \cup {url} /\ url \notin seen /\ page' = page + 1
      /\ strayed' = (strayed \/ a # Regular(Scopes[turn], url))
      /\ UNCHANGED <<turn, list, kept, created, deleted>>
  BY FetchEffect
<1>2. /\ turn \in DOMAIN Scopes /\ page <= MaxPages /\ Len(rows) <= Frontier
      /\ rows \in Seq(Items) /\ Len(rows) \in Nat
  BY <1>1, LenProperties DEF TypeInv, TypeOK, WalkInv
<1>3. IsFiniteSet(seen') /\ Cardinality(seen') = Cardinality(seen) + 1
  BY <1>1, FS_AddElement DEF TypeInv, CountInv
<1>4. page = Cardinality(seen) + 1 /\ page \in Nat \ {0}
  BY FS_CardinalityType DEF TypeInv, CountInv, TypeOK
<1>5. Len(a.items) <= PageSize /\ Len(a.items) \in Nat
  <2>1. Len(PageOf(url)) \in 0 .. PageSize
    <3>1. list \in Seq(Items) /\ Len(list) \in Nat
      BY LenProperties DEF TypeInv, TypeOK
    <3>2. QED
      BY <1>1, <3>1, PageProperties
  <2>2. QED
    BY <1>1, <2>1
<1>6. /\ Frontier \in Nat /\ page * PageSize = Frontier + PageSize
      /\ page * PageSize <= MaxPages * PageSize /\ MaxPages * PageSize \in Nat
  <2>1. page - 1 \in Nat /\ page = (page - 1) + 1
    BY <1>4
  <2>2. QED
    BY <1>2, <1>4, <2>1, Multiples DEF Frontier
<1>7. rows' \in Seq(Items) /\ Len(rows') <= page * PageSize /\ Len(rows') \in Nat
  <2>1. CASE rows' = <<>>
    BY <1>6, <2>1
  <2>2. CASE rows' = rows \o a.items
    BY <1>1, <1>2, <1>5, <1>6, <2>2, Appended
  <2>3. QED
    BY <1>1, <2>1, <2>2
<1>8. errors' \subseteq ToSet(Scopes) \cup Domains \cup Tokens
  <2>1. errors' = errors \/ errors' = errors \cup {Scopes[turn]}
    BY DEF Fetch, Conclude
  <2>2. QED
    BY <1>2, <2>1 DEF TypeInv, TypeOK, ToSet
<1>9. TypeOK'
  <2>1. Len(rows') <= MaxPages * PageSize
    BY <1>4, <1>6, <1>7
  <2>2. page' \in Nat /\ page' <= MaxPages + 1 /\ page' = Cardinality(seen') + 1
    BY <1>1, <1>2, <1>3, <1>4
  <2>3. strayed' \in BOOLEAN /\ url' \in URLs /\ seen' \subseteq URLs
    BY <1>1 DEF TypeInv, TypeOK
  <2>4. QED
    BY <1>1, <1>7, <1>8, <2>1, <2>2, <2>3 DEF TypeInv, TypeOK
<1>10. CountInv'
  <2>1. ToSet(rows') \subseteq ToSet(rows) \cup ToSet(list)
    <3>1. ToSet(a.items) \subseteq ToSet(list)
      BY <1>1, PageItems DEF TypeInv, TypeOK
    <3>2. rows' = <<>> => ToSet(rows') = {}
      BY DEF ToSet
    <3>3. rows' = rows \o a.items => ToSet(rows') = ToSet(rows) \cup ToSet(a.items)
      BY <1>1, <1>2, Appended
    <3>4. QED
      BY <1>1, <3>1, <3>2, <3>3
  <2>2. ToSet(list') = ToSet(list) /\ created' = created /\ deleted' = deleted
    BY <1>1
  <2>3. QED
    BY <1>3, <2>1, <2>2 DEF TypeInv, CountInv
<1>11. WalkInv'
  <2>1. verdict' = "walking" => page' <= MaxPages
    BY <1>1, <1>2, <1>4
  <2>2. page' - 1 = page
    BY <1>1, <1>4
  <2>3. QED
    BY <1>1, <1>2, <1>7, <2>1, <2>2 DEF WalkInv, Walking, Frontier
<1>12. QED
  BY <1>9, <1>10, <1>11 DEF TypeInv

\* A walk that ends in a circle keeps the types.
LEMMA TypeCycle ==
    ASSUME TypeInv, Cycle
    PROVE  TypeInv'
<1>1. /\ Walking /\ verdict' = "PaginationCycle"
      /\ rows' = rows \/ rows' = <<>>
      /\ errors' = errors \/ errors' = errors \cup {Scopes[turn]}
      /\ UNCHANGED <<turn, list, url, seen, page, kept, created, deleted, strayed>>
  BY DEF Cycle, Conclude, tally
<1>2. turn \in DOMAIN Scopes /\ rows \in Seq(Items) /\ Len(rows) <= MaxPages * PageSize
  BY <1>1 DEF TypeInv, TypeOK, WalkInv
<1>3. rows' \in Seq(Items) /\ Len(rows') <= MaxPages * PageSize /\ ToSet(rows') \subseteq ToSet(rows)
  <2>1. MaxPages * PageSize \in Nat
    BY SizesAssumption, Multiples
  <2>2. CASE rows' = <<>>
    BY <2>1, <2>2 DEF ToSet
  <2>3. QED
    BY <1>1, <1>2, <2>2
<1>4. errors' \subseteq ToSet(Scopes) \cup Domains \cup Tokens
  BY <1>1, <1>2 DEF TypeInv, TypeOK, ToSet
<1>5. verdict' \in {"walking", "finished"} \cup WalkErrors
  BY <1>1 DEF WalkErrors
<1>6. TypeOK'
  BY <1>1, <1>3, <1>4, <1>5 DEF TypeInv, TypeOK
<1>7. CountInv'
  <2>1. ToSet(list') = ToSet(list)
    BY <1>1
  <2>2. QED
    BY <1>1, <1>3, <2>1 DEF TypeInv, CountInv
<1>8. WalkInv'
  BY <1>1 DEF WalkInv, Walking
<1>9. QED
  BY <1>6, <1>7, <1>8 DEF TypeInv

\* Every step keeps the types and what the counters say.
LEMMA TypeStep == TypeInv /\ [Next]_vars => TypeInv'
<1> SUFFICES ASSUME TypeInv, [Next]_vars PROVE TypeInv'
  OBVIOUS
<1>1. CASE Probe
  <2>1. /\ ~Walking /\ turn' = turn + 1 /\ turn = Len(Scopes)
        /\ \E failing \in SUBSET Domains : errors' = errors \cup failing
        /\ UNCHANGED <<verdict, list, url, seen, page, rows, kept, created, deleted, strayed>>
    BY <1>1 DEF Probe, tally
  <2>2. Len(Scopes) \in Nat
    BY ScopesAssumption, LenProperties
  <2>3. TypeOK'
    BY <2>1, <2>2 DEF TypeInv, TypeOK
  <2>4. ToSet(list') = ToSet(list) /\ ToSet(rows') = ToSet(rows)
    BY <2>1
  <2>5. CountInv' /\ WalkInv'
    BY <2>1, <2>4 DEF TypeInv, CountInv, WalkInv, Walking
  <2>6. QED
    BY <2>3, <2>5 DEF TypeInv
<1>2. CASE UNCHANGED vars
  <2>1. UNCHANGED <<turn, verdict, list, url, seen, page, rows, errors, kept, created, deleted, strayed>>
    BY <1>2 DEF vars, tally
  <2>2. ToSet(list') = ToSet(list) /\ ToSet(rows') = ToSet(rows) /\ Frontier' = Frontier
    BY <2>1 DEF Frontier
  <2>3. TypeOK' /\ CountInv' /\ WalkInv'
    BY <2>1, <2>2 DEF TypeInv, TypeOK, CountInv, WalkInv, Walking
  <2>4. QED
    BY <2>3 DEF TypeInv
<1>3. CASE Abort
  <2>1. /\ verdict' = "aborted" /\ turn' = Len(Scopes) + 1 /\ rows' = <<>>
        /\ UNCHANGED <<list, url, seen, page, errors, kept, created, deleted, strayed>>
    BY <1>3 DEF Abort, tally
  <2>2. Len(Scopes) \in Nat
    BY ScopesAssumption, LenProperties
  <2>3. rows' \in Seq(Items) /\ Len(rows') = 0 /\ ToSet(rows') = {} /\ ToSet(list') = ToSet(list)
    BY <2>1 DEF ToSet
  <2>4. MaxPages * PageSize \in Nat
    BY SizesAssumption, Multiples
  <2>5. TypeOK'
    BY <2>1, <2>2, <2>3, <2>4 DEF TypeInv, TypeOK
  <2>6. CountInv' /\ WalkInv'
    BY <2>1, <2>3 DEF TypeInv, CountInv, WalkInv, Walking
  <2>7. QED
    BY <2>5, <2>6 DEF TypeInv
<1>4. QED
  BY <1>1, <1>2, <1>3, TypeBegin, TypeCycle, TypeFetch, TypeCreate, TypeDelete DEF Next, Inventory

-----------------------------------------------------------------------------
(* A list that stands still                                                *)

\* A walk that was sent nothing but the pages is in step with its counter: it
\* asks for the page of that number, which it never did before.
StepInv ==
    Walking /\ ~strayed =>
        /\ url.page = page
        /\ \A u \in seen : u.page < page
        /\ Scope # "github.repositories" => url.path = "named"

\* It has read what the list holds up to there, and there is more unless this
\* is its first page.
QuietInv ==
    Walking /\ ~strayed /\ created + deleted = 0 =>
        /\ rows = SubSeq(list, 1, Frontier)
        /\ page = 1 \/ Frontier < Len(list)

QuietWalkInv == StepInv /\ QuietInv /\ QuietWalkVerdict

\* What the answer that was due does to a walk that is in step.
LEMMA RegularFetch ==
    ASSUME TypeInv, StepInv, NEW a \in Answers(url), Fetch(a), ~strayed'
    PROVE  /\ ~strayed /\ Walking /\ url.page = page /\ url \in URLs
           /\ page * PageSize < Len(list) =>
                /\ verdict' = IF page = MaxPages THEN "PageLimitExceeded" ELSE "walking"
                /\ verdict' = "walking" =>
                     /\ url'.page = page + 1
                     /\ Scope # "github.repositories" => url'.path = "named"
           /\ ~(page * PageSize < Len(list)) =>
                verdict' = IF Len(PageOf(url)) = PageSize THEN "FullPageWithoutNext"
                           ELSE "finished"
           /\ rows' = IF Scope # "github.repositories" /\ verdict' \in WalkErrors THEN <<>>
                      ELSE rows \o PageOf(url)
<1> DEFINE target == NextTarget(Scope, a.link, url)
           how == PageVerdict(a, target)
<1>1. /\ Walking /\ ~strayed /\ a = Regular(Scope, url)
      /\ Conclude(Scope, how, rows \o a.items)
      /\ url' = IF how = "walking" THEN target ELSE url
  BY DEF Fetch, Scope
<1>2. url.page = page /\ (Scope # "github.repositories" => url.path = "named") /\ url \in URLs
  BY <1>1 DEF StepInv, TypeInv, TypeOK
<1>3. page * PageSize \in Nat /\ Len(list) \in Nat
  <2>1. page \in Nat
    BY <1>2, SizesAssumption DEF URLs, URL
  <2>2. QED
    BY <2>1, LenProperties, Multiples, SizesAssumption DEF TypeInv, TypeOK
<1>4. /\ a.kind = "list" /\ a.items = PageOf(url)
      /\ a.link = IF page * PageSize < Len(list)
                  THEN URL(IF Scope = "github.repositories" THEN "numbered" ELSE "named", page + 1)
                  ELSE NoLink
  BY <1>1, <1>2, <1>3 DEF Regular, Answer
<1>5. a.link \in URLs \cup {NoLink, Foreign, Malformed}
  BY AnswerShape
<1>6. /\ target \in URLs \cup {NoLink, Foreign, Malformed}
      /\ target = NoLink <=> a.link = NoLink
  BY <1>5, TargetShape
<1>7. ASSUME page * PageSize < Len(list)
      PROVE  /\ target = a.link /\ target \in URLs /\ target.page = page + 1
             /\ Scope # "github.repositories" => target.path = "named"
  <2>1. /\ a.link.page = page + 1
        /\ a.link.path = IF Scope = "github.repositories" THEN "numbered" ELSE "named"
    BY <1>4, <1>7 DEF URL
  <2>2. a.link \in URLs
    <3>1. NoLink.page = 0 /\ Foreign.page = 0 /\ Malformed.page = 0
      BY DEF NoLink, Foreign, Malformed, URL
    <3>2. page \in Nat
      BY <1>2, SizesAssumption DEF URLs, URL
    <3>3. QED
      BY <1>5, <2>1, <3>1, <3>2
  <2>3. url.path \in {"named", "numbered"}
    BY <1>2 DEF URLs, URL, Paths
  <2>4. target = a.link
    BY <1>2, <2>1, <2>3 DEF NextTarget
  <2>5. QED
    BY <2>1, <2>2, <2>4
<1> HIDE DEF target
<1>8. /\ how \in {"walking", "finished"} \cup WalkErrors
      /\ how = "walking" <=> a.kind = "list" /\ target \in URLs /\ page # MaxPages
      /\ how = "finished" <=>
            a.kind = "list" /\ target = NoLink /\ Len(a.items) # PageSize
      /\ how = "FullPageWithoutNext" <=>
            a.kind = "list" /\ target = NoLink /\ Len(a.items) = PageSize
      /\ how = "PageLimitExceeded" <=> a.kind = "list" /\ target \in URLs /\ page = MaxPages
  BY <1>6, VerdictShape
<1> HIDE DEF how
<1>9. /\ verdict' = how
      /\ rows' = IF Scope # "github.repositories" /\ how \in WalkErrors THEN <<>>
                 ELSE rows \o PageOf(url)
  BY <1>1, <1>4 DEF Conclude
<1>10. QED
  BY <1>1, <1>2, <1>4, <1>6, <1>7, <1>8, <1>9

\* A fetch keeps a walk in step.
LEMMA StepFetch ==
    ASSUME TypeInv, StepInv, NEW a \in Answers(url), Fetch(a)
    PROVE  StepInv'
<1> SUFFICES ASSUME Walking', ~strayed'
             PROVE  /\ url'.page = page' /\ \A u \in seen' : u.page < page'
                    /\ Scope' # "github.repositories" => url'.path = "named"
  BY DEF StepInv
<1>1. /\ verdict' = "walking" /\ page' = page + 1 /\ seen' = seen \cup {url} /\ turn' = turn
      /\ url \in URLs
  BY FetchEffect DEF Walking
<1>2. ~strayed /\ Walking /\ url.page = page
  BY RegularFetch
<1>3. page * PageSize < Len(list)
  BY <1>1, RegularFetch
<1>4. url'.page = page + 1 /\ (Scope # "github.repositories" => url'.path = "named")
  BY <1>1, <1>3, RegularFetch
<1>5. page \in Nat /\ \A u \in seen : u.page \in Nat
  BY <1>1, <1>2, SizesAssumption DEF TypeInv, TypeOK, URLs, URL
<1>6. \A u \in seen : u.page < page
  BY <1>2 DEF StepInv
<1>7. \A u \in seen' : u.page < page'
  BY <1>1, <1>2, <1>5, <1>6
<1>8. QED
  BY <1>1, <1>4, <1>7 DEF Scope

\* A fetch of a list that stands still reads on, or ends with the verdict that
\* the length of the list calls for.
LEMMA QuietFetch ==
    ASSUME TypeInv, StepInv, QuietInv, NEW a \in Answers(url), Fetch(a)
    PROVE  QuietInv' /\ QuietWalkVerdict'
<1> SUFFICES ASSUME ~strayed', created' + deleted' = 0
             PROVE  QuietInv' /\ QuietWalkVerdict'
  BY DEF QuietInv, QuietWalkVerdict
<1> DEFINE before == (page - 1) * PageSize
           n == Len(list)
           capacity == MaxPages * PageSize
           last == IF before + PageSize < n THEN before + PageSize ELSE n
<1> USE SizesAssumption
<1>1. /\ page' = page + 1 /\ list' = list /\ turn' = turn
      /\ created' = created /\ deleted' = deleted
      /\ page <= MaxPages /\ turn \in DOMAIN Scopes
  BY FetchEffect DEF TypeInv, WalkInv
<1>2. ~strayed /\ Walking /\ url.page = page /\ url \in URLs /\ list \in Seq(Items)
  BY RegularFetch DEF TypeInv, TypeOK
<1>3. page \in Nat \ {0} /\ n \in Nat
  BY <1>2, LenProperties DEF URLs, URL
<1>4. /\ before \in Nat /\ page * PageSize = before + PageSize
      /\ capacity \in Nat /\ before + PageSize <= capacity
      /\ page = MaxPages => before + PageSize = capacity
  <2>1. page - 1 \in Nat /\ page = (page - 1) + 1
    BY <1>3
  <2>2. page * PageSize = before + PageSize /\ before \in Nat
    BY <2>1, Multiples
  <2>3. page * PageSize <= capacity /\ capacity \in Nat
    BY <1>1, <1>3, Multiples
  <2>4. QED
    BY <2>2, <2>3
<1>5. /\ rows = SubSeq(list, 1, before)
      /\ page = 1 \/ before < n
  BY <1>1, <1>2 DEF QuietInv, Frontier
<1>6. before <= n /\ (before < n \/ before = 0)
  <2>1. page = 1 => before = 0
    OBVIOUS
  <2>2. QED
    BY <1>3, <1>4, <1>5, <2>1
<1>7. PageOf(url) = SubSeq(list, before + 1, last)
  BY <1>2, <1>4 DEF PageOf
<1>8. Len(PageOf(url)) = IF before + PageSize < n THEN PageSize ELSE n - before
  <2>1. Len(PageOf(url)) = IF before + PageSize < n THEN PageSize
                           ELSE IF before < n THEN n - before ELSE 0
    BY <1>2, PageProperties
  <2> HIDE DEF before, n
  <2>2. QED
    BY <1>3, <1>4, <1>6, <2>1
<1> HIDE DEF before, n, capacity
<1>9. last \in Nat /\ before <= last /\ last <= n
  BY <1>3, <1>4, <1>6
<1> HIDE DEF last
<1>10. rows \o PageOf(url) = SubSeq(list, 1, last)
  <2>1. 1 \in 1 .. n + 1 /\ before \in 1 - 1 .. n /\ last \in before .. n
    BY <1>3, <1>4, <1>6, <1>9
  <2>2. SubSeq(list, 1, before) \o SubSeq(list, before + 1, last) = SubSeq(list, 1, last)
    BY <1>2, <2>1, ConcatAdjacentSubSeq DEF n
  <2>3. QED
    BY <1>5, <1>7, <2>2
<1>11. /\ before + PageSize < n =>
            verdict' = IF page = MaxPages THEN "PageLimitExceeded" ELSE "walking"
       /\ ~(before + PageSize < n) =>
            verdict' = IF Len(PageOf(url)) = PageSize THEN "FullPageWithoutNext" ELSE "finished"
       /\ rows' = IF Scope # "github.repositories" /\ verdict' \in WalkErrors THEN <<>>
                  ELSE SubSeq(list, 1, last)
  BY <1>4, <1>10, RegularFetch DEF n
<1>12. last = IF before + PageSize < n THEN before + PageSize ELSE n
  BY DEF last
<1>13. ASSUME Walking'
       PROVE  QuietInv' /\ QuietWalkVerdict'
  <2>1. verdict' = "walking" /\ "walking" \notin WalkErrors
    BY <1>13 DEF Walking, WalkErrors, Refusals, LinkErrors
  <2>2. before + PageSize < n
    BY <1>11, <2>1
  <2>3. Frontier' = before + PageSize
    <3>1. page' - 1 = page
      BY <1>1, <1>3
    <3>2. QED
      BY <1>4, <3>1 DEF Frontier
  <2>4. rows' = SubSeq(list', 1, Frontier') /\ Frontier' < Len(list')
    BY <1>1, <1>11, <1>12, <2>1, <2>2, <2>3 DEF n
  <2>5. QED
    BY <1>13, <2>4 DEF QuietInv, QuietWalkVerdict
<1>14. ASSUME ~Walking'
       PROVE  QuietInv' /\ QuietWalkVerdict'
  <2>1. verdict' # "walking"
    BY <1>14 DEF Walking
  <2>2. Scope' = Scope /\ Len(list') = n
    BY <1>1 DEF Scope, n
  <2>3. /\ verdict' = IF n > capacity THEN "PageLimitExceeded"
                      ELSE IF n > 0 /\ n % PageSize = 0 THEN "FullPageWithoutNext"
                      ELSE "finished"
        /\ last = IF n > capacity THEN capacity ELSE n
    <3>1. CASE before + PageSize < n
      <4>1. page = MaxPages /\ verdict' = "PageLimitExceeded"
        BY <1>11, <2>1, <3>1
      <4>2. QED
        BY <1>3, <1>4, <1>12, <3>1, <4>1
    <3>2. CASE ~(before + PageSize < n)
      <4>1. ~(n > capacity) /\ last = n
        BY <1>3, <1>4, <1>12, <3>2
      <4>2. Len(PageOf(url)) = n - before
        BY <1>8, <3>2
      <4>3. CASE n = before + PageSize
        <5>1. n % PageSize = 0 /\ n > 0
          <6>1. (page * PageSize) % PageSize = 0
            BY <1>3, FullPages
          <6>2. QED
            BY <1>4, <4>3, <6>1
        <5>2. verdict' = "FullPageWithoutNext"
          BY <1>4, <1>11, <3>2, <4>2, <4>3
        <5>3. QED
          BY <4>1, <5>1, <5>2
      <4>4. CASE n # before + PageSize
        <5>1. verdict' = "finished"
          BY <1>3, <1>4, <1>11, <3>2, <4>2, <4>4
        <5>2. n > 0 => n % PageSize # 0
          <6>1. CASE before < n
            <7>1. n < before + PageSize /\ page - 1 \in Nat
              BY <1>3, <1>4, <3>2, <4>4
            <7>2. QED
              BY <1>3, <6>1, <7>1, PartPage DEF before
          <6>2. CASE ~(before < n)
            BY <1>3, <1>4, <1>6, <6>2
          <6>3. QED
            BY <6>1, <6>2
        <5>3. QED
          BY <4>1, <5>1, <5>2
      <4>5. QED
        BY <4>3, <4>4
    <3>3. QED
      BY <3>1, <3>2
  <2>4. verdict' \in WalkErrors <=> verdict' # "finished"
    BY <2>3 DEF WalkErrors, Refusals, LinkErrors
  <2>5. rows' = IF verdict' # "finished" /\ Scope # "github.repositories" THEN <<>>
                ELSE SubSeq(list, 1, IF n > capacity THEN capacity ELSE n)
    BY <1>11, <2>3, <2>4
  <2>6. QED
    BY <1>1, <1>14, <2>2, <2>3, <2>5 DEF QuietInv, QuietWalkVerdict, capacity
<1>15. QED
  BY <1>13, <1>14

-----------------------------------------------------------------------------
(* A list that changes                                                     *)

\* The items of a list up to position f, and those from there on.
Before(s, f) == {s[i] : i \in {j \in DOMAIN s : j <= f}}
After(s, f)  == {s[i] : i \in {j \in DOMAIN s : j > f}}

\* A deletion moves at most one item to before a position, and none to after it.
LEMMA SplitRemoved ==
    ASSUME NEW S, NEW s \in Seq(S), NEW i \in 1 .. Len(s), NEW f \in Nat
    PROVE  /\ Before(RemoveAt(s, i), f) \subseteq Before(s, f) \cup {s[f + 1]}
           /\ After(RemoveAt(s, i), f) \subseteq After(s, f)
<1> DEFINE t == RemoveAt(s, i)
<1>1. /\ t \in Seq(S) /\ Len(t) = Len(s) - 1
      /\ \A j \in 1 .. Len(s) - 1 : t[j] = IF j < i THEN s[j] ELSE s[j + 1]
  BY RemoveAtProperties
<1> HIDE DEF t
<1>2. Len(s) \in Nat /\ DOMAIN s = 1 .. Len(s) /\ DOMAIN t = 1 .. Len(s) - 1
  BY <1>1, LenProperties
<1>3. ASSUME NEW x \in Before(t, f) PROVE x \in Before(s, f) \cup {s[f + 1]}
  <2>1. PICK j \in 1 .. Len(s) - 1 : j <= f /\ x = t[j]
    BY <1>2 DEF Before
  <2>2. j \in 1 .. Len(s) /\ j + 1 \in 1 .. Len(s)
    BY <1>2
  <2>3. (j + 1 <= f \/ j = f) /\ (x = s[j] \/ x = s[j + 1])
    BY <1>1, <2>1
  <2>4. QED
    BY <1>2, <2>1, <2>2, <2>3 DEF Before
<1>4. ASSUME NEW x \in After(t, f) PROVE x \in After(s, f)
  <2>1. PICK j \in 1 .. Len(s) - 1 : j > f /\ x = t[j]
    BY <1>2 DEF After
  <2>2. j \in 1 .. Len(s) /\ j + 1 \in 1 .. Len(s) /\ j + 1 > f
    BY <1>2, <2>1
  <2>3. x = s[j] \/ x = s[j + 1]
    BY <1>1, <2>1
  <2>4. QED
    BY <1>2, <2>1, <2>2, <2>3 DEF After
<1>5. QED
  BY <1>3, <1>4 DEF t

\* A creation moves at most one item to after a position, and none to before it.
LEMMA SplitInserted ==
    ASSUME NEW S, NEW s \in Seq(S), NEW i \in 1 .. Len(s) + 1, NEW e \in S, NEW f \in Nat
    PROVE  /\ Before(InsertAt(s, i, e), f) \subseteq Before(s, f) \cup {e}
           /\ After(InsertAt(s, i, e), f) \subseteq After(s, f) \cup {e, s[f]}
<1> DEFINE t == InsertAt(s, i, e)
<1>1. /\ t \in Seq(S) /\ Len(t) = Len(s) + 1
      /\ \A j \in 1 .. Len(s) + 1 :
            t[j] = IF j < i THEN s[j] ELSE IF j = i THEN e ELSE s[j - 1]
  BY InsertAtProperties
<1> HIDE DEF t
<1>2. Len(s) \in Nat /\ DOMAIN s = 1 .. Len(s) /\ DOMAIN t = 1 .. Len(s) + 1
  BY <1>1, LenProperties
<1>3. \A j \in 1 .. Len(s) + 1 :
        \/ j \in 1 .. Len(s) /\ t[j] = s[j]
        \/ t[j] = e
        \/ j - 1 \in 1 .. Len(s) /\ t[j] = s[j - 1]
  BY <1>1, <1>2
<1>4. ASSUME NEW x \in Before(t, f) PROVE x \in Before(s, f) \cup {e}
  <2>1. PICK j \in 1 .. Len(s) + 1 : j <= f /\ x = t[j]
    BY <1>2 DEF Before
  <2>2. j - 1 <= f
    BY <1>2, <2>1
  <2>3. QED
    BY <1>2, <1>3, <2>1, <2>2 DEF Before
<1>5. ASSUME NEW x \in After(t, f) PROVE x \in After(s, f) \cup {e, s[f]}
  <2>1. PICK j \in 1 .. Len(s) + 1 : j > f /\ x = t[j]
    BY <1>2 DEF After
  <2>2. j - 1 > f \/ j - 1 = f
    BY <1>2, <2>1
  <2>3. QED
    BY <1>2, <1>3, <2>1, <2>2 DEF After
<1>6. QED
  BY <1>4, <1>5 DEF t

\* What is before and after a page, and what is on it.
LEMMA SplitPage ==
    ASSUME list \in Seq(Items), IsInjective(list), NEW u \in URLs
    PROVE  LET f == (u.page - 1) * PageSize
               g == u.page * PageSize
               on == PageOf(u)
           IN  /\ on \in Seq(Items) /\ IsInjective(on)
               /\ Before(list, g) \subseteq Before(list, f) \cup ToSet(on)
               /\ After(list, g) \subseteq After(list, f) \ ToSet(on)
               /\ ToSet(on) \subseteq After(list, f)
               /\ g >= Len(list) => Before(list, g) = ToSet(list)
<1> DEFINE f == (u.page - 1) * PageSize
           g == u.page * PageSize
           on == PageOf(u)
<1>1. /\ f \in Nat /\ g = f + PageSize /\ on \in Seq(Items)
      /\ Len(on) = IF f + PageSize < Len(list) THEN PageSize
                   ELSE IF f < Len(list) THEN Len(list) - f ELSE 0
      /\ \A j \in 1 .. Len(on) : on[j] = list[f + j]
  BY PageProperties
<1> HIDE DEF f, g, on
<1>2. /\ Len(list) \in Nat /\ DOMAIN list = 1 .. Len(list)
      /\ Len(on) \in Nat /\ DOMAIN on = 1 .. Len(on)
      /\ PageSize \in Nat \ {0}
  BY <1>1, LenProperties, SizesAssumption
<1> DEFINE m == Len(on)
           n == Len(list)
<1>3. /\ f \in Nat /\ g = f + PageSize /\ PageSize \in Nat \ {0}
      /\ m \in Nat /\ n \in Nat
      /\ m = IF f + PageSize < n THEN PageSize ELSE IF f < n THEN n - f ELSE 0
  BY <1>1, <1>2
<1>4. /\ \A i \in 1 .. Len(list) : i > f /\ i <= g <=> i - f \in 1 .. Len(on)
      /\ \A j \in 1 .. Len(on) : f + j \in 1 .. Len(list) /\ on[j] = list[f + j]
  <2> HIDE DEF m, n
  <2>1. \A i \in 1 .. n : i > f /\ i <= g <=> i - f \in 1 .. m
    BY <1>3
  <2>2. m > 0 => f + m <= n
    BY <1>3
  <2>3. \A j \in 1 .. m : f + j \in 1 .. n
    BY <1>3, <2>2
  <2>4. \A j \in 1 .. m : on[j] = list[f + j]
    BY <1>1 DEF m
  <2>5. QED
    BY <2>1, <2>3, <2>4 DEF m, n
<1>5. \A a, b \in 1 .. Len(list) : list[a] = list[b] => a = b
  BY <1>2 DEF IsInjective
<1>6. f \in Nat /\ g = f + PageSize
  BY <1>1
<1>7. IsInjective(on)
  <2>1. ASSUME NEW a \in 1 .. Len(on), NEW b \in 1 .. Len(on), on[a] = on[b]
        PROVE  a = b
    <3>1. f + a = f + b
      BY <1>4, <1>5, <2>1
    <3>2. QED
      BY <1>2, <1>6, <3>1
  <2>2. QED
    BY <1>2, <2>1 DEF IsInjective
<1>8. \A i \in 1 .. Len(list) : list[i] \in ToSet(on) <=> i > f /\ i <= g
  <2>1. ASSUME NEW i \in 1 .. Len(list), i > f, i <= g PROVE list[i] \in ToSet(on)
    <3>1. i - f \in 1 .. Len(on) /\ f + (i - f) = i
      BY <1>4, <1>6, <2>1
    <3>2. on[i - f] = list[i]
      BY <1>4, <3>1
    <3>3. QED
      BY <1>2, <3>1, <3>2 DEF ToSet
  <2>2. ASSUME NEW i \in 1 .. Len(list), list[i] \in ToSet(on) PROVE i > f /\ i <= g
    <3>1. PICK j \in 1 .. Len(on) : on[j] = list[i]
      BY <1>2, <2>2 DEF ToSet
    <3>2. i = f + j /\ i - f = j
      <4>1. i = f + j
        BY <1>4, <1>5, <3>1
      <4>2. QED
        BY <1>6, <4>1
    <3>3. QED
      BY <1>4, <3>2
  <2>3. QED
    BY <2>1, <2>2
<1>9. Before(list, g) \subseteq Before(list, f) \cup ToSet(on)
  <2>1. ASSUME NEW x \in Before(list, g) PROVE x \in Before(list, f) \cup ToSet(on)
    <3>1. PICK i \in 1 .. Len(list) : i <= g /\ x = list[i]
      BY <1>2 DEF Before
    <3>2. CASE i <= f
      BY <1>2, <3>1, <3>2 DEF Before
    <3>3. CASE i > f
      BY <1>8, <3>1, <3>3
    <3>4. QED
      BY <1>6, <3>2, <3>3
  <2>2. QED
    BY <2>1
<1>10. After(list, g) \subseteq After(list, f) \ ToSet(on)
  <2>1. ASSUME NEW x \in After(list, g) PROVE x \in After(list, f) /\ x \notin ToSet(on)
    <3>1. PICK i \in 1 .. Len(list) : i > g /\ x = list[i]
      BY <1>2 DEF After
    <3>2. i > f /\ ~(i <= g)
      BY <1>2, <1>6, <3>1
    <3>3. QED
      BY <1>2, <1>8, <3>1, <3>2 DEF After
  <2>2. QED
    BY <2>1
<1>11. ToSet(on) \subseteq After(list, f)
  <2>1. ASSUME NEW x \in ToSet(on) PROVE x \in After(list, f)
    <3>1. PICK j \in 1 .. Len(on) : on[j] = x
      BY <1>2 DEF ToSet
    <3>2. f + j > f
      BY <1>2, <1>6
    <3>3. QED
      BY <1>2, <1>4, <3>1, <3>2 DEF After
  <2>2. QED
    BY <2>1
<1>12. g >= Len(list) => Before(list, g) = ToSet(list)
  <2>1. g >= Len(list) => \A i \in 1 .. Len(list) : i <= g
    BY <1>2, <1>6
  <2>2. QED
    BY <1>2, <2>1 DEF Before, ToSet
<1>13. QED
  BY <1>1, <1>7, <1>9, <1>10, <1>11, <1>12 DEF f, g, on

\* The items listed all along that were passed and not read, those read that are
\* still to come, and how many rows are repetitions.
Missed == (kept \cap Before(list, Frontier)) \ ToSet(rows)
Late == After(list, Frontier) \cap ToSet(rows)
Repeats == Len(rows) - Cardinality(ToSet(rows))

\* While a walk is under way, an item is passed unread only by a deletion, and
\* one that was read is due again only by a creation.
MovingInv ==
    Walking /\ ~strayed =>
        /\ Cardinality(Missed) <= deleted
        /\ Repeats + Cardinality(Late) <= created

\* The sets that are counted are finite.
LEMMA CountsFinite ==
    ASSUME TypeInv
    PROVE  /\ IsFiniteSet(kept) /\ IsFiniteSet(ToSet(rows)) /\ IsFiniteSet(ToSet(list))
           /\ IsFiniteSet(Missed) /\ Cardinality(Missed) \in Nat
           /\ IsFiniteSet(Late) /\ Cardinality(Late) \in Nat
           /\ Repeats \in Int /\ Cardinality(ToSet(rows)) \in Nat /\ Len(rows) \in Nat
           /\ created \in Nat /\ deleted \in Nat
<1>1. /\ rows \in Seq(Items) /\ list \in Seq(Items) /\ kept \subseteq ToSet(list)
      /\ created \in Nat /\ deleted \in Nat
  BY DEF TypeInv, TypeOK, CountInv
<1>2. /\ IsFiniteSet(ToSet(rows)) /\ Cardinality(ToSet(rows)) \in Nat
      /\ IsFiniteSet(ToSet(list)) /\ Len(rows) \in Nat
  BY <1>1, ElementsFinite, LenProperties
<1>3. IsFiniteSet(kept) /\ IsFiniteSet(Missed) /\ IsFiniteSet(Late)
  <2>1. kept \in SUBSET ToSet(list) /\ Missed \in SUBSET ToSet(list) /\ Late \in SUBSET ToSet(rows)
    BY <1>1 DEF Missed, Late
  <2>2. QED
    BY <1>2, <2>1, FS_Subset
<1>4. QED
  BY <1>1, <1>2, <1>3, FS_CardinalityType DEF Repeats

\* One element more or less counts at most one.
LEMMA OneMore ==
    ASSUME NEW S, IsFiniteSet(S), NEW x, NEW T, T \subseteq S \cup {x}
    PROVE  IsFiniteSet(T) /\ Cardinality(T) <= Cardinality(S) + 1
<1>1. /\ IsFiniteSet(S \cup {x}) /\ Cardinality(S) \in Nat
      /\ Cardinality(S \cup {x}) \in {Cardinality(S), Cardinality(S) + 1}
  BY FS_AddElement, FS_CardinalityType
<1>2. IsFiniteSet(T) /\ Cardinality(T) <= Cardinality(S \cup {x}) /\ Cardinality(T) \in Nat
  <2>1. T \in SUBSET (S \cup {x})
    OBVIOUS
  <2>2. QED
    BY <1>1, <2>1, FS_Subset, FS_CardinalityType
<1>3. QED
  BY <1>1, <1>2

\* Reading the page that is due misses nothing more, and repeats only what was
\* due again.
LEMMA ReadOn ==
    ASSUME TypeInv, MovingInv, Walking, ~strayed, url.page = page
    PROVE  LET f == page * PageSize
               found == rows \o PageOf(url)
           IN  /\ Cardinality((kept \cap Before(list, f)) \ ToSet(found)) <= deleted
               /\ Len(found) - Cardinality(ToSet(found))
                    + Cardinality(After(list, f) \cap ToSet(found)) <= created
               /\ f >= Len(list) => Before(list, f) = ToSet(list)
<1> DEFINE f == page * PageSize
           on == PageOf(url)
           found == rows \o on
<1>1. url \in URLs /\ list \in Seq(Items) /\ rows \in Seq(Items) /\ IsInjective(list)
  BY DEF TypeInv, TypeOK
<1>2. /\ on \in Seq(Items) /\ IsInjective(on)
      /\ Before(list, f) \subseteq Before(list, Frontier) \cup ToSet(on)
      /\ After(list, f) \subseteq After(list, Frontier) \ ToSet(on)
      /\ ToSet(on) \subseteq After(list, Frontier)
      /\ f >= Len(list) => Before(list, f) = ToSet(list)
  BY <1>1, SplitPage DEF Frontier
<1>3. /\ Cardinality(Missed) <= deleted
      /\ Repeats + Cardinality(Late) <= created
  BY DEF MovingInv
<1> HIDE DEF f, on
<1>4. Len(found) = Len(rows) + Len(on) /\ ToSet(found) = ToSet(rows) \cup ToSet(on)
  BY <1>1, <1>2, Appended
<1>5. /\ IsFiniteSet(ToSet(on)) /\ Cardinality(ToSet(on)) = Len(on) /\ Len(on) \in Nat
  BY <1>2, ElementsFinite, LenProperties
<1> HIDE DEF found
<1>6. Cardinality((kept \cap Before(list, f)) \ ToSet(found)) <= deleted
  <2>1. (kept \cap Before(list, f)) \ ToSet(found) \in SUBSET Missed
    BY <1>2, <1>4 DEF Missed
  <2>2. /\ Cardinality((kept \cap Before(list, f)) \ ToSet(found)) <= Cardinality(Missed)
        /\ Cardinality((kept \cap Before(list, f)) \ ToSet(found)) \in Nat
    BY <2>1, CountsFinite, FS_Subset, FS_CardinalityType
  <2>3. QED
    BY <1>3, <2>2, CountsFinite
<1>7. Len(found) - Cardinality(ToSet(found)) + Cardinality(After(list, f) \cap ToSet(found)) <= created
  <2> DEFINE again == ToSet(rows) \cap ToSet(on)
             due == After(list, f) \cap ToSet(found)
  <2>1. IsFiniteSet(ToSet(rows)) /\ IsFiniteSet(Late)
    BY CountsFinite
  <2>2. /\ IsFiniteSet(again) /\ Cardinality(again) \in Nat
        /\ Cardinality(ToSet(found)) = Cardinality(ToSet(rows)) + Len(on) - Cardinality(again)
    BY <1>4, <1>5, <2>1, FS_Union, FS_Intersection, FS_CardinalityType
  <2>3. Late \cap again = again
    BY <1>2 DEF Late
  <2>4. /\ IsFiniteSet(Late \ again)
        /\ Cardinality(Late \ again) = Cardinality(Late) - Cardinality(again)
    BY <2>1, <2>3, FS_Difference
  <2>5. due \in SUBSET (Late \ again)
    BY <1>2, <1>4 DEF Late
  <2>6. Cardinality(due) <= Cardinality(Late \ again) /\ Cardinality(due) \in Nat
    BY <2>4, <2>5, FS_Subset, FS_CardinalityType
  <2> HIDE DEF again, due
  <2>7. Len(found) - Cardinality(ToSet(found)) = Repeats + Cardinality(again)
    BY <1>4, <1>5, <2>2, CountsFinite DEF Repeats
  <2>8. Repeats + Cardinality(again) + Cardinality(due) <= created
    BY <1>3, <2>2, <2>4, <2>6, CountsFinite
  <2>9. QED
    BY <2>7, <2>8 DEF due
<1>8. QED
  BY <1>2, <1>6, <1>7 DEF f, on, found

\* A fetch keeps the counts, and a walk that ends without an error has passed
\* the whole list.
LEMMA MovingFetch ==
    ASSUME TypeInv, StepInv, MovingInv, NEW a \in Answers(url), Fetch(a)
    PROVE  MovingInv' /\ FaithfulUnderChanges'
<1> SUFFICES ASSUME ~strayed', verdict' \in {"walking", "finished"}
             PROVE  MovingInv' /\ FaithfulUnderChanges'
  BY DEF MovingInv, FaithfulUnderChanges, Walking
<1> DEFINE f == page * PageSize
           found == rows \o PageOf(url)
<1>1. /\ Walking /\ ~strayed /\ url.page = page
      /\ rows' = found /\ page' = page + 1
      /\ UNCHANGED <<turn, list, kept, created, deleted>>
  BY RegularFetch, FetchEffect
<1>2. /\ Cardinality((kept \cap Before(list, f)) \ ToSet(found)) <= deleted
      /\ Len(found) - Cardinality(ToSet(found))
            + Cardinality(After(list, f) \cap ToSet(found)) <= created
      /\ f >= Len(list) => Before(list, f) = ToSet(list)
  BY <1>1, ReadOn
<1>3. Frontier' = f /\ f \in Nat /\ Len(list) \in Nat
  <2>1. page \in Nat
    BY <1>1, SizesAssumption DEF TypeInv, TypeOK, URLs, URL
  <2>2. page' - 1 = page
    BY <1>1, <2>1
  <2>3. Len(list) \in Nat
    BY LenProperties DEF TypeInv, TypeOK
  <2>4. QED
    BY <2>1, <2>2, <2>3, SizesAssumption, Multiples DEF Frontier
<1> HIDE DEF f, found
<1>4. TypeInv'
  BY TypeFetch
<1>5. Missed' = (kept \cap Before(list, f)) \ ToSet(found)
  BY <1>1, <1>3 DEF Missed
<1>6. Late' = After(list, f) \cap ToSet(found)
  BY <1>1, <1>3 DEF Late
<1>7. Repeats' = Len(found) - Cardinality(ToSet(found))
  BY <1>1 DEF Repeats
<1>8. MovingInv'
  BY <1>1, <1>2, <1>5, <1>6, <1>7 DEF MovingInv
<1>9. FaithfulUnderChanges'
  <2>1. SUFFICES ASSUME verdict' = "finished" PROVE FaithfulUnderChanges'
    BY DEF FaithfulUnderChanges
  <2>2. f >= Len(list)
    BY <1>3, <2>1, RegularFetch DEF f
  <2>3. kept \cap Before(list, f) = kept
    BY <1>2, <2>2 DEF TypeInv, TypeOK
  <2>4. Cardinality(kept' \ ToSet(rows')) <= deleted'
    BY <1>1, <1>2, <2>3
  <2>5. /\ Cardinality(Late') \in Nat /\ Repeats' \in Int /\ created' \in Nat
        /\ Repeats' + Cardinality(Late') <= created'
    <3>1. rows' \in Seq(Items) /\ created' \in Nat
      BY <1>4 DEF TypeInv, TypeOK, CountInv
    <3>2. /\ IsFiniteSet(ToSet(rows')) /\ Cardinality(ToSet(rows')) \in Nat /\ Len(rows') \in Nat
      BY <3>1, ElementsFinite, LenProperties
    <3>3. Late' \in SUBSET ToSet(rows')
      BY DEF Late
    <3>4. Cardinality(Late') \in Nat /\ Repeats' \in Int
      BY <3>2, <3>3, FS_Subset, FS_CardinalityType DEF Repeats
    <3>5. QED
      BY <1>1, <1>2, <1>6, <1>7, <3>1, <3>4
  <2>6. Len(rows') - Cardinality(ToSet(rows')) <= created'
    BY <2>5 DEF Repeats
  <2>7. QED
    BY <2>4, <2>6 DEF FaithfulUnderChanges
<1>10. QED
  BY <1>8, <1>9

\* A creation may make one item due again, ...
LEMMA MovingCreate ==
    ASSUME TypeInv, MovingInv, NEW i \in 1 .. Len(list) + 1, Create(i)
    PROVE  MovingInv' /\ FaithfulUnderChanges'
<1> DEFINE e == MaxItems + created + 1
           y == list[Frontier]
<1>1. e \in Items /\ e \notin ToSet(list) \cup ToSet(rows) /\ list' = InsertAt(list, i, e)
  BY CreateEffect
<1>2. /\ Walking /\ ~strayed /\ created' = created + 1
      /\ UNCHANGED <<verdict, page, rows, kept, deleted, strayed>>
  BY DEF Create
<1>3. Frontier \in Nat /\ Frontier' = Frontier /\ list \in Seq(Items) /\ kept \subseteq ToSet(list)
  <2>1. page - 1 \in Nat
    BY FS_CardinalityType DEF TypeInv, TypeOK, CountInv
  <2>2. QED
    BY <1>2, <2>1, Multiples, SizesAssumption DEF TypeInv, TypeOK, Frontier
<1> HIDE DEF e, y
<1>4. /\ Before(list', Frontier) \subseteq Before(list, Frontier) \cup {e}
      /\ After(list', Frontier) \subseteq After(list, Frontier) \cup {e, y}
  BY <1>1, <1>3, SplitInserted DEF y
<1>5. /\ Cardinality(Missed) <= deleted
      /\ Repeats + Cardinality(Late) <= created
  BY <1>2 DEF MovingInv
<1>6. Missed' \in SUBSET Missed
  BY <1>1, <1>2, <1>3, <1>4 DEF Missed
<1>7. Cardinality(Missed') <= deleted'
  <2>1. Cardinality(Missed') <= Cardinality(Missed) /\ Cardinality(Missed') \in Nat
    BY <1>6, CountsFinite, FS_Subset, FS_CardinalityType
  <2>2. QED
    BY <1>2, <1>5, <2>1, CountsFinite
<1>8. Late' \subseteq Late \cup {y}
  BY <1>1, <1>2, <1>3, <1>4 DEF Late
<1>9. Repeats' + Cardinality(Late') <= created'
  <2>1. Cardinality(Late') <= Cardinality(Late) + 1 /\ Cardinality(Late') \in Nat
    BY <1>8, OneMore, CountsFinite, FS_CardinalityType
  <2>2. Repeats' = Repeats
    BY <1>2 DEF Repeats
  <2>3. QED
    BY <1>2, <1>5, <2>1, <2>2, CountsFinite
<1>10. QED
  BY <1>2, <1>7, <1>9 DEF MovingInv, FaithfulUnderChanges, Walking

\* ... and a deletion may take one item past the walk.
LEMMA MovingDelete ==
    ASSUME TypeInv, MovingInv, NEW i \in 1 .. Len(list), Delete(i)
    PROVE  MovingInv' /\ FaithfulUnderChanges'
<1> DEFINE y == list[Frontier + 1]
<1>1. /\ Walking /\ ~strayed /\ deleted' = deleted + 1 /\ list' = RemoveAt(list, i)
      /\ kept' \subseteq kept
      /\ UNCHANGED <<verdict, page, rows, created, strayed>>
  BY DEF Delete
<1>2. Frontier \in Nat /\ Frontier' = Frontier /\ list \in Seq(Items)
  <2>1. page - 1 \in Nat
    BY FS_CardinalityType DEF TypeInv, TypeOK, CountInv
  <2>2. QED
    BY <1>1, <2>1, Multiples, SizesAssumption DEF TypeInv, TypeOK, Frontier
<1> HIDE DEF y
<1>3. /\ Before(list', Frontier) \subseteq Before(list, Frontier) \cup {y}
      /\ After(list', Frontier) \subseteq After(list, Frontier)
  BY <1>1, <1>2, SplitRemoved DEF y
<1>4. /\ Cardinality(Missed) <= deleted
      /\ Repeats + Cardinality(Late) <= created
  BY <1>1 DEF MovingInv
<1>5. Missed' \subseteq Missed \cup {y}
  BY <1>1, <1>2, <1>3 DEF Missed
<1>6. Cardinality(Missed') <= deleted'
  <2>1. Cardinality(Missed') <= Cardinality(Missed) + 1 /\ Cardinality(Missed') \in Nat
    BY <1>5, OneMore, CountsFinite, FS_CardinalityType
  <2>2. QED
    BY <1>1, <1>4, <2>1, CountsFinite
<1>7. Late' \in SUBSET Late
  BY <1>1, <1>2, <1>3 DEF Late
<1>8. Repeats' + Cardinality(Late') <= created'
  <2>1. Cardinality(Late') <= Cardinality(Late) /\ Cardinality(Late') \in Nat
    BY <1>7, CountsFinite, FS_Subset, FS_CardinalityType
  <2>2. Repeats' = Repeats
    BY <1>1 DEF Repeats
  <2>3. QED
    BY <1>1, <1>4, <2>1, <2>2, CountsFinite
<1>9. QED
  BY <1>1, <1>6, <1>8 DEF MovingInv, FaithfulUnderChanges, Walking

\* A walk begins with nothing passed and nothing read.
LEMMA MovingBegin ==
    ASSUME TypeInv, Begin
    PROVE  MovingInv' /\ FaithfulUnderChanges'
<1>1. /\ page' = 1 /\ rows' = <<>> /\ verdict' = "walking" /\ created' = 0 /\ deleted' = 0
  BY DEF Begin, Lists
<1>2. TypeInv'
  BY TypeBegin
<1>3. Frontier' = 0 /\ ToSet(rows') = {} /\ Len(rows') = 0
  BY <1>1, SizesAssumption DEF Frontier, ToSet
<1>4. Before(list', 0) = {}
  <2>1. DOMAIN list' = 1 .. Len(list') /\ Len(list') \in Nat
    BY <1>2, LenProperties DEF TypeInv, TypeOK
  <2>2. QED
    BY <2>1 DEF Before
<1>5. Missed' = {} /\ Late' = {} /\ Repeats' = 0
  BY <1>3, <1>4, FS_EmptySet DEF Missed, Late, Repeats
<1>6. QED
  BY <1>1, <1>5, FS_EmptySet DEF MovingInv, FaithfulUnderChanges

-----------------------------------------------------------------------------
(* The theorems                                                            *)

\* The inductive invariant: types, lists that stand still, lists that change.
IInv == TypeInv /\ QuietWalkInv /\ MovingInv /\ FaithfulUnderChanges

\* When the first walk has not begun, nothing is claimed of one.
LEMMA InvInit == Init => IInv
<1> SUFFICES ASSUME Init PROVE IInv
  OBVIOUS
<1>1. TypeInv
  BY TypeInit
<1>2. ~Walking /\ turn = 0 /\ kept = {} /\ rows = <<>> /\ created = 0 /\ deleted = 0
  BY DEF Init, Walking
<1>3. turn \notin DOMAIN Scopes
  <2>1. DOMAIN Scopes = 1 .. Len(Scopes)
    BY ScopesAssumption, LenProperties
  <2>2. QED
    BY <1>2, <2>1
<1>4. FaithfulUnderChanges
  <2>1. ToSet(rows) = {} /\ Len(rows) = 0
    BY <1>2 DEF ToSet
  <2>2. kept \ ToSet(rows) = {}
    BY <1>2
  <2>3. Cardinality({}) = 0
    BY FS_EmptySet
  <2>4. Cardinality(kept \ ToSet(rows)) = 0 /\ Cardinality(ToSet(rows)) = 0 /\ Len(rows) = 0
    BY <2>1, <2>2, <2>3, Zenon
  <2>5. QED
    BY <1>2, <2>4 DEF FaithfulUnderChanges
<1>5. QED
  BY <1>1, <1>2, <1>3, <1>4 DEF IInv, QuietWalkInv, StepInv, QuietInv, QuietWalkVerdict, MovingInv

\* A change of the list is no longer one that stands still.
LEMMA QuietChange ==
    ASSUME TypeInv, QuietWalkInv,
           \/ \E i \in 1 .. Len(list) + 1 : Create(i)
           \/ \E i \in 1 .. Len(list) : Delete(i)
    PROVE  QuietWalkInv'
<1>1. /\ Walking /\ UNCHANGED <<turn, verdict, url, seen, page, strayed>>
      /\ created \in Nat /\ deleted \in Nat
      /\ created' + deleted' = created + deleted + 1
  BY DEF Create, Delete, TypeInv, CountInv
<1>2. created' + deleted' # 0
  BY <1>1
<1>3. StepInv'
  BY <1>1 DEF QuietWalkInv, StepInv, Walking, Scope
<1>4. QED
  BY <1>2, <1>3 DEF QuietWalkInv, QuietInv, QuietWalkVerdict

\* A walk begins in step.
LEMMA QuietBegin ==
    ASSUME TypeInv, Begin
    PROVE  QuietWalkInv'
<1>1. /\ page' = 1 /\ rows' = <<>> /\ verdict' = "walking" /\ seen' = {}
      /\ url' = URL("named", 1)
  BY DEF Begin, Lists
<1>2. Frontier' = 0
  BY <1>1, SizesAssumption DEF Frontier
<1>3. SubSeq(list', 1, 0) = <<>>
  BY SubSeqEmpty
<1>4. url'.page = 1 /\ url'.path = "named"
  BY <1>1 DEF URL
<1>5. QED
  BY <1>1, <1>2, <1>3, <1>4 DEF QuietWalkInv, StepInv, QuietInv, QuietWalkVerdict, Walking

\* Every step keeps the invariant.
LEMMA InvStep == IInv /\ [Next]_vars => IInv'
<1> SUFFICES ASSUME IInv, [Next]_vars PROVE IInv'
  OBVIOUS
<1>1. TypeInv /\ QuietWalkInv /\ MovingInv /\ FaithfulUnderChanges /\ TypeInv'
  BY TypeStep DEF IInv
<1>2. ASSUME NEW i \in 1 .. Len(list) + 1, Create(i) PROVE IInv'
  BY <1>1, <1>2, QuietChange, MovingCreate DEF IInv
<1>3. ASSUME NEW i \in 1 .. Len(list), Delete(i) PROVE IInv'
  BY <1>1, <1>3, QuietChange, MovingDelete DEF IInv
<1>4. CASE Begin
  BY <1>1, <1>4, QuietBegin, MovingBegin DEF IInv
<1>5. ASSUME NEW a \in Answers(url), Fetch(a) PROVE IInv'
  BY <1>1, <1>5, StepFetch, QuietFetch, MovingFetch DEF IInv, QuietWalkInv
<1>6. CASE Cycle
  <2>1. /\ Walking /\ url \in seen /\ verdict' = "PaginationCycle" /\ strayed' = strayed
    BY <1>6 DEF Cycle, Conclude, tally
  <2>2. strayed
    <3>1. ~strayed => url.page = page /\ url.page < page
      BY <1>1, <2>1 DEF QuietWalkInv, StepInv
    <3>2. page \in Nat
      <4>1. IsFiniteSet(seen) /\ page = Cardinality(seen) + 1
        BY <1>1 DEF TypeInv, TypeOK, CountInv
      <4>2. Cardinality(seen) \in Nat
        BY <4>1, FS_CardinalityType
      <4>3. QED
        BY <4>1, <4>2
    <3>3. strayed \in BOOLEAN
      BY <1>1 DEF TypeInv, TypeOK
    <3>4. QED
      BY <3>1, <3>2, <3>3
  <2>3. QED
    BY <1>1, <2>1, <2>2
       DEF IInv, QuietWalkInv, StepInv, QuietInv, QuietWalkVerdict, MovingInv, FaithfulUnderChanges
<1>7. CASE Probe
  <2>1. /\ ~Walking /\ turn' = Len(Scopes) + 1
        /\ UNCHANGED <<verdict, list, url, seen, page, rows, kept, created, deleted, strayed>>
    BY <1>7 DEF Probe, tally
  <2>2. turn' \notin DOMAIN Scopes
    <3>1. DOMAIN Scopes = 1 .. Len(Scopes) /\ Len(Scopes) \in Nat
      BY ScopesAssumption, LenProperties
    <3>2. QED
      BY <2>1, <3>1
  <2>3. QuietWalkInv' /\ MovingInv'
    BY <2>1, <2>2 DEF QuietWalkInv, StepInv, QuietInv, QuietWalkVerdict, MovingInv, Walking
  <2>4. FaithfulUnderChanges'
    <3>1. ToSet(rows') = ToSet(rows)
      BY <2>1
    <3>2. QED
      BY <1>1, <2>1, <3>1 DEF FaithfulUnderChanges
  <2>5. QED
    BY <1>1, <2>3, <2>4 DEF IInv
<1>8. CASE Abort
  <2>1. verdict' = "aborted" /\ turn' = Len(Scopes) + 1
    BY <1>8 DEF Abort
  <2>2. turn' \notin DOMAIN Scopes
    <3>1. DOMAIN Scopes = 1 .. Len(Scopes) /\ Len(Scopes) \in Nat
      BY ScopesAssumption, LenProperties
    <3>2. QED
      BY <2>1, <3>1
  <2>3. QuietWalkInv' /\ MovingInv' /\ FaithfulUnderChanges'
    BY <2>1, <2>2
       DEF QuietWalkInv, StepInv, QuietInv, QuietWalkVerdict, MovingInv, FaithfulUnderChanges, Walking
  <2>4. QED
    BY <1>1, <2>3 DEF IInv
<1>9. CASE UNCHANGED vars
  <2>1. UNCHANGED <<turn, verdict, list, url, seen, page, rows, errors, kept, created, deleted, strayed>>
    BY <1>9 DEF vars, tally
  <2>2. UNCHANGED <<Frontier, Missed, Late, Repeats, Scope, Walking>>
    BY <2>1 DEF Frontier, Missed, Late, Repeats, Scope, Walking
  <2>3. QuietWalkInv' /\ MovingInv'
    BY <1>1, <2>1, <2>2 DEF QuietWalkInv, StepInv, QuietInv, QuietWalkVerdict, MovingInv
  <2>4. FaithfulUnderChanges'
    BY <1>1, <2>1 DEF FaithfulUnderChanges
  <2>5. QED
    BY <1>1, <2>3, <2>4 DEF IInv
<1>10. QED
  BY <1>2, <1>3, <1>4, <1>5, <1>6, <1>7, <1>8, <1>9 DEF Next, Inventory

\* The invariant holds whatever the servers send.
LEMMA Invariance == Spec => []IInv
<1>1. QED
  BY InvInit, InvStep, PTL DEF Spec

\* The values stay of their types; of a list no item is repeated, the page counter
\* counts the URLs that were asked for, and no more rows are reported than the
\* pages of the limit hold.
THEOREM TypeCorrect == Spec => []TypeOK
<1>1. IInv => TypeOK
  BY DEF IInv, TypeInv
<1>2. QED
  BY <1>1, Invariance, PTL

\* A walk that ends without an error and was sent the pages it asked for missed at
\* most one item per deletion, of those that were listed all along, and repeats at
\* most one per creation.
THEOREM FaithfulWalk == Spec => []FaithfulUnderChanges
<1>1. IInv => FaithfulUnderChanges
  BY DEF IInv
<1>2. QED
  BY <1>1, Invariance, PTL

\* A list that stands still is reported whole unless it fills its last page or
\* exceeds the limit, with the verdict that its length calls for.
THEOREM QuietWalk == Spec => []QuietWalkVerdict
<1>1. IInv => QuietWalkVerdict
  BY DEF IInv, QuietWalkInv
<1>2. QED
  BY <1>1, Invariance, PTL

=============================================================================
