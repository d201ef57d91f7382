----------------------- MODULE OperationManagerProofs -----------------------
(***************************************************************************)
(* Theorems about the operation manager, for every number of slots, queue  *)
(* size and set of requests: its types and its lock discipline, that no    *)
(* request is lost, and that it implements OperationService.               *)
(***************************************************************************)
EXTENDS OperationManager, SequenceTheorems, FiniteSetTheorems,
        WellFoundedInduction, TLAPS

(***************************************************************************)
(* What the queue operators return and preserve, for every queue.          *)
(***************************************************************************)
(* A non-empty set of naturals has a least element, and Min returns it. *)
LEMMA MinProperty ==
  ASSUME NEW T \in SUBSET Nat, T # {}
  PROVE  Min(T) \in T /\ \A y \in T : Min(T) <= y
<1> DEFINE R == OpToRel(<, Nat)
<1>1. PICK x \in T : \A y \in T : ~(<<y, x>> \in R)
  <2>1. T \subseteq Nat /\ T # {}
    OBVIOUS
  <2>2. IsWellFoundedOn(R, Nat)
    BY NatLessThanWellFounded
  <2> HIDE DEF R
  <2>3. QED
    BY <2>1, <2>2, WFMin
<1>2. \A y \in T : <<y, x>> \in R <=> y < x
  BY DEF OpToRel
<1>3. x \in Nat /\ \A y \in T : y \in Nat
  OBVIOUS
<1> HIDE DEF R
<1>4. ASSUME NEW y \in T PROVE x <= y
  <2>1. ~(y < x)
    BY <1>1, <1>2
  <2>2. QED
    BY <2>1, <1>3
<1>5. QED
  BY <1>4 DEF Min

(* The insertion point is a position of the queue or the one after it; what *)
(* is before it is at least as urgent, what is at it is strictly less so.   *)
LEMMA InsertPosProperty ==
  ASSUME NEW ids, NEW reqs, NEW q \in Seq(Entries(ids, reqs)), NEW p \in Priority
  PROVE  /\ InsertPos(q, p) \in 1..Len(q) + 1
         /\ \A i \in 1..Len(q) : i < InsertPos(q, p) => q[i].priority >= p
         /\ InsertPos(q, p) <= Len(q) => q[InsertPos(q, p)].priority < p
<1> DEFINE T == {i \in 1..Len(q) : q[i].priority < p}
<1>1. /\ Len(q) \in Nat
      /\ \A i \in 1..Len(q) : q[i] \in Entries(ids, reqs)
  BY LenProperties, ElementOfSeq
<1>2. p \in Int /\ \A i \in 1..Len(q) : q[i].priority \in Int
  BY <1>1 DEF Entries, Priority, Low, Immediate
<1>3. T \in SUBSET Nat
  BY <1>1
<1>4. InsertPos(q, p) = IF T = {} THEN Len(q) + 1 ELSE Min(T)
  <2>1. ASSUME T # {} PROVE Min(T) # 0
    <3>1. Min(T) \in T
      BY MinProperty, <1>3, <2>1
    <3>2. QED
      BY <3>1, <1>1
  <2>2. SelectInSeq(q, LAMBDA e : e.priority < p) = IF T # {} THEN Min(T) ELSE 0
    BY DEF SelectInSeq
  <2>3. QED
    BY <2>1, <2>2 DEF InsertPos
<1>5. CASE T = {}
  BY <1>1, <1>2, <1>4, <1>5
<1>6. CASE T # {}
  <2>1. Min(T) \in T /\ \A y \in T : Min(T) <= y
    BY MinProperty, <1>3, <1>6
  <2> DEFINE pos == Min(T)
  <2>2. /\ pos \in 1..Len(q)
        /\ q[pos].priority < p
        /\ \A i \in 1..Len(q) : q[i].priority < p => pos <= i
    BY <2>1
  <2>3. InsertPos(q, p) = pos
    BY <1>4, <1>6
  <2> HIDE DEF pos, T
  <2>4. QED
    BY <2>2, <2>3, <1>1, <1>2
<1>7. QED
  BY <1>5, <1>6

(* InsertAt keeps every element, in its order, and puts e at position n. *)
LEMMA InsertAtProperty ==
  ASSUME NEW S, NEW s \in Seq(S), NEW n \in 1..Len(s) + 1, NEW e \in S
  PROVE  /\ InsertAt(s, n, e) \in Seq(S)
         /\ Len(InsertAt(s, n, e)) = Len(s) + 1
         /\ \A i \in 1..Len(s) + 1 :
              InsertAt(s, n, e)[i] = IF i < n THEN s[i] ELSE IF i = n THEN e ELSE s[i - 1]
<1> DEFINE before == SubSeq(s, 1, n - 1)
           after == SubSeq(s, n, Len(s))
<1>1. Len(s) \in Nat /\ n \in Int /\ \A i \in 1..Len(s) : s[i] \in S
  BY LenProperties, ElementOfSeq
<1>2. /\ before \in Seq(S)
      /\ Len(before) = n - 1
      /\ \A i \in 1..n - 1 : before[i] = s[i]
  BY <1>1, SubSeqProperties
<1>3. /\ after \in Seq(S)
      /\ Len(after) = Len(s) - n + 1
      /\ \A i \in 1..Len(s) - n + 1 : after[i] = s[n + i - 1]
  BY <1>1, SubSeqProperties
<1> DEFINE single == <<e>>
           head == before \o single
<1>4. single \in Seq(S) /\ Len(single) = 1 /\ single[1] = e
  OBVIOUS
<1> HIDE DEF before, after, single
<1>5. /\ head \in Seq(S)
      /\ Len(head) = n
      /\ \A i \in 1..n : head[i] = IF i < n THEN s[i] ELSE e
  <2>1. /\ head \in Seq(S)
        /\ Len(head) = Len(before) + Len(single)
        /\ \A i \in 1..Len(before) + Len(single) :
             head[i] = IF i <= Len(before) THEN before[i] ELSE single[i - Len(before)]
    BY <1>2, <1>4, ConcatProperties
  <2> HIDE DEF head
  <2>2. \A i \in 1..n : IF i < n THEN i <= n - 1 ELSE i = n /\ i - (n - 1) = 1
    BY <1>1
  <2>3. QED
    BY <2>1, <2>2, <1>1, <1>2, <1>4
<1> HIDE DEF head
<1>6. InsertAt(s, n, e) = head \o after
  BY DEF InsertAt, head, single, before, after
<1>7. /\ head \o after \in Seq(S)
      /\ Len(head \o after) = n + Len(after)
      /\ \A i \in 1..n + Len(after) :
           (head \o after)[i] = IF i <= n THEN head[i] ELSE after[i - n]
  BY <1>3, <1>5, ConcatProperties
<1>8. QED
  BY <1>1, <1>3, <1>5, <1>6, <1>7

(* RemoveAt drops the element at position n and keeps the others in order. *)
LEMMA RemoveAtProperty ==
  ASSUME NEW S, NEW s \in Seq(S), NEW n \in 1..Len(s)
  PROVE  /\ RemoveAt(s, n) \in Seq(S)
         /\ Len(RemoveAt(s, n)) = Len(s) - 1
         /\ \A i \in 1..Len(s) - 1 :
              RemoveAt(s, n)[i] = IF i < n THEN s[i] ELSE s[i + 1]
<1> DEFINE before == SubSeq(s, 1, n - 1)
           after == SubSeq(s, n + 1, Len(s))
<1>1. Len(s) \in Nat /\ n \in Int /\ \A i \in 1..Len(s) : s[i] \in S
  BY LenProperties, ElementOfSeq
<1>2. /\ before \in Seq(S)
      /\ Len(before) = n - 1
      /\ \A i \in 1..n - 1 : before[i] = s[i]
  BY <1>1, SubSeqProperties
<1>3. /\ after \in Seq(S)
      /\ Len(after) = Len(s) - n
      /\ \A i \in 1..Len(s) - n : after[i] = s[n + i]
  <2>1. \A i \in n + 1..Len(s) : s[i] \in S
    BY <1>1
  <2>2. /\ after \in Seq(S)
        /\ Len(after) = IF n + 1 <= Len(s) THEN Len(s) - (n + 1) + 1 ELSE 0
        /\ \A i \in 1..Len(s) - (n + 1) + 1 : after[i] = s[(n + 1) + i - 1]
    BY <1>1, <2>1, SubSeqProperties
  <2> HIDE DEF after
  <2>3. Len(after) = Len(s) - n
    BY <2>2, <1>1
  <2>4. ASSUME NEW i \in 1..Len(s) - n PROVE after[i] = s[n + i]
    <3>1. i \in 1..Len(s) - (n + 1) + 1 /\ (n + 1) + i - 1 = n + i
      BY <1>1
    <3>2. QED
      BY <2>2, <3>1
  <2>5. QED
    BY <2>2, <2>3, <2>4
<1> HIDE DEF before, after
<1>4. RemoveAt(s, n) = before \o after
  BY DEF RemoveAt, before, after
<1>5. /\ before \o after \in Seq(S)
      /\ Len(before \o after) = Len(before) + Len(after)
      /\ \A i \in 1..Len(before) + Len(after) :
           (before \o after)[i] = IF i <= Len(before) THEN before[i]
                                  ELSE after[i - Len(before)]
  BY <1>2, <1>3, ConcatProperties
<1>6. QED
  BY <1>1, <1>2, <1>3, <1>4, <1>5

(* A queue that takes an operation in, or lets one go, is a queue. *)
LEMMA EnqueueType ==
  ASSUME NEW ids, NEW reqs, NEW q \in Seq(Entries(ids, reqs)), NEW e \in Entries(ids, reqs)
  PROVE  Enqueue(q, e) \in Seq(Entries(ids, reqs))
<1>1. e.priority \in Priority
  BY DEF Entries
<1>2. InsertPos(q, e.priority) \in 1..Len(q) + 1
  BY <1>1, InsertPosProperty
<1>3. InsertAt(q, InsertPos(q, e.priority), e) \in Seq(Entries(ids, reqs))
  BY <1>2, InsertAtProperty
<1>4. QED
  BY <1>3 DEF Enqueue

LEMMA RemoveIdProperty ==
  ASSUME NEW S, NEW q \in Seq(S), NEW id
  PROVE  \/ RemoveId(q, id) = q /\ id \notin QueuedIds(q)
         \/ \E n \in 1..Len(q) : q[n].id = id /\ RemoveId(q, id) = RemoveAt(q, n)
<1> DEFINE T == {i \in 1..Len(q) : q[i].id = id}
<1>1. Len(q) \in Nat
  BY LenProperties
<1>2. SelectInSeq(q, LAMBDA e : e.id = id) = IF T # {} THEN Min(T) ELSE 0
  BY DEF SelectInSeq
<1>3. CASE T = {}
  BY <1>2, <1>3 DEF RemoveId, QueuedIds
<1>4. CASE T # {}
  <2>1. T \in SUBSET Nat
    BY <1>1
  <2>2. Min(T) \in T
    BY <2>1, <1>4, MinProperty
  <2> DEFINE n == Min(T)
  <2>3. n \in 1..Len(q) /\ q[n].id = id /\ n # 0
    BY <2>2, <1>1
  <2>4. RemoveId(q, id) = RemoveAt(q, n)
    BY <2>3, <1>2, <1>4 DEF RemoveId
  <2>5. QED
    BY <2>3, <2>4
<1>5. QED
  BY <1>3, <1>4

LEMMA RemoveIdType ==
  ASSUME NEW S, NEW q \in Seq(S), NEW id
  PROVE  RemoveId(q, id) \in Seq(S)
BY RemoveIdProperty, RemoveAtProperty

(* enqueue into an ordered queue of older operations leaves it ordered. *)
LEMMA EnqueueInOrder ==
  ASSUME NEW reqs, NEW q \in Seq(Entries(Nat, reqs)), NEW e \in Entries(Nat, reqs),
         InOrder(q), \A i \in 1..Len(q) : q[i].id < e.id
  PROVE  InOrder(Enqueue(q, e))
<1> DEFINE n == InsertPos(q, e.priority)
           r == InsertAt(q, n, e)
<1>1. /\ Len(q) \in Nat
      /\ \A i \in 1..Len(q) : q[i] \in Entries(Nat, reqs)
  BY LenProperties, ElementOfSeq
<1>2. /\ e.priority \in Int
      /\ e.id \in Int
      /\ \A i \in 1..Len(q) : q[i].priority \in Int /\ q[i].id \in Int
  BY <1>1 DEF Entries, Priority, Low, Immediate
<1>3. /\ n \in 1..Len(q) + 1
      /\ \A i \in 1..Len(q) : i < n => q[i].priority >= e.priority
      /\ n <= Len(q) => q[n].priority < e.priority
  <2>1. e.priority \in Priority
    BY DEF Entries
  <2>2. QED
    BY <2>1, InsertPosProperty
<1> HIDE DEF n
<1>4. /\ Len(r) = Len(q) + 1
      /\ \A i \in 1..Len(q) + 1 :
           r[i] = IF i < n THEN q[i] ELSE IF i = n THEN e ELSE q[i - 1]
  <2>1. ASSUME NEW m \in 1..Len(q) + 1
        PROVE  /\ Len(InsertAt(q, m, e)) = Len(q) + 1
               /\ \A i \in 1..Len(q) + 1 :
                    InsertAt(q, m, e)[i] =
                      IF i < m THEN q[i] ELSE IF i = m THEN e ELSE q[i - 1]
    BY InsertAtProperty
  <2>2. n \in 1..Len(q) + 1
    BY <1>3
  <2>3. QED
    BY <2>1, <2>2
<1>5. Enqueue(q, e) \in {q, r}
  BY DEF Enqueue, n
<1> HIDE DEF r
<1>6. ASSUME NEW i \in 1..Len(q) + 1, NEW j \in 1..Len(q) + 1, i < j
      PROVE  Before(r[i], r[j])
  <2>1. CASE j < n
    BY <2>1, <1>1, <1>3, <1>4, <1>6 DEF InOrder
  <2>2. CASE j = n
    <3>1. r[i] = q[i] /\ r[j] = e /\ i \in 1..Len(q) /\ i < n
      BY <2>2, <1>1, <1>3, <1>4, <1>6
    <3>2. QED
      BY <3>1, <1>2, <1>3 DEF Before
  <2>3. CASE j > n /\ i < n
    <3>1. r[i] = q[i] /\ r[j] = q[j - 1] /\ i \in 1..Len(q) /\ j - 1 \in 1..Len(q) /\ i < j - 1
      BY <2>3, <1>1, <1>3, <1>4, <1>6
    <3>2. QED
      BY <3>1 DEF InOrder
  <2>4. CASE j > n /\ i = n
    <3>1. /\ r[i] = e /\ r[j] = q[j - 1] /\ j - 1 \in 1..Len(q) /\ n \in 1..Len(q)
          /\ n = j - 1 \/ n < j - 1
      BY <2>4, <1>1, <1>3, <1>4, <1>6
    <3>2. n < j - 1 => Before(q[n], q[j - 1])
      BY <3>1 DEF InOrder
    <3>3. q[j - 1].priority < e.priority
      BY <3>1, <3>2, <1>1, <1>2, <1>3 DEF Before
    <3>4. QED
      BY <3>1, <3>3, <1>2 DEF Before
  <2>5. CASE j > n /\ i > n
    <3>1. /\ r[i] = q[i - 1] /\ r[j] = q[j - 1]
          /\ i - 1 \in 1..Len(q) /\ j - 1 \in 1..Len(q) /\ i - 1 < j - 1
      <4>1. i \in Int /\ j \in Int /\ n \in Int /\ Len(q) \in Int
        BY <1>1, <1>3, <1>6
      <4>2. ~(i < n) /\ i # n /\ ~(j < n) /\ j # n
        BY <2>5, <4>1
      <4>3. r[i] = q[i - 1] /\ r[j] = q[j - 1]
        BY <1>4, <1>6, <4>2
      <4>4. i - 1 \in 1..Len(q) /\ j - 1 \in 1..Len(q) /\ i - 1 < j - 1
        BY <1>3, <1>6, <2>5, <4>1
      <4>5. QED
        BY <4>3, <4>4
    <3>2. QED
      BY <3>1 DEF InOrder
  <2>6. QED
    BY <2>1, <2>2, <2>3, <2>4, <2>5, <1>1, <1>3
<1>7. InOrder(r)
  BY <1>4, <1>6 DEF InOrder
<1>8. QED
  BY <1>5, <1>7

(* Dropping an entry from an ordered queue leaves it ordered. *)
LEMMA RemoveAtInOrder ==
  ASSUME NEW S, NEW q \in Seq(S), NEW n \in 1..Len(q), InOrder(q)
  PROVE  InOrder(RemoveAt(q, n))
<1> DEFINE r == RemoveAt(q, n)
<1>1. Len(q) \in Nat
  BY LenProperties
<1>2. /\ Len(r) = Len(q) - 1
      /\ \A i \in 1..Len(q) - 1 : r[i] = IF i < n THEN q[i] ELSE q[i + 1]
  BY RemoveAtProperty
<1> HIDE DEF r
<1>3. ASSUME NEW i \in 1..Len(q) - 1, NEW j \in 1..Len(q) - 1, i < j
      PROVE  Before(r[i], r[j])
  <2> DEFINE a == IF i < n THEN i ELSE i + 1
             b == IF j < n THEN j ELSE j + 1
  <2>1. a \in 1..Len(q) /\ b \in 1..Len(q) /\ a < b
    BY <1>1, <1>3
  <2>2. r[i] = q[a] /\ r[j] = q[b]
    BY <1>2
  <2> HIDE DEF a, b
  <2>3. QED
    BY <2>1, <2>2 DEF InOrder
<1>4. QED
  BY <1>2, <1>3 DEF InOrder, r

LEMMA RemoveIdInOrder ==
  ASSUME NEW S, NEW q \in Seq(S), NEW id, InOrder(q)
  PROVE  InOrder(RemoveId(q, id))
BY RemoveIdProperty, RemoveAtInOrder

LEMMA TailInOrder ==
  ASSUME NEW S, NEW q \in Seq(S), q # <<>>, InOrder(q)
  PROVE  InOrder(Tail(q))
<1>1. Len(q) \in Nat
  BY LenProperties
<1>2. /\ Len(Tail(q)) = Len(q) - 1
      /\ \A i \in 1..Len(q) - 1 : Tail(q)[i] = q[i + 1]
  BY HeadTailProperties
<1>3. \A i, j \in 1..Len(q) - 1 : i < j => Before(q[i + 1], q[j + 1])
  <2>1. \A i, j \in 1..Len(q) - 1 :
          i + 1 \in 1..Len(q) /\ j + 1 \in 1..Len(q) /\ (i < j => i + 1 < j + 1)
    BY <1>1
  <2>2. QED
    BY <2>1 DEF InOrder
<1>4. QED
  BY <1>2, <1>3 DEF InOrder

(* The ids of a queue after each operation: none appears from nowhere, none *)
(* twice, and what was dequeued is gone.                                    *)
LEMMA EnqueueIds ==
  ASSUME NEW ids, NEW reqs, NEW q \in Seq(Entries(ids, reqs)), NEW e \in Entries(ids, reqs),
         DistinctIds(q), e.id \notin QueuedIds(q)
  PROVE  /\ QueuedIds(Enqueue(q, e)) \subseteq QueuedIds(q) \cup {e.id}
         /\ DistinctIds(Enqueue(q, e))
<1> DEFINE n == InsertPos(q, e.priority)
           r == InsertAt(q, n, e)
<1>1. Len(q) \in Nat
  BY LenProperties
<1>2. n \in 1..Len(q) + 1
  <2>1. e.priority \in Priority
    BY DEF Entries
  <2>2. QED
    BY <2>1, InsertPosProperty
<1> HIDE DEF n
<1>3. /\ Len(r) = Len(q) + 1
      /\ \A i \in 1..Len(q) + 1 :
           r[i] = IF i < n THEN q[i] ELSE IF i = n THEN e ELSE q[i - 1]
  <2>1. ASSUME NEW m \in 1..Len(q) + 1
        PROVE  /\ Len(InsertAt(q, m, e)) = Len(q) + 1
               /\ \A i \in 1..Len(q) + 1 :
                    InsertAt(q, m, e)[i] =
                      IF i < m THEN q[i] ELSE IF i = m THEN e ELSE q[i - 1]
    BY InsertAtProperty
  <2>2. QED
    BY <1>2, <2>1
<1>4. Enqueue(q, e) \in {q, r}
  BY DEF Enqueue, n
<1> HIDE DEF r
<1>5. \A i \in 1..Len(q) : q[i].id # e.id
  BY DEF QueuedIds
<1>6. \A i \in 1..Len(q) + 1 :
        \/ i < n /\ i \in 1..Len(q) /\ r[i] = q[i]
        \/ i = n /\ r[i] = e
        \/ i > n /\ i - 1 \in 1..Len(q) /\ r[i] = q[i - 1]
  BY <1>1, <1>2, <1>3
<1>7. QueuedIds(r) \subseteq QueuedIds(q) \cup {e.id}
  BY <1>3, <1>6 DEF QueuedIds
<1>8. ASSUME NEW i \in 1..Len(q) + 1, NEW j \in 1..Len(q) + 1, r[i].id = r[j].id
      PROVE  i = j
  <2>1. CASE i = n \/ j = n
    BY <2>1, <1>5, <1>6, <1>8
  <2>2. CASE i # n /\ j # n
    <3> DEFINE a == IF i < n THEN i ELSE i - 1
               b == IF j < n THEN j ELSE j - 1
    <3>1. a \in 1..Len(q) /\ b \in 1..Len(q) /\ q[a].id = q[b].id
      BY <2>2, <1>1, <1>2, <1>6, <1>8
    <3>2. a = b
      BY <3>1 DEF DistinctIds
    <3>3. QED
      BY <3>2, <2>2, <1>1, <1>2
  <2>3. QED
    BY <2>1, <2>2
<1>9. DistinctIds(r)
  BY <1>3, <1>8 DEF DistinctIds
<1>10. QED
  BY <1>4, <1>7, <1>9

LEMMA RemoveAtIds ==
  ASSUME NEW S, NEW q \in Seq(S), NEW n \in 1..Len(q), DistinctIds(q)
  PROVE  /\ QueuedIds(RemoveAt(q, n)) \subseteq QueuedIds(q) \ {q[n].id}
         /\ DistinctIds(RemoveAt(q, n))
<1> DEFINE r == RemoveAt(q, n)
           at(i) == IF i < n THEN i ELSE i + 1
<1>1. Len(q) \in Nat
  BY LenProperties
<1>2. /\ Len(r) = Len(q) - 1
      /\ \A i \in 1..Len(q) - 1 : r[i] = IF i < n THEN q[i] ELSE q[i + 1]
  BY RemoveAtProperty
<1> HIDE DEF r
<1>3. \A i \in 1..Len(q) - 1 : at(i) \in 1..Len(q) /\ at(i) # n /\ r[i] = q[at(i)]
  BY <1>1, <1>2
<1>4. \A i, j \in 1..Len(q) - 1 : at(i) = at(j) => i = j
  BY <1>1
<1> HIDE DEF at
<1>5. QueuedIds(r) \subseteq QueuedIds(q) \ {q[n].id}
  <2>1. \A i \in 1..Len(q) - 1 : r[i].id \in QueuedIds(q) /\ r[i].id # q[n].id
    BY <1>3 DEF QueuedIds, DistinctIds
  <2>2. QED
    BY <2>1, <1>2 DEF QueuedIds
<1>6. DistinctIds(r)
  BY <1>2, <1>3, <1>4 DEF DistinctIds
<1>7. QED
  BY <1>5, <1>6 DEF r

LEMMA RemoveIdIds ==
  ASSUME NEW S, NEW q \in Seq(S), NEW id, DistinctIds(q)
  PROVE  QueuedIds(RemoveId(q, id)) \subseteq QueuedIds(q) \ {id} /\ DistinctIds(RemoveId(q, id))
BY RemoveIdProperty, RemoveAtIds

LEMMA TailIds ==
  ASSUME NEW S, NEW q \in Seq(S), q # <<>>, DistinctIds(q)
  PROVE  /\ QueuedIds(Tail(q)) \subseteq QueuedIds(q) \ {Head(q).id}
         /\ DistinctIds(Tail(q))
         /\ Head(q).id \in QueuedIds(q)
<1>1. Len(q) \in Nat /\ Len(q) > 0 /\ Head(q) = q[1]
  BY EmptySeq, LenProperties
<1>2. /\ Len(Tail(q)) = Len(q) - 1
      /\ \A i \in 1..Len(q) - 1 : Tail(q)[i] = q[i + 1]
  BY HeadTailProperties
<1>3. \A i \in 1..Len(q) - 1 : i + 1 \in 1..Len(q) /\ i + 1 # 1
  BY <1>1
<1>4. QED
  BY <1>1, <1>2, <1>3 DEF QueuedIds, DistinctIds

(* None is lost either: a queue with room takes the new operation in, and   *)
(* only the one that is taken out leaves it.                                *)
LEMMA EnqueueKeeps ==
  ASSUME NEW ids, NEW reqs, NEW q \in Seq(Entries(ids, reqs)), NEW e \in Entries(ids, reqs),
         ~IsFull(q)
  PROVE  QueuedIds(q) \cup {e.id} \subseteq QueuedIds(Enqueue(q, e))
<1> DEFINE n == InsertPos(q, e.priority)
           r == InsertAt(q, n, e)
<1>1. Len(q) \in Nat
  BY LenProperties
<1>2. n \in 1..Len(q) + 1
  <2>1. e.priority \in Priority
    BY DEF Entries
  <2>2. QED
    BY <2>1, InsertPosProperty
<1> HIDE DEF n
<1>3. /\ Len(r) = Len(q) + 1
      /\ \A i \in 1..Len(q) + 1 :
           r[i] = IF i < n THEN q[i] ELSE IF i = n THEN e ELSE q[i - 1]
  <2>1. ASSUME NEW m \in 1..Len(q) + 1
        PROVE  /\ Len(InsertAt(q, m, e)) = Len(q) + 1
               /\ \A i \in 1..Len(q) + 1 :
                    InsertAt(q, m, e)[i] =
                      IF i < m THEN q[i] ELSE IF i = m THEN e ELSE q[i - 1]
    BY InsertAtProperty
  <2>2. QED
    BY <1>2, <2>1
<1>4. Enqueue(q, e) = r
  BY DEF Enqueue, n
<1> HIDE DEF r
<1>5. ASSUME NEW i \in 1..Len(q)
      PROVE  \E j \in 1..Len(q) + 1 : r[j] = q[i]
  <2>1. CASE i < n
    BY <1>1, <1>3, <2>1
  <2>2. CASE ~(i < n)
    <3>1. i + 1 \in 1..Len(q) + 1 /\ ~(i + 1 < n) /\ i + 1 # n /\ (i + 1) - 1 = i
      BY <1>1, <1>2, <2>2
    <3>2. QED
      BY <1>3, <3>1
  <2>3. QED
    BY <2>1, <2>2
<1>6. r[n] = e
  BY <1>2, <1>3
<1>7. QED
  BY <1>2, <1>3, <1>4, <1>5, <1>6 DEF QueuedIds

LEMMA RemoveIdKeeps ==
  ASSUME NEW S, NEW q \in Seq(S), NEW id
  PROVE  QueuedIds(q) \ {id} \subseteq QueuedIds(RemoveId(q, id))
<1>1. ASSUME NEW n \in 1..Len(q), q[n].id = id, RemoveId(q, id) = RemoveAt(q, n)
      PROVE  QueuedIds(q) \ {id} \subseteq QueuedIds(RemoveId(q, id))
  <2>1. Len(q) \in Nat
    BY LenProperties
  <2> DEFINE r == RemoveAt(q, n)
  <2>2. /\ Len(r) = Len(q) - 1
        /\ \A i \in 1..Len(q) - 1 : r[i] = IF i < n THEN q[i] ELSE q[i + 1]
    BY RemoveAtProperty
  <2> HIDE DEF r
  <2>3. ASSUME NEW i \in 1..Len(q), i # n
        PROVE  \E j \in 1..Len(q) - 1 : r[j] = q[i]
    <3>1. CASE i < n
      BY <2>1, <2>2, <3>1
    <3>2. CASE ~(i < n)
      <4>1. i - 1 \in 1..Len(q) - 1 /\ ~(i - 1 < n) /\ (i - 1) + 1 = i
        BY <2>1, <2>3, <3>2
      <4>2. QED
        BY <2>2, <4>1
    <3>3. QED
      BY <3>1, <3>2
  <2>4. RemoveId(q, id) = r /\ q[n].id = id
    BY <1>1 DEF r
  <2>5. \A i \in 1..Len(q) : q[i].id # id => i # n
    BY <2>4
  <2>6. QueuedIds(q) \ {id} \subseteq QueuedIds(r)
    BY <2>2, <2>3, <2>5 DEF QueuedIds
  <2>7. QED
    BY <2>4, <2>6
<1>2. QED
  BY <1>1, RemoveIdProperty

LEMMA TailKeeps ==
  ASSUME NEW S, NEW q \in Seq(S), q # <<>>
  PROVE  QueuedIds(q) \ {Head(q).id} \subseteq QueuedIds(Tail(q))
<1>1. Len(q) \in Nat /\ Len(q) > 0 /\ Head(q) = q[1]
  BY EmptySeq, LenProperties
<1>2. /\ Len(Tail(q)) = Len(q) - 1
      /\ \A i \in 1..Len(q) - 1 : Tail(q)[i] = q[i + 1]
  BY HeadTailProperties
<1>3. ASSUME NEW i \in 1..Len(q), i # 1
      PROVE  i - 1 \in 1..Len(q) - 1 /\ Tail(q)[i - 1] = q[i]
  <2>1. i - 1 \in 1..Len(q) - 1 /\ (i - 1) + 1 = i
    BY <1>1, <1>3
  <2>2. QED
    BY <1>2, <2>1
<1>4. QED
  BY <1>1, <1>2, <1>3 DEF QueuedIds

(* A queue without duplicates is no longer than there are ids for it. *)
LEMMA QueueLength ==
  ASSUME NEW S, NEW q \in Seq(S), DistinctIds(q), NEW n \in Nat, QueuedIds(q) \subseteq 1..n
  PROVE  Len(q) <= n
<1>1. Len(q) \in Nat
  BY LenProperties
<1>2. SUFFICES ASSUME n < Len(q) PROVE FALSE
  BY <1>1
<1> DEFINE id == [i \in 1..Len(q) |-> q[i].id]
<1>3. id \in [1..Len(q) -> 1..n]
  BY DEF QueuedIds
<1>4. /\ IsFiniteSet(1..Len(q)) /\ Cardinality(1..Len(q)) = Len(q)
      /\ IsFiniteSet(1..n) /\ Cardinality(1..n) = n
  <2>1. 1 \in Int /\ n \in Int /\ Len(q) \in Int /\ ~(1 > n + 1)
    BY <1>1
  <2>2. \A m \in Nat : IsFiniteSet(1..m) /\ Cardinality(1..m) = m
    <3>1. SUFFICES ASSUME NEW m \in Nat PROVE IsFiniteSet(1..m) /\ Cardinality(1..m) = m
      OBVIOUS
    <3>2. Cardinality(1..m) = IF 1 > m THEN 0 ELSE m - 1 + 1
      BY FS_Interval
    <3>3. QED
      BY <3>2, FS_Interval
  <2>3. QED
    BY <1>1, <2>2
<1>5. \A i \in 1..Len(q) : id[i] = q[i].id
  OBVIOUS
<1> HIDE DEF id
<1>6. Cardinality(1..n) < Cardinality(1..Len(q))
  BY <1>2, <1>4
<1>7. \E i, j \in 1..Len(q) : i # j /\ id[i] = id[j]
  BY <1>3, <1>4, <1>6, FS_PigeonHole
<1>8. QED
  BY <1>5, <1>7 DEF DistinctIds

-----------------------------------------------------------------------------
(***************************************************************************)
(* Type correctness.  It is inductive only with what the loop of a worker  *)
(* knows: it is at an item only while items are left, so that counting the *)
(* item off leaves a natural number.                                       *)
(***************************************************************************)
AtItem == {"conflict", "ask", "transfer"}

ItemsLeft == \A id \in Ids : pc[id] \in AtItem => job[id].left > 0

TypeInv == TypeOK /\ ItemsLeft

LEMMA RequestTyped ==
  ASSUME NEW r \in Requests
  PROVE  r.priority \in Priority /\ r.valid \in BOOLEAN /\ r.job \in Job
BY ManagerAssumption DEF RequestType

LEMMA EventTyped ==
  ASSUME NEW id \in Ids, NEW kind \in EventKind
  PROVE  Event(kind, id) \in EventType
BY DEF Event, EventType

LEMMA JobTyped ==
  ASSUME NEW j \in Job
  PROVE  /\ j.mode \in ConflictMode /\ j.left \in Nat /\ j.renames \in BOOLEAN
         /\ NoJob \in Job
BY DEF Job, NoJob, ConflictMode

LEMMA IdsAreNumbers == Ids \subseteq Nat /\ None \notin Ids /\ MaxOps \in Nat
BY ManagerAssumption DEF Ids, None

(* One event more in a channel or in the vector of poll(). *)
LEMMA EventAppended ==
  ASSUME NEW s \in Seq(EventType), NEW id \in Ids, NEW kind \in EventKind
  PROVE  Append(s, Event(kind, id)) \in Seq(EventType)
BY EventTyped, AppendProperties

(* An id poll() speaks of is an id. *)
LEMMA AboutTyped ==
  ASSUME events \in Seq(EventType), NEW kind
  PROVE  About(kind) \subseteq Ids
<1>1. \A i \in 1..Len(events) : events[i] \in EventType
  BY ElementOfSeq
<1>2. QED
  BY <1>1 DEF About, EventType

LEMMA QueuedTyped ==
  ASSUME NEW q \in Seq(Entries(Ids, Requests))
  PROVE  QueuedIds(q) \subseteq Ids
<1>1. \A i \in 1..Len(q) : q[i] \in Entries(Ids, Requests)
  BY ElementOfSeq
<1>2. QED
  BY <1>1 DEF QueuedIds, Entries

(* What start_operation does to the manager and its threads is well typed. *)
LEMMA SpawnTyped ==
  ASSUME TypeInv, NEW id \in Ids, NEW r \in Requests, Spawn(id, r)
  PROVE  /\ active' \subseteq Ids
         /\ pc' \in [Ids -> Location]
         /\ job' \in [Ids -> Job]
         /\ event_rx' \in Seq(EventType)
         /\ ItemsLeft'
<1>1. CASE r.valid
  <2>1. event_rx' \in Seq(EventType)
    <3>1. "Started" \in EventKind /\ event_rx \in Seq(EventType)
      BY DEF EventKind, TypeInv, TypeOK
    <3>2. QED
      BY <3>1, <1>1, EventAppended DEF Spawn
  <2>2. pc' \in [Ids -> Location] /\ job' \in [Ids -> Job]
    BY <1>1, RequestTyped DEF Spawn, TypeInv, TypeOK, Location
  <2>3. ItemsLeft'
    BY <1>1 DEF Spawn, TypeInv, TypeOK, ItemsLeft, AtItem
  <2>4. QED
    BY <1>1, <2>1, <2>2, <2>3 DEF Spawn, TypeInv, TypeOK
<1>2. CASE ~r.valid
  BY <1>2 DEF Spawn, TypeInv, TypeOK, ItemsLeft, workerVars
<1>3. QED
  BY <1>1, <1>2

LEMMA GenerateIdTyped ==
  ASSUME TypeOK, GenerateId
  PROVE  next_id \in Ids /\ next_id' \in 1..MaxOps + 1
BY IdsAreNumbers DEF TypeOK, GenerateId, Ids

(* A new queue entry is an entry. *)
LEMMA EntryTyped ==
  ASSUME NEW id \in Ids, NEW p \in Priority, NEW r \in Requests
  PROVE  [id |-> id, priority |-> p, request |-> r] \in Entries(Ids, Requests)
BY DEF Entries

-----------------------------------------------------------------------------
(* Every action preserves the type invariant. *)
LEMMA InitTypeInv == Init => TypeInv
<1> SUFFICES ASSUME Init PROVE TypeInv
  OBVIOUS
<1>1. next_id \in 1..MaxOps + 1
  BY ManagerAssumption DEF Init
<1>2. job \in [Ids -> Job]
  BY DEF Init, Job, NoJob, ConflictMode
<1>3. pc \in [Ids -> Location] /\ ItemsLeft
  BY DEF Init, Location, ItemsLeft, AtItem
<1>4. QED
  BY <1>1, <1>2, <1>3 DEF Init, TypeInv, TypeOK

LEMMA SubmitTypeInv ==
  ASSUME TypeInv, NEW r \in Requests, Submit(r)
  PROVE  TypeInv'
<1>1. GenerateId
  BY DEF Submit, QueueOperation, StartNow, StartNowAtLimit
<1>2. next_id \in Ids /\ next_id' \in 1..MaxOps + 1
  BY <1>1, GenerateIdTyped DEF TypeInv
<1>3. ASSUME NEW p \in Priority
      PROVE  Enqueue(queue, [id |-> next_id, priority |-> p, request |-> r])
               \in Seq(Entries(Ids, Requests))
  BY <1>2, EntryTyped, EnqueueType DEF TypeInv, TypeOK
<1>4. CASE QueueOperation(r)
  <2>1. queue' \in Seq(Entries(Ids, Requests))
    BY <1>3, <1>4, RequestTyped DEF QueueOperation
  <2>2. QED
    BY <1>2, <1>4, <2>1 DEF QueueOperation, TypeInv, TypeOK, ItemsLeft,
       controlVars, channels, workerVars, pollVars
<1>5. CASE StartNow(r)
  <2>1. Spawn(next_id, r)
    BY <1>5 DEF StartNow
  <2>2. /\ active' \subseteq Ids /\ pc' \in [Ids -> Location] /\ job' \in [Ids -> Job]
        /\ event_rx' \in Seq(EventType) /\ ItemsLeft'
    BY <1>2, <2>1, SpawnTyped
  <2>3. QED
    BY <1>2, <1>5, <2>2 DEF StartNow, TypeInv, TypeOK, controlVars, pollVars
<1>6. CASE StartNowAtLimit(r)
  <2>1. High \in Priority
    BY DEF High, Priority, Low, Immediate
  <2>2. queue' \in Seq(Entries(Ids, Requests))
    BY <1>3, <1>6, <2>1 DEF StartNowAtLimit
  <2>3. QED
    BY <1>2, <1>6, <2>2 DEF StartNowAtLimit, TypeInv, TypeOK, ItemsLeft,
       controlVars, channels, workerVars, pollVars
<1>7. QED
  BY <1>4, <1>5, <1>6 DEF Submit

LEMMA UserTypeInv ==
  ASSUME TypeInv, User
  PROVE  TypeInv'
<1>1. ASSUME NEW id \in Ids, Pause(id) \/ Resume(id)
      PROVE  TypeInv'
  <2>1. PICK flag \in BOOLEAN, kind \in {"Paused", "Resumed"} : SetPaused(id, flag, kind)
    BY <1>1 DEF Pause, Resume
  <2>2. event_rx' \in Seq(EventType)
    <3>1. kind \in EventKind /\ event_rx \in Seq(EventType)
      BY DEF EventKind, TypeInv, TypeOK
    <3>2. QED
      BY <2>1, <3>1, EventAppended DEF SetPaused
  <2>3. QED
    BY <2>1, <2>2 DEF SetPaused, TypeInv, TypeOK, ItemsLeft, workerVars, pollVars, uiVars
<1>2. ASSUME NEW id \in Ids, Cancel(id)
      PROVE  TypeInv'
  <2>1. queue' \in Seq(Entries(Ids, Requests))
    BY <1>2, RemoveIdType DEF Cancel, TypeInv, TypeOK
  <2>2. cancelled' \in [Ids -> BOOLEAN]
    BY <1>2 DEF Cancel, TypeInv, TypeOK
  <2>3. QED
    BY <1>2, <2>1, <2>2 DEF Cancel, TypeInv, TypeOK, ItemsLeft, channels, workerVars, pollVars
<1>3. ASSUME CancelAll
      PROVE  TypeInv'
  <2>1. withdrawn' \subseteq Ids
    BY <1>3, QueuedTyped DEF CancelAll, TypeInv, TypeOK
  <2>2. QED
    BY <1>3, <2>1 DEF CancelAll, TypeInv, TypeOK, ItemsLeft, channels, workerVars, pollVars
<1>4. QED
  BY <1>1, <1>2, <1>3, SubmitTypeInv DEF User

LEMMA AnswerTypeInv ==
  ASSUME TypeInv, NEW id \in Ids, Answer(id)
  PROVE  TypeInv'
<1>1. PICK resolution \in Resolutions : ResolveConflict(id, resolution)
  BY DEF Answer
<1>2. resolution \in ConflictResolution
  BY ManagerAssumption
<1>3. resolution_rx' \in [Ids -> Seq(ConflictResolution)]
  BY <1>1, <1>2, AppendProperties DEF ResolveConflict, TypeInv, TypeOK
<1>4. QED
  BY <1>1, <1>3 DEF ResolveConflict, TypeInv, TypeOK, ItemsLeft,
     controlVars, workerVars, pollVars

LEMMA PollTypeInv ==
  ASSUME TypeInv, Poll
  PROVE  TypeInv'
<1>1. CASE PollDrain
  <2>1. <<>> \in Seq(EventType)
    OBVIOUS
  <2>2. QED
    BY <1>1, <2>1 DEF PollDrain, TypeInv, TypeOK, ItemsLeft, controlVars, workerVars, uiVars
<1>2. ASSUME NEW id \in Ids, PollProgress(id)
      PROVE  TypeInv'
  <2>1. events' \in Seq(EventType)
    <3>1. "Progress" \in EventKind /\ events \in Seq(EventType)
      BY DEF EventKind, TypeInv, TypeOK
    <3>2. QED
      BY <1>2, <3>1, EventAppended DEF PollProgress
  <2>2. QED
    BY <1>2, <2>1 DEF PollProgress, TypeInv, TypeOK, ItemsLeft, controlVars, workerVars, uiVars
<1>3. CASE PollReap
  <2>1. reading \in Ids
    BY <1>3 DEF PollReap, TypeInv, TypeOK
  <2>2. events' \in Seq(EventType)
    <3>1. "Completed" \in EventKind /\ events \in Seq(EventType)
      BY DEF EventKind, TypeInv, TypeOK
    <3>2. QED
      BY <1>3, <2>1, <3>1, EventAppended DEF PollReap
  <2>3. pc' \in [Ids -> Location]
    BY <1>3 DEF PollReap, TypeInv, TypeOK, Location
  <2>4. ItemsLeft'
    BY <1>3 DEF PollReap, TypeInv, TypeOK, ItemsLeft, AtItem
  <2>5. QED
    BY <1>3, <2>2, <2>3, <2>4 DEF PollReap, TypeInv, TypeOK, controlVars, channels, uiVars
<1>4. CASE PollRemove
  <2>1. /\ active' \subseteq Ids
        /\ paused' \in [Ids -> BOOLEAN]
        /\ cancelled' \in [Ids -> BOOLEAN]
        /\ progress_rx' \in [Ids -> BOOLEAN]
    BY <1>4 DEF PollRemove, TypeInv, TypeOK
  <2>2. resolution_rx' \in [Ids -> Seq(ConflictResolution)]
    BY <1>4 DEF PollRemove, TypeInv, TypeOK
  <2>3. QED
    BY <1>4, <2>1, <2>2 DEF PollRemove, TypeInv, TypeOK, ItemsLeft, workerVars, uiVars
<1>5. CASE PollRefill
  <2>1. /\ Head(queue) \in Entries(Ids, Requests)
        /\ Tail(queue) \in Seq(Entries(Ids, Requests))
    BY <1>5, HeadTailProperties DEF PollRefill, TypeInv, TypeOK
  <2>2. Head(queue).id \in Ids /\ Head(queue).request \in Requests
    BY <2>1 DEF Entries
  <2>3. Spawn(Head(queue).id, Head(queue).request)
    BY <1>5 DEF PollRefill
  <2>4. /\ active' \subseteq Ids /\ pc' \in [Ids -> Location] /\ job' \in [Ids -> Job]
        /\ event_rx' \in Seq(EventType) /\ ItemsLeft'
    BY <2>2, <2>3, SpawnTyped
  <2>5. QED
    BY <1>5, <2>1, <2>4 DEF PollRefill, TypeInv, TypeOK, controlVars, pollVars, uiVars
<1>6. CASE PollReturn
  <2>1. About("Completed") \subseteq Ids /\ About("ConflictDetected") \subseteq Ids
    BY AboutTyped DEF TypeInv, TypeOK
  <2>2. events' \in Seq(EventType)
    BY <1>6 DEF PollReturn
  <2>3. QED
    BY <1>6, <2>1, <2>2 DEF PollReturn, TypeInv, TypeOK, ItemsLeft, controlVars, channels, workerVars
<1>7. QED
  BY <1>1, <1>2, <1>3, <1>4, <1>5, <1>6 DEF Poll

(* A thread that goes on keeps its types; what it works with may lose an item. *)
LEMMA FinishTyped ==
  ASSUME TypeInv, NEW id \in Ids, Finish(id)
  PROVE  pc' \in [Ids -> Location] /\ job' \in [Ids -> Job] /\ ItemsLeft'
<1>1. "finished" \in Location /\ NoJob \in Job
  BY DEF Location, Job, NoJob, ConflictMode
<1>2. QED
  BY <1>1 DEF Finish, Goto, TypeInv, TypeOK, ItemsLeft, AtItem

LEMMA ItemDoneTyped ==
  ASSUME TypeInv, NEW id \in Ids, NEW newMode \in ConflictMode,
         pc[id] \in AtItem, ItemDone(id, newMode)
  PROVE  pc' \in [Ids -> Location] /\ job' \in [Ids -> Job] /\ ItemsLeft'
<1>1. job[id] \in Job /\ job[id].left > 0
  BY DEF TypeInv, TypeOK, ItemsLeft
<1>2. job[id].left \in Nat /\ job[id].renames \in BOOLEAN
  BY <1>1 DEF Job
<1>3. [job[id] EXCEPT !.left = job[id].left - 1, !.mode = newMode] \in Job
  <2>1. job[id].left - 1 \in Nat
    BY <1>1, <1>2
  <2>2. QED
    BY <1>1, <2>1 DEF Job
<1>4. job' = [job EXCEPT ![id] = [job[id] EXCEPT !.left = job[id].left - 1, !.mode = newMode]]
  BY DEF ItemDone, TypeInv, TypeOK
<1>5. job' \in [Ids -> Job]
  BY <1>3, <1>4 DEF TypeInv, TypeOK
<1>6. pc' = [pc EXCEPT ![id] = "top"] /\ "top" \in Location
  BY DEF ItemDone, Goto, Location
<1>7. ItemsLeft'
  <2>1. SUFFICES ASSUME NEW other \in Ids, pc'[other] \in AtItem
                 PROVE  job'[other].left > 0
    BY DEF ItemsLeft
  <2>2. other # id /\ pc'[other] = pc[other]
    BY <2>1, <1>6 DEF TypeInv, TypeOK, AtItem
  <2>3. job'[other] = job[other]
    BY <2>2, <1>4 DEF TypeInv, TypeOK
  <2>4. QED
    BY <2>1, <2>2, <2>3 DEF TypeInv, ItemsLeft
<1>8. QED
  BY <1>5, <1>6, <1>7 DEF TypeInv, TypeOK

LEMMA WorkerTypeInv ==
  ASSUME TypeInv, NEW id \in Ids, Worker(id)
  PROVE  TypeInv'
<1>1. SUFFICES /\ pc' \in [Ids -> Location] /\ job' \in [Ids -> Job] /\ ItemsLeft'
               /\ event_rx' \in Seq(EventType)
               /\ progress_rx' \in [Ids -> BOOLEAN]
               /\ resolution_rx' \in [Ids -> Seq(ConflictResolution)]
  BY DEF Worker, WorkerTop, WorkerEnd, WorkerCheckConflict, WorkerAnswered, WorkerTransfer,
     WorkerFail, workerFrame, channels, controlVars, pollVars, uiVars, TypeInv, TypeOK
<1>2. job[id].mode \in ConflictMode
  BY DEF TypeInv, TypeOK, Job
<1>3. CASE WorkerTop(id)
  <2>1. CASE cancelled[id]
    BY <1>3, <2>1, FinishTyped DEF WorkerTop, channels, TypeInv, TypeOK
  <2>2. CASE ~cancelled[id]
    BY <1>3, <2>2 DEF WorkerTop, Goto, channels, TypeInv, TypeOK, ItemsLeft, AtItem, Location
  <2>3. QED
    BY <2>1, <2>2
<1>4. CASE WorkerEnd(id)
  BY <1>4, FinishTyped DEF WorkerEnd, SendProgress, TypeInv, TypeOK
<1>5. CASE WorkerCheckConflict(id)
  <2>1. UNCHANGED <<progress_rx, resolution_rx>> /\ pc[id] = "conflict"
    BY <1>5 DEF WorkerCheckConflict
  <2>2. CASE Goto(id, "transfer") /\ UNCHANGED <<event_rx, job>>
    BY <2>1, <2>2 DEF Goto, TypeInv, TypeOK, ItemsLeft, AtItem, Location
  <2>3. CASE ItemDone(id, "SkipAll") /\ UNCHANGED event_rx
    <3>1. "SkipAll" \in ConflictMode /\ pc[id] \in AtItem
      BY <2>1 DEF ConflictMode, AllModes, AtItem
    <3>2. QED
      BY <2>1, <2>3, <3>1, ItemDoneTyped DEF TypeInv, TypeOK
  <2>4. CASE /\ event_rx' = Append(event_rx, Event("ConflictDetected", id))
             /\ Goto(id, "ask") /\ UNCHANGED job
    <3>1. "ConflictDetected" \in EventKind /\ event_rx \in Seq(EventType)
      BY DEF EventKind, TypeInv, TypeOK
    <3>2. event_rx' \in Seq(EventType)
      BY <2>4, <3>1, EventAppended
    <3>3. QED
      BY <2>1, <2>4, <3>2 DEF Goto, TypeInv, TypeOK, ItemsLeft, AtItem, Location
  <2>5. QED
    BY <1>5, <2>2, <2>3, <2>4 DEF WorkerCheckConflict
<1>6. CASE WorkerAnswered(id)
  <2>1. /\ resolution_rx[id] \in Seq(ConflictResolution) /\ resolution_rx[id] # <<>>
        /\ UNCHANGED <<event_rx, progress_rx>> /\ pc[id] = "ask"
    BY <1>6 DEF WorkerAnswered, TypeInv, TypeOK
  <2>2. /\ Head(resolution_rx[id]) \in ConflictResolution
        /\ Tail(resolution_rx[id]) \in Seq(ConflictResolution)
    BY <2>1, HeadTailProperties
  <2>3. resolution_rx' \in [Ids -> Seq(ConflictResolution)]
    BY <1>6, <2>2 DEF WorkerAnswered, TypeInv, TypeOK
  <2> DEFINE resolution == Head(resolution_rx[id])
             newMode == IF resolution \in AllModes THEN resolution ELSE job[id].mode
  <2>4. newMode \in ConflictMode
    BY <1>2 DEF ConflictMode
  <2>5. CASE Finish(id)
    BY <2>1, <2>3, <2>5, FinishTyped DEF TypeInv, TypeOK
  <2>6. CASE ItemDone(id, newMode)
    <3>1. pc[id] \in AtItem
      BY <2>1 DEF AtItem
    <3> HIDE DEF newMode
    <3>2. QED
      BY <2>1, <2>3, <2>4, <2>6, <3>1, ItemDoneTyped DEF TypeInv, TypeOK
  <2>7. CASE Goto(id, "transfer") /\ job' = [job EXCEPT ![id].mode = newMode]
    <3> HIDE DEF newMode
    <3>1. [job[id] EXCEPT !.mode = newMode] \in Job
      BY <2>4 DEF TypeInv, TypeOK, Job
    <3>2. job' = [job EXCEPT ![id] = [job[id] EXCEPT !.mode = newMode]]
      BY <2>7 DEF TypeInv, TypeOK
    <3>3. job' \in [Ids -> Job] /\ \A other \in Ids : job'[other].left = job[other].left
      BY <3>1, <3>2 DEF TypeInv, TypeOK, Job
    <3>4. pc' \in [Ids -> Location] /\ ItemsLeft'
      BY <2>1, <2>7, <3>3 DEF Goto, TypeInv, TypeOK, ItemsLeft, AtItem, Location
    <3>5. QED
      BY <2>1, <2>3, <3>3, <3>4 DEF TypeInv, TypeOK
  <2>8. \/ Finish(id)
        \/ ItemDone(id, newMode)
        \/ Goto(id, "transfer") /\ job' = [job EXCEPT ![id].mode = newMode]
    BY <1>6 DEF WorkerAnswered
  <2>9. QED
    BY <2>5, <2>6, <2>7, <2>8
<1>7. CASE WorkerTransfer(id)
  <2>1. UNCHANGED <<event_rx, resolution_rx>> /\ pc[id] \in AtItem
    BY <1>7 DEF WorkerTransfer, AtItem
  <2>2. CASE Finish(id) /\ UNCHANGED progress_rx
    BY <2>1, <2>2, FinishTyped DEF TypeInv, TypeOK
  <2>3. CASE ItemDone(id, job[id].mode) /\ SendProgress(id)
    <3>1. progress_rx' \in [Ids -> BOOLEAN]
      BY <2>3 DEF SendProgress, TypeInv, TypeOK
    <3>2. QED
      BY <1>2, <2>1, <2>3, <3>1, ItemDoneTyped DEF TypeInv, TypeOK
  <2>4. QED
    BY <1>7, <2>2, <2>3 DEF WorkerTransfer
<1>8. CASE WorkerFail(id)
  BY <1>8, FinishTyped DEF WorkerFail, channels, TypeInv, TypeOK
<1>9. QED
  BY <1>3, <1>4, <1>5, <1>6, <1>7, <1>8 DEF Worker

LEMMA StutterTypeInv ==
  ASSUME TypeInv, UNCHANGED vars
  PROVE  TypeInv'
BY DEF vars, controlVars, channels, workerVars, pollVars, uiVars, TypeInv, TypeOK, ItemsLeft

(* Every variable of the manager keeps its type, for every configuration.   *)
THEOREM TypeCorrect == Spec => []TypeInv
<1>1. TypeInv /\ [Next]_vars => TypeInv'
  BY UserTypeInv, AnswerTypeInv, PollTypeInv, WorkerTypeInv, StutterTypeInv DEF Next
<1>2. QED
  BY <1>1, InitTypeInv, PTL DEF Spec

(* The part of it the model checker evaluates. *)
THEOREM TypeOKHolds == Spec => []TypeOK
BY TypeCorrect, PTL DEF TypeInv

-----------------------------------------------------------------------------
(***************************************************************************)
(* The bound on threads.  A thread's operation is in `active` until poll() *)
(* has joined the thread, and `active` grows only in start_operation, below *)
(* the limit; the bound on `active` is what makes the one on threads       *)
(* inductive.                                                              *)
(***************************************************************************)
ThreadsInv == Threads \subseteq active /\ Cardinality(active) <= MaxConcurrent

LEMMA ActiveFinite ==
  ASSUME TypeInv
  PROVE  IsFiniteSet(active) /\ Cardinality(active) \in Nat
<1>1. IsFiniteSet(Ids)
  BY FS_Interval, IdsAreNumbers DEF Ids
<1>2. QED
  BY <1>1, FS_Subset, FS_CardinalityType DEF TypeInv, TypeOK

LEMMA SpawnThreads ==
  ASSUME TypeInv, ThreadsInv, HasCapacity, NEW id \in Ids, NEW r \in Requests, Spawn(id, r)
  PROVE  ThreadsInv'
<1>1. CASE r.valid
  <2> DEFINE before == Cardinality(active)
             after == Cardinality(active \cup {id})
  <2>1. before \in Nat /\ (after = before \/ after = before + 1)
    <3>1. after = IF id \in active THEN before ELSE before + 1
      BY ActiveFinite, FS_AddElement
    <3>2. QED
      BY <3>1, ActiveFinite
  <2>2. before < MaxConcurrent /\ MaxConcurrent \in Nat
    BY ManagerAssumption DEF HasCapacity
  <2>3. Cardinality(active') <= MaxConcurrent
    <3>1. Cardinality(active') = after
      BY <1>1 DEF Spawn
    <3> HIDE DEF before, after
    <3>2. QED
      BY <3>1, <2>1, <2>2
  <2>4. Threads' \subseteq active'
    BY <1>1 DEF Spawn, Threads, ThreadsInv, TypeInv, TypeOK
  <2>5. QED
    BY <2>3, <2>4 DEF ThreadsInv
<1>2. CASE ~r.valid
  BY <1>2 DEF Spawn, ThreadsInv, Threads, workerVars
<1>3. QED
  BY <1>1, <1>2

LEMMA UserThreads ==
  ASSUME TypeInv, ThreadsInv, User \/ (\E id \in Ids : Answer(id))
  PROVE  ThreadsInv'
<1>1. ASSUME NEW r \in Requests, StartNow(r)
      PROVE  ThreadsInv'
  BY <1>1, SpawnThreads, GenerateIdTyped DEF StartNow, TypeInv
<1>2. \/ \E r \in Requests : StartNow(r)
      \/ UNCHANGED <<active, pc>>
  BY DEF User, Submit, QueueOperation, StartNowAtLimit, Pause, Resume, SetPaused, Cancel,
     CancelAll, Answer, ResolveConflict, workerVars
<1>3. QED
  BY <1>1, <1>2 DEF ThreadsInv, Threads

LEMMA PollThreads ==
  ASSUME TypeInv, ThreadsInv, Poll
  PROVE  ThreadsInv'
<1>1. CASE PollReap
  BY <1>1 DEF PollReap, ThreadsInv, Threads, TypeInv, TypeOK
<1>2. CASE PollRemove
  <2>1. active' \subseteq active /\ Threads' \subseteq active'
    BY <1>2 DEF PollRemove, ThreadsInv, Threads, workerVars
  <2>2. Cardinality(active') <= Cardinality(active) /\ Cardinality(active') \in Nat
    BY <2>1, ActiveFinite, FS_Subset, FS_CardinalityType
  <2>3. QED
    BY <2>1, <2>2, ActiveFinite, ManagerAssumption DEF ThreadsInv
<1>3. CASE PollRefill
  <2>1. Head(queue) \in Entries(Ids, Requests)
    BY <1>3, HeadTailProperties DEF PollRefill, TypeInv, TypeOK
  <2>2. Head(queue).id \in Ids /\ Head(queue).request \in Requests
    BY <2>1 DEF Entries
  <2>3. QED
    BY <1>3, <2>2, SpawnThreads DEF PollRefill
<1>4. CASE UNCHANGED <<active, pc>>
  BY <1>4 DEF ThreadsInv, Threads
<1>5. QED
  BY <1>1, <1>2, <1>3, <1>4 DEF Poll, PollDrain, PollProgress, PollReturn, workerVars

LEMMA WorkerThreads ==
  ASSUME TypeInv, ThreadsInv, NEW id \in Ids, Worker(id)
  PROVE  ThreadsInv'
<1>1. active' = active /\ id \in Threads
  BY DEF Worker, WorkerTop, WorkerEnd, WorkerCheckConflict, WorkerAnswered, WorkerTransfer,
     WorkerFail, workerFrame, Threads, Location
<1>2. Threads' \subseteq Threads
  BY <1>1 DEF Worker, WorkerTop, WorkerEnd, WorkerCheckConflict, WorkerAnswered,
     WorkerTransfer, WorkerFail, Finish, ItemDone, Goto, Threads, TypeInv, TypeOK
<1>3. QED
  BY <1>1, <1>2 DEF ThreadsInv

(* Never more threads than slots, for every number of slots and requests.   *)
THEOREM ThreadsInvHolds == Spec => [](TypeInv /\ ThreadsInv)
<1>1. Init => ThreadsInv
  BY FS_EmptySet, ManagerAssumption DEF Init, ThreadsInv, Threads
<1>2. TypeInv /\ ThreadsInv /\ [Next]_vars => ThreadsInv'
  <2>1. ASSUME ThreadsInv, UNCHANGED vars PROVE ThreadsInv'
    BY <2>1 DEF ThreadsInv, Threads, vars, workerVars
  <2>2. QED
    BY <2>1, UserThreads, PollThreads, WorkerThreads DEF Next
<1>3. QED
  BY <1>1, <1>2, TypeCorrect, PTL DEF Spec

THEOREM ThreadsBoundedHolds == Spec => []ThreadsBounded
<1>1. TypeInv /\ ThreadsInv => ThreadsBounded
  <2>1. SUFFICES ASSUME TypeInv, ThreadsInv PROVE ThreadsBounded
    OBVIOUS
  <2>2. Cardinality(Threads) <= Cardinality(active) /\ Cardinality(Threads) \in Nat
    BY <2>1, ActiveFinite, FS_Subset, FS_CardinalityType DEF ThreadsInv
  <2>3. QED
    BY <2>1, <2>2, ActiveFinite, ManagerAssumption DEF ThreadsInv, ThreadsBounded
<1>2. QED
  BY <1>1, ThreadsInvHolds, PTL

-----------------------------------------------------------------------------
(***************************************************************************)
(* Where an operation is.  OnePlace alone is not inductive: an operation   *)
(* that poll() has found over is not in `ended` before poll() returns, but *)
(* must not be queued again meanwhile, and must have left `active` by the  *)
(* time the queue is refilled.  Only poll() makes Completed events.        *)
(***************************************************************************)
Done == ended \cup About("Completed")

PlaceInv ==
  /\ InOrder(queue)
  /\ DistinctIds(queue)
  /\ \A id \in QueuedIds(queue) \cup active \cup Done : id < next_id
  /\ QueuedIds(queue) \cap (active \cup Done) = {}
  /\ active \cap ended = {}
  /\ \A id \in About("Completed") : pc[id] = "joined" /\ (poll = "refill" => id \notin active)
  /\ \A i \in 1..Len(event_rx) : event_rx[i].kind # "Completed"

(* No event of another kind makes an operation completed. *)
LEMMA NotCompleted ==
  ASSUME NEW s \in Seq(EventType), NEW id \in Ids, NEW kind \in EventKind \ {"Completed"},
         \A i \in 1..Len(s) : s[i].kind # "Completed"
  PROVE  \A i \in 1..Len(Append(s, Event(kind, id))) :
            Append(s, Event(kind, id))[i].kind # "Completed"
<1> DEFINE t == Append(s, Event(kind, id))
<1>1. Len(s) \in Nat /\ Event(kind, id) \in EventType
  BY LenProperties, EventTyped
<1>2. /\ Len(t) = Len(s) + 1
      /\ \A i \in 1..Len(s) : t[i] = s[i]
      /\ t[Len(s) + 1] = Event(kind, id)
  BY <1>1, AppendProperties
<1>3. Event(kind, id).kind # "Completed"
  BY DEF Event
<1> HIDE DEF t
<1>4. QED
  BY <1>1, <1>2, <1>3 DEF t

LEMMA KnownIds ==
  ASSUME TypeInv
  PROVE  /\ QueuedIds(queue) \cup active \cup Done \subseteq Ids
         /\ QueuedIds(queue) \cup active \cup Done \subseteq Nat
         /\ next_id \in Nat
<1>1. QueuedIds(queue) \cup active \cup Done \subseteq Ids
  BY QueuedTyped, AboutTyped DEF TypeInv, TypeOK, Done
<1>2. next_id \in 1..MaxOps + 1 /\ MaxOps \in Nat
  BY ManagerAssumption DEF TypeInv, TypeOK
<1>3. next_id \in Nat
  BY <1>2
<1>4. QED
  BY <1>1, <1>3, IdsAreNumbers

(* A new operation is known by no one yet. *)
LEMMA FreshId ==
  ASSUME TypeInv, PlaceInv, GenerateId
  PROVE  /\ next_id \in Ids /\ next_id' = next_id + 1 /\ next_id \in Nat
         /\ next_id \notin QueuedIds(queue) \cup active \cup Done
         /\ \A id \in QueuedIds(queue) \cup active \cup Done : id < next_id'
<1>1. next_id \in Ids /\ next_id \in Nat /\ next_id' = next_id + 1
  BY IdsAreNumbers, GenerateIdTyped DEF TypeInv, GenerateId
<1>2. QED
  BY <1>1, KnownIds DEF PlaceInv

LEMMA EnqueuePlace ==
  ASSUME TypeInv, PlaceInv, GenerateId, NEW r \in Requests, NEW p \in Priority,
         queue' = Enqueue(queue, [id |-> next_id, priority |-> p, request |-> r]),
         UNCHANGED <<active, ended, events, pc, poll, event_rx>>
  PROVE  PlaceInv'
<1> DEFINE e == [id |-> next_id, priority |-> p, request |-> r]
<1>1. queue \in Seq(Entries(Ids, Requests)) /\ e \in Entries(Ids, Requests) /\ e.id = next_id
  BY FreshId, EntryTyped DEF TypeInv, TypeOK
<1>2. queue \in Seq(Entries(Nat, Requests)) /\ e \in Entries(Nat, Requests)
  <2>1. Entries(Ids, Requests) \subseteq Entries(Nat, Requests)
    BY IdsAreNumbers DEF Entries
  <2>2. QED
    BY <1>1, <2>1, SeqMonotonic
<1> HIDE DEF e
<1>3. \A i \in 1..Len(queue) : queue[i].id < e.id
  BY <1>1 DEF PlaceInv, QueuedIds
<1>4. queue' = Enqueue(queue, e)
  BY DEF e
<1>5. InOrder(queue')
  BY <1>2, <1>3, <1>4, EnqueueInOrder DEF PlaceInv
<1>6. DistinctIds(queue') /\ QueuedIds(queue') \subseteq QueuedIds(queue) \cup {next_id}
  <2>1. e.id \notin QueuedIds(queue)
    BY <1>1, FreshId
  <2>2. DistinctIds(queue)
    BY DEF PlaceInv
  <2>3. /\ QueuedIds(Enqueue(queue, e)) \subseteq QueuedIds(queue) \cup {e.id}
        /\ DistinctIds(Enqueue(queue, e))
    BY <1>1, <2>1, <2>2, EnqueueIds
  <2>4. QED
    BY <1>1, <1>4, <2>3
<1>7. Done' = Done /\ About("Completed")' = About("Completed")
  BY DEF Done, About
<1>8. QED
  <2>1. InOrder(queue)' /\ DistinctIds(queue)'
    BY <1>5, <1>6 DEF InOrder, DistinctIds
  <2>2. QueuedIds(queue)' \subseteq QueuedIds(queue) \cup {next_id}
    BY <1>6 DEF QueuedIds
  <2>3. next_id < next_id'
    BY FreshId
  <2>4. QED
    BY <1>7, <2>1, <2>2, <2>3, FreshId DEF PlaceInv

(* Starting a new or just dequeued operation. *)
LEMMA SpawnPlace ==
  ASSUME TypeInv, PlaceInv, NEW id \in Ids, NEW r \in Requests, Spawn(id, r),
         id < next_id', next_id <= next_id', next_id' \in Nat,
         InOrder(queue'), DistinctIds(queue'),
         QueuedIds(queue') \subseteq QueuedIds(queue), id \notin QueuedIds(queue'),
         id \notin active \cup Done,
         UNCHANGED <<ended, events, poll>>
  PROVE  PlaceInv'
<1>1. Done' = Done /\ About("Completed")' = About("Completed")
  BY DEF Done, About
<1>2. \A i \in 1..Len(event_rx') : event_rx'[i].kind # "Completed"
  <2>1. "Started" \in EventKind \ {"Completed"} /\ event_rx \in Seq(EventType)
    BY DEF EventKind, TypeInv, TypeOK
  <2>2. QED
    BY <2>1, NotCompleted DEF Spawn, PlaceInv
<1>3. /\ active' \subseteq active \cup {id}
      /\ \A other \in Ids : other # id => pc'[other] = pc[other]
  BY DEF Spawn, workerVars, TypeInv, TypeOK
<1>4. id \notin About("Completed") /\ id \notin ended /\ About("Completed") \subseteq Ids
  BY AboutTyped DEF Done, TypeInv, TypeOK
<1>5. InOrder(queue)' /\ DistinctIds(queue)' /\ QueuedIds(queue)' = QueuedIds(queue')
  BY DEF InOrder, DistinctIds, QueuedIds
<1>6. \A other \in QueuedIds(queue) \cup active \cup Done : other < next_id'
  BY KnownIds DEF PlaceInv
<1>7. QED
  BY <1>1, <1>2, <1>3, <1>4, <1>5, <1>6 DEF PlaceInv

LEMMA UserPlace ==
  ASSUME TypeInv, PlaceInv, User
  PROVE  PlaceInv'
<1>1. ASSUME NEW r \in Requests, QueueOperation(r)
      PROVE  PlaceInv'
  BY <1>1, EnqueuePlace, RequestTyped DEF QueueOperation, channels, workerVars, pollVars
<1>2. ASSUME NEW r \in Requests, StartNow(r)
      PROVE  PlaceInv'
  <2>1. GenerateId /\ Spawn(next_id, r) /\ UNCHANGED <<queue, ended, events, poll>>
    BY <1>2 DEF StartNow, pollVars
  <2>2. /\ next_id \in Ids /\ next_id \in Nat /\ next_id' = next_id + 1
        /\ next_id \notin QueuedIds(queue) \cup active \cup Done
    BY <2>1, FreshId
  <2>3. QED
    BY <2>1, <2>2, SpawnPlace DEF PlaceInv
<1>3. ASSUME NEW r \in Requests, StartNowAtLimit(r)
      PROVE  PlaceInv'
  <2>1. High \in Priority
    BY DEF High, Priority, Low, Immediate
  <2>2. QED
    BY <1>3, <2>1, EnqueuePlace DEF StartNowAtLimit, channels, workerVars, pollVars
<1>4. ASSUME NEW id \in Ids, Pause(id) \/ Resume(id)
      PROVE  PlaceInv'
  <2>1. PICK flag \in BOOLEAN, kind \in {"Paused", "Resumed"} : SetPaused(id, flag, kind)
    BY <1>4 DEF Pause, Resume
  <2>2. \A i \in 1..Len(event_rx') : event_rx'[i].kind # "Completed"
    <3>1. kind \in EventKind \ {"Completed"} /\ event_rx \in Seq(EventType)
      BY DEF EventKind, TypeInv, TypeOK
    <3>2. QED
      BY <2>1, <3>1, NotCompleted DEF SetPaused, PlaceInv
  <2>3. QED
    BY <2>1, <2>2 DEF SetPaused, PlaceInv, Done, About, workerVars, pollVars, uiVars
<1>5. ASSUME UNCHANGED <<next_id, active, event_rx, pc, poll, events, ended>>,
             InOrder(queue'), DistinctIds(queue'), QueuedIds(queue') \subseteq QueuedIds(queue)
      PROVE  PlaceInv'
  <2>1. InOrder(queue)' /\ DistinctIds(queue)' /\ QueuedIds(queue)' = QueuedIds(queue')
    BY <1>5 DEF InOrder, DistinctIds, QueuedIds
  <2>2. Done' = Done /\ About("Completed")' = About("Completed")
    BY <1>5 DEF Done, About
  <2>3. QED
    BY <1>5, <2>1, <2>2 DEF PlaceInv
<1>6. ASSUME NEW id \in Ids, Cancel(id)
      PROVE  PlaceInv'
  <2>1. queue \in Seq(Entries(Ids, Requests)) /\ queue' = RemoveId(queue, id)
        /\ InOrder(queue) /\ DistinctIds(queue)
    BY <1>6 DEF Cancel, TypeInv, TypeOK, PlaceInv
  <2>2. InOrder(queue') /\ DistinctIds(queue') /\ QueuedIds(queue') \subseteq QueuedIds(queue)
    BY <2>1, RemoveIdInOrder, RemoveIdIds
  <2>3. QED
    BY <1>5, <1>6, <2>2 DEF Cancel, channels, workerVars, pollVars
<1>7. ASSUME CancelAll
      PROVE  PlaceInv'
  <2>1. InOrder(<<>>) /\ DistinctIds(<<>>) /\ QueuedIds(<<>>) = {}
    BY DEF InOrder, DistinctIds, QueuedIds
  <2>2. QED
    BY <1>5, <1>7, <2>1 DEF CancelAll, channels, workerVars, pollVars
<1>8. QED
  BY <1>1, <1>2, <1>3, <1>4, <1>6, <1>7 DEF User, Submit

LEMMA AnswerPlace ==
  ASSUME TypeInv, PlaceInv, NEW id \in Ids, Answer(id)
  PROVE  PlaceInv'
BY DEF Answer, ResolveConflict, PlaceInv, Done, About, workerVars, pollVars

(* What poll() finds finished is still in `active`: the thread bound's invariant. *)
LEMMA PollPlace ==
  ASSUME TypeInv, ThreadsInv, PlaceInv, Poll
  PROVE  PlaceInv'
<1>1. CASE PollDrain
  <2>1. About("Completed")' = {} /\ Done' = ended
    BY <1>1 DEF PollDrain, PlaceInv, About, Done, uiVars
  <2>2. UNCHANGED <<next_id, queue, active, ended, pc>> /\ event_rx' = <<>>
    BY <1>1 DEF PollDrain, workerVars, uiVars
  <2>3. QED
    BY <2>1, <2>2 DEF PlaceInv, Done
<1>2. ASSUME NEW id \in Ids, PollProgress(id)
      PROVE  PlaceInv'
  <2>1. About("Completed")' = About("Completed")
    <3>1. CASE events' = events
      BY <3>1 DEF About
    <3>2. CASE events' = Append(events, Event("Progress", id))
      <4>1. events \in Seq(EventType) /\ Event("Progress", id) \in EventType
        BY EventTyped DEF EventKind, TypeInv, TypeOK
      <4>2. /\ Len(events') = Len(events) + 1 /\ Len(events) \in Nat
            /\ \A i \in 1..Len(events) : events'[i] = events[i]
            /\ events'[Len(events) + 1] = Event("Progress", id)
        BY <3>2, <4>1, AppendProperties, LenProperties
      <4>3. Event("Progress", id).kind # "Completed"
        BY DEF Event
      <4>4. QED
        BY <4>2, <4>3 DEF About
    <3>3. QED
      BY <1>2, <3>1, <3>2 DEF PollProgress
  <2>2. QED
    BY <1>2, <2>1 DEF PollProgress, PlaceInv, Done, workerVars, uiVars
<1>3. CASE PollReap
  <2>1. UNCHANGED <<next_id, queue, active, ended, event_rx, poll>> /\ poll = "visit"
    BY <1>3 DEF PollReap, channels, uiVars
  <2>2. CASE pc[reading] # "finished"
    BY <1>3, <2>1, <2>2 DEF PollReap, PlaceInv, Done, About
  <2>3. CASE pc[reading] = "finished"
    <3>1. reading \in Ids /\ events \in Seq(EventType)
          /\ Event("Completed", reading) \in EventType
      BY <1>3, EventTyped DEF PollReap, TypeInv, TypeOK, EventKind
    <3>2. events' = Append(events, Event("Completed", reading))
          /\ pc' = [pc EXCEPT ![reading] = "joined"]
      BY <1>3, <2>3 DEF PollReap
    <3>3. /\ Len(events') = Len(events) + 1 /\ Len(events) \in Nat
          /\ \A i \in 1..Len(events) : events'[i] = events[i]
          /\ events'[Len(events) + 1] = Event("Completed", reading)
      BY <3>1, <3>2, AppendProperties, LenProperties
    <3>4. About("Completed")' \subseteq About("Completed") \cup {reading}
      BY <3>3 DEF About, Event
    <3>5. reading \in active
      BY <2>3, <3>1 DEF ThreadsInv, Threads, Location
    <3>6. QED
      BY <2>1, <3>1, <3>2, <3>4, <3>5 DEF PlaceInv, Done, TypeInv, TypeOK
  <2>4. QED
    BY <2>2, <2>3
<1>4. CASE PollRemove
  BY <1>4 DEF PollRemove, PlaceInv, Done, About, workerVars, uiVars
<1>5. CASE PollRefill
  <2>1. /\ queue # <<>> /\ queue' = Tail(queue) /\ queue \in Seq(Entries(Ids, Requests))
        /\ Spawn(Head(queue).id, Head(queue).request)
        /\ UNCHANGED <<next_id, ended, events, poll>>
    BY <1>5 DEF PollRefill, TypeInv, TypeOK, pollVars, uiVars
  <2>2. Head(queue).id \in Ids /\ Head(queue).request \in Requests
    <3>1. Head(queue) \in Entries(Ids, Requests)
      BY <2>1, HeadTailProperties
    <3>2. QED
      BY <3>1 DEF Entries
  <2>3. InOrder(queue') /\ DistinctIds(queue')
        /\ QueuedIds(queue') \subseteq QueuedIds(queue) \ {Head(queue).id}
        /\ Head(queue).id \in QueuedIds(queue)
    BY <2>1, TailInOrder, TailIds DEF PlaceInv
  <2>4. Head(queue).id \notin active \cup Done /\ Head(queue).id < next_id
    BY <2>3 DEF PlaceInv
  <2>5. next_id \in Nat
    BY KnownIds
  <2>6. QED
    BY <2>1, <2>2, <2>3, <2>4, <2>5, SpawnPlace
<1>6. CASE PollReturn
  <2>1. About("Completed")' = {} /\ ended' = Done /\ poll' = "idle"
        /\ UNCHANGED <<next_id, queue, active, event_rx, pc>>
    BY <1>6 DEF PollReturn, About, Done, channels, workerVars
  <2>2. Done' = Done
    BY <2>1 DEF Done
  <2>3. active \cap Done = {}
    BY <1>6 DEF PollReturn, PlaceInv, Done
  <2>4. QED
    BY <2>1, <2>2, <2>3 DEF PlaceInv
<1>7. QED
  BY <1>1, <1>2, <1>3, <1>4, <1>5, <1>6 DEF Poll

(* A worker puts no completion in the channel; it acts on an operation that  *)
(* has a thread, so not on one reported as completed.                        *)
LEMMA WorkerPlace ==
  ASSUME TypeInv, PlaceInv, NEW id \in Ids, Worker(id)
  PROVE  PlaceInv'
<1>1. UNCHANGED <<next_id, queue, active, poll, events, ended>>
  BY DEF Worker, WorkerTop, WorkerEnd, WorkerCheckConflict, WorkerAnswered, WorkerTransfer,
     WorkerFail, workerFrame, pollVars, uiVars
<1>2. pc[id] # "joined" /\ \A other \in Ids : other # id => pc'[other] = pc[other]
  BY DEF Worker, WorkerTop, WorkerEnd, WorkerCheckConflict, WorkerAnswered, WorkerTransfer,
     WorkerFail, Finish, ItemDone, Goto, TypeInv, TypeOK
<1>3. \/ event_rx' = event_rx
      \/ event_rx' = Append(event_rx, Event("ConflictDetected", id))
  BY DEF Worker, WorkerTop, WorkerEnd, WorkerCheckConflict, WorkerAnswered, WorkerTransfer,
     WorkerFail, channels
<1>4. \A i \in 1..Len(event_rx') : event_rx'[i].kind # "Completed"
  <2>1. "ConflictDetected" \in EventKind \ {"Completed"} /\ event_rx \in Seq(EventType)
    BY DEF EventKind, TypeInv, TypeOK
  <2>2. QED
    BY <1>3, <2>1, NotCompleted DEF PlaceInv
<1>5. Done' = Done /\ About("Completed")' = About("Completed")
  BY <1>1 DEF Done, About
<1>6. About("Completed") \subseteq Ids
  BY AboutTyped DEF TypeInv, TypeOK
<1>7. QED
  BY <1>1, <1>2, <1>4, <1>5, <1>6 DEF PlaceInv

THEOREM PlaceInvHolds == Spec => []PlaceInv
<1>1. Init => PlaceInv
  BY DEF Init, PlaceInv, Done, About, InOrder, DistinctIds, QueuedIds
<1>2. TypeInv /\ ThreadsInv /\ PlaceInv /\ [Next]_vars => PlaceInv'
  <2>1. ASSUME PlaceInv, UNCHANGED vars PROVE PlaceInv'
    <3>1. UNCHANGED <<next_id, queue, active, event_rx, pc, poll, events, ended>>
      BY <2>1 DEF vars, channels, workerVars, pollVars, uiVars
    <3>2. Done' = Done /\ About("Completed")' = About("Completed")
      BY <3>1 DEF Done, About
    <3>3. InOrder(queue)' = InOrder(queue) /\ DistinctIds(queue)' = DistinctIds(queue)
          /\ QueuedIds(queue)' = QueuedIds(queue)
      BY <3>1 DEF InOrder, DistinctIds, QueuedIds
    <3>4. QED
      BY <2>1, <3>1, <3>2, <3>3 DEF PlaceInv
  <2>2. QED
    BY <2>1, UserPlace, AnswerPlace, PollPlace, WorkerPlace DEF Next
<1>3. QED
  BY <1>1, <1>2, ThreadsInvHolds, PTL DEF Spec

(* No operation is in two places, for every configuration. *)
THEOREM OnePlaceHolds == Spec => []OnePlace
<1>1. PlaceInv => OnePlace
  BY DEF PlaceInv, OnePlace, Done
<1>2. QED
  BY <1>1, PlaceInvHolds, PTL

(* The queue is in priority order, arrival order within one priority.       *)
THEOREM QueueInOrderHolds == Spec => []QueueInOrder
<1>1. PlaceInv => QueueInOrder
  BY DEF PlaceInv, QueueInOrder
<1>2. QED
  BY <1>1, PlaceInvHolds, PTL

-----------------------------------------------------------------------------
(***************************************************************************)
(* The operation manager keeps what OperationService promises: one answer  *)
(* for every question, and every step it takes is one of the service or    *)
(* none.                                                                   *)
(***************************************************************************)
(* How many questions of an operation a channel or poll()'s vector holds. *)
Asking(id) == Event("ConflictDetected", id)
Questions(s, id) == Cardinality({i \in 1..Len(s) : s[i] = Asking(id)})

LEMMA QuestionsCounted ==
  ASSUME NEW s \in Seq(EventType), NEW id
  PROVE  /\ IsFiniteSet({i \in 1..Len(s) : s[i] = Asking(id)})
         /\ Questions(s, id) \in Nat
         /\ Questions(s, id) = 0 <=> \A i \in 1..Len(s) : s[i] # Asking(id)
<1> DEFINE T == {i \in 1..Len(s) : s[i] = Asking(id)}
<1>1. IsFiniteSet(1..Len(s))
  BY FS_Interval, LenProperties
<1>2. IsFiniteSet(T) /\ Cardinality(T) \in Nat
  BY <1>1, FS_Subset, FS_CardinalityType
<1>3. Cardinality(T) = 0 <=> T = {}
  BY <1>2, FS_EmptySet
<1>4. QED
  BY <1>2, <1>3 DEF Questions

LEMMA NoQuestions == \A id : Questions(<<>>, id) = 0
<1>1. ASSUME NEW id PROVE Questions(<<>>, id) = 0
  <2>1. {i \in 1..Len(<<>>) : <<>>[i] = Asking(id)} = {}
    OBVIOUS
  <2>2. QED
    BY <2>1, FS_EmptySet DEF Questions
<1>2. QED
  BY <1>1

(* One event more is one question more if it asks. *)
LEMMA QuestionsAppended ==
  ASSUME NEW s \in Seq(EventType), NEW e \in EventType, NEW id
  PROVE  Questions(Append(s, e), id) =
           IF e = Asking(id) THEN Questions(s, id) + 1 ELSE Questions(s, id)
<1> DEFINE t == Append(s, e)
           n == Len(s) + 1
           S == {i \in 1..Len(s) : s[i] = Asking(id)}
           T == {i \in 1..Len(t) : t[i] = Asking(id)}
<1>1. /\ Len(s) \in Nat /\ Len(t) = n
      /\ \A i \in 1..Len(s) : t[i] = s[i]
      /\ t[n] = e
  BY AppendProperties, LenProperties
<1> HIDE DEF t
<1>2. T = IF e = Asking(id) THEN S \cup {n} ELSE S
  BY <1>1
<1>3. IsFiniteSet(S) /\ n \notin S
  BY <1>1, QuestionsCounted
<1>4. Cardinality(S \cup {n}) = Cardinality(S) + 1
  BY <1>3, FS_AddElement
<1> HIDE DEF n, S, T
<1>5. Cardinality(T) = IF e = Asking(id) THEN Cardinality(S) + 1 ELSE Cardinality(S)
  BY <1>2, <1>4
<1>6. QED
  BY <1>5 DEF T, t, S, Questions

LEMMA OtherEvents ==
  ASSUME NEW s \in Seq(EventType), NEW other \in Ids,
         NEW kind \in EventKind \ {"ConflictDetected"}
  PROVE  \A id : Questions(Append(s, Event(kind, other)), id) = Questions(s, id)
<1>1. \A id : Event(kind, other) # Asking(id)
  BY DEF Event, Asking
<1>2. Event(kind, other) \in EventType
  BY EventTyped
<1>3. QED
  BY <1>1, <1>2, QuestionsAppended

-----------------------------------------------------------------------------
(***************************************************************************)
(* One question for one conflict.  Between two polls the vector is empty,  *)
(* or what PollDrain overwrites might hold a question.                     *)
(***************************************************************************)
QuestionInv ==
  /\ OneQuestionPerConflict
  /\ poll = "idle" => events = <<>>

Told(id) == IF id \in asked THEN 1 ELSE 0

LEMMA OutstandingSum ==
  \A id : Outstanding(id) = Questions(event_rx, id) + Questions(events, id) + Told(id)
                            + Len(resolution_rx[id])
BY DEF Outstanding, Questions, Asking, Told

LEMMA OutstandingParts ==
  ASSUME TypeInv, NEW id \in Ids
  PROVE  /\ Questions(event_rx, id) \in Nat /\ Questions(events, id) \in Nat
         /\ Told(id) \in Nat /\ Len(resolution_rx[id]) \in Nat
         /\ event_rx \in Seq(EventType) /\ events \in Seq(EventType)
         /\ resolution_rx[id] \in Seq(ConflictResolution)
<1>1. /\ event_rx \in Seq(EventType) /\ events \in Seq(EventType)
      /\ resolution_rx[id] \in Seq(ConflictResolution)
  BY DEF TypeInv, TypeOK
<1>2. QED
  BY <1>1, QuestionsCounted, LenProperties DEF Told

(* A step that moves no question and brings no thread to one, or from one. *)
LEMMA QuietStep ==
  ASSUME OneQuestionPerConflict,
         \A id \in Ids : /\ Questions(event_rx', id) = Questions(event_rx, id)
                         /\ Questions(events', id) = Questions(events, id)
                         /\ asked' = asked
                         /\ resolution_rx'[id] = resolution_rx[id]
                         /\ pc'[id] = "ask" <=> pc[id] = "ask"
  PROVE  OneQuestionPerConflict'
<1>1. ASSUME NEW id \in Ids PROVE Outstanding(id)' = Outstanding(id)
  BY OutstandingSum DEF Outstanding, Questions, Asking, Told
<1>2. QED
  BY <1>1 DEF OneQuestionPerConflict

(* Whoever waits with a question has a thread, so it is active. *)
LEMMA AskingIsActive ==
  ASSUME TypeInv, ThreadsInv, OneQuestionPerConflict, NEW id \in Ids
  PROVE  /\ id \in asked => pc[id] = "ask"
         /\ pc[id] = "ask" => id \in active
         /\ pc[id] # "ask" => /\ Questions(event_rx, id) = 0 /\ Questions(events, id) = 0
                              /\ Told(id) = 0 /\ resolution_rx[id] = <<>>
<1>1. Outstanding(id) = IF pc[id] = "ask" THEN 1 ELSE 0
  BY DEF OneQuestionPerConflict
<1>2. pc[id] # "ask" => /\ Questions(event_rx, id) = 0 /\ Questions(events, id) = 0
                        /\ Told(id) = 0 /\ Len(resolution_rx[id]) = 0
  BY <1>1, OutstandingSum, OutstandingParts
<1>3. pc[id] # "ask" => resolution_rx[id] = <<>>
  BY <1>2, OutstandingParts, EmptySeq
<1>4. pc[id] = "ask" => id \in active
  BY DEF ThreadsInv, Threads, Location
<1>5. QED
  BY <1>2, <1>3, <1>4 DEF Told

LEMMA SpawnQuestions ==
  ASSUME TypeInv, ThreadsInv, OneQuestionPerConflict,
         NEW id \in Ids, id \notin active, NEW r \in Requests, Spawn(id, r),
         UNCHANGED <<events, asked, resolution_rx>>
  PROVE  OneQuestionPerConflict'
<1>1. pc[id] # "ask"
  BY AskingIsActive
<1>2. \A other \in Ids : pc'[other] = "ask" <=> pc[other] = "ask"
  BY <1>1 DEF Spawn, workerVars, TypeInv, TypeOK
<1>3. \A other \in Ids : Questions(event_rx', other) = Questions(event_rx, other)
  <2>1. "Started" \in EventKind \ {"ConflictDetected"} /\ event_rx \in Seq(EventType)
    BY DEF EventKind, TypeInv, TypeOK
  <2>2. event_rx' = event_rx \/ event_rx' = Append(event_rx, Event("Started", id))
    BY DEF Spawn
  <2>3. \A other : Questions(Append(event_rx, Event("Started", id)), other) = Questions(event_rx, other)
    BY <2>1, OtherEvents
  <2>4. QED
    BY <2>2, <2>3
<1>4. QED
  BY <1>2, <1>3, QuietStep

LEMMA UserQuestions ==
  ASSUME TypeInv, ThreadsInv, PlaceInv, OneQuestionPerConflict, User
  PROVE  OneQuestionPerConflict'
<1>1. ASSUME NEW r \in Requests, StartNow(r)
      PROVE  OneQuestionPerConflict'
  <2>1. GenerateId /\ Spawn(next_id, r) /\ UNCHANGED <<events, asked, resolution_rx>>
    BY <1>1 DEF StartNow, pollVars
  <2>2. next_id \in Ids /\ next_id \notin active
    BY <2>1, FreshId
  <2>3. QED
    BY <2>1, <2>2, SpawnQuestions
<1>2. ASSUME NEW id \in Ids, Pause(id) \/ Resume(id)
      PROVE  OneQuestionPerConflict'
  <2>1. PICK flag \in BOOLEAN, kind \in {"Paused", "Resumed"} : SetPaused(id, flag, kind)
    BY <1>2 DEF Pause, Resume
  <2>2. kind \in EventKind \ {"ConflictDetected"} /\ event_rx \in Seq(EventType)
    BY DEF EventKind, TypeInv, TypeOK
  <2>3. \A other \in Ids : Questions(event_rx', other) = Questions(event_rx, other)
    BY <2>1, <2>2, OtherEvents DEF SetPaused
  <2>4. QED
    BY <2>1, <2>3, QuietStep DEF SetPaused, workerVars, pollVars, uiVars
<1>3. ASSUME UNCHANGED <<event_rx, events, asked, resolution_rx, pc>>
      PROVE  OneQuestionPerConflict'
  BY <1>3, QuietStep
<1>4. QED
  BY <1>1, <1>2, <1>3 DEF User, Submit, QueueOperation, StartNowAtLimit, Cancel, CancelAll,
     channels, workerVars, pollVars

(* The answer takes the place of the dialog. *)
LEMMA AnswerQuestions ==
  ASSUME TypeInv, ThreadsInv, OneQuestionPerConflict, NEW id \in Ids, Answer(id)
  PROVE  OneQuestionPerConflict'
<1>1. PICK resolution \in Resolutions : ResolveConflict(id, resolution)
  BY DEF Answer
<1>2. id \in asked /\ id \in active /\ resolution \in ConflictResolution
  BY <1>1, AskingIsActive, ManagerAssumption DEF ResolveConflict
<1>3. /\ resolution_rx' = [resolution_rx EXCEPT ![id] = Append(resolution_rx[id], resolution)]
      /\ asked' = asked \ {id}
      /\ UNCHANGED <<event_rx, events, pc>>
  BY <1>1, <1>2 DEF ResolveConflict, workerVars, pollVars
<1>4. ASSUME NEW other \in Ids
      PROVE  Told(other)' + Len(resolution_rx'[other]) = Told(other) + Len(resolution_rx[other])
  <2>1. CASE other = id
    <3>1. resolution_rx'[id] = Append(resolution_rx[id], resolution)
      BY <1>3 DEF TypeInv, TypeOK
    <3>2. Len(resolution_rx'[id]) = Len(resolution_rx[id]) + 1
      BY <3>1, <1>2, OutstandingParts, AppendProperties
    <3>3. Told(id) = 1 /\ Told(id)' = 0
      BY <1>2, <1>3 DEF Told
    <3>4. QED
      BY <2>1, <3>2, <3>3, OutstandingParts
  <2>2. CASE other # id
    BY <1>3, <2>2 DEF Told, TypeInv, TypeOK
  <2>3. QED
    BY <2>1, <2>2
<1>5. ASSUME NEW other \in Ids PROVE Outstanding(other)' = Outstanding(other)
  <2> DEFINE received == Questions(event_rx, other) + Questions(events, other)
             waiting == Told(other) + Len(resolution_rx[other])
             waiting2 == Told(other)' + Len(resolution_rx'[other])
  <2>1. received \in Nat /\ waiting = waiting2 /\ Told(other) \in Nat
        /\ Len(resolution_rx[other]) \in Nat
    BY <1>4, OutstandingParts
  <2>2. resolution_rx'[other] \in Seq(ConflictResolution) /\ Told(other)' \in Nat
    BY <1>2, <1>3, AppendProperties DEF TypeInv, TypeOK, Told
  <2>3. Len(resolution_rx'[other]) \in Nat
    BY <2>2, LenProperties
  <2>4. Outstanding(other) = received + Told(other) + Len(resolution_rx[other])
    BY OutstandingSum
  <2>5. Outstanding(other)' = received + Told(other)' + Len(resolution_rx'[other])
    BY <1>3 DEF Outstanding, Questions, Asking, Told
  <2> HIDE DEF received
  <2>6. Told(other) + Len(resolution_rx[other]) = Told(other)' + Len(resolution_rx'[other])
    BY <2>1
  <2> DEFINE a == Told(other)
             b == Len(resolution_rx[other])
             c == Told(other)'
             d == Len(resolution_rx'[other])
  <2>7. a \in Nat /\ b \in Nat /\ c \in Nat /\ d \in Nat /\ received \in Nat
    BY <2>1, <2>2, <2>3
  <2>8. a + b = c + d /\ Outstanding(other) = received + a + b
        /\ Outstanding(other)' = received + c + d
    BY <2>4, <2>5, <2>6
  <2> HIDE DEF a, b, c, d
  <2>9. QED
    BY <2>7, <2>8
<1>6. QED
  BY <1>3, <1>5 DEF OneQuestionPerConflict

LEMMA PollQuestions ==
  ASSUME TypeInv, ThreadsInv, PlaceInv, QuestionInv, Poll
  PROVE  QuestionInv'
<1>1. CASE PollDrain
  <2>1. /\ events = <<>> /\ events' = event_rx /\ event_rx' = <<>> /\ poll' = "visit"
        /\ UNCHANGED <<asked, resolution_rx, pc>>
    BY <1>1 DEF PollDrain, QuestionInv, workerVars, uiVars
  <2>2. ASSUME NEW id \in Ids PROVE Outstanding(id)' = Outstanding(id)
    <3>1. Questions(events, id) = 0 /\ Questions(<<>>, id) = 0
      BY <2>1, NoQuestions
    <3>2. Outstanding(id)' = 0 + Questions(event_rx, id) + Told(id) + Len(resolution_rx[id])
      BY <2>1, <3>1 DEF Outstanding, Questions, Asking, Told
    <3>3. QED
      BY <3>1, <3>2, OutstandingSum, OutstandingParts
  <2>3. QED
    BY <2>1, <2>2 DEF QuestionInv, OneQuestionPerConflict
<1>2. ASSUME NEW id \in Ids, PollProgress(id)
      PROVE  QuestionInv'
  <2>1. "Progress" \in EventKind \ {"ConflictDetected"} /\ events \in Seq(EventType)
    BY DEF EventKind, TypeInv, TypeOK
  <2>2. \A other \in Ids : Questions(events', other) = Questions(events, other)
    BY <1>2, <2>1, OtherEvents DEF PollProgress
  <2>3. OneQuestionPerConflict'
    BY <1>2, <2>2, QuietStep DEF PollProgress, QuestionInv, workerVars, uiVars
  <2>4. QED
    BY <1>2, <2>3 DEF PollProgress, QuestionInv
<1>3. CASE PollReap
  <2>1. /\ reading \in Ids /\ "Completed" \in EventKind \ {"ConflictDetected"}
        /\ events \in Seq(EventType)
    BY <1>3 DEF PollReap, EventKind, TypeInv, TypeOK
  <2>2. \A other \in Ids : Questions(events', other) = Questions(events, other)
    <3>1. events' = events \/ events' = Append(events, Event("Completed", reading))
      BY <1>3 DEF PollReap
    <3>2. \A other : Questions(Append(events, Event("Completed", reading)), other)
                      = Questions(events, other)
      BY <2>1, OtherEvents
    <3>3. QED
      BY <3>1, <3>2
  <2>3. \A other \in Ids : pc'[other] = "ask" <=> pc[other] = "ask"
    BY <1>3 DEF PollReap, TypeInv, TypeOK
  <2>4. OneQuestionPerConflict'
    BY <1>3, <2>2, <2>3, QuietStep DEF PollReap, QuestionInv, channels, uiVars
  <2>5. QED
    BY <1>3, <2>4 DEF PollReap, QuestionInv
<1>4. CASE PollRemove
  <2>1. \A id \in Ids : resolution_rx'[id] = resolution_rx[id]
    <3>1. ASSUME NEW id \in Ids, resolution_rx[id] # <<>> PROVE id \in active /\ pc[id] # "joined"
      BY <3>1, AskingIsActive DEF QuestionInv
    <3>2. QED
      BY <1>4, <3>1 DEF PollRemove
  <2>2. OneQuestionPerConflict'
    BY <1>4, <2>1, QuietStep DEF PollRemove, QuestionInv, workerVars, uiVars
  <2>3. QED
    BY <1>4, <2>2 DEF PollRemove, QuestionInv
<1>5. CASE PollRefill
  <2>1. Head(queue) \in Entries(Ids, Requests) /\ Head(queue).id \in QueuedIds(queue)
    BY <1>5, HeadTailProperties, TailIds DEF PollRefill, TypeInv, TypeOK, PlaceInv
  <2>2. Head(queue).id \in Ids /\ Head(queue).request \in Requests /\ Head(queue).id \notin active
    BY <2>1 DEF Entries, PlaceInv
  <2>3. OneQuestionPerConflict'
    BY <1>5, <2>2, SpawnQuestions DEF PollRefill, QuestionInv, pollVars, uiVars
  <2>4. QED
    BY <1>5, <2>3 DEF PollRefill, QuestionInv, pollVars
<1>6. CASE PollReturn
  <2>1. /\ events' = <<>> /\ asked' = asked \cup About("ConflictDetected")
        /\ UNCHANGED <<event_rx, resolution_rx, pc>>
    BY <1>6 DEF PollReturn, channels, workerVars
  <2>2. ASSUME NEW id \in Ids PROVE Outstanding(id)' = Outstanding(id)
    <3>1. id \in About("ConflictDetected") <=> Questions(events, id) # 0
      <4>1. \A i \in 1..Len(events) : events[i] = Asking(id)
                 <=> events[i].kind = "ConflictDetected" /\ events[i].id = id
        <5>1. \A i \in 1..Len(events) : events[i] \in EventType
          BY ElementOfSeq DEF TypeInv, TypeOK
        <5>2. QED
          BY <5>1 DEF EventType, Asking, Event
      <4>2. QED
        BY <4>1, QuestionsCounted, OutstandingParts DEF About
    <3>2. Outstanding(id) <= 1
      BY DEF QuestionInv, OneQuestionPerConflict
    <3>3. Questions(events, id) + Told(id) <= 1
      BY <3>2, OutstandingSum, OutstandingParts
    <3>4. Questions(events, id) \in {0, 1} /\ Told(id)' = Questions(events, id) + Told(id)
      BY <2>1, <3>1, <3>3, OutstandingParts DEF Told
    <3>5. Outstanding(id)' = Questions(event_rx, id) + 0 + Told(id)' + Len(resolution_rx[id])
      BY <2>1, NoQuestions DEF Outstanding, Questions, Asking, Told
    <3>6. QED
      BY <3>4, <3>5, OutstandingSum, OutstandingParts
  <2>3. QED
    BY <2>1, <2>2 DEF QuestionInv, OneQuestionPerConflict
<1>7. QED
  BY <1>1, <1>2, <1>3, <1>4, <1>5, <1>6 DEF Poll

(* A worker asks, and takes its answer; everything else it does is quiet. *)
LEMMA WorkerQuestions ==
  ASSUME TypeInv, ThreadsInv, OneQuestionPerConflict, NEW id \in Ids, Worker(id)
  PROVE  OneQuestionPerConflict'
<1>1. /\ UNCHANGED <<events, asked>>
      /\ \A other \in Ids : other # id => pc'[other] = pc[other]
  BY DEF Worker, WorkerTop, WorkerEnd, WorkerCheckConflict, WorkerAnswered, WorkerTransfer,
     WorkerFail, Finish, ItemDone, Goto, workerFrame, pollVars, uiVars, TypeInv, TypeOK
<1>2. CASE /\ pc[id] # "ask" /\ pc'[id] # "ask"
           /\ UNCHANGED <<event_rx, resolution_rx>>
  BY <1>1, <1>2, QuietStep
<1>3. CASE /\ pc[id] # "ask" /\ pc'[id] = "ask"
           /\ event_rx' = Append(event_rx, Asking(id))
           /\ UNCHANGED resolution_rx
  <2>1. Asking(id) \in EventType /\ \A other \in Ids : other # id => Asking(id) # Asking(other)
    BY EventTyped DEF Asking, Event, EventKind
  <2>2. ASSUME NEW other \in Ids
        PROVE  Outstanding(other)' = Outstanding(other) + IF other = id THEN 1 ELSE 0
    <3>1. Questions(event_rx', other)
            = Questions(event_rx, other) + IF other = id THEN 1 ELSE 0
      BY <1>3, <2>1, QuestionsAppended, OutstandingParts
    <3>2. Outstanding(other)' = Questions(event_rx', other) + Questions(events, other)
                                + Told(other) + Len(resolution_rx[other])
      BY <1>1, <1>3 DEF Outstanding, Questions, Asking, Told
    <3>3. Outstanding(other) = Questions(event_rx, other) + Questions(events, other)
                               + Told(other) + Len(resolution_rx[other])
      BY OutstandingSum
    <3>4. CASE other = id
      BY <3>1, <3>2, <3>3, <3>4, OutstandingParts
    <3>5. CASE other # id
      BY <3>1, <3>2, <3>3, <3>5, OutstandingParts
    <3>6. QED
      BY <3>4, <3>5
  <2>3. QED
    BY <1>1, <1>3, <2>2 DEF OneQuestionPerConflict
<1>4. CASE WorkerAnswered(id)
  <2>1. /\ pc[id] = "ask" /\ pc'[id] # "ask" /\ resolution_rx[id] # <<>>
        /\ resolution_rx' = [resolution_rx EXCEPT ![id] = Tail(resolution_rx[id])]
        /\ UNCHANGED event_rx
    BY <1>4 DEF WorkerAnswered, Finish, ItemDone, Goto, TypeInv, TypeOK
  <2>2. Len(Tail(resolution_rx[id])) = Len(resolution_rx[id]) - 1
    BY <2>1, OutstandingParts, HeadTailProperties
  <2>3. ASSUME NEW other \in Ids
        PROVE  Outstanding(other)' = Outstanding(other) - IF other = id THEN 1 ELSE 0
    <3>1. Len(resolution_rx'[other]) = Len(resolution_rx[other]) - IF other = id THEN 1 ELSE 0
      BY <2>1, <2>2, OutstandingParts DEF TypeInv, TypeOK
    <3>2. Outstanding(other)' = Questions(event_rx, other) + Questions(events, other)
                                + Told(other) + Len(resolution_rx'[other])
      BY <1>1, <2>1 DEF Outstanding, Questions, Asking, Told
    <3>3. Outstanding(other) = Questions(event_rx, other) + Questions(events, other)
                               + Told(other) + Len(resolution_rx[other])
      BY OutstandingSum
    <3>4. CASE other = id
      BY <3>1, <3>2, <3>3, <3>4, OutstandingParts
    <3>5. CASE other # id
      BY <3>1, <3>2, <3>3, <3>5, OutstandingParts
    <3>6. QED
      BY <3>4, <3>5
  <2>4. QED
    BY <1>1, <2>1, <2>3 DEF OneQuestionPerConflict
<1>5. CASE ~WorkerAnswered(id)
  <2>1. pc[id] # "ask" /\ UNCHANGED resolution_rx
    BY <1>5 DEF Worker, WorkerTop, WorkerEnd, WorkerCheckConflict, WorkerTransfer,
       WorkerFail, channels
  <2>2. \/ pc'[id] # "ask" /\ UNCHANGED event_rx
        \/ pc'[id] = "ask" /\ event_rx' = Append(event_rx, Asking(id))
    BY <1>5 DEF Worker, WorkerTop, WorkerEnd, WorkerCheckConflict, WorkerTransfer,
       WorkerFail, Finish, ItemDone, Goto, channels, Asking, TypeInv, TypeOK
  <2>3. QED
    BY <1>2, <1>3, <2>1, <2>2
<1>6. QED
  BY <1>4, <1>5

(* Between two polls no event is left in the vector, and every worker that  *)
(* asks has exactly one question or answer on its way.                      *)
THEOREM QuestionInvHolds == Spec => []QuestionInv
<1>1. Init => QuestionInv
  <2>1. SUFFICES ASSUME Init PROVE QuestionInv
    OBVIOUS
  <2>2. ASSUME NEW id \in Ids PROVE Outstanding(id) = 0 /\ pc[id] # "ask"
    <3>1. Len(resolution_rx[id]) = 0 /\ Told(id) = 0
      BY <2>1 DEF Init, Told
    <3>2. QED
      BY <2>1, <3>1, NoQuestions, OutstandingSum DEF Init
  <2>3. QED
    BY <2>1, <2>2 DEF Init, QuestionInv, OneQuestionPerConflict
<1>2. TypeInv /\ ThreadsInv /\ PlaceInv /\ QuestionInv /\ [Next]_vars => QuestionInv'
  <2>1. ASSUME QuestionInv, UNCHANGED vars PROVE QuestionInv'
    <3>1. UNCHANGED <<event_rx, events, asked, resolution_rx, pc, poll>>
      BY <2>1 DEF vars, channels, workerVars, pollVars, uiVars
    <3>2. QED
      BY <2>1, <3>1, QuietStep DEF QuestionInv
  <2>2. ASSUME User \/ (\E id \in Ids : Answer(id) \/ Worker(id))
        PROVE  UNCHANGED <<poll, events>>
    BY <2>2 DEF User, Submit, QueueOperation, StartNow, StartNowAtLimit, Pause, Resume, SetPaused,
       Cancel, CancelAll, Answer, ResolveConflict, Worker, WorkerTop, WorkerEnd,
       WorkerCheckConflict, WorkerAnswered, WorkerTransfer, WorkerFail, workerFrame, pollVars
  <2>3. QED
    BY <2>1, <2>2, UserQuestions, AnswerQuestions, PollQuestions, WorkerQuestions
       DEF Next, QuestionInv
<1>3. QED
  BY <1>1, <1>2, ThreadsInvHolds, PlaceInvHolds, PTL DEF Spec

(* A worker that asks has one question on its way, with the user or just    *)
(* answered, and no other has any, for every configuration.                 *)
THEOREM OneQuestionPerConflictHolds == Spec => []OneQuestionPerConflict
BY QuestionInvHolds, PTL DEF QuestionInv

-----------------------------------------------------------------------------
(***************************************************************************)
(* The life of an operation.  Whatever the manager knows of was accepted,  *)
(* and what the user took out of the queue is nowhere.                     *)
(***************************************************************************)
Known == QueuedIds(queue) \cup active \cup Done

LifeInv ==
  /\ Known \cup withdrawn \subseteq accepted
  /\ withdrawn \cap Known = {}
  /\ \A id \in accepted : id < next_id
  /\ visit \subseteq active

LEMMA UserLife ==
  ASSUME TypeInv, PlaceInv, LifeInv, User
  PROVE  LifeInv'
<1>1. UNCHANGED <<ended, events, visit>> /\ Done' = Done
  BY DEF User, Submit, QueueOperation, StartNow, StartNowAtLimit, Pause, Resume, SetPaused,
     Cancel, CancelAll, pollVars, uiVars, Done, About
<1>2. ASSUME NEW r \in Requests, Submit(r)
      PROVE  LifeInv'
  <2>1. GenerateId /\ UNCHANGED withdrawn
    BY <1>2 DEF Submit, QueueOperation, StartNow, StartNowAtLimit
  <2>2. /\ next_id \in Nat /\ next_id' = next_id + 1 /\ next_id \in Ids
        /\ next_id \notin accepted /\ accepted \subseteq Nat
    BY <2>1, FreshId, IdsAreNumbers DEF LifeInv, TypeInv, TypeOK
  <2>3. \A p \in Priority : LET e == [id |-> next_id, priority |-> p, request |-> r]
                            IN  QueuedIds(Enqueue(queue, e)) \subseteq QueuedIds(queue) \cup {next_id}
    <3>1. SUFFICES ASSUME NEW p \in Priority
                   PROVE  QueuedIds(Enqueue(queue, [id |-> next_id, priority |-> p, request |-> r]))
                            \subseteq QueuedIds(queue) \cup {next_id}
      OBVIOUS
    <3> DEFINE e == [id |-> next_id, priority |-> p, request |-> r]
    <3>2. queue \in Seq(Entries(Ids, Requests)) /\ e \in Entries(Ids, Requests) /\ e.id = next_id
          /\ DistinctIds(queue) /\ e.id \notin QueuedIds(queue)
      BY <2>1, FreshId, EntryTyped DEF TypeInv, TypeOK, PlaceInv
    <3> HIDE DEF e
    <3>3. QueuedIds(Enqueue(queue, e)) \subseteq QueuedIds(queue) \cup {e.id}
      BY <3>2, EnqueueIds
    <3>4. QED
      BY <3>2, <3>3 DEF e
  <2>4. /\ QueuedIds(queue)' \cup active' \subseteq QueuedIds(queue) \cup active \cup {next_id}
        /\ accepted \subseteq accepted' /\ accepted' \subseteq accepted \cup {next_id}
        /\ next_id \notin accepted' => QueuedIds(queue)' \cup active' = QueuedIds(queue) \cup active
        /\ active \subseteq active'
    <3>1. CASE QueueOperation(r)
      <4>1. QueuedIds(queue)' = QueuedIds(queue') /\ r.priority \in Priority
        BY RequestTyped DEF QueuedIds
      <4>2. IsFull(queue) => queue' = queue
        BY <3>1 DEF QueueOperation, Enqueue
      <4>3. QED
        BY <3>1, <2>3, <4>1, <4>2 DEF QueueOperation
    <3>2. CASE StartNow(r)
      BY <3>2 DEF StartNow, Spawn, QueuedIds
    <3>3. CASE StartNowAtLimit(r)
      <4>1. QueuedIds(queue)' = QueuedIds(queue') /\ High \in Priority
        BY DEF QueuedIds, High, Priority, Low, Immediate
      <4>2. QED
        BY <3>3, <2>3, <4>1 DEF StartNowAtLimit
    <3>4. QED
      BY <1>2, <3>1, <3>2, <3>3 DEF Submit
  <2>5. Known' \subseteq Known \cup {next_id} /\ (next_id \notin accepted' => Known' = Known)
    BY <1>1, <2>4 DEF Known
  <2>6. /\ Known \cup withdrawn \subseteq accepted /\ withdrawn \cap Known = {}
        /\ visit \subseteq active /\ \A id \in accepted : id < next_id
    BY DEF LifeInv
  <2>7. (Known \cup withdrawn \subseteq accepted)' /\ (withdrawn \cap Known = {})'
    BY <2>1, <2>2, <2>4, <2>5, <2>6
  <2>8. \A id \in accepted' : id < next_id'
    BY <2>2, <2>4, <2>6
  <2>9. QED
    BY <1>1, <2>4, <2>6, <2>7, <2>8 DEF LifeInv
<1>3. ASSUME NEW id \in Ids, Pause(id) \/ Resume(id)
      PROVE  LifeInv'
  <2>1. UNCHANGED <<next_id, queue, active, accepted, withdrawn>>
    BY <1>3 DEF Pause, Resume, SetPaused, uiVars
  <2>2. QueuedIds(queue)' = QueuedIds(queue)
    BY <2>1 DEF QueuedIds
  <2>3. QED
    BY <1>1, <2>1, <2>2 DEF LifeInv, Known
<1>4. ASSUME NEW id \in Ids, Cancel(id)
      PROVE  LifeInv'
  <2>1. /\ QueuedIds(queue)' \subseteq QueuedIds(queue)
        /\ id \notin QueuedIds(queue)'
    <3>1. queue \in Seq(Entries(Ids, Requests)) /\ DistinctIds(queue)
      BY DEF TypeInv, TypeOK, PlaceInv
    <3>2. QueuedIds(RemoveId(queue, id)) \subseteq QueuedIds(queue) \ {id}
      BY <3>1, RemoveIdIds
    <3>3. queue' = RemoveId(queue, id)
      BY <1>4 DEF Cancel
    <3>4. QED
      BY <3>2, <3>3 DEF QueuedIds
  <2>2. QED
    BY <1>1, <1>4, <2>1 DEF Cancel, LifeInv, Known, PlaceInv
<1>5. ASSUME CancelAll
      PROVE  LifeInv'
  <2>1. QueuedIds(queue)' = {}
    BY <1>5 DEF CancelAll, QueuedIds
  <2>2. QED
    BY <1>1, <1>5, <2>1 DEF CancelAll, LifeInv, Known, PlaceInv
<1>6. QED
  BY <1>2, <1>3, <1>4, <1>5 DEF User

LEMMA PollLife ==
  ASSUME TypeInv, ThreadsInv, PlaceInv, LifeInv, Poll
  PROVE  LifeInv'
<1>1. CASE PollDrain
  <2>1. Done' = ended
    BY <1>1 DEF PollDrain, PlaceInv, About, Done, uiVars
  <2>2. QED
    BY <1>1, <2>1 DEF PollDrain, LifeInv, Known, Done, uiVars, QueuedIds
<1>2. CASE PollRemove
  BY <1>2 DEF PollRemove, LifeInv, Known, Done, About, uiVars, QueuedIds
<1>3. CASE PollRefill
  <2>1. queue # <<>> /\ queue \in Seq(Entries(Ids, Requests)) /\ DistinctIds(queue)
    BY <1>3 DEF PollRefill, TypeInv, TypeOK, PlaceInv
  <2>2. QueuedIds(Tail(queue)) \subseteq QueuedIds(queue) /\ Head(queue).id \in QueuedIds(queue)
    BY <2>1, TailIds
  <2>3. /\ QueuedIds(queue)' \subseteq QueuedIds(queue) /\ active \subseteq active'
        /\ active' \subseteq active \cup {Head(queue).id}
    BY <1>3, <2>2 DEF PollRefill, Spawn, QueuedIds
  <2>4. QED
    BY <1>3, <2>2, <2>3 DEF PollRefill, LifeInv, Known, Done, About, pollVars, uiVars
<1>4. CASE PollReturn
  <2>1. Done' = Done
    BY <1>4 DEF PollReturn, Done, About
  <2>2. QED
    BY <1>4, <2>1 DEF PollReturn, LifeInv, Known, QueuedIds
<1>5. ASSUME UNCHANGED <<queue, active, next_id, uiVars>>, visit' \subseteq visit,
             NEW id \in active, NEW kind \in {"Progress", "Completed"},
             events' = events \/ events' = Append(events, Event(kind, id))
      PROVE  LifeInv'
  <2>1. About("Completed")' \subseteq About("Completed") \cup {id}
    <3>1. events \in Seq(EventType) /\ id \in Ids /\ kind \in EventKind
      BY DEF TypeInv, TypeOK, EventKind
    <3>2. Event(kind, id) \in EventType
      BY <3>1, EventTyped
    <3>3. CASE events' = events
      BY <3>3 DEF About
    <3>4. CASE events' = Append(events, Event(kind, id))
      <4>1. /\ Len(events') = Len(events) + 1 /\ Len(events) \in Nat
            /\ \A i \in 1..Len(events) : events'[i] = events[i]
            /\ events'[Len(events) + 1] = Event(kind, id)
        BY <3>1, <3>2, <3>4, AppendProperties, LenProperties
      <4>2. QED
        BY <4>1 DEF About, Event
    <3>5. QED
      BY <1>5, <3>3, <3>4
  <2>2. UNCHANGED <<ended, accepted, withdrawn>> /\ QueuedIds(queue)' = QueuedIds(queue)
    BY <1>5 DEF uiVars, QueuedIds
  <2>3. QED
    BY <1>5, <2>1, <2>2 DEF LifeInv, Known, Done
<1>6. ASSUME NEW id \in Ids, PollProgress(id)
      PROVE  LifeInv'
  <2>1. id \in active
    BY <1>6 DEF PollProgress, LifeInv
  <2>2. QED
    BY <1>5, <1>6, <2>1 DEF PollProgress
<1>7. CASE PollReap
  <2>1. CASE pc[reading] = "finished"
    <3>1. reading \in active
      BY <1>7, <2>1 DEF PollReap, ThreadsInv, Threads, Location, TypeInv, TypeOK
    <3>2. QED
      BY <1>5, <1>7, <2>1, <3>1 DEF PollReap
  <2>2. CASE pc[reading] # "finished"
    <3>1. UNCHANGED <<queue, active, next_id, uiVars, events>> /\ visit' \subseteq visit
      BY <1>7, <2>2 DEF PollReap
    <3>2. QED
      BY <3>1 DEF LifeInv, Known, Done, About, QueuedIds, uiVars
  <2>3. QED
    BY <2>1, <2>2
<1>8. QED
  BY <1>1, <1>2, <1>3, <1>4, <1>6, <1>7 DEF Poll

(* The manager knows of no operation that was not accepted, and of none     *)
(* that the user took out of the queue.                                     *)
THEOREM LifeInvHolds == Spec => []LifeInv
<1>1. Init => LifeInv
  BY DEF Init, LifeInv, Known, Done, About, QueuedIds
<1>2. TypeInv /\ ThreadsInv /\ PlaceInv /\ LifeInv /\ [Next]_vars => LifeInv'
  <2>1. ASSUME LifeInv, UNCHANGED <<next_id, queue, active, visit, events, accepted, withdrawn, ended>>
        PROVE  LifeInv'
    BY <2>1 DEF LifeInv, Known, Done, About, QueuedIds
  <2>2. ASSUME LifeInv, NEW id \in Ids, Answer(id) \/ Worker(id) PROVE LifeInv'
    BY <2>1, <2>2 DEF Answer, ResolveConflict, Worker, WorkerTop, WorkerEnd, WorkerCheckConflict,
       WorkerAnswered, WorkerTransfer, WorkerFail, workerFrame, pollVars, uiVars
  <2>3. ASSUME LifeInv, UNCHANGED vars PROVE LifeInv'
    BY <2>1, <2>3 DEF vars, pollVars, uiVars
  <2>4. QED
    BY <2>2, <2>3, UserLife, PollLife DEF Next
<1>3. QED
  BY <1>1, <1>2, ThreadsInvHolds, PlaceInvHolds, PTL DEF Spec

-----------------------------------------------------------------------------
(***************************************************************************)
(* The refinement.  The application hears of an operation's end at the     *)
(* return of the poll() after which no event about it is left; every other *)
(* step of the manager changes nothing it can know, except those it calls. *)
(***************************************************************************)
Invs == TypeInv /\ ThreadsInv /\ PlaceInv /\ QuestionInv /\ LifeInv

(* The events in a channel are about this operation, among others. *)
Named(s, id) == \E i \in 1..Len(s) : s[i].id = id

LEMMA NamedAppended ==
  ASSUME NEW s \in Seq(EventType), NEW other \in Ids, NEW kind \in EventKind
  PROVE  \A id : Named(Append(s, Event(kind, other)), id) <=> Named(s, id) \/ id = other
<1> DEFINE t == Append(s, Event(kind, other))
<1>1. /\ Len(s) \in Nat /\ Len(t) = Len(s) + 1
      /\ \A i \in 1..Len(s) : t[i] = s[i]
      /\ t[Len(s) + 1] = Event(kind, other)
  BY EventTyped, AppendProperties, LenProperties
<1>2. Event(kind, other).id = other
  BY DEF Event
<1> HIDE DEF t
<1>3. \A id : Named(t, id) <=> Named(s, id) \/ id = other
  BY <1>1, <1>2 DEF Named
<1>4. QED
  BY <1>3 DEF t

LEMMA HeardIsNamed == \A id : HeardOf(id) <=> Named(events, id) \/ Named(event_rx, id)
BY DEF HeardOf, Named

(* What the application takes an operation for. *)
LEMMA Standings ==
  ASSUME Invs, NEW id \in Ids
  PROVE  /\ ServiceStatus[id] = IF id \in ended /\ ~HeardOf(id) THEN "over"
                                ELSE IF id \in asked THEN "asking"
                                ELSE IF id \in withdrawn THEN "withdrawn"
                                ELSE IF id \in accepted THEN "going" ELSE "fresh"
         /\ id \in asked => id \in active
         /\ id \in active \cup QueuedIds(queue) => id \notin ended \cup withdrawn /\ id \in accepted
         /\ id \in QueuedIds(queue) => id \notin asked
         /\ id \in withdrawn => id \notin ended
         /\ id \in ended \cup withdrawn => id \in accepted
<1>1. id \in asked => id \in active
  BY AskingIsActive DEF Invs, QuestionInv
<1>2. QED
  BY <1>1 DEF ServiceStatus, Invs, PlaceInv, LifeInv, Known, Done

(* Events about an operation that is not over tell nothing by themselves. *)
LEMMA QuietStatus ==
  ASSUME UNCHANGED uiVars, \A id \in ended : HeardOf(id)' <=> HeardOf(id)
  PROVE  ServiceStatus' = ServiceStatus
<1>1. UNCHANGED <<accepted, withdrawn, ended, asked>>
  BY DEF uiVars
<1>2. QED
  BY <1>1 DEF ServiceStatus

LEMMA EventAbout ==
  ASSUME Invs, NEW other \in Ids \ ended, NEW kind \in EventKind,
         \/ event_rx' = Append(event_rx, Event(kind, other)) /\ events' = events
         \/ event_rx' = event_rx /\ events' = Append(events, Event(kind, other))
  PROVE  \A id \in ended : HeardOf(id)' <=> HeardOf(id)
<1>1. event_rx \in Seq(EventType) /\ events \in Seq(EventType)
  BY DEF Invs, TypeInv, TypeOK
<1>2. /\ \A id : Named(Append(event_rx, Event(kind, other)), id) <=> Named(event_rx, id) \/ id = other
      /\ \A id : Named(Append(events, Event(kind, other)), id) <=> Named(events, id) \/ id = other
  BY <1>1, NamedAppended
<1>3. \A id : HeardOf(id)' <=> Named(events', id) \/ Named(event_rx', id)
  BY DEF HeardOf, Named
<1>4. QED
  BY <1>2, <1>3, HeardIsNamed

(* start_now or queue_operation has accepted the next id. *)
LEMMA AcceptStep ==
  ASSUME Invs, GenerateId, accepted' = accepted \cup {next_id},
         UNCHANGED <<withdrawn, ended, asked>>,
         \A id \in ended : HeardOf(id)' <=> HeardOf(id)
  PROVE  Service!Accept(next_id) /\ next_id \in Service!Ids
<1>1. next_id \in Ids /\ next_id \in Nat
  BY FreshId DEF Invs
<1>2. \A id \in Ids : id >= next_id => id \notin accepted
  BY <1>1, IdsAreNumbers DEF Invs, LifeInv
<1>3. \A id \in Ids : id \notin accepted => ServiceStatus[id] = "fresh"
  BY Standings
<1>4. ServiceStatus' = [ServiceStatus EXCEPT ![next_id] = "going"]
  <2>1. next_id \notin accepted \cup ended \cup withdrawn \cup asked
    BY <1>1, <1>2, Standings
  <2>2. QED
    BY <1>1, <2>1 DEF ServiceStatus
<1>5. QED
  BY <1>1, <1>2, <1>3, <1>4 DEF Service!Accept, Service!Ids, Ids

LEMMA UserService ==
  ASSUME Invs, User
  PROVE  Service!ServiceNext \/ ServiceStatus' = ServiceStatus
<1>1. ASSUME NEW r \in Requests, Submit(r)
      PROVE  Service!ServiceNext \/ ServiceStatus' = ServiceStatus
  <2>1. GenerateId /\ UNCHANGED <<withdrawn, ended, asked>>
    BY <1>1 DEF Submit, QueueOperation, StartNow, StartNowAtLimit
  <2>2. \A id \in ended : HeardOf(id)' <=> HeardOf(id)
    <3>1. next_id \in Ids \ ended /\ "Started" \in EventKind
      BY <2>1, FreshId DEF Invs, Done, EventKind
    <3>2. \/ UNCHANGED <<event_rx, events>>
          \/ event_rx' = Append(event_rx, Event("Started", next_id)) /\ events' = events
      BY <1>1 DEF Submit, QueueOperation, StartNow, StartNowAtLimit, Spawn, channels, pollVars
    <3>3. CASE UNCHANGED <<event_rx, events>>
      BY <3>3 DEF HeardOf
    <3>4. QED
      BY <3>1, <3>2, <3>3, EventAbout
  <2>3. CASE accepted' = accepted \cup {next_id}
    BY <2>1, <2>2, <2>3, AcceptStep DEF Service!ServiceNext
  <2>4. CASE accepted' = accepted
    BY <2>1, <2>2, <2>4, QuietStatus DEF uiVars
  <2>5. QED
    BY <1>1, <2>3, <2>4 DEF Submit, QueueOperation, StartNow, StartNowAtLimit
<1>2. ASSUME NEW id \in Ids, Pause(id) \/ Resume(id)
      PROVE  ServiceStatus' = ServiceStatus
  <2>1. PICK flag \in BOOLEAN, kind \in {"Paused", "Resumed"} : SetPaused(id, flag, kind)
    BY <1>2 DEF Pause, Resume
  <2>2. id \in Ids \ ended /\ kind \in EventKind
    BY <2>1, Standings DEF SetPaused, EventKind
  <2>3. \A other \in ended : HeardOf(other)' <=> HeardOf(other)
    BY <2>1, <2>2, EventAbout DEF SetPaused, pollVars
  <2>4. QED
    BY <2>1, <2>3, QuietStatus DEF SetPaused
<1>3. ASSUME NEW out \in SUBSET QueuedIds(queue), withdrawn' = withdrawn \cup out,
             UNCHANGED <<accepted, ended, asked, event_rx, events>>
      PROVE  Service!ServiceNext
  <2>1. out \subseteq Ids
    BY QueuedTyped DEF Invs, TypeInv, TypeOK
  <2>2. \A id \in out : ServiceStatus[id] = "going"
    BY <2>1, Standings
  <2>3. ServiceStatus' = [id \in Ids |-> IF id \in out THEN "withdrawn" ELSE ServiceStatus[id]]
    <3>1. \A id : HeardOf(id)' <=> HeardOf(id)
      BY <1>3 DEF HeardOf
    <3>2. \A id \in out : id \notin ended /\ id \notin asked
      BY <2>1, Standings
    <3>3. QED
      BY <1>3, <2>1, <3>1, <3>2 DEF ServiceStatus
  <2>4. Service!Withdraw(out)
    BY <2>1, <2>2, <2>3 DEF Service!Withdraw, Service!Ids, Ids
  <2>5. QED
    BY <2>1, <2>4 DEF Service!ServiceNext, Service!Ids, Ids
<1>4. ASSUME NEW id \in Ids, Cancel(id)
      PROVE  Service!ServiceNext
  <2>1. {id} \cap QueuedIds(queue) \in SUBSET QueuedIds(queue)
    OBVIOUS
  <2>2. QED
    BY <1>3, <1>4, <2>1 DEF Cancel, channels, pollVars
<1>5. ASSUME CancelAll
      PROVE  Service!ServiceNext
  BY <1>3, <1>5 DEF CancelAll, channels, pollVars
<1>6. QED
  BY <1>1, <1>2, <1>4, <1>5 DEF User

LEMMA AnswerService ==
  ASSUME Invs, NEW id \in Ids, Answer(id)
  PROVE  Service!ServiceNext
<1>1. /\ id \in asked /\ asked' = asked \ {id}
      /\ UNCHANGED <<accepted, withdrawn, ended, event_rx, events>>
  BY DEF Answer, ResolveConflict, pollVars
<1>2. id \notin ended \cup withdrawn /\ id \in accepted
  BY <1>1, Standings
<1>3. ServiceStatus[id] = "asking"
  BY <1>1, <1>2, Standings
<1>4. ServiceStatus' = [ServiceStatus EXCEPT ![id] = "going"]
  <2>1. \A other : HeardOf(other)' <=> HeardOf(other)
    BY <1>1 DEF HeardOf
  <2>2. QED
    BY <1>1, <1>2, <2>1 DEF ServiceStatus
<1>5. QED
  BY <1>3, <1>4 DEF Service!ServiceNext, Service!Answered, Service!Ids, Ids

LEMMA PollService ==
  ASSUME Invs, Poll
  PROVE  Service!ServiceNext \/ ServiceStatus' = ServiceStatus
<1>1. CASE PollDrain
  <2>1. events = <<>> /\ events' = event_rx /\ event_rx' = <<>> /\ UNCHANGED uiVars
    BY <1>1 DEF PollDrain, Invs, QuestionInv
  <2>2. \A id : HeardOf(id)' <=> HeardOf(id)
    BY <2>1 DEF HeardOf
  <2>3. QED
    BY <2>1, <2>2, QuietStatus
<1>2. ASSUME NEW id \in Ids, PollProgress(id)
      PROVE  ServiceStatus' = ServiceStatus
  <2>1. id \in Ids \ ended /\ "Progress" \in EventKind
    BY <1>2, Standings DEF PollProgress, Invs, LifeInv, EventKind
  <2>2. CASE events' = events
    BY <1>2, <2>2, QuietStatus DEF PollProgress, HeardOf
  <2>3. CASE events' = Append(events, Event("Progress", id))
    <3>1. \A other \in ended : HeardOf(other)' <=> HeardOf(other)
      BY <1>2, <2>1, <2>3, EventAbout DEF PollProgress
    <3>2. QED
      BY <1>2, <3>1, QuietStatus DEF PollProgress
  <2>4. QED
    BY <1>2, <2>2, <2>3 DEF PollProgress
<1>3. CASE PollReap
  <2>1. UNCHANGED <<event_rx, uiVars>>
    BY <1>3 DEF PollReap, channels
  <2>2. CASE events' = events
    BY <2>1, <2>2, QuietStatus DEF HeardOf
  <2>3. CASE pc[reading] = "finished" /\ events' = Append(events, Event("Completed", reading))
    <3>1. reading \in Ids /\ reading \in active
      BY <1>3, <2>3 DEF PollReap, Invs, ThreadsInv, Threads, Location, TypeInv, TypeOK
    <3>2. reading \in Ids \ ended /\ "Completed" \in EventKind
      BY <3>1, Standings DEF EventKind
    <3>3. \A other \in ended : HeardOf(other)' <=> HeardOf(other)
      BY <2>1, <2>3, <3>2, EventAbout
    <3>4. QED
      BY <2>1, <3>3, QuietStatus
  <2>4. QED
    BY <1>3, <2>2, <2>3 DEF PollReap
<1>4. CASE PollRemove
  <2>1. UNCHANGED <<events, event_rx, uiVars>>
    BY <1>4 DEF PollRemove
  <2>2. QED
    BY <2>1, QuietStatus DEF HeardOf
<1>5. CASE PollRefill
  <2>1. /\ queue # <<>> /\ queue \in Seq(Entries(Ids, Requests)) /\ DistinctIds(queue)
        /\ Spawn(Head(queue).id, Head(queue).request) /\ UNCHANGED <<events, uiVars>>
    BY <1>5 DEF PollRefill, Invs, TypeInv, TypeOK, PlaceInv, pollVars
  <2>2. Head(queue).id \in QueuedIds(queue) /\ QueuedIds(queue) \subseteq Ids
    BY <2>1, TailIds, QueuedTyped
  <2>3. Head(queue).id \in Ids \ ended /\ "Started" \in EventKind
    BY <2>2, Standings DEF EventKind
  <2>4. CASE event_rx' = event_rx
    BY <2>1, <2>4, QuietStatus DEF HeardOf
  <2>5. CASE event_rx' = Append(event_rx, Event("Started", Head(queue).id))
    <3>1. \A other \in ended : HeardOf(other)' <=> HeardOf(other)
      BY <2>1, <2>3, <2>5, EventAbout
    <3>2. QED
      BY <2>1, <3>1, QuietStatus
  <2>6. QED
    BY <2>1, <2>4, <2>5 DEF Spawn
<1>6. CASE PollReturn
  <2> DEFINE over == {id \in Ids : id \in ended' /\ ~HeardOf(id)' /\ ServiceStatus[id] # "over"}
             asks == About("ConflictDetected")
  <2>1. /\ events' = <<>> /\ ended' = Done /\ asked' = asked \cup asks
        /\ UNCHANGED <<event_rx, accepted, withdrawn>>
    BY <1>6 DEF PollReturn, channels, Done
  <2>2. asks \subseteq Ids /\ About("Completed") \subseteq Ids /\ Done \subseteq Ids
    BY AboutTyped DEF Invs, TypeInv, TypeOK, Done
  <2>3. \A id \in asks : id \in active /\ id \notin asked /\ HeardOf(id) /\ pc[id] = "ask"
    <3>1. SUFFICES ASSUME NEW id \in asks
                   PROVE  id \in active /\ id \notin asked /\ HeardOf(id) /\ pc[id] = "ask"
      OBVIOUS
    <3>2. PICK i \in 1..Len(events) : events[i].kind = "ConflictDetected" /\ events[i].id = id
      BY DEF About
    <3>3. id \in Ids /\ events[i] = Asking(id)
      <4>1. events[i] \in EventType
        BY ElementOfSeq DEF Invs, TypeInv, TypeOK
      <4>2. QED
        BY <3>2, <4>1 DEF EventType, Asking, Event
    <3>4. Questions(events, id) # 0
      BY <3>3, QuestionsCounted DEF Invs, TypeInv, TypeOK
    <3>5. pc[id] = "ask" /\ id \in active
      BY <3>3, <3>4, AskingIsActive DEF Invs, QuestionInv
    <3>6. Outstanding(id) = 1
      BY <3>3, <3>5 DEF Invs, QuestionInv, OneQuestionPerConflict
    <3>7. Told(id) = 0
      BY <3>3, <3>4, <3>6, OutstandingSum, OutstandingParts DEF Invs
    <3>8. QED
      BY <3>2, <3>5, <3>7 DEF Told, HeardOf
  <2>4. \A id \in Done : id \in accepted /\ id \notin withdrawn /\ id \notin asked /\ id \notin asks
    <3>1. SUFFICES ASSUME NEW id \in Done
                   PROVE  id \in accepted /\ id \notin withdrawn /\ id \notin asked /\ id \notin asks
      OBVIOUS
    <3>2. id \in Ids /\ id \in accepted /\ id \notin withdrawn
      BY <2>2 DEF Invs, LifeInv, Known
    <3>3. pc[id] # "ask"
      BY <3>2, AskingIsActive DEF Invs, PlaceInv, QuestionInv, Done
    <3>4. QED
      BY <2>3, <3>2, <3>3, AskingIsActive DEF Invs, QuestionInv
  <2>5. \A id \in asks : id \notin Done /\ id \in accepted /\ id \notin withdrawn
    BY <2>2, <2>3, <2>4, Standings
  <2>6. \A id \in over \cup asks : ServiceStatus[id] = "going"
    BY <2>1, <2>2, <2>3, <2>4, <2>5, Standings
  <2>7. over \cap asks = {} /\ over \subseteq Ids
    BY <2>1, <2>5
  <2>8. ServiceStatus' = [id \in Ids |-> IF id \in over THEN "over"
                                         ELSE IF id \in asks THEN "asking" ELSE ServiceStatus[id]]
    <3>1. SUFFICES ASSUME NEW id \in Ids
                   PROVE  ServiceStatus'[id] = IF id \in over THEN "over"
                                               ELSE IF id \in asks THEN "asking"
                                               ELSE ServiceStatus[id]
      BY DEF ServiceStatus
    <3>2. ServiceStatus'[id] = IF id \in Done /\ ~HeardOf(id)' THEN "over"
                               ELSE IF id \in asked \cup asks THEN "asking"
                               ELSE IF id \in withdrawn THEN "withdrawn"
                               ELSE IF id \in accepted THEN "going" ELSE "fresh"
      BY <2>1 DEF ServiceStatus
    <3>3. HeardOf(id)' => HeardOf(id)
      BY <2>1 DEF HeardOf
    <3>4. CASE id \in Done
      BY <2>1, <2>4, <3>2, <3>3, <3>4, Standings DEF Done
    <3>5. CASE id \notin Done
      <4>1. id \notin ended /\ id \notin over
        BY <2>1, <3>5 DEF Done
      <4>2. QED
        BY <3>2, <3>5, <4>1, Standings
    <3>6. QED
      BY <3>4, <3>5
  <2>9. Service!Deliver(over, asks)
    BY <2>2, <2>6, <2>7, <2>8 DEF Service!Deliver, Service!Ids, Ids
  <2>10. QED
    BY <2>2, <2>7, <2>9 DEF Service!ServiceNext, Service!Ids, Ids
<1>7. QED
  BY <1>1, <1>2, <1>3, <1>4, <1>5, <1>6 DEF Poll

(* A worker asks, and that is all the application ever hears from it. *)
LEMMA WorkerService ==
  ASSUME Invs, NEW id \in Ids, Worker(id)
  PROVE  ServiceStatus' = ServiceStatus
<1>1. UNCHANGED <<events, uiVars>> /\ pc[id] \notin {"none", "joined"}
  BY DEF Worker, WorkerTop, WorkerEnd, WorkerCheckConflict, WorkerAnswered, WorkerTransfer,
     WorkerFail, workerFrame, pollVars
<1>2. \/ event_rx' = event_rx
      \/ event_rx' = Append(event_rx, Event("ConflictDetected", id))
  BY DEF Worker, WorkerTop, WorkerEnd, WorkerCheckConflict, WorkerAnswered, WorkerTransfer,
     WorkerFail, channels
<1>3. CASE event_rx' = event_rx
  BY <1>1, <1>3, QuietStatus DEF HeardOf
<1>4. CASE event_rx' = Append(event_rx, Event("ConflictDetected", id))
  <2>1. id \in active
    BY <1>1 DEF Invs, ThreadsInv, Threads, TypeInv, TypeOK
  <2>2. id \in Ids \ ended /\ "ConflictDetected" \in EventKind
    BY <2>1, Standings DEF EventKind
  <2>3. \A other \in ended : HeardOf(other)' <=> HeardOf(other)
    BY <1>1, <1>4, <2>2, EventAbout
  <2>4. QED
    BY <1>1, <2>3, QuietStatus
<1>5. QED
  BY <1>2, <1>3, <1>4

(* Initial states map to initial states and every step to a step of the     *)
(* service or to none, for every configuration.                             *)
THEOREM ImplementsServiceHolds == Spec => ImplementsService
<1>1. Init => Service!ServiceInit
  BY DEF Init, Service!ServiceInit, ServiceStatus, Service!Ids, Ids
<1>2. Invs /\ [Next]_vars => [Service!ServiceNext]_ServiceStatus
  <2>1. ASSUME UNCHANGED vars PROVE ServiceStatus' = ServiceStatus
    BY <2>1, QuietStatus DEF vars, pollVars, channels, HeardOf
  <2>2. QED
    BY <2>1, UserService, AnswerService, PollService, WorkerService DEF Next
<1>3. QED
  BY <1>1, <1>2, ThreadsInvHolds, PlaceInvHolds, QuestionInvHolds, LifeInvHolds, PTL
     DEF Spec, Invs, ImplementsService, Service!ServiceSpec

-----------------------------------------------------------------------------
(***************************************************************************)
(* Nothing accepted is lost.  What poll() removes from `active` has been   *)
(* joined, and its end is in the vector by then: this is what the property *)
(* has to be strengthened with.                                            *)
(***************************************************************************)
KeptInv ==
  /\ NothingLost
  /\ \A id \in active : pc[id] = "joined" => id \in About("Completed")

LEMMA NothingLostMeans ==
  NothingLost <=> accepted \subseteq QueuedIds(queue) \cup active \cup withdrawn \cup Done
BY DEF NothingLost, Reported, Done

LEMMA NothingLostNext ==
  ASSUME accepted' \subseteq QueuedIds(queue') \cup active' \cup withdrawn' \cup Done'
  PROVE  NothingLost'
BY DEF NothingLost, Reported, Done, QueuedIds

(* A queue as long as there are ids has room for each: the ids in it are    *)
(* distinct and smaller than the new one.                                   *)
LEMMA QueueHasRoom ==
  ASSUME MaxQueueSize = 0 \/ MaxOps <= MaxQueueSize, TypeInv, PlaceInv, GenerateId
  PROVE  ~IsFull(queue)
<1>1. CASE MaxQueueSize = 0
  BY <1>1 DEF IsFull
<1>2. CASE MaxOps <= MaxQueueSize
  <2>1. next_id \in 1..MaxOps /\ MaxOps \in Nat /\ MaxQueueSize \in Nat
    BY IdsAreNumbers, QueueSizeAssumption DEF GenerateId, Ids
  <2> DEFINE n == next_id - 1
  <2>2. n \in Nat /\ n < MaxOps
    BY <2>1
  <2>3. QueuedIds(queue) \subseteq 1..n
    <3>1. \A id \in QueuedIds(queue) : id \in Ids /\ id < next_id
      BY KnownIds DEF PlaceInv
    <3>2. QED
      BY <2>1, <3>1 DEF Ids
  <2>4. queue \in Seq(Entries(Ids, Requests)) /\ DistinctIds(queue)
    BY DEF TypeInv, TypeOK, PlaceInv
  <2> HIDE DEF n
  <2>5. Len(queue) <= n /\ Len(queue) \in Nat
    BY <2>2, <2>3, <2>4, QueueLength, LenProperties
  <2>6. QED
    BY <2>1, <2>2, <2>5 DEF IsFull
<1>3. QED
  BY <1>1, <1>2

LEMMA UserKept ==
  ASSUME \A r \in Requests : r.valid, MaxQueueSize = 0 \/ MaxOps <= MaxQueueSize,
         TypeInv, PlaceInv, KeptInv, User
  PROVE  KeptInv'
<1>1. UNCHANGED <<ended, events>> /\ Done' = Done /\ About("Completed")' = About("Completed")
  BY DEF User, Submit, QueueOperation, StartNow, StartNowAtLimit, Pause, Resume, SetPaused,
     Cancel, CancelAll, pollVars, uiVars, Done, About
<1>2. \A id \in active' : pc'[id] = "joined" => id \in active /\ pc[id] = "joined"
  <2>1. CASE active' = active /\ pc' = pc
    BY <2>1
  <2>2. CASE next_id \in Ids /\ active' = active \cup {next_id} /\ pc' = [pc EXCEPT ![next_id] = "top"]
    <3>1. pc'[next_id] = "top"
      BY <2>2 DEF TypeInv, TypeOK
    <3>2. \A id \in active : id # next_id => pc'[id] = pc[id]
      BY <2>2 DEF TypeInv, TypeOK
    <3>3. QED
      BY <2>2, <3>1, <3>2
  <2>3. QED
    BY <2>1, <2>2 DEF User, Submit, QueueOperation, StartNow, StartNowAtLimit, Spawn, Pause, Resume,
       SetPaused, Cancel, CancelAll, workerVars, GenerateId
<1>3. SUFFICES accepted' \subseteq QueuedIds(queue') \cup active' \cup withdrawn' \cup Done
  BY <1>1, <1>2, NothingLostNext DEF KeptInv
<1>4. accepted \subseteq QueuedIds(queue) \cup active \cup withdrawn \cup Done
  BY NothingLostMeans DEF KeptInv
<1>5. ASSUME NEW r \in Requests, NEW p \in Priority, GenerateId,
             queue' = Enqueue(queue, [id |-> next_id, priority |-> p, request |-> r]),
             accepted' \subseteq accepted \cup {next_id}, UNCHANGED <<active, withdrawn>>
      PROVE  accepted' \subseteq QueuedIds(queue') \cup active' \cup withdrawn' \cup Done
  <2> DEFINE e == [id |-> next_id, priority |-> p, request |-> r]
  <2>1. queue \in Seq(Entries(Ids, Requests)) /\ e \in Entries(Ids, Requests) /\ e.id = next_id
    BY <1>5, FreshId, EntryTyped DEF TypeInv, TypeOK
  <2>2. ~IsFull(queue)
    BY <1>5, QueueHasRoom
  <2> HIDE DEF e
  <2>3. QueuedIds(queue) \cup {next_id} \subseteq QueuedIds(Enqueue(queue, e))
    BY <2>1, <2>2, EnqueueKeeps
  <2>4. queue' = Enqueue(queue, e)
    BY <1>5 DEF e
  <2>5. QED
    BY <1>4, <1>5, <2>3, <2>4
<1>6. ASSUME NEW r \in Requests, Submit(r)
      PROVE  accepted' \subseteq QueuedIds(queue') \cup active' \cup withdrawn' \cup Done
  <2>1. CASE QueueOperation(r)
    BY <1>5, <2>1, RequestTyped DEF QueueOperation
  <2>2. CASE StartNow(r)
    BY <1>4, <1>6, <2>2 DEF StartNow, Spawn
  <2>3. CASE StartNowAtLimit(r)
    <3>1. High \in Priority
      BY DEF High, Priority, Low, Immediate
    <3>2. QED
      BY <1>5, <2>3, <3>1 DEF StartNowAtLimit
  <2>4. QED
    BY <1>6, <2>1, <2>2, <2>3 DEF Submit
<1>7. ASSUME NEW id \in Ids, Pause(id) \/ Resume(id)
      PROVE  accepted' \subseteq QueuedIds(queue') \cup active' \cup withdrawn' \cup Done
  BY <1>4, <1>7 DEF Pause, Resume, SetPaused, uiVars
<1>8. ASSUME NEW id \in Ids, Cancel(id)
      PROVE  accepted' \subseteq QueuedIds(queue') \cup active' \cup withdrawn' \cup Done
  <2>1. queue \in Seq(Entries(Ids, Requests))
    BY DEF TypeInv, TypeOK
  <2>2. QueuedIds(queue) \ {id} \subseteq QueuedIds(queue')
    BY <1>8, <2>1, RemoveIdKeeps DEF Cancel
  <2>3. withdrawn' = withdrawn \cup ({id} \cap QueuedIds(queue)) /\ UNCHANGED <<active, accepted>>
    BY <1>8 DEF Cancel
  <2>4. QED
    BY <1>4, <2>2, <2>3
<1>9. CASE CancelAll
  BY <1>4, <1>9 DEF CancelAll
<1>10. QED
  BY <1>6, <1>7, <1>8, <1>9 DEF User

LEMMA PollKept ==
  ASSUME \A r \in Requests : r.valid, TypeInv, PlaceInv, QuestionInv, LifeInv, KeptInv, Poll
  PROVE  KeptInv'
<1>1. /\ accepted \subseteq QueuedIds(queue) \cup active \cup withdrawn \cup Done
      /\ \A id \in active : pc[id] = "joined" => id \in About("Completed")
  BY NothingLostMeans DEF KeptInv
<1>2. CASE PollDrain
  <2>1. About("Completed") = {} /\ UNCHANGED <<queue, active, pc, accepted, withdrawn, ended>>
    BY <1>2 DEF PollDrain, QuestionInv, About, workerVars, uiVars
  <2>2. accepted' \subseteq QueuedIds(queue') \cup active' \cup withdrawn' \cup Done'
    BY <1>1, <2>1 DEF Done
  <2>3. QED
    BY <1>1, <2>1, <2>2, NothingLostNext DEF KeptInv
<1>3. ASSUME UNCHANGED <<queue, active, accepted, withdrawn, ended>>, NEW id \in active,
             NEW kind \in {"Progress", "Completed"},
             \/ events' = events /\ pc' = pc
             \/ /\ events' = Append(events, Event(kind, id))
                /\ kind = "Progress" /\ pc' = pc
             \/ /\ events' = Append(events, Event(kind, id))
                /\ kind = "Completed" /\ pc' = [pc EXCEPT ![id] = "joined"]
      PROVE  KeptInv'
  <2>1. About("Completed") \subseteq About("Completed")'
        /\ (events' = Append(events, Event("Completed", id)) => id \in About("Completed")')
    <3>1. events \in Seq(EventType) /\ id \in Ids /\ kind \in EventKind
      BY DEF TypeInv, TypeOK, EventKind
    <3>2. CASE events' = events
      BY <1>3, <3>2, <3>1, AppendProperties, EventTyped, LenProperties DEF About
    <3>3. CASE events' = Append(events, Event(kind, id))
      <4>1. /\ Len(events') = Len(events) + 1 /\ Len(events) \in Nat
            /\ \A i \in 1..Len(events) : events'[i] = events[i]
            /\ events'[Len(events) + 1] = Event(kind, id)
        BY <3>1, <3>3, EventTyped, AppendProperties, LenProperties
      <4>2. About("Completed") \subseteq About("Completed")'
        BY <4>1 DEF About
      <4>3. CASE kind = "Completed"
        BY <4>1, <4>2, <4>3 DEF About, Event
      <4>4. CASE kind = "Progress"
        <5>1. events'[Len(events) + 1].kind = "Progress"
          BY <4>1, <4>4 DEF Event
        <5>2. events' # Append(events, Event("Completed", id))
          <6>1. SUFFICES ASSUME events' = Append(events, Event("Completed", id)) PROVE FALSE
            OBVIOUS
          <6>2. events'[Len(events) + 1] = Event("Completed", id)
            BY <3>1, <6>1, EventTyped, AppendProperties DEF EventKind
          <6>3. QED
            BY <5>1, <6>2 DEF Event
        <5>3. QED
          BY <4>2, <5>2
      <4>5. QED
        BY <4>3, <4>4
    <3>4. QED
      BY <1>3, <3>2, <3>3
  <2>2. accepted' \subseteq QueuedIds(queue') \cup active' \cup withdrawn' \cup Done'
    BY <1>1, <1>3, <2>1 DEF Done
  <2>3. \A other \in active' : pc'[other] = "joined" => other \in About("Completed")'
    BY <1>1, <1>3, <2>1 DEF TypeInv, TypeOK
  <2>4. QED
    BY <2>2, <2>3, NothingLostNext DEF KeptInv
<1>4. ASSUME NEW id \in Ids, PollProgress(id)
      PROVE  KeptInv'
  <2>1. id \in active
    BY <1>4 DEF PollProgress, LifeInv
  <2>2. QED
    BY <1>3, <1>4, <2>1 DEF PollProgress, workerVars, uiVars
<1>5. CASE PollReap
  <2>1. reading \in Ids
    BY <1>5 DEF PollReap, TypeInv, TypeOK
  <2>2. CASE pc[reading] = "finished" /\ reading \in active
    BY <1>3, <1>5, <2>2 DEF PollReap, uiVars
  <2>3. CASE pc[reading] = "finished" /\ reading \notin active
    <3>1. pc' = [pc EXCEPT ![reading] = "joined"] /\ events' = Append(events, Event("Completed", reading))
          /\ UNCHANGED <<queue, active, accepted, withdrawn, ended>>
      BY <1>5, <2>3 DEF PollReap, uiVars
    <3>2. events \in Seq(EventType) /\ Event("Completed", reading) \in EventType
      BY <2>1, EventTyped DEF TypeInv, TypeOK, EventKind
    <3>3. About("Completed") \subseteq About("Completed")'
      <4>1. /\ Len(events') = Len(events) + 1 /\ Len(events) \in Nat
            /\ \A i \in 1..Len(events) : events'[i] = events[i]
        BY <3>1, <3>2, AppendProperties, LenProperties
      <4>2. QED
        BY <4>1 DEF About
    <3>4. accepted' \subseteq QueuedIds(queue') \cup active' \cup withdrawn' \cup Done'
      BY <1>1, <3>1, <3>3 DEF Done
    <3>5. QED
      BY <1>1, <2>3, <3>1, <3>3, <3>4, NothingLostNext DEF KeptInv, TypeInv, TypeOK
  <2>4. CASE pc[reading] # "finished"
    <3>1. UNCHANGED <<queue, active, accepted, withdrawn, ended, events, pc>>
      BY <1>5, <2>4 DEF PollReap, uiVars
    <3>2. QED
      BY <1>1, <3>1, NothingLostNext DEF KeptInv, Done, About
  <2>5. QED
    BY <2>2, <2>3, <2>4
<1>6. CASE PollRemove
  <2>1. active' = {id \in active : pc[id] # "joined"} /\ About("Completed")' = About("Completed")
        /\ UNCHANGED <<queue, accepted, withdrawn, ended, pc>>
    BY <1>6 DEF PollRemove, workerVars, uiVars, About
  <2>2. accepted' \subseteq QueuedIds(queue') \cup active' \cup withdrawn' \cup Done'
    BY <1>1, <2>1 DEF Done
  <2>3. QED
    BY <2>1, <2>2, NothingLostNext DEF KeptInv
<1>7. CASE PollRefill
  <2>1. queue # <<>> /\ queue \in Seq(Entries(Ids, Requests)) /\ Head(queue) \in Entries(Ids, Requests)
    BY <1>7, HeadTailProperties DEF PollRefill, TypeInv, TypeOK
  <2>2. Head(queue).request.valid
    BY <2>1 DEF Entries
  <2>3. /\ active' = active \cup {Head(queue).id} /\ pc' = [pc EXCEPT ![Head(queue).id] = "top"]
        /\ queue' = Tail(queue) /\ UNCHANGED <<accepted, withdrawn, ended, events>>
    BY <1>7, <2>2 DEF PollRefill, Spawn, pollVars, uiVars
  <2>4. QueuedIds(queue) \ {Head(queue).id} \subseteq QueuedIds(Tail(queue))
    BY <2>1, TailKeeps
  <2>5. About("Completed")' = About("Completed") /\ Done' = Done
    BY <2>3 DEF About, Done
  <2>6. accepted' \subseteq QueuedIds(queue') \cup active' \cup withdrawn' \cup Done'
    BY <1>1, <2>3, <2>4, <2>5
  <2>7. ASSUME NEW id \in active', pc'[id] = "joined"
        PROVE  id \in About("Completed")'
    <3>1. Head(queue).id \in Ids /\ pc \in [Ids -> Location]
      BY <2>1 DEF Entries, TypeInv, TypeOK
    <3>2. id # Head(queue).id
      BY <2>3, <2>7, <3>1
    <3>3. id \in active /\ pc[id] = "joined"
      BY <2>3, <2>7, <3>1, <3>2 DEF TypeInv, TypeOK
    <3>4. QED
      BY <1>1, <2>5, <3>3
  <2>8. QED
    BY <2>6, <2>7, NothingLostNext DEF KeptInv
<1>8. CASE PollReturn
  <2>1. ended' = ended \cup About("Completed") /\ UNCHANGED <<queue, active, accepted, withdrawn, pc>>
    BY <1>8 DEF PollReturn, workerVars
  <2>2. \A id \in active : pc[id] # "joined"
    BY <1>1, <1>8 DEF PollReturn, PlaceInv
  <2>3. accepted' \subseteq QueuedIds(queue') \cup active' \cup withdrawn' \cup Done'
    BY <1>1, <2>1 DEF Done
  <2>4. QED
    BY <2>1, <2>2, <2>3, NothingLostNext DEF KeptInv
<1>9. QED
  BY <1>2, <1>4, <1>5, <1>6, <1>7, <1>8 DEF Poll

(* As long as every request can be started and there are no more operations *)
(* than the queue can hold, each one that was accepted is waiting, running, *)
(* over and told of, or taken out by the user, through every order in which *)
(* poll() sees threads end and refills.                                     *)
THEOREM NothingLostHolds ==
  ASSUME \A r \in Requests : r.valid, MaxQueueSize = 0 \/ MaxOps <= MaxQueueSize
  PROVE  Spec => []NothingLost
<1>1. Init => KeptInv
  BY DEF Init, KeptInv, NothingLost
<1>2. Invs /\ KeptInv /\ [Next]_vars => KeptInv'
  <2>1. ASSUME KeptInv, UNCHANGED <<queue, active, events, accepted, withdrawn, ended>>,
               \A id \in active : pc'[id] = "joined" => pc[id] = "joined"
        PROVE  KeptInv'
    BY <2>1 DEF KeptInv, NothingLost, Reported, About, QueuedIds
  <2>2. ASSUME Invs, KeptInv, NEW id \in Ids, Answer(id) \/ Worker(id) PROVE KeptInv'
    <3>1. UNCHANGED <<queue, active, events, accepted, withdrawn, ended>>
      BY <2>2 DEF Answer, ResolveConflict, Worker, WorkerTop, WorkerEnd, WorkerCheckConflict,
         WorkerAnswered, WorkerTransfer, WorkerFail, workerFrame, pollVars, uiVars
    <3>2. \A other \in active : pc'[other] = "joined" => pc[other] = "joined"
      BY <2>2 DEF Answer, ResolveConflict, Worker, WorkerTop, WorkerEnd, WorkerCheckConflict,
         WorkerAnswered, WorkerTransfer, WorkerFail, Finish, ItemDone, Goto, workerVars,
         Invs, TypeInv, TypeOK
    <3>3. QED
      BY <2>1, <2>2, <3>1, <3>2
  <2>3. ASSUME KeptInv, UNCHANGED vars PROVE KeptInv'
    BY <2>1, <2>3 DEF vars, workerVars, pollVars, uiVars
  <2>4. QED
    BY <2>2, <2>3, UserKept, PollKept DEF Next, Invs
<1>3. QED
  BY <1>1, <1>2, ThreadsInvHolds, PlaceInvHolds, QuestionInvHolds, LifeInvHolds, PTL
     DEF Spec, Invs, KeptInv
=============================================================================
