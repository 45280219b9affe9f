------------------------- MODULE AccumulatorProofs -------------------------
(***************************************************************************)
(* Proofs about Accumulator, for any names, senders, values, clock bound   *)
(* and time to live.                                                       *)
(***************************************************************************)
EXTENDS Accumulator, WellFoundedInduction, NaturalsInduction, TLAPS

\* An entry with parts of values V from senders S.
EntryOK(e, S, V) ==
  /\ DOMAIN e = {"parts", "time"}
  /\ DOMAIN e.parts \subseteq S /\ DOMAIN e.parts # {}
  /\ e.parts \in [DOMAIN e.parts -> V]
  /\ e.time \in Nat

\* An accumulator of such entries under names N, whose list matches its map.
WellFormed(a, N, S, V) ==
  /\ DOMAIN a = {"order", "storage"}
  /\ a.order \in Seq(N)
  /\ DOMAIN a.storage \subseteq N
  /\ \A n \in DOMAIN a.storage : EntryOK(a.storage[n], S, V)
  /\ \A n \in DOMAIN a.storage : \E i \in 1..Len(a.order) : a.order[i] = n
  /\ \A i \in 1..Len(a.order) : a.order[i] \in DOMAIN a.storage
  /\ \A i, j \in 1..Len(a.order) : a.order[i] = a.order[j] => i = j

\* In the list of b, x comes before y only if it does in the list of a.
KeepsOrder(a, b, x, y) ==
  \A i, j \in 1..Len(b.order) :
    i < j /\ b.order[i] = x /\ b.order[j] = y =>
      \E k, l \in 1..Len(a.order) : k < l /\ a.order[k] = x /\ a.order[l] = y

-----------------------------------------------------------------------------
(***************************************************************************)
(* The operators of AccumulatorOps on well-formed accumulators.            *)
(***************************************************************************)

\* Removing one element from a list.
LEMMA WithoutFacts ==
  ASSUME NEW N, NEW order \in Seq(N), NEW p \in 1..Len(order)
  PROVE  /\ Without(order, p) \in Seq(N)
         /\ Len(Without(order, p)) = Len(order) - 1
         /\ \A i \in 1..(Len(order) - 1) :
              Without(order, p)[i] = IF i < p THEN order[i] ELSE order[i + 1]
<1>1. Len(order) - 1 \in Nat
  OBVIOUS
<1>2. \A i \in 1..(Len(order) - 1) : order[i] \in N /\ order[i + 1] \in N
  OBVIOUS
<1>3. QED
  BY <1>1, <1>2 DEF Without

\* ReOrder keeps the list matched and the order of the other names.
LEMMA ReOrderFacts ==
  ASSUME NEW N, NEW S, NEW V, NEW a, WellFormed(a, N, S, V), NEW name \in DOMAIN a.storage
  PROVE  LET b == ReOrder(a, name)
         IN  /\ WellFormed(b, N, S, V)
             /\ b.storage = a.storage
             /\ \A i \in 1..Len(b.order) : b.order[i] = name => i = Len(b.order)
             /\ \A x, y : y # name => KeepsOrder(a, b, x, y)
<1> DEFINE p == PositionOf(a.order, name)
           w == Without(a.order, p)
           b == ReOrder(a, name)
<1>0. a.order \in Seq(N) /\ DOMAIN a.storage \subseteq N /\ name \in N
  BY DEF WellFormed
<1>1. p \in 1..Len(a.order) /\ a.order[p] = name
  BY DEF WellFormed, PositionOf
<1>2. /\ w \in Seq(N) /\ Len(w) = Len(a.order) - 1
      /\ \A i \in 1..(Len(a.order) - 1) :
           w[i] = IF i < p THEN a.order[i] ELSE a.order[i + 1]
  BY <1>0, <1>1, WithoutFacts, Zenon
<1>3. b.storage = a.storage /\ b.order = Append(w, name) /\ DOMAIN b = {"order", "storage"}
  BY DEF ReOrder
<1> HIDE DEF p, w, b
<1>4. /\ b.order \in Seq(N) /\ Len(b.order) = Len(a.order)
      /\ b.order[Len(a.order)] = name
      /\ \A i \in 1..(Len(a.order) - 1) : b.order[i] = w[i]
  BY <1>0, <1>1, <1>2, <1>3
<1>5. \A i \in 1..(Len(a.order) - 1) :
        b.order[i] = IF i < p THEN a.order[i] ELSE a.order[i + 1]
  BY <1>2, <1>4
<1> DEFINE From(i) == IF i < p THEN i ELSE i + 1
<1>a. \A i \in 1..(Len(a.order) - 1) :
        /\ From(i) \in 1..Len(a.order) /\ From(i) # p
        /\ b.order[i] = a.order[From(i)]
  BY <1>0, <1>1, <1>5
<1>b. \A i, j \in 1..(Len(a.order) - 1) : From(i) = From(j) => i = j
  BY <1>0, <1>1
<1>c. \A k, l \in 1..Len(a.order) : a.order[k] = a.order[l] => k = l
  BY DEF WellFormed
<1>d. \A i \in 1..Len(b.order) : i = Len(a.order) \/ i \in 1..(Len(a.order) - 1)
  BY <1>0, <1>4
<1> HIDE DEF From
<1>6. ASSUME NEW i \in 1..Len(b.order), b.order[i] = name
      PROVE  i = Len(b.order)
  <2>1. CASE i = Len(a.order)
    BY <1>4, <2>1
  <2>2. CASE i \in 1..(Len(a.order) - 1)
    <3>1. From(i) \in 1..Len(a.order) /\ From(i) # p /\ a.order[From(i)] = name
      BY <1>6, <1>a, <2>2
    <3>2. QED
      BY <1>1, <1>c, <3>1
  <2>3. QED
    BY <1>d, <2>1, <2>2
<1>7. ASSUME NEW i \in 1..Len(b.order), NEW j \in 1..Len(b.order), b.order[i] = b.order[j]
      PROVE  i = j
  <2>1. CASE i = Len(a.order) \/ j = Len(a.order)
    BY <1>4, <1>6, <1>7, <2>1
  <2>2. CASE i \in 1..(Len(a.order) - 1) /\ j \in 1..(Len(a.order) - 1)
    BY <1>7, <1>a, <1>b, <1>c, <2>2, Zenon
  <2>3. QED
    BY <1>d, <2>1, <2>2
<1>8. ASSUME NEW i \in 1..Len(b.order)  PROVE b.order[i] \in DOMAIN b.storage
  <2>1. \A k \in 1..Len(a.order) : a.order[k] \in DOMAIN a.storage
    BY DEF WellFormed
  <2>2. QED
    BY <1>3, <1>4, <1>a, <1>d, <2>1, Zenon
<1>9. ASSUME NEW n \in DOMAIN b.storage
      PROVE  \E i \in 1..Len(b.order) : b.order[i] = n
  <2>1. PICK k \in 1..Len(a.order) : a.order[k] = n
    BY <1>3 DEF WellFormed
  <2>2. CASE k = p
    BY <1>0, <1>1, <1>4, <2>1, <2>2
  <2>3. CASE k < p
    BY <1>0, <1>1, <1>4, <1>5, <2>1, <2>3
  <2>4. CASE k > p
    <3>1. k - 1 \in 1..(Len(a.order) - 1) /\ ~(k - 1 < p) /\ (k - 1) + 1 = k
      BY <1>0, <1>1, <2>4
    <3>2. b.order[k - 1] = n
      BY <1>5, <2>1, <3>1
    <3>3. QED
      BY <1>0, <1>4, <3>1, <3>2
  <2>5. QED
    BY <1>0, <1>1, <2>2, <2>3, <2>4
<1>10. WellFormed(b, N, S, V)
  BY <1>3, <1>4, <1>7, <1>8, <1>9, Zenon DEF WellFormed
<1>11. ASSUME NEW x, NEW y, y # name,
              NEW i \in 1..Len(b.order), NEW j \in 1..Len(b.order),
              i < j, b.order[i] = x, b.order[j] = y
       PROVE  \E k, l \in 1..Len(a.order) : k < l /\ a.order[k] = x /\ a.order[l] = y
  <2>1. i \in 1..(Len(a.order) - 1) /\ j \in 1..(Len(a.order) - 1)
    BY <1>0, <1>4, <1>11
  <2> DEFINE k == IF i < p THEN i ELSE i + 1
             l == IF j < p THEN j ELSE j + 1
  <2>2. k \in 1..Len(a.order) /\ l \in 1..Len(a.order) /\ k < l
    BY <1>0, <1>1, <1>11, <2>1
  <2>3. a.order[k] = x /\ a.order[l] = y
    BY <1>5, <1>11, <2>1
  <2>4. QED
    BY <2>2, <2>3
<1>12. \A x, y : y # name => KeepsOrder(a, b, x, y)
  BY <1>11 DEF KeepsOrder
<1>13. QED
  BY <1>3, <1>6, <1>10, <1>12 DEF b

\* A non-empty set of naturals has a least element.
LEMMA LeastNatural ==
  ASSUME NEW P \in SUBSET Nat, P # {}
  PROVE  \E i \in P : \A j \in P : i <= j
<1> DEFINE Less == {q \in Nat \X Nat : q[1] < q[2]}
<1>1. IsWellFoundedOn(Less, Nat)
  BY NatLessThanWellFounded DEF OpToRel
<1>2. \A i, j \in Nat : j < i => <<j, i>> \in Less
  <2>1. \A i, j \in Nat : <<j, i>> \in Nat \X Nat /\ <<j, i>>[1] = j /\ <<j, i>>[2] = i
    OBVIOUS
  <2>2. QED
    BY <2>1
<1> HIDE DEF Less
<1>3. PICK i \in P : \A j \in P : ~(<<j, i>> \in Less)
  BY <1>1, WFMin, Zenon
<1>4. ASSUME NEW j \in P  PROVE i <= j
  <2>1. i \in Nat /\ j \in Nat
    OBVIOUS
  <2>2. ~(j < i)
    BY <1>2, <1>3, <2>1, Zenon
  <2>3. QED
    BY <2>1, <2>2
<1>5. QED
  BY <1>4

\* The loop over expired entries stops somewhere.
LEMMA ExpiredAtFrontFacts ==
  ASSUME NEW N, NEW a, a.order \in Seq(N), NEW t
  PROVE  LET n == ExpiredAtFront(a, t)
         IN  /\ n \in 0..Len(a.order)
             /\ \A i \in 1..n : CheckTimeExpired(a, a.order[i], t)
             /\ n < Len(a.order) => ~CheckTimeExpired(a, a.order[n + 1], t)
<1> DEFINE Stops(n) == n < Len(a.order) => ~CheckTimeExpired(a, a.order[n + 1], t)
           P == {n \in 0..Len(a.order) : Stops(n)}
<1>0. Len(a.order) \in Nat
  OBVIOUS
<1>1. P \in SUBSET Nat /\ Len(a.order) \in P
  BY <1>0
<1>2. PICK n \in P : \A j \in P : n <= j
  BY <1>1, LeastNatural, Zenon
<1>3. n \in 0..Len(a.order) /\ Stops(n)
  BY <1>2
<1>4. ASSUME NEW i \in 1..n  PROVE CheckTimeExpired(a, a.order[i], t)
  <2>1. i - 1 \in 0..Len(a.order) /\ ~(n <= i - 1) /\ i - 1 < Len(a.order) /\ (i - 1) + 1 = i
    BY <1>0, <1>3
  <2>2. ~Stops(i - 1)
    BY <1>2, <2>1
  <2>3. QED
    BY <2>1, <2>2
<1>5. QED
  BY <1>3, <1>4, Zenon DEF ExpiredAtFront

\* Removing elements at the front removes them from list and map alike.
LEMMA RemoveOldestFacts ==
  ASSUME NEW N, NEW S, NEW V, NEW a, WellFormed(a, N, S, V), NEW n \in 0..Len(a.order)
  PROVE  LET b == RemoveOldest(a, n)
         IN  /\ WellFormed(b, N, S, V)
             /\ Len(b.order) = Len(a.order) - n
             /\ \A i \in 1..(Len(a.order) - n) : b.order[i] = a.order[i + n]
             /\ DOMAIN b.storage \subseteq DOMAIN a.storage
             /\ \A m \in DOMAIN b.storage : b.storage[m] = a.storage[m]
             /\ \A m \in DOMAIN a.storage \ DOMAIN b.storage :
                  \E i \in 1..n : m = a.order[i]
<1> DEFINE b == RemoveOldest(a, n)
           gone == {a.order[i] : i \in 1..n}
<1>0. /\ a.order \in Seq(N) /\ Len(a.order) \in Nat /\ n \in Nat
      /\ DOMAIN a.storage \subseteq N
  BY DEF WellFormed
<1>1. /\ b.order = SubSeq(a.order, n + 1, Len(a.order))
      /\ b.storage = [m \in DOMAIN a.storage \ gone |-> a.storage[m]]
      /\ DOMAIN b = {"order", "storage"}
  BY DEF RemoveOldest
<1> HIDE DEF b
<1>2. /\ b.order \in Seq(N)
      /\ Len(b.order) = Len(a.order) - n
      /\ \A i \in 1..(Len(a.order) - n) : b.order[i] = a.order[i + n]
  BY <1>0, <1>1
<1>3. /\ DOMAIN b.storage = DOMAIN a.storage \ gone
      /\ \A m \in DOMAIN b.storage : b.storage[m] = a.storage[m]
  BY <1>1
<1>4. \A m \in DOMAIN a.storage \ DOMAIN b.storage : \E i \in 1..n : m = a.order[i]
  BY <1>3
<1>5. \A i, j \in 1..Len(a.order) : a.order[i] = a.order[j] => i = j
  BY DEF WellFormed
<1>6. \A i \in 1..(Len(a.order) - n) : i + n \in 1..Len(a.order) /\ i + n \notin 1..n
  BY <1>0
<1>7. ASSUME NEW i \in 1..Len(b.order)  PROVE b.order[i] \in DOMAIN b.storage
  <2>1. b.order[i] = a.order[i + n] /\ i + n \in 1..Len(a.order) /\ i + n \notin 1..n
    BY <1>2, <1>6
  <2>2. a.order[i + n] \in DOMAIN a.storage
    BY <2>1 DEF WellFormed
  <2>3. \A k \in 1..n : k \in 1..Len(a.order)
    BY <1>0
  <2>4. a.order[i + n] \notin gone
    BY <1>5, <2>1, <2>3
  <2>5. QED
    BY <1>3, <2>1, <2>2, <2>4
<1>8. ASSUME NEW i \in 1..Len(b.order), NEW j \in 1..Len(b.order), b.order[i] = b.order[j]
      PROVE  i = j
  <2>1. i + n = j + n
    BY <1>2, <1>5, <1>6, <1>8, Zenon
  <2>2. QED
    BY <1>0, <1>2, <2>1
<1>9. ASSUME NEW m \in DOMAIN b.storage  PROVE \E i \in 1..Len(b.order) : b.order[i] = m
  <2>1. PICK k \in 1..Len(a.order) : a.order[k] = m
    BY <1>3 DEF WellFormed
  <2>2. k \notin 1..n
    BY <1>3, <2>1
  <2>3. k - n \in 1..(Len(a.order) - n) /\ (k - n) + n = k
    BY <1>0, <2>2
  <2>4. QED
    BY <1>2, <2>1, <2>3, Zenon
<1>10. \A m \in DOMAIN b.storage : m \in N /\ EntryOK(b.storage[m], S, V)
  BY <1>0, <1>3, Zenon DEF WellFormed
<1>11. WellFormed(b, N, S, V)
  BY <1>1, <1>2, <1>7, <1>8, <1>9, <1>10, Zenon DEF WellFormed
<1>12. QED
  BY <1>2, <1>3, <1>4, <1>11 DEF b

\* In the list of a, x is y or comes before it.
NotAfter(a, x, y) ==
  \E k, l \in 1..Len(a.order) : k <= l /\ a.order[k] = x /\ a.order[l] = y

\* b is a after the entry of name was created at time t, with one part.
AddNewResult(a, b, name, value, sender, t) ==
  /\ name \in DOMAIN b.storage
  /\ DOMAIN b.storage \subseteq DOMAIN a.storage \union {name}
  /\ \A m \in DOMAIN b.storage \ {name} : b.storage[m] = a.storage[m]
  /\ b.storage[name].time = t
  /\ b.storage[name].parts = [s \in {sender} |-> value]
  /\ \A m \in DOMAIN a.storage \ DOMAIN b.storage : CheckTimeExpired(a, m, t)
  /\ \A x, y : y # name => KeepsOrder(a, b, x, y)
  /\ \A m \in DOMAIN b.storage \ {name} :
       \E f \in DOMAIN a.storage : ~CheckTimeExpired(a, f, t) /\ NotAfter(a, f, m)

\* Creating an entry: expired ones at the front go, and every entry that
\* survives has one that has not expired at or before its place in the list.
LEMMA AddNewFacts ==
  ASSUME NEW N, NEW S, NEW V, NEW a, WellFormed(a, N, S, V), NEW name \in N \ DOMAIN a.storage,
         NEW value \in V, NEW sender \in S, NEW t \in Nat
  PROVE  /\ WellFormed(AddNew(a, name, value, sender, t), N, S, V)
         /\ AddNewResult(a, AddNew(a, name, value, sender, t), name, value, sender, t)
<1> DEFINE n == ExpiredAtFront(a, t)
           live == RemoveOldest(a, n)
           entry == [parts |-> [s \in {sender} |-> value], time |-> t]
           b == AddNew(a, name, value, sender, t)
<1>0. a.order \in Seq(N) /\ Len(a.order) \in Nat
  BY DEF WellFormed
<1>1. /\ n \in 0..Len(a.order)
      /\ \A i \in 1..n : CheckTimeExpired(a, a.order[i], t)
      /\ n < Len(a.order) => ~CheckTimeExpired(a, a.order[n + 1], t)
  BY <1>0, ExpiredAtFrontFacts
<1> HIDE DEF n
<1>2. /\ WellFormed(live, N, S, V)
      /\ Len(live.order) = Len(a.order) - n
      /\ \A i \in 1..(Len(a.order) - n) : live.order[i] = a.order[i + n]
      /\ DOMAIN live.storage \subseteq DOMAIN a.storage
      /\ \A m \in DOMAIN live.storage : live.storage[m] = a.storage[m]
      /\ \A m \in DOMAIN a.storage \ DOMAIN live.storage : \E i \in 1..n : m = a.order[i]
  BY <1>1, RemoveOldestFacts
<1>3. /\ b.order = Append(live.order, name)
      /\ b.storage = Insert(live.storage, name, entry)
      /\ DOMAIN b = {"order", "storage"}
  BY DEF AddNew, n
<1> HIDE DEF live, b
<1>4. EntryOK(entry, S, V) /\ entry.time = t /\ entry.parts = [s \in {sender} |-> value]
  BY DEF EntryOK
<1> HIDE DEF entry
<1>5. /\ DOMAIN b.storage = DOMAIN live.storage \union {name}
      /\ \A m \in DOMAIN live.storage : b.storage[m] = live.storage[m]
      /\ b.storage[name] = entry
  BY <1>2, <1>3 DEF Insert
<1>6. /\ live.order \in Seq(N) /\ Len(live.order) \in Nat
      /\ \A m \in DOMAIN live.storage : \E i \in 1..Len(live.order) : live.order[i] = m
      /\ \A i \in 1..Len(live.order) : live.order[i] \in DOMAIN live.storage
      /\ \A i, j \in 1..Len(live.order) : live.order[i] = live.order[j] => i = j
      /\ \A m \in DOMAIN live.storage : m \in N /\ EntryOK(live.storage[m], S, V)
  <2>1. WellFormed(live, N, S, V)
    BY <1>2
  <2>2. live.order \in Seq(N)
    BY <2>1, Zenon DEF WellFormed
  <2>3. Len(live.order) \in Nat
    BY <2>2
  <2>4. QED
    BY <2>1, <2>2, <2>3, Zenon DEF WellFormed
<1>7. /\ b.order \in Seq(N)
      /\ Len(b.order) = Len(live.order) + 1
      /\ b.order[Len(live.order) + 1] = name
      /\ \A i \in 1..Len(live.order) : b.order[i] = live.order[i]
  BY <1>3, <1>6
<1>8. \A i \in 1..Len(b.order) : i \in 1..Len(live.order) \/ i = Len(live.order) + 1
  BY <1>6, <1>7
<1>9. name \notin DOMAIN live.storage
  BY <1>2
<1>10. WellFormed(b, N, S, V)
  <2>1. \A m \in DOMAIN b.storage : m \in N /\ EntryOK(b.storage[m], S, V)
    BY <1>4, <1>5, <1>6
  <2>2. ASSUME NEW m \in DOMAIN b.storage
        PROVE  \E i \in 1..Len(b.order) : b.order[i] = m
    <3>1. CASE m = name
      BY <1>6, <1>7, <3>1
    <3>2. CASE m \in DOMAIN live.storage
      <4>1. PICK i \in 1..Len(live.order) : live.order[i] = m
        BY <1>6, <3>2
      <4>2. b.order[i] = m
        BY <1>7, <4>1
      <4>3. i \in 1..Len(b.order)
        BY <1>6, <1>7
      <4>4. QED
        BY <4>2, <4>3
    <3>3. QED
      BY <1>5, <3>1, <3>2
  <2>3. \A i \in 1..Len(b.order) : b.order[i] \in DOMAIN b.storage
    BY <1>5, <1>6, <1>7, <1>8
  <2>4. ASSUME NEW i \in 1..Len(b.order), NEW j \in 1..Len(b.order), b.order[i] = b.order[j]
        PROVE  i = j
    <3>1. ASSUME NEW k \in 1..Len(b.order), b.order[k] = name
          PROVE  k = Len(live.order) + 1
      BY <1>6, <1>7, <1>8, <1>9, <3>1
    <3>2. CASE i = Len(live.order) + 1 \/ j = Len(live.order) + 1
      BY <1>7, <2>4, <3>1, <3>2
    <3>3. CASE i \in 1..Len(live.order) /\ j \in 1..Len(live.order)
      BY <1>6, <1>7, <2>4, <3>3
    <3>4. QED
      BY <1>8, <3>2, <3>3
  <2>5. QED
    BY <1>3, <1>7, <2>1, <2>2, <2>3, <2>4, Zenon DEF WellFormed
<1>11. \A m \in DOMAIN a.storage \ DOMAIN b.storage : CheckTimeExpired(a, m, t)
  BY <1>1, <1>2, <1>5
<1>12. \A m \in DOMAIN b.storage \ {name} : b.storage[m] = a.storage[m]
  BY <1>2, <1>5
<1>13. \A i \in 1..Len(live.order) : i + n \in 1..Len(a.order) /\ live.order[i] = a.order[i + n]
  BY <1>0, <1>1, <1>2
<1>14. ASSUME NEW x, NEW y, y # name,
              NEW i \in 1..Len(b.order), NEW j \in 1..Len(b.order),
              i < j, b.order[i] = x, b.order[j] = y
       PROVE  \E k, l \in 1..Len(a.order) : k < l /\ a.order[k] = x /\ a.order[l] = y
  <2>1. i \in 1..Len(live.order) /\ j \in 1..Len(live.order)
    BY <1>6, <1>7, <1>8, <1>14
  <2>2. i + n < j + n
    BY <1>1, <1>14, <2>1
  <2>3. QED
    BY <1>7, <1>13, <1>14, <2>1, <2>2, Zenon
<1>15. ASSUME NEW m \in DOMAIN b.storage \ {name}
       PROVE  \E f \in DOMAIN a.storage : ~CheckTimeExpired(a, f, t) /\ NotAfter(a, f, m)
  <2>1. PICK i \in 1..Len(live.order) : live.order[i] = m
    BY <1>5, <1>6
  <2>2. /\ i + n \in 1..Len(a.order) /\ a.order[i + n] = m
        /\ n < Len(a.order) /\ n + 1 \in 1..Len(a.order) /\ n + 1 <= i + n
    BY <1>0, <1>1, <1>13, <2>1
  <2>3. a.order[n + 1] \in DOMAIN a.storage /\ ~CheckTimeExpired(a, a.order[n + 1], t)
    BY <1>1, <2>2 DEF WellFormed
  <2>4. NotAfter(a, a.order[n + 1], m)
    BY <2>2 DEF NotAfter
  <2>5. QED
    BY <2>3, <2>4
<1>16. QED
  <2>1. name \in DOMAIN b.storage /\ DOMAIN b.storage \subseteq DOMAIN a.storage \union {name}
    BY <1>2, <1>5
  <2>2. b.storage[name].time = t /\ b.storage[name].parts = [s \in {sender} |-> value]
    BY <1>4, <1>5
  <2>3. \A x, y : y # name => KeepsOrder(a, b, x, y)
    BY <1>14, Zenon DEF KeepsOrder
  <2>4. AddNewResult(a, b, name, value, sender, t)
    BY <1>10, <1>11, <1>12, <1>15, <2>1, <2>2, <2>3 DEF AddNewResult
  <2>5. QED
    BY <1>10, <2>4 DEF b

\* Every part of p is in q, unchanged.
Extends(p, q) == \A s \in DOMAIN p : s \in DOMAIN q /\ q[s] = p[s]

\* Adding a part changes the parts of that entry only, and only adds.
LEMMA AddPartFacts ==
  ASSUME NEW N, NEW S, NEW V, NEW a, WellFormed(a, N, S, V), NEW name \in DOMAIN a.storage,
         NEW value \in V, NEW sender \in S
  PROVE  LET b == AddPart(a, name, value, sender)
         IN  /\ WellFormed(b, N, S, V)
             /\ b.order = a.order
             /\ DOMAIN b.storage = DOMAIN a.storage
             /\ \A m \in DOMAIN a.storage : b.storage[m].time = a.storage[m].time
             /\ \A m \in DOMAIN a.storage \ {name} : b.storage[m] = a.storage[m]
             /\ Extends(a.storage[name].parts, b.storage[name].parts)
             /\ b.storage[name].parts = Insert(a.storage[name].parts, sender, value)
<1> DEFINE b == AddPart(a, name, value, sender)
           old == a.storage[name]
           entry == [parts |-> Insert(old.parts, sender, value), time |-> old.time]
<1>1. /\ b.order = a.order /\ DOMAIN b = {"order", "storage"}
      /\ b.storage = [a.storage EXCEPT ![name] = entry]
  BY DEF AddPart
<1>2. EntryOK(old, S, V)
  BY DEF WellFormed
<1>3. EntryOK(entry, S, V) /\ entry.time = old.time /\ entry.parts = Insert(old.parts, sender, value)
  <2>1. LET new == Insert(old.parts, sender, value)
        IN  DOMAIN new \subseteq S /\ DOMAIN new # {} /\ new \in [DOMAIN new -> V]
    BY <1>2 DEF EntryOK, Insert
  <2>2. QED
    BY <1>2, <2>1 DEF EntryOK
<1>4. Extends(old.parts, entry.parts)
  BY <1>3 DEF Extends, Insert
<1> HIDE DEF b, entry
<1>5. /\ DOMAIN b.storage = DOMAIN a.storage
      /\ b.storage[name] = entry
      /\ \A m \in DOMAIN a.storage \ {name} : b.storage[m] = a.storage[m]
  BY <1>1
<1>6. WellFormed(b, N, S, V)
  <2>1. \A m \in DOMAIN b.storage : EntryOK(b.storage[m], S, V)
    <3>1. \A m \in DOMAIN a.storage : EntryOK(a.storage[m], S, V)
      BY DEF WellFormed
    <3>2. QED
      BY <1>3, <1>5, <3>1
  <2>2. /\ a.order \in Seq(N) /\ DOMAIN a.storage \subseteq N
        /\ \A n \in DOMAIN a.storage : \E i \in 1..Len(a.order) : a.order[i] = n
        /\ \A i \in 1..Len(a.order) : a.order[i] \in DOMAIN a.storage
        /\ \A i, j \in 1..Len(a.order) : a.order[i] = a.order[j] => i = j
    BY DEF WellFormed
  <2>3. b.order = a.order /\ DOMAIN b = {"order", "storage"}
    BY <1>1
  <2>4. QED
    BY <1>5, <2>1, <2>2, <2>3, Zenon DEF WellFormed
<1>7. QED
  BY <1>1, <1>3, <1>4, <1>5, <1>6 DEF b

\* The senders from whom a holds a part of name.
Heard(a, name) == IF HaveName(a, name) THEN DOMAIN GetAll(a, name) ELSE {}

\* What c is, as the result of an Add to a at time t.
AddResult(a, c, name, value, sender, t) ==
  /\ name \in DOMAIN c.storage
  /\ DOMAIN c.storage \subseteq DOMAIN a.storage \union {name}
  /\ \A m \in DOMAIN c.storage \ {name} : c.storage[m] = a.storage[m]
  /\ name \in DOMAIN a.storage =>
       /\ c.storage[name].time = a.storage[name].time
       /\ Extends(a.storage[name].parts, c.storage[name].parts)
  /\ name \notin DOMAIN a.storage =>
       /\ c.storage[name].time = t
       /\ \A m \in DOMAIN c.storage \ {name} :
            \E f \in DOMAIN a.storage : ~CheckTimeExpired(a, f, t) /\ NotAfter(a, f, m)
  /\ \A m \in DOMAIN a.storage \ DOMAIN c.storage : CheckTimeExpired(a, m, t)
  /\ Heard(c, name) = Heard(a, name) \union {sender}
  /\ sender \notin Heard(a, name) => c.storage[name].parts[sender] = value
  /\ \A i \in 1..Len(c.order) : c.order[i] = name => i = Len(c.order)
  /\ \A x, y : y # name => KeepsOrder(a, c, x, y)

\* What Add does, whether the name is there or not.
LEMMA AddFacts ==
  ASSUME NEW N, NEW S, NEW V, NEW a, WellFormed(a, N, S, V), NEW name \in N,
         NEW value \in V, NEW sender \in S, NEW t \in Nat
  PROVE  /\ WellFormed(Add(a, name, value, sender, t), N, S, V)
         /\ AddResult(a, Add(a, name, value, sender, t), name, value, sender, t)
<1> DEFINE found == IF HaveName(a, name) THEN a ELSE AddNew(a, name, value, sender, t)
           b == AddPart(found, name, value, sender)
           c == ReOrder(b, name)
<1>1. /\ WellFormed(found, N, S, V)
      /\ name \in DOMAIN found.storage
      /\ DOMAIN found.storage \subseteq DOMAIN a.storage \union {name}
      /\ \A m \in DOMAIN found.storage \ {name} : found.storage[m] = a.storage[m]
      /\ name \in DOMAIN a.storage => found = a
      /\ name \notin DOMAIN a.storage =>
           /\ found.storage[name].time = t
           /\ found.storage[name].parts = [s \in {sender} |-> value]
           /\ \A m \in DOMAIN found.storage \ {name} :
                \E f \in DOMAIN a.storage : ~CheckTimeExpired(a, f, t) /\ NotAfter(a, f, m)
      /\ \A m \in DOMAIN a.storage \ DOMAIN found.storage : CheckTimeExpired(a, m, t)
      /\ \A x, y : y # name => KeepsOrder(a, found, x, y)
  <2>1. CASE name \in DOMAIN a.storage
    <3>1. found = a
      BY <2>1 DEF HaveName
    <3>2. \A x, y : KeepsOrder(a, a, x, y)
      BY DEF KeepsOrder
    <3>3. QED
      BY <2>1, <3>1, <3>2
  <2>2. CASE name \notin DOMAIN a.storage
    <3>1. found = AddNew(a, name, value, sender, t)
      BY <2>2 DEF HaveName
    <3> HIDE DEF found
    <3>2. WellFormed(found, N, S, V) /\ AddNewResult(a, found, name, value, sender, t)
      BY <2>2, <3>1, AddNewFacts
    <3>3. QED
      BY <2>2, <3>2 DEF AddNewResult
  <2>3. QED
    BY <2>1, <2>2, Zenon
<1> HIDE DEF found
<1>2. /\ WellFormed(b, N, S, V)
      /\ b.order = found.order
      /\ DOMAIN b.storage = DOMAIN found.storage
      /\ \A m \in DOMAIN found.storage : b.storage[m].time = found.storage[m].time
      /\ \A m \in DOMAIN found.storage \ {name} : b.storage[m] = found.storage[m]
      /\ Extends(found.storage[name].parts, b.storage[name].parts)
      /\ b.storage[name].parts = Insert(found.storage[name].parts, sender, value)
  BY <1>1, AddPartFacts
<1> HIDE DEF b
<1>3. /\ WellFormed(c, N, S, V)
      /\ c.storage = b.storage
      /\ \A i \in 1..Len(c.order) : c.order[i] = name => i = Len(c.order)
      /\ \A x, y : y # name => KeepsOrder(b, c, x, y)
  BY <1>1, <1>2, ReOrderFacts
<1>4. Add(a, name, value, sender, t) = c
  BY DEF Add, found, b
<1> HIDE DEF c
<1>5. \A x, y : y # name => KeepsOrder(a, c, x, y)
  <2>1. ASSUME NEW x, NEW y, y # name,
               NEW i \in 1..Len(c.order), NEW j \in 1..Len(c.order),
               i < j, c.order[i] = x, c.order[j] = y
        PROVE  \E k, l \in 1..Len(a.order) : k < l /\ a.order[k] = x /\ a.order[l] = y
    <3>0. KeepsOrder(b, c, x, y)
      BY <1>3, <2>1
    <3>1. PICK k, l \in 1..Len(b.order) : k < l /\ b.order[k] = x /\ b.order[l] = y
      BY <2>1, <3>0 DEF KeepsOrder
    <3>2. k \in 1..Len(found.order) /\ l \in 1..Len(found.order)
          /\ found.order[k] = x /\ found.order[l] = y
      BY <1>2, <3>1
    <3>3. KeepsOrder(a, found, x, y)
      BY <1>1, <2>1
    <3>4. QED
      BY <3>1, <3>2, <3>3 DEF KeepsOrder
  <2>2. QED
    BY <2>1 DEF KeepsOrder
<1>6. /\ Heard(c, name) = Heard(a, name) \union {sender}
      /\ sender \notin Heard(a, name) => c.storage[name].parts[sender] = value
  <2>1. name \in DOMAIN c.storage /\ c.storage[name].parts = Insert(found.storage[name].parts, sender, value)
    BY <1>1, <1>2, <1>3
  <2>2. CASE name \in DOMAIN a.storage
    BY <1>1, <2>1, <2>2 DEF Heard, HaveName, GetAll, Insert
  <2>3. CASE name \notin DOMAIN a.storage
    BY <1>1, <2>1, <2>3 DEF Heard, HaveName, GetAll, Insert
  <2>4. QED
    BY <2>2, <2>3
<1>7. AddResult(a, c, name, value, sender, t)
  BY <1>1, <1>2, <1>3, <1>5, <1>6 DEF AddResult
<1>8. QED
  BY <1>3, <1>4, <1>7

\* What Delete does.
LEMMA DeleteFacts ==
  ASSUME NEW N, NEW S, NEW V, NEW a, WellFormed(a, N, S, V), NEW name \in N
  PROVE  LET c == Delete(a, name)
         IN  /\ WellFormed(c, N, S, V)
             /\ DOMAIN c.storage = DOMAIN a.storage \ {name}
             /\ \A m \in DOMAIN c.storage : c.storage[m] = a.storage[m]
             /\ \A x, y : KeepsOrder(a, c, x, y)
<1> DEFINE c == Delete(a, name)
<1>1. CASE name \notin DOMAIN a.storage
  <2>1. c = a
    BY <1>1 DEF Delete, HaveName
  <2>2. \A x, y : KeepsOrder(a, a, x, y)
    BY DEF KeepsOrder
  <2>3. QED
    BY <1>1, <2>1, <2>2
<1>2. CASE name \in DOMAIN a.storage
  <2> DEFINE p == PositionOf(a.order, name)
             w == Without(a.order, p)
             front == <<name>> \o w
             gone == {front[i] : i \in 1..1}
  <2>0. a.order \in Seq(N) /\ Len(a.order) \in Nat /\ DOMAIN a.storage \subseteq N
    BY DEF WellFormed
  <2>1. p \in 1..Len(a.order) /\ a.order[p] = name
    BY <1>2, Zenon DEF WellFormed, PositionOf
  <2>2. /\ w \in Seq(N) /\ Len(w) = Len(a.order) - 1
        /\ \A i \in 1..(Len(a.order) - 1) :
             w[i] = IF i < p THEN a.order[i] ELSE a.order[i + 1]
    BY <2>0, <2>1, WithoutFacts, Zenon
  <2> HIDE DEF p, w
  <2>3. front \in Seq(N) /\ Len(front) = Len(w) + 1 /\ front[1] = name
        /\ \A i \in 1..Len(w) : front[i + 1] = w[i]
    BY <2>2
  <2>4. /\ c.order = SubSeq(front, 2, Len(front))
        /\ c.storage = [m \in DOMAIN a.storage \ gone |-> a.storage[m]]
        /\ DOMAIN c = {"order", "storage"}
    BY <1>2 DEF Delete, HaveName, RemoveOldest, p, w
  <2>5. gone = {name}
    BY <2>3
  <2> HIDE DEF c, front, gone
  <2>6. c.order \in Seq(N) /\ Len(c.order) = Len(w) /\ \A i \in 1..Len(w) : c.order[i] = w[i]
    BY <2>2, <2>3, <2>4
  <2>7. DOMAIN c.storage = DOMAIN a.storage \ {name}
        /\ \A m \in DOMAIN c.storage : c.storage[m] = a.storage[m]
    BY <2>4, <2>5
  <2> DEFINE From(i) == IF i < p THEN i ELSE i + 1
  <2>8. \A i \in 1..Len(c.order) :
          /\ From(i) \in 1..Len(a.order) /\ From(i) # p
          /\ c.order[i] = a.order[From(i)]
    BY <2>0, <2>1, <2>2, <2>6
  <2>9. \A i, j \in 1..Len(c.order) : (From(i) = From(j) => i = j) /\ (i < j => From(i) < From(j))
    BY <2>0, <2>1, <2>2, <2>6
  <2>10. \A k \in 1..Len(a.order) \ {p} : \E i \in 1..Len(c.order) : From(i) = k
    <3> SUFFICES ASSUME NEW k \in 1..Len(a.order) \ {p}
                 PROVE  \E i \in 1..Len(c.order) : From(i) = k
      OBVIOUS
    <3>1. CASE k < p
      BY <2>0, <2>1, <2>2, <2>6, <3>1
    <3>2. CASE k > p
      <4>1. k - 1 \in 1..Len(c.order) /\ From(k - 1) = k
        BY <2>0, <2>1, <2>2, <2>6, <3>2
      <4>2. QED
        BY <4>1
    <3>3. QED
      BY <2>0, <2>1, <3>1, <3>2
  <2> HIDE DEF From
  <2>11. \A k, l \in 1..Len(a.order) : a.order[k] = a.order[l] => k = l
    BY DEF WellFormed
  <2>12. \A i \in 1..Len(c.order) : c.order[i] \in DOMAIN c.storage
    <3>1. \A k \in 1..Len(a.order) : a.order[k] \in DOMAIN a.storage
      BY DEF WellFormed
    <3>2. QED
      BY <2>1, <2>7, <2>8, <2>11, <3>1
  <2>13. \A i, j \in 1..Len(c.order) : c.order[i] = c.order[j] => i = j
    BY <2>8, <2>9, <2>11, Zenon
  <2>14. ASSUME NEW m \in DOMAIN c.storage  PROVE \E i \in 1..Len(c.order) : c.order[i] = m
    <3>1. PICK k \in 1..Len(a.order) : a.order[k] = m
      BY <2>7 DEF WellFormed
    <3>2. k # p
      BY <2>1, <2>7, <3>1
    <3>3. PICK i \in 1..Len(c.order) : From(i) = k
      BY <2>10, <3>2
    <3>4. QED
      BY <2>8, <3>1, <3>3
  <2>15. \A m \in DOMAIN c.storage : m \in N /\ EntryOK(c.storage[m], S, V)
    BY <2>0, <2>7 DEF WellFormed
  <2>16. WellFormed(c, N, S, V)
    BY <2>4, <2>6, <2>12, <2>13, <2>14, <2>15 DEF WellFormed
  <2>17. \A x, y : KeepsOrder(a, c, x, y)
    BY <2>8, <2>9, Zenon DEF KeepsOrder
  <2>18. QED
    BY <2>7, <2>16, <2>17 DEF c
<1>3. QED
  BY <1>1, <1>2

-----------------------------------------------------------------------------
(***************************************************************************)
(* The invariant: besides type and matching, the list is sorted by the     *)
(* time of the last Add, and no entry is younger than its last Add.        *)
(***************************************************************************)

TouchedInOrder ==
  \A i, j \in 1..Len(acc.order) : i < j => touched[acc.order[i]] <= touched[acc.order[j]]

IInv ==
  /\ WellFormed(acc, Name, Sender, Value)
  /\ now \in Nat
  /\ last \in [op : {"None", "Add", "AddNew", "Delete"}, name : Name \union {NoName}]
  /\ touched \in [DOMAIN acc.storage -> 0..now]
  /\ \A n \in DOMAIN acc.storage : acc.storage[n].time <= touched[n]
  /\ TouchedInOrder
  /\ IdleEntriesExpire

\* The invariant holds of an empty accumulator.
LEMMA InitEstablishes == Init => IInv
<1> SUFFICES ASSUME Init  PROVE IInv
  OBVIOUS
<1>1. /\ acc.order = <<>> /\ acc.storage = [n \in {} |-> {}]
      /\ DOMAIN acc = {"order", "storage"}
  BY DEF Init, EmptyAccumulator
<1>2. DOMAIN acc.storage = {} /\ Len(acc.order) = 0 /\ acc.order \in Seq(Name)
  BY <1>1
<1>3. WellFormed(acc, Name, Sender, Value)
  BY <1>1, <1>2 DEF WellFormed
<1>4. touched \in [DOMAIN acc.storage -> 0..now]
  BY <1>2 DEF Init
<1>5. QED
  BY <1>2, <1>3, <1>4 DEF Init, IInv, TouchedInOrder, IdleEntriesExpire, Call

\* The times of the last Add stay sorted when the order of names is kept.
LEMMA StaysSorted ==
  ASSUME IInv, WellFormed(acc', Name, Sender, Value),
         NEW name,
         \A i \in 1..Len(acc'.order) : acc'.order[i] = name => i = Len(acc'.order),
         \A x, y : y # name => KeepsOrder(acc, acc', x, y),
         \A m \in DOMAIN acc'.storage \ {name} : m \in DOMAIN acc.storage /\ touched'[m] = touched[m],
         name \in DOMAIN acc'.storage => touched'[name] = now
  PROVE  TouchedInOrder'
<1> SUFFICES ASSUME NEW i \in 1..Len(acc'.order), NEW j \in 1..Len(acc'.order), i < j
             PROVE  touched'[acc'.order[i]] <= touched'[acc'.order[j]]
  BY DEF TouchedInOrder
<1>0. /\ acc'.order[i] \in DOMAIN acc'.storage /\ acc'.order[j] \in DOMAIN acc'.storage
      /\ Len(acc'.order) \in Nat
  BY DEF WellFormed
<1>1. acc'.order[i] # name
  BY <1>0
<1>2. acc'.order[i] \in DOMAIN acc.storage /\ touched'[acc'.order[i]] = touched[acc'.order[i]]
  BY <1>0, <1>1
<1>3. CASE acc'.order[j] = name
  BY <1>0, <1>2, <1>3 DEF IInv
<1>4. CASE acc'.order[j] # name
  <2>1. KeepsOrder(acc, acc', acc'.order[i], acc'.order[j])
    BY <1>4
  <2>2. PICK k, l \in 1..Len(acc.order) :
          k < l /\ acc.order[k] = acc'.order[i] /\ acc.order[l] = acc'.order[j]
    BY <2>1 DEF KeepsOrder
  <2>3. touched[acc'.order[i]] <= touched[acc'.order[j]]
    BY <2>2 DEF IInv, TouchedInOrder
  <2>4. QED
    BY <1>0, <1>2, <1>4, <2>3
<1>5. QED
  BY <1>3, <1>4

\* Add preserves the invariant, loses only expired entries, keeps all parts.
LEMMA AddStep ==
  ASSUME IInv, NEW name \in Name, NEW value \in Value, NEW sender \in Sender,
         CallAdd(name, value, sender)
  PROVE  /\ IInv'
         /\ \A n \in DOMAIN acc.storage \ DOMAIN acc'.storage : CheckTimeExpired(acc, n, now)
         /\ \A n \in DOMAIN acc.storage \intersect DOMAIN acc'.storage :
              Extends(acc.storage[n].parts, acc'.storage[n].parts)
<1>0. /\ acc' = Add(acc, name, value, sender, now) /\ WellFormed(acc, Name, Sender, Value)
      /\ now \in Nat /\ now' = now
  BY DEF CallAdd, IInv
<1>a. AddResult(acc, acc', name, value, sender, now) /\ WellFormed(acc', Name, Sender, Value)
  BY <1>0, AddFacts
<1>1. /\ name \in DOMAIN acc'.storage
      /\ DOMAIN acc'.storage \subseteq DOMAIN acc.storage \union {name}
      /\ \A m \in DOMAIN acc'.storage \ {name} : acc'.storage[m] = acc.storage[m]
  BY <1>a DEF AddResult
<1>b. name \in DOMAIN acc.storage =>
        /\ acc'.storage[name].time = acc.storage[name].time
        /\ Extends(acc.storage[name].parts, acc'.storage[name].parts)
  BY <1>a DEF AddResult
<1>c. name \notin DOMAIN acc.storage =>
        /\ acc'.storage[name].time = now
        /\ \A m \in DOMAIN acc'.storage \ {name} :
             \E f \in DOMAIN acc.storage : ~CheckTimeExpired(acc, f, now) /\ NotAfter(acc, f, m)
  BY <1>a DEF AddResult
<1>d. \A m \in DOMAIN acc.storage \ DOMAIN acc'.storage : CheckTimeExpired(acc, m, now)
  BY <1>a DEF AddResult
<1>e. /\ WellFormed(acc', Name, Sender, Value)
      /\ \A i \in 1..Len(acc'.order) : acc'.order[i] = name => i = Len(acc'.order)
      /\ \A x, y : y # name => KeepsOrder(acc, acc', x, y)
  BY <1>a DEF AddResult
<1>2. touched' = [n \in DOMAIN acc'.storage |-> IF n = name THEN now ELSE touched[n]]
  BY DEF CallAdd
<1>3. /\ touched \in [DOMAIN acc.storage -> 0..now]
      /\ \A n \in DOMAIN acc.storage : acc.storage[n].time \in Nat /\ acc.storage[n].time <= touched[n]
  BY DEF IInv, WellFormed, EntryOK, PartsType
<1>4. touched' \in [DOMAIN acc'.storage -> 0..now]
  BY <1>0, <1>1, <1>2, <1>3
<1>5. \A m \in DOMAIN acc'.storage \ {name} : m \in DOMAIN acc.storage /\ touched'[m] = touched[m]
  BY <1>1, <1>2
<1>6. touched'[name] = now
  BY <1>1, <1>2
<1>7. TouchedInOrder'
  BY <1>1, <1>e, <1>5, <1>6, StaysSorted
<1>8. \A n \in DOMAIN acc'.storage : acc'.storage[n].time <= touched'[n]
  <2>1. \A n \in DOMAIN acc'.storage \ {name} : acc'.storage[n].time <= touched'[n]
    BY <1>1, <1>3, <1>5
  <2>2. acc'.storage[name].time <= touched'[name]
    <3>1. CASE name \in DOMAIN acc.storage
      <4>1. touched[name] \in 0..now /\ acc.storage[name].time \in Nat
            /\ acc.storage[name].time <= touched[name]
        BY <1>3, <3>1
      <4>2. QED
        BY <1>0, <1>b, <1>6, <3>1, <4>1
    <3>2. CASE name \notin DOMAIN acc.storage
      BY <1>0, <1>c, <1>6, <3>2
    <3>3. QED
      BY <3>1, <3>2
  <2>3. QED
    BY <2>1, <2>2
<1>9. last' = Call(IF HaveName(acc, name) THEN "Add" ELSE "AddNew", name)
  BY DEF CallAdd
<1>10. ASSUME last'.op = "AddNew", TimeToLive # 0, NEW m \in DOMAIN acc'.storage
       PROVE  touched'[m] + TimeToLive >= now
  <2>1. name \notin DOMAIN acc.storage
    BY <1>9, <1>10 DEF Call, HaveName
  <2>2. CASE m = name
    BY <1>0, <1>6, <2>2, TimeToLiveAssumption
  <2>3. CASE m # name
    <3>1. PICK f \in DOMAIN acc.storage : ~CheckTimeExpired(acc, f, now) /\ NotAfter(acc, f, m)
      <4>1. m \in DOMAIN acc'.storage \ {name}
        BY <1>10, <2>3
      <4>2. QED
        BY <1>c, <2>1, <4>1
    <3>2. PICK k, l \in 1..Len(acc.order) : k <= l /\ acc.order[k] = f /\ acc.order[l] = m
      BY <3>1 DEF NotAfter
    <3>3. m \in DOMAIN acc.storage /\ touched'[m] = touched[m] /\ Len(acc.order) \in Nat
      <4>1. m \in DOMAIN acc.storage /\ touched'[m] = touched[m]
        BY <1>5, <1>10, <2>3
      <4>2. Len(acc.order) \in Nat
        BY <1>0 DEF WellFormed
      <4>3. QED
        BY <4>1, <4>2
    <3>4. touched[f] \in 0..now /\ touched[m] \in 0..now /\ acc.storage[f].time \in Nat
          /\ acc.storage[f].time <= touched[f]
      BY <1>3, <3>3
    <3>5. touched[f] <= touched[m]
      <4>1. CASE k = l
        BY <3>2, <3>4, <4>1
      <4>2. CASE k < l
        BY <3>2, <4>2 DEF IInv, TouchedInOrder
      <4>3. QED
        BY <3>2, <3>3, <4>1, <4>2
    <3>6. ~(acc.storage[f].time + TimeToLive < now)
      BY <1>10, <3>1 DEF CheckTimeExpired
    <3>7. QED
      BY <1>0, <3>3, <3>4, <3>5, <3>6, TimeToLiveAssumption
  <2>4. QED
    BY <2>2, <2>3
<1>11. IdleEntriesExpire'
  BY <1>0, <1>10 DEF IdleEntriesExpire
<1>12. last' \in [op : {"None", "Add", "AddNew", "Delete"}, name : Name \union {NoName}]
  BY <1>9 DEF Call
<1>13. IInv'
  BY <1>0, <1>e, <1>4, <1>7, <1>8, <1>11, <1>12 DEF IInv
<1>14. \A n \in DOMAIN acc.storage \intersect DOMAIN acc'.storage :
         Extends(acc.storage[n].parts, acc'.storage[n].parts)
  BY <1>1, <1>b DEF Extends
<1>15. QED
  BY <1>d, <1>13, <1>14

\* Delete preserves the invariant and loses only the entry it names.
LEMMA DeleteStep ==
  ASSUME IInv, NEW name \in Name, CallDelete(name)
  PROVE  /\ IInv'
         /\ \A n \in DOMAIN acc.storage \ DOMAIN acc'.storage : last' = Call("Delete", n)
         /\ \A n \in DOMAIN acc.storage \intersect DOMAIN acc'.storage :
              Extends(acc.storage[n].parts, acc'.storage[n].parts)
<1>0. /\ acc' = Delete(acc, name) /\ WellFormed(acc, Name, Sender, Value) /\ now \in Nat /\ now' = now
      /\ last' = Call("Delete", name)
  BY DEF CallDelete, IInv
<1>1. /\ WellFormed(acc', Name, Sender, Value)
      /\ DOMAIN acc'.storage = DOMAIN acc.storage \ {name}
      /\ \A m \in DOMAIN acc'.storage : acc'.storage[m] = acc.storage[m]
      /\ \A x, y : KeepsOrder(acc, acc', x, y)
  BY <1>0, DeleteFacts
<1>2. touched' = [n \in DOMAIN acc'.storage |-> touched[n]]
  BY DEF CallDelete
<1>3. /\ touched \in [DOMAIN acc.storage -> 0..now]
      /\ \A n \in DOMAIN acc.storage : acc.storage[n].time <= touched[n]
  BY DEF IInv
<1>4. touched' \in [DOMAIN acc'.storage -> 0..now]
  BY <1>0, <1>1, <1>2, <1>3
<1>5. \A i \in 1..Len(acc'.order) : acc'.order[i] # name
  BY <1>1 DEF WellFormed
<1>6. TouchedInOrder'
  <2>1. \A m \in DOMAIN acc'.storage \ {name} : m \in DOMAIN acc.storage /\ touched'[m] = touched[m]
    BY <1>1, <1>2
  <2>2. name \notin DOMAIN acc'.storage
    BY <1>1
  <2>3. QED
    BY <1>1, <1>5, <2>1, <2>2, StaysSorted
<1>7. \A n \in DOMAIN acc'.storage : acc'.storage[n].time <= touched'[n]
  BY <1>1, <1>2, <1>3
<1>8. last'.op = "Delete"
      /\ last' \in [op : {"None", "Add", "AddNew", "Delete"}, name : Name \union {NoName}]
  BY <1>0 DEF Call
<1>9. IdleEntriesExpire'
  BY <1>8 DEF IdleEntriesExpire
<1>10. IInv'
  BY <1>0, <1>1, <1>4, <1>6, <1>7, <1>8, <1>9 DEF IInv
<1>11. \A n \in DOMAIN acc.storage \intersect DOMAIN acc'.storage :
         Extends(acc.storage[n].parts, acc'.storage[n].parts)
  BY <1>1 DEF Extends
<1>12. QED
  BY <1>0, <1>1, <1>10, <1>11

\* The passing of time preserves the invariant.
LEMMA TickStep ==
  ASSUME IInv, Tick
  PROVE  IInv' /\ acc' = acc
<1>1. /\ acc' = acc /\ touched' = touched /\ now' = now + 1
      /\ last' = Call("None", NoName)
  BY DEF Tick
<1>2. last'.op = "None"
      /\ last' \in [op : {"None", "Add", "AddNew", "Delete"}, name : Name \union {NoName}]
  BY <1>1 DEF Call
<1>3. now \in Nat /\ touched' \in [DOMAIN acc'.storage -> 0..now']
  BY <1>1 DEF IInv
<1>4. IdleEntriesExpire'
  BY <1>2 DEF IdleEntriesExpire
<1>5. TouchedInOrder'
  BY <1>1 DEF IInv, TouchedInOrder
<1>6. WellFormed(acc', Name, Sender, Value) /\ now' \in Nat
      /\ \A n \in DOMAIN acc'.storage : acc'.storage[n].time <= touched'[n]
  BY <1>1, <1>3 DEF IInv
<1>7. QED
  BY <1>1, <1>2, <1>3, <1>4, <1>5, <1>6 DEF IInv

\* Stuttering changes nothing.
LEMMA StutterStep ==
  ASSUME IInv, UNCHANGED vars
  PROVE  IInv' /\ acc' = acc
<1>1. acc' = acc /\ now' = now /\ last' = last /\ touched' = touched
  BY DEF vars
<1>2. QED
  BY <1>1 DEF IInv, TouchedInOrder, IdleEntriesExpire

\* IInv is an invariant.
LEMMA Invariance == Spec => []IInv
<1>1. IInv /\ [Next]_vars => IInv'
  <2> SUFFICES ASSUME IInv, [Next]_vars  PROVE IInv'
    OBVIOUS
  <2>1. CASE \E name \in Name, value \in Value, sender \in Sender : CallAdd(name, value, sender)
    BY <2>1, AddStep
  <2>2. CASE \E name \in Name : CallDelete(name)
    BY <2>2, DeleteStep
  <2>3. CASE Tick
    BY <2>3, TickStep
  <2>4. CASE UNCHANGED vars
    BY <2>4, StutterStep
  <2>5. QED
    BY <2>1, <2>2, <2>3, <2>4 DEF Next
<1>2. QED
  BY <1>1, InitEstablishes, PTL DEF Spec

\* The list and the map of an accumulator agree, so the lookups asserted in
\* RemoveOldestElement, CheckTimeExpired and ReOrder never fail.
THEOREM OrderCorrect == Spec => [](TypeOK /\ OrderMatchesStorage)
<1>1. IInv => TypeOK /\ OrderMatchesStorage
  <2> SUFFICES ASSUME IInv  PROVE TypeOK /\ OrderMatchesStorage
    OBVIOUS
  <2>1. OrderMatchesStorage
    BY DEF IInv, WellFormed, OrderMatchesStorage
  <2>2. \A n \in DOMAIN acc.storage : touched[n] \in Nat
    BY DEF IInv
  <2>3. \A n \in DOMAIN acc.storage :
          /\ DOMAIN acc.storage[n] = {"parts", "time"}
          /\ PartsType(acc.storage[n].parts)
          /\ acc.storage[n].time \in 0..touched[n]
    BY <2>2 DEF IInv, WellFormed, EntryOK, PartsType
  <2>4. TypeOK
    BY <2>3 DEF IInv, WellFormed, TypeOK
  <2>5. QED
    BY <2>1, <2>4
<1>2. QED
  BY <1>1, Invariance, PTL

\* AddNew leaves no entry that was idle for the time to live, although it
\* examines only the front of the list.
THEOREM IdleCorrect == Spec => []IdleEntriesExpire
<1>1. IInv => IdleEntriesExpire
  BY DEF IInv
<1>2. QED
  BY <1>1, Invariance, PTL

\* Entries are lost only to Delete or to the time to live.
THEOREM NothingLostCorrect == Spec => NothingLostEarly
<1> DEFINE Lawful == \A n \in DOMAIN acc.storage \ DOMAIN acc'.storage :
                       \/ last' = Call("Delete", n)
                       \/ CheckTimeExpired(acc, n, now)
<1>1. IInv /\ [Next]_vars => Lawful
  <2> SUFFICES ASSUME IInv, [Next]_vars
               PROVE  \A n \in DOMAIN acc.storage \ DOMAIN acc'.storage :
                        last' = Call("Delete", n) \/ CheckTimeExpired(acc, n, now)
    OBVIOUS
  <2>1. CASE \E name \in Name, value \in Value, sender \in Sender : CallAdd(name, value, sender)
    BY <2>1, AddStep
  <2>2. CASE \E name \in Name : CallDelete(name)
    BY <2>2, DeleteStep
  <2>3. CASE Tick
    BY <2>3, TickStep
  <2>4. CASE UNCHANGED vars
    BY <2>4, StutterStep
  <2>5. QED
    BY <2>1, <2>2, <2>3, <2>4 DEF Next
<1>2. QED
  BY <1>1, Invariance, PTL DEF Spec, NothingLostEarly

\* A part that was accepted stays as it is while its entry lives.
THEOREM PartsCorrect == Spec => PartsOnlyAccumulate
<1> DEFINE Kept == \A n \in DOMAIN acc.storage \intersect DOMAIN acc'.storage :
                     \A s \in DOMAIN GetAll(acc, n) :
                       s \in DOMAIN GetAll(acc', n) /\ GetAll(acc', n)[s] = GetAll(acc, n)[s]
<1>1. IInv /\ [Next]_vars => Kept
  <2> SUFFICES ASSUME IInv, [Next]_vars
               PROVE  \A n \in DOMAIN acc.storage \intersect DOMAIN acc'.storage :
                        Extends(acc.storage[n].parts, acc'.storage[n].parts)
    BY DEF Extends, GetAll
  <2>1. CASE \E name \in Name, value \in Value, sender \in Sender : CallAdd(name, value, sender)
    BY <2>1, AddStep
  <2>2. CASE \E name \in Name : CallDelete(name)
    BY <2>2, DeleteStep
  <2>3. CASE Tick
    BY <2>3, TickStep DEF Extends
  <2>4. CASE UNCHANGED vars
    BY <2>4, StutterStep DEF Extends
  <2>5. QED
    BY <2>1, <2>2, <2>3, <2>4 DEF Next
<1>2. QED
  BY <1>1, Invariance, PTL DEF Spec, PartsOnlyAccumulate

=============================================================================
