------------------------ MODULE RoutingTableProofs ------------------------
(***************************************************************************)
(* Proofs about RoutingTable for every set of addresses, every group,      *)
(* table and bucket size, and any number of threads; and about XorAddress  *)
(* for addresses of any number of bits: the XOR metric has the properties  *)
(* that RoutingTable assumes (DistanceAssumption, BucketAssumption).       *)
(***************************************************************************)
EXTENDS RoutingTable, XorAddress, FiniteSetTheorems, FunctionTheorems,
        WellFoundedInduction, NaturalsInduction, TLAPS

-----------------------------------------------------------------------------
(***************************************************************************)
(* The XOR metric.                                                         *)
(***************************************************************************)

\* A non-empty set of bit positions has a least one.
LEMMA LeastPosition ==
  ASSUME NEW P \in SUBSET (1..Bits), P # {}
  PROVE  \E i \in P : \A j \in P : i <= j
<1> DEFINE Less == {p \in Nat \X Nat : p[1] < p[2]}
<1>1. IsWellFoundedOn(Less, Nat)
  BY NatLessThanWellFounded DEF OpToRel
<1>2. P \subseteq Nat
  BY BitsAssumption
<1>3. \E i \in P : \A j \in P : ~(<<j, i>> \in Less)
  <2> HIDE DEF Less
  <2> QED  BY <1>1, <1>2, WFMin
<1>4. \A i, j \in Nat : j < i => <<j, i>> \in Less
  <2>1. \A i, j \in Nat : <<j, i>> \in Nat \X Nat /\ <<j, i>>[1] = j /\ <<j, i>>[2] = i
    OBVIOUS
  <2>2. QED
    BY <2>1
<1> HIDE DEF Less
<1>5. PICK i \in P : \A j \in P : ~(<<j, i>> \in Less)
  BY <1>3
<1>6. ASSUME NEW j \in P  PROVE i <= j
  <2>1. i \in Nat /\ j \in Nat
    BY <1>2
  <2>2. ~(j < i)
    BY <1>4, <1>5, <2>1, Zenon
  <2>3. QED
    BY <2>1, <2>2
<1>7. QED
  BY <1>6

\* Two different addresses have a first bit where they differ.
LEMMA FirstDifferenceExists ==
  ASSUME NEW a \in BitAddress, NEW b \in BitAddress, a # b
  PROVE  /\ FirstDifference(a, b) \in 1..Bits
         /\ a[FirstDifference(a, b)] # b[FirstDifference(a, b)]
         /\ \A j \in 1..(FirstDifference(a, b) - 1) : a[j] = b[j]
<1> DEFINE P == {i \in 1..Bits : a[i] # b[i]}
<1>1. P # {}
  <2>1. /\ a = [i \in 1..Bits |-> a[i]]
        /\ b = [i \in 1..Bits |-> b[i]]
    BY DEF BitAddress
  <2>2. QED
    BY <2>1
<1>2. PICK i \in P : \A j \in P : i <= j
  BY <1>1, LeastPosition
<1>3. i \in 1..Bits /\ a[i] # b[i] /\ \A j \in 1..(i - 1) : a[j] = b[j]
  BY <1>2, BitsAssumption
<1>4. QED
  BY <1>3 DEF FirstDifference

\* Distance to a target orders the addresses strictly and totally: no two
\* addresses are equally far from it.
THEOREM XorOrder ==
  \A t \in BitAddress :
    /\ \A a, b \in BitAddress : XorCloser(a, b, t) \in BOOLEAN
    /\ \A a \in BitAddress : ~XorCloser(a, a, t)
    /\ \A a, b \in BitAddress : a # b => XorCloser(a, b, t) \/ XorCloser(b, a, t)
    /\ \A a, b, c \in BitAddress :
         XorCloser(a, b, t) /\ XorCloser(b, c, t) => XorCloser(a, c, t)
<1> SUFFICES ASSUME NEW t \in BitAddress
             PROVE  /\ \A a, b \in BitAddress : XorCloser(a, b, t) \in BOOLEAN
                    /\ \A a \in BitAddress : ~XorCloser(a, a, t)
                    /\ \A a, b \in BitAddress :
                         a # b => XorCloser(a, b, t) \/ XorCloser(b, a, t)
                    /\ \A a, b, c \in BitAddress :
                         XorCloser(a, b, t) /\ XorCloser(b, c, t) => XorCloser(a, c, t)
  OBVIOUS
<1>1. \A a, b \in BitAddress : XorCloser(a, b, t) \in BOOLEAN
  BY DEF XorCloser
<1>2. \A a \in BitAddress : ~XorCloser(a, a, t)
  BY DEF XorCloser
<1>3. ASSUME NEW a \in BitAddress, NEW b \in BitAddress, a # b
      PROVE  XorCloser(a, b, t) \/ XorCloser(b, a, t)
  <2> DEFINE i == FirstDifference(a, b)
  <2>1. i \in 1..Bits /\ a[i] # b[i] /\ \A j \in 1..(i - 1) : a[j] = b[j]
    BY <1>3, FirstDifferenceExists
  <2> HIDE DEF i
  <2>2. a[i] \in {0, 1} /\ b[i] \in {0, 1} /\ t[i] \in {0, 1}
    BY <2>1 DEF BitAddress
  <2>3. QED
    BY <2>1, <2>2 DEF XorCloser
<1>4. ASSUME NEW a \in BitAddress, NEW b \in BitAddress, NEW c \in BitAddress,
             XorCloser(a, b, t), XorCloser(b, c, t)
      PROVE  XorCloser(a, c, t)
  <2>1. PICK i \in 1..Bits : /\ \A j \in 1..(i - 1) : a[j] = b[j]
                             /\ a[i] = t[i] /\ b[i] # t[i]
    BY <1>4 DEF XorCloser
  <2>2. PICK k \in 1..Bits : /\ \A j \in 1..(k - 1) : b[j] = c[j]
                             /\ b[k] = t[k] /\ c[k] # t[k]
    BY <1>4 DEF XorCloser
  <2>3. CASE i < k
    <3>1. c[i] # t[i] /\ \A j \in 1..(i - 1) : a[j] = c[j]
      BY <2>1, <2>2, <2>3, BitsAssumption
    <3>2. QED
      BY <2>1, <3>1 DEF XorCloser
  <2>4. CASE k < i
    <3>1. a[k] = t[k] /\ \A j \in 1..(k - 1) : a[j] = c[j]
      BY <2>1, <2>2, <2>4, BitsAssumption
    <3>2. QED
      BY <2>2, <3>1 DEF XorCloser
  <2>5. QED
    BY <2>1, <2>2, <2>3, <2>4, BitsAssumption
<1>5. QED
  BY <1>1, <1>2, <1>3, <1>4

\* Every address other than our own falls in one of Bits buckets, and a
\* closer address in the same bucket or in a nearer one.
THEOREM XorBuckets ==
  \A t \in BitAddress :
    /\ \A a \in BitAddress \ {t} : XorCommonLeadingBits(t, a) \in 0..(Bits - 1)
    /\ \A a, b \in BitAddress \ {t} :
         XorCloser(a, b, t) => XorCommonLeadingBits(t, b) <= XorCommonLeadingBits(t, a)
<1> SUFFICES ASSUME NEW t \in BitAddress
             PROVE  /\ \A a \in BitAddress \ {t} : XorCommonLeadingBits(t, a) \in 0..(Bits - 1)
                    /\ \A a, b \in BitAddress \ {t} : XorCloser(a, b, t) =>
                         XorCommonLeadingBits(t, b) <= XorCommonLeadingBits(t, a)
  OBVIOUS
<1>1. ASSUME NEW a \in BitAddress \ {t}
      PROVE  XorCommonLeadingBits(t, a) \in 0..(Bits - 1)
  BY FirstDifferenceExists, BitsAssumption DEF XorCommonLeadingBits
<1>2. ASSUME NEW a \in BitAddress \ {t}, NEW b \in BitAddress \ {t}, XorCloser(a, b, t)
      PROVE  XorCommonLeadingBits(t, b) <= XorCommonLeadingBits(t, a)
  <2> DEFINE m == FirstDifference(t, a)
             n == FirstDifference(t, b)
  <2>1. m \in 1..Bits /\ t[m] # a[m] /\ \A j \in 1..(m - 1) : t[j] = a[j]
    BY FirstDifferenceExists
  <2>2. n \in 1..Bits /\ t[n] # b[n] /\ \A j \in 1..(n - 1) : t[j] = b[j]
    BY FirstDifferenceExists
  <2>3. XorCommonLeadingBits(t, a) = m - 1 /\ XorCommonLeadingBits(t, b) = n - 1
    BY DEF XorCommonLeadingBits
  <2> HIDE DEF m, n
  <2>4. PICK i \in 1..Bits : /\ \A j \in 1..(i - 1) : a[j] = b[j]
                             /\ a[i] = t[i] /\ b[i] # t[i]
    BY <1>2 DEF XorCloser
  <2>5. n <= i
    BY <2>2, <2>4, BitsAssumption
  <2>6. n <= m
    BY <2>1, <2>2, <2>4, <2>5, BitsAssumption
  <2>7. QED
    BY <2>1, <2>2, <2>3, <2>6, BitsAssumption
<1>3. QED
  BY <1>1, <1>2

-----------------------------------------------------------------------------
(***************************************************************************)
(* Order and positions.                                                    *)
(***************************************************************************)

\* Distance to our_id_ is a strict total order.
LEMMA CloserOrder ==
  /\ \A a \in Address : ~Closer(a, a)
  /\ \A a, b \in Address : a # b => Closer(a, b) \/ Closer(b, a)
  /\ \A a, b, c \in Address : Closer(a, b) /\ Closer(b, c) => Closer(a, c)
  BY DistanceAssumption, NameAssumption DEF Closer

\* Any set of contacts is finite, and so is the part of it closer than a.
LEMMA FiniteContacts ==
  ASSUME NEW S \in SUBSET Address
  PROVE  /\ IsFiniteSet(S)
         /\ Cardinality(S) \in Nat
         /\ \A a : /\ IsFiniteSet({b \in S : Closer(b, a)})
                   /\ Index(S, a) \in Nat
<1>1. IsFiniteSet(S)
  BY NameAssumption, FS_Subset
<1>2. Cardinality(S) \in Nat
  BY <1>1, FS_CardinalityType
<1>3. ASSUME NEW a
      PROVE  IsFiniteSet({b \in S : Closer(b, a)}) /\ Index(S, a) \in Nat
  <2>1. {b \in S : Closer(b, a)} \in SUBSET S
    OBVIOUS
  <2>2. IsFiniteSet({b \in S : Closer(b, a)})
    BY <1>1, <2>1, FS_Subset
  <2>3. QED
    BY <2>2, FS_CardinalityType DEF Index
<1>4. QED
  BY <1>1, <1>2, <1>3

\* More contacts never lower a position.
LEMMA IndexMonotone ==
  ASSUME NEW T \in SUBSET Address, NEW S \in SUBSET T, NEW a
  PROVE  Index(S, a) <= Index(T, a)
<1>1. {b \in S : Closer(b, a)} \in SUBSET {b \in T : Closer(b, a)}
  OBVIOUS
<1>2. IsFiniteSet({b \in T : Closer(b, a)})
  BY FiniteContacts
<1>3. QED
  BY <1>1, <1>2, FS_Subset DEF Index

\* A contact of the table that is closer has a smaller position.
LEMMA IndexStrict ==
  ASSUME NEW S \in SUBSET Address, NEW a \in S, NEW b \in Address, Closer(a, b)
  PROVE  Index(S, a) < Index(S, b)
<1> DEFINE A == {c \in S : Closer(c, a)}
           B == {c \in S : Closer(c, b)}
<1>1. A \in SUBSET B /\ a \in B /\ a \notin A
  BY CloserOrder
<1>2. IsFiniteSet(B) /\ IsFiniteSet(A)
  BY FiniteContacts
<1>3. Cardinality(A) <= Cardinality(B) /\ Cardinality(A) # Cardinality(B)
  BY <1>1, <1>2, FS_Subset
<1>4. Cardinality(A) \in Nat /\ Cardinality(B) \in Nat
  BY <1>2, FS_CardinalityType
<1>5. QED
  BY <1>3, <1>4 DEF Index

\* Positions of contacts of the table are below its size.
LEMMA IndexBelowSize ==
  ASSUME NEW S \in SUBSET Address, NEW a \in S
  PROVE  Index(S, a) \in 0..(Cardinality(S) - 1)
<1> DEFINE A == {c \in S : Closer(c, a)}
<1>1. A \in SUBSET S /\ a \notin A
  BY CloserOrder
<1>2. IsFiniteSet(S) /\ Cardinality(S) \in Nat /\ Cardinality(A) \in Nat
  BY FiniteContacts DEF Index
<1>3. Cardinality(A) <= Cardinality(S) /\ Cardinality(A) # Cardinality(S)
  BY <1>1, <1>2, FS_Subset
<1>4. QED
  BY <1>2, <1>3 DEF Index

\* Every position below the size is taken: nodes_.at(i) is a contact.
LEMMA AtIndex ==
  ASSUME NEW S \in SUBSET Address, NEW i \in 0..(Cardinality(S) - 1)
  PROVE  At(S, i) \in S /\ Index(S, At(S, i)) = i
<1> DEFINE n == Cardinality(S)
           f == [a \in S |-> Index(S, a)]
<1>1. n \in Nat /\ IsFiniteSet(S)
  BY FiniteContacts
<1>2. f \in [S -> 0..(n - 1)]
  BY IndexBelowSize
<1>3. ASSUME NEW a \in S, NEW b \in S, f[a] = f[b]
      PROVE  a = b
  <2>1. ~Closer(a, b) /\ ~Closer(b, a)
    BY <1>2, <1>3, IndexStrict
  <2>2. QED
    BY <2>1, CloserOrder
<1>4. f \in Injection(S, 0..(n - 1))
  BY <1>2, <1>3, Fun_IsInj
<1>5. IsFiniteSet(0..(n - 1)) /\ Cardinality(0..(n - 1)) = n
  BY <1>1, FS_Interval
<1>6. f \in Surjection(S, 0..(n - 1))
  BY <1>4, <1>5, FS_Injection
<1>7. ASSUME NEW g \in Surjection(S, 0..(n - 1))
      PROVE  \E a \in S : g[a] = i
  BY DEF Surjection
<1>8. \E a \in S : Index(S, a) = i
  BY <1>6, <1>7
<1>9. QED
  BY <1>8 DEF At

\* Positions order the contacts.
LEMMA IndexOrder ==
  ASSUME NEW S \in SUBSET Address, NEW a \in S, NEW b \in S
  PROVE  /\ Index(S, a) < Index(S, b) => Closer(a, b)
         /\ Index(S, a) = Index(S, b) => a = b
<1>1. Index(S, a) \in Nat /\ Index(S, b) \in Nat
  BY FiniteContacts
<1>2. a \in Address /\ b \in Address
  OBVIOUS
<1>3. Closer(b, a) => Index(S, b) < Index(S, a)
  BY IndexStrict
<1>4. Closer(a, b) => Index(S, a) < Index(S, b)
  BY IndexStrict
<1>5. QED
  BY <1>1, <1>2, <1>3, <1>4, CloserOrder

\* A non-empty set of contacts has a furthest one.
LEMMA FurthestExists ==
  ASSUME NEW T \in SUBSET Address, T # {}
  PROVE  \E a \in T : \A b \in T \ {a} : Closer(b, a)
<1> DEFINE n == Cardinality(T)
           a == At(T, n - 1)
<1>1. n \in Nat /\ n # 0
  BY FiniteContacts, FS_EmptySet
<1>2. a \in T /\ Index(T, a) = n - 1
  BY <1>1, AtIndex
<1>3. ASSUME NEW b \in T \ {a}
      PROVE  Closer(b, a)
  <2>1. Index(T, b) \in 0..(n - 1)
    BY IndexBelowSize
  <2>2. Closer(a, b) => Index(T, a) < Index(T, b)
    BY <1>2, IndexStrict
  <2>3. ~Closer(a, b)
    BY <1>1, <1>2, <2>1, <2>2
  <2>4. QED
    BY <1>2, <2>3, CloserOrder
<1>4. QED
  BY <1>2, <1>3

-----------------------------------------------------------------------------
(***************************************************************************)
(* The removal candidate.                                                  *)
(***************************************************************************)

\* FindCandidateForRemoval returns end(), or a contact that lies outside the
\* close group and shares its bucket with another contact of the table: the
\* base() of the reverse iterator never steps out of the bucket it found.
LEMMA CandidateFacts ==
  ASSUME NEW S \in SUBSET (Address \ {our_id_}),
         FindCandidateForRemoval(S) # NoNode \/ OverfullFrom(S) # {}
  PROVE  LET c == FindCandidateForRemoval(S)
         IN  /\ c \in S
             /\ Index(S, c) >= GroupSize
             /\ \E f \in S \ {c} : BucketIndex(f) = BucketIndex(c)
             /\ \E f \in OverfullFrom(S) : BucketIndex(f) = BucketIndex(c)
<1> DEFINE found == CHOOSE a \in OverfullFrom(S) :
                      \A b \in OverfullFrom(S) \ {a} : Closer(b, a)
           k == Index(S, found)
           c == At(S, k + 1)
           Same == {b \in S : BucketIndex(b) = BucketIndex(found) /\ ~Closer(b, found)}
<1>1. OverfullFrom(S) # {} /\ FindCandidateForRemoval(S) = c
  BY DEF FindCandidateForRemoval
<1>2. OverfullFrom(S) \in SUBSET S
  BY DEF OverfullFrom
<1>3. found \in OverfullFrom(S)
  BY <1>1, <1>2, FurthestExists
<1>4. found \in S /\ k \in Nat /\ k >= GroupSize /\ Cardinality(Same) > BucketSize
  <2> HIDE DEF found
  <2>1. found \in S /\ ~(Index(S, found) < GroupSize) /\ Cardinality(Same) > BucketSize
    BY <1>3 DEF OverfullFrom, OurCloseGroup
  <2>2. S \in SUBSET Address
    OBVIOUS
  <2>3. Index(S, found) \in Nat
    BY <2>2, FiniteContacts
  <2>4. QED
    BY <2>1, <2>3, SizeAssumption
<1>5. PICK b \in Same : b # found
  <2>0. Same \in SUBSET S /\ IsFiniteSet(S)
    BY FiniteContacts
  <2>1. IsFiniteSet(Same)
    BY <2>0, FS_Subset
  <2>2. CASE Same \in SUBSET {found}
    <3>0. IsFiniteSet({found}) /\ Cardinality({found}) = 1
      BY FS_Singleton
    <3>1. Cardinality(Same) <= 1
      BY <2>2, <3>0, FS_Subset
    <3>2. Cardinality(Same) \in Nat
      BY <2>1, FS_CardinalityType
    <3>3. QED
      BY <3>1, <3>2, <1>4, SizeAssumption
  <2>3. QED
    BY <2>2
<1>6. Closer(found, b)
  BY <1>4, <1>5, CloserOrder
<1>7. k < Index(S, b) /\ Index(S, b) \in 0..(Cardinality(S) - 1)
  BY <1>4, <1>5, <1>6, IndexStrict, IndexBelowSize
<1>8. k + 1 \in 0..(Cardinality(S) - 1)
  BY <1>4, <1>7, FiniteContacts
<1>9. c \in S /\ Index(S, c) = k + 1
  BY <1>8, AtIndex
<1>10. Closer(found, c)
  BY <1>4, <1>9, IndexOrder
<1>11. c = b \/ Closer(c, b)
  BY <1>4, <1>5, <1>7, <1>9, IndexOrder
<1>12. BucketIndex(found) = BucketIndex(c)
  <2>1. BucketIndex(c) <= BucketIndex(found)
    BY <1>4, <1>9, <1>10, BucketAssumption DEF BucketIndex, Closer
  <2>2. BucketIndex(b) <= BucketIndex(c)
    BY <1>5, <1>9, <1>11, BucketAssumption DEF BucketIndex, Closer
  <2>3. BucketIndex(b) = BucketIndex(found)
    BY <1>5
  <2>4. BucketIndex(c) \in Int /\ BucketIndex(found) \in Int
    BY <1>4, <1>9, BucketAssumption DEF BucketIndex
  <2>5. QED
    BY <2>1, <2>2, <2>3, <2>4
<1>13. found # c
  BY <1>4, <1>10, CloserOrder
<1>14. Index(S, c) >= GroupSize
  BY <1>4, <1>9, SizeAssumption
<1> HIDE DEF found, c
<1>15. \E f \in S \ {c} : BucketIndex(f) = BucketIndex(c)
  BY <1>4, <1>12, <1>13
<1>16. \E f \in OverfullFrom(S) : BucketIndex(f) = BucketIndex(c)
  BY <1>3, <1>12
<1>17. QED
  BY <1>1, <1>9, <1>14, <1>15, <1>16

\* Removing a contact from outside the close group leaves every address that
\* had GroupSize closer contacts with GroupSize closer contacts.
LEMMA EvictionKeepsRank ==
  ASSUME NEW S \in SUBSET Address, NEW c \in S, Index(S, c) >= GroupSize,
         NEW x \in Address, x = c \/ Index(S, x) >= GroupSize
  PROVE  Index(S \ {c}, x) >= GroupSize
<1> DEFINE R == S \ {c}
           Before(T, a) == {b \in T : Closer(b, a)}
<1>1. Index(S, c) \in Nat /\ Index(S, x) \in Nat /\ Index(R, x) \in Nat
  BY FiniteContacts
<1>2. CASE Closer(c, x) \/ x = c
  <2>1. Before(S, c) \in SUBSET Before(R, x)
    BY <1>2, CloserOrder
  <2>2. IsFiniteSet(Before(R, x))
    BY FiniteContacts
  <2>3. Cardinality(Before(S, c)) <= Cardinality(Before(R, x))
    BY <2>1, <2>2, FS_Subset
  <2>4. Index(S, c) <= Index(R, x)
    BY <2>3 DEF Index
  <2>5. QED
    BY <1>1, <2>4, SizeAssumption
<1>3. CASE ~Closer(c, x) /\ x # c
  <2>1. Before(R, x) = Before(S, x)
    BY <1>3
  <2>2. QED
    BY <1>3, <2>1 DEF Index
<1>4. QED
  BY <1>2, <1>3

-----------------------------------------------------------------------------
(***************************************************************************)
(* What AddNode does to a table, whatever branch it takes.                 *)
(***************************************************************************)

\* The contacts left are those the return value tells.
AccountsFor(S, id, r) ==
  r.contacts = (IF r.added THEN S \union {id} ELSE S) \ {r.dropped}

\* No bucket of S is empty in T.
KeepsBuckets(S, T) == \A a \in S : \E b \in T : BucketIndex(b) = BucketIndex(a)

\* Who is left out has GroupSize closer contacts in the table.
KeepsRank(S, id, T) ==
  \A x \in Address \ T :
    x \in S \union {id} \/ Index(S, x) >= GroupSize => Index(T, x) >= GroupSize

\* AddNode on any table, for any contact other than ourself: it reports what
\* it does, keeps every bucket it found occupied, leaves out only contacts
\* with GroupSize closer ones, and adds a new contact exactly when CheckNode
\* decides for it.
LEMMA AddNodeFacts ==
  ASSUME NEW S \in SUBSET (Address \ {our_id_}), NEW id \in Address \ {our_id_}
  PROVE  LET r == AddNodeOutcome(S, id)
         IN  /\ r.contacts \in SUBSET (S \union {id})
             /\ r.added \in BOOLEAN
             /\ ~r.added => r.contacts = S
             /\ id \in S => ~r.added
             /\ id \notin S => (r.added <=> CheckNodeDecision(S, id))
             /\ AccountsFor(S, id, r)
             /\ KeepsBuckets(S, r.contacts)
             /\ KeepsRank(S, id, r.contacts)
<1> DEFINE r == AddNodeOutcome(S, id)
           pushed == S \union {id}
           sacrifice == FindCandidateForRemoval(pushed)
           removal_candidate == FindCandidateForRemoval(S)
<1>1. /\ S \in SUBSET Address /\ pushed \in SUBSET Address
      /\ pushed \in SUBSET (Address \ {our_id_})
      /\ NoNode \notin pushed /\ id \in Address
  BY NameAssumption
<1>2. \A x \in Address : /\ Index(S, x) \in Nat /\ Index(pushed, x) \in Nat
                         /\ Index(S, x) <= Index(pushed, x)
  BY <1>1, FiniteContacts, IndexMonotone
<1>3. Cardinality(S) \in Nat
  BY <1>1, FiniteContacts
<1>4. CASE HaveNode(S, id)
  <2>1. r = Outcome(S, FALSE, NoNode)
    BY <1>4 DEF AddNodeOutcome
  <2>2. id \in S /\ NoNode \notin S
    BY <1>1, <1>4 DEF HaveNode
  <2>3. KeepsBuckets(S, S) /\ KeepsRank(S, id, S)
    BY <2>2 DEF KeepsBuckets, KeepsRank
  <2>4. QED
    BY <2>1, <2>2, <2>3 DEF Outcome, AccountsFor
<1>5. CASE ~HaveNode(S, id) /\ Cardinality(S) < OptimalSize
  <2>1. r = Outcome(pushed, TRUE, NoNode)
    BY <1>5 DEF AddNodeOutcome
  <2>2. id \notin S /\ CheckNodeDecision(S, id)
    BY <1>5 DEF HaveNode, CheckNodeDecision
  <2>3. KeepsBuckets(S, pushed)
    BY DEF KeepsBuckets
  <2>4. KeepsRank(S, id, pushed)
    BY <1>2, SizeAssumption DEF KeepsRank
  <2>5. QED
    BY <1>1, <2>1, <2>2, <2>3, <2>4 DEF Outcome, AccountsFor
<1>6. CASE /\ ~HaveNode(S, id) /\ ~(Cardinality(S) < OptimalSize)
           /\ Closer(id, At(S, GroupSize))
  <2>1. r = Outcome(pushed \ {sacrifice}, TRUE, sacrifice)
    BY <1>6 DEF AddNodeOutcome
  <2>2. id \notin S /\ CheckNodeDecision(S, id)
    BY <1>6 DEF HaveNode, CheckNodeDecision
  <2>3. KeepsBuckets(S, pushed \ {sacrifice})
    BY <1>1, CandidateFacts DEF KeepsBuckets
  <2>4. KeepsRank(S, id, pushed \ {sacrifice})
    <3>1. CASE sacrifice = NoNode
      BY <1>1, <1>2, <3>1, SizeAssumption DEF KeepsRank
    <3>2. CASE sacrifice # NoNode
      <4>1. sacrifice \in pushed /\ Index(pushed, sacrifice) >= GroupSize
        BY <1>1, <3>2, CandidateFacts
      <4>2. ASSUME NEW x \in Address \ (pushed \ {sacrifice}),
                   x \in S \union {id} \/ Index(S, x) >= GroupSize
            PROVE  x = sacrifice \/ Index(pushed, x) >= GroupSize
        BY <1>2, <4>2, SizeAssumption
      <4>3. QED
        BY <1>1, <4>1, <4>2, EvictionKeepsRank DEF KeepsRank
    <3>3. QED
      BY <3>1, <3>2
  <2>5. QED
    BY <2>1, <2>2, <2>3, <2>4 DEF Outcome, AccountsFor
<1>7. CASE /\ ~HaveNode(S, id) /\ ~(Cardinality(S) < OptimalSize)
           /\ ~Closer(id, At(S, GroupSize))
           /\ NewNodeIsBetterThanExisting(id, removal_candidate)
  <2> DEFINE kept == S \ {removal_candidate}
  <2>1. r = Outcome(kept \union {id}, TRUE, removal_candidate)
    BY <1>7 DEF AddNodeOutcome
  <2>2. id \notin S /\ CheckNodeDecision(S, id)
    BY <1>7 DEF HaveNode, CheckNodeDecision
  <2>3. /\ removal_candidate \in S /\ Index(S, removal_candidate) >= GroupSize
        /\ \E f \in kept : BucketIndex(f) = BucketIndex(removal_candidate)
    BY <1>7, CandidateFacts DEF NewNodeIsBetterThanExisting
  <2>4. KeepsBuckets(S, kept \union {id})
    BY <2>3 DEF KeepsBuckets
  <2>5. KeepsRank(S, id, kept \union {id})
    <3>1. ASSUME NEW x \in Address \ (kept \union {id}),
                 x \in S \union {id} \/ Index(S, x) >= GroupSize
          PROVE  Index(kept \union {id}, x) >= GroupSize
      <4>1. x = removal_candidate \/ Index(S, x) >= GroupSize
        BY <3>1
      <4>2. Index(kept, x) >= GroupSize
        BY <1>1, <2>3, <4>1, EvictionKeepsRank
      <4>3. Index(kept, x) <= Index(kept \union {id}, x)
        BY <1>1, IndexMonotone
      <4>4. Index(kept, x) \in Nat /\ Index(kept \union {id}, x) \in Nat
        BY <1>1, FiniteContacts
      <4>5. QED
        BY <4>2, <4>3, <4>4, SizeAssumption
    <3>2. QED
      BY <3>1 DEF KeepsRank
  <2>6. QED
    BY <2>1, <2>2, <2>3, <2>4, <2>5 DEF Outcome, AccountsFor
<1>8. CASE /\ ~HaveNode(S, id) /\ ~(Cardinality(S) < OptimalSize)
           /\ ~Closer(id, At(S, GroupSize))
           /\ ~NewNodeIsBetterThanExisting(id, removal_candidate)
  <2>1. r = Outcome(S, FALSE, NoNode)
    BY <1>8 DEF AddNodeOutcome
  <2>2. id \notin S /\ ~CheckNodeDecision(S, id)
    BY <1>8 DEF HaveNode, CheckNodeDecision
  <2>3. KeepsBuckets(S, S)
    BY DEF KeepsBuckets
  <2>4. Index(S, id) >= GroupSize
    <3> DEFINE m == At(S, GroupSize)
    <3>1. m \in S /\ Index(S, m) = GroupSize
      BY <1>1, <1>3, <1>8, SizeAssumption, AtIndex
    <3>2. Closer(m, id)
      BY <1>1, <1>8, <2>2, <3>1, CloserOrder
    <3>3. Index(S, m) < Index(S, id)
      BY <1>1, <3>1, <3>2, IndexStrict
    <3>4. QED
      BY <1>1, <1>2, <3>1, <3>3, SizeAssumption
  <2>5. KeepsRank(S, id, S)
    BY <2>4 DEF KeepsRank
  <2>6. QED
    BY <1>1, <2>1, <2>2, <2>3, <2>5 DEF Outcome, AccountsFor
<1>9. QED
  BY <1>4, <1>5, <1>6, <1>7, <1>8

-----------------------------------------------------------------------------
(***************************************************************************)
(* Invariants of the table.                                                *)
(***************************************************************************)

\* The calls threads make have their type.
LEMMA CallTypes ==
  /\ Idle \in CallType
  /\ \A id \in Address : \A op \in {"AddNode", "DropNode", "CheckNode"} :
       Calling(op, id) \in CallType
  /\ \A id \in Address, ok \in BOOLEAN : Checked(id, ok) \in CallType
  BY DEF Idle, Calling, Checked, CallType

\* A thread that changes its call leaves the calls of the others alone.
LEMMA CallUpdate ==
  ASSUME TypeOK, NEW t \in Thread, NEW c \in CallType, call' = [call EXCEPT ![t] = c]
  PROVE  /\ call' \in [Thread -> CallType]
         /\ call'[t] = c
         /\ \A u \in Thread \ {t} : call'[u] = call[u]
  BY DEF TypeOK

\* The part of TypeOK about mutex_ and calls.
CallsOK ==
  \A t \in Thread :
    /\ call[t].op \in {"AddNode", "DropNode"} <=> mutex_ = t
    /\ call[t].op # "Idle" => call[t].id \in Address
    /\ call[t].op \in {"AddNode", "CheckNode"} => call[t].id # our_id_

\* Types, "never ourself", and mutual exclusion of the critical sections.
THEOREM TypeCorrect == Spec => []TypeOK
<1>1. Init => TypeOK
  BY NameAssumption, CallTypes DEF Init, TypeOK, Idle
<1>2. TypeOK /\ [Next]_vars => TypeOK'
  <2> SUFFICES ASSUME TypeOK, [Next]_vars
               PROVE  TypeOK'
    OBVIOUS
  <2>0. CallsOK
    BY DEF TypeOK, CallsOK
  <2>1. ASSUME NEW t \in Thread, NEW id \in Address, NEW valid_key \in BOOLEAN,
               AddNodeEnter(t, id, valid_key)
        PROVE  TypeOK'
    <3>1. answers' \in [Thread -> SUBSET BOOLEAN] /\ UNCHANGED <<nodes_, offered, reported>>
      BY <2>1 DEF TypeOK, AddNodeEnter
    <3>2. CASE id = our_id_ \/ ~valid_key
      <4>1. call' = [call EXCEPT ![t] = Idle] /\ mutex_' = mutex_ /\ Free(t)
        BY <2>1, <3>2 DEF AddNodeEnter
      <4>2. call' \in [Thread -> CallType] /\ CallsOK'
        BY <2>0, <4>1, CallUpdate, CallTypes DEF CallsOK, Idle, Free
      <4>3. QED
        BY <3>1, <4>1, <4>2 DEF TypeOK, CallsOK
    <3>3. CASE ~(id = our_id_ \/ ~valid_key)
      <4>1. /\ call' = [call EXCEPT ![t] = Calling("AddNode", id)]
            /\ mutex_ = NoThread /\ mutex_' = t /\ Free(t)
        BY <2>1, <3>3 DEF AddNodeEnter
      <4>2. call' \in [Thread -> CallType] /\ CallsOK'
        BY <2>0, <3>3, <4>1, CallUpdate, CallTypes, NameAssumption DEF CallsOK, Calling, Free
      <4>3. QED
        BY <3>1, <4>1, <4>2 DEF TypeOK, CallsOK
    <3>4. QED
      BY <3>2, <3>3
  <2>2. ASSUME NEW t \in Thread, AddNode(t)
        PROVE  TypeOK'
    <3>1. /\ nodes_ \in SUBSET (Address \ {our_id_})
          /\ call[t].id \in Address \ {our_id_}
      BY <2>2 DEF TypeOK, AddNode
    <3>2. AddNodeOutcome(nodes_, call[t].id).contacts \in SUBSET (nodes_ \union {call[t].id})
      BY <3>1, AddNodeFacts
    <3>3. answers' \in [Thread -> SUBSET BOOLEAN]
      BY <2>2 DEF TypeOK, AddNode, ObserveAnswers, WouldAdd
    <3>4. /\ nodes_' \subseteq Address \ {our_id_}
          /\ offered' \subseteq Address \ {our_id_}
          /\ reported' \subseteq Address \ {our_id_}
      BY <2>2, <3>1, <3>2 DEF TypeOK, AddNode
    <3>5. mutex_' = NoThread /\ call' = [call EXCEPT ![t] = Idle] /\ call[t].op = "AddNode"
      BY <2>2 DEF AddNode
    <3>6. call' \in [Thread -> CallType] /\ CallsOK'
      BY <2>0, <3>5, CallUpdate, CallTypes, NameAssumption DEF CallsOK, Idle
    <3>7. QED
      BY <3>3, <3>4, <3>5, <3>6 DEF TypeOK, CallsOK
  <2>3. ASSUME NEW t \in Thread, NEW id \in Address, DropNodeEnter(t, id)
        PROVE  TypeOK'
    <3>1. /\ call' = [call EXCEPT ![t] = Calling("DropNode", id)]
          /\ mutex_ = NoThread /\ mutex_' = t /\ Free(t)
      BY <2>3 DEF DropNodeEnter
    <3>2. call' \in [Thread -> CallType] /\ CallsOK'
      BY <2>0, <3>1, CallUpdate, CallTypes, NameAssumption DEF CallsOK, Calling, Free
    <3>3. QED
      BY <2>3, <3>1, <3>2 DEF TypeOK, CallsOK, DropNodeEnter
  <2>4. ASSUME NEW t \in Thread, DropNode(t)
        PROVE  TypeOK'
    <3>1. answers' \in [Thread -> SUBSET BOOLEAN]
      BY <2>4 DEF TypeOK, DropNode, ObserveAnswers, WouldAdd
    <3>2. mutex_' = NoThread /\ call' = [call EXCEPT ![t] = Idle] /\ call[t].op = "DropNode"
      BY <2>4 DEF DropNode
    <3>3. call' \in [Thread -> CallType] /\ CallsOK'
      BY <2>0, <3>2, CallUpdate, CallTypes, NameAssumption DEF CallsOK, Idle
    <3>4. QED
      BY <2>4, <3>1, <3>2, <3>3 DEF TypeOK, CallsOK, DropNode
  <2>5. ASSUME NEW t \in Thread, NEW id \in Address, CheckNodeEnter(t, id)
        PROVE  TypeOK'
    <3>1. {WouldAdd(S, id) : S \in ContentsInFlux} \in SUBSET BOOLEAN
      BY DEF WouldAdd
    <3>2. \/ call' = [call EXCEPT ![t] = Checked(id, FALSE)]
          \/ id # our_id_ /\ call' = [call EXCEPT ![t] = Calling("CheckNode", id)]
      <4>1. PICK duplicate \in (IF id = our_id_ THEN {TRUE} ELSE UnlockedHaveNode(id)) :
              call' = [call EXCEPT ![t] = IF duplicate THEN Checked(id, FALSE)
                                                       ELSE Calling("CheckNode", id)]
        BY <2>5 DEF CheckNodeEnter
      <4>2. CASE id = our_id_
        BY <4>1, <4>2
      <4>3. CASE id # our_id_
        BY <4>1, <4>3
      <4>4. QED
        BY <4>2, <4>3
    <3>3. /\ \E A \in SUBSET BOOLEAN : answers' = [answers EXCEPT ![t] = A]
          /\ UNCHANGED <<nodes_, mutex_, offered, reported>>
          /\ Free(t)
      BY <2>5, <3>1 DEF CheckNodeEnter
    <3>4. PICK c \in CallType :
            /\ call' = [call EXCEPT ![t] = c] /\ c.id = id
            /\ c.op = "Checked" \/ (c.op = "CheckNode" /\ id # our_id_)
      <4>1. /\ Checked(id, FALSE) \in CallType /\ Checked(id, FALSE).id = id
            /\ Checked(id, FALSE).op = "Checked"
        BY CallTypes DEF Checked
      <4>2. /\ Calling("CheckNode", id) \in CallType /\ Calling("CheckNode", id).id = id
            /\ Calling("CheckNode", id).op = "CheckNode"
        BY CallTypes DEF Calling
      <4>3. QED
        BY <3>2, <4>1, <4>2
    <3>5. call' \in [Thread -> CallType] /\ CallsOK'
      BY <2>0, <3>3, <3>4, CallUpdate, NameAssumption DEF CallsOK, Free
    <3>6. QED
      BY <3>3, <3>5 DEF TypeOK, CallsOK
  <2>6. ASSUME NEW t \in Thread, CheckNode(t)
        PROVE  TypeOK'
    <3>1. CheckNodeDecision(nodes_, call[t].id) \in BOOLEAN
      BY DEF CheckNodeDecision
    <3>2. call[t].id \in Address
      BY <2>6 DEF TypeOK, CheckNode
    <3> DEFINE c == Checked(call[t].id, CheckNodeDecision(nodes_, call[t].id))
    <3>3. /\ c \in CallType /\ c.op = "Checked" /\ c.id = call[t].id
          /\ call' = [call EXCEPT ![t] = c] /\ mutex_' = mutex_ /\ call[t].op = "CheckNode"
      BY <2>6, <3>1, <3>2, CallTypes DEF Checked, CheckNode
    <3> HIDE DEF c
    <3>4. call' \in [Thread -> CallType] /\ CallsOK'
      BY <2>0, <3>2, <3>3, CallUpdate, NameAssumption DEF CallsOK
    <3>5. QED
      BY <2>6, <3>4 DEF TypeOK, CallsOK, CheckNode
  <2>7. CASE UNCHANGED vars
    BY <2>7 DEF TypeOK, vars
  <2>8. QED
    BY <2>1, <2>2, <2>3, <2>4, <2>5, <2>6, <2>7 DEF Next
<1>3. QED
  BY <1>1, <1>2, PTL DEF Spec

\* The strengthening of CloseGroupRetained: whoever was offered and is not
\* in the table has GroupSize closer contacts in it.
LeftOutIsFar ==
  /\ nodes_ \subseteq offered
  /\ \A x \in offered \ nodes_ : Index(nodes_, x) >= GroupSize

\* The table holds the close group of everything it was offered.
THEOREM CloseGroupCorrect == Spec => []CloseGroupRetained
<1>1. Init => LeftOutIsFar
  BY DEF Init, LeftOutIsFar
<1>2. TypeOK /\ LeftOutIsFar /\ [Next]_vars => LeftOutIsFar'
  <2> SUFFICES ASSUME TypeOK, LeftOutIsFar, [Next]_vars
               PROVE  LeftOutIsFar'
    OBVIOUS
  <2>1. ASSUME NEW t \in Thread, AddNode(t)
        PROVE  LeftOutIsFar'
    <3> DEFINE id == call[t].id
               T == AddNodeOutcome(nodes_, id).contacts
    <3>1. /\ nodes_ \in SUBSET (Address \ {our_id_}) /\ id \in Address \ {our_id_}
          /\ offered \in SUBSET Address
      BY <2>1 DEF TypeOK, AddNode
    <3>2. T \in SUBSET (nodes_ \union {id})
      BY <3>1, AddNodeFacts
    <3>3. nodes_' = T /\ offered' = offered \union {id}
      BY <2>1 DEF AddNode
    <3>4. ASSUME NEW x \in offered' \ nodes_'
          PROVE  Index(T, x) >= GroupSize
      <4>1. x \in Address \ T /\ (x \in nodes_ \union {id} \/ Index(nodes_, x) >= GroupSize)
        BY <3>1, <3>3, <3>4 DEF LeftOutIsFar
      <4>2. QED
        BY <3>1, <4>1, AddNodeFacts DEF KeepsRank
    <3>5. \A x \in offered' \ nodes_' : Index(nodes_', x) >= GroupSize
      BY <3>3, <3>4
    <3>6. nodes_' \subseteq offered'
      BY <3>2, <3>3 DEF LeftOutIsFar
    <3>7. QED
      BY <3>5, <3>6 DEF LeftOutIsFar, Index
  <2>2. ASSUME NEW t \in Thread, DropNode(t)
        PROVE  LeftOutIsFar'
    BY <2>2 DEF DropNode, LeftOutIsFar
  <2>3. CASE UNCHANGED <<nodes_, offered>>
    BY <2>3 DEF LeftOutIsFar, Index
  <2>4. QED
    BY <2>1, <2>2, <2>3
       DEF Next, vars, AddNodeEnter, DropNodeEnter, CheckNodeEnter, CheckNode
<1>3. TypeOK /\ LeftOutIsFar => CloseGroupRetained
  <2> SUFFICES ASSUME TypeOK, LeftOutIsFar, NEW x \in OurCloseGroup(offered)
               PROVE  x \in nodes_
    BY DEF CloseGroupRetained
  <2>1. offered \in SUBSET Address /\ nodes_ \in SUBSET offered
    BY DEF TypeOK, LeftOutIsFar
  <2>2. x \in offered /\ Index(offered, x) < GroupSize
    BY DEF OurCloseGroup
  <2>3. Index(nodes_, x) <= Index(offered, x)
    BY <2>1, IndexMonotone
  <2>4. Index(nodes_, x) \in Nat /\ Index(offered, x) \in Nat
    BY <2>1, FiniteContacts
  <2>5. ~(Index(nodes_, x) >= GroupSize)
    BY <2>2, <2>3, <2>4, SizeAssumption
  <2>6. QED
    BY <2>2, <2>5 DEF LeftOutIsFar
<1>4. QED
  BY <1>1, <1>2, <1>3, TypeCorrect, PTL DEF Spec

\* What callers are told adds up to what the table holds.
THEOREM ReturnValuesCorrect == Spec => []ReturnValuesTellContents
<1>1. Init => ReturnValuesTellContents
  BY DEF Init, ReturnValuesTellContents
<1>2. TypeOK /\ ReturnValuesTellContents /\ [Next]_vars => ReturnValuesTellContents'
  <2> SUFFICES ASSUME TypeOK, ReturnValuesTellContents, [Next]_vars
               PROVE  ReturnValuesTellContents'
    OBVIOUS
  <2>1. ASSUME NEW t \in Thread, AddNode(t)
        PROVE  ReturnValuesTellContents'
    <3>1. nodes_ \in SUBSET (Address \ {our_id_}) /\ call[t].id \in Address \ {our_id_}
      BY <2>1 DEF TypeOK, AddNode
    <3>2. AddNodeOutcome(nodes_, call[t].id).contacts =
            (IF AddNodeOutcome(nodes_, call[t].id).added
             THEN nodes_ \union {call[t].id} ELSE nodes_)
            \ {AddNodeOutcome(nodes_, call[t].id).dropped}
      BY <3>1, AddNodeFacts DEF AccountsFor
    <3>3. QED
      BY <2>1, <3>2 DEF AddNode, ReturnValuesTellContents
  <2>2. ASSUME NEW t \in Thread, DropNode(t)
        PROVE  ReturnValuesTellContents'
    BY <2>2 DEF DropNode, ReturnValuesTellContents
  <2>3. CASE UNCHANGED <<nodes_, reported>>
    BY <2>3 DEF ReturnValuesTellContents
  <2>4. QED
    BY <2>1, <2>2, <2>3
       DEF Next, vars, AddNodeEnter, DropNodeEnter, CheckNodeEnter, CheckNode
<1>3. QED
  BY <1>1, <1>2, TypeCorrect, PTL DEF Spec

\* No step of AddNode empties a bucket.
THEOREM BucketsCorrect == Spec => AddNodeKeepsBuckets
<1>1. TypeOK /\ [Next]_vars =>
        [\A t \in Thread : call[t].op = "AddNode" =>
           \A a \in nodes_ : \E b \in nodes_' : BucketIndex(b) = BucketIndex(a)]_nodes_
  <2> SUFFICES ASSUME TypeOK, [Next]_vars, nodes_' # nodes_,
                      NEW t \in Thread, call[t].op = "AddNode"
               PROVE  \A a \in nodes_ : \E b \in nodes_' : BucketIndex(b) = BucketIndex(a)
    OBVIOUS
  <2>1. ASSUME NEW u \in Thread, AddNode(u)
        PROVE  \A a \in nodes_ : \E b \in nodes_' : BucketIndex(b) = BucketIndex(a)
    <3>1. nodes_ \in SUBSET (Address \ {our_id_}) /\ call[u].id \in Address \ {our_id_}
      BY <2>1 DEF TypeOK, AddNode
    <3>2. \A a \in nodes_ : \E b \in AddNodeOutcome(nodes_, call[u].id).contacts :
             BucketIndex(b) = BucketIndex(a)
      BY <3>1, AddNodeFacts DEF KeepsBuckets
    <3>3. QED
      BY <2>1, <3>2 DEF AddNode
  <2>2. ASSUME NEW u \in Thread, DropNode(u)
        PROVE  FALSE
    BY <2>2 DEF DropNode, TypeOK
  <2>3. QED
    BY <2>1, <2>2 DEF Next, vars, AddNodeEnter, DropNodeEnter, CheckNodeEnter, CheckNode
<1>2. QED
  BY <1>1, TypeCorrect, PTL DEF Spec, AddNodeKeepsBuckets

-----------------------------------------------------------------------------
(***************************************************************************)
(* The size of the table.                                                  *)
(***************************************************************************)

\* The contacts outside the close group, and those of them in the bucket of a.
Outside(S) == S \ OurCloseGroup(S)
InBucket(S, a) == {b \in Outside(S) : BucketIndex(b) = BucketIndex(a)}

\* No bucket has more than BucketSize contacts outside the close group.
Spread(S) == \A a \in Outside(S) : Cardinality(InBucket(S, a)) <= BucketSize

LEMMA OutsideFacts ==
  ASSUME NEW S \in SUBSET Address
  PROVE  /\ Outside(S) \in SUBSET S
         /\ \A a \in S : a \in Outside(S) <=> Index(S, a) >= GroupSize
         /\ \A a : /\ InBucket(S, a) \in SUBSET S
                   /\ IsFiniteSet(InBucket(S, a))
                   /\ Cardinality(InBucket(S, a)) \in Nat
<1>1. \A a \in S : Index(S, a) \in Nat
  BY FiniteContacts
<1>2. \A a \in S : a \in Outside(S) <=> Index(S, a) >= GroupSize
  BY <1>1, SizeAssumption DEF Outside, OurCloseGroup
<1>3. ASSUME NEW a
      PROVE  /\ InBucket(S, a) \in SUBSET S
             /\ IsFiniteSet(InBucket(S, a))
             /\ Cardinality(InBucket(S, a)) \in Nat
  <2>1. InBucket(S, a) \in SUBSET S /\ InBucket(S, a) \in SUBSET Address
    BY DEF InBucket, Outside
  <2>2. QED
    BY <2>1, FiniteContacts
<1>4. QED
  BY <1>2, <1>3 DEF Outside

\* What find_if counts when it reaches a contact outside the close group lies
\* outside the close group itself.
LEMMA CountedIsOutside ==
  ASSUME NEW S \in SUBSET Address, NEW a \in Outside(S)
  PROVE  {b \in S : BucketIndex(b) = BucketIndex(a) /\ ~Closer(b, a)} \in SUBSET InBucket(S, a)
<1> SUFFICES ASSUME NEW b \in S, BucketIndex(b) = BucketIndex(a), ~Closer(b, a)
             PROVE  b \in Outside(S)
  BY DEF InBucket
<1>1. a \in S /\ Index(S, a) >= GroupSize
  BY OutsideFacts
<1>2. Index(S, a) \in Nat /\ Index(S, b) \in Nat
  BY FiniteContacts
<1>3. b = a \/ Index(S, a) < Index(S, b)
  BY <1>1, CloserOrder, IndexStrict
<1>4. Index(S, b) >= GroupSize
  BY <1>1, <1>2, <1>3, SizeAssumption
<1>5. QED
  BY <1>4, OutsideFacts

\* A non-empty set of contacts has a closest one.
LEMMA ClosestExists ==
  ASSUME NEW T \in SUBSET Address, T # {}
  PROVE  \E a \in T : \A b \in T : ~Closer(b, a)
<1> DEFINE a == At(T, 0)
<1>1. Cardinality(T) \in Nat /\ Cardinality(T) # 0
  BY FiniteContacts, FS_EmptySet
<1>2. a \in T /\ Index(T, a) = 0
  BY <1>1, AtIndex
<1>3. ASSUME NEW b \in T, Closer(b, a)
      PROVE  FALSE
  <2>1. Index(T, b) \in Nat /\ Index(T, b) < Index(T, a)
    BY <1>2, <1>3, IndexStrict, FiniteContacts
  <2>2. QED
    BY <1>2, <2>1
<1>4. QED
  BY <1>2, <1>3

\* FindCandidateForRemoval finds nothing exactly when no bucket is overfull
\* outside the close group.
LEMMA SpreadHasNoCandidate ==
  ASSUME NEW S \in SUBSET Address
  PROVE  Spread(S) <=> OverfullFrom(S) = {}
<1> DEFINE Counted(a) == {b \in S : BucketIndex(b) = BucketIndex(a) /\ ~Closer(b, a)}
<1>0. OverfullFrom(S) = {a \in Outside(S) : Cardinality(Counted(a)) > BucketSize}
  BY DEF OverfullFrom, Outside
<1>1. ASSUME NEW a \in Outside(S)
      PROVE  /\ Cardinality(Counted(a)) \in Nat
             /\ Cardinality(Counted(a)) <= Cardinality(InBucket(S, a))
  <2>1. Counted(a) \in SUBSET InBucket(S, a)
    BY CountedIsOutside
  <2>2. IsFiniteSet(InBucket(S, a))
    BY OutsideFacts
  <2>3. QED
    BY <2>1, <2>2, FS_Subset, FS_CardinalityType
<1>2. ASSUME Spread(S)
      PROVE  OverfullFrom(S) = {}
  <2>1. ASSUME NEW a \in Outside(S)
        PROVE  ~(Cardinality(Counted(a)) > BucketSize)
    <3>1. Cardinality(InBucket(S, a)) <= BucketSize /\ Cardinality(InBucket(S, a)) \in Nat
      BY <1>2, OutsideFacts DEF Spread
    <3>2. QED
      BY <1>1, <3>1, SizeAssumption
  <2>2. QED
    BY <1>0, <2>1
<1>3. ASSUME OverfullFrom(S) = {}
      PROVE  Spread(S)
  <2> SUFFICES ASSUME NEW a \in Outside(S)
               PROVE  Cardinality(InBucket(S, a)) <= BucketSize
    BY DEF Spread
  <2>1. InBucket(S, a) \in SUBSET Address /\ InBucket(S, a) # {}
    BY OutsideFacts DEF InBucket
  <2>2. PICK c \in InBucket(S, a) : \A b \in InBucket(S, a) : ~Closer(b, c)
    BY <2>1, ClosestExists
  <2>3. c \in Outside(S) /\ InBucket(S, a) \in SUBSET Counted(c)
    BY <2>2, OutsideFacts DEF InBucket
  <2>4. Cardinality(Counted(c)) \in Nat /\ ~(Cardinality(Counted(c)) > BucketSize)
    BY <1>0, <1>1, <1>3, <2>3
  <2>5. IsFiniteSet(Counted(c))
    BY <2>3, CountedIsOutside, OutsideFacts, FS_Subset
  <2>6. Cardinality(InBucket(S, a)) <= Cardinality(Counted(c))
    BY <2>3, <2>5, FS_Subset
  <2>7. Cardinality(InBucket(S, a)) \in Nat
    BY OutsideFacts
  <2>8. QED
    BY <2>4, <2>6, <2>7, SizeAssumption
<1>4. QED
  BY <1>2, <1>3

\* Fewer contacts are spread if more were.
LEMMA SpreadShrinks ==
  ASSUME NEW S \in SUBSET Address, NEW T \in SUBSET S, Spread(S)
  PROVE  Spread(T)
<1>1. Outside(T) \in SUBSET Outside(S)
  <2> SUFFICES ASSUME NEW a \in Outside(T)
               PROVE  a \in Outside(S)
    OBVIOUS
  <2>1. a \in T /\ Index(T, a) >= GroupSize
    BY OutsideFacts
  <2>2. Index(T, a) <= Index(S, a) /\ Index(T, a) \in Nat /\ Index(S, a) \in Nat
    BY IndexMonotone, FiniteContacts
  <2>3. QED
    BY <2>1, <2>2, OutsideFacts, SizeAssumption
<1>2. ASSUME NEW a \in Outside(T)
      PROVE  Cardinality(InBucket(T, a)) <= BucketSize
  <2>1. InBucket(T, a) \in SUBSET InBucket(S, a)
    BY <1>1 DEF InBucket
  <2>2. IsFiniteSet(InBucket(S, a)) /\ Cardinality(InBucket(S, a)) \in Nat
    BY OutsideFacts
  <2>3. Cardinality(InBucket(T, a)) <= Cardinality(InBucket(S, a))
    BY <2>1, <2>2, FS_Subset
  <2>4. Cardinality(InBucket(S, a)) <= BucketSize /\ Cardinality(InBucket(T, a)) \in Nat
    BY <1>1, OutsideFacts DEF Spread
  <2>5. QED
    BY <2>2, <2>3, <2>4, SizeAssumption
<1>3. QED
  BY <1>2 DEF Spread

\* Where the contacts of the table are after another one was pushed.
LEMMA IndexAfterAdd ==
  ASSUME NEW S \in SUBSET Address, NEW id \in Address \ S, NEW a
  PROVE  Index(S \union {id}, a) = Index(S, a) + (IF Closer(id, a) THEN 1 ELSE 0)
<1> DEFINE B == {b \in S : Closer(b, a)}
<1>1. IsFiniteSet(B) /\ Cardinality(B) \in Nat
  BY FiniteContacts, FS_CardinalityType
<1>2. CASE Closer(id, a)
  <2>1. {b \in S \union {id} : Closer(b, a)} = B \union {id} /\ id \notin B
    BY <1>2
  <2>2. QED
    BY <1>1, <1>2, <2>1, FS_AddElement DEF Index
<1>3. CASE ~Closer(id, a)
  <2>1. {b \in S \union {id} : Closer(b, a)} = B
    BY <1>3
  <2>2. QED
    BY <1>1, <1>3, <2>1 DEF Index
<1>4. QED
  BY <1>2, <1>3

\* Pushing one contact puts at most one contact outside the close group that
\* was not there before: the new one, or the one it moved out of the group.
LEMMA OneMoreOutside ==
  ASSUME NEW S \in SUBSET Address, NEW id \in Address \ S,
         NEW x \in Outside(S \union {id}) \ Outside(S),
         NEW y \in Outside(S \union {id}) \ Outside(S)
  PROVE  x = y
<1> DEFINE P == S \union {id}
<1>1. P \in SUBSET Address
  OBVIOUS
<1>2. /\ x \in P /\ Index(P, x) >= GroupSize
      /\ y \in P /\ Index(P, y) >= GroupSize
  BY <1>1, OutsideFacts
<1>3. ASSUME NEW z \in S, Index(P, z) >= GroupSize, z \notin Outside(S)
      PROVE  Index(S, z) = GroupSize - 1 /\ Index(P, z) = GroupSize /\ Closer(id, z)
  <2>1. ~(Index(S, z) >= GroupSize) /\ Index(S, z) \in Nat
    BY <1>3, OutsideFacts, FiniteContacts
  <2>2. Index(P, z) = Index(S, z) + (IF Closer(id, z) THEN 1 ELSE 0)
    BY IndexAfterAdd
  <2>3. QED
    BY <1>3, <2>1, <2>2, SizeAssumption
<1>4. CASE x \in S /\ y \in S
  BY <1>2, <1>3, <1>4, IndexOrder
<1>5. ASSUME NEW z \in S, Index(P, z) >= GroupSize, z \notin Outside(S),
             Index(P, id) >= GroupSize
      PROVE  FALSE
  <2>1. Index(P, z) = GroupSize /\ Closer(id, z)
    BY <1>3, <1>5
  <2>2. Index(P, id) < Index(P, z)
    BY <1>1, <2>1, IndexStrict
  <2>3. Index(P, id) \in Nat
    BY <1>1, FiniteContacts
  <2>4. QED
    BY <1>5, <2>1, <2>2, <2>3, SizeAssumption
<1>6. QED
  BY <1>2, <1>4, <1>5

\* In a spread table the bound holds of every bucket, also of an empty one.
LEMMA SpreadBound ==
  ASSUME NEW S \in SUBSET Address, Spread(S), NEW a
  PROVE  Cardinality(InBucket(S, a)) <= BucketSize
<1>1. CASE InBucket(S, a) = {}
  BY <1>1, FS_EmptySet, SizeAssumption
<1>2. ASSUME NEW b \in InBucket(S, a)
      PROVE  Cardinality(InBucket(S, a)) <= BucketSize
  <2>1. b \in Outside(S) /\ InBucket(S, b) = InBucket(S, a)
    BY <1>2 DEF InBucket
  <2>2. Cardinality(InBucket(S, b)) <= BucketSize
    BY <2>1 DEF Spread
  <2>3. QED
    BY <2>1, <2>2
<1>3. QED
  BY <1>1, <1>2

\* A contact pushed into a spread table makes one bucket overfull at most, and
\* the contact given up for it is of that bucket.
LEMMA SacrificeRestoresSpread ==
  ASSUME NEW S \in SUBSET (Address \ {our_id_}), NEW id \in Address \ {our_id_}, id \notin S,
         Spread(S), FindCandidateForRemoval(S \union {id}) # NoNode
  PROVE  Spread((S \union {id}) \ {FindCandidateForRemoval(S \union {id})})
<1> DEFINE P == S \union {id}
           c == FindCandidateForRemoval(P)
           R == P \ {c}
<1>1. /\ P \in SUBSET (Address \ {our_id_}) /\ P \in SUBSET Address /\ S \in SUBSET Address
      /\ R \in SUBSET P /\ R \in SUBSET Address /\ id \in Address \ S
  OBVIOUS
<1>2. /\ c \in P /\ Index(P, c) >= GroupSize
      /\ \E f \in OverfullFrom(P) : BucketIndex(f) = BucketIndex(c)
  BY <1>1, CandidateFacts
<1>3. c \in Outside(P)
  BY <1>1, <1>2, OutsideFacts
<1>4. PICK f \in OverfullFrom(P) : BucketIndex(f) = BucketIndex(c)
  BY <1>2
<1> DEFINE Counted == {b \in P : BucketIndex(b) = BucketIndex(f) /\ ~Closer(b, f)}
<1> HIDE DEF c
<1>5. f \in Outside(P) /\ Cardinality(Counted) > BucketSize
  BY <1>4 DEF OverfullFrom, Outside
<1>6. InBucket(P, f) = InBucket(P, c)
  BY <1>4 DEF InBucket
<1>7. Counted \in SUBSET InBucket(P, f)
  BY <1>1, <1>5, CountedIsOutside
<1>8. \A a : /\ IsFiniteSet(InBucket(P, a)) /\ Cardinality(InBucket(P, a)) \in Nat
             /\ IsFiniteSet(InBucket(S, a)) /\ Cardinality(InBucket(S, a)) \in Nat
             /\ Cardinality(InBucket(S, a)) <= BucketSize
             /\ IsFiniteSet(InBucket(R, a)) /\ Cardinality(InBucket(R, a)) \in Nat
  BY <1>1, OutsideFacts, SpreadBound
<1>9. Cardinality(InBucket(P, c)) > BucketSize
  <2>1. IsFiniteSet(InBucket(P, f)) /\ Cardinality(InBucket(P, f)) \in Nat
    BY <1>8
  <2>2. Cardinality(Counted) <= Cardinality(InBucket(P, f)) /\ IsFiniteSet(Counted)
    BY <1>7, <2>1, FS_Subset
  <2>3. Cardinality(Counted) \in Nat
    BY <2>2, FS_CardinalityType
  <2>4. QED
    BY <1>5, <1>6, <2>1, <2>2, <2>3, SizeAssumption
<1>10. PICK x \in InBucket(P, c) : x \notin InBucket(S, c)
  <2>1. CASE InBucket(P, c) \in SUBSET InBucket(S, c)
    <3>1. Cardinality(InBucket(P, c)) <= Cardinality(InBucket(S, c))
      BY <1>8, <2>1, FS_Subset
    <3>2. QED
      BY <1>8, <1>9, <3>1, SizeAssumption
  <2>2. QED
    BY <2>1
<1>11. x \in Outside(P) \ Outside(S) /\ BucketIndex(x) = BucketIndex(c)
  BY <1>10 DEF InBucket
<1>12. \A y \in Outside(P) \ Outside(S) : y = x
  BY <1>1, <1>11, OneMoreOutside
<1>13. \A a : InBucket(P, a) \in SUBSET (InBucket(S, a) \union {x})
  BY <1>12 DEF InBucket
<1>14. \A a : InBucket(R, a) \in SUBSET (InBucket(P, a) \ {c})
  <2>1. Outside(R) \in SUBSET (Outside(P) \ {c})
    <3> SUFFICES ASSUME NEW a \in Outside(R)
                 PROVE  a \in Outside(P) \ {c}
      OBVIOUS
    <3>1. a \in R /\ Index(R, a) >= GroupSize
      BY <1>1, OutsideFacts
    <3>2. Index(R, a) <= Index(P, a) /\ Index(R, a) \in Nat /\ Index(P, a) \in Nat
      BY <1>1, IndexMonotone, FiniteContacts
    <3>3. QED
      BY <1>1, <3>1, <3>2, OutsideFacts, SizeAssumption
  <2>2. QED
    BY <2>1 DEF InBucket
<1>15. ASSUME NEW a \in Outside(R)
       PROVE  Cardinality(InBucket(R, a)) <= BucketSize
  <2>1. CASE BucketIndex(a) = BucketIndex(c)
    <3> DEFINE A == InBucket(S, a) \union {x}
    <3>1. c \in InBucket(P, a)
      BY <1>3, <2>1 DEF InBucket
    <3>2. InBucket(R, a) \in SUBSET (A \ {c}) /\ c \in A
      BY <1>13, <1>14, <3>1
    <3>3. IsFiniteSet(A) /\ Cardinality(A) <= Cardinality(InBucket(S, a)) + 1
      <4>1. IsFiniteSet(InBucket(S, a)) /\ Cardinality(InBucket(S, a)) \in Nat
        BY <1>8
      <4>2. /\ IsFiniteSet(A)
            /\ Cardinality(A) = IF x \in InBucket(S, a) THEN Cardinality(InBucket(S, a))
                                                       ELSE Cardinality(InBucket(S, a)) + 1
        BY <4>1, FS_AddElement
      <4>3. QED
        BY <4>1, <4>2
    <3> HIDE DEF A
    <3>4. /\ IsFiniteSet(A \ {c}) /\ Cardinality(A \ {c}) = Cardinality(A) - 1
          /\ Cardinality(A) \in Nat
      <4>1. Cardinality(A) \in Nat
        BY <3>3, FS_CardinalityType
      <4>2. IsFiniteSet(A \ {c}) /\ Cardinality(A \ {c}) = Cardinality(A) - 1
        BY <3>2, <3>3, FS_RemoveElement
      <4>3. QED
        BY <4>1, <4>2
    <3>5. Cardinality(InBucket(R, a)) <= Cardinality(A \ {c})
      BY <3>2, <3>4, FS_Subset
    <3>6. Cardinality(InBucket(S, a)) <= BucketSize /\ Cardinality(InBucket(S, a)) \in Nat
          /\ Cardinality(InBucket(R, a)) \in Nat
      BY <1>8
    <3>7. QED
      BY <3>3, <3>4, <3>5, <3>6, SizeAssumption
  <2>2. CASE BucketIndex(a) # BucketIndex(c)
    <3>1. InBucket(R, a) \in SUBSET InBucket(S, a)
      BY <1>11, <1>13, <1>14, <2>2 DEF InBucket
    <3>2. Cardinality(InBucket(R, a)) <= Cardinality(InBucket(S, a))
      BY <1>8, <3>1, FS_Subset
    <3>3. QED
      BY <1>8, <3>2, SizeAssumption
  <2>3. QED
    BY <2>1, <2>2
<1>16. Spread(R)
  BY <1>15 DEF Spread
<1>17. QED
  BY <1>16 DEF c

\* SizeBounded of a table with contacts S.
SizeOK(S) == Cardinality(S) > OptimalSize => Spread(S)

\* AddNode keeps the size in bounds, whatever branch it takes.
LEMMA AddNodeKeepsSize ==
  ASSUME NEW S \in SUBSET (Address \ {our_id_}), NEW id \in Address \ {our_id_}, SizeOK(S)
  PROVE  SizeOK(AddNodeOutcome(S, id).contacts)
<1> DEFINE r == AddNodeOutcome(S, id)
           pushed == S \union {id}
           sacrifice == FindCandidateForRemoval(pushed)
           removal_candidate == FindCandidateForRemoval(S)
<1>1. /\ S \in SUBSET Address /\ pushed \in SUBSET Address
      /\ pushed \in SUBSET (Address \ {our_id_}) /\ NoNode \notin pushed
  BY NameAssumption
<1>2. Cardinality(S) \in Nat /\ IsFiniteSet(S) /\ Cardinality(pushed) \in Nat
      /\ IsFiniteSet(pushed)
  BY <1>1, FiniteContacts
<1>3. id \notin S => Cardinality(pushed) = Cardinality(S) + 1
  BY <1>2, FS_AddElement
<1>4. CASE r.contacts = S
  BY <1>4
<1>5. CASE ~HaveNode(S, id) /\ Cardinality(S) < OptimalSize
  <2>1. r.contacts = pushed
    BY <1>5 DEF AddNodeOutcome, Outcome
  <2>2. ~(Cardinality(pushed) > OptimalSize)
    BY <1>2, <1>3, <1>5, SizeAssumption DEF HaveNode
  <2>3. QED
    BY <2>1, <2>2 DEF SizeOK
<1>6. CASE /\ ~HaveNode(S, id) /\ ~(Cardinality(S) < OptimalSize)
           /\ Closer(id, At(S, GroupSize))
  <2>1. r.contacts = pushed \ {sacrifice}
    BY <1>6 DEF AddNodeOutcome, Outcome
  <2>2. CASE sacrifice = NoNode
    <3>1. OverfullFrom(pushed) = {}
      <4>1. ASSUME OverfullFrom(pushed) # {}
            PROVE  FALSE
        <5>1. sacrifice \in pushed
          BY <1>1, <4>1, CandidateFacts
        <5>2. QED
          BY <1>1, <2>2, <5>1
      <4>2. QED
        BY <4>1
    <3>2. pushed \ {sacrifice} = pushed
      BY <1>1, <2>2
    <3>3. Spread(pushed)
      BY <1>1, <3>1, SpreadHasNoCandidate
    <3>4. QED
      BY <2>1, <3>2, <3>3 DEF SizeOK
  <2>3. CASE sacrifice # NoNode
    <3>1. sacrifice \in pushed
      BY <1>1, <2>3, CandidateFacts
    <3>2. Cardinality(pushed \ {sacrifice}) = Cardinality(S)
      <4>1. Cardinality(pushed \ {sacrifice}) = Cardinality(pushed) - 1
        BY <1>2, <3>1, FS_RemoveElement
      <4>2. id \notin S
        BY <1>6 DEF HaveNode
      <4>3. QED
        BY <1>2, <1>3, <4>1, <4>2
    <3>3. Spread(S) => Spread(pushed \ {sacrifice})
      BY <1>6, <2>3, SacrificeRestoresSpread DEF HaveNode
    <3>4. QED
      BY <2>1, <3>2, <3>3 DEF SizeOK
  <2>4. QED
    BY <2>2, <2>3
<1>7. CASE /\ ~HaveNode(S, id) /\ ~(Cardinality(S) < OptimalSize)
           /\ NewNodeIsBetterThanExisting(id, removal_candidate)
           /\ r.contacts = (S \ {removal_candidate}) \union {id}
  <2> DEFINE kept == S \ {removal_candidate}
  <2>1. OverfullFrom(S) # {} /\ removal_candidate \in S
    BY <1>7, CandidateFacts DEF NewNodeIsBetterThanExisting, FindCandidateForRemoval
  <2>2. ~(Cardinality(S) > OptimalSize)
    BY <1>1, <2>1, SpreadHasNoCandidate DEF SizeOK
  <2>3. IsFiniteSet(kept) /\ Cardinality(kept) = Cardinality(S) - 1
    BY <1>2, <2>1, FS_RemoveElement
  <2>4. Cardinality(kept \union {id}) = Cardinality(S)
    <3>1. id \notin kept
      BY <1>7 DEF HaveNode
    <3>2. Cardinality(kept \union {id}) = Cardinality(kept) + 1
      BY <2>3, <3>1, FS_AddElement
    <3>3. QED
      BY <1>2, <2>3, <3>2
  <2>5. QED
    BY <1>7, <2>2, <2>4 DEF SizeOK
<1>8. QED
  BY <1>4, <1>5, <1>6, <1>7 DEF AddNodeOutcome, Outcome

\* The table grows past OptimalSize only while its buckets are spread.
THEOREM SizeCorrect == Spec => []SizeBounded
<1>0. SizeBounded <=> SizeOK(nodes_)
  BY DEF SizeBounded, SizeOK, Spread, InBucket, Outside
<1>1. Init => SizeOK(nodes_)
  BY FS_EmptySet, SizeAssumption DEF Init, SizeOK
<1>2. TypeOK /\ SizeOK(nodes_) /\ [Next]_vars => SizeOK(nodes_)'
  <2> SUFFICES ASSUME TypeOK, SizeOK(nodes_), [Next]_vars
               PROVE  SizeOK(nodes_')
    BY DEF SizeOK, Spread, InBucket, Outside, OurCloseGroup, Index
  <2>0. nodes_ \in SUBSET (Address \ {our_id_}) /\ nodes_ \in SUBSET Address
    BY DEF TypeOK
  <2>1. ASSUME NEW t \in Thread, AddNode(t)
        PROVE  SizeOK(nodes_')
    <3>1. call[t].id \in Address \ {our_id_}
      BY <2>1 DEF TypeOK, AddNode
    <3>2. nodes_' = AddNodeOutcome(nodes_, call[t].id).contacts
      BY <2>1 DEF AddNode
    <3>3. QED
      BY <2>0, <3>1, <3>2, AddNodeKeepsSize
  <2>2. ASSUME NEW t \in Thread, DropNode(t)
        PROVE  SizeOK(nodes_')
    <3>1. nodes_' \in SUBSET nodes_
      BY <2>2 DEF DropNode
    <3>2. IsFiniteSet(nodes_) /\ Cardinality(nodes_) \in Nat /\ Cardinality(nodes_') \in Nat
      BY <2>0, <3>1, FiniteContacts
    <3>3. Cardinality(nodes_') <= Cardinality(nodes_)
      BY <3>1, <3>2, FS_Subset
    <3>4. Cardinality(nodes_') > OptimalSize => Cardinality(nodes_) > OptimalSize
      BY <3>2, <3>3, SizeAssumption
    <3>5. Spread(nodes_) => Spread(nodes_')
      BY <2>0, <3>1, SpreadShrinks
    <3>6. QED
      BY <3>4, <3>5 DEF SizeOK
  <2>3. CASE nodes_' = nodes_
    BY <2>3
  <2>4. QED
    BY <2>1, <2>2, <2>3
       DEF Next, vars, AddNodeEnter, DropNodeEnter, CheckNodeEnter, CheckNode
<1>3. QED
  BY <1>0, <1>1, <1>2, TypeCorrect, PTL DEF Spec

-----------------------------------------------------------------------------
(***************************************************************************)
(* Where a message for a target goes.                                      *)
(***************************************************************************)

\* The contacts of S closer to the target than a.
Nearer(S, target, a) == {b \in S : CloserToTarget(b, a, target)}

\* Distinct contacts have distinct numbers of nearer ones, below the size.
LEMMA RankFacts ==
  ASSUME NEW S \in SUBSET Address, NEW target \in Address
  PROVE  /\ \A a \in S : Cardinality(Nearer(S, target, a)) \in 0..(Cardinality(S) - 1)
         /\ \A a, b \in S : Cardinality(Nearer(S, target, a)) = Cardinality(Nearer(S, target, b))
                              => a = b
<1>1. IsFiniteSet(S) /\ Cardinality(S) \in Nat
  BY FiniteContacts
<1>2. ASSUME NEW a \in S
      PROVE  /\ IsFiniteSet(Nearer(S, target, a)) /\ Cardinality(Nearer(S, target, a)) \in Nat
             /\ Cardinality(Nearer(S, target, a)) < Cardinality(S)
  <2>1. Nearer(S, target, a) \in SUBSET S /\ a \notin Nearer(S, target, a)
    BY DistanceAssumption DEF Nearer
  <2>2. /\ IsFiniteSet(Nearer(S, target, a))
        /\ Cardinality(Nearer(S, target, a)) <= Cardinality(S)
        /\ Cardinality(Nearer(S, target, a)) # Cardinality(S)
    BY <1>1, <2>1, FS_Subset
  <2>3. Cardinality(Nearer(S, target, a)) \in Nat
    BY <2>2, FS_CardinalityType
  <2>4. QED
    BY <1>1, <2>2, <2>3
<1>3. ASSUME NEW a \in S, NEW b \in S, CloserToTarget(a, b, target)
      PROVE  Cardinality(Nearer(S, target, a)) # Cardinality(Nearer(S, target, b))
  <2>1. /\ Nearer(S, target, a) \in SUBSET Nearer(S, target, b)
        /\ a \in Nearer(S, target, b) /\ a \notin Nearer(S, target, a)
    BY <1>3, DistanceAssumption DEF Nearer
  <2>2. QED
    BY <1>2, <2>1, FS_Subset
<1>4. \A a, b \in S : a # b => CloserToTarget(a, b, target) \/ CloserToTarget(b, a, target)
  BY DistanceAssumption
<1>5. QED
  BY <1>1, <1>2, <1>3, <1>4

\* The n contacts closest to a target are n, or all there are.
LEMMA ClosestToSize ==
  ASSUME NEW S \in SUBSET Address, NEW target \in Address, NEW n \in Nat
  PROVE  Cardinality(ClosestTo(S, target, n)) =
           IF Cardinality(S) < n THEN Cardinality(S) ELSE n
<1> DEFINE size == Cardinality(S)
           rank == [a \in S |-> Cardinality(Nearer(S, target, a))]
           C == ClosestTo(S, target, n)
           m == IF size < n THEN size ELSE n
           g == [a \in C |-> rank[a]]
<1>1. IsFiniteSet(S) /\ size \in Nat /\ m \in Nat
  BY FiniteContacts
<1>2. rank \in [S -> 0..(size - 1)] /\ \A a, b \in S : rank[a] = rank[b] => a = b
  BY RankFacts
<1>3. IsFiniteSet(0..(size - 1)) /\ Cardinality(0..(size - 1)) = size
  <2>1. size \in Nat
    BY <1>1
  <2> HIDE DEF size
  <2>2. QED
    BY <2>1, FS_Interval
<1>4. rank \in Injection(S, 0..(size - 1))
  BY <1>2, Fun_IsInj
<1>5. rank \in Surjection(S, 0..(size - 1))
  BY <1>1, <1>3, <1>4, FS_Injection
<1>6. \A i \in 0..(size - 1) : \E a \in S : rank[a] = i
  <2>1. ASSUME NEW h \in Surjection(S, 0..(size - 1))
        PROVE  \A i \in 0..(size - 1) : \E a \in S : h[a] = i
    BY DEF Surjection
  <2>2. QED
    BY <1>5, <2>1
<1>7. C = {a \in S : rank[a] < n}
  BY DEF ClosestTo, Nearer
<1> HIDE DEF rank, C, size
<1>8. g \in [C -> 0..(m - 1)]
  BY <1>1, <1>2, <1>7
<1>9. \A a, b \in C : g[a] = g[b] => a = b
  BY <1>2, <1>7
<1>10. \A i \in 0..(m - 1) : \E a \in C : g[a] = i
  <2> SUFFICES ASSUME NEW i \in 0..(m - 1)
               PROVE  \E a \in C : g[a] = i
    OBVIOUS
  <2>1. i \in 0..(size - 1) /\ i < n
    BY <1>1
  <2>2. PICK a \in S : rank[a] = i
    BY <1>6, <2>1
  <2>3. a \in C /\ g[a] = i
    BY <1>7, <2>1, <2>2
  <2>4. QED
    BY <2>3
<1>11. g \in Bijection(C, 0..(m - 1))
  <2> HIDE DEF g, m
  <2>1. g \in Injection(C, 0..(m - 1))
    BY <1>8, <1>9, Fun_IsInj
  <2>2. g \in Surjection(C, 0..(m - 1))
    BY <1>8, <1>10, Fun_IsSurj
  <2>3. QED
    BY <2>1, <2>2 DEF Bijection
<1>12. IsFiniteSet(0..(m - 1)) /\ Cardinality(0..(m - 1)) = m
  BY <1>1, FS_Interval
<1>13. C \in SUBSET S /\ IsFiniteSet(C)
  BY <1>1, <1>7, FS_Subset
<1>14. Cardinality(C) = m
  <2> HIDE DEF g, m
  <2>1. ExistsBijection(C, 0..(m - 1))
    BY <1>11 DEF ExistsBijection
  <2>2. QED
    BY <1>12, <1>13, <2>1, FS_Bijection
<1>15. QED
  BY <1>14 DEF C, size

\* Every message goes to the contact closest to its target, and to Parallelism
\* contacts at most unless it is for our close group.
THEOREM TargetNodesCorrect == Spec => []TargetNodesReachClosest
<1>1. TypeOK => TargetNodesReachClosest
  <2> SUFFICES ASSUME TypeOK, NEW target \in Address
               PROVE  LET targets == TargetNodes(nodes_, target)
                      IN  /\ \A a \in nodes_ :
                               (\A b \in nodes_ \ {a} : CloserToTarget(a, b, target))
                                 => a \in targets
                          /\ targets # OurCloseGroup(nodes_) =>
                               Cardinality(targets) =
                                 IF Cardinality(nodes_) < Parallelism
                                 THEN Cardinality(nodes_) ELSE Parallelism
    BY DEF TargetNodesReachClosest
  <2>1. nodes_ \in SUBSET Address
    BY DEF TypeOK
  <2>2. ASSUME NEW a \in nodes_, \A b \in nodes_ \ {a} : CloserToTarget(a, b, target),
               NEW n \in Nat \ {0}
        PROVE  a \in ClosestTo(nodes_, target, n)
    <3>1. {b \in nodes_ : CloserToTarget(b, a, target)} = {}
      <4>1. ASSUME NEW b \in nodes_, CloserToTarget(b, a, target)
            PROVE  FALSE
        <5>1. a \in Address /\ b \in Address
          BY <2>1
        <5>2. b = a \/ CloserToTarget(a, b, target)
          BY <2>2
        <5>3. QED
          BY <4>1, <5>1, <5>2, DistanceAssumption
      <4>2. QED
        BY <4>1
    <3>2. QED
      BY <2>2, <3>1, FS_EmptySet DEF ClosestTo
  <2>3. Parallelism \in Nat \ {0} /\ 1 \in Nat \ {0}
    BY SizeAssumption
  <2>4. Cardinality(ClosestTo(nodes_, target, Parallelism)) =
          IF Cardinality(nodes_) < Parallelism THEN Cardinality(nodes_) ELSE Parallelism
    BY <2>1, <2>3, ClosestToSize
  <2>5. ASSUME NEW a \in nodes_, \A b \in nodes_ \ {a} : CloserToTarget(a, b, target)
        PROVE  a \in TargetNodes(nodes_, target)
    <3>1. a \in ClosestTo(nodes_, target, 1) /\ a \in ClosestTo(nodes_, target, Parallelism)
      BY <2>2, <2>3, <2>5
    <3>2. QED
      BY <3>1 DEF TargetNodes
  <2>6. QED
    BY <2>4, <2>5 DEF TargetNodes
<1>2. QED
  BY <1>1, TypeCorrect, PTL

-----------------------------------------------------------------------------
(***************************************************************************)
(* CheckNode beside concurrent modifications.                              *)
(***************************************************************************)

\* While CheckNode runs, the answer for the present contents is among those
\* allowed; and unless TRUE is, the contact was not a duplicate of the table
\* as it is or as the current critical section leaves it.
StaleCheckIsHarmless ==
  \A t \in Thread :
    /\ call[t].op = "CheckNode" =>
         /\ WouldAdd(nodes_, call[t].id) \in answers[t]
         /\ TRUE \in answers[t] \/ \E S \in ContentsInFlux : call[t].id \notin S
    /\ call[t].op = "Checked" => call[t].ok \in answers[t]

\* With the mutex free, or in one thread's critical section, the table has
\* one, or two, possible contents.
LEMMA FluxFacts ==
  ASSUME TypeOK
  PROVE  /\ nodes_ \in ContentsInFlux
         /\ mutex_ = NoThread => ContentsInFlux = {nodes_}
         /\ \A t \in Thread : call[t].op = "AddNode" =>
              ContentsInFlux = {nodes_, AddNodeOutcome(nodes_, call[t].id).contacts}
         /\ \A t \in Thread : call[t].op = "DropNode" =>
              ContentsInFlux = {nodes_, nodes_ \ {call[t].id}}
  BY NameAssumption DEF ContentsInFlux, TypeOK

\* A contact that is in the table would not be added.
LEMMA DuplicateNotAdded ==
  ASSUME NEW S, NEW id, id \in S
  PROVE  WouldAdd(S, id) = FALSE
  BY DEF WouldAdd, AddNodeOutcome, HaveNode, Outcome

\* A step that leaves the contents and every critical section alone leaves
\* the possible contents alone, or adds to them.
LEMMA FluxGrows ==
  ASSUME TypeOK, nodes_' = nodes_,
         \A t \in Thread : call[t].op \in {"AddNode", "DropNode"} => call'[t] = call[t]
  PROVE  ContentsInFlux \subseteq ContentsInFlux'
  BY DEF ContentsInFlux

\* The unlocked duplicate check of CheckNode can be out of date but never
\* makes its answer wrong, unless the racing read missed a contact of a vector
\* that was being sorted.
THEOREM CheckNodeCorrect == Spec => []CheckNodeLinearizable
<1>1. Init => StaleCheckIsHarmless
  BY DEF Init, StaleCheckIsHarmless, Idle
<1>2. TypeOK /\ StaleCheckIsHarmless /\ [Next]_vars => StaleCheckIsHarmless'
  <2> SUFFICES ASSUME TypeOK, StaleCheckIsHarmless, [Next]_vars
               PROVE  StaleCheckIsHarmless'
    OBVIOUS
  <2> DEFINE Harmless(t) ==
        /\ call[t].op = "CheckNode" =>
             /\ WouldAdd(nodes_, call[t].id) \in answers[t]
             /\ TRUE \in answers[t] \/ \E S \in ContentsInFlux : call[t].id \notin S
        /\ call[t].op = "Checked" => call[t].ok \in answers[t]
  <2>1. \A t \in Thread : Harmless(t)
    BY DEF StaleCheckIsHarmless
  <2>2. SUFFICES ASSUME NEW t \in Thread
                 PROVE  Harmless(t)'
    BY DEF StaleCheckIsHarmless
  <2>3. ASSUME nodes_' = nodes_, call'[t] = call[t], answers'[t] = answers[t],
               \A u \in Thread : call[u].op \in {"AddNode", "DropNode"} => call'[u] = call[u]
        PROVE  Harmless(t)'
    <3>1. ContentsInFlux \subseteq ContentsInFlux'
      BY <2>3, FluxGrows
    <3>2. WouldAdd(nodes_, call[t].id)' = WouldAdd(nodes_, call[t].id)
      BY <2>3
    <3>3. QED
      BY <2>1, <2>3, <3>1, <3>2
  <2>4. ASSUME NEW u \in Thread, NEW id \in Address, NEW valid_key \in BOOLEAN,
               AddNodeEnter(u, id, valid_key)
        PROVE  Harmless(t)'
    <3>1. CASE t # u
      BY <2>3, <2>4, <3>1 DEF AddNodeEnter, Free, TypeOK
    <3>2. CASE t = u
      <4>1. call'[t].op \in {"Idle", "AddNode"}
        BY <2>4, <3>2 DEF AddNodeEnter, Idle, Calling, TypeOK
      <4>2. QED
        BY <4>1
    <3>3. QED
      BY <3>1, <3>2
  <2>5. ASSUME NEW u \in Thread, NEW id \in Address, DropNodeEnter(u, id)
        PROVE  Harmless(t)'
    <3>1. CASE t # u
      BY <2>3, <2>5, <3>1 DEF DropNodeEnter, Free, TypeOK
    <3>2. CASE t = u
      <4>1. call'[t].op = "DropNode"
        BY <2>5, <3>2 DEF DropNodeEnter, Calling, TypeOK
      <4>2. QED
        BY <4>1
    <3>3. QED
      BY <3>1, <3>2
  <2>6. ASSUME NEW u \in Thread, ContentsInFlux = {nodes_, nodes_'},
               \A x \in nodes_' : x \in nodes_ \/ WouldAdd(nodes_, x),
               call' = [call EXCEPT ![u] = Idle], ObserveAnswers(nodes_')
        PROVE  Harmless(t)'
    <3>1. CASE call'[t].op = "CheckNode"
      <4>1. t # u /\ call'[t] = call[t] /\ call[t].op = "CheckNode"
        BY <2>6, <3>1 DEF Idle, TypeOK
      <4>2. answers'[t] = answers[t] \union {WouldAdd(nodes_', call[t].id)}
        BY <2>6, <4>1 DEF ObserveAnswers
      <4>3. WouldAdd(nodes_, call[t].id)' = WouldAdd(nodes_', call[t].id)
        BY <4>1
      <4>4. nodes_' \in ContentsInFlux'
        BY DEF ContentsInFlux
      <4>5. TRUE \in answers[t] \/ call[t].id \notin nodes_'
        <5>1. WouldAdd(nodes_, call[t].id) => WouldAdd(nodes_, call[t].id) = TRUE
          BY DEF WouldAdd
        <5>2. QED
          BY <2>1, <2>6, <4>1, <5>1
      <4>6. QED
        BY <4>1, <4>2, <4>3, <4>4, <4>5
    <3>2. CASE call'[t].op = "Checked"
      BY <2>1, <2>6, <3>2 DEF Idle, TypeOK, ObserveAnswers
    <3>3. QED
      BY <3>1, <3>2
  <2>7. ASSUME NEW u \in Thread, AddNode(u)
        PROVE  Harmless(t)'
    <3> DEFINE r == AddNodeOutcome(nodes_, call[u].id)
    <3>1. nodes_ \in SUBSET (Address \ {our_id_}) /\ call[u].id \in Address \ {our_id_}
      BY <2>7 DEF TypeOK, AddNode
    <3>2. /\ r.contacts \subseteq nodes_ \union {call[u].id}
          /\ ~r.added => r.contacts = nodes_
      BY <3>1, AddNodeFacts
    <3>3. \A x \in r.contacts : x \in nodes_ \/ WouldAdd(nodes_, x)
      BY <3>1, <3>2 DEF WouldAdd
    <3>4. ContentsInFlux = {nodes_, r.contacts}
      BY <2>7, FluxFacts DEF AddNode
    <3>5. /\ nodes_' = r.contacts /\ ObserveAnswers(nodes_')
          /\ call' = [call EXCEPT ![u] = Idle]
      BY <2>7 DEF AddNode
    <3>6. \A x \in nodes_' : x \in nodes_ \/ WouldAdd(nodes_, x)
      BY <3>3, <3>5
    <3>7. ContentsInFlux = {nodes_, nodes_'}
      BY <3>4, <3>5
    <3>8. QED
      BY <2>6, <3>5, <3>6, <3>7
  <2>8. ASSUME NEW u \in Thread, DropNode(u)
        PROVE  Harmless(t)'
    <3>1. /\ nodes_' = nodes_ \ {call[u].id} /\ ObserveAnswers(nodes_')
          /\ call' = [call EXCEPT ![u] = Idle]
      BY <2>8 DEF DropNode
    <3>2. ContentsInFlux = {nodes_, nodes_'}
      BY <2>8, <3>1, FluxFacts DEF DropNode
    <3>3. \A x \in nodes_' : x \in nodes_ \/ WouldAdd(nodes_, x)
      BY <3>1
    <3>4. QED
      BY <2>6, <3>1, <3>2, <3>3
  <2>9. ASSUME NEW u \in Thread, NEW id \in Address, CheckNodeEnter(u, id)
        PROVE  Harmless(t)'
    <3>1. CASE t # u
      BY <2>3, <2>9, <3>1 DEF CheckNodeEnter, Free, TypeOK
    <3>2. CASE t = u
      <4> DEFINE missed(duplicate) ==
                   ~duplicate /\ \A S \in ContentsInFlux : HaveNode(S, id)
      <4>1. nodes_ \in ContentsInFlux
        BY FluxFacts
      <4>2. PICK duplicate \in (IF id = our_id_ THEN {TRUE} ELSE UnlockedHaveNode(id)) :
              /\ call' = [call EXCEPT ![u] = IF duplicate THEN Checked(id, FALSE)
                                                          ELSE Calling("CheckNode", id)]
              /\ answers' = [answers EXCEPT ![u] =
                   IF missed(duplicate) THEN BOOLEAN
                                        ELSE {WouldAdd(S, id) : S \in ContentsInFlux}]
        BY <2>9 DEF CheckNodeEnter
      <4>3. answers'[t] = IF missed(duplicate) THEN BOOLEAN
                                               ELSE {WouldAdd(S, id) : S \in ContentsInFlux}
        BY <3>2, <4>2 DEF TypeOK
      <4>4. CASE duplicate
        <5>1. call'[t] = Checked(id, FALSE)
          BY <3>2, <4>2, <4>4 DEF TypeOK
        <5>2. \E S \in ContentsInFlux : WouldAdd(S, id) = FALSE
          <6>1. CASE id = our_id_
            BY <4>1, <6>1 DEF WouldAdd
          <6>2. CASE id # our_id_
            <7>1. \E S \in ContentsInFlux : id \in S
              BY <4>2, <4>4, <6>2 DEF UnlockedHaveNode, HaveNode
            <7>2. QED
              BY <7>1, DuplicateNotAdded
          <6>3. QED
            BY <6>1, <6>2
        <5>3. FALSE \in answers'[t]
          BY <4>3, <4>4, <5>2
        <5>4. call'[t].op = "Checked" /\ call'[t].ok = FALSE
          BY <5>1 DEF Checked
        <5>5. QED
          BY <5>3, <5>4
      <4>5. CASE ~duplicate
        <5>1. call'[t] = Calling("CheckNode", id)
          BY <3>2, <4>2, <4>5 DEF TypeOK
        <5>2. TRUE \in answers'[t] \/ \E S \in ContentsInFlux : id \notin S
          BY <4>3, <4>5 DEF HaveNode
        <5>3. ContentsInFlux \subseteq ContentsInFlux' /\ nodes_' = nodes_
          BY <2>9, FluxGrows DEF CheckNodeEnter, Free, TypeOK
        <5>4. WouldAdd(nodes_, call[t].id)' = WouldAdd(nodes_, id)
          BY <5>1, <5>3 DEF Calling
        <5>5. call'[t].op = "CheckNode" /\ call'[t].id = id
          BY <5>1 DEF Calling
        <5>6. WouldAdd(nodes_, id) \in answers'[t]
          <6>1. WouldAdd(nodes_, id) \in BOOLEAN
            BY DEF WouldAdd
          <6>2. QED
            BY <4>1, <4>3, <6>1
        <5>7. QED
          BY <5>2, <5>3, <5>4, <5>5, <5>6
      <4>6. QED
        BY <4>4, <4>5
    <3>3. QED
      BY <3>1, <3>2
  <2>10. ASSUME NEW u \in Thread, CheckNode(u)
         PROVE  Harmless(t)'
    <3>1. CASE t # u
      BY <2>3, <2>10, <3>1 DEF CheckNode, TypeOK
    <3>2. CASE t = u
      <4> DEFINE id == call[t].id
                 decision == CheckNodeDecision(nodes_, id)
      <4>1. /\ call'[t] = Checked(id, decision) /\ answers'[t] = answers[t]
            /\ id \in Address \ {our_id_} /\ nodes_ \in SUBSET (Address \ {our_id_})
        BY <2>10, <3>2 DEF CheckNode, TypeOK
      <4>2. /\ WouldAdd(nodes_, id) \in answers[t]
            /\ TRUE \in answers[t] \/ id \notin nodes_
        BY <2>1, <2>10, <3>2, FluxFacts DEF CheckNode
      <4>3. id \notin nodes_ => WouldAdd(nodes_, id) = decision
        BY <4>1, AddNodeFacts DEF WouldAdd, CheckNodeDecision
      <4>4. id \in nodes_ => WouldAdd(nodes_, id) = FALSE
        BY DuplicateNotAdded
      <4>5. decision = TRUE \/ decision = FALSE
        BY DEF CheckNodeDecision
      <4>6. decision \in answers[t]
        BY <4>2, <4>3, <4>4, <4>5
      <4>7. QED
        <5>1. call'[t].op = "Checked" /\ call'[t].ok = decision
          BY <4>1 DEF Checked
        <5>2. call'[t].op # "CheckNode" /\ call'[t].ok \in answers'[t]
          BY <4>1, <4>6, <5>1
        <5>3. QED
          BY <5>1, <5>2
    <3>3. QED
      BY <3>1, <3>2
  <2>11. CASE UNCHANGED vars
    BY <2>3, <2>11 DEF vars
  <2>12. QED
    BY <2>4, <2>5, <2>7, <2>8, <2>9, <2>10, <2>11 DEF Next
<1>3. StaleCheckIsHarmless => CheckNodeLinearizable
  BY DEF StaleCheckIsHarmless, CheckNodeLinearizable
<1>4. QED
  BY <1>1, <1>2, <1>3, TypeCorrect, PTL DEF Spec

=============================================================================
