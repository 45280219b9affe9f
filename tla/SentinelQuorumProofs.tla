----------------------- MODULE SentinelQuorumProofs -----------------------
(***************************************************************************)
(* Lemmas for SentinelProofs that are not about its steps: what            *)
(* accumulators hold of a set D of delivered messages, how senders and     *)
(* quorums are counted, and what the results resolved from accumulators    *)
(* rest on.  They hold for any groups, clients, ids, payloads, keys and    *)
(* messages, any quorum over half of the members, and any way of merging   *)
(* accounts.  The lemmas on accumulators come from AccumulatorProofs.      *)
(***************************************************************************)
EXTENDS Sentinel, AccumulatorProofs, FiniteSetTheorems

AllMessages == UNION {Scenario[i].messages : i \in DOMAIN Scenario}

\* The name under which an accumulator holds m.
NameOf(m) == IF m.kind \in {"GroupKey", "ClientKey"} THEN m.from ELSE <<m.from, m.id>>

\* Every part in a was delivered: a message of the kind, from the sender and
\* of the name it is held under.
Stored(a, kind, D) ==
  \A n \in DOMAIN a.storage : \A s \in DOMAIN GetAll(a, n) :
    LET m == GetAll(a, n)[s]
    IN  m \in D /\ m.kind = kind /\ m.sender = s /\ NameOf(m) = n

\* No sender has sent two messages of a kind with one source and id.
OneEach(D) ==
  \A d, e \in D :
    d.kind = e.kind /\ d.from = e.from /\ d.sender = e.sender /\ d.id = e.id => d = e

\* Given and KnownMembers, among the messages in D.
GivenIn(D, kind, from, id) == {d \in D : d.kind = kind /\ d.from = from /\ d.id = id}
KeysIn(D, kind, from) == UNION {GivenIn(D, kind, from, j) : j \in MessageId}
KnownIn(D, group) ==
  UNION {KeysFrom(d.sender) : d \in {e \in D : e.kind = "GroupKey" /\ e.from = group}}

\* D backs payload as a result for <<g, id>> of a group (GroupResultHasQuorum)
\* and for <<c, id>> of a single node (NodeResultHasQuorum).
GroupBacked(D, g, id, payload) ==
  LET valid == {m \in GivenIn(D, "Group", g, id) : m.signed /\ m.sender \in KnownIn(D, g)}
  IN  /\ Cardinality(Senders(KeysIn(D, "GroupKey", g))) >= QuorumSize
      /\ IF id \in AccountId
         THEN \E ms \in SUBSET valid :
                /\ Cardinality(Senders(ms)) >= QuorumSize
                /\ payload = Merge([s \in Senders(ms) |->
                                      (CHOOSE m \in ms : m.sender = s).payload])
         ELSE Cardinality({m \in valid : m.payload = payload}) >= QuorumSize
NodeBacked(D, c, id, payload) ==
  /\ \E m \in GivenIn(D, "Node", c, id) : m.signed /\ m.payload = payload
  /\ Cardinality(Senders(KeysIn(D, "ClientKey", c))) >= QuorumSize

\* In D is what it takes to return payload for <<g, id>>, and for <<c, id>>.
GroupEnough(D, g, id, payload) ==
  LET agreeing == {m \in GivenIn(D, "Group", g, id) : m.signed /\ m.payload = payload}
      vouched == UNION {KeysFrom(s) : s \in Senders(GivenIn(D, "GroupKey", g, id))}
  IN  /\ Cardinality(Senders(agreeing) \intersect vouched) >= QuorumSize
      /\ Cardinality(GivenIn(D, "GroupKey", g, id)) >= QuorumSize
NodeEnough(D, c, id) ==
  /\ \E m \in GivenIn(D, "Node", c, id) : m.signed
  /\ Cardinality(GivenIn(D, "ClientKey", c, id)) >= QuorumSize

-----------------------------------------------------------------------------
(***************************************************************************)
(* Accumulators of delivered messages.                                     *)
(***************************************************************************)

\* What is held under a name, and from whom.
LEMMA HeardFacts ==
  ASSUME NEW N, NEW S, NEW V, NEW a, WellFormed(a, N, S, V), NEW n
  PROVE  /\ Heard(a, n) \subseteq S
         /\ Heard(a, n) # {} <=> n \in DOMAIN a.storage
         /\ n \in DOMAIN a.storage => Heard(a, n) = DOMAIN GetAll(a, n)
BY DEF WellFormed, EntryOK, Heard, HaveName, GetAll

\* Messages stay delivered.
LEMMA StoredGrows ==
  ASSUME NEW a, NEW kind, NEW D, NEW E, Stored(a, kind, D), D \subseteq E
  PROVE  Stored(a, kind, E)
BY DEF Stored

\* Nothing is expired as long as the clock has not passed the time to live.
LEMMA NotExpired ==
  ASSUME NEW N, NEW S, NEW V, NEW a, WellFormed(a, N, S, V),
         NEW n \in DOMAIN a.storage, NEW t \in Nat, t <= TimeToLive
  PROVE  ~CheckTimeExpired(a, n, t)
<1>1. a.storage[n].time \in Nat
  BY DEF WellFormed, EntryOK
<1>2. QED
  BY <1>1, TimeToLiveAssumption DEF CheckTimeExpired

\* c is a after m was added under n: the sender is heard, and other names are
\* left alone, or expire.
Added(a, c, n, m, t) ==
  /\ n \in DOMAIN c.storage
  /\ Heard(c, n) = Heard(a, n) \union {m.sender}
  /\ \A k : k # n => Heard(c, k) \subseteq Heard(a, k)
  /\ t <= TimeToLive => \A k : Heard(a, k) \subseteq Heard(c, k)

LEMMA AddMessage ==
  ASSUME NEW N, NEW S, NEW V, NEW a, WellFormed(a, N, S, V),
         NEW n \in N, NEW m \in V, m.sender \in S, n = NameOf(m),
         NEW t \in Nat, NEW D, NEW kind, kind = m.kind, Stored(a, kind, D),
         NEW c, c = Add(a, n, m, m.sender, t)
  PROVE  WellFormed(c, N, S, V) /\ Stored(c, kind, D \union {m}) /\ Added(a, c, n, m, t)
<1>1. WellFormed(c, N, S, V) /\ AddResult(a, c, n, m, m.sender, t)
  BY AddFacts, Zenon
<1>2. /\ n \in DOMAIN c.storage
      /\ DOMAIN c.storage \subseteq DOMAIN a.storage \union {n}
      /\ \A k \in DOMAIN c.storage \ {n} : c.storage[k] = a.storage[k]
      /\ n \in DOMAIN a.storage => Extends(a.storage[n].parts, c.storage[n].parts)
      /\ \A k \in DOMAIN a.storage \ DOMAIN c.storage : CheckTimeExpired(a, k, t)
      /\ Heard(c, n) = Heard(a, n) \union {m.sender}
      /\ m.sender \notin Heard(a, n) => c.storage[n].parts[m.sender] = m
  BY <1>1 DEF AddResult
<1>3. \A k : k # n => Heard(c, k) \subseteq Heard(a, k)
  BY <1>2 DEF Heard, HaveName, GetAll
<1>4. ASSUME t <= TimeToLive  PROVE \A k : Heard(a, k) \subseteq Heard(c, k)
  <2>1. \A k \in DOMAIN a.storage : ~CheckTimeExpired(a, k, t)
    BY <1>4, NotExpired
  <2>2. DOMAIN a.storage \subseteq DOMAIN c.storage
    BY <1>2, <2>1
  <2>3. QED
    BY <1>2, <2>2 DEF Heard, HaveName, GetAll
<1>5. Stored(c, kind, D \union {m})
  <2> SUFFICES ASSUME NEW k \in DOMAIN c.storage, NEW s \in DOMAIN GetAll(c, k)
               PROVE  LET p == GetAll(c, k)[s]
                      IN  /\ p \in D \union {m} /\ p.kind = kind
                          /\ p.sender = s /\ NameOf(p) = k
    BY DEF Stored
  <2>1. CASE k # n
    <3>1. k \in DOMAIN a.storage /\ GetAll(c, k) = GetAll(a, k)
      BY <1>2, <2>1 DEF GetAll
    <3>2. QED
      BY <3>1 DEF Stored
  <2>2. CASE k = n /\ s \in Heard(a, n)
    <3>1. n \in DOMAIN a.storage /\ s \in DOMAIN GetAll(a, n)
      BY <2>2 DEF Heard, HaveName
    <3>2. GetAll(c, n)[s] = GetAll(a, n)[s]
      BY <1>2, <3>1 DEF Extends, GetAll
    <3>3. QED
      BY <2>2, <3>1, <3>2 DEF Stored
  <2>3. CASE k = n /\ s \notin Heard(a, n)
    <3>1. s = m.sender
      BY <1>2, <2>3, Zenon DEF Heard, HaveName
    <3>2. GetAll(c, n)[s] = m
      BY <1>2, <2>3, <3>1 DEF GetAll
    <3>3. QED
      BY <2>3, <3>1, <3>2
  <2>4. QED
    BY <2>1, <2>2, <2>3
<1>6. QED
  BY <1>1, <1>2, <1>3, <1>4, <1>5 DEF Added

\* The accumulator after a result was returned, or none.
LEMMA AfterReturnFacts ==
  ASSUME NEW N, NEW S, NEW V, NEW a, WellFormed(a, N, S, V),
         NEW n \in N, NEW kind, NEW D, Stored(a, kind, D), NEW payload
  PROVE  LET c == AfterReturn(a, n, payload)
         IN  /\ WellFormed(c, N, S, V)
             /\ Stored(c, kind, D)
             /\ payload # NoPayload => Heard(c, n) = {}
             /\ payload = NoPayload => c = a
             /\ \A k : k # n => Heard(c, k) = Heard(a, k)
<1> DEFINE c == AfterReturn(a, n, payload)
<1>1. CASE payload = NoPayload
  BY <1>1 DEF AfterReturn
<1>2. CASE payload # NoPayload
  <2>1. c = Delete(a, n)
    BY <1>2 DEF AfterReturn
  <2> HIDE DEF c
  <2>2. /\ WellFormed(c, N, S, V)
        /\ DOMAIN c.storage = DOMAIN a.storage \ {n}
        /\ \A k \in DOMAIN c.storage : c.storage[k] = a.storage[k]
    BY <2>1, DeleteFacts
  <2>3. Stored(c, kind, D)
    BY <2>2 DEF Stored, GetAll
  <2>4. Heard(c, n) = {} /\ \A k : k # n => Heard(c, k) = Heard(a, k)
    BY <2>2 DEF Heard, HaveName, GetAll
  <2>5. QED
    BY <1>2, <2>2, <2>3, <2>4 DEF c
<1>3. QED
  BY <1>1, <1>2

-----------------------------------------------------------------------------
(***************************************************************************)
(* Counting senders.                                                       *)
(***************************************************************************)

LEMMA QuorumFacts ==
  /\ QuorumSize \in Nat /\ 1 < QuorumSize
  /\ IsFiniteSet(Member) /\ Cardinality(Member) \in Nat
  /\ 2 * QuorumSize > Cardinality(Member)
BY SentinelAssumption, FS_CardinalityType

\* A set with a quorum in it is a quorum.
LEMMA QuorumGrows ==
  ASSUME NEW A, NEW B, A \subseteq B, IsFiniteSet(B), Cardinality(A) >= QuorumSize
  PROVE  IsFiniteSet(A) /\ Cardinality(B) >= QuorumSize
<1>1. IsFiniteSet(A) /\ Cardinality(A) <= Cardinality(B)
  BY FS_Subset
<1>2. Cardinality(A) \in Nat /\ Cardinality(B) \in Nat
  BY <1>1, FS_CardinalityType
<1>3. QED
  BY <1>1, <1>2, QuorumFacts

\* A quorum is not empty.
LEMMA QuorumNotEmpty ==
  ASSUME NEW A, Cardinality(A) >= QuorumSize
  PROVE  A # {}
<1>1. ASSUME A = {}  PROVE Cardinality(A) = 0
  BY <1>1, FS_EmptySet, Zenon
<1>2. QED
  BY <1>1, QuorumFacts

\* Two quorums of members have a member in common.
LEMMA QuorumsMeet ==
  ASSUME NEW A \in SUBSET Member, NEW B \in SUBSET Member,
         Cardinality(A) >= QuorumSize, Cardinality(B) >= QuorumSize
  PROVE  A \intersect B # {}
<1>1. IsFiniteSet(A) /\ IsFiniteSet(B) /\ IsFiniteSet(A \union B)
  BY QuorumFacts, FS_Subset, FS_Union
<1>2. Cardinality(A \union B) <= Cardinality(Member)
  BY QuorumFacts, FS_Subset
<1>3. SUFFICES ASSUME A \intersect B = {}  PROVE FALSE
  OBVIOUS
<1>4. Cardinality(A \union B) = Cardinality(A) + Cardinality(B)
  <2>1. Cardinality(A \union B)
          = Cardinality(A) + Cardinality(B) - Cardinality(A \intersect B)
    BY <1>1, FS_Union
  <2>2. Cardinality(A \intersect B) = 0
    BY <1>3, FS_EmptySet
  <2>3. Cardinality(A) \in Nat /\ Cardinality(B) \in Nat
    BY <1>1, FS_CardinalityType
  <2>4. QED
    BY <2>1, <2>2, <2>3
<1>5. /\ Cardinality(A) \in Nat /\ Cardinality(B) \in Nat
      /\ Cardinality(A \union B) \in Nat /\ Cardinality(Member) \in Nat
  BY <1>1, QuorumFacts, FS_CardinalityType
<1>6. QED
  BY <1>2, <1>4, <1>5, QuorumFacts

\* Messages are at least as many as their senders, and no more when no sender
\* sent two of them.
LEMMA SendersFacts ==
  ASSUME NEW X, IsFiniteSet(X)
  PROVE  /\ IsFiniteSet(Senders(X))
         /\ Cardinality(Senders(X)) <= Cardinality(X)
         /\ (\A x, y \in X : x.sender = y.sender => x = y)
              => Cardinality(Senders(X)) = Cardinality(X)
<1> DEFINE f == [x \in X |-> x.sender]
<1>1. f \in Surjection(X, Senders(X))
  BY DEF Surjection, Senders
<1>2. IsFiniteSet(Senders(X)) /\ Cardinality(Senders(X)) <= Cardinality(X)
  BY <1>1, FS_Surjection
<1>3. ASSUME \A x, y \in X : x.sender = y.sender => x = y
      PROVE  Cardinality(Senders(X)) = Cardinality(X)
  <2>1. f \in Injection(X, Senders(X))
    BY <1>3 DEF Injection, Senders, IsInjective
  <2>2. QED
    BY <1>1, <2>1, FS_Surjection
<1>4. QED
  BY <1>2, <1>3

-----------------------------------------------------------------------------
(***************************************************************************)
(* Results and the messages behind them.                                   *)
(***************************************************************************)

\* The messages, and key responses, that D has for a source and an id.
LEMMA GivenFacts ==
  ASSUME NEW D, IsFiniteSet(D), \A d \in D : IsMessage(d)
  PROVE  /\ \A kind, from, id : IsFiniteSet(GivenIn(D, kind, from, id))
         /\ \A kind \in {"Group", "GroupKey", "ClientKey"} : \A from, id :
              Senders(GivenIn(D, kind, from, id)) \subseteq Member
         /\ \A from, id : \A d \in GivenIn(D, "Node", from, id) : d.sender = from
<1>1. ASSUME NEW kind, NEW from, NEW id  PROVE IsFiniteSet(GivenIn(D, kind, from, id))
  <2>1. GivenIn(D, kind, from, id) \subseteq D
    BY DEF GivenIn
  <2>2. QED
    BY <2>1, FS_Subset
<1>2. \A d \in D : d.kind \in {"Group", "GroupKey", "ClientKey"} => d.sender \in Member
  BY DEF IsMessage
<1>3. \A d \in D : d.kind = "Node" => d.sender = d.from
  BY DEF IsMessage
<1>4. QED
  BY <1>1, <1>2, <1>3, Zenon DEF GivenIn, Senders

\* All the senders of a kind of keys are members.
LEMMA KeySenders ==
  ASSUME NEW D, IsFiniteSet(D), \A d \in D : IsMessage(d),
         NEW kind \in {"GroupKey", "ClientKey"}, NEW from
  PROVE  LET senders == Senders(KeysIn(D, kind, from))
         IN  /\ senders \subseteq Member /\ IsFiniteSet(senders)
             /\ \A d \in D : d.kind = kind /\ d.from = from => d.sender \in senders
<1> DEFINE X == KeysIn(D, kind, from)
<1>1. X \subseteq D /\ \A d \in X : d.kind = kind
  BY DEF GivenIn, KeysIn
<1>2. \A d \in D : d.kind = kind /\ d.from = from => d \in X
  BY DEF GivenIn, KeysIn, IsMessage
<1>3. \A d \in X : d.sender \in Member
  BY <1>1 DEF IsMessage
<1> HIDE DEF X
<1>4. Senders(X) \subseteq Member /\ \A d \in X : d.sender \in Senders(X)
  BY <1>3 DEF Senders
<1>5. IsFiniteSet(Senders(X))
  BY <1>4, QuorumFacts, FS_Subset
<1>6. QED
  BY <1>2, <1>4, <1>5 DEF X

\* What backs a result backs it when more has been delivered.
LEMMA BackedGrows ==
  ASSUME NEW D, NEW E, D \subseteq E, IsFiniteSet(E), \A d \in E : IsMessage(d),
         NEW from, NEW id, NEW payload
  PROVE  /\ GroupBacked(D, from, id, payload) => GroupBacked(E, from, id, payload)
         /\ NodeBacked(D, from, id, payload) => NodeBacked(E, from, id, payload)
<1> DEFINE valid(F) == {m \in GivenIn(F, "Group", from, id) :
                         m.signed /\ m.sender \in KnownIn(F, from)}
<1>1. \A kind, j : GivenIn(D, kind, from, j) \subseteq GivenIn(E, kind, from, j)
  BY DEF GivenIn
<1>2. ASSUME NEW kind \in {"GroupKey", "ClientKey"},
             Cardinality(Senders(KeysIn(D, kind, from))) >= QuorumSize
      PROVE  Cardinality(Senders(KeysIn(E, kind, from))) >= QuorumSize
  <2>1. KeysIn(D, kind, from) \subseteq KeysIn(E, kind, from)
    BY <1>1 DEF KeysIn
  <2>2. Senders(KeysIn(D, kind, from)) \subseteq Senders(KeysIn(E, kind, from))
    BY <2>1 DEF Senders
  <2>3. IsFiniteSet(Senders(KeysIn(E, kind, from)))
    BY KeySenders
  <2>4. QED
    BY <1>2, <2>2, <2>3, QuorumGrows
<1>3. valid(D) \subseteq valid(E)
  BY <1>1 DEF KnownIn
<1>4. IsFiniteSet(valid(E))
  <2>1. valid(E) \subseteq E
    BY DEF GivenIn
  <2>2. QED
    BY <2>1, FS_Subset
<1> HIDE DEF valid
<1>5. ASSUME GroupBacked(D, from, id, payload)  PROVE GroupBacked(E, from, id, payload)
  <2>1. Cardinality(Senders(KeysIn(E, "GroupKey", from))) >= QuorumSize
    BY <1>2, <1>5 DEF GroupBacked
  <2>2. CASE id \in AccountId
    <3>1. PICK ms \in SUBSET valid(D) :
                /\ Cardinality(Senders(ms)) >= QuorumSize
                /\ payload = Merge([s \in Senders(ms) |->
                                      (CHOOSE m \in ms : m.sender = s).payload])
      BY <1>5, <2>2 DEF GroupBacked, valid
    <3>2. ms \in SUBSET valid(E)
      BY <1>3
    <3>3. QED
      BY <2>1, <2>2, <3>1, <3>2 DEF GroupBacked, valid
  <2>3. CASE id \notin AccountId
    <3> DEFINE agree(F) == {m \in valid(F) : m.payload = payload}
    <3>1. Cardinality(agree(D)) >= QuorumSize
      BY <1>5, <2>3 DEF GroupBacked, valid
    <3>2. agree(D) \subseteq agree(E) /\ agree(E) \subseteq valid(E)
      BY <1>3
    <3>3. IsFiniteSet(agree(E))
      BY <1>4, <3>2, FS_Subset
    <3> HIDE DEF agree
    <3>4. Cardinality(agree(E)) >= QuorumSize
      BY <3>1, <3>2, <3>3, QuorumGrows
    <3>5. QED
      BY <2>1, <2>3, <3>4 DEF GroupBacked, valid, agree
  <2>4. QED
    BY <2>2, <2>3
<1>6. ASSUME NodeBacked(D, from, id, payload)  PROVE NodeBacked(E, from, id, payload)
  <2>1. Cardinality(Senders(KeysIn(E, "ClientKey", from))) >= QuorumSize
    BY <1>2, <1>6 DEF NodeBacked
  <2>2. \E m \in GivenIn(E, "Node", from, id) : m.signed /\ m.payload = payload
    BY <1>1, <1>6 DEF NodeBacked
  <2>3. QED
    BY <2>1, <2>2 DEF NodeBacked
<1>7. QED
  BY <1>5, <1>6

\* A holds the messages in D of a kind, K the keys in D of another.
Holding(A, kindA, namesA, sendersA, K, kindK, namesK, D) ==
  /\ IsFiniteSet(D) /\ \A d \in D : IsMessage(d)
  /\ WellFormed(A, namesA, sendersA, AllMessages) /\ Stored(A, kindA, D)
  /\ WellFormed(K, namesK, Member, AllMessages) /\ Stored(K, kindK, D)
HoldingGroup(A, K, D) ==
  Holding(A, "Group", Group \X MessageId, Member, K, "GroupKey", Group, D)
HoldingNode(A, K, D) ==
  Holding(A, "Node", Client \X MessageId, Client, K, "ClientKey", Client, D)

\* The parts held are given messages, and given keys.
LEMMA PartsGiven ==
  ASSUME NEW a, NEW D, NEW kind, Stored(a, kind, D)
  PROVE  /\ \A from, id : kind \in {"Group", "Node"} /\ <<from, id>> \in DOMAIN a.storage =>
              \A s \in DOMAIN GetAll(a, <<from, id>>) :
                /\ GetAll(a, <<from, id>>)[s] \in GivenIn(D, kind, from, id)
                /\ GetAll(a, <<from, id>>)[s].sender = s
         /\ \A from : kind \in {"GroupKey", "ClientKey"} /\ from \in DOMAIN a.storage =>
              \A s \in DOMAIN GetAll(a, from) :
                LET m == GetAll(a, from)[s]
                IN  m \in D /\ m.kind = kind /\ m.from = from /\ m.sender = s
<1>1. ASSUME NEW from, NEW id, kind \in {"Group", "Node"}, <<from, id>> \in DOMAIN a.storage,
             NEW s \in DOMAIN GetAll(a, <<from, id>>)
      PROVE  /\ GetAll(a, <<from, id>>)[s] \in GivenIn(D, kind, from, id)
             /\ GetAll(a, <<from, id>>)[s].sender = s
  <2> DEFINE m == GetAll(a, <<from, id>>)[s]
  <2>1. m \in D /\ m.kind = kind /\ m.sender = s /\ NameOf(m) = <<from, id>>
    BY <1>1 DEF Stored
  <2> HIDE DEF m
  <2>2. <<m.from, m.id>> = <<from, id>>
    BY <1>1, <2>1 DEF NameOf
  <2>3. QED
    BY <2>1, <2>2 DEF GivenIn, m
<1>2. QED
  BY <1>1 DEF Stored, NameOf

\* A result of a group is backed, and was resolved from a quorum of messages.
LEMMA GroupResult ==
  ASSUME NEW A, NEW K, NEW D, HoldingGroup(A, K, D), NEW g \in Group, NEW id \in MessageId,
         <<g, id>> \in DOMAIN A.storage, g \in DOMAIN K.storage,
         NEW result, result # NoPayload,
         result = ResolveGroup(GetAll(A, <<g, id>>),
                               ValidateGroup(GetAll(A, <<g, id>>), GetAll(K, g)), id)
  PROVE  /\ GroupBacked(D, g, id, result)
         /\ Cardinality(Heard(A, <<g, id>>)) >= QuorumSize
<1> DEFINE messages == GetAll(A, <<g, id>>)
           keys == GetAll(K, g)
           verified == ValidateGroup(messages, keys)
           valid == {m \in GivenIn(D, "Group", g, id) : m.signed /\ m.sender \in KnownIn(D, g)}
<1>0. /\ IsFiniteSet(D) /\ \A d \in D : IsMessage(d)
      /\ WellFormed(A, Group \X MessageId, Member, AllMessages) /\ Stored(A, "Group", D)
      /\ WellFormed(K, Group, Member, AllMessages) /\ Stored(K, "GroupKey", D)
  BY Zenon DEF HoldingGroup, Holding
<1>1. \A s \in DOMAIN messages :
        messages[s] \in GivenIn(D, "Group", g, id) /\ messages[s].sender = s
  BY <1>0, PartsGiven
<1>2. \A s \in DOMAIN keys :
        keys[s] \in D /\ keys[s].kind = "GroupKey" /\ keys[s].from = g /\ keys[s].sender = s
  BY <1>0, PartsGiven
<1>3. Heard(A, <<g, id>>) = DOMAIN messages /\ DOMAIN messages \subseteq Member
  BY <1>0, HeardFacts
<1> HIDE DEF messages, keys
<1>4. Cardinality(verified) >= QuorumSize
  <2>1. verified \subseteq DOMAIN messages
    BY DEF ValidateGroup
  <2>2. Cardinality(verified) \in Nat
    BY <1>3, <2>1, QuorumFacts, FS_Subset, FS_CardinalityType, Zenon
  <2>3. ~(Cardinality(verified) < QuorumSize)
    BY DEF ResolveGroup, messages, keys
  <2>4. QED
    BY <2>2, <2>3, QuorumFacts
<1>5. verified # {}
  BY <1>4, QuorumNotEmpty
<1>6. /\ ~(Cardinality(DOMAIN messages) < QuorumSize)
      /\ ~(Cardinality(DOMAIN keys) < QuorumSize)
      /\ \A s \in verified : /\ s \in DOMAIN messages /\ messages[s].signed
                             /\ \E r \in DOMAIN keys : s \in KeysFrom(r)
  BY <1>5, Zenon DEF ValidateGroup
<1> HIDE DEF verified
<1>7. \A s \in verified : messages[s] \in valid /\ messages[s].sender = s
  <2>1. \A r \in DOMAIN keys : KeysFrom(r) \subseteq KnownIn(D, g)
    BY <1>2, Zenon DEF KnownIn
  <2>2. QED
    BY <1>1, <1>6, <2>1
<1>8. IsFiniteSet(valid)
  <2>1. valid \subseteq D
    BY DEF GivenIn
  <2>2. QED
    BY <1>0, <2>1, FS_Subset, Zenon
<1> HIDE DEF valid
<1>9. Cardinality(Senders(KeysIn(D, "GroupKey", g))) >= QuorumSize
  <2>1. /\ Senders(KeysIn(D, "GroupKey", g)) \subseteq Member
        /\ IsFiniteSet(Senders(KeysIn(D, "GroupKey", g)))
        /\ \A d \in D : d.kind = "GroupKey" /\ d.from = g
                          => d.sender \in Senders(KeysIn(D, "GroupKey", g))
    BY <1>0, KeySenders, Zenon
  <2>2. DOMAIN keys \subseteq Senders(KeysIn(D, "GroupKey", g))
    BY <1>2, <2>1, Zenon
  <2>3. Cardinality(DOMAIN keys) \in Nat
    BY <2>1, <2>2, FS_Subset, FS_CardinalityType, Zenon
  <2>4. Cardinality(DOMAIN keys) >= QuorumSize
    BY <1>6, <2>3, QuorumFacts
  <2>5. QED
    BY <2>1, <2>2, <2>4, QuorumGrows
<1>10. Cardinality(Heard(A, <<g, id>>)) >= QuorumSize
  <2>1. IsFiniteSet(DOMAIN messages)
    BY <1>3, QuorumFacts, FS_Subset
  <2>2. Cardinality(DOMAIN messages) \in Nat
    BY <2>1, FS_CardinalityType, Zenon
  <2>3. QED
    BY <1>3, <1>6, <2>2, QuorumFacts
<1>11. CASE id \in AccountId
  <2> DEFINE ms == {messages[s] : s \in verified}
  <2>1. ms \in SUBSET valid
    BY <1>7
  <2>2. Senders(ms) = verified
    BY <1>7 DEF Senders
  <2>3. ASSUME NEW s \in verified  PROVE (CHOOSE m \in ms : m.sender = s) = messages[s]
    <3>1. messages[s] \in ms /\ messages[s].sender = s
      BY <1>7
    <3>2. \A m \in ms : m.sender = s => m = messages[s]
      BY <1>7
    <3> HIDE DEF ms
    <3>3. QED
      BY <3>1, <3>2
  <2> HIDE DEF ms
  <2>4. [s \in verified |-> messages[s].payload]
          = [s \in Senders(ms) |-> (CHOOSE m \in ms : m.sender = s).payload]
    BY <2>2, <2>3, Zenon
  <2>5. result = Merge([s \in verified |-> messages[s].payload])
    BY <1>4, <1>11 DEF ResolveGroup, messages, keys, verified
  <2>6. result = Merge([s \in Senders(ms) |-> (CHOOSE m \in ms : m.sender = s).payload])
    BY <2>4, <2>5, Zenon
  <2>7. Cardinality(Senders(ms)) >= QuorumSize
    BY <1>4, <2>2, Zenon
  <2>8. QED
    BY <1>9, <1>10, <1>11, <2>1, <2>6, <2>7, Zenon DEF GroupBacked, valid
<1>12. CASE id \notin AccountId
  <2> DEFINE agree == {m \in valid : m.payload = result}
             voters == Agreeing(messages, verified, result)
  <2>1. Cardinality(voters) >= QuorumSize
    <3> DEFINE winners == {p \in Payload :
                 Cardinality(Agreeing(messages, verified, p)) >= QuorumSize}
    <3>1. result = IF winners # {} THEN CHOOSE p \in winners : TRUE ELSE NoPayload
      BY <1>4, <1>12, QuorumFacts, Zenon DEF ResolveGroup, messages, keys, verified
    <3>2. result \in winners
      <4> HIDE DEF winners
      <4> QED  BY <3>1
    <3>3. QED
      BY <3>2, Zenon
  <2>2. voters \subseteq Senders(agree)
    BY <1>7, Zenon DEF Agreeing, Senders
  <2>3. IsFiniteSet(agree)
    BY <1>8, FS_Subset, Zenon
  <2> HIDE DEF agree, voters
  <2>4. IsFiniteSet(Senders(agree)) /\ Cardinality(Senders(agree)) <= Cardinality(agree)
    BY <2>3, SendersFacts, Zenon
  <2>5. Cardinality(Senders(agree)) >= QuorumSize
    BY <2>1, <2>2, <2>4, QuorumGrows, Zenon
  <2>6. Cardinality(Senders(agree)) \in Nat /\ Cardinality(agree) \in Nat
    BY <2>3, <2>4, FS_CardinalityType, Zenon
  <2>7. Cardinality(agree) >= QuorumSize
    BY <2>4, <2>5, <2>6, QuorumFacts
  <2>8. QED
    BY <1>9, <1>10, <1>12, <2>7, Zenon DEF GroupBacked, valid, agree
<1>13. QED
  BY <1>11, <1>12, Zenon

\* A result of a single node is backed.
LEMMA NodeResult ==
  ASSUME NEW A, NEW K, NEW D, HoldingNode(A, K, D), NEW c \in Client, NEW id \in MessageId,
         <<c, id>> \in DOMAIN A.storage, c \in DOMAIN K.storage,
         NEW result, result # NoPayload,
         result = ResolveNode(GetAll(A, <<c, id>>),
                              ValidateNode(GetAll(A, <<c, id>>), GetAll(K, c)))
  PROVE  NodeBacked(D, c, id, result)
<1> DEFINE messages == GetAll(A, <<c, id>>)
           keys == GetAll(K, c)
           verified == ValidateNode(messages, keys)
           winner == CHOOSE s \in verified : TRUE
<1>0. /\ IsFiniteSet(D) /\ \A d \in D : IsMessage(d)
      /\ Stored(A, "Node", D) /\ Stored(K, "ClientKey", D)
  BY Zenon DEF HoldingNode, Holding
<1>1. \A s \in DOMAIN messages :
        messages[s] \in GivenIn(D, "Node", c, id) /\ messages[s].sender = s
  BY <1>0, PartsGiven
<1>2. \A s \in DOMAIN keys :
        keys[s] \in D /\ keys[s].kind = "ClientKey" /\ keys[s].from = c /\ keys[s].sender = s
  BY <1>0, PartsGiven
<1> HIDE DEF messages, keys
<1>3. verified # {} /\ result = messages[winner].payload
  BY DEF ResolveNode, messages, keys
<1>4. winner \in verified
  <2> HIDE DEF verified
  <2> QED  BY <1>3
<1> HIDE DEF winner
<1>5. /\ winner \in DOMAIN messages /\ messages[winner].signed
      /\ Cardinality(DOMAIN keys) >= QuorumSize
  BY <1>4 DEF ValidateNode
<1>6. /\ Senders(KeysIn(D, "ClientKey", c)) \subseteq Member
      /\ IsFiniteSet(Senders(KeysIn(D, "ClientKey", c)))
      /\ \A d \in D : d.kind = "ClientKey" /\ d.from = c
                        => d.sender \in Senders(KeysIn(D, "ClientKey", c))
  BY <1>0, KeySenders, Zenon
<1>7. DOMAIN keys \subseteq Senders(KeysIn(D, "ClientKey", c))
  BY <1>2, <1>6, Zenon
<1>8. Cardinality(Senders(KeysIn(D, "ClientKey", c))) >= QuorumSize
  BY <1>5, <1>6, <1>7, QuorumGrows, Zenon
<1>9. QED
  BY <1>1, <1>3, <1>5, <1>8, Zenon DEF NodeBacked

\* The branch for a single node's message looks for its keys among the messages
\* and so finds too few: it returns nothing.
LEMMA NodeSilent ==
  ASSUME NEW A, NEW D, Stored(A, "Node", D), \A d \in D : IsMessage(d),
         NEW c, NEW id, <<c, id>> \in DOMAIN A.storage
  PROVE  LET messages == GetAll(A, <<c, id>>)
         IN  ResolveNode(messages, ValidateNode(messages, messages)) = NoPayload
<1> DEFINE messages == GetAll(A, <<c, id>>)
<1>1. \A s \in DOMAIN messages :
        messages[s] \in GivenIn(D, "Node", c, id) /\ messages[s].sender = s
  BY PartsGiven
<1> HIDE DEF messages
<1>2. DOMAIN messages \subseteq {c}
  BY <1>1 DEF GivenIn, IsMessage
<1>3. ~(Cardinality(DOMAIN messages) >= QuorumSize)
  <2>1. IsFiniteSet({c}) /\ Cardinality({c}) = 1
    BY FS_Singleton
  <2>2. Cardinality(DOMAIN messages) <= 1 /\ Cardinality(DOMAIN messages) \in Nat
    BY <1>2, <2>1, FS_Subset, FS_CardinalityType, Zenon
  <2>3. QED
    BY <2>2, QuorumFacts
<1>4. ValidateNode(messages, messages) = {}
  BY <1>3 DEF ValidateNode
<1>5. QED
  BY <1>4, Zenon DEF ResolveNode, messages

\* When what suffices for payload is held, Validate and Resolve give a result.
LEMMA GroupAnswer ==
  ASSUME NEW A, NEW K, NEW D, HoldingGroup(A, K, D), OneEach(D),
         NEW g \in Group, NEW id \in MessageId \ AccountId, NEW payload \in Payload,
         GroupEnough(D, g, id, payload),
         Senders(GivenIn(D, "Group", g, id)) \subseteq Heard(A, <<g, id>>),
         Senders(GivenIn(D, "GroupKey", g, id)) \subseteq Heard(K, g)
  PROVE  /\ CheckQuorumReached(A, <<g, id>>, QuorumSize)
         /\ CheckQuorumReached(K, g, QuorumSize)
         /\ ResolveGroup(GetAll(A, <<g, id>>),
                         ValidateGroup(GetAll(A, <<g, id>>), GetAll(K, g)), id) # NoPayload
<1> DEFINE messages == GetAll(A, <<g, id>>)
           keys == GetAll(K, g)
           agreeing == {m \in GivenIn(D, "Group", g, id) : m.signed /\ m.payload = payload}
           vouched == UNION {KeysFrom(s) : s \in Senders(GivenIn(D, "GroupKey", g, id))}
           T == Senders(agreeing) \intersect vouched
           all == {s \in DOMAIN messages \intersect UNION {KeysFrom(r) : r \in DOMAIN keys} :
                     messages[s].signed}
           verified == ValidateGroup(messages, keys)
<1>0. /\ IsFiniteSet(D) /\ \A d \in D : IsMessage(d)
      /\ WellFormed(A, Group \X MessageId, Member, AllMessages) /\ Stored(A, "Group", D)
      /\ WellFormed(K, Group, Member, AllMessages) /\ Stored(K, "GroupKey", D)
  BY DEF HoldingGroup, Holding
<1>1. Cardinality(T) >= QuorumSize /\ Cardinality(GivenIn(D, "GroupKey", g, id)) >= QuorumSize
  BY DEF GroupEnough
<1>3. T \subseteq Heard(A, <<g, id>>)
  BY DEF Senders
<1>4. Cardinality(Heard(K, g)) >= QuorumSize
  <2> DEFINE X == GivenIn(D, "GroupKey", g, id)
  <2>1. IsFiniteSet(X) /\ \A x, y \in X : x.sender = y.sender => x = y
    <3>1. IsFiniteSet(X)
      BY <1>0, GivenFacts
    <3>2. QED
      BY <3>1 DEF GivenIn, OneEach
  <2> HIDE DEF X
  <2>2. Cardinality(Senders(X)) = Cardinality(X)
    BY <2>1, SendersFacts
  <2>3. Heard(K, g) \subseteq Member
    BY <1>0, HeardFacts
  <2>4. IsFiniteSet(Heard(K, g))
    BY <2>3, QuorumFacts, FS_Subset, Zenon
  <2>5. QED
    BY <1>1, <2>2, <2>4, QuorumGrows, Zenon DEF X
<1>5. T # {} /\ Heard(K, g) # {}
  BY <1>1, <1>4, QuorumNotEmpty, Zenon
<1>6. /\ <<g, id>> \in DOMAIN A.storage /\ Heard(A, <<g, id>>) = DOMAIN messages
      /\ g \in DOMAIN K.storage /\ Heard(K, g) = DOMAIN keys
      /\ DOMAIN messages \subseteq Member
  <2> HIDE DEF agreeing, vouched, T, all, verified
  <2>1. /\ WellFormed(A, Group \X MessageId, Member, AllMessages)
        /\ WellFormed(K, Group, Member, AllMessages)
    BY <1>0, Zenon
  <2>2. Heard(A, <<g, id>>) # {}
    BY <1>3, <1>5, Zenon
  <2>3. /\ <<g, id>> \in DOMAIN A.storage /\ Heard(A, <<g, id>>) = DOMAIN messages
        /\ Heard(A, <<g, id>>) \subseteq Member
    BY <2>1, <2>2, HeardFacts
  <2>4. g \in DOMAIN K.storage /\ Heard(K, g) = DOMAIN keys
    BY <1>5, <2>1, HeardFacts
  <2>5. QED
    BY <2>3, <2>4
<1>7. \A s \in DOMAIN messages :
        messages[s] \in GivenIn(D, "Group", g, id) /\ messages[s].sender = s
  <2> HIDE DEF agreeing, vouched, T, all, verified
  <2>1. Stored(A, "Group", D)
    BY <1>0, Zenon
  <2>2. <<g, id>> \in DOMAIN A.storage
    BY <1>6, Zenon
  <2>3. QED
    BY <2>1, <2>2, PartsGiven
<1> HIDE DEF messages, keys
<1>8. ASSUME NEW s \in T
      PROVE  s \in all /\ messages[s].payload = payload
  <2>1. PICK d \in GivenIn(D, "Group", g, id) :
               d.sender = s /\ d.signed /\ d.payload = payload
    BY DEF Senders
  <2>2. s \in DOMAIN messages
    BY <1>3, <1>6, Zenon
  <2>3. messages[s] = d
    BY <1>7, <2>1, <2>2 DEF OneEach, GivenIn
  <2>4. PICK r \in Senders(GivenIn(D, "GroupKey", g, id)) : s \in KeysFrom(r)
    BY Zenon
  <2>5. r \in DOMAIN keys
    BY <1>6
  <2>6. QED
    BY <2>1, <2>2, <2>3, <2>4, <2>5, Zenon
<1>9. IsFiniteSet(DOMAIN messages) /\ IsFiniteSet(all)
  BY <1>6, QuorumFacts, FS_Subset, Zenon
<1>10. Cardinality(DOMAIN messages) >= QuorumSize /\ Cardinality(all) >= QuorumSize
  <2>1. T \subseteq DOMAIN messages /\ T \subseteq all
    BY <1>3, <1>6, <1>8, Zenon
  <2> HIDE DEF T, all
  <2>2. QED
    BY <1>1, <1>9, <2>1, QuorumGrows
<1>11. Cardinality(DOMAIN keys) >= QuorumSize
  BY <1>4, <1>6, Zenon
<1>12. verified = all
  <2>1. /\ Cardinality(DOMAIN messages) \in Nat /\ Cardinality(all) \in Nat
    BY <1>9, FS_CardinalityType
  <2>2. /\ ~(Cardinality(DOMAIN messages) < QuorumSize)
        /\ ~(Cardinality(all) < QuorumSize)
    BY <1>10, <2>1, QuorumFacts
  <2>3. ~(Cardinality(DOMAIN keys) < QuorumSize)
    <3>1. Heard(K, g) \subseteq Member
      BY <1>0, HeardFacts
    <3>2. Cardinality(DOMAIN keys) \in Nat
      BY <1>6, <3>1, QuorumFacts, FS_Subset, FS_CardinalityType, Zenon
    <3>3. QED
      BY <1>11, <3>2, QuorumFacts
  <2>4. QED
    BY <2>2, <2>3 DEF ValidateGroup
<1>13. Cardinality(Agreeing(messages, all, payload)) >= QuorumSize
  <2>1. T \subseteq Agreeing(messages, all, payload)
    BY <1>8 DEF Agreeing
  <2>2. Agreeing(messages, all, payload) \subseteq all
    BY DEF Agreeing
  <2> HIDE DEF T, all
  <2>3. IsFiniteSet(Agreeing(messages, all, payload))
    BY <1>9, <2>2, FS_Subset, Zenon
  <2>4. QED
    BY <1>1, <2>1, <2>3, QuorumGrows, Zenon
<1>14. ResolveGroup(messages, all, id) # NoPayload
  <2> HIDE DEF all
  <2> DEFINE winners == {p \in Payload :
               Cardinality(Agreeing(messages, all, p)) >= QuorumSize}
  <2>1. winners # {} /\ winners \subseteq Payload
    BY <1>13
  <2>2. ~(Cardinality(all) < QuorumSize)
    BY <1>9, <1>10, QuorumFacts, FS_CardinalityType
  <2>3. ResolveGroup(messages, all, id) = CHOOSE p \in winners : TRUE
    BY <2>1, <2>2 DEF ResolveGroup
  <2> HIDE DEF winners
  <2>4. ResolveGroup(messages, all, id) \in Payload
    BY <2>1, <2>3, Zenon
  <2>5. QED
    BY <2>4, SentinelAssumption
<1>15. QED
  BY <1>6, <1>10, <1>11, <1>12, <1>14, Zenon DEF CheckQuorumReached, HaveName, messages, keys

\* The same for a single node.
LEMMA NodeAnswer ==
  ASSUME NEW A, NEW K, NEW D, HoldingNode(A, K, D), OneEach(D),
         NEW c \in Client, NEW id \in MessageId, NodeEnough(D, c, id),
         Senders(GivenIn(D, "Node", c, id)) \subseteq Heard(A, <<c, id>>),
         Senders(GivenIn(D, "ClientKey", c, id)) \subseteq Heard(K, c)
  PROVE  /\ <<c, id>> \in DOMAIN A.storage
         /\ CheckQuorumReached(K, c, QuorumSize)
         /\ ResolveNode(GetAll(A, <<c, id>>),
                        ValidateNode(GetAll(A, <<c, id>>), GetAll(K, c))) # NoPayload
<1> DEFINE messages == GetAll(A, <<c, id>>)
           keys == GetAll(K, c)
           verified == ValidateNode(messages, keys)
<1>0. /\ IsFiniteSet(D) /\ \A d \in D : IsMessage(d)
      /\ WellFormed(A, Client \X MessageId, Client, AllMessages) /\ Stored(A, "Node", D)
      /\ WellFormed(K, Client, Member, AllMessages) /\ Stored(K, "ClientKey", D)
  BY DEF HoldingNode, Holding
<1>1. PICK m \in GivenIn(D, "Node", c, id) : m.signed
  BY DEF NodeEnough
<1>2. m.sender \in Heard(A, <<c, id>>)
  BY <1>1 DEF Senders
<1>3. /\ <<c, id>> \in DOMAIN A.storage /\ Heard(A, <<c, id>>) = DOMAIN messages
  BY <1>0, <1>2, HeardFacts
<1>4. \A s \in DOMAIN messages :
        messages[s] \in GivenIn(D, "Node", c, id) /\ messages[s].sender = s
  BY <1>0, <1>3, PartsGiven
<1>5. Cardinality(Heard(K, c)) >= QuorumSize
  <2> DEFINE X == GivenIn(D, "ClientKey", c, id)
  <2>1. IsFiniteSet(X)
    BY <1>0, GivenFacts
  <2>2. \A x, y \in X : x.sender = y.sender => x = y
    BY DEF GivenIn, OneEach
  <2> HIDE DEF X
  <2>3. Cardinality(Senders(X)) = Cardinality(X)
    BY <2>1, <2>2, SendersFacts, Zenon
  <2>4. Heard(K, c) \subseteq Member
    BY <1>0, HeardFacts
  <2>5. IsFiniteSet(Heard(K, c))
    BY <2>4, QuorumFacts, FS_Subset, Zenon
  <2>6. QED
    BY <2>3, <2>5, QuorumGrows, Zenon DEF X, NodeEnough
<1>6. c \in DOMAIN K.storage /\ Heard(K, c) = DOMAIN keys
  BY <1>0, <1>5, QuorumNotEmpty, HeardFacts
<1> HIDE DEF messages, keys
<1>7. messages[m.sender] = m
  BY <1>1, <1>2, <1>3, <1>4 DEF OneEach, GivenIn
<1>8. m.sender \in verified
  BY <1>1, <1>2, <1>3, <1>5, <1>6, <1>7, Zenon DEF ValidateNode
<1>9. \A s \in verified : messages[s].payload \in Payload
  <2>1. verified \subseteq DOMAIN messages
    BY DEF ValidateNode
  <2>2. QED
    BY <1>0, <1>4, <2>1 DEF GivenIn, IsMessage
<1> HIDE DEF verified
<1>10. ResolveNode(messages, verified) \in Payload
  BY <1>8, <1>9, Zenon DEF ResolveNode
<1>11. ResolveNode(messages, verified) # NoPayload
  BY <1>10, SentinelAssumption
<1>12. QED
  BY <1>3, <1>5, <1>6, <1>11, Zenon DEF CheckQuorumReached, HaveName, messages, keys, verified

\* Two payloads with a quorum each are one payload: the quorums have a sender in
\* common, and it sent one message.
LEMMA GroupAgree ==
  ASSUME NEW D, IsFiniteSet(D), \A d \in D : IsMessage(d), OneEach(D),
         NEW g, NEW id \in MessageId \ AccountId, NEW p, NEW q,
         GroupBacked(D, g, id, p), GroupEnough(D, g, id, q)
  PROVE  p = q
<1> DEFINE valid == {m \in GivenIn(D, "Group", g, id) : m.signed /\ m.sender \in KnownIn(D, g)}
           X == {m \in valid : m.payload = p}
           Y == {m \in GivenIn(D, "Group", g, id) : m.signed /\ m.payload = q}
           vouched == UNION {KeysFrom(s) : s \in Senders(GivenIn(D, "GroupKey", g, id))}
           T == Senders(Y) \intersect vouched
<1>1. Cardinality(X) >= QuorumSize /\ Cardinality(T) >= QuorumSize
  BY DEF GroupBacked, GroupEnough
<1>2. /\ IsFiniteSet(GivenIn(D, "Group", g, id))
      /\ Senders(GivenIn(D, "Group", g, id)) \subseteq Member
  BY GivenFacts
<1>3. X \subseteq GivenIn(D, "Group", g, id) /\ Y \subseteq GivenIn(D, "Group", g, id)
  OBVIOUS
<1>4. IsFiniteSet(X)
  BY <1>2, <1>3, FS_Subset, Zenon
<1>5. \A x, y \in GivenIn(D, "Group", g, id) : x.sender = y.sender => x = y
  BY DEF GivenIn, OneEach
<1>6. (\A x \in X : x.payload = p) /\ (\A y \in Y : y.payload = q)
  OBVIOUS
<1>7. Senders(X) \in SUBSET Member /\ T \in SUBSET Member
  BY <1>2, <1>3, Zenon DEF Senders
<1> HIDE DEF X, Y
<1>8. Cardinality(Senders(X)) >= QuorumSize
  BY <1>1, <1>3, <1>4, <1>5, SendersFacts, Zenon
<1>9. PICK s \in Senders(X) : s \in T
  <2> HIDE DEF T
  <2> QED  BY <1>1, <1>7, <1>8, QuorumsMeet, Zenon
<1>10. PICK x \in X, y \in Y : x.sender = s /\ y.sender = s
  BY <1>9 DEF Senders
<1>11. QED
  BY <1>3, <1>5, <1>6, <1>10, Zenon

\* What was returned for a single node is what it sent.
LEMMA NodeAgree ==
  ASSUME NEW D, \A d \in D : IsMessage(d), OneEach(D), NEW c, NEW id, NEW p,
         NodeBacked(D, c, id, p), NEW m \in GivenIn(D, "Node", c, id)
  PROVE  m.payload = p
<1>1. PICK n \in GivenIn(D, "Node", c, id) : n.payload = p
  BY Zenon DEF NodeBacked
<1>2. m.sender = n.sender
  BY DEF GivenIn, IsMessage
<1>3. QED
  BY <1>1, <1>2 DEF GivenIn, OneEach
=============================================================================
