-------------------------- MODULE SentinelProofs --------------------------
(***************************************************************************)
(* Proofs about Sentinel, for any groups, clients, ids, payloads, keys and *)
(* messages, any quorum over half of the members, and any way of merging   *)
(* accounts: the inductive invariant, that every step keeps it, and the    *)
(* theorems.                                                               *)
(***************************************************************************)
EXTENDS SentinelQuorumProofs

(***************************************************************************)
(* The inductive invariant.                                                *)
(***************************************************************************)

TypeInv ==
  /\ WellFormed(node_accumulator_, Client \X MessageId, Client, AllMessages)
  /\ WellFormed(group_accumulator_, Group \X MessageId, Member, AllMessages)
  /\ WellFormed(node_key_accumulator_, Client, Member, AllMessages)
  /\ WellFormed(group_key_accumulator_, Group, Member, AllMessages)
  /\ clock \in Nat
  /\ scenario \in DOMAIN Scenario
  /\ IsFiniteSet(delivered)
  /\ \A d \in delivered : IsMessage(d)
  /\ DOMAIN resolved = (Group \union Client) \X MessageId

StoredInv ==
  /\ OneEach(delivered)
  /\ Stored(node_accumulator_, "Node", delivered)
  /\ Stored(group_accumulator_, "Group", delivered)
  /\ Stored(node_key_accumulator_, "ClientKey", delivered)
  /\ Stored(group_key_accumulator_, "GroupKey", delivered)

\* The keys of a client are requested, and come, after a message of it.
RequestInv ==
  /\ \A c \in Client, id \in MessageId :
       <<c, id>> \in requested => GivenIn(delivered, "Node", c, id) # {}
  /\ \A d \in delivered :
       d.kind = "ClientKey" => GivenIn(delivered, "Node", d.from, d.id) # {}

\* What was returned for k, if anything, is one payload.
Returned(k) == resolved[k] # <<>>
OneResult(k) == resolved[k] = <<resolved[k][1]>>

ResultInv ==
  /\ \A g \in Group, id \in MessageId :
       Returned(<<g, id>>) => /\ OneResult(<<g, id>>)
                              /\ GroupBacked(delivered, g, id, resolved[<<g, id>>][1])
  /\ \A c \in Client, id \in MessageId :
       Returned(<<c, id>>) => /\ OneResult(<<c, id>>)
                              /\ NodeBacked(delivered, c, id, resolved[<<c, id>>][1])

\* Once a result was returned, the messages of a quorum are used up: they are
\* not in the accumulator, and their senders do not send them again.
SpentInv ==
  /\ \A g \in Group, id \in MessageId :
       Returned(<<g, id>>) =>
         \E U \in SUBSET Member :
           /\ Cardinality(U) >= QuorumSize
           /\ U \subseteq Senders(GivenIn(delivered, "Group", g, id))
           /\ U \intersect Heard(group_accumulator_, <<g, id>>) = {}
  /\ \A c \in Client, id \in MessageId :
       Returned(<<c, id>>) => Heard(node_accumulator_, <<c, id>>) = {}

\* Before anything expires, the accumulators hold all that was delivered and
\* is not used up, and what suffices for a result has given one.
HeldInv ==
  /\ \A g \in Group, id \in MessageId :
       /\ ~Returned(<<g, id>>) =>
            Senders(GivenIn(delivered, "Group", g, id)) \subseteq Heard(group_accumulator_, <<g, id>>)
       /\ Senders(GivenIn(delivered, "GroupKey", g, id)) \subseteq Heard(group_key_accumulator_, g)
       /\ \A payload \in Payload :
            id \notin AccountId /\ GroupEnough(delivered, g, id, payload) => Returned(<<g, id>>)
  /\ \A c \in Client, id \in MessageId :
       /\ ~Returned(<<c, id>>) =>
            Senders(GivenIn(delivered, "Node", c, id)) \subseteq Heard(node_accumulator_, <<c, id>>)
       /\ Senders(GivenIn(delivered, "ClientKey", c, id)) \subseteq Heard(node_key_accumulator_, c)
       /\ NodeEnough(delivered, c, id) => Returned(<<c, id>>)

SentinelInv ==
  /\ TypeInv /\ StoredInv /\ RequestInv /\ ResultInv /\ SpentInv
  /\ clock <= TimeToLive => HeldInv

-----------------------------------------------------------------------------
(***************************************************************************)
(* A step for a group: m, a message or a key response of group g, arrives; *)
(* A and K are the accumulators of messages and keys after its Add, and    *)
(* result is what is returned.                                             *)
(***************************************************************************)

GroupStep(m, A, K, g, id, result) ==
  LET key == <<g, id>>
      messages == GetAll(A, key)
      resolution == ResolveGroup(messages, ValidateGroup(messages, GetAll(K, g)), id)
  IN  /\ IsMessage(m) /\ Fresh(m) /\ m.kind \in {"Group", "GroupKey"}
      /\ m.from = g /\ m.id = id /\ g \in Group /\ id \in MessageId
      /\ delivered' = delivered \union {m}
      /\ HoldingGroup(A, K, delivered')
      /\ \A k : k # key => Heard(A, k) \subseteq Heard(group_accumulator_, k)
      /\ \A s \in Heard(A, key) :
           s \in Heard(group_accumulator_, key) \/ (m.kind = "Group" /\ s = m.sender)
      /\ clock <= TimeToLive =>
           /\ \A k : Heard(group_accumulator_, k) \subseteq Heard(A, k)
           /\ \A k : Heard(group_key_accumulator_, k) \subseteq Heard(K, k)
      /\ m.kind = "Group" => m.sender \in Heard(A, key)
      /\ m.kind = "GroupKey" => m.sender \in Heard(K, g)
      /\ result # NoPayload =>
           key \in DOMAIN A.storage /\ g \in DOMAIN K.storage /\ result = resolution
      /\ CheckQuorumReached(A, key, QuorumSize) /\ CheckQuorumReached(K, g, QuorumSize)
           => result = resolution
      /\ group_accumulator_' = AfterReturn(A, key, result)
      /\ group_key_accumulator_' = K
      /\ Return(key, result)
      /\ UNCHANGED <<node_accumulator_, node_key_accumulator_, clock, scenario>>

\* The messages given after m arrived.
LEMMA GivenAfter ==
  ASSUME NEW D, NEW m, NEW kind, NEW from, NEW id
  PROVE  /\ GivenIn(D, kind, from, id) \subseteq GivenIn(D \union {m}, kind, from, id)
         /\ ~(m.kind = kind /\ m.from = from /\ m.id = id) =>
              GivenIn(D \union {m}, kind, from, id) = GivenIn(D, kind, from, id)
         /\ Senders(GivenIn(D \union {m}, kind, from, id))
              \subseteq Senders(GivenIn(D, kind, from, id)) \union {m.sender}
         /\ Senders(GivenIn(D, kind, from, id))
              \subseteq Senders(GivenIn(D \union {m}, kind, from, id))
BY DEF GivenIn, Senders

\* A fresh message is not one its sender sent before.
LEMMA FreshFacts ==
  ASSUME NEW m, Fresh(m)
  PROVE  /\ OneEach(delivered) => OneEach(delivered \union {m})
         /\ m.sender \notin Senders(GivenIn(delivered, m.kind, m.from, m.id))
<1>1. \A d \in delivered :
        ~(d.kind = m.kind /\ d.from = m.from /\ d.sender = m.sender /\ d.id = m.id)
  BY DEF Fresh
<1>2. QED
  BY <1>1 DEF OneEach, Senders, GivenIn

\* Adding a message keeps deliveries finite.
LEMMA DeliveredAfter ==
  ASSUME TypeInv, NEW m, IsMessage(m), delivered' = delivered \union {m}
  PROVE  /\ IsFiniteSet(delivered') /\ \A d \in delivered' : IsMessage(d)
         /\ delivered \subseteq delivered'
<1>1. IsFiniteSet(delivered \union {m})
  BY FS_AddElement DEF TypeInv
<1>2. \A d \in delivered' : IsMessage(d)
  BY DEF TypeInv
<1>3. QED
  BY <1>1, <1>2

\* Types and stored messages.
LEMMA GroupTypes ==
  ASSUME SentinelInv, NEW m, NEW A, NEW K, NEW g, NEW id, NEW result,
         GroupStep(m, A, K, g, id, result)
  PROVE  TypeInv' /\ StoredInv'
<1>1. /\ TypeInv /\ StoredInv
      /\ g \in Group /\ id \in MessageId /\ IsMessage(m) /\ Fresh(m)
      /\ delivered' = delivered \union {m}
      /\ HoldingGroup(A, K, delivered')
      /\ group_accumulator_' = AfterReturn(A, <<g, id>>, result)
      /\ group_key_accumulator_' = K
      /\ node_accumulator_' = node_accumulator_
      /\ node_key_accumulator_' = node_key_accumulator_
      /\ clock' = clock /\ scenario' = scenario
      /\ Return(<<g, id>>, result)
  BY Zenon DEF SentinelInv, GroupStep
<1>2. /\ IsFiniteSet(delivered') /\ \A d \in delivered' : IsMessage(d)
      /\ delivered \subseteq delivered'
  BY <1>1, DeliveredAfter
<1>3. /\ WellFormed(A, Group \X MessageId, Member, AllMessages) /\ Stored(A, "Group", delivered')
      /\ WellFormed(K, Group, Member, AllMessages) /\ Stored(K, "GroupKey", delivered')
  BY <1>1 DEF HoldingGroup, Holding
<1>4. /\ WellFormed(group_accumulator_', Group \X MessageId, Member, AllMessages)
      /\ Stored(group_accumulator_', "Group", delivered')
  <2>1. <<g, id>> \in Group \X MessageId
    BY <1>1
  <2>2. QED
    BY <1>1, <1>3, <2>1, AfterReturnFacts
<1>5. /\ Stored(node_accumulator_, "Node", delivered')
      /\ Stored(node_key_accumulator_, "ClientKey", delivered')
  BY <1>1, <1>2, StoredGrows DEF StoredInv
<1>6. DOMAIN resolved' = DOMAIN resolved
  BY <1>1 DEF Return
<1>7. TypeInv'
  BY <1>1, <1>2, <1>3, <1>4, <1>6, Zenon DEF TypeInv
<1>8. OneEach(delivered')
  BY <1>1, FreshFacts, Zenon DEF StoredInv
<1>9. StoredInv'
  BY <1>1, <1>3, <1>4, <1>5, <1>8, SMTT(30) DEF StoredInv, Stored
<1>10. QED
  BY <1>7, <1>9

\* A result is the first for its source and id, and is backed.
LEMMA GroupOnce ==
  ASSUME SentinelInv, NEW m, NEW A, NEW K, NEW g, NEW id, NEW result,
         GroupStep(m, A, K, g, id, result), result # NoPayload
  PROVE  /\ GroupBacked(delivered', g, id, result)
         /\ Heard(A, <<g, id>>) \in SUBSET Member
         /\ Cardinality(Heard(A, <<g, id>>)) >= QuorumSize
         /\ Heard(A, <<g, id>>) \subseteq Senders(GivenIn(delivered', "Group", g, id))
         /\ ~Returned(<<g, id>>)
<1>1. /\ g \in Group /\ id \in MessageId /\ Fresh(m) /\ m.from = g /\ m.id = id
      /\ HoldingGroup(A, K, delivered')
      /\ <<g, id>> \in DOMAIN A.storage /\ g \in DOMAIN K.storage
      /\ result = ResolveGroup(GetAll(A, <<g, id>>),
                               ValidateGroup(GetAll(A, <<g, id>>), GetAll(K, g)), id)
      /\ \A s \in Heard(A, <<g, id>>) :
           s \in Heard(group_accumulator_, <<g, id>>) \/ (m.kind = "Group" /\ s = m.sender)
  BY Zenon DEF GroupStep
<1>2. /\ GroupBacked(delivered', g, id, result)
      /\ Cardinality(Heard(A, <<g, id>>)) >= QuorumSize
  BY <1>1, GroupResult, Zenon
<1>3. /\ WellFormed(A, Group \X MessageId, Member, AllMessages)
      /\ Stored(A, "Group", delivered')
  BY <1>1, Zenon DEF HoldingGroup, Holding
<1>4. /\ Heard(A, <<g, id>>) \subseteq Member
      /\ Heard(A, <<g, id>>) = DOMAIN GetAll(A, <<g, id>>)
  BY <1>1, <1>3, HeardFacts, SMTT(30)
<1>5. \A s \in DOMAIN GetAll(A, <<g, id>>) :
        /\ GetAll(A, <<g, id>>)[s] \in GivenIn(delivered', "Group", g, id)
        /\ GetAll(A, <<g, id>>)[s].sender = s
  BY <1>1, <1>3, PartsGiven, SMTT(30)
<1>6. Heard(A, <<g, id>>) \subseteq Senders(GivenIn(delivered', "Group", g, id))
  BY <1>4, <1>5, Zenon DEF Senders
<1>7. ASSUME Returned(<<g, id>>)  PROVE FALSE
  <2>1. PICK U \in SUBSET Member :
          /\ Cardinality(U) >= QuorumSize
          /\ U \subseteq Senders(GivenIn(delivered, "Group", g, id))
          /\ U \intersect Heard(group_accumulator_, <<g, id>>) = {}
    BY <1>1, <1>7, Zenon DEF SentinelInv, SpentInv
  <2>2. PICK s \in U : s \in Heard(A, <<g, id>>)
    BY <1>2, <1>4, <2>1, QuorumsMeet
  <2>3. m.kind = "Group" /\ s = m.sender
    BY <1>1, <2>1, <2>2, Zenon
  <2>4. QED
    BY <1>1, <2>1, <2>2, <2>3, FreshFacts, Zenon
<1>8. QED
  BY <1>2, <1>4, <1>6, <1>7, Zenon

\* What has been returned, after the return of a first result or of none.
Resolves(from, id, result) ==
  /\ \A f \in Group \union Client, j \in MessageId :
       <<f, j>> # <<from, id>> => resolved'[<<f, j>>] = resolved[<<f, j>>]
  /\ result = NoPayload => resolved' = resolved
  /\ result # NoPayload => /\ resolved'[<<from, id>>] = <<result>>
                           /\ resolved'[<<from, id>>] # <<>>
                           /\ resolved'[<<from, id>>][1] = result
  /\ Returned(<<from, id>>) => resolved'[<<from, id>>] = resolved[<<from, id>>]

LEMMA ResolvedAfter ==
  ASSUME TypeInv, NEW from \in Group \union Client, NEW id \in MessageId, NEW result,
         Return(<<from, id>>, result), result # NoPayload => ~Returned(<<from, id>>)
  PROVE  Resolves(from, id, result)
<1> DEFINE key == <<from, id>>
<1>0. DOMAIN resolved = (Group \union Client) \X MessageId /\ key \in DOMAIN resolved
  BY DEF TypeInv
<1>1. CASE result = NoPayload
  BY <1>1 DEF Return, Resolves
<1>2. CASE result # NoPayload
  <2>1. resolved' = [resolved EXCEPT ![key] = Append(resolved[key], result)]
    BY <1>2 DEF Return
  <2>2. resolved[key] = <<>>
    BY <1>2 DEF Returned
  <2>3. Append(<<>>, result) = <<result>>
    OBVIOUS
  <2>4. resolved'[key] = <<result>>
    BY <1>0, <2>1, <2>2, <2>3, Zenon
  <2>5. <<result>> # <<>> /\ <<result>>[1] = result
    OBVIOUS
  <2>6. \A k \in (Group \union Client) \X MessageId : k # key => resolved'[k] = resolved[k]
    BY <1>0, <2>1
  <2>7. QED
    BY <1>2, <2>2, <2>4, <2>5, <2>6, Zenon DEF Returned, Resolves
<1>3. QED
  BY <1>1, <1>2

\* The names of groups are not names of clients.
LEMMA NamesApart ==
  ASSUME NEW g \in Group, NEW c \in Client, NEW i, NEW j
  PROVE  <<g, i>> # <<c, j>> /\ g # c
BY SentinelAssumption

LEMMA GroupResolved ==
  ASSUME SentinelInv, NEW m, NEW A, NEW K, NEW g, NEW id, NEW result,
         GroupStep(m, A, K, g, id, result)
  PROVE  Resolves(g, id, result)
<1>1. TypeInv /\ g \in Group /\ id \in MessageId /\ Return(<<g, id>>, result)
  BY Zenon DEF SentinelInv, GroupStep
<1>2. result # NoPayload => ~Returned(<<g, id>>)
  BY GroupOnce, Zenon
<1>3. QED
  BY <1>1, <1>2, ResolvedAfter

LEMMA GroupResults ==
  ASSUME SentinelInv, NEW m, NEW A, NEW K, NEW g, NEW id, NEW result,
         GroupStep(m, A, K, g, id, result)
  PROVE  ResultInv'
<1>1. /\ \A f \in Group, j \in MessageId :
           <<f, j>> # <<g, id>> => resolved'[<<f, j>>] = resolved[<<f, j>>]
      /\ \A c \in Client, j \in MessageId : resolved'[<<c, j>>] = resolved[<<c, j>>]
      /\ result = NoPayload => resolved' = resolved
      /\ result # NoPayload =>
           /\ resolved'[<<g, id>>] = <<result>>
           /\ resolved'[<<g, id>>] # <<>> /\ resolved'[<<g, id>>][1] = result
  <2>1. Resolves(g, id, result)
    BY GroupResolved
  <2>2. g \in Group
    BY Zenon DEF GroupStep
  <2>3. \A c \in Client, j \in MessageId : <<c, j>> # <<g, id>>
    BY <2>2, NamesApart
  <2>4. QED
    BY <2>1, <2>3, Zenon DEF Resolves
<1>2. /\ IsFiniteSet(delivered') /\ \A d \in delivered' : IsMessage(d)
      /\ delivered \subseteq delivered'
  BY DeliveredAfter, Zenon DEF SentinelInv, GroupStep
<1>3. \A from, j, p : GroupBacked(delivered, from, j, p) => GroupBacked(delivered', from, j, p)
  BY <1>2, BackedGrows
<1>4. \A from, j, p : NodeBacked(delivered, from, j, p) => NodeBacked(delivered', from, j, p)
  BY <1>2, BackedGrows
<1>5. ResultInv
  BY DEF SentinelInv
<1>6. ASSUME NEW f \in Group, NEW j \in MessageId, resolved'[<<f, j>>] # <<>>
      PROVE  /\ resolved'[<<f, j>>] = <<resolved'[<<f, j>>][1]>>
             /\ GroupBacked(delivered', f, j, resolved'[<<f, j>>][1])
  <2>1. CASE <<f, j>> = <<g, id>> /\ result # NoPayload
    <3>1. GroupBacked(delivered', g, id, result)
      BY <2>1, GroupOnce, Zenon
    <3>2. f = g /\ j = id
      BY <2>1
    <3>3. QED
      BY <1>1, <2>1, <3>1, <3>2, Zenon
  <2>2. CASE <<f, j>> # <<g, id>> \/ result = NoPayload
    <3>1. resolved'[<<f, j>>] = resolved[<<f, j>>]
      BY <1>1, <2>2
    <3>2. OneResult(<<f, j>>) /\ GroupBacked(delivered, f, j, resolved[<<f, j>>][1])
      BY <1>5, <1>6, <3>1, Zenon DEF ResultInv, Returned
    <3>3. GroupBacked(delivered', f, j, resolved[<<f, j>>][1])
      BY <1>3, <3>2, Zenon
    <3>4. QED
      BY <3>1, <3>2, <3>3 DEF OneResult
  <2>3. QED
    BY <2>1, <2>2, Zenon
<1>7. ASSUME NEW c \in Client, NEW j \in MessageId, resolved'[<<c, j>>] # <<>>
      PROVE  /\ resolved'[<<c, j>>] = <<resolved'[<<c, j>>][1]>>
             /\ NodeBacked(delivered', c, j, resolved'[<<c, j>>][1])
  <2>1. resolved'[<<c, j>>] = resolved[<<c, j>>]
    BY <1>1
  <2>2. OneResult(<<c, j>>) /\ NodeBacked(delivered, c, j, resolved[<<c, j>>][1])
    BY <1>5, <1>7, <2>1, Zenon DEF ResultInv, Returned
  <2>3. NodeBacked(delivered', c, j, resolved[<<c, j>>][1])
    BY <1>4, <2>2
  <2>4. QED
    BY <2>1, <2>2, <2>3 DEF OneResult
<1>8. QED
  BY <1>6, <1>7 DEF ResultInv, Returned, OneResult

LEMMA GroupSpent ==
  ASSUME SentinelInv, NEW m, NEW A, NEW K, NEW g, NEW id, NEW result,
         GroupStep(m, A, K, g, id, result)
  PROVE  SpentInv'
<1>1. /\ \A f \in Group, j \in MessageId :
           <<f, j>> # <<g, id>> => resolved'[<<f, j>>] = resolved[<<f, j>>]
      /\ \A c \in Client, j \in MessageId : resolved'[<<c, j>>] = resolved[<<c, j>>]
      /\ result = NoPayload => resolved' = resolved
  <2>1. Resolves(g, id, result)
    BY GroupResolved
  <2>2. g \in Group
    BY Zenon DEF GroupStep
  <2>3. \A c \in Client, j \in MessageId : <<c, j>> # <<g, id>>
    BY <2>2, NamesApart
  <2>4. QED
    BY <2>1, <2>3, Zenon DEF Resolves
<1>2. /\ g \in Group /\ id \in MessageId /\ Fresh(m) /\ m.from = g /\ m.id = id
      /\ delivered' = delivered \union {m}
      /\ HoldingGroup(A, K, delivered')
      /\ \A k : k # <<g, id>> => Heard(A, k) \subseteq Heard(group_accumulator_, k)
      /\ \A s \in Heard(A, <<g, id>>) :
           s \in Heard(group_accumulator_, <<g, id>>) \/ (m.kind = "Group" /\ s = m.sender)
      /\ group_accumulator_' = AfterReturn(A, <<g, id>>, result)
      /\ node_accumulator_' = node_accumulator_
  BY Zenon DEF GroupStep
<1>3. /\ result # NoPayload => Heard(group_accumulator_', <<g, id>>) = {}
      /\ result = NoPayload => group_accumulator_' = A
      /\ \A k : k # <<g, id>> => Heard(group_accumulator_', k) = Heard(A, k)
  <2>1. WellFormed(A, Group \X MessageId, Member, AllMessages) /\ Stored(A, "Group", delivered')
    BY <1>2 DEF HoldingGroup, Holding
  <2>2. <<g, id>> \in Group \X MessageId
    BY <1>2
  <2>3. QED
    BY <1>2, <2>1, <2>2, AfterReturnFacts, SMTT(30)
<1>4. \A f, j : Senders(GivenIn(delivered, "Group", f, j))
                  \subseteq Senders(GivenIn(delivered', "Group", f, j))
  BY <1>2, GivenAfter, Zenon
<1>5. SpentInv
  BY DEF SentinelInv
<1> DEFINE Spends(f, j) ==
      \E U \in SUBSET Member :
        /\ Cardinality(U) >= QuorumSize
        /\ U \subseteq Senders(GivenIn(delivered', "Group", f, j))
        /\ U \intersect Heard(group_accumulator_', <<f, j>>) = {}
<1>6. ASSUME NEW f \in Group, NEW j \in MessageId, resolved'[<<f, j>>] # <<>>
      PROVE  Spends(f, j)
  <2>1. CASE <<f, j>> = <<g, id>> /\ result # NoPayload
    <3>1. /\ Heard(A, <<g, id>>) \in SUBSET Member
          /\ Cardinality(Heard(A, <<g, id>>)) >= QuorumSize
          /\ Heard(A, <<g, id>>) \subseteq Senders(GivenIn(delivered', "Group", g, id))
      BY <2>1, GroupOnce, Zenon
    <3>2. f = g /\ j = id
      BY <2>1
    <3>3. QED
      BY <1>3, <2>1, <3>1, <3>2, Zenon
  <2>2. CASE <<f, j>> # <<g, id>> \/ result = NoPayload
    <3>1. resolved[<<f, j>>] # <<>>
      BY <1>1, <1>6, <2>2, Zenon
    <3>2. PICK U \in SUBSET Member :
            /\ Cardinality(U) >= QuorumSize
            /\ U \subseteq Senders(GivenIn(delivered, "Group", f, j))
            /\ U \intersect Heard(group_accumulator_, <<f, j>>) = {}
      BY <1>5, <3>1 DEF SpentInv, Returned
    <3>3. U \subseteq Senders(GivenIn(delivered', "Group", f, j))
      BY <1>4, <3>2
    <3>4. U \intersect Heard(group_accumulator_', <<f, j>>) = {}
      <4>1. CASE <<f, j>> # <<g, id>>
        BY <1>2, <1>3, <3>2, <4>1, Zenon
      <4>2. CASE <<f, j>> = <<g, id>> /\ result = NoPayload
        <5>1. f = g /\ j = id
          BY <4>2
        <5>2. m.kind = "Group" => m.sender \notin U
          BY <1>2, <3>2, <5>1, FreshFacts, Zenon
        <5>3. QED
          BY <1>2, <1>3, <3>2, <4>2, <5>1, <5>2
      <4>3. QED
        BY <2>2, <4>1, <4>2, Zenon
    <3>5. QED
      BY <3>2, <3>3, <3>4, Zenon
  <2>3. QED
    BY <2>1, <2>2
<1>7. \A c \in Client, j \in MessageId :
        resolved'[<<c, j>>] # <<>> => Heard(node_accumulator_', <<c, j>>) = {}
  <2>1. node_accumulator_' = node_accumulator_
    BY <1>2, Zenon
  <2>2. \A c \in Client, j \in MessageId :
          resolved[<<c, j>>] # <<>> => Heard(node_accumulator_, <<c, j>>) = {}
    BY <1>5, Zenon DEF SpentInv, Returned
  <2>3. QED
    BY <1>1, <2>1, <2>2, Zenon
<1>8. QED
  BY <1>6, <1>7, Zenon DEF SpentInv, Returned, Heard

LEMMA GroupHeld ==
  ASSUME SentinelInv, NEW m, NEW A, NEW K, NEW g, NEW id, NEW result,
         GroupStep(m, A, K, g, id, result), clock <= TimeToLive
  PROVE  HeldInv'
<1>0. TypeInv /\ StoredInv /\ HeldInv
  BY DEF SentinelInv
<1>1. /\ g \in Group /\ id \in MessageId /\ IsMessage(m) /\ Fresh(m)
      /\ m.kind \in {"Group", "GroupKey"} /\ m.from = g /\ m.id = id
      /\ delivered' = delivered \union {m}
      /\ HoldingGroup(A, K, delivered')
      /\ \A k : Heard(group_accumulator_, k) \subseteq Heard(A, k)
      /\ \A k : Heard(group_key_accumulator_, k) \subseteq Heard(K, k)
      /\ m.kind = "Group" => m.sender \in Heard(A, <<g, id>>)
      /\ m.kind = "GroupKey" => m.sender \in Heard(K, g)
      /\ CheckQuorumReached(A, <<g, id>>, QuorumSize) /\ CheckQuorumReached(K, g, QuorumSize)
           => result = ResolveGroup(GetAll(A, <<g, id>>),
                         ValidateGroup(GetAll(A, <<g, id>>), GetAll(K, g)), id)
      /\ group_accumulator_' = AfterReturn(A, <<g, id>>, result)
      /\ group_key_accumulator_' = K
      /\ node_accumulator_' = node_accumulator_
      /\ node_key_accumulator_' = node_key_accumulator_
  BY Zenon DEF GroupStep
<1>2. /\ \A f \in Group, j \in MessageId :
           <<f, j>> # <<g, id>> => resolved'[<<f, j>>] = resolved[<<f, j>>]
      /\ \A c \in Client, j \in MessageId : resolved'[<<c, j>>] = resolved[<<c, j>>]
      /\ result = NoPayload => resolved' = resolved
      /\ result # NoPayload => resolved'[<<g, id>>] # <<>>
      /\ Returned(<<g, id>>) => resolved'[<<g, id>>] = resolved[<<g, id>>]
  <2>1. Resolves(g, id, result)
    BY GroupResolved
  <2>2. \A c \in Client, j \in MessageId : <<c, j>> # <<g, id>>
    BY <1>1, NamesApart, Zenon
  <2>3. QED
    BY <2>1, <2>2, Zenon DEF Resolves
<1>3. /\ result = NoPayload => group_accumulator_' = A
      /\ \A k : k # <<g, id>> => Heard(group_accumulator_', k) = Heard(A, k)
  <2>1. WellFormed(A, Group \X MessageId, Member, AllMessages) /\ Stored(A, "Group", delivered')
    BY <1>1 DEF HoldingGroup, Holding
  <2>2. <<g, id>> \in Group \X MessageId
    BY <1>1
  <2>3. group_accumulator_' = AfterReturn(A, <<g, id>>, result)
    BY <1>1
  <2>4. QED
    BY <2>1, <2>2, <2>3, AfterReturnFacts
<1>4. \A kind, from, j : ~(m.kind = kind /\ m.from = from /\ m.id = j) =>
        GivenIn(delivered', kind, from, j) = GivenIn(delivered, kind, from, j)
  <2>1. delivered' = delivered \union {m}
    BY <1>1
  <2>2. QED
    BY <2>1 DEF GivenIn
<1>5. \A kind, from, j : Senders(GivenIn(delivered', kind, from, j))
        \subseteq Senders(GivenIn(delivered, kind, from, j)) \union {m.sender}
  BY <1>1, GivenAfter, Zenon
<1>6. \A f \in Group, j \in MessageId : <<f, j>> # <<g, id>> => ~(m.from = f /\ m.id = j)
  BY <1>1
\* The messages of an unanswered id are in A, and the keys in K.
<1>7. ASSUME NEW f \in Group, NEW j \in MessageId, ~Returned(<<f, j>>)
      PROVE  Senders(GivenIn(delivered', "Group", f, j)) \subseteq Heard(A, <<f, j>>)
  <2>1. Senders(GivenIn(delivered, "Group", f, j)) \subseteq Heard(A, <<f, j>>)
    <3>1. Senders(GivenIn(delivered, "Group", f, j)) \subseteq Heard(group_accumulator_, <<f, j>>)
      BY <1>0, <1>7, Zenon DEF HeldInv
    <3>2. QED
      BY <1>1, <3>1
  <2>2. CASE m.kind = "Group" /\ m.from = f /\ m.id = j
    BY <1>1, <1>5, <2>1, <2>2, Zenon
  <2>3. CASE ~(m.kind = "Group" /\ m.from = f /\ m.id = j)
    BY <1>4, <2>1, <2>3, Zenon
  <2>4. QED
    BY <2>2, <2>3, Zenon
<1>8. ASSUME NEW f \in Group, NEW j \in MessageId
      PROVE  Senders(GivenIn(delivered', "GroupKey", f, j)) \subseteq Heard(K, f)
  <2>1. Senders(GivenIn(delivered, "GroupKey", f, j)) \subseteq Heard(K, f)
    <3>1. Senders(GivenIn(delivered, "GroupKey", f, j)) \subseteq Heard(group_key_accumulator_, f)
      BY <1>0, Zenon DEF HeldInv
    <3>2. QED
      BY <1>1, <3>1
  <2>2. CASE m.kind = "GroupKey" /\ m.from = f /\ m.id = j
    BY <1>1, <1>5, <2>1, <2>2, Zenon
  <2>3. CASE ~(m.kind = "GroupKey" /\ m.from = f /\ m.id = j)
    BY <1>4, <2>1, <2>3, Zenon
  <2>4. QED
    BY <2>2, <2>3, Zenon
<1>9. ASSUME NEW f \in Group, NEW j \in MessageId, resolved'[<<f, j>>] = <<>>
      PROVE  Senders(GivenIn(delivered', "Group", f, j))
               \subseteq Heard(group_accumulator_', <<f, j>>)
  <2>1. ~Returned(<<f, j>>)
    BY <1>2, <1>9 DEF Returned
  <2>2. CASE <<f, j>> = <<g, id>>
    <3>1. group_accumulator_' = A
      BY <1>2, <1>3, <1>9, <2>2, Zenon
    <3>2. QED
      BY <1>7, <2>1, <3>1, Zenon
  <2>3. CASE <<f, j>> # <<g, id>>
    BY <1>3, <1>7, <2>1, <2>3, Zenon
  <2>4. QED
    BY <2>2, <2>3, Zenon
<1>10. ASSUME NEW f \in Group, NEW j \in MessageId, NEW payload \in Payload,
              j \notin AccountId, GroupEnough(delivered', f, j, payload)
       PROVE  resolved'[<<f, j>>] # <<>>
  <2>1. CASE <<f, j>> # <<g, id>>
    <3>1. /\ GivenIn(delivered', "Group", f, j) = GivenIn(delivered, "Group", f, j)
          /\ GivenIn(delivered', "GroupKey", f, j) = GivenIn(delivered, "GroupKey", f, j)
      BY <1>4, <1>6, <2>1
    <3>2. GroupEnough(delivered, f, j, payload)
      BY <1>10, <3>1, Zenon DEF GroupEnough
    <3>3. QED
      BY <1>0, <1>2, <1>10, <2>1, <3>2, Zenon DEF HeldInv, Returned
  <2>2. CASE <<f, j>> = <<g, id>> /\ Returned(<<g, id>>)
    BY <1>2, <2>2, Zenon DEF Returned
  <2>3. CASE <<f, j>> = <<g, id>> /\ ~Returned(<<g, id>>)
    <3>1. f = g /\ j = id
      BY <2>3
    <3>2. OneEach(delivered')
      BY <1>0, <1>1, FreshFacts DEF StoredInv
    <3>3. /\ Senders(GivenIn(delivered', "Group", g, id)) \subseteq Heard(A, <<g, id>>)
          /\ Senders(GivenIn(delivered', "GroupKey", g, id)) \subseteq Heard(K, g)
      BY <1>1, <1>7, <1>8, <2>3, Zenon
    <3>4. id \in MessageId \ AccountId /\ GroupEnough(delivered', g, id, payload)
      BY <1>1, <1>10, <3>1, Zenon
    <3>5. result # NoPayload
      BY <1>1, <3>2, <3>3, <3>4, GroupAnswer, Zenon
    <3>6. QED
      BY <1>2, <3>1, <3>5
  <2>4. QED
    BY <2>1, <2>2, <2>3, Zenon
<1>11. ASSUME NEW c \in Client, NEW j \in MessageId
       PROVE  /\ resolved'[<<c, j>>] = <<>> =>
                   Senders(GivenIn(delivered', "Node", c, j))
                     \subseteq Heard(node_accumulator_', <<c, j>>)
              /\ Senders(GivenIn(delivered', "ClientKey", c, j))
                   \subseteq Heard(node_key_accumulator_', c)
              /\ NodeEnough(delivered', c, j) => resolved'[<<c, j>>] # <<>>
  <2>1. /\ GivenIn(delivered', "Node", c, j) = GivenIn(delivered, "Node", c, j)
        /\ GivenIn(delivered', "ClientKey", c, j) = GivenIn(delivered, "ClientKey", c, j)
    BY <1>1, <1>4
  <2>2. NodeEnough(delivered', c, j) = NodeEnough(delivered, c, j)
    BY <2>1 DEF NodeEnough
  <2>3. resolved'[<<c, j>>] = resolved[<<c, j>>]
    BY <1>2, Zenon
  <2>4. QED
    BY <1>0, <1>1, <2>1, <2>2, <2>3, Zenon DEF HeldInv, Returned
<1>12. QED
  BY <1>1, <1>8, <1>9, <1>10, <1>11, Zenon DEF HeldInv, Returned

-----------------------------------------------------------------------------
(***************************************************************************)
(* A step for a single node: m, a message of client c or a key response    *)
(* for it, arrives.                                                        *)
(***************************************************************************)

NodeStep(m, A, K, c, id, result) ==
  LET key == <<c, id>>
      messages == GetAll(A, key)
      resolution == ResolveNode(messages, ValidateNode(messages, GetAll(K, c)))
  IN  /\ IsMessage(m) /\ Fresh(m) /\ m.kind \in {"Node", "ClientKey"}
      /\ m.from = c /\ m.id = id /\ c \in Client /\ id \in MessageId
      /\ delivered' = delivered \union {m}
      /\ HoldingNode(A, K, delivered')
      /\ \A k : k # key => Heard(A, k) \subseteq Heard(node_accumulator_, k)
      /\ m.kind = "ClientKey" => A = node_accumulator_
      /\ clock <= TimeToLive =>
           /\ \A k : Heard(node_accumulator_, k) \subseteq Heard(A, k)
           /\ \A k : Heard(node_key_accumulator_, k) \subseteq Heard(K, k)
      /\ m.kind = "Node" => m.sender \in Heard(A, key) /\ result = NoPayload
      /\ m.kind = "ClientKey" => m.sender \in Heard(K, c)
      /\ result # NoPayload =>
           key \in DOMAIN A.storage /\ c \in DOMAIN K.storage /\ result = resolution
      /\ m.kind = "ClientKey" /\ key \in DOMAIN A.storage /\ CheckQuorumReached(K, c, QuorumSize)
           => result = resolution
      /\ node_accumulator_' = AfterReturn(A, key, result)
      /\ node_key_accumulator_' = K
      /\ Return(key, result)
      /\ UNCHANGED <<group_accumulator_, group_key_accumulator_, clock, scenario>>

\* Types and stored messages.
LEMMA NodeTypes ==
  ASSUME SentinelInv, NEW m, NEW A, NEW K, NEW c, NEW id, NEW result,
         NodeStep(m, A, K, c, id, result)
  PROVE  TypeInv' /\ StoredInv'
<1>1. /\ TypeInv /\ StoredInv
      /\ c \in Client /\ id \in MessageId /\ IsMessage(m) /\ Fresh(m)
      /\ delivered' = delivered \union {m}
      /\ HoldingNode(A, K, delivered')
      /\ node_accumulator_' = AfterReturn(A, <<c, id>>, result)
      /\ node_key_accumulator_' = K
      /\ group_accumulator_' = group_accumulator_
      /\ group_key_accumulator_' = group_key_accumulator_
      /\ clock' = clock /\ scenario' = scenario
      /\ Return(<<c, id>>, result)
  BY Zenon DEF SentinelInv, NodeStep
<1>2. /\ IsFiniteSet(delivered') /\ \A d \in delivered' : IsMessage(d)
      /\ delivered \subseteq delivered'
  BY <1>1, DeliveredAfter, Zenon
<1>3. /\ WellFormed(A, Client \X MessageId, Client, AllMessages) /\ Stored(A, "Node", delivered')
      /\ WellFormed(K, Client, Member, AllMessages) /\ Stored(K, "ClientKey", delivered')
  BY <1>1, Zenon DEF HoldingNode, Holding
<1>4. /\ WellFormed(node_accumulator_', Client \X MessageId, Client, AllMessages)
      /\ Stored(node_accumulator_', "Node", delivered')
  <2>1. <<c, id>> \in Client \X MessageId
    BY <1>1
  <2>2. QED
    BY <1>1, <1>3, <2>1, AfterReturnFacts, Zenon
<1>5. /\ Stored(group_accumulator_, "Group", delivered')
      /\ Stored(group_key_accumulator_, "GroupKey", delivered')
  BY <1>1, <1>2, StoredGrows, Zenon DEF StoredInv
<1>6. DOMAIN resolved' = DOMAIN resolved
  BY <1>1 DEF Return
<1>7. TypeInv'
  BY <1>1, <1>2, <1>3, <1>4, <1>6, Zenon DEF TypeInv
<1>8. OneEach(delivered')
  BY <1>1, FreshFacts, Zenon DEF StoredInv
<1>9. StoredInv'
  BY <1>1, <1>3, <1>4, <1>5, <1>8, SMTT(30) DEF StoredInv, Stored
<1>10. QED
  BY <1>7, <1>9

\* A result is the first for its source and id, and is backed.
LEMMA NodeOnce ==
  ASSUME SentinelInv, NEW m, NEW A, NEW K, NEW c, NEW id, NEW result,
         NodeStep(m, A, K, c, id, result), result # NoPayload
  PROVE  NodeBacked(delivered', c, id, result) /\ ~Returned(<<c, id>>)
<1>1. /\ c \in Client /\ id \in MessageId
      /\ m.kind \in {"Node", "ClientKey"} /\ m.kind # "Node"
      /\ m.kind = "ClientKey" => A = node_accumulator_
      /\ HoldingNode(A, K, delivered')
      /\ <<c, id>> \in DOMAIN A.storage /\ c \in DOMAIN K.storage
      /\ result = ResolveNode(GetAll(A, <<c, id>>),
                              ValidateNode(GetAll(A, <<c, id>>), GetAll(K, c)))
  BY Zenon DEF NodeStep
<1>2. NodeBacked(delivered', c, id, result)
  BY <1>1, NodeResult, Zenon
<1>3. WellFormed(A, Client \X MessageId, Client, AllMessages)
  BY <1>1, Zenon DEF HoldingNode, Holding
<1>4. Heard(node_accumulator_, <<c, id>>) # {}
  <2>1. Heard(A, <<c, id>>) # {}
    <3>1. <<c, id>> \in DOMAIN A.storage
      BY <1>1, Zenon
    <3>2. QED
      BY <1>3, <3>1, HeardFacts
  <2>2. QED
    BY <1>1, <2>1, Zenon
<1>5. QED
  BY <1>1, <1>2, <1>4, Zenon DEF SentinelInv, SpentInv

LEMMA NodeResolved ==
  ASSUME SentinelInv, NEW m, NEW A, NEW K, NEW c, NEW id, NEW result,
         NodeStep(m, A, K, c, id, result)
  PROVE  Resolves(c, id, result)
<1>1. TypeInv /\ c \in Client /\ id \in MessageId /\ Return(<<c, id>>, result)
  BY Zenon DEF SentinelInv, NodeStep
<1>2. result # NoPayload => ~Returned(<<c, id>>)
  BY NodeOnce
<1>3. QED
  BY <1>1, <1>2, ResolvedAfter

LEMMA NodeResults ==
  ASSUME SentinelInv, NEW m, NEW A, NEW K, NEW c, NEW id, NEW result,
         NodeStep(m, A, K, c, id, result)
  PROVE  ResultInv'
<1>1. /\ \A e \in Client, j \in MessageId :
           <<e, j>> # <<c, id>> => resolved'[<<e, j>>] = resolved[<<e, j>>]
      /\ \A g \in Group, j \in MessageId : resolved'[<<g, j>>] = resolved[<<g, j>>]
      /\ result = NoPayload => resolved' = resolved
      /\ result # NoPayload =>
           /\ resolved'[<<c, id>>] = <<result>>
           /\ resolved'[<<c, id>>] # <<>> /\ resolved'[<<c, id>>][1] = result
  <2>1. Resolves(c, id, result)
    BY NodeResolved
  <2>2. c \in Client
    BY Zenon DEF NodeStep
  <2>3. \A g \in Group, j \in MessageId : <<g, j>> # <<c, id>>
    BY <2>2, NamesApart
  <2>4. QED
    BY <2>1, <2>3, Zenon DEF Resolves
<1>2. /\ IsFiniteSet(delivered') /\ \A d \in delivered' : IsMessage(d)
      /\ delivered \subseteq delivered'
  BY DeliveredAfter, Zenon DEF SentinelInv, NodeStep
<1>3. \A from, j, p : GroupBacked(delivered, from, j, p) => GroupBacked(delivered', from, j, p)
  BY <1>2, BackedGrows
<1>4. \A from, j, p : NodeBacked(delivered, from, j, p) => NodeBacked(delivered', from, j, p)
  BY <1>2, BackedGrows
<1>5. ResultInv
  BY DEF SentinelInv
<1>6. ASSUME NEW e \in Client, NEW j \in MessageId, resolved'[<<e, j>>] # <<>>
      PROVE  /\ resolved'[<<e, j>>] = <<resolved'[<<e, j>>][1]>>
             /\ NodeBacked(delivered', e, j, resolved'[<<e, j>>][1])
  <2>1. CASE <<e, j>> = <<c, id>> /\ result # NoPayload
    <3>1. NodeBacked(delivered', c, id, result)
      BY <2>1, NodeOnce, Zenon
    <3>2. e = c /\ j = id
      BY <2>1
    <3>3. QED
      BY <1>1, <2>1, <3>1, <3>2, Zenon
  <2>2. CASE <<e, j>> # <<c, id>> \/ result = NoPayload
    <3>1. resolved'[<<e, j>>] = resolved[<<e, j>>]
      BY <1>1, <2>2
    <3>2. OneResult(<<e, j>>) /\ NodeBacked(delivered, e, j, resolved[<<e, j>>][1])
      BY <1>5, <1>6, <3>1, Zenon DEF ResultInv, Returned
    <3>3. NodeBacked(delivered', e, j, resolved[<<e, j>>][1])
      BY <1>4, <3>2
    <3>4. QED
      BY <3>1, <3>2, <3>3 DEF OneResult
  <2>3. QED
    BY <2>1, <2>2, Zenon
<1>7. ASSUME NEW g \in Group, NEW j \in MessageId, resolved'[<<g, j>>] # <<>>
      PROVE  /\ resolved'[<<g, j>>] = <<resolved'[<<g, j>>][1]>>
             /\ GroupBacked(delivered', g, j, resolved'[<<g, j>>][1])
  <2>1. resolved'[<<g, j>>] = resolved[<<g, j>>]
    BY <1>1
  <2>2. OneResult(<<g, j>>) /\ GroupBacked(delivered, g, j, resolved[<<g, j>>][1])
    BY <1>5, <1>7, <2>1, Zenon DEF ResultInv, Returned
  <2>3. GroupBacked(delivered', g, j, resolved[<<g, j>>][1])
    BY <1>3, <2>2
  <2>4. QED
    BY <2>1, <2>2, <2>3 DEF OneResult
<1>8. QED
  BY <1>6, <1>7, Zenon DEF ResultInv, Returned, OneResult

LEMMA NodeSpent ==
  ASSUME SentinelInv, NEW m, NEW A, NEW K, NEW c, NEW id, NEW result,
         NodeStep(m, A, K, c, id, result)
  PROVE  SpentInv'
<1>0. ResultInv /\ SpentInv /\ TypeInv
  BY DEF SentinelInv
<1>1. /\ \A e \in Client, j \in MessageId :
           <<e, j>> # <<c, id>> => resolved'[<<e, j>>] = resolved[<<e, j>>]
      /\ \A g \in Group, j \in MessageId : resolved'[<<g, j>>] = resolved[<<g, j>>]
      /\ result = NoPayload => resolved' = resolved
  <2>1. Resolves(c, id, result)
    BY NodeResolved
  <2>2. c \in Client
    BY Zenon DEF NodeStep
  <2>3. \A g \in Group, j \in MessageId : <<g, j>> # <<c, id>>
    BY <2>2, NamesApart
  <2>4. QED
    BY <2>1, <2>3, Zenon DEF Resolves
<1>2. /\ c \in Client /\ id \in MessageId /\ IsMessage(m) /\ Fresh(m)
      /\ m.from = c /\ m.id = id /\ m.kind \in {"Node", "ClientKey"}
      /\ delivered' = delivered \union {m}
      /\ HoldingNode(A, K, delivered')
      /\ \A k : k # <<c, id>> => Heard(A, k) \subseteq Heard(node_accumulator_, k)
      /\ m.kind = "ClientKey" => A = node_accumulator_
      /\ node_accumulator_' = AfterReturn(A, <<c, id>>, result)
      /\ group_accumulator_' = group_accumulator_
  BY Zenon DEF NodeStep
<1>3. /\ result # NoPayload => Heard(node_accumulator_', <<c, id>>) = {}
      /\ result = NoPayload => node_accumulator_' = A
      /\ \A k : k # <<c, id>> => Heard(node_accumulator_', k) = Heard(A, k)
  <2>1. WellFormed(A, Client \X MessageId, Client, AllMessages) /\ Stored(A, "Node", delivered')
    BY <1>2 DEF HoldingNode, Holding
  <2>2. <<c, id>> \in Client \X MessageId
    BY <1>2, Zenon
  <2>3. node_accumulator_' = AfterReturn(A, <<c, id>>, result)
    BY <1>2, Zenon
  <2>4. QED
    BY <2>1, <2>2, <2>3, AfterReturnFacts
\* A client sends one message with an id, so a result is not followed by another.
<1>4. ASSUME m.kind = "Node", Returned(<<c, id>>)  PROVE FALSE
  <2>1. PICK n \in GivenIn(delivered, "Node", c, id) : TRUE
    BY <1>0, <1>2, <1>4, Zenon DEF ResultInv, NodeBacked
  <2>2. n.sender = m.sender
    BY <1>0, <1>2, <1>4, <2>1, Zenon DEF TypeInv, GivenIn, IsMessage
  <2>3. m.sender \notin Senders(GivenIn(delivered, "Node", c, id))
    BY <1>2, <1>4, FreshFacts, Zenon
  <2>4. QED
    BY <2>1, <2>2, <2>3 DEF Senders
<1>5. ASSUME NEW e \in Client, NEW j \in MessageId, resolved'[<<e, j>>] # <<>>
      PROVE  Heard(node_accumulator_', <<e, j>>) = {}
  <2>1. CASE <<e, j>> = <<c, id>> /\ result # NoPayload
    BY <1>3, <2>1
  <2>2. CASE <<e, j>> = <<c, id>> /\ result = NoPayload
    <3>1. Returned(<<c, id>>)
      BY <1>1, <1>5, <2>2, Zenon DEF Returned
    <3>2. node_accumulator_' = node_accumulator_
      BY <1>2, <1>3, <1>4, <2>2, <3>1, Zenon
    <3>3. QED
      BY <1>0, <1>2, <2>2, <3>1, <3>2, Zenon DEF SpentInv
  <2>3. CASE <<e, j>> # <<c, id>>
    <3>1. Heard(node_accumulator_, <<e, j>>) = {}
      BY <1>0, <1>1, <1>5, <2>3, Zenon DEF SpentInv, Returned
    <3>2. QED
      BY <1>2, <1>3, <2>3, <3>1, Zenon
  <2>4. QED
    BY <2>1, <2>2, <2>3, Zenon
<1>6. ASSUME NEW g \in Group, NEW j \in MessageId, resolved'[<<g, j>>] # <<>>
      PROVE  \E U \in SUBSET Member :
               /\ Cardinality(U) >= QuorumSize
               /\ U \subseteq Senders(GivenIn(delivered', "Group", g, j))
               /\ U \intersect Heard(group_accumulator_', <<g, j>>) = {}
  <2>1. GivenIn(delivered', "Group", g, j) = GivenIn(delivered, "Group", g, j)
    BY <1>2 DEF GivenIn
  <2>2. Returned(<<g, j>>)
    BY <1>1, <1>6 DEF Returned
  <2>3. QED
    BY <1>0, <1>2, <2>1, <2>2, Zenon DEF SpentInv
<1>7. QED
  BY <1>5, <1>6, Zenon DEF SpentInv, Returned, Heard

LEMMA NodeHeld ==
  ASSUME SentinelInv, NEW m, NEW A, NEW K, NEW c, NEW id, NEW result,
         NodeStep(m, A, K, c, id, result), clock <= TimeToLive
  PROVE  HeldInv'
<1>0. TypeInv /\ StoredInv /\ HeldInv /\ RequestInv
  BY DEF SentinelInv
<1>1. /\ c \in Client /\ id \in MessageId /\ IsMessage(m) /\ Fresh(m)
      /\ m.kind \in {"Node", "ClientKey"} /\ m.from = c /\ m.id = id
      /\ delivered' = delivered \union {m}
      /\ HoldingNode(A, K, delivered')
      /\ \A k : Heard(node_accumulator_, k) \subseteq Heard(A, k)
      /\ \A k : Heard(node_key_accumulator_, k) \subseteq Heard(K, k)
      /\ m.kind = "Node" => m.sender \in Heard(A, <<c, id>>)
      /\ m.kind = "ClientKey" => m.sender \in Heard(K, c)
      /\ m.kind = "ClientKey" /\ <<c, id>> \in DOMAIN A.storage
           /\ CheckQuorumReached(K, c, QuorumSize)
           => result = ResolveNode(GetAll(A, <<c, id>>),
                                   ValidateNode(GetAll(A, <<c, id>>), GetAll(K, c)))
      /\ node_accumulator_' = AfterReturn(A, <<c, id>>, result)
      /\ node_key_accumulator_' = K
      /\ group_accumulator_' = group_accumulator_
      /\ group_key_accumulator_' = group_key_accumulator_
  BY Zenon DEF NodeStep
<1>2. /\ \A e \in Client, j \in MessageId :
           <<e, j>> # <<c, id>> => resolved'[<<e, j>>] = resolved[<<e, j>>]
      /\ \A g \in Group, j \in MessageId : resolved'[<<g, j>>] = resolved[<<g, j>>]
      /\ result = NoPayload => resolved' = resolved
      /\ result # NoPayload => resolved'[<<c, id>>] # <<>>
      /\ Returned(<<c, id>>) => resolved'[<<c, id>>] = resolved[<<c, id>>]
  <2>1. Resolves(c, id, result)
    BY NodeResolved
  <2>2. \A g \in Group, j \in MessageId : <<g, j>> # <<c, id>>
    BY <1>1, NamesApart, Zenon
  <2>3. QED
    BY <2>1, <2>2, Zenon DEF Resolves
<1>3. /\ result = NoPayload => node_accumulator_' = A
      /\ \A k : k # <<c, id>> => Heard(node_accumulator_', k) = Heard(A, k)
  <2>1. WellFormed(A, Client \X MessageId, Client, AllMessages) /\ Stored(A, "Node", delivered')
    BY <1>1, Zenon DEF HoldingNode, Holding
  <2>2. <<c, id>> \in Client \X MessageId
    BY <1>1, Zenon
  <2>3. node_accumulator_' = AfterReturn(A, <<c, id>>, result)
    BY <1>1, Zenon
  <2>4. QED
    BY <2>1, <2>2, <2>3, AfterReturnFacts
<1>4. \A kind, from, j : ~(m.kind = kind /\ m.from = from /\ m.id = j) =>
        GivenIn(delivered', kind, from, j) = GivenIn(delivered, kind, from, j)
  <2>1. delivered' = delivered \union {m}
    BY <1>1
  <2>2. QED
    BY <2>1 DEF GivenIn
<1>5. \A kind, from, j : Senders(GivenIn(delivered', kind, from, j))
        \subseteq Senders(GivenIn(delivered, kind, from, j)) \union {m.sender}
  BY <1>1, GivenAfter, Zenon
<1>6. \A e \in Client, j \in MessageId : <<e, j>> # <<c, id>> => ~(m.from = e /\ m.id = j)
  BY <1>1
\* The messages of an unanswered id are in A, and the keys in K.
<1>7. ASSUME NEW e \in Client, NEW j \in MessageId, ~Returned(<<e, j>>)
      PROVE  Senders(GivenIn(delivered', "Node", e, j)) \subseteq Heard(A, <<e, j>>)
  <2>1. Senders(GivenIn(delivered, "Node", e, j)) \subseteq Heard(A, <<e, j>>)
    <3>1. Senders(GivenIn(delivered, "Node", e, j)) \subseteq Heard(node_accumulator_, <<e, j>>)
      BY <1>0, <1>7 DEF HeldInv
    <3>2. QED
      BY <1>1, <3>1, Zenon
  <2>2. CASE m.kind = "Node" /\ m.from = e /\ m.id = j
    BY <1>1, <1>5, <2>1, <2>2, Zenon
  <2>3. CASE ~(m.kind = "Node" /\ m.from = e /\ m.id = j)
    BY <1>4, <2>1, <2>3, Zenon
  <2>4. QED
    BY <2>2, <2>3, Zenon
<1>8. ASSUME NEW e \in Client, NEW j \in MessageId
      PROVE  Senders(GivenIn(delivered', "ClientKey", e, j)) \subseteq Heard(K, e)
  <2>1. Senders(GivenIn(delivered, "ClientKey", e, j)) \subseteq Heard(K, e)
    <3>1. Senders(GivenIn(delivered, "ClientKey", e, j)) \subseteq Heard(node_key_accumulator_, e)
      BY <1>0, Zenon DEF HeldInv
    <3>2. QED
      BY <1>1, <3>1
  <2>2. CASE m.kind = "ClientKey" /\ m.from = e /\ m.id = j
    BY <1>1, <1>5, <2>1, <2>2, Zenon
  <2>3. CASE ~(m.kind = "ClientKey" /\ m.from = e /\ m.id = j)
    BY <1>4, <2>1, <2>3, Zenon
  <2>4. QED
    BY <2>2, <2>3, Zenon
<1>9. ASSUME NEW e \in Client, NEW j \in MessageId, resolved'[<<e, j>>] = <<>>
      PROVE  Senders(GivenIn(delivered', "Node", e, j))
               \subseteq Heard(node_accumulator_', <<e, j>>)
  <2>1. ~Returned(<<e, j>>)
    BY <1>2, <1>9 DEF Returned
  <2>2. CASE <<e, j>> = <<c, id>>
    <3>1. node_accumulator_' = A
      BY <1>2, <1>3, <1>9, <2>2
    <3>2. QED
      BY <1>7, <2>1, <3>1, Zenon
  <2>3. CASE <<e, j>> # <<c, id>>
    BY <1>3, <1>7, <2>1, <2>3, Zenon
  <2>4. QED
    BY <2>2, <2>3, Zenon
<1>10. ASSUME NEW e \in Client, NEW j \in MessageId, NodeEnough(delivered', e, j)
       PROVE  resolved'[<<e, j>>] # <<>>
  <2>1. CASE <<e, j>> # <<c, id>>
    <3>1. /\ GivenIn(delivered', "Node", e, j) = GivenIn(delivered, "Node", e, j)
          /\ GivenIn(delivered', "ClientKey", e, j) = GivenIn(delivered, "ClientKey", e, j)
      BY <1>4, <1>6, <2>1, Zenon
    <3>2. NodeEnough(delivered, e, j)
      BY <1>10, <3>1, Zenon DEF NodeEnough
    <3>3. QED
      BY <1>0, <1>2, <2>1, <3>2, Zenon DEF HeldInv, Returned
  <2>2. CASE <<e, j>> = <<c, id>> /\ Returned(<<c, id>>)
    BY <1>2, <2>2 DEF Returned
  <2>3. CASE <<e, j>> = <<c, id>> /\ ~Returned(<<c, id>>)
    <3>1. e = c /\ j = id
      BY <2>3
    \* Keys have come, so they were requested, so the message was here before.
    <3>2. m.kind # "Node"
      <4>1. SUFFICES ASSUME m.kind = "Node"  PROVE FALSE
        OBVIOUS
      <4>2. GivenIn(delivered', "ClientKey", c, id) # {}
        BY <1>10, <3>1, QuorumNotEmpty, Zenon DEF NodeEnough
      <4>3. GivenIn(delivered, "ClientKey", c, id) # {}
        BY <1>4, <4>1, <4>2, Zenon
      <4>4. PICK n \in GivenIn(delivered, "Node", c, id) : TRUE
        BY <1>0, <4>3, SMTT(30) DEF RequestInv, GivenIn
      <4>5. n.sender = m.sender
        BY <1>0, <1>1, <4>1, <4>4, Zenon DEF TypeInv, GivenIn, IsMessage
      <4>6. m.sender \notin Senders(GivenIn(delivered, "Node", c, id))
        BY <1>1, <4>1, FreshFacts, Zenon
      <4>7. QED
        BY <4>4, <4>5, <4>6, Zenon DEF Senders
    <3>3. OneEach(delivered')
      BY <1>0, <1>1, FreshFacts, Zenon DEF StoredInv
    <3>4. /\ Senders(GivenIn(delivered', "Node", c, id)) \subseteq Heard(A, <<c, id>>)
          /\ Senders(GivenIn(delivered', "ClientKey", c, id)) \subseteq Heard(K, c)
      BY <1>1, <1>7, <1>8, <2>3, Zenon
    <3>5. result # NoPayload
      BY <1>1, <1>10, <3>1, <3>2, <3>3, <3>4, NodeAnswer, Zenon
    <3>6. QED
      BY <1>2, <3>1, <3>5, Zenon
  <2>4. QED
    BY <2>1, <2>2, <2>3, Zenon
<1>11. ASSUME NEW g \in Group, NEW j \in MessageId
       PROVE  /\ resolved'[<<g, j>>] = <<>> =>
                   Senders(GivenIn(delivered', "Group", g, j))
                     \subseteq Heard(group_accumulator_', <<g, j>>)
              /\ Senders(GivenIn(delivered', "GroupKey", g, j))
                   \subseteq Heard(group_key_accumulator_', g)
              /\ \A payload \in Payload :
                   j \notin AccountId /\ GroupEnough(delivered', g, j, payload)
                     => resolved'[<<g, j>>] # <<>>
  <2>1. /\ GivenIn(delivered', "Group", g, j) = GivenIn(delivered, "Group", g, j)
        /\ GivenIn(delivered', "GroupKey", g, j) = GivenIn(delivered, "GroupKey", g, j)
    BY <1>1, <1>4
  <2>2. ASSUME NEW payload
        PROVE  GroupEnough(delivered', g, j, payload) = GroupEnough(delivered, g, j, payload)
    BY <2>1, Zenon DEF GroupEnough
  <2>3. resolved'[<<g, j>>] = resolved[<<g, j>>]
    BY <1>2
  <2>4. QED
    BY <1>0, <1>1, <2>1, <2>2, <2>3, Zenon DEF HeldInv, Returned
<1>12. QED
  BY <1>1, <1>8, <1>9, <1>10, <1>11, Zenon DEF HeldInv, Returned

-----------------------------------------------------------------------------
(***************************************************************************)
(* The actions are such steps.                                             *)
(***************************************************************************)

LEMMA SentMessages ==
  ASSUME TypeInv, NEW m \in Scenario[scenario].messages
  PROVE  IsMessage(m) /\ m \in AllMessages
BY SentinelAssumption DEF TypeInv, AllMessages

LEMMA AddGroupMessageStep ==
  ASSUME SentinelInv, NEW m \in Scenario[scenario].messages, m.kind = "Group",
         AddGroupMessage(m)
  PROVE  \E A, K, g, id, result : GroupStep(m, A, K, g, id, result)
<1> DEFINE key == <<m.from, m.id>>
           A == Add(group_accumulator_, key, m, m.sender, clock)
           K == group_key_accumulator_
           resolution == ResolveGroup(GetAll(A, key),
                           ValidateGroup(GetAll(A, key), GetAll(K, m.from)), m.id)
           result == IF CheckQuorumReached(A, key, QuorumSize) /\ HaveName(K, m.from)
                     THEN resolution ELSE NoPayload
<1>1. TypeInv /\ StoredInv /\ IsMessage(m) /\ m \in AllMessages
  BY SentMessages, Zenon DEF SentinelInv
<1>2. /\ m.from \in Group /\ m.id \in MessageId /\ m.sender \in Member
      /\ key \in Group \X MessageId /\ key = NameOf(m)
  BY <1>1, Zenon DEF IsMessage, NameOf
<1>3. /\ WellFormed(group_accumulator_, Group \X MessageId, Member, AllMessages)
      /\ WellFormed(K, Group, Member, AllMessages)
      /\ Stored(group_accumulator_, "Group", delivered) /\ Stored(K, "GroupKey", delivered)
      /\ clock \in Nat
  BY <1>1 DEF TypeInv, StoredInv
<1>4. /\ Fresh(m)
      /\ delivered' = delivered \union {m}
      /\ group_accumulator_' = AfterReturn(A, key, result)
      /\ group_key_accumulator_' = K
      /\ Return(key, result)
      /\ UNCHANGED <<node_accumulator_, node_key_accumulator_, clock, scenario>>
  BY Zenon DEF AddGroupMessage
<1>5. /\ WellFormed(A, Group \X MessageId, Member, AllMessages)
      /\ Stored(A, "Group", delivered \union {m})
      /\ Heard(A, key) = Heard(group_accumulator_, key) \union {m.sender}
      /\ \A k : k # key => Heard(A, k) \subseteq Heard(group_accumulator_, k)
      /\ clock <= TimeToLive => \A k : Heard(group_accumulator_, k) \subseteq Heard(A, k)
  <2>1. A = Add(group_accumulator_, key, m, m.sender, clock)
    BY Zenon
  <2> HIDE DEF A
  <2>2. /\ WellFormed(A, Group \X MessageId, Member, AllMessages)
        /\ Stored(A, "Group", delivered \union {m})
        /\ Added(group_accumulator_, A, key, m, clock)
    <3>1. /\ WellFormed(group_accumulator_, Group \X MessageId, Member, AllMessages) /\ clock \in Nat
          /\ Stored(group_accumulator_, "Group", delivered)
      BY <1>3, Zenon
    <3>2. m \in AllMessages /\ m.kind = "Group"
      BY <1>1, Zenon
    <3>3. key \in Group \X MessageId /\ key = NameOf(m) /\ m.sender \in Member
      BY <1>2, Zenon
    <3> DEFINE N == Group \X MessageId
    <3>4. key \in N /\ WellFormed(group_accumulator_, N, Member, AllMessages)
      BY <3>1, <3>3, Zenon
    <3> HIDE DEF key, K, resolution, result, N
    <3>5. /\ WellFormed(A, N, Member, AllMessages)
          /\ Stored(A, "Group", delivered \union {m})
          /\ Added(group_accumulator_, A, key, m, clock)
      BY <2>1, <3>1, <3>2, <3>3, <3>4, AddMessage, SMTT(30)
    <3>6. QED
      BY <3>5 DEF N
  <2>3. QED
    BY <2>2, Zenon DEF Added
<1>6. Stored(K, "GroupKey", delivered \union {m})
  BY <1>3, StoredGrows
<1>7. HoldingGroup(A, K, delivered')
  <2>1. IsFiniteSet(delivered') /\ \A d \in delivered' : IsMessage(d)
    BY <1>1, <1>4, DeliveredAfter, Zenon
  <2>2. QED
    BY <1>3, <1>4, <1>5, <1>6, <2>1, Zenon DEF HoldingGroup, Holding
<1>8. result # NoPayload =>
        key \in DOMAIN A.storage /\ m.from \in DOMAIN K.storage /\ result = resolution
  BY Zenon DEF CheckQuorumReached, HaveName
<1>9. CheckQuorumReached(A, key, QuorumSize) /\ CheckQuorumReached(K, m.from, QuorumSize)
        => result = resolution
  BY Zenon DEF CheckQuorumReached
<1> HIDE DEF A, K, result
<1>10. GroupStep(m, A, K, m.from, m.id, result)
  BY <1>1, <1>2, <1>4, <1>5, <1>7, <1>8, <1>9, Zenon DEF GroupStep, K
<1>11. QED
  BY <1>10, Zenon

LEMMA AddGroupKeyStep ==
  ASSUME SentinelInv, NEW m \in Scenario[scenario].messages, m.kind = "GroupKey",
         AddGroupKey(m)
  PROVE  \E A, K, g, id, result : GroupStep(m, A, K, g, id, result)
<1> DEFINE key == <<m.from, m.id>>
           A == group_accumulator_
           K == Add(group_key_accumulator_, m.from, m, m.sender, clock)
           resolution == ResolveGroup(GetAll(A, key),
                           ValidateGroup(GetAll(A, key), GetAll(K, m.from)), m.id)
           result == IF CheckQuorumReached(K, m.from, QuorumSize) /\ HaveName(A, key)
                     THEN resolution ELSE NoPayload
<1>1. TypeInv /\ StoredInv /\ IsMessage(m) /\ m \in AllMessages
  BY SentMessages, Zenon DEF SentinelInv
<1>2. /\ m.from \in Group /\ m.id \in MessageId /\ m.sender \in Member
      /\ m.from = NameOf(m)
  BY <1>1 DEF IsMessage, NameOf
<1>3. /\ WellFormed(A, Group \X MessageId, Member, AllMessages)
      /\ WellFormed(group_key_accumulator_, Group, Member, AllMessages)
      /\ Stored(A, "Group", delivered) /\ Stored(group_key_accumulator_, "GroupKey", delivered)
      /\ clock \in Nat
  BY <1>1 DEF TypeInv, StoredInv
<1>4. /\ Fresh(m)
      /\ delivered' = delivered \union {m}
      /\ group_accumulator_' = AfterReturn(A, key, result)
      /\ group_key_accumulator_' = K
      /\ Return(key, result)
      /\ UNCHANGED <<node_accumulator_, node_key_accumulator_, clock, scenario>>
  BY Zenon DEF AddGroupKey
<1>5. /\ WellFormed(K, Group, Member, AllMessages)
      /\ Stored(K, "GroupKey", delivered \union {m})
      /\ Heard(K, m.from) = Heard(group_key_accumulator_, m.from) \union {m.sender}
      /\ clock <= TimeToLive => \A k : Heard(group_key_accumulator_, k) \subseteq Heard(K, k)
  <2>1. K = Add(group_key_accumulator_, m.from, m, m.sender, clock)
    BY Zenon
  <2> HIDE DEF K
  <2>2. /\ WellFormed(K, Group, Member, AllMessages)
        /\ Stored(K, "GroupKey", delivered \union {m})
        /\ Added(group_key_accumulator_, K, m.from, m, clock)
    <3>1. /\ WellFormed(group_key_accumulator_, Group, Member, AllMessages) /\ clock \in Nat
          /\ Stored(group_key_accumulator_, "GroupKey", delivered)
      BY <1>3, Zenon
    <3>2. m \in AllMessages /\ m.kind = "GroupKey"
      BY <1>1, Zenon
    <3>3. m.from \in Group /\ m.from = NameOf(m) /\ m.sender \in Member
      BY <1>2, Zenon
    <3>4. QED
      BY <2>1, <3>1, <3>2, <3>3, AddMessage, SMTT(30)
  <2>3. QED
    BY <2>2, Zenon DEF Added
<1>6. Stored(A, "Group", delivered \union {m})
  BY <1>3, StoredGrows
<1>7. HoldingGroup(A, K, delivered')
  <2>1. IsFiniteSet(delivered') /\ \A d \in delivered' : IsMessage(d)
    BY <1>1, <1>4, DeliveredAfter, Zenon
  <2>2. QED
    BY <1>3, <1>4, <1>5, <1>6, <2>1, Zenon DEF HoldingGroup, Holding
<1>8. result # NoPayload =>
        key \in DOMAIN A.storage /\ m.from \in DOMAIN K.storage /\ result = resolution
  BY Zenon DEF CheckQuorumReached, HaveName
<1>9. CheckQuorumReached(A, key, QuorumSize) /\ CheckQuorumReached(K, m.from, QuorumSize)
        => result = resolution
  BY Zenon DEF CheckQuorumReached
<1> HIDE DEF A, K, result
<1>10. GroupStep(m, A, K, m.from, m.id, result)
  BY <1>1, <1>2, <1>4, <1>5, <1>7, <1>8, <1>9, Zenon DEF GroupStep, A
<1>11. QED
  BY <1>10, Zenon

LEMMA AddNodeMessageStep ==
  ASSUME SentinelInv, NEW m \in Scenario[scenario].messages, m.kind = "Node",
         AddNodeMessage(m)
  PROVE  \E A, K, c, id, result : NodeStep(m, A, K, c, id, result)
<1> DEFINE key == <<m.from, m.id>>
           A == Add(node_accumulator_, key, m, m.sender, clock)
           K == node_key_accumulator_
           messages == GetAll(A, key)
           result == IF CheckQuorumReached(A, key, 1)
                     THEN ResolveNode(messages, ValidateNode(messages, messages))
                     ELSE NoPayload
<1>1. TypeInv /\ StoredInv /\ IsMessage(m) /\ m \in AllMessages
  BY SentMessages, Zenon DEF SentinelInv
<1>2. /\ m.from \in Client /\ m.id \in MessageId /\ m.sender \in Client
      /\ key \in Client \X MessageId /\ key = NameOf(m)
  BY <1>1 DEF IsMessage, NameOf
<1>3. /\ WellFormed(node_accumulator_, Client \X MessageId, Client, AllMessages)
      /\ WellFormed(K, Client, Member, AllMessages)
      /\ Stored(node_accumulator_, "Node", delivered) /\ Stored(K, "ClientKey", delivered)
      /\ clock \in Nat
  BY <1>1 DEF TypeInv, StoredInv
<1>4. /\ Fresh(m)
      /\ delivered' = delivered \union {m}
      /\ node_accumulator_' = AfterReturn(A, key, result)
      /\ node_key_accumulator_' = K
      /\ Return(key, result)
      /\ UNCHANGED <<group_accumulator_, group_key_accumulator_, clock, scenario>>
  BY Zenon DEF AddNodeMessage
<1>5. /\ WellFormed(A, Client \X MessageId, Client, AllMessages)
      /\ Stored(A, "Node", delivered \union {m})
      /\ key \in DOMAIN A.storage
      /\ Heard(A, key) = Heard(node_accumulator_, key) \union {m.sender}
      /\ \A k : k # key => Heard(A, k) \subseteq Heard(node_accumulator_, k)
      /\ clock <= TimeToLive => \A k : Heard(node_accumulator_, k) \subseteq Heard(A, k)
  <2>1. A = Add(node_accumulator_, key, m, m.sender, clock)
    BY Zenon
  <2> HIDE DEF A
  <2>2. /\ WellFormed(A, Client \X MessageId, Client, AllMessages)
        /\ Stored(A, "Node", delivered \union {m})
        /\ Added(node_accumulator_, A, key, m, clock)
    <3>1. /\ WellFormed(node_accumulator_, Client \X MessageId, Client, AllMessages) /\ clock \in Nat
          /\ Stored(node_accumulator_, "Node", delivered)
      BY <1>3, Zenon
    <3>2. m \in AllMessages /\ m.kind = "Node"
      BY <1>1, Zenon
    <3>3. key \in Client \X MessageId /\ key = NameOf(m) /\ m.sender \in Client
      BY <1>2, Zenon
    <3>4. QED
      BY <2>1, <3>1, <3>2, <3>3, AddMessage, SMTT(30)
  <2>3. QED
    BY <2>2, Zenon DEF Added
<1>6. Stored(K, "ClientKey", delivered \union {m})
  BY <1>3, StoredGrows
<1>a. IsFiniteSet(delivered') /\ \A d \in delivered' : IsMessage(d)
  BY <1>1, <1>4, DeliveredAfter, Zenon
<1>7. HoldingNode(A, K, delivered')
  BY <1>3, <1>4, <1>5, <1>6, <1>a, Zenon DEF HoldingNode, Holding
<1>8. result = NoPayload
  <2>1. Stored(A, "Node", delivered') /\ \A d \in delivered' : IsMessage(d)
    BY <1>4, <1>5, <1>a, Zenon
  <2> HIDE DEF A
  <2>2. ResolveNode(messages, ValidateNode(messages, messages)) = NoPayload
    BY <1>5, <2>1, NodeSilent, Zenon
  <2>3. QED
    BY <2>2, Zenon
<1> HIDE DEF A, K, result
<1>10. NodeStep(m, A, K, m.from, m.id, result)
  BY <1>1, <1>2, <1>4, <1>5, <1>7, <1>8, Zenon DEF NodeStep, K
<1>11. QED
  BY <1>10, Zenon

LEMMA AddClientKeyStep ==
  ASSUME SentinelInv, NEW m \in Scenario[scenario].messages, m.kind = "ClientKey",
         AddClientKey(m)
  PROVE  \E A, K, c, id, result : NodeStep(m, A, K, c, id, result)
<1> DEFINE key == <<m.from, m.id>>
           A == node_accumulator_
           K == Add(node_key_accumulator_, m.from, m, m.sender, clock)
           resolution == ResolveNode(GetAll(A, key),
                                     ValidateNode(GetAll(A, key), GetAll(K, m.from)))
           result == IF CheckQuorumReached(K, m.from, QuorumSize) /\ HaveName(A, key)
                     THEN resolution ELSE NoPayload
<1>1. TypeInv /\ StoredInv /\ IsMessage(m) /\ m \in AllMessages
  BY SentMessages DEF SentinelInv
<1>2. /\ m.from \in Client /\ m.id \in MessageId /\ m.sender \in Member
      /\ m.from = NameOf(m)
  BY <1>1, Zenon DEF IsMessage, NameOf
<1>3. /\ WellFormed(A, Client \X MessageId, Client, AllMessages)
      /\ WellFormed(node_key_accumulator_, Client, Member, AllMessages)
      /\ Stored(A, "Node", delivered) /\ Stored(node_key_accumulator_, "ClientKey", delivered)
      /\ clock \in Nat
  BY <1>1 DEF TypeInv, StoredInv
<1>4. /\ Fresh(m)
      /\ delivered' = delivered \union {m}
      /\ node_accumulator_' = AfterReturn(A, key, result)
      /\ node_key_accumulator_' = K
      /\ Return(key, result)
      /\ UNCHANGED <<group_accumulator_, group_key_accumulator_, clock, scenario>>
  BY Zenon DEF AddClientKey
<1>5. /\ WellFormed(K, Client, Member, AllMessages)
      /\ Stored(K, "ClientKey", delivered \union {m})
      /\ Heard(K, m.from) = Heard(node_key_accumulator_, m.from) \union {m.sender}
      /\ clock <= TimeToLive => \A k : Heard(node_key_accumulator_, k) \subseteq Heard(K, k)
  <2>1. K = Add(node_key_accumulator_, m.from, m, m.sender, clock)
    BY Zenon
  <2> HIDE DEF K
  <2>2. /\ WellFormed(K, Client, Member, AllMessages)
        /\ Stored(K, "ClientKey", delivered \union {m})
        /\ Added(node_key_accumulator_, K, m.from, m, clock)
    <3>1. /\ WellFormed(node_key_accumulator_, Client, Member, AllMessages) /\ clock \in Nat
          /\ Stored(node_key_accumulator_, "ClientKey", delivered)
      BY <1>3, Zenon
    <3>2. m \in AllMessages /\ m.kind = "ClientKey"
      BY <1>1, Zenon
    <3>3. m.from \in Client /\ m.from = NameOf(m) /\ m.sender \in Member
      BY <1>2, Zenon
    <3>4. QED
      BY <2>1, <3>1, <3>2, <3>3, AddMessage, SMTT(30)
  <2>3. QED
    BY <2>2, Zenon DEF Added
<1>6. Stored(A, "Node", delivered \union {m})
  BY <1>3, StoredGrows
<1>7. HoldingNode(A, K, delivered')
  <2>1. IsFiniteSet(delivered') /\ \A d \in delivered' : IsMessage(d)
    BY <1>1, <1>4, DeliveredAfter, Zenon
  <2>2. QED
    BY <1>3, <1>4, <1>5, <1>6, <2>1, Zenon DEF HoldingNode, Holding
<1>8. result # NoPayload =>
        key \in DOMAIN A.storage /\ m.from \in DOMAIN K.storage /\ result = resolution
  BY Zenon DEF CheckQuorumReached, HaveName
<1>9. key \in DOMAIN A.storage /\ CheckQuorumReached(K, m.from, QuorumSize)
        => result = resolution
  BY Zenon DEF HaveName
<1> HIDE DEF A, K, result
<1>10. NodeStep(m, A, K, m.from, m.id, result)
  BY <1>1, <1>2, <1>4, <1>5, <1>7, <1>8, <1>9, Zenon DEF NodeStep, A
<1>11. QED
  BY <1>10, Zenon

-----------------------------------------------------------------------------
(***************************************************************************)
(* The theorems.                                                           *)
(***************************************************************************)

LEMMA SentinelInitInv == SentinelInit => SentinelInv
<1> SUFFICES ASSUME SentinelInit  PROVE SentinelInv
  OBVIOUS
<1>1. /\ node_accumulator_ = EmptyAccumulator
      /\ group_accumulator_ = EmptyAccumulator
      /\ group_key_accumulator_ = EmptyAccumulator
      /\ node_key_accumulator_ = EmptyAccumulator
      /\ clock = 0 /\ scenario \in DOMAIN Scenario
      /\ requested = {} /\ delivered = {}
      /\ resolved = [k \in (Group \union Client) \X MessageId |-> <<>>]
  BY Zenon DEF SentinelInit
<1>2. ASSUME NEW N, NEW S, NEW V, NEW kind
      PROVE  WellFormed(EmptyAccumulator, N, S, V) /\ Stored(EmptyAccumulator, kind, {})
  <2>1. /\ DOMAIN EmptyAccumulator = {"order", "storage"}
        /\ EmptyAccumulator.order = <<>>
        /\ DOMAIN EmptyAccumulator.storage = {}
    BY DEF EmptyAccumulator
  <2>2. <<>> \in Seq(N) /\ Len(<<>>) = 0
    OBVIOUS
  <2>3. QED
    BY <2>1, <2>2, SMTT(30) DEF WellFormed, Stored
<1>3. TypeInv
  <2>1. IsFiniteSet({})
    BY FS_EmptySet
  <2>2. QED
    BY <1>1, <1>2, <2>1, Zenon DEF TypeInv
<1>4. StoredInv /\ RequestInv
  BY <1>1, <1>2, Zenon DEF StoredInv, OneEach, RequestInv
<1>5. \A f \in Group \union Client, j \in MessageId : ~Returned(<<f, j>>)
  BY <1>1 DEF Returned
<1>6. ResultInv /\ SpentInv
  BY <1>5, Zenon DEF ResultInv, SpentInv
<1>7. \A kind, from, j : GivenIn({}, kind, from, j) = {} /\ Senders({}) = {}
  BY DEF GivenIn, Senders
<1>8. Cardinality({}) = 0 /\ ~(0 >= QuorumSize)
  BY FS_EmptySet, QuorumFacts
<1>9. \A from, j, p : ~GroupEnough({}, from, j, p) /\ ~NodeEnough({}, from, j)
  BY <1>7, <1>8 DEF GroupEnough, NodeEnough
<1>10. HeldInv
  BY <1>1, <1>7, <1>9, Zenon DEF HeldInv
<1>11. QED
  BY <1>3, <1>4, <1>6, <1>10, Zenon DEF SentinelInv

\* The requests of a step, whatever message it is for.
LEMMA RequestsAfter ==
  ASSUME SentinelInv, NEW m, IsMessage(m), delivered' = delivered \union {m},
         \/ /\ m.kind \in {"Group", "Node"}
            /\ requested' \subseteq requested \union {<<m.from, m.id>>}
         \/ /\ m.kind \in {"GroupKey", "ClientKey"} /\ <<m.from, m.id>> \in requested
            /\ requested' = requested
  PROVE  RequestInv'
<1>0. RequestInv
  BY DEF SentinelInv
<1>1. \A kind, from, id :
        GivenIn(delivered, kind, from, id) \subseteq GivenIn(delivered', kind, from, id)
  BY DEF GivenIn
<1>2. m.kind = "Node" => m \in GivenIn(delivered', "Node", m.from, m.id)
  BY DEF GivenIn
<1>3. ASSUME NEW c \in Client, NEW id \in MessageId, <<c, id>> \in requested'
      PROVE  GivenIn(delivered', "Node", c, id) # {}
  <2>1. CASE <<c, id>> \in requested
    BY <1>0, <1>1, <2>1, Zenon DEF RequestInv
  <2>2. CASE <<c, id>> \notin requested
    <3>1. m.kind \in {"Group", "Node"} /\ <<c, id>> = <<m.from, m.id>>
      BY <1>3, <2>2, Zenon
    <3>2. c = m.from /\ id = m.id
      BY <3>1
    <3>3. m.kind # "Group"
      <4>1. m.kind = "Group" => m.from \in Group
        BY DEF IsMessage
      <4>2. QED
        BY <3>2, <4>1, NamesApart, Zenon
    <3>4. QED
      BY <1>2, <3>1, <3>2, <3>3, Zenon
  <2>3. QED
    BY <2>1, <2>2, Zenon
<1>4. ASSUME NEW d \in delivered', d.kind = "ClientKey"
      PROVE  GivenIn(delivered', "Node", d.from, d.id) # {}
  <2>1. CASE d \in delivered
    BY <1>0, <1>1, <1>4, <2>1, Zenon DEF RequestInv
  <2>2. CASE d = m
    <3>1. m.from \in Client /\ m.id \in MessageId /\ <<m.from, m.id>> \in requested
      BY <1>4, <2>2, Zenon DEF IsMessage
    <3>2. QED
      BY <1>0, <1>1, <2>2, <3>1, Zenon DEF RequestInv
  <2>3. QED
    BY <2>1, <2>2
<1>5. QED
  BY <1>3, <1>4, Zenon DEF RequestInv

LEMMA GroupStepInv ==
  ASSUME SentinelInv, NEW m, NEW A, NEW K, NEW g, NEW id, NEW result,
         GroupStep(m, A, K, g, id, result), RequestInv'
  PROVE  SentinelInv'
<1>1. clock' = clock
  BY Zenon DEF GroupStep
<1>2. clock <= TimeToLive => HeldInv'
  BY GroupHeld, Zenon
<1>3. QED
  BY <1>1, <1>2, GroupTypes, GroupResults, GroupSpent, Zenon DEF SentinelInv

LEMMA NodeStepInv ==
  ASSUME SentinelInv, NEW m, NEW A, NEW K, NEW c, NEW id, NEW result,
         NodeStep(m, A, K, c, id, result), RequestInv'
  PROVE  SentinelInv'
<1>1. clock' = clock
  BY Zenon DEF NodeStep
<1>2. clock <= TimeToLive => HeldInv'
  BY NodeHeld
<1>3. QED
  BY <1>1, <1>2, NodeTypes, NodeResults, NodeSpent DEF SentinelInv

LEMMA SentinelUnchanged ==
  ASSUME SentinelInv, clock' \in Nat, clock <= clock',
         UNCHANGED <<accumulators, scenario, requested, delivered, resolved>>
  PROVE  SentinelInv'
<1>1. /\ node_accumulator_' = node_accumulator_ /\ group_accumulator_' = group_accumulator_
      /\ node_key_accumulator_' = node_key_accumulator_
      /\ group_key_accumulator_' = group_key_accumulator_
      /\ scenario' = scenario /\ requested' = requested /\ delivered' = delivered
      /\ resolved' = resolved
  BY DEF accumulators
<1>2. TypeInv' /\ StoredInv' /\ RequestInv'
  BY <1>1, Zenon DEF SentinelInv, TypeInv, StoredInv, RequestInv
<1>3. ResultInv' /\ SpentInv'
  BY <1>1, Zenon DEF SentinelInv, ResultInv, SpentInv, Returned, OneResult
<1>4. ASSUME clock' <= TimeToLive  PROVE HeldInv'
  <2>1. clock \in Nat
    BY DEF SentinelInv, TypeInv
  <2>2. clock <= TimeToLive
    BY <1>4, <2>1, TimeToLiveAssumption
  <2>3. HeldInv
    BY <2>2, Zenon DEF SentinelInv
  <2>4. QED
    BY <1>1, <2>3, Zenon DEF HeldInv, Returned
<1>5. QED
  BY <1>2, <1>3, <1>4 DEF SentinelInv

LEMMA SentinelStepInv == SentinelInv /\ [SentinelNext]_sentinelVars => SentinelInv'
<1> SUFFICES ASSUME SentinelInv, [SentinelNext]_sentinelVars  PROVE SentinelInv'
  OBVIOUS
<1>0. TypeInv
  BY DEF SentinelInv
<1>1. ASSUME NEW m \in Scenario[scenario].messages, m.kind = "ClientKey", AddClientKey(m)
      PROVE  SentinelInv'
  <2>1. RequestInv'
    BY <1>0, <1>1, SentMessages, RequestsAfter, Zenon DEF AddClientKey
  <2>2. QED
    BY <1>1, <2>1, AddClientKeyStep, NodeStepInv, Zenon
<1>2. ASSUME NEW m \in Scenario[scenario].messages, m.kind = "GroupKey", AddGroupKey(m)
      PROVE  SentinelInv'
  <2>1. RequestInv'
    BY <1>0, <1>2, SentMessages, RequestsAfter, Zenon DEF AddGroupKey
  <2>2. QED
    BY <1>2, <2>1, AddGroupKeyStep, GroupStepInv, Zenon
<1>3. ASSUME NEW m \in Scenario[scenario].messages, m.kind = "Group", AddGroupMessage(m)
      PROVE  SentinelInv'
  <2>1. RequestInv'
    BY <1>0, <1>3, SentMessages, RequestsAfter, Zenon DEF AddGroupMessage
  <2>2. QED
    BY <1>3, <2>1, AddGroupMessageStep, GroupStepInv, Zenon
<1>4. ASSUME NEW m \in Scenario[scenario].messages, m.kind = "Node", AddNodeMessage(m)
      PROVE  SentinelInv'
  <2>1. RequestInv'
    BY <1>0, <1>4, SentMessages, RequestsAfter, Zenon DEF AddNodeMessage
  <2>2. QED
    BY <1>4, <2>1, AddNodeMessageStep, NodeStepInv, Zenon
<1>5. CASE SentinelTick
  <2>1. clock \in Nat /\ clock' = clock + 1
    BY <1>0, <1>5, Zenon DEF SentinelTick, TypeInv
  <2>2. clock' \in Nat /\ clock <= clock'
    BY <2>1
  <2>3. QED
    BY <1>5, <2>2, SentinelUnchanged, Zenon DEF SentinelTick
<1>6. CASE UNCHANGED sentinelVars
  <2>1. clock \in Nat /\ clock' = clock
    BY <1>0, <1>6 DEF sentinelVars, TypeInv
  <2>2. QED
    BY <1>6, <2>1, SentinelUnchanged DEF sentinelVars
<1>7. QED
  BY <1>1, <1>2, <1>3, <1>4, <1>5, <1>6, Zenon DEF SentinelNext

\* What the invariant says of the properties the runs check.
LEMMA SentinelInvImplies ==
  ASSUME SentinelInv
  PROVE  ResultHasQuorum /\ AtMostOnce /\ QuorumResolves
<1>0. TypeInv /\ StoredInv /\ ResultInv
  BY DEF SentinelInv
<1>1. \A k \in DOMAIN resolved : resolved[k] = <<>> \/ resolved[k] = <<resolved[k][1]>>
  <2> SUFFICES ASSUME NEW k \in (Group \union Client) \X MessageId
               PROVE  resolved[k] = <<>> \/ resolved[k] = <<resolved[k][1]>>
    BY <1>0 DEF TypeInv
  <2>1. PICK f \in Group \union Client, j \in MessageId : k = <<f, j>>
    OBVIOUS
  <2>2. QED
    BY <1>0, <2>1, Zenon DEF ResultInv, Returned, OneResult
<1>2. AtMostOnce
  <2>1. Len(<<>>) <= 1 /\ \A x : Len(<<x>>) <= 1
    OBVIOUS
  <2>2. QED
    BY <1>1, <2>1, Zenon DEF AtMostOnce
<1>3. \A kind, from, id : Given(kind, from, id) = GivenIn(delivered, kind, from, id)
  BY DEF Given, GivenIn
<1>4. \A g : KnownMembers(g) = KnownIn(delivered, g)
  BY DEF KnownMembers, KnownIn
<1>5. ASSUME NEW f \in Group \union Client, NEW j \in MessageId, NEW i \in DOMAIN resolved[<<f, j>>]
      PROVE  Returned(<<f, j>>) /\ i = 1
  <2>1. <<f, j>> \in DOMAIN resolved
    BY <1>0 DEF TypeInv
  <2>2. DOMAIN <<>> = {} /\ \A x : DOMAIN <<x>> = {1}
    OBVIOUS
  <2>3. resolved[<<f, j>>] # <<>>
    BY <1>5, <2>2
  <2>4. QED
    BY <1>1, <1>5, <2>1, <2>2, <2>3, Zenon DEF Returned
<1>6. GroupResultHasQuorum
  <2> SUFFICES ASSUME NEW g \in Group, NEW id \in MessageId, NEW i \in DOMAIN resolved[<<g, id>>]
               PROVE  LET valid == {m \in Given("Group", g, id) :
                                      m.signed /\ m.sender \in KnownMembers(g)}
                          payload == resolved[<<g, id>>][i]
                      IN  /\ Cardinality(Senders(UNION {Given("GroupKey", g, j) : j \in MessageId}))
                               >= QuorumSize
                          /\ IF id \in AccountId
                             THEN \E ms \in SUBSET valid :
                                    /\ Cardinality(Senders(ms)) >= QuorumSize
                                    /\ payload = Merge([s \in Senders(ms) |->
                                                   (CHOOSE m \in ms : m.sender = s).payload])
                             ELSE Cardinality({m \in valid : m.payload = payload}) >= QuorumSize
    BY Zenon DEF GroupResultHasQuorum
  <2>1. GroupBacked(delivered, g, id, resolved[<<g, id>>][i])
    BY <1>0, <1>5, Zenon DEF ResultInv
  <2>2. UNION {Given("GroupKey", g, j) : j \in MessageId} = KeysIn(delivered, "GroupKey", g)
    BY <1>3 DEF KeysIn
  <2> DEFINE valid == {m \in GivenIn(delivered, "Group", g, id) :
                         m.signed /\ m.sender \in KnownIn(delivered, g)}
             payload == resolved[<<g, id>>][i]
  <2>3. valid = {m \in Given("Group", g, id) : m.signed /\ m.sender \in KnownMembers(g)}
    BY <1>3, <1>4, Zenon
  <2>4. /\ Cardinality(Senders(KeysIn(delivered, "GroupKey", g))) >= QuorumSize
        /\ IF id \in AccountId
           THEN \E ms \in SUBSET valid :
                  /\ Cardinality(Senders(ms)) >= QuorumSize
                  /\ payload = Merge([s \in Senders(ms) |->
                                        (CHOOSE m \in ms : m.sender = s).payload])
           ELSE Cardinality({m \in valid : m.payload = payload}) >= QuorumSize
    BY <2>1, Zenon DEF GroupBacked
  <2> HIDE DEF valid, payload
  <2>5. QED
    BY <2>2, <2>3, <2>4, Zenon DEF payload
<1>7. NodeResultHasQuorum
  <2> SUFFICES ASSUME NEW c \in Client, NEW id \in MessageId, NEW i \in DOMAIN resolved[<<c, id>>]
               PROVE  /\ \E m \in Given("Node", c, id) :
                           m.signed /\ m.payload = resolved[<<c, id>>][i]
                      /\ Cardinality(Senders(UNION {Given("ClientKey", c, j) : j \in MessageId}))
                           >= QuorumSize
    BY Zenon DEF NodeResultHasQuorum
  <2>1. NodeBacked(delivered, c, id, resolved[<<c, id>>][i])
    BY <1>0, <1>5, Zenon DEF ResultInv
  <2>2. UNION {Given("ClientKey", c, j) : j \in MessageId} = KeysIn(delivered, "ClientKey", c)
    BY <1>3 DEF KeysIn
  <2>3. QED
    BY <1>3, <2>1, <2>2, Zenon DEF NodeBacked
<1>8. ASSUME clock <= TimeToLive  PROVE GroupQuorumResolves /\ NodeQuorumResolves
  <2>0. HeldInv /\ IsFiniteSet(delivered) /\ OneEach(delivered) /\ \A d \in delivered : IsMessage(d)
    BY <1>0, <1>8, Zenon DEF SentinelInv, TypeInv, StoredInv
  <2>1. ASSUME NEW g \in Group, NEW id \in MessageId \ AccountId, NEW payload \in Payload,
               GroupEnough(delivered, g, id, payload)
        PROVE  resolved[<<g, id>>] = <<payload>>
    <3>1. Returned(<<g, id>>)
      BY <2>0, <2>1 DEF HeldInv
    <3>2. OneResult(<<g, id>>) /\ GroupBacked(delivered, g, id, resolved[<<g, id>>][1])
      BY <1>0, <3>1, Zenon DEF ResultInv
    <3>3. resolved[<<g, id>>][1] = payload
      BY <2>0, <2>1, <3>2, GroupAgree, Zenon
    <3>4. QED
      BY <3>2, <3>3, Zenon DEF OneResult
  <2>2. GroupQuorumResolves
    BY <1>3, <2>1, Zenon DEF GroupQuorumResolves, GroupEnough
  <2>3. ASSUME NEW c \in Client, NEW id \in MessageId, NEW m \in GivenIn(delivered, "Node", c, id),
               m.signed, Cardinality(GivenIn(delivered, "ClientKey", c, id)) >= QuorumSize
        PROVE  resolved[<<c, id>>] = <<m.payload>>
    <3>1. Returned(<<c, id>>)
      BY <2>0, <2>3 DEF HeldInv, NodeEnough
    <3>2. OneResult(<<c, id>>) /\ NodeBacked(delivered, c, id, resolved[<<c, id>>][1])
      BY <1>0, <3>1, Zenon DEF ResultInv
    <3>3. resolved[<<c, id>>][1] = m.payload
      BY <2>0, <3>2, NodeAgree, Zenon
    <3>4. QED
      BY <3>2, <3>3, Zenon DEF OneResult
  <2>4. NodeQuorumResolves
    BY <1>3, <2>3 DEF NodeQuorumResolves
  <2>5. QED
    BY <2>2, <2>4, Zenon
<1>9. QED
  BY <1>2, <1>6, <1>7, <1>8, Zenon DEF ResultHasQuorum, QuorumResolves

LEMMA SentinelInvariant == SentinelSpec => []SentinelInv
BY SentinelInitInv, SentinelStepInv, PTL DEF SentinelSpec

\* Whatever is delivered, in whatever order, and whatever expires, a result of
\* Sentinel::Add has its quorum of messages and its quorum of keys.
THEOREM SentinelQuorum == SentinelSpec => []ResultHasQuorum
<1>1. SentinelInv => ResultHasQuorum
  BY SentinelInvImplies, Zenon
<1>2. QED
  BY <1>1, SentinelInvariant, PTL

\* Sentinel::Add returns a message id of a source at most once.
THEOREM SentinelOnce == SentinelSpec => []AtMostOnce
<1>1. SentinelInv => AtMostOnce
  BY SentinelInvImplies
<1>2. QED
  BY <1>1, SentinelInvariant, PTL

\* As long as nothing expires, the call of Sentinel::Add that completes what a
\* result takes returns it, whichever of its parts comes last.
THEOREM SentinelPrompt == SentinelSpec => []QuorumResolves
<1>1. SentinelInv => QuorumResolves
  BY SentinelInvImplies
<1>2. QED
  BY <1>1, SentinelInvariant, PTL

=============================================================================
