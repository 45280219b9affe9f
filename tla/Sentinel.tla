----------------------------- MODULE Sentinel -----------------------------
(***************************************************************************)
(* The Sentinel (sentinel.h, sentinel.cc) composes four accumulators: it   *)
(* collects the messages of a group or of a single node, and the public    *)
(* keys to check their signatures with, and returns a message once enough  *)
(* of both agree.                                                          *)
(*                                                                         *)
(* A header is the claimed source (from: FromGroup, or FromNode for a      *)
(* single node), the sending node (sender: FromNode) and the message id.   *)
(* Whether asymm::CheckSignature accepts a message is its field signed.    *)
(* Every key response of a group brings the keys of the members its sender *)
(* knows (KeysFrom); the responses agree and the keys are valid, as the    *)
(* asserts in Validate require.  Accounts are merged by the application's  *)
(* AccountTransferInfo::Merge.                                             *)
(*                                                                         *)
(* The network delivers each message of a sender at most once (RoutingNode *)
(* filters on sender and message id), in any order, or never; a key        *)
(* response comes after the request for it and carries its message id.     *)
(* A scenario is the messages that may be sent and a bound on the clock.   *)
(***************************************************************************)
EXTENDS AccumulatorOps

CONSTANTS
  Group,         \* group addresses
  Client,        \* nodes that send messages of their own
  Member,        \* members of the groups, and managers of the clients
  MessageId,
  AccountId,     \* the ids used by AccountTransfer messages
  Payload,
  NoPayload,     \* boost::none
  KeysFrom(_),   \* the members whose keys a member's response brings
  Merge(_),      \* AccountTransferInfo::Merge, of one payload per sender
  QuorumSize,    \* types.h: 19, of groups of 23
  Scenario       \* Scenario[i]: [messages, maxNow]

\* A message of a group comes from a member; a single node sends its own.
IsMessage(m) ==
  /\ m.id \in MessageId
  /\ \/ m.kind = "Group" /\ m.from \in Group /\ m.sender \in Member /\ m.payload \in Payload
     \/ m.kind = "Node" /\ m.from \in Client /\ m.sender = m.from /\ m.payload \in Payload
     \/ m.kind = "GroupKey" /\ m.from \in Group /\ m.sender \in Member
     \/ m.kind = "ClientKey" /\ m.from \in Client /\ m.sender \in Member

ASSUME SentinelAssumption ==
  /\ QuorumSize \in Nat /\ 1 < QuorumSize /\ QuorumSize <= Cardinality(Member)
  /\ 2 * QuorumSize > Cardinality(Member)
  /\ IsFiniteSet(Member)
  /\ NoPayload \notin Payload
  /\ Group \intersect Client = {}
  /\ AccountId \subseteq MessageId
  /\ \A i \in DOMAIN Scenario :
       /\ Scenario[i].maxNow \in Nat
       /\ \A m \in Scenario[i].messages : IsMessage(m)

VARIABLES
  node_accumulator_,
  group_accumulator_,
  group_key_accumulator_,
  node_key_accumulator_,
  clock,       \* steady_clock::now()
  scenario,    \* the scenario this run of the network is of
  requested,   \* history: <<source, id>> for which keys were requested
  delivered,   \* history: everything given to Add
  resolved     \* history: per <<source, id>>, the payloads Add returned

accumulators ==
  <<node_accumulator_, group_accumulator_, group_key_accumulator_, node_key_accumulator_>>
sentinelVars == <<accumulators, clock, scenario, requested, delivered, resolved>>

Message(kind, from, sender, id, payload, signed) ==
  [kind |-> kind, from |-> from, sender |-> sender, id |-> id,
   payload |-> payload, signed |-> signed]

\* The keys a response brings follow from its sender.
GetClientKeyResponse(client, sender, id) ==
  Message("ClientKey", client, sender, id, NoPayload, TRUE)
GetGroupKeyResponse(group, sender, id) ==
  Message("GroupKey", group, sender, id, NoPayload, TRUE)

SentinelInit ==
  /\ node_accumulator_ = EmptyAccumulator
  /\ group_accumulator_ = EmptyAccumulator
  /\ group_key_accumulator_ = EmptyAccumulator
  /\ node_key_accumulator_ = EmptyAccumulator
  /\ clock = 0
  /\ scenario \in DOMAIN Scenario
  /\ requested = {}
  /\ delivered = {}
  /\ resolved = [k \in (Group \union Client) \X MessageId |-> <<>>]

-----------------------------------------------------------------------------
(***************************************************************************)
(* Validate and Resolve.  Validate returns the senders of the messages     *)
(* that were verified.                                                     *)
(***************************************************************************)

ValidateNode(messages, keys) ==
  {s \in DOMAIN messages : Cardinality(DOMAIN keys) >= QuorumSize /\ messages[s].signed}

\* Mutant of ValidateGroup: there may be fewer key responses than a quorum.
ValidateGroupFewKeys(messages, keys) ==
  LET keys_map == UNION {KeysFrom(r) : r \in DOMAIN keys}
      verified == {s \in DOMAIN messages \intersect keys_map : messages[s].signed}
  IN  IF \/ Cardinality(DOMAIN messages) < QuorumSize
         \/ Cardinality(verified) < QuorumSize
      THEN {} ELSE verified

ValidateGroup(messages, keys) ==
  LET keys_map == UNION {KeysFrom(r) : r \in DOMAIN keys}
      verified == {s \in DOMAIN messages \intersect keys_map : messages[s].signed}
  IN  IF \/ Cardinality(DOMAIN messages) < QuorumSize
         \/ Cardinality(DOMAIN keys) < QuorumSize
         \/ Cardinality(verified) < QuorumSize
      THEN {} ELSE verified

\* The senders in verified whose message is the payload.
Agreeing(messages, verified, payload) ==
  {s \in verified : messages[s].payload = payload}

\* A quorum of equal payloads, or the merged accounts.
ResolveGroup(messages, verified, id) ==
  LET winners == {p \in Payload :
                    Cardinality(Agreeing(messages, verified, p)) >= QuorumSize}
  IN  IF Cardinality(verified) < QuorumSize
        THEN NoPayload
      ELSE IF id \in AccountId
        THEN Merge([s \in verified |-> messages[s].payload])
      ELSE IF winners # {} THEN CHOOSE p \in winners : TRUE
      ELSE NoPayload

ResolveNode(messages, verified) ==
  IF verified = {} THEN NoPayload ELSE messages[CHOOSE s \in verified : TRUE].payload

-----------------------------------------------------------------------------
(***************************************************************************)
(* Sentinel::Add, one action for each of its branches.                     *)
(***************************************************************************)

\* Each sender is heard once with each id.
Fresh(m) ==
  \A d \in delivered : <<d.kind, d.from, d.sender, d.id>> # <<m.kind, m.from, m.sender, m.id>>

\* What Add returns, and Delete of the messages it resolved.
Return(key, payload) ==
  resolved' = IF payload = NoPayload THEN resolved
              ELSE [resolved EXCEPT ![key] = Append(@, payload)]

\* Mutant of AfterReturn: resolved messages are not deleted.
KeepAfterReturn(acc, key, payload) == acc

AfterReturn(acc, key, payload) == IF payload = NoPayload THEN acc ELSE Delete(acc, key)

\* tag == GetClientKeyResponse; the group is that of the client's managers.
AddClientKey(m) ==
  LET client == m.from
      key == <<client, m.id>>
      keys == Add(node_key_accumulator_, client, m, m.sender, clock)
      messages == GetAll(node_accumulator_, key)
      result == IF /\ CheckQuorumReached(keys, client, QuorumSize)
                   /\ HaveName(node_accumulator_, key)
                THEN ResolveNode(messages, ValidateNode(messages, GetAll(keys, client)))
                ELSE NoPayload
  IN  /\ Fresh(m) /\ key \in requested
      /\ node_key_accumulator_' = keys
      /\ node_accumulator_' = AfterReturn(node_accumulator_, key, result)
      /\ Return(key, result)
      /\ delivered' = delivered \union {m}
      /\ UNCHANGED <<group_accumulator_, group_key_accumulator_, clock, scenario, requested>>

\* tag == GetGroupKeyResponse
AddGroupKey(m) ==
  LET group == m.from
      key == <<group, m.id>>
      keys == Add(group_key_accumulator_, group, m, m.sender, clock)
      messages == GetAll(group_accumulator_, key)
      result == IF /\ CheckQuorumReached(keys, group, QuorumSize)
                   /\ HaveName(group_accumulator_, key)
                THEN ResolveGroup(messages, ValidateGroup(messages, GetAll(keys, group)), m.id)
                ELSE NoPayload
  IN  /\ Fresh(m) /\ key \in requested
      /\ group_key_accumulator_' = keys
      /\ group_accumulator_' = AfterReturn(group_accumulator_, key, result)
      /\ Return(key, result)
      /\ delivered' = delivered \union {m}
      /\ UNCHANGED <<node_accumulator_, node_key_accumulator_, clock, scenario, requested>>

\* Mutant of AddGroupMessage: the keys are not looked up when the last
\* message arrives after them.
AddGroupMessageOnly(m) ==
  LET key == <<m.from, m.id>>
  IN  /\ Fresh(m)
      /\ requested' = IF HaveName(group_accumulator_, key) THEN requested
                                                           ELSE requested \union {key}
      /\ group_accumulator_' = Add(group_accumulator_, key, m, m.sender, clock)
      /\ delivered' = delivered \union {m}
      /\ UNCHANGED <<node_accumulator_, group_key_accumulator_, node_key_accumulator_,
                     clock, scenario, resolved>>

\* Any other tag, header.FromGroup().
AddGroupMessage(m) ==
  LET key == <<m.from, m.id>>
      acc == Add(group_accumulator_, key, m, m.sender, clock)
      messages == GetAll(acc, key)
      keys == GetAll(group_key_accumulator_, m.from)
      result == IF /\ CheckQuorumReached(acc, key, QuorumSize)
                   /\ HaveName(group_key_accumulator_, m.from)
                THEN ResolveGroup(messages, ValidateGroup(messages, keys), m.id)
                ELSE NoPayload
  IN  /\ Fresh(m)
      /\ requested' = IF HaveName(group_accumulator_, key) THEN requested
                                                           ELSE requested \union {key}
      /\ group_accumulator_' = AfterReturn(acc, key, result)
      /\ Return(key, result)
      /\ delivered' = delivered \union {m}
      /\ UNCHANGED <<node_accumulator_, group_key_accumulator_, node_key_accumulator_, clock,
                     scenario>>

\* Any other tag, a single node.  The accumulator has quorum 1.  The keys are
\* looked up in node_accumulator_ itself.
AddNodeMessage(m) ==
  LET key == <<m.from, m.id>>
      acc == Add(node_accumulator_, key, m, m.sender, clock)
      messages == GetAll(acc, key)
      keys == GetAll(acc, key)
      result == IF CheckQuorumReached(acc, key, 1)
                THEN ResolveNode(messages, ValidateNode(messages, keys))
                ELSE NoPayload
  IN  /\ Fresh(m)
      /\ requested' = IF HaveName(node_accumulator_, key) THEN requested
                                                          ELSE requested \union {key}
      /\ node_accumulator_' = AfterReturn(acc, key, result)
      /\ Return(key, result)
      /\ delivered' = delivered \union {m}
      /\ UNCHANGED <<group_accumulator_, group_key_accumulator_, node_key_accumulator_, clock,
                     scenario>>

\* Time passes between calls.
SentinelTick ==
  /\ clock < Scenario[scenario].maxNow
  /\ clock' = clock + 1
  /\ UNCHANGED <<accumulators, scenario, requested, delivered, resolved>>

SentinelNext ==
  \/ \E m \in Scenario[scenario].messages :
       \/ m.kind = "ClientKey" /\ AddClientKey(m)
       \/ m.kind = "GroupKey" /\ AddGroupKey(m)
       \/ m.kind = "Group" /\ AddGroupMessage(m)
       \/ m.kind = "Node" /\ AddNodeMessage(m)
  \/ SentinelTick

SentinelSpec == SentinelInit /\ [][SentinelNext]_sentinelVars

-----------------------------------------------------------------------------

\* The messages and key responses delivered for a source and an id.
Given(kind, from, id) == {d \in delivered : d.kind = kind /\ d.from = from /\ d.id = id}
Senders(ms) == {m.sender : m \in ms}

\* Members whose keys came with the key responses of a group, whatever id.
KnownMembers(group) ==
  UNION {KeysFrom(d.sender) : d \in {e \in delivered : e.kind = "GroupKey" /\ e.from = group}}

\* A quorum of members whose keys a quorum of members vouched for sent the payload
\* under valid signatures (for accounts: sent the payloads that were merged).
GroupResultHasQuorum ==
  \A g \in Group, id \in MessageId : \A i \in DOMAIN resolved[<<g, id>>] :
    LET valid == {m \in Given("Group", g, id) : m.signed /\ m.sender \in KnownMembers(g)}
        payload == resolved[<<g, id>>][i]
    IN  /\ Cardinality(Senders(UNION {Given("GroupKey", g, j) : j \in MessageId})) >= QuorumSize
        /\ IF id \in AccountId
           THEN \E ms \in SUBSET valid :
                  /\ Cardinality(Senders(ms)) >= QuorumSize
                  /\ payload = Merge([s \in Senders(ms) |->
                                        (CHOOSE m \in ms : m.sender = s).payload])
           ELSE Cardinality({m \in valid : m.payload = payload}) >= QuorumSize

\* The node sent the payload under a valid signature and a quorum of its managers
\* sent its key.
NodeResultHasQuorum ==
  \A c \in Client, id \in MessageId : \A i \in DOMAIN resolved[<<c, id>>] :
    /\ \E m \in Given("Node", c, id) : m.signed /\ m.payload = resolved[<<c, id>>][i]
    /\ Cardinality(Senders(UNION {Given("ClientKey", c, j) : j \in MessageId})) >= QuorumSize

\* A message is returned only if enough nodes stand for it: a quorum of its group
\* for a group's, a quorum of the managers of its key for a single node's, whatever
\* else was delivered and whatever has expired (sentinel.cc:62-131, 144-246).
ResultHasQuorum == GroupResultHasQuorum /\ NodeResultHasQuorum

\* No message id of a source is returned twice, although the messages that
\* arrive after the first return start a new entry, and entries expire.
AtMostOnce == \A k \in DOMAIN resolved : Len(resolved[k]) <= 1

\* A quorum of equal, valid messages and a quorum of key responses for them have
\* arrived: the payload has been returned.
GroupQuorumResolves ==
  \A g \in Group, id \in MessageId \ AccountId, payload \in Payload :
    LET agreeing == {m \in Given("Group", g, id) : m.signed /\ m.payload = payload}
        vouched == UNION {KeysFrom(s) : s \in Senders(Given("GroupKey", g, id))}
    IN  /\ Cardinality(Senders(agreeing) \intersect vouched) >= QuorumSize
        /\ Cardinality(Given("GroupKey", g, id)) >= QuorumSize
        => resolved[<<g, id>>] = <<payload>>

\* The message and a quorum of the key responses it made the Sentinel request have
\* arrived: its payload has been returned.
NodeQuorumResolves ==
  \A c \in Client, id \in MessageId : \A m \in Given("Node", c, id) :
    m.signed /\ Cardinality(Given("ClientKey", c, id)) >= QuorumSize
      => resolved[<<c, id>>] = <<m.payload>>

\* Before anything can expire: a message is returned as soon as the messages and
\* the key responses it takes are there, in whatever order they came, with other
\* messages, ids and groups between them (sentinel.cc:62-131).
QuorumResolves == clock <= TimeToLive => GroupQuorumResolves /\ NodeQuorumResolves

\* A single node's message that arrives when a quorum of the node's key is
\* accumulated already is checked against it at once.
HeldKeysResolveNode ==
  [][\A c \in Client, id \in MessageId :
       \A m \in Given("Node", c, id)' \ Given("Node", c, id) :
         m.signed /\ CheckQuorumReached(node_key_accumulator_, c, QuorumSize)
           => resolved'[<<c, id>>] # <<>>]_sentinelVars

=============================================================================
