----------------------------- MODULE MCSentinel -----------------------------
(***************************************************************************)
(* Sentinel for TLC: three members, a quorum of two.                       *)
(***************************************************************************)
EXTENDS Sentinel, TLC

\* A member answers with the keys of its close group, which it is not in.
MCKeysFrom(member) == Member \ {member}

\* The application merges accounts that are equal up to one of them.
MCMerge(accounts) ==
  LET values == {accounts[s] : s \in DOMAIN accounts}
  IN  IF \E p \in values : Cardinality({s \in DOMAIN accounts : accounts[s] # p}) <= 1
      THEN CHOOSE p \in values : Cardinality({s \in DOMAIN accounts : accounts[s] # p}) <= 1
      ELSE NoPayload

\* The messages of the members of some groups, and their key responses.
GroupMessages(groups, ids, payloads, signed) ==
  {Message("Group", g, s, id, p, b) :
     g \in groups, s \in Member, id \in ids, p \in payloads, b \in signed}
  \union {GetGroupKeyResponse(g, s, id) : g \in groups, s \in Member, id \in ids}

\* The messages of some clients, and the key responses of their managers.
ClientMessages(clients, ids, payloads, signed) ==
  {Message("Node", c, c, id, p, b) :
     c \in clients, id \in ids, p \in payloads, b \in signed}
  \union {GetClientKeyResponse(c, s, id) : c \in clients, s \in Member, id \in ids}

\* Signatures that fail; two ids, one of them of an account transfer; two groups
\* and entries that expire; a client with two messages, and its keys expire.
MCScenario ==
  [forged |-> [messages |-> GroupMessages({"g1"}, {1}, Payload, BOOLEAN), maxNow |-> 0],
   ids |-> [messages |-> GroupMessages({"g1"}, {1, 2}, Payload, {TRUE}), maxNow |-> 0],
   expiry |-> [messages |-> GroupMessages({"g1", "g2"}, {1}, {"p1"}, {TRUE}), maxNow |-> 2],
   client |-> [messages |-> ClientMessages({"c1"}, {1, 2}, Payload, BOOLEAN), maxNow |-> 2]]

MemberSymmetry == Permutations(Member)

=============================================================================
