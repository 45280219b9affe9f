------------------------------ MODULE RoutingNode ------------------------------
(***************************************************************************)
(* RoutingNode (routing_node.h): what a node does with a message from a    *)
(* peer, and the requests it makes itself.  MessageReceived runs on the    *)
(* crux thread; Get, Put and Post run on the four threads of asio_service_.*)
(*                                                                         *)
(* An address is its distance from our id, which is 0.  The connection     *)
(* manager is seen through the ids in its peers_.  filter_ and cache_ are  *)
(* LruCaches of maidsafe-common: an entry stays until its time is over.    *)
(* A message is its header and its body; its bytes are a stream that is    *)
(* consumed by Parse, so that a body can be parsed once.  A scenario is    *)
(* the messages that may reach this node, in any order and any number of   *)
(* times.                                                                  *)
(***************************************************************************)
EXTENDS Naturals, FiniteSets, Messages

CONSTANTS
  GroupSize,
  IdSpace,     \* number of values of a MessageId (2^32 in the code)
  Scenario     \* Scenario[i]: the messages that may reach this node

OurId == 0

Inbox == UNION {Scenario[i] : i \in DOMAIN Scenario}

ASSUME RoutingNodeAssumption ==
  /\ Address \subseteq Nat /\ OurId \in Address
  /\ GroupSize \in Nat \ {0, 1}  \* 23 in the code
  /\ IdSpace \in Nat \ {0}
  /\ None \notin Address
  /\ \A m \in Inbox :
       /\ FromNode(m.header) \in Address /\ Destination(m.header) \in Address
       /\ m.header.message_id \in 0..(IdSpace - 1)
       /\ m.body.tag \in Tag
       /\ m.parses \in BOOLEAN  \* whether its body is well formed

VARIABLES
  peers,             \* ids in connection_manager_.peers_
  filter_,           \* FilterValues seen lately
  cache_,            \* names with cached data
  connected_nodes_,  \* never filled by the code
  message_id_,       \* std::atomic<MessageId>
  connecting,        \* ids given to connection_manager_.AddNode
  sent,              \* messages handed to a peer's Send
  effects,           \* effects[v]: messages dispatched since v was last forgotten
  last,              \* the message received last and what became of it
  scenario           \* the scenario this behaviour is of

vars == <<peers, filter_, cache_, connected_nodes_, message_id_,
          connecting, sent, effects, last, scenario>>
-----------------------------------------------------------------------------
(* connection_manager_ and the header, as MessageReceived uses them.       *)

IsManaged(id) == id \in peers

OurCloseGroup == {p \in peers : Cardinality({q \in peers : q < p}) < GroupSize}

\* Mutant: a full group is looked at from the far end.
RangeFromFarEnd(address) ==
  \/ Cardinality(peers) < GroupSize
  \/ Cardinality({p \in peers : p >= address}) < GroupSize

AddressInCloseGroupRange(address) ==
  \/ Cardinality(peers) < GroupSize
  \/ Cardinality({p \in peers : p <= address}) < GroupSize

\* Its body is commented out: no node is ever a target.
GetTarget(address) == {}

FilterValues == {FilterValue(m.header) : m \in Inbox}

\* OurSourceAddress(): bootstrap_node_ is never set.
OurSource == SourceAddress(OurId, None, None)

OurAuthority(element, header) ==
  LET dest == Destination(header)
      from_group == FromGroup(header) # None
  IN
  CASE ~from_group /\ AddressInCloseGroupRange(FromNode(header)) /\ dest # element ->
         "client_manager"
    [] AddressInCloseGroupRange(element) /\ dest = element -> "nae_manager"
    [] from_group /\ AddressInCloseGroupRange(dest) /\ dest # OurId -> "node_manager"
    [] from_group /\ AddressInCloseGroupRange(FromGroup(header)) /\ dest = OurId ->
         "managed_node"
    [] OTHER -> "throw"

\* Send to each of the targets for an address.
SendTo(address, header, body) ==
  {[to |-> t, header |-> header, body |-> body] : t \in GetTarget(address)}
-----------------------------------------------------------------------------
(* The handlers.  Each is what it changes: what is sent, which ids are     *)
(* given to AddNode, and how it ends.                                      *)

\* std::atomic: ++message_id_, n times in all.
Draw(n) == message_id_' = (message_id_ + n) % IdSpace

Nothing == [sent |-> {}, connecting |-> {}, ids |-> 0, outcome |-> "done"]

HandleConnect(connect, header) ==
  IF ~IsManaged(connect.requester_id) THEN Nothing
  ELSE [Nothing EXCEPT
          !.sent = SendTo(connect.requester_id,
                          MessageHeader(ReturnDestinationAddress(header), OurSource,
                                        header.message_id),
                          ConnectResponse(connect.requester_id, OurId)),
          !.connecting = {connect.requester_id},
          !.outcome = IF connect.receiver_id = OurId THEN "done" ELSE "assert"]

HandleConnectResponse(connect_response) ==
  IF ~IsManaged(connect_response.requester_id) THEN Nothing
  ELSE [Nothing EXCEPT !.connecting = {connect_response.requester_id}]

HandleFindGroup(find_group, header) ==
  [Nothing EXCEPT
     !.sent = SendTo(FromNode(header),
                     MessageHeader(ReturnDestinationAddress(header),
                                   SourceAddress(OurId, find_group.target_id, None),
                                   header.message_id),
                     FindGroupResponse(find_group.target_id, OurCloseGroup \cup {OurId}))]

\* One Connect for each member that is managed.  Each has a message id of its
\* own, which is not told apart here.
HandleFindGroupResponse(find_group_response) ==
  LET managed == {n \in find_group_response.group : IsManaged(n)} IN
  [Nothing EXCEPT
     !.sent = UNION {SendTo(n, MessageHeader(DestinationAddress(n, None), OurSource, None),
                            Connect(OurId, n)) : n \in managed},
     !.ids = Cardinality(managed)]

\* The body was parsed for the cache already, so Parse throws; HandleGet, and
\* the OurAuthority it is given, would come after it.
HandleGetData(get_data, header, parsed) ==
  [Nothing EXCEPT !.outcome = IF parsed THEN "throw" ELSE OurAuthority(get_data.name, header)]

\* The tags of the bodies that are parsed for the cache, before anything else.
ParsedForCache == {"GetData", "GetDataResponse"}

\* A body that does not parse makes Parse throw, after the filter was updated.
\* The case of GetDataResponse is commented out.
Dispatch(m) ==
  LET tag == m.body.tag IN
  CASE tag \in {"GetDataResponse", "unknown"} -> Nothing
    [] tag = "GetData" -> HandleGetData(m.body, m.header, tag \in ParsedForCache)
    [] ~m.parses -> [Nothing EXCEPT !.outcome = "throw"]
    [] tag = "Connect" -> HandleConnect(m.body, m.header)
    [] tag = "ConnectResponse" -> HandleConnectResponse(m.body)
    [] tag = "FindGroup" -> HandleFindGroup(m.body, m.header)
    [] tag = "FindGroupResponse" -> HandleFindGroupResponse(m.body)
    [] OTHER -> Nothing

Relayed(m) == RelayedMessage(m.header) /\ ReplyToAddress(m.header) \in connected_nodes_
-----------------------------------------------------------------------------
Init ==
  /\ peers = {}
  /\ filter_ = {}
  /\ cache_ = {OurId}
  /\ connected_nodes_ = {}
  /\ message_id_ \in 0..(IdSpace - 1)
  /\ connecting = {}
  /\ sent = {}
  /\ effects = [v \in FilterValues |-> 0]
  /\ last = [m |-> None, outcome |-> "none"]
  /\ scenario \in DOMAIN Scenario

\* A message that was seen, whose body is not fit for the cache, or that is not
\* for us is not dispatched; the others are.
Disposal(m) ==
  IF FilterValue(m.header) \in filter_ THEN "seen"
  ELSE IF m.body.tag \in ParsedForCache /\ ~m.parses THEN "throw"
  ELSE IF Relayed(m) THEN "relayed"
  ELSE IF ~AddressInCloseGroupRange(Destination(m.header)) THEN "not for us"
  ELSE "dispatched"

\* What a message changes, given its disposal: the effect of its handler, what
\* is sent on before, and the record of what became of it.
Handle(m, disposal) ==
  LET e == IF disposal = "dispatched" THEN Dispatch(m) ELSE Nothing
      v == FilterValue(m.header)
  IN
  /\ cache_' = IF /\ disposal \notin {"seen", "throw"}
                  /\ m.body.tag = "GetDataResponse" /\ m.body.data
               THEN cache_ \cup {m.body.name} ELSE cache_
  /\ sent' = sent \cup e.sent
              \cup (IF disposal \in {"seen", "throw"} THEN {}
                    ELSE SendTo(Destination(m.header), m.header, m.body))
  /\ connecting' = connecting \cup e.connecting
  /\ Draw(e.ids)
  /\ effects' = [effects EXCEPT ![v] = IF disposal = "dispatched" THEN @ + 1 ELSE @]
  /\ last' = [m |-> m, outcome |-> IF disposal = "dispatched" THEN e.outcome ELSE disposal]
  /\ UNCHANGED <<peers, connected_nodes_, scenario>>

\* Mutant: what is for us is not added to the filter.
MessageReceivedForgets(m) ==
  /\ filter_' = IF Disposal(m) = "dispatched" THEN filter_
                ELSE filter_ \cup {FilterValue(m.header)}
  /\ Handle(m, Disposal(m))

\* MessageReceived.  A message whose header cannot be parsed changes nothing.
MessageReceived(m) ==
  /\ filter_' = filter_ \cup {FilterValue(m.header)}
  /\ Handle(m, Disposal(m))

\* An entry of filter_ or cache_ reaches its age.
Forget ==
  /\ \/ /\ \E v \in filter_ : /\ filter_' = filter_ \ {v}
                            /\ effects' = [effects EXCEPT ![v] = 0]
        /\ UNCHANGED cache_
     \/ /\ \E n \in cache_ : cache_' = cache_ \ {n}
        /\ UNCHANGED <<filter_, effects>>
  /\ UNCHANGED <<peers, connected_nodes_, message_id_, connecting, sent, last,
                 scenario>>

\* The connection manager inserts a peer or drops one.
PeersChange ==
  /\ \E p \in Address :
       peers' = (IF p \in peers THEN peers \ {p} ELSE peers \cup {p})
  /\ UNCHANGED <<filter_, cache_, connected_nodes_, message_id_, connecting,
                 sent, effects, last, scenario>>

\* Get, Put and Post, posted to any of the threads: the next message id, and a
\* Send to each target.  No line calls the caller's handler.
Request(address) ==
  /\ Draw(1)
  /\ sent' = sent \cup UNION {SendTo(address, MessageHeader(DestinationAddress(address, None),
                                                         OurSource, message_id_'), body) :
                             body \in {GetData(address, OurSource), PutData(None), Post(address)}}
  /\ UNCHANGED <<peers, filter_, cache_, connected_nodes_, connecting, effects, last, scenario>>

Next ==
  \/ \E m \in Scenario[scenario] : MessageReceived(m)
  \/ Forget
  \/ PeersChange
  \/ \E address \in Address : Request(address)

Spec == Init /\ [][Next]_vars
-----------------------------------------------------------------------------
\* A message that reaches us again, by another route or from a sender that
\* repeats it, is dispatched once as long as the filter remembers it.
DispatchedOnce == \A v \in FilterValues : effects[v] <= 1

\* The addresses this node answers for are a ball around its own id, which is
\* always in it: a message for our id is never "not for us", and one for an
\* address is not taken while one for a closer address is refused.
RangeIsBall ==
  /\ AddressInCloseGroupRange(OurId)
  /\ \A a, b \in Address :
       a < b /\ AddressInCloseGroupRange(b) => AddressInCloseGroupRange(a)
=============================================================================
