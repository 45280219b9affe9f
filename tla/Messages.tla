------------------------------- MODULE Messages -------------------------------
(***************************************************************************)
(* Headers and bodies of messages (message_header.h, source_address.h and  *)
(* messages/), with the fields that some handler looks at.  Endpoints,     *)
(* keys, signatures and the bytes of data are left out.                    *)
(***************************************************************************)

CONSTANTS
  Address,
  None         \* boost::none

\* "unknown" stands for the tags MessageReceived has no case for.
Tag == {"Connect", "ConnectResponse", "FindGroup", "FindGroupResponse", "GetData",
        "GetDataResponse", "PutData", "Post", "unknown"}
-----------------------------------------------------------------------------
SourceAddress(node, group, reply_to) ==
  [node_address |-> node, group_address |-> group, reply_to_address |-> reply_to]

\* DestinationAddress: a destination and a node it relays to.
DestinationAddress(destination, reply_to) == <<destination, reply_to>>

MessageHeader(destination, source, message_id) ==
  [destination |-> destination, source |-> source, message_id |-> message_id]

FromNode(header) == header.source.node_address
FromGroup(header) == header.source.group_address
ReplyToAddress(header) == header.source.reply_to_address
RelayedMessage(header) == ReplyToAddress(header) # None
Destination(header) == header.destination[1]

ReturnDestinationAddress(header) ==
  DestinationAddress(FromNode(header), ReplyToAddress(header))

FilterValue(header) == <<FromNode(header), header.message_id>>
-----------------------------------------------------------------------------
Connect(requester_id, receiver_id) ==
  [tag |-> "Connect", requester_id |-> requester_id, receiver_id |-> receiver_id]

ConnectResponse(requester_id, receiver_id) ==
  [tag |-> "ConnectResponse", requester_id |-> requester_id, receiver_id |-> receiver_id]

FindGroup(requester_id, target_id) ==
  [tag |-> "FindGroup", requester_id |-> requester_id, target_id |-> target_id]

FindGroupResponse(target_id, group) ==
  [tag |-> "FindGroupResponse", target_id |-> target_id, group |-> group]

GetData(name, requester) == [tag |-> "GetData", name |-> name, requester |-> requester]

\* Either data or an error: data is TRUE for the first constructor.
GetDataResponse(name, data) == [tag |-> "GetDataResponse", name |-> name, data |-> data]

PutData(type_id) == [tag |-> "PutData", type_id |-> type_id]

Post(name) == [tag |-> "Post", name |-> name]
=============================================================================
