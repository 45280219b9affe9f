----------------------------- MODULE MCRoutingNode -----------------------------
(***************************************************************************)
(* Messages for RoutingNode: a peer at distance 1, a neighbour at 2 and a  *)
(* node at 3 that is far once the table is full.                           *)
(***************************************************************************)
EXTENDS RoutingNode

\* A message of a node, for a destination.
From(node, dest, id, body) ==
  [header |-> MessageHeader(DestinationAddress(dest, None), SourceAddress(node, None, None), id),
   body |-> body, parses |-> TRUE]

\* Requests and answers of the joining of a group, for us and for a node that is
\* far when the group is full.  An answer names us as the requester.
JoinInbox ==
  {From(1, 0, 1, Connect(1, 0)), From(1, 3, 0, Connect(1, 3)),
   From(2, 0, 1, ConnectResponse(0, 2)), From(2, 3, 0, FindGroup(2, 3)),
   From(1, 0, 0, FindGroupResponse(0, {1, 2}))}

\* Messages about data: every tag there is, and bodies that do not parse.
DataInbox ==
  {From(1, 2, 0, GetData(2, SourceAddress(1, None, None))),
   From(1, 0, 1, GetDataResponse(0, TRUE)),
   [From(2, 0, 1, GetDataResponse(3, TRUE)) EXCEPT !.parses = FALSE],
   From(2, 3, 0, PutData("type")), [From(3, 2, 0, Post(2)) EXCEPT !.parses = FALSE],
   From(3, 1, 1, [tag |-> "unknown"])}

\* What may reach a client: the two answers it knows, one of them malformed, and
\* a message of another type; two of them from the same node with the same id.
ClientMessages ==
  {From(1, 0, 1, ConnectResponse(0, 1)), From(2, 0, 1, GetDataResponse(0, TRUE)),
   [From(2, 0, 1, GetDataResponse(3, TRUE)) EXCEPT !.parses = FALSE],
   From(3, 0, 2, Post(0))}

MCScenario == [join |-> JoinInbox, data |-> DataInbox, client |-> ClientMessages]

\* In the scenario "client" the node is a Client, whose state is part of a
\* RoutingNode's.
AClient ==
  INSTANCE Client WITH IdSpace <- IdSpace, ClientInbox <- ClientMessages, filter_ <- filter_,
                       message_id_ <- message_id_, effects <- effects, last <- last

MCNext ==
  \/ scenario # "client" /\ Next
  \/ /\ scenario = "client"
     /\ AClient!ClientNext
     /\ UNCHANGED <<peers, cache_, connected_nodes_, connecting, sent, scenario>>

MCSpec == Init /\ [][MCNext]_vars
=============================================================================
