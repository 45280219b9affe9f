-------------------------------- MODULE Client --------------------------------
(***************************************************************************)
(* Client (client.h, client.cc): a node that sends requests through the    *)
(* one it bootstrapped from.  A message it receives passes a filter like   *)
(* RoutingNode's and is parsed; its handlers are empty.  Get makes a       *)
(* request it has nobody to send to.  Bootstrap, Put, Post and Request     *)
(* post nothing that changes the state, and nothing sets bootstrap_node_.  *)
(***************************************************************************)
EXTENDS Naturals, Messages

CONSTANTS
  IdSpace,     \* number of values of a MessageId (2^32 in the code)
  ClientInbox  \* the messages that may reach the client

VARIABLES
  filter_,      \* FilterValues seen lately
  message_id_,  \* std::atomic<MessageId>
  effects,      \* effects[v]: messages dispatched since v was last forgotten
  last          \* what became of the message received, or the request made, last

clientVars == <<filter_, message_id_, effects, last>>

bootstrap_node_ == None

\* The switch of MessageReceived: Parse throws on a body that is malformed.
ClientDispatch(m) ==
  IF m.body.tag \in {"ConnectResponse", "GetDataResponse"} /\ ~m.parses THEN "throw" ELSE "done"

\* MessageReceived; a message whose header cannot be parsed changes nothing.
ClientMessageReceived(m) ==
  LET v == FilterValue(m.header)
      seen == v \in filter_
  IN
  /\ filter_' = filter_ \cup {v}
  /\ effects' = [effects EXCEPT ![v] = IF seen THEN @ ELSE @ + 1]
  /\ last' = [m |-> m, outcome |-> IF seen THEN "seen" ELSE ClientDispatch(m)]
  /\ UNCHANGED message_id_

\* An entry of filter_ is 20 minutes old.
ClientForget ==
  /\ \E v \in filter_ : filter_' = filter_ \ {v} /\ effects' = [effects EXCEPT ![v] = 0]
  /\ UNCHANGED <<message_id_, last>>

\* Get, on a thread of the io_service: OurSourceAddress asserts that there is a
\* bootstrap node.
ClientGet ==
  /\ message_id_' = (message_id_ + 1) % IdSpace
  /\ last' = [m |-> None, outcome |-> IF bootstrap_node_ = None THEN "assert" ELSE "done"]
  /\ UNCHANGED <<filter_, effects>>

ClientNext ==
  \/ \E m \in ClientInbox : ClientMessageReceived(m)
  \/ ClientForget
  \/ ClientGet
=============================================================================
