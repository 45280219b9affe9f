---------------------------- MODULE ConnectionPair ----------------------------
(***************************************************************************)
(* Two nodes whose ConnectionManagers connect to each other                *)
(* (connection_manager.cc), over exchanges made of the steps of            *)
(* AsyncExchange.  A connection has an end at the node that called AddNode *)
(* ("out") and one at the node that accepted ("in"); either node keeps at  *)
(* most one connection as its PeerNode and lets go of any other it makes.  *)
(* A socket is closed when its last owner lets go of it.                   *)
(*                                                                         *)
(* The two nodes know no one else, and an owner calls AddNode only when no *)
(* attempt of its own is under way (ConnectionManager has the calls that   *)
(* join one, Shutdown and the destructor).  A connect succeeds after the   *)
(* other node has accepted.  An operation may fail at any time; one that   *)
(* fails although the other end is open, and a DropNode, is a disturbance. *)
(***************************************************************************)
EXTENDS AsyncExchange

CONSTANTS
  Node,         \* the two nodes
  Connection    \* the connections they may make: 1..n

ASSUME PairAssumption ==
  /\ \A n \in Node : \E m \in Node \ {n} : Node = {n, m}
  /\ Connection \subseteq Nat
  /\ None \notin Node \cup Connection
  /\ End = Connection \X {"out", "in"}
  /\ \A c \in Connection : Peer[<<c, "out">>] = <<c, "in">>

VARIABLES
  initiator,        \* initiator[c]: the node that made connection c with AddNode, or None
  being_connected_, \* being_connected_[n]: the connection in n's map, or None
  peers_,           \* peers_[n]: the connection of n's PeerNode for the other node, or None
  receiving,        \* receiving[n]: the receive loop of that PeerNode runs
  disturbed         \* history: something failed by itself, or a node was dropped

exchange == vars
manager == <<initiator, being_connected_, peers_, receiving>>
pairVars == <<vars, initiator, being_connected_, peers_, receiving, disturbed>>

Other(n) == CHOOSE m \in Node : m # n

Out(c) == <<c, "out">>
In(c) == <<c, "in">>

\* The node an end is at.
At(e) == IF e[2] = "out" THEN initiator[e[1]] ELSE Other(initiator[e[1]])

\* The end's socket has an owner: being_connected_, a PeerNode, or the handler
\* that was given to the exchange after an accept.
Open(e) ==
  \/ peers_[At(e)] = e[1]
  \/ e[2] = "out" /\ being_connected_[At(e)] = e[1]
  \/ e[2] = "in" /\ send[e] # "idle" /\ calls[e] = <<>>

PairInit ==
  /\ Init
  /\ initiator = [c \in Connection |-> None]
  /\ being_connected_ = [n \in Node |-> None]
  /\ peers_ = [n \in Node |-> None]
  /\ receiving = [n \in Node |-> FALSE]
  /\ disturbed = FALSE
-----------------------------------------------------------------------------
AddNode(n, c) ==
  /\ being_connected_[n] = None
  /\ initiator[c] = None
  /\ \A d \in Connection : d < c => initiator[d] # None
  /\ initiator' = [initiator EXCEPT ![c] = n]
  /\ being_connected_' = [being_connected_ EXCEPT ![n] = c]
  /\ UNCHANGED <<exchange, peers_, receiving, disturbed>>

DropNode(n) ==
  /\ peers_[n] # None
  /\ peers_' = [peers_ EXCEPT ![n] = None]
  /\ receiving' = [receiving EXCEPT ![n] = FALSE]
  /\ disturbed' = TRUE
  /\ UNCHANGED <<exchange, initiator, being_connected_>>

\* The callback of async_accept: the exchange starts at the accepting end.
AcceptDone(c) ==
  /\ initiator[c] # None
  /\ Open(Out(c))
  /\ Start(In(c))
  /\ UNCHANGED <<manager, disturbed>>

\* Mutant: the entry, which owns the socket, is erased once it is connected.
ConnectDoneErases(c) ==
  /\ initiator[c] # None
  /\ being_connected_[initiator[c]] = c
  /\ send[Out(c)] = "idle"
  /\ being_connected_' = [being_connected_ EXCEPT ![initiator[c]] = None]
  /\ \/ send[In(c)] # "idle" /\ Start(Out(c)) /\ UNCHANGED disturbed
     \/ UNCHANGED exchange /\ disturbed' = TRUE
  /\ UNCHANGED <<initiator, peers_, receiving>>

\* The callback of async_connect.
ConnectDone(c) ==
  /\ initiator[c] # None
  /\ being_connected_[initiator[c]] = c
  /\ send[Out(c)] = "idle"
  /\ \/ /\ send[In(c)] # "idle"
        /\ Start(Out(c))
        /\ UNCHANGED <<manager, disturbed>>
     \/ /\ being_connected_' = [being_connected_ EXCEPT ![initiator[c]] = None]
        /\ disturbed' = TRUE
        /\ UNCHANGED <<exchange, initiator, peers_, receiving>>

\* Mutant: a second connection to a node takes the place of the first.
InsertPeerReplaces(n, c) ==
  /\ peers_' = [peers_ EXCEPT ![n] = c]
  /\ receiving' = [receiving EXCEPT ![n] = TRUE]

\* InsertPeer, with the StartReceiving it makes; a PeerNode that is not inserted
\* goes, and its socket with it.
InsertPeer(n, c) ==
  \/ peers_[n] # None /\ UNCHANGED <<peers_, receiving>>
  \/ /\ peers_[n] = None
     /\ peers_' = [peers_ EXCEPT ![n] = c]
     /\ receiving' = [receiving EXCEPT ![n] = TRUE]

\* Mutant: the entry is erased only when the exchange succeeded.
ExchangeHandlerKeeps(e) ==
  /\ IF calls'[e][1].error = Ok
     THEN /\ being_connected_' = IF e[2] = "out" THEN [being_connected_ EXCEPT ![At(e)] = None]
                                                 ELSE being_connected_
          /\ InsertPeer(At(e), e[1])
     ELSE UNCHANGED <<being_connected_, peers_, receiving>>
  /\ UNCHANGED initiator

\* The handlers given to AsyncExchange in AddNode and in StartAccepting.  The
\* first holds its socket weakly.
ExchangeHandler(e) ==
  LET socket == e[2] = "in" \/ being_connected_[At(e)] = e[1] IN
  /\ being_connected_' = IF e[2] = "out" /\ socket
                         THEN [being_connected_ EXCEPT ![At(e)] = None]
                         ELSE being_connected_
  /\ IF socket /\ calls'[e][1].error = Ok THEN InsertPeer(At(e), e[1])
                                          ELSE UNCHANGED <<peers_, receiving>>
  /\ UNCHANGED initiator

\* A completion of the exchange, with the handler when it is the second one.
\* fault: the operation failed, or its datagram was lost.
ExchangeStep(e, fault) ==
  /\ disturbed' = (disturbed \/ (fault /\ Open(Peer[e])))
  /\ IF calls'[e] # calls[e] THEN ExchangeHandler(e) ELSE UNCHANGED manager

ExchangeSendDone(e) ==
  \E error \in Error, reaches \in BOOLEAN :
    SendDone(e, error, reaches) /\ ExchangeStep(e, ~reaches)

ExchangeReceiveDone(e) ==
  \E error \in Error : ReceiveDone(e, error) /\ ExchangeStep(e, error = Failed)

\* The receive of a PeerNode ends with an error: the loop ends, and the PeerNode
\* stays.  (A message that arrives runs the handler and starts the next receive.)
PeerReceiveFails(n) ==
  /\ receiving[n]
  /\ receiving' = [receiving EXCEPT ![n] = FALSE]
  /\ LET c == peers_[n]
     IN  disturbed' = (disturbed \/ Open(IF At(Out(c)) = n THEN In(c) ELSE Out(c)))
  /\ UNCHANGED <<exchange, initiator, being_connected_, peers_>>

PairNext ==
  \/ \E n \in Node, c \in Connection : AddNode(n, c)
  \/ \E n \in Node : DropNode(n) \/ PeerReceiveFails(n)
  \/ \E c \in Connection : AcceptDone(c) \/ ConnectDone(c)
  \/ \E e \in End : ExchangeSendDone(e) \/ ExchangeReceiveDone(e)

PairSpec == PairInit /\ [][PairNext]_pairVars

\* crux completes the operations that are pending, if only with an error.  Each
\* completes once, so fairness of all of them together is enough.
Completions ==
  \/ \E c \in Connection : AcceptDone(c) \/ ConnectDone(c)
  \/ \E e \in End : ExchangeSendDone(e) \/ ExchangeReceiveDone(e)

PairFairSpec == PairSpec /\ WF_pairVars(Completions)
-----------------------------------------------------------------------------
\* Both nodes keep the same connection.
Connected == \E c \in Connection : \A n \in Node : peers_[n] = c

\* No attempt is under way.
Settled ==
  /\ \A n \in Node : being_connected_[n] = None
  /\ \A e \in End : send[e] # "idle" => calls[e] # <<>>

\* Every attempt ends, whatever fails: AddNode's entry leaves being_connected_ and
\* the handler of every exchange is called, at the other node too.
AttemptsEnd == []<>Settled

\* An attempt that is left alone ends with both nodes keeping its connection,
\* whichever of connect, accept and the four completions come first.
LoneAttemptConnects ==
  \A c \in Connection :
    c = 1 /\ initiator[c] # None ~>
      Connected \/ disturbed \/ \E d \in Connection : d # c /\ initiator[d] # None

\* Once both nodes keep the same connection, no later attempt of either takes it
\* down or replaces it at one end only: InsertPeer turns the new one away at both.
EstablishedSurvives == [][Connected /\ ~disturbed' => peers_' = peers_]_pairVars

\* Nodes that try to connect to each other, undisturbed, are connected when
\* the attempts are over: docs/bootstrap_overview.md:19-22 has both of them try.
TwoNodesConnect ==
  Settled /\ ~disturbed /\ (\E c \in Connection : initiator[c] # None) => Connected
=============================================================================
