------------------------------ MODULE NodeProofs ------------------------------
(***************************************************************************)
(* Proofs about a node's connections, Connections, and about what it does  *)
(* with the messages that arrive on them, RoutingNode.                     *)
(***************************************************************************)
EXTENDS Connections, RoutingNode, FiniteSetTheorems, TLAPS

(***************************************************************************)
(* Connections is correct for every set of endpoints, ids and ports and    *)
(* any number of operations outstanding at once.                           *)
(*                                                                         *)
(* The invariant says to which connection an operation belongs: a socket   *)
(* that connections_ owns is at the endpoint its operations were started   *)
(* for, so that an error erases the connection it occurred on.             *)
(***************************************************************************)

Accepting(o) == o.kind = "accept"
\* The one chain of operations of a socket, from connecting to receiving.
Main(o) == o.kind \in {"connect", "exchange", "receive"}

\* Every operation is of one of the kinds, with the fields of its kind; what is
\* sent and received has the id of the node at the endpoint.
OpsOK ==
  \A o \in ops :
    \/ Accepting(o)
    \/ /\ Main(o) \/ o.kind = "send"
       /\ o = [kind |-> o.kind, sock |-> o.sock, ep |-> o.ep, id |-> o.id, n |-> o.n]
       /\ o.ep \in Endpoint
       /\ o.kind \in {"receive", "send"} => o.id = IdAt[o.ep]

\* An id is mapped to an endpoint of its node only.
DomainsOK ==
  /\ DOMAIN acceptors_ \subseteq Port
  /\ DOMAIN connections_ \subseteq Endpoint
  /\ DOMAIN id_to_endpoint_map_ \subseteq Id
  /\ \A id \in DOMAIN id_to_endpoint_map_ :
       id_to_endpoint_map_[id] \in Endpoint /\ id = IdAt[id_to_endpoint_map_[id]]

TypeInv == OpsOK /\ DomainsOK

\* The endpoint of an operation is where connections_ has its socket, if it has it.
OwnEndpoint ==
  /\ \A o \in ops, ep \in DOMAIN connections_ :
       ~Accepting(o) /\ connections_[ep] = o.sock => ep = o.ep
  /\ \A ep, fp \in DOMAIN connections_ : connections_[ep] = connections_[fp] => ep = fp

\* The socket of an accept has no other operation, is not a connection's and was
\* not one's.
AcceptsAlone ==
  \A o \in ops : Accepting(o) =>
    /\ \A q \in ops : q.sock = o.sock => q = o
    /\ \A ep \in DOMAIN connections_ : connections_[ep] # o.sock
    /\ o.sock \notin established

\* A socket connects, exchanges or receives, one at a time.
MainOnce == \A o, q \in ops : Main(o) /\ Main(q) /\ o.sock = q.sock => o = q

SocketsOK == OwnEndpoint /\ AcceptsAlone /\ MainOnce

\* An established connection has its receive.
EstablishedReceives ==
  \A ep \in DOMAIN connections_ : connections_[ep] \in established =>
    \E o \in ops : o.kind = "receive" /\ o.sock = connections_[ep]

\* Nothing of what Shutdown let go of is, or can become, a connection.
CancelledGone ==
  /\ \A ep \in DOMAIN connections_ : connections_[ep] \notin cancelled
  /\ \A o \in ops : /\ Accepting(o) /\ o.port \in DOMAIN acceptors_
                    /\ acceptors_[o.port] = o.acceptor
                    => o.sock \notin cancelled

\* An id leads to a connection, an established one.
KnownEstablished ==
  ~replaced => \A id \in DOMAIN id_to_endpoint_map_ :
                 /\ id_to_endpoint_map_[id] \in DOMAIN connections_
                 /\ connections_[id_to_endpoint_map_[id]] \in established

ConnectionsInv == TypeInv /\ SocketsOK /\ EstablishedReceives /\ CancelledGone /\ KnownEstablished

-----------------------------------------------------------------------------
LEMMA OpFacts ==
  ASSUME NEW kind, NEW s, NEW ep, NEW id, NEW n
  PROVE  LET o == Op(kind, s, ep, id, n)
         IN  /\ o.kind = kind /\ o.sock = s /\ o.ep = ep /\ o.id = id /\ o.n = n
             /\ o = [kind |-> o.kind, sock |-> o.sock, ep |-> o.ep, id |-> o.id, n |-> o.n]
BY DEF Op

LEMMA ExchangeFacts ==
  ASSUME NEW o, o = [kind |-> o.kind, sock |-> o.sock, ep |-> o.ep, id |-> o.id, n |-> o.n]
  PROVE  [o EXCEPT !.kind = "exchange"] = Op("exchange", o.sock, o.ep, o.id, o.n)
BY DEF Op


LEMMA InitIInv == ConnectionsInit => ConnectionsInv
BY DEF ConnectionsInit, ConnectionsInv, TypeInv, OpsOK, DomainsOK, SocketsOK, OwnEndpoint, AcceptsAlone, MainOnce,
       EstablishedReceives, CancelledGone, KnownEstablished

\* A socket of connections_ that an operation uses is at the operation's endpoint.
LEMMA AliveAt ==
  ASSUME ConnectionsInv, NEW o \in ops, ~Accepting(o), Alive(o.sock)
  PROVE  /\ o.ep \in DOMAIN connections_ /\ connections_[o.ep] = o.sock
         /\ \A ep \in DOMAIN connections_ : connections_[ep] = o.sock => ep = o.ep
BY DEF ConnectionsInv, SocketsOK, OwnEndpoint, Alive, Range

\* A callback that only ends.
LEMMA DropInv ==
  ASSUME ConnectionsInv, NEW o \in ops, ops' = ops \ {o}, o.kind = "receive" => ~Alive(o.sock),
         UNCHANGED <<acceptors_, connections_, id_to_endpoint_map_, cancelled, established, replaced>>
  PROVE  ConnectionsInv'
<1>1. TypeInv' BY DEF ConnectionsInv, TypeInv, OpsOK, DomainsOK
<1>2. SocketsOK' BY DEF ConnectionsInv, SocketsOK, OwnEndpoint, AcceptsAlone, MainOnce
<1>3. EstablishedReceives' BY DEF ConnectionsInv, EstablishedReceives, Alive, Range
<1>4. CancelledGone' /\ KnownEstablished' BY DEF ConnectionsInv, CancelledGone, KnownEstablished
<1> QED BY <1>1, <1>2, <1>3, <1>4 DEF ConnectionsInv

\* A callback that closes its connection, and forgets the id if it has learnt it.
LEMMA CloseInv ==
  ASSUME ConnectionsInv, NEW o \in ops, ~Accepting(o), Alive(o.sock), ops' = ops \ {o},
         connections_' = Erase(connections_, {o.ep}),
         \/ o.kind = "exchange" /\ UNCHANGED id_to_endpoint_map_
         \/ /\ o.kind \in {"receive", "send"}
            /\ id_to_endpoint_map_' = Erase(id_to_endpoint_map_, {o.id}),
         UNCHANGED <<acceptors_, cancelled, established, replaced>>
  PROVE  ConnectionsInv'
<1>1. /\ DOMAIN connections_' = DOMAIN connections_ \ {o.ep}
      /\ \A ep \in DOMAIN connections_' : connections_'[ep] = connections_[ep]
  BY DEF Erase, Restrict
<1>2. /\ DOMAIN id_to_endpoint_map_' \subseteq DOMAIN id_to_endpoint_map_
      /\ \A id \in DOMAIN id_to_endpoint_map_' : id_to_endpoint_map_'[id] = id_to_endpoint_map_[id]
      /\ o.kind # "exchange" => o.id \notin DOMAIN id_to_endpoint_map_'
  BY DEF Erase, Restrict
<1>3. TypeInv' BY <1>1, <1>2 DEF ConnectionsInv, TypeInv, OpsOK, DomainsOK
<1>4. SocketsOK' BY <1>1 DEF ConnectionsInv, SocketsOK, OwnEndpoint, AcceptsAlone, MainOnce
<1>5. /\ connections_[o.ep] = o.sock /\ o.ep \in DOMAIN connections_
      /\ \A ep \in DOMAIN connections_' : connections_'[ep] # o.sock
  BY <1>1, AliveAt
<1>6. EstablishedReceives' BY <1>1, <1>5 DEF ConnectionsInv, EstablishedReceives
<1>7. CancelledGone' BY <1>1 DEF ConnectionsInv, CancelledGone
<1>8. ASSUME ~replaced, NEW id \in DOMAIN id_to_endpoint_map_'
      PROVE  id_to_endpoint_map_'[id] \in DOMAIN connections_'
  <2>1. /\ id_to_endpoint_map_'[id] \in DOMAIN connections_
        /\ connections_[id_to_endpoint_map_'[id]] \in established
        /\ id = IdAt[id_to_endpoint_map_'[id]]
    BY <1>2, <1>8 DEF ConnectionsInv, KnownEstablished, TypeInv, DomainsOK
  <2>2. ASSUME id_to_endpoint_map_'[id] = o.ep  PROVE FALSE
    <3>1. PICK q \in ops : q.kind = "receive" /\ q.sock = o.sock
      BY <1>5, <2>1, <2>2 DEF ConnectionsInv, EstablishedReceives
    <3>2. CASE o.kind = "exchange"
      BY <3>1, <3>2 DEF ConnectionsInv, SocketsOK, MainOnce, Main
    <3>3. CASE o.kind \in {"receive", "send"}
      <4>1. o.id = IdAt[o.ep] BY <3>3 DEF ConnectionsInv, TypeInv, OpsOK, Accepting
      <4>2. o.id = id BY <2>1, <2>2, <4>1
      <4>3. o.id \notin DOMAIN id_to_endpoint_map_' BY <1>2, <3>3
      <4> QED BY <1>8, <4>2, <4>3
    <3> QED BY <3>2, <3>3
  <2> QED BY <1>1, <2>1, <2>2
<1>9. KnownEstablished' BY <1>1, <1>2, <1>8 DEF ConnectionsInv, KnownEstablished
<1> QED BY <1>3, <1>4, <1>6, <1>7, <1>9 DEF ConnectionsInv

LEMMA SendInv == ASSUME ConnectionsInv, NEW id \in Id, Send(id) PROVE ConnectionsInv'
<1> DEFINE ep == id_to_endpoint_map_[id]
           o == Op("send", connections_[ep], ep, id, Unused(connections_[ep]))
<1>1. /\ ep \in DOMAIN connections_ /\ id = IdAt[ep] /\ ep \in Endpoint
      /\ ops' = ops \cup {o}
      /\ UNCHANGED <<acceptors_, connections_, id_to_endpoint_map_, cancelled, established, replaced>>
  BY DEF Send, ConnectionsInv, TypeInv, DomainsOK
<1>2. /\ o.kind = "send" /\ o.sock = connections_[ep] /\ o.ep = ep /\ o.id = id
      /\ o = [kind |-> o.kind, sock |-> o.sock, ep |-> o.ep, id |-> o.id, n |-> o.n]
  BY OpFacts
<1> HIDE DEF ep, o
<1>3. TypeInv' BY <1>1, <1>2 DEF ConnectionsInv, TypeInv, OpsOK, DomainsOK
<1>4. ~Accepting(o) /\ ~Main(o) BY <1>2 DEF Accepting, Main
<1>5. OwnEndpoint' BY <1>1, <1>2 DEF ConnectionsInv, SocketsOK, OwnEndpoint
<1>6. AcceptsAlone' BY <1>1, <1>2, <1>4 DEF ConnectionsInv, SocketsOK, AcceptsAlone
<1>7. MainOnce' BY <1>1, <1>4 DEF ConnectionsInv, SocketsOK, MainOnce
<1>8. EstablishedReceives' BY <1>1 DEF ConnectionsInv, EstablishedReceives
<1>9. CancelledGone' /\ KnownEstablished'
  BY <1>1, <1>4 DEF ConnectionsInv, CancelledGone, KnownEstablished
<1> QED BY <1>3, <1>5, <1>6, <1>7, <1>8, <1>9 DEF ConnectionsInv, SocketsOK

LEMMA ConnectInv == ASSUME ConnectionsInv, NEW ep \in Endpoint, ConnectTo(ep) PROVE ConnectionsInv'
<1>0. PICK s \in Number : ConnectTo(ep)!3!(s) BY DEF ConnectTo
<1> DEFINE o == Op("connect", s, ep, Absent, 1)
<1>1. /\ ep \notin DOMAIN connections_ /\ ops' = ops \cup {o}
      /\ cancelled' = cancelled \ {s} /\ established' = established \ {s}
      /\ UNCHANGED <<acceptors_, id_to_endpoint_map_, replaced>>
  BY <1>0 DEF ConnectTo
<1>2. /\ \A q \in ops : q.sock # s
      /\ \A fp \in DOMAIN connections_ : connections_[fp] # s
  BY <1>0 DEF Least, SocketsInUse, Range
<1>3. /\ DOMAIN connections_' = DOMAIN connections_ \cup {ep} /\ connections_'[ep] = s
      /\ \A fp \in DOMAIN connections_ : connections_'[fp] = connections_[fp]
  BY <1>0, <1>1 DEF Assign
<1>4. /\ o.kind = "connect" /\ o.sock = s /\ o.ep = ep
      /\ o = [kind |-> o.kind, sock |-> o.sock, ep |-> o.ep, id |-> o.id, n |-> o.n]
  BY OpFacts
<1> HIDE DEF o
<1>5. ~Accepting(o) /\ Main(o) BY <1>4 DEF Accepting, Main
<1>6. TypeInv' BY <1>1, <1>3, <1>4, <1>5 DEF ConnectionsInv, TypeInv, OpsOK, DomainsOK
<1>7. OwnEndpoint' BY <1>1, <1>2, <1>3, <1>4 DEF ConnectionsInv, SocketsOK, OwnEndpoint
<1>8. AcceptsAlone' BY <1>1, <1>2, <1>3, <1>4, <1>5 DEF ConnectionsInv, SocketsOK, AcceptsAlone
<1>9. MainOnce' BY <1>1, <1>2, <1>4 DEF ConnectionsInv, SocketsOK, MainOnce
<1>10. EstablishedReceives' BY <1>1, <1>3 DEF ConnectionsInv, EstablishedReceives
<1>11. CancelledGone' BY <1>1, <1>3, <1>5 DEF ConnectionsInv, CancelledGone
<1>12. KnownEstablished' BY <1>1, <1>2, <1>3 DEF ConnectionsInv, KnownEstablished
<1> QED BY <1>6, <1>7, <1>8, <1>9, <1>10, <1>11, <1>12 DEF ConnectionsInv, SocketsOK


LEMMA AcceptInv == ASSUME ConnectionsInv, NEW port \in Port, Accept(port) PROVE ConnectionsInv'
<1>0. PICK s \in Number, a \in Number : Accept(port)!2!(s, a) BY DEF Accept
<1> DEFINE o == AcceptOp(s, port, a)
<1>1. /\ ops' = ops \cup {o}
      /\ cancelled' = cancelled \ {s} /\ established' = established \ {s}
      /\ UNCHANGED <<connections_, id_to_endpoint_map_, replaced>>
  BY <1>0 DEF Accept
<1>2. /\ \A q \in ops : q.sock # s
      /\ \A ep \in DOMAIN connections_ : connections_[ep] # s
  BY <1>0 DEF Least, SocketsInUse, Range
<1>3. o.kind = "accept" /\ o.sock = s /\ o.port = port /\ o.acceptor = a
  BY DEF AcceptOp
<1>4. /\ DOMAIN acceptors_' = DOMAIN acceptors_ \cup {port} /\ acceptors_'[port] = a
      /\ \A p \in DOMAIN acceptors_ : p # port => acceptors_'[p] = acceptors_[p]
  BY <1>0 DEF Assign
<1>5. \/ port \in DOMAIN acceptors_ /\ a = acceptors_[port]
      \/ \A q \in ops : q.kind = "accept" => q.acceptor # a
  BY <1>0 DEF Least, AcceptorsInUse, OfKind
<1> HIDE DEF o
<1>6. Accepting(o) /\ ~Main(o) BY <1>3 DEF Accepting, Main
<1>7. TypeInv' BY <1>1, <1>4, <1>6 DEF ConnectionsInv, TypeInv, OpsOK, DomainsOK
<1>8. OwnEndpoint' BY <1>1, <1>6 DEF ConnectionsInv, SocketsOK, OwnEndpoint
<1>9. AcceptsAlone' BY <1>1, <1>2, <1>3 DEF ConnectionsInv, SocketsOK, AcceptsAlone
<1>10. MainOnce' BY <1>1, <1>6 DEF ConnectionsInv, SocketsOK, MainOnce
<1>11. EstablishedReceives' BY <1>1 DEF ConnectionsInv, EstablishedReceives
<1>12. ASSUME NEW q \in ops', Accepting(q), q.port \in DOMAIN acceptors_',
              acceptors_'[q.port] = q.acceptor
       PROVE  q.sock \notin cancelled'
  <2>1. CASE q = o BY <1>1, <1>3, <2>1
  <2>2. CASE q \in ops /\ q.port # port
    BY <1>1, <1>4, <1>12, <2>2 DEF ConnectionsInv, CancelledGone
  <2>3. CASE q \in ops /\ q.port = port
    BY <1>1, <1>4, <1>5, <1>12, <2>3 DEF ConnectionsInv, CancelledGone, Accepting
  <2> QED BY <1>1, <2>1, <2>2, <2>3
<1>13. CancelledGone' BY <1>1, <1>12 DEF ConnectionsInv, CancelledGone
<1>14. KnownEstablished' BY <1>1, <1>2 DEF ConnectionsInv, KnownEstablished
<1> QED BY <1>7, <1>8, <1>9, <1>10, <1>11, <1>13, <1>14 DEF ConnectionsInv, SocketsOK

LEMMA ShutdownInv == ASSUME ConnectionsInv, Shutdown PROVE ConnectionsInv'
<1>1. /\ DOMAIN acceptors_' = {} /\ DOMAIN connections_' = {} /\ DOMAIN id_to_endpoint_map_' = {}
      /\ UNCHANGED <<ops, established, replaced>>
  BY DEF Shutdown, Erase, Restrict, ConnectionsInv, TypeInv, DomainsOK
<1>2. TypeInv' /\ SocketsOK'
  BY <1>1 DEF ConnectionsInv, TypeInv, OpsOK, DomainsOK, SocketsOK, OwnEndpoint, AcceptsAlone, MainOnce
<1>3. EstablishedReceives' /\ CancelledGone' /\ KnownEstablished'
  BY <1>1 DEF EstablishedReceives, CancelledGone, KnownEstablished
<1> QED BY <1>2, <1>3 DEF ConnectionsInv

\* async_connect succeeded: the connection stays where it is.
LEMMA ConnectedInv ==
  ASSUME ConnectionsInv, NEW o \in ops, o.kind = "connect", Alive(o.sock),
         connections_' = Assign(connections_, o.ep, o.sock),
         ops' = (ops \ {o}) \cup {[o EXCEPT !.kind = "exchange"]},
         UNCHANGED <<acceptors_, id_to_endpoint_map_, cancelled, established, replaced>>
  PROVE  ConnectionsInv'
<1> DEFINE e == [o EXCEPT !.kind = "exchange"]
<1>1. /\ ~Accepting(o) /\ Main(o) /\ o.ep \in Endpoint
      /\ o = [kind |-> o.kind, sock |-> o.sock, ep |-> o.ep, id |-> o.id, n |-> o.n]
  BY DEF Accepting, Main, ConnectionsInv, TypeInv, OpsOK
<1>2. /\ e.kind = "exchange" /\ e.sock = o.sock /\ e.ep = o.ep
      /\ e = [kind |-> e.kind, sock |-> e.sock, ep |-> e.ep, id |-> e.id, n |-> e.n]
  BY <1>1, ExchangeFacts, OpFacts
<1>3. ops' = (ops \ {o}) \cup {e} OBVIOUS
<1> HIDE DEF e
<1>4. /\ DOMAIN connections_' = DOMAIN connections_
      /\ \A ep \in DOMAIN connections_ : connections_'[ep] = connections_[ep]
  BY <1>1, AliveAt DEF Assign
<1>5. ~Accepting(e) /\ Main(e) BY <1>2 DEF Accepting, Main
<1>6. TypeInv' BY <1>1, <1>2, <1>3, <1>4, <1>5 DEF ConnectionsInv, TypeInv, OpsOK, DomainsOK
<1>7. OwnEndpoint' BY <1>1, <1>2, <1>3, <1>4 DEF ConnectionsInv, SocketsOK, OwnEndpoint
<1>8. AcceptsAlone' BY <1>1, <1>2, <1>3, <1>4, <1>5 DEF ConnectionsInv, SocketsOK, AcceptsAlone
<1>9. MainOnce' BY <1>1, <1>2, <1>3 DEF ConnectionsInv, SocketsOK, MainOnce
<1>10. EstablishedReceives' BY <1>3, <1>4 DEF ConnectionsInv, EstablishedReceives
<1>11. CancelledGone' BY <1>3, <1>4, <1>5 DEF ConnectionsInv, CancelledGone
<1>12. KnownEstablished' BY <1>4 DEF ConnectionsInv, KnownEstablished
<1> QED BY <1>6, <1>7, <1>8, <1>9, <1>10, <1>11, <1>12 DEF ConnectionsInv, SocketsOK

\* async_accept brought a connection from ep.
LEMMA AcceptedInv ==
  ASSUME ConnectionsInv, NEW o \in ops, o.kind = "accept", NEW ep \in Endpoint,
         o.port \in DOMAIN acceptors_, acceptors_[o.port] = o.acceptor,
         acceptors_' = Erase(acceptors_, {o.port}),
         connections_' = Assign(connections_, ep, o.sock),
         replaced' = (replaced \/ ep \in DOMAIN connections_),
         ops' = (ops \ {o}) \cup {Op("exchange", o.sock, ep, Absent, 1)},
         UNCHANGED <<id_to_endpoint_map_, cancelled, established>>
  PROVE  ConnectionsInv'
<1> DEFINE e == Op("exchange", o.sock, ep, Absent, 1)
<1>1. /\ e.kind = "exchange" /\ e.sock = o.sock /\ e.ep = ep
      /\ e = [kind |-> e.kind, sock |-> e.sock, ep |-> e.ep, id |-> e.id, n |-> e.n]
      /\ ops' = (ops \ {o}) \cup {e}
  BY OpFacts
<1> HIDE DEF e
<1>2. /\ \A q \in ops : q.sock = o.sock => q = o
      /\ \A fp \in DOMAIN connections_ : connections_[fp] # o.sock
      /\ o.sock \notin established /\ o.sock \notin cancelled
  BY DEF ConnectionsInv, SocketsOK, AcceptsAlone, CancelledGone, Accepting
<1>3. /\ DOMAIN connections_' = DOMAIN connections_ \cup {ep} /\ connections_'[ep] = o.sock
      /\ \A fp \in DOMAIN connections_ : fp # ep => connections_'[fp] = connections_[fp]
  BY DEF Assign
<1>4. /\ DOMAIN acceptors_' = DOMAIN acceptors_ \ {o.port}
      /\ \A p \in DOMAIN acceptors_' : acceptors_'[p] = acceptors_[p]
  BY DEF Erase, Restrict
<1>5. ~Accepting(e) /\ Main(e) BY <1>1 DEF Accepting, Main
<1>6. TypeInv' BY <1>1, <1>3, <1>4, <1>5 DEF ConnectionsInv, TypeInv, OpsOK, DomainsOK
<1>7. OwnEndpoint' BY <1>1, <1>2, <1>3 DEF ConnectionsInv, SocketsOK, OwnEndpoint
<1>8. AcceptsAlone' BY <1>1, <1>2, <1>3, <1>5 DEF ConnectionsInv, SocketsOK, AcceptsAlone
<1>9. MainOnce' BY <1>1, <1>2 DEF ConnectionsInv, SocketsOK, MainOnce
<1>10. EstablishedReceives' BY <1>1, <1>2, <1>3 DEF ConnectionsInv, EstablishedReceives
<1>11. CancelledGone' BY <1>1, <1>2, <1>3, <1>4, <1>5 DEF ConnectionsInv, CancelledGone
<1>12. KnownEstablished' BY <1>3 DEF ConnectionsInv, KnownEstablished
<1> QED BY <1>6, <1>7, <1>8, <1>9, <1>10, <1>11, <1>12 DEF ConnectionsInv, SocketsOK

\* The exchange of ids succeeded: the id is known and the first receive starts.
LEMMA ExchangedInv ==
  ASSUME ConnectionsInv, NEW o \in ops, o.kind = "exchange", Alive(o.sock),
         id_to_endpoint_map_' = Assign(id_to_endpoint_map_, IdAt[o.ep], o.ep),
         established' = established \cup {o.sock},
         ops' = (ops \ {o}) \cup {Op("receive", o.sock, o.ep, IdAt[o.ep], o.n)},
         UNCHANGED <<acceptors_, connections_, cancelled, replaced>>
  PROVE  ConnectionsInv'
<1> DEFINE r == Op("receive", o.sock, o.ep, IdAt[o.ep], o.n)
<1>1. /\ r.kind = "receive" /\ r.sock = o.sock /\ r.ep = o.ep /\ r.id = IdAt[o.ep]
      /\ r = [kind |-> r.kind, sock |-> r.sock, ep |-> r.ep, id |-> r.id, n |-> r.n]
      /\ ops' = (ops \ {o}) \cup {r}
  BY OpFacts
<1> HIDE DEF r
<1>2. /\ ~Accepting(o) /\ Main(o) /\ ~Accepting(r) /\ Main(r) /\ o.ep \in Endpoint
      /\ IdAt[o.ep] \in Id
  BY <1>1, ConnectionsAssumption DEF Accepting, Main, ConnectionsInv, TypeInv, OpsOK
<1>3. o.ep \in DOMAIN connections_ /\ connections_[o.ep] = o.sock
  BY <1>2, AliveAt
<1>4. /\ DOMAIN id_to_endpoint_map_' = DOMAIN id_to_endpoint_map_ \cup {IdAt[o.ep]}
      /\ id_to_endpoint_map_'[IdAt[o.ep]] = o.ep
      /\ \A id \in DOMAIN id_to_endpoint_map_ :
           id # IdAt[o.ep] => id_to_endpoint_map_'[id] = id_to_endpoint_map_[id]
  BY DEF Assign
<1>5. OpsOK' BY <1>1, <1>2 DEF ConnectionsInv, TypeInv, OpsOK
<1>6. DomainsOK' BY <1>2, <1>4 DEF ConnectionsInv, TypeInv, DomainsOK
<1>7. OwnEndpoint' BY <1>1, <1>2 DEF ConnectionsInv, SocketsOK, OwnEndpoint
<1>8. AcceptsAlone' BY <1>1, <1>2 DEF ConnectionsInv, SocketsOK, AcceptsAlone
<1>9. MainOnce' BY <1>1, <1>2 DEF ConnectionsInv, SocketsOK, MainOnce
<1>10. EstablishedReceives' BY <1>1 DEF ConnectionsInv, EstablishedReceives
<1>11. CancelledGone' BY <1>1, <1>2 DEF ConnectionsInv, CancelledGone
<1>12. KnownEstablished' BY <1>3, <1>4 DEF ConnectionsInv, KnownEstablished
<1> QED BY <1>5, <1>6, <1>7, <1>8, <1>9, <1>10, <1>11, <1>12 DEF ConnectionsInv, SocketsOK, TypeInv

LEMMA QuietInv ==
  ASSUME ConnectionsInv, UNCHANGED <<acceptors_, connections_, id_to_endpoint_map_, ops, cancelled,
                           established, replaced>>
  PROVE  ConnectionsInv'
BY DEF ConnectionsInv, TypeInv, OpsOK, DomainsOK, SocketsOK, OwnEndpoint, AcceptsAlone, MainOnce,
       EstablishedReceives, CancelledGone, KnownEstablished


LEMMA CallbackInv == ASSUME ConnectionsInv, NEW s \in Number, Callback(s) PROVE ConnectionsInv'
<1>1. CASE ConnectDone(s)
  <2>1. PICK o \in OfKind("connect") : ConnectDone(s)!(o) BY <1>1 DEF ConnectDone
  <2>2. CASE ops' = ops \ {o} /\ UNCHANGED connections_ BY <2>1, <2>2, DropInv DEF OfKind
  <2>3. CASE ops' # ops \ {o} \/ connections_' # connections_
    BY <2>1, <2>3, ConnectedInv DEF OfKind
  <2> QED BY <2>2, <2>3
<1>2. CASE AcceptDone(s)
  <2>1. PICK o \in OfKind("accept") : AcceptDone(s)!(o) BY <1>2 DEF AcceptDone
  <2>2. CASE ops' = ops \ {o} /\ UNCHANGED <<acceptors_, connections_, replaced>>
    BY <2>1, <2>2, DropInv DEF OfKind
  <2>3. CASE ~(ops' = ops \ {o} /\ UNCHANGED <<acceptors_, connections_, replaced>>)
    BY <2>1, <2>3, AcceptedInv DEF OfKind
  <2> QED BY <2>2, <2>3
<1>3. CASE ExchangeDone(s)
  <2>1. PICK o \in OfKind("exchange") : ExchangeDone(s)!(o) BY <1>3 DEF ExchangeDone
  <2>2. o \in ops /\ o.kind = "exchange" /\ ~Accepting(o) BY DEF OfKind, Accepting
  <2>3. CASE ExchangeDone(s)!(o)!2!1 BY <2>1, <2>2, <2>3, DropInv
  <2>4. CASE ExchangeDone(s)!(o)!2!2 BY <2>1, <2>2, <2>4, CloseInv
  <2>5. CASE ExchangeDone(s)!(o)!2!3 BY <2>1, <2>2, <2>5, ExchangedInv
  <2> QED BY <2>1, <2>3, <2>4, <2>5
<1>4. CASE ReceiveDone(s)
  <2>1. PICK o \in OfKind("receive") : ReceiveDone(s)!(o) BY <1>4 DEF ReceiveDone
  <2>2. o \in ops /\ o.kind = "receive" /\ ~Accepting(o) BY DEF OfKind, Accepting
  <2>3. CASE ReceiveDone(s)!(o)!2!1 BY <2>1, <2>2, <2>3, DropInv
  <2>4. CASE ReceiveDone(s)!(o)!2!2 BY <2>1, <2>2, <2>4, CloseInv
  <2>5. CASE ReceiveDone(s)!(o)!2!3 BY <2>1, <2>5, QuietInv
  <2> QED BY <2>1, <2>3, <2>4, <2>5
<1>5. CASE SendDone(s)
  <2>1. PICK o \in OfKind("send") : SendDone(s)!(o) BY <1>5 DEF SendDone
  <2>2. o \in ops /\ o.kind = "send" /\ ~Accepting(o) BY DEF OfKind, Accepting
  <2>3. CASE UNCHANGED <<connections_, id_to_endpoint_map_>> BY <2>1, <2>2, <2>3, DropInv
  <2>4. CASE ~UNCHANGED <<connections_, id_to_endpoint_map_>> BY <2>1, <2>2, <2>4, CloseInv
  <2> QED BY <2>3, <2>4
<1> QED BY <1>1, <1>2, <1>3, <1>4, <1>5 DEF Callback

LEMMA NextIInv == ASSUME ConnectionsInv, [ConnectionsNext]_connectionsVars PROVE ConnectionsInv'
<1>1. CASE Receive BY <1>1, QuietInv DEF Receive
<1>2. CASE UNCHANGED connectionsVars BY <1>2, QuietInv DEF connectionsVars
<1> QED
  BY <1>1, <1>2, SendInv, ConnectInv, AcceptInv, ShutdownInv, CallbackInv DEF ConnectionsNext, Call

LEMMA Invariant == ConnectionsSpec => []ConnectionsInv
<1>1. ConnectionsInv /\ [ConnectionsNext]_connectionsVars => ConnectionsInv' BY NextIInv
<1> QED BY <1>1, InitIInv, PTL DEF ConnectionsSpec
-----------------------------------------------------------------------------
\* An id in id_to_endpoint_map_ leads to a connection, unless an accepted connection
\* has taken the place of another: the assert of Send (connections.h:109) holds.
THEOREM KnownIdsConnected == ConnectionsSpec => []KnownIdsAreConnected
<1>1. ConnectionsInv => KnownIdsAreConnected BY DEF ConnectionsInv, KnownEstablished, KnownIdsAreConnected
<1> QED BY <1>1, Invariant, PTL

\* A connection whose exchange is over has exactly one receive outstanding.
THEOREM EstablishedReceivesOnce == ConnectionsSpec => []EstablishedIsReceiving
<1>1. ASSUME ConnectionsInv, NEW s \in established, Alive(s)
      PROVE  Cardinality({o \in OfKind("receive") : o.sock = s}) = 1
  <2>1. PICK ep \in DOMAIN connections_ : connections_[ep] = s BY <1>1 DEF Alive, Range
  <2>2. PICK r \in ops : r.kind = "receive" /\ r.sock = s
    BY <1>1, <2>1 DEF ConnectionsInv, EstablishedReceives
  <2>3. {o \in OfKind("receive") : o.sock = s} = {r}
    BY <1>1, <2>2 DEF ConnectionsInv, SocketsOK, MainOnce, Main, OfKind
  <2> QED BY <2>3, FS_Singleton
<1>2. ConnectionsInv => EstablishedIsReceiving BY <1>1 DEF EstablishedIsReceiving
<1> QED BY <1>2, Invariant, PTL

\* What Shutdown let go of never becomes a connection again, whatever connect,
\* exchange or accept was under way.
THEOREM CancelledStaysGone == ConnectionsSpec => []ShutdownCancels
<1>1. ConnectionsInv => ShutdownCancels BY DEF ConnectionsInv, CancelledGone, ShutdownCancels, Alive, Range
<1> QED BY <1>1, Invariant, PTL

\* A callback closes no connection but its own.
LEMMA ClosesOwn ==
  ASSUME ConnectionsInv, NEW s \in Number, Callback(s), NEW ep \in DOMAIN connections_,
         ep \notin DOMAIN connections_'
  PROVE  acting' = s /\ connections_[ep] = s
<1>1. CASE ConnectDone(s) BY <1>1 DEF ConnectDone, Assign
<1>2. CASE AcceptDone(s) BY <1>2 DEF AcceptDone, Assign
<1>3. CASE ExchangeDone(s) BY <1>3, AliveAt DEF ExchangeDone, Erase, Restrict, OfKind, Accepting
<1>4. CASE ReceiveDone(s) BY <1>4, AliveAt DEF ReceiveDone, Erase, Restrict, OfKind, Accepting
<1>5. CASE SendDone(s) BY <1>5, AliveAt DEF SendDone, Erase, Restrict, OfKind, Accepting
<1> QED BY <1>1, <1>2, <1>3, <1>4, <1>5 DEF Callback

\* An error that comes late, after another connection to the same endpoint took the
\* place of the one it occurred on, closes nothing.
THEOREM LateErrorClosesNothing == ConnectionsSpec => ErrorClosesOwnConnection
<1>1. ASSUME ConnectionsInv, ConnectionsNext, NEW ep \in DOMAIN connections_, acting' # Absent,
             ep \notin DOMAIN connections_'
      PROVE  connections_[ep] = acting'
  <2>1. ~Call BY <1>1 DEF Call, Receive, Send, ConnectTo, Accept, Shutdown
  <2> QED BY <1>1, <2>1, ClosesOwn DEF ConnectionsNext
<1>2. ConnectionsInv /\ [ConnectionsNext]_connectionsVars =>
        [\A ep \in DOMAIN connections_ :
           acting' # Absent /\ ep \notin DOMAIN connections_' => connections_[ep] = acting']_connectionsVars
  BY <1>1
<1> QED BY <1>2, Invariant, PTL DEF ConnectionsSpec, ErrorClosesOwnConnection

-----------------------------------------------------------------------------
(***************************************************************************)
(* RoutingNode: the filter lets a message through once, and the range a    *)
(* node answers for is a ball around its id, for every set of addresses,   *)
(* every group size above one and every set of messages.                   *)
(***************************************************************************)

\* DispatchedOnce is not inductive: a message that was dispatched has to be in
\* the filter, or it is dispatched again.
FilterInv ==
  /\ effects \in [FilterValues -> 0..1]
  /\ \A v \in FilterValues : v \notin filter_ => effects[v] = 0

\* The connection manager has finitely many peers, all of them addresses.
PeersInv == peers \subseteq Address /\ IsFiniteSet(peers)

NodeInv == scenario \in DOMAIN Scenario /\ FilterInv /\ PeersInv

\* Every message of a scenario has its filter value among FilterValues.
LEMMA InboxFilterValues ==
  ASSUME NEW i \in DOMAIN Scenario, NEW m \in Scenario[i]
  PROVE  m \in Inbox /\ FilterValue(m.header) \in FilterValues
<1>1. m \in Inbox
  BY DEF Inbox
<1> QED
  BY <1>1 DEF FilterValues

\* MessageReceived dispatches a message only if it was not in filter_, and leaves
\* it there (routing_node.h, MessageReceived).
LEMMA ReceiveKeepsFilterInv ==
  ASSUME FilterInv, NEW m, FilterValue(m.header) \in FilterValues, MessageReceived(m)
  PROVE  FilterInv'
<1> DEFINE v == FilterValue(m.header)
           n == IF Disposal(m) = "dispatched" THEN effects[v] + 1 ELSE effects[v]
<1>1. filter_' = filter_ \cup {v} /\ effects' = [effects EXCEPT ![v] = n]
  BY DEF MessageReceived, Handle
<1>2. v \in FilterValues
  OBVIOUS
<1>3. Disposal(m) = "dispatched" => v \notin filter_
  BY DEF Disposal
<1>4. n \in 0..1
  BY <1>2, <1>3 DEF FilterInv
<1> HIDE DEF v, n
<1>5. effects' \in [FilterValues -> 0..1]
  BY <1>1, <1>2, <1>4 DEF FilterInv
<1>6. ASSUME NEW w \in FilterValues, w \notin filter_'
      PROVE  effects'[w] = 0
  BY <1>1, <1>6 DEF FilterInv
<1> QED
  BY <1>5, <1>6 DEF FilterInv

\* What one step keeps.
LEMMA StepKeepsNodeInv ==
  ASSUME NodeInv, [Next]_vars
  PROVE  NodeInv'
<1> USE DEF NodeInv
<1>1. CASE \E m \in Scenario[scenario] : MessageReceived(m)
  <2>1. PICK m \in Scenario[scenario] : MessageReceived(m)
    BY <1>1
  <2>2. FilterInv'
    BY <2>1, InboxFilterValues, ReceiveKeepsFilterInv
  <2>3. peers' = peers /\ scenario' = scenario
    BY <2>1 DEF MessageReceived, Handle
  <2> QED
    BY <2>2, <2>3 DEF PeersInv
<1>2. CASE Forget
  <2>1. peers' = peers /\ scenario' = scenario
    BY <1>2 DEF Forget
  <2>2. CASE \E v \in filter_ : filter_' = filter_ \ {v} /\ effects' = [effects EXCEPT ![v] = 0]
    <3>1. PICK v \in filter_ : filter_' = filter_ \ {v} /\ effects' = [effects EXCEPT ![v] = 0]
      BY <2>2
    <3>2. effects' \in [FilterValues -> 0..1]
      <4>1. effects \in [FilterValues -> 0..1] /\ 0 \in 0..1
        BY DEF FilterInv
      <4> QED
        BY <3>1, <4>1
    <3>3. ASSUME NEW w \in FilterValues, w \notin filter_'
          PROVE  effects'[w] = 0
      BY <3>1, <3>3 DEF FilterInv
    <3> QED
      BY <2>1, <3>2, <3>3 DEF FilterInv, PeersInv
  <2>3. CASE filter_' = filter_ /\ effects' = effects
    BY <2>1, <2>3 DEF FilterInv, PeersInv
  <2> QED
    BY <1>2, <2>2, <2>3 DEF Forget
<1>3. CASE PeersChange
  <2>1. PICK p \in Address : peers' = IF p \in peers THEN peers \ {p} ELSE peers \cup {p}
    BY <1>3 DEF PeersChange
  <2>2. IsFiniteSet(peers \ {p}) /\ IsFiniteSet(peers \cup {p})
    BY FS_AddElement, FS_RemoveElement DEF PeersInv
  <2>3. PeersInv'
    BY <2>1, <2>2 DEF PeersInv
  <2> QED
    BY <1>3, <2>3 DEF PeersChange, FilterInv
<1>4. CASE \E address \in Address : Request(address)
  BY <1>4 DEF Request, FilterInv, PeersInv
<1>5. CASE UNCHANGED vars
  BY <1>5 DEF vars, FilterInv, PeersInv
<1> QED
  BY <1>1, <1>2, <1>3, <1>4, <1>5 DEF Next

LEMMA AlwaysNodeInv == Spec => []NodeInv
<1>1. Init => NodeInv
  BY FS_EmptySet DEF Init, NodeInv, FilterInv, PeersInv
<1> QED
  BY <1>1, StepKeepsNodeInv, PTL DEF Spec

\* A range that holds an address holds every closer one, and our own id, as long
\* as a group has more than one member (connection_manager.h,
\* AddressInCloseGroupRange).
LEMMA RangeOfFinitePeers ==
  ASSUME PeersInv
  PROVE  RangeIsBall
<1> DEFINE Upto(a) == {p \in peers : p <= a}
<1>0. Address \subseteq Nat /\ OurId \in Address /\ GroupSize \in Nat /\ 1 < GroupSize
  <2>1. GroupSize \in Nat \ {0, 1}
    BY RoutingNodeAssumption
  <2> QED
    BY <2>1, RoutingNodeAssumption
<1>1. \A a \in Address : /\ IsFiniteSet(Upto(a))
                         /\ Cardinality(Upto(a)) \in Nat
  BY FS_Subset, FS_CardinalityType DEF PeersInv
<1>2. AddressInCloseGroupRange(OurId)
  <2>1. Upto(OurId) \subseteq {0}
    <3>1. \A p \in peers : p \in Nat
      BY <1>0 DEF PeersInv
    <3> QED
      BY <3>1 DEF OurId
  <2>2. IsFiniteSet({0}) /\ Cardinality({0}) = 1
    BY FS_EmptySet, FS_Singleton
  <2>3. Cardinality(Upto(OurId)) <= 1
    BY <2>1, <2>2, FS_Subset
  <2>4. Cardinality(Upto(OurId)) < GroupSize
    BY <1>1, <2>3, <1>0
  <2> QED
    BY <2>4 DEF AddressInCloseGroupRange
<1>3. ASSUME NEW a \in Address, NEW b \in Address, a < b, AddressInCloseGroupRange(b)
      PROVE  AddressInCloseGroupRange(a)
  <2>1. Upto(a) \subseteq Upto(b)
    <3>1. \A p \in peers : p \in Nat
      BY <1>0 DEF PeersInv
    <3>2. a \in Nat /\ b \in Nat
      BY <1>0
    <3> QED
      BY <1>3, <3>1, <3>2
  <2>2. Cardinality(Upto(a)) <= Cardinality(Upto(b))
    BY <1>1, <2>1, FS_Subset
  <2>3. CASE Cardinality(peers) < GroupSize
    BY <2>3 DEF AddressInCloseGroupRange
  <2>4. CASE Cardinality(Upto(b)) < GroupSize
    <3>1. Cardinality(Upto(a)) < GroupSize
      BY <1>1, <2>2, <2>4, <1>0
    <3> QED
      BY <3>1 DEF AddressInCloseGroupRange
  <2> QED
    BY <1>3, <2>3, <2>4 DEF AddressInCloseGroupRange
<1> QED
  BY <1>2, <1>3 DEF RangeIsBall

\* However often a message reaches a node, and whatever else does, it is
\* dispatched at most once while filter_ remembers it (routing_node.h,
\* MessageReceived).
THEOREM DispatchedOnceCorrect == Spec => []DispatchedOnce
<1>1. NodeInv => DispatchedOnce
  BY DEF NodeInv, FilterInv, DispatchedOnce
<1> QED
  BY <1>1, AlwaysNodeInv, PTL

\* Whatever peers come and go, the addresses a node answers for are a ball around
\* its id (connection_manager.h, AddressInCloseGroupRange).
THEOREM RangeIsBallCorrect == Spec => []RangeIsBall
<1>1. NodeInv => RangeIsBall
  BY RangeOfFinitePeers DEF NodeInv
<1> QED
  BY <1>1, AlwaysNodeInv, PTL
=============================================================================
