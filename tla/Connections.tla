------------------------------ MODULE Connections ------------------------------
(***************************************************************************)
(* Connections (connections.h): connections to endpoints, the ids learnt   *)
(* over them, and one queue of received messages.  Every call is posted to *)
(* the io_service, so calls and callbacks run one at a time.               *)
(*                                                                         *)
(* Sockets and acceptors are numbered; a number is used again when neither *)
(* an operation nor a map refers to it.  A node may come back at an        *)
(* endpoint it used before.  receive_queue_ is the AsyncQueue of module    *)
(* AsyncQueue, seen from one thread.                                       *)
(***************************************************************************)
EXTENDS Naturals, FiniteSets, Sequences, Functions

CONSTANTS
  Endpoint,   \* remote endpoints
  Id,         \* ids of other nodes
  IdAt,       \* IdAt[ep]: the id of the node at ep
  Port,
  Absent,
  MaxSockets, \* bound on the sockets (and acceptors) in use at a time
  MaxOps,     \* bound on the operations outstanding when a call starts one
  MaxQueue    \* bound on the values, and on the handlers, in receive_queue_

ASSUME ConnectionsAssumption == IdAt \in [Endpoint -> Id] /\ Absent \notin Id

VARIABLES
  acceptors_,           \* port -> acceptor
  connections_,         \* endpoint -> socket
  id_to_endpoint_map_,  \* id -> endpoint
  values,               \* receive_queue_: messages and errors nobody asked for yet
  handlers,             \* receive_queue_: how many handlers wait
  ops,                  \* the outstanding asynchronous operations
  acting,               \* the socket whose callback ran last, or Absent
  established,          \* sockets whose exchange of ids succeeded
  cancelled,            \* sockets of connections and accepts that Shutdown let go of
  replaced              \* an accepted connection has taken the place of another

connectionsVars == <<acceptors_, connections_, id_to_endpoint_map_, values, handlers, ops, acting, established,
          cancelled, replaced>>

Number == 1..MaxSockets

\* Operations, as their callbacks see them; n tells apart those that share a
\* socket.
Op(kind, s, ep, id, n) == [kind |-> kind, sock |-> s, ep |-> ep, id |-> id, n |-> n]
AcceptOp(s, port, acceptor) == [kind |-> "accept", sock |-> s, port |-> port, acceptor |-> acceptor,
                                n |-> 1]

OfKind(k) == {o \in ops : o.kind = k}

Erase(f, S) == Restrict(f, DOMAIN f \ S)

\* map[key] = value
Assign(f, x, y) == [z \in DOMAIN f \cup {x} |-> IF z = x THEN y ELSE f[z]]

\* weak_socket.lock(): connections_ still owns the socket.
Alive(s) == s \in Range(connections_)

SocketsInUse == Range(connections_) \cup {o.sock : o \in ops}

AcceptorsInUse == Range(acceptors_) \cup {o.acceptor : o \in OfKind("accept")}

Least(n, S) == n \in S /\ \A m \in S : n <= m

Unused(s) == CHOOSE n \in 1..(Cardinality(ops) + 1) : \A o \in ops : o.sock = s => o.n # n

Room == Cardinality(ops) < MaxOps

\* AsyncQueue::Push: the value goes to a waiting handler, or waits itself.
Push(id, error) ==
  \/ handlers > 0 /\ handlers' = handlers - 1 /\ UNCHANGED values
  \/ /\ handlers = 0
     /\ Len(values) < MaxQueue
     /\ values' = Append(values, [id |-> id, error |-> error])
     /\ UNCHANGED handlers
-----------------------------------------------------------------------------
ConnectionsInit ==
  /\ acceptors_ = [p \in {} |-> Absent]
  /\ connections_ = [ep \in {} |-> Absent]
  /\ id_to_endpoint_map_ = [id \in {} |-> Absent]
  /\ values = <<>>
  /\ handlers = 0
  /\ ops = {}
  /\ acting = Absent
  /\ established = {}
  /\ cancelled = {}
  /\ replaced = FALSE

\* Receive: AsyncQueue::AsyncPop.
Receive ==
  /\ \/ values # <<>> /\ values' = Tail(values) /\ UNCHANGED handlers
     \/ values = <<>> /\ handlers < MaxQueue /\ handlers' = handlers + 1 /\ UNCHANGED values
  /\ acting' = Absent
  /\ UNCHANGED <<acceptors_, connections_, id_to_endpoint_map_, ops, cancelled, established, replaced>>

\* Send to a known id (an unknown one is answered with bad_descriptor and
\* changes nothing).  The find at connections.h:108 is asserted to succeed.
Send(id) ==
  /\ Room
  /\ id \in DOMAIN id_to_endpoint_map_
  /\ LET ep == id_to_endpoint_map_[id] IN
       /\ ep \in DOMAIN connections_
       /\ ops' = ops \cup {Op("send", connections_[ep], ep, id, Unused(connections_[ep]))}
  /\ acting' = Absent
  /\ UNCHANGED <<acceptors_, connections_, id_to_endpoint_map_, values, handlers, cancelled, established, replaced>>

\* Connect; an endpoint that is in connections_ is answered with
\* already_started and changes nothing.
ConnectTo(ep) ==
  /\ Room
  /\ ep \notin DOMAIN connections_
  /\ \E s \in Number :
       /\ Least(s, Number \ SocketsInUse)
       /\ connections_' = Assign(connections_, ep, s)
       /\ ops' = ops \cup {Op("connect", s, ep, Absent, 1)}
       /\ cancelled' = cancelled \ {s}
       /\ established' = established \ {s}
  /\ acting' = Absent
  /\ UNCHANGED <<acceptors_, id_to_endpoint_map_, values, handlers, replaced>>

Accept(port) ==
  /\ Room
  /\ \E s, a \in Number :
       /\ Least(s, Number \ SocketsInUse)
       /\ IF port \in DOMAIN acceptors_ THEN a = acceptors_[port] ELSE Least(a, Number \ AcceptorsInUse)
       /\ acceptors_' = Assign(acceptors_, port, a)
       /\ ops' = ops \cup {AcceptOp(s, port, a)}
       /\ cancelled' = cancelled \ {s}
       /\ established' = established \ {s}
  /\ acting' = Absent
  /\ UNCHANGED <<connections_, id_to_endpoint_map_, values, handlers, replaced>>

Shutdown ==
  /\ acceptors_' = Erase(acceptors_, Port)
  /\ connections_' = Erase(connections_, Endpoint)
  /\ id_to_endpoint_map_' = Erase(id_to_endpoint_map_, Id)
  /\ cancelled' = cancelled \cup SocketsInUse
  /\ acting' = Absent
  /\ UNCHANGED <<values, handlers, ops, established, replaced>>
-----------------------------------------------------------------------------
\* The callback of async_connect.  A failed connect leaves its entry in
\* connections_.
ConnectDone(s) ==
  \E o \in OfKind("connect") :
    /\ o.sock = s
    /\ \/ ops' = ops \ {o} /\ UNCHANGED connections_
       \/ /\ Alive(s)
          /\ connections_' = Assign(connections_, o.ep, s)
          /\ ops' = (ops \ {o}) \cup {[o EXCEPT !.kind = "exchange"]}
    /\ acting' = s
    /\ UNCHANGED <<acceptors_, id_to_endpoint_map_, values, handlers, cancelled, established, replaced>>

\* Mutant: the callback does not look whether the acceptor is still there.
AcceptDoneUnguarded(s) ==
  \E o \in OfKind("accept") :
    /\ o.sock = s
    /\ \/ ops' = ops \ {o} /\ UNCHANGED <<acceptors_, connections_, replaced>>
       \/ /\ acceptors_' = Erase(acceptors_, {o.port})
          /\ \E ep \in Endpoint :
               /\ connections_' = Assign(connections_, ep, s)
               /\ replaced' = (replaced \/ ep \in DOMAIN connections_)
               /\ ops' = (ops \ {o}) \cup {Op("exchange", s, ep, Absent, 1)}
    /\ acting' = s
    /\ UNCHANGED <<id_to_endpoint_map_, values, handlers, cancelled, established>>

\* The callback of async_accept: the acceptor gone, an error, or a connection
\* from some endpoint, which takes the place of one we had to that endpoint.
AcceptDone(s) ==
  \E o \in OfKind("accept") :
    /\ o.sock = s
    /\ \/ ops' = ops \ {o} /\ UNCHANGED <<acceptors_, connections_, replaced>>
       \/ /\ o.port \in DOMAIN acceptors_
          /\ acceptors_[o.port] = o.acceptor
          /\ acceptors_' = Erase(acceptors_, {o.port})
          /\ \E ep \in Endpoint :
               /\ connections_' = Assign(connections_, ep, s)
               /\ replaced' = (replaced \/ ep \in DOMAIN connections_)
               /\ ops' = (ops \ {o}) \cup {Op("exchange", s, ep, Absent, 1)}
    /\ acting' = s
    /\ UNCHANGED <<id_to_endpoint_map_, values, handlers, cancelled, established>>

\* Mutant: an error of an exchange erases the endpoint without asking whose it is.
ExchangeDoneUnguarded(s) ==
  \E o \in OfKind("exchange") :
    /\ o.sock = s
    /\ \/ /\ connections_' = Erase(connections_, {o.ep})
          /\ ops' = ops \ {o}
          /\ UNCHANGED <<id_to_endpoint_map_, established>>
       \/ /\ Alive(s)
          /\ id_to_endpoint_map_' = Assign(id_to_endpoint_map_, IdAt[o.ep], o.ep)
          /\ established' = established \cup {s}
          /\ ops' = (ops \ {o}) \cup {Op("receive", s, o.ep, IdAt[o.ep], o.n)}
          /\ UNCHANGED connections_
    /\ acting' = s
    /\ UNCHANGED <<acceptors_, values, handlers, cancelled, replaced>>

\* Mutant: the connection is used for sending only.
ExchangeDoneNoReceive(s) ==
  \E o \in OfKind("exchange") :
    /\ o.sock = s
    /\ id_to_endpoint_map_' = Assign(id_to_endpoint_map_, IdAt[o.ep], o.ep)
    /\ established' = established \cup {s}
    /\ ops' = ops \ {o}
    /\ acting' = s
    /\ UNCHANGED <<acceptors_, connections_, values, handlers, cancelled, replaced>>

\* The handler of AsyncExchange in Connect and in Accept, with the
\* StartReceiving it makes.
ExchangeDone(s) ==
  \E o \in OfKind("exchange") :
    /\ o.sock = s
    /\ \/ /\ ~Alive(s)
          /\ ops' = ops \ {o}
          /\ UNCHANGED <<connections_, id_to_endpoint_map_, established>>
       \/ /\ Alive(s)
          /\ connections_' = Erase(connections_, {o.ep})
          /\ ops' = ops \ {o}
          /\ UNCHANGED <<id_to_endpoint_map_, established>>
       \/ /\ Alive(s)
          /\ id_to_endpoint_map_' = Assign(id_to_endpoint_map_, IdAt[o.ep], o.ep)
          /\ established' = established \cup {s}
          /\ ops' = (ops \ {o}) \cup {Op("receive", s, o.ep, IdAt[o.ep], o.n)}
          /\ UNCHANGED connections_
    /\ acting' = s
    /\ UNCHANGED <<acceptors_, values, handlers, cancelled, replaced>>

\* Mutant: an error of a receive leaves the id of the node in the map.
ReceiveDoneKeepsId(s) ==
  \E o \in OfKind("receive") :
    /\ o.sock = s
    /\ Alive(s)
    /\ connections_' = Erase(connections_, {o.ep})
    /\ Push(o.id, TRUE)
    /\ ops' = ops \ {o}
    /\ acting' = s
    /\ UNCHANGED <<acceptors_, id_to_endpoint_map_, cancelled, established, replaced>>

\* The callback of async_receive in StartReceiving: aborted, an error, or a
\* message and the next receive.
ReceiveDone(s) ==
  \E o \in OfKind("receive") :
    /\ o.sock = s
    /\ \/ /\ ~Alive(s)
          /\ Push(o.id, TRUE)
          /\ ops' = ops \ {o}
          /\ UNCHANGED <<connections_, id_to_endpoint_map_>>
       \/ /\ Alive(s)
          /\ id_to_endpoint_map_' = Erase(id_to_endpoint_map_, {o.id})
          /\ connections_' = Erase(connections_, {o.ep})
          /\ Push(o.id, TRUE)
          /\ ops' = ops \ {o}
       \/ /\ Alive(s)
          /\ Push(o.id, FALSE)
          /\ UNCHANGED <<connections_, id_to_endpoint_map_, ops>>
    /\ acting' = s
    /\ UNCHANGED <<acceptors_, cancelled, established, replaced>>

\* The callback of async_send.
SendDone(s) ==
  \E o \in OfKind("send") :
    /\ o.sock = s
    /\ ops' = ops \ {o}
    /\ \/ UNCHANGED <<connections_, id_to_endpoint_map_>>
       \/ /\ Alive(s)
          /\ id_to_endpoint_map_' = Erase(id_to_endpoint_map_, {o.id})
          /\ connections_' = Erase(connections_, {o.ep})
    /\ acting' = s
    /\ UNCHANGED <<acceptors_, values, handlers, cancelled, established, replaced>>

Call ==
  \/ Receive
  \/ \E id \in Id : Send(id)
  \/ \E ep \in Endpoint : ConnectTo(ep)
  \/ \E port \in Port : Accept(port)
  \/ Shutdown

Callback(s) ==
  ConnectDone(s) \/ AcceptDone(s) \/ ExchangeDone(s) \/ ReceiveDone(s) \/ SendDone(s)

ConnectionsNext == Call \/ \E s \in Number : Callback(s)

ConnectionsSpec == ConnectionsInit /\ [][ConnectionsNext]_connectionsVars
-----------------------------------------------------------------------------
\* A callback that closes a connection closes the one it belongs to: an error
\* that comes late, after another connection to the same endpoint took its
\* place, closes nothing.
ErrorClosesOwnConnection ==
  [][\A ep \in DOMAIN connections_ :
       acting' # Absent /\ ep \notin DOMAIN connections_' => connections_[ep] = acting']_connectionsVars

\* A connection whose exchange is over has exactly one receive outstanding, so
\* its loss is always pushed to receive_queue_ and its messages never overtake
\* each other.
EstablishedIsReceiving ==
  \A s \in established :
    Alive(s) => Cardinality({o \in OfKind("receive") : o.sock = s}) = 1

\* An id in id_to_endpoint_map_ leads to a connection, as Send asserts
\* (connections.h:109), through any errors, reconnections and second connections to
\* the same node, as long as no accepted connection has taken the place of another
\* at the same endpoint.
KnownIdsAreConnected ==
  ~replaced => \A id \in DOMAIN id_to_endpoint_map_ : id_to_endpoint_map_[id] \in DOMAIN connections_

\* What Shutdown let go of never comes back: no connect, exchange or accept that
\* was under way adds a connection later.
ShutdownCancels == \A s \in cancelled : ~Alive(s)
=============================================================================
