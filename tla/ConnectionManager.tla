--------------------------- MODULE ConnectionManager ---------------------------
(***************************************************************************)
(* ConnectionManager (connection_manager.h, .cc) with its PeerNodes        *)
(* (peer_node.h): it connects to endpoints, accepts connections, exchanges *)
(* identities, keeps one connection per peer and receives from each.       *)
(*                                                                         *)
(* Everything runs on one io_service thread: the callbacks of the          *)
(* outstanding asynchronous operations one at a time, the calls of the     *)
(* owner posted between them or made by the receive handler while it runs. *)
(* What a callback finds is decided by the guards it captured: a weak      *)
(* pointer to its socket, to its PeerNode or to the manager.               *)
(*                                                                         *)
(* An address is its distance from our id, by which peers_ is ordered      *)
(* (XorAddress shows that distances are distinct).  An exchange of         *)
(* identities is one operation here: AsyncExchange shows that it ends in   *)
(* one call of its handler.  Sockets are numbered; a number is used again  *)
(* when neither an operation nor a map refers to it.                       *)
(***************************************************************************)
EXTENDS Naturals, FiniteSets, Functions

CONSTANTS
  Endpoint,    \* endpoints AddNode may be given
  Address,     \* ids of other nodes: distances from ours
  Assumed,     \* ids AddNode may be told to expect, None for none
  IdAt,        \* IdAt[ep]: the id of the node that listens at ep
  Port,        \* ports to accept on
  Handler,     \* receive handlers the owner sets
  GroupSize,
  None,
  MaxSockets,  \* bound on the sockets in use at a time
  MaxOps       \* bound on the operations outstanding when the owner starts one

ASSUME ConnectionManagerAssumption ==
  /\ Address \subseteq Nat
  /\ Assumed \subseteq Address \cup {None}
  /\ IdAt \in [Endpoint -> Address]
  /\ GroupSize \in Nat \ {0}
  /\ None \notin Address \cup Handler
  /\ None \notin [id : Address, sock : 1..MaxSockets, h : Handler]  \* what is running

VARIABLES
  being_connected_,      \* endpoint -> socket
  peers_,                \* id -> the socket of its PeerNode
  acceptors_,            \* ports with an acceptor
  on_receive_,           \* the handler set by SetOnReceive, or None
  current_close_group_,  \* the close group GroupChanged last reported
  destroyed,             \* the manager has been destroyed (destroy_indicator_ is gone)
  ops,                   \* the outstanding asynchronous operations
  running                \* the receive handler being run, with its peer, or None

vars == <<being_connected_, peers_, acceptors_, on_receive_, current_close_group_,
          destroyed, ops, running>>

Socket == 1..MaxSockets

\* Operations, as their callbacks see them; n tells apart those that share a
\* socket.
ConnectOp(s, ep, assumed, n) ==
  [kind |-> "connect", sock |-> s, ep |-> ep, assumed |-> assumed, n |-> n]
AcceptOp(s, port, state) == [kind |-> "accept", sock |-> s, port |-> port, state |-> state,
                             n |-> 1]
HelloOp(s, good) == [kind |-> "hello", sock |-> s, good |-> good, n |-> 1]
ReceiveOp(s, id, n) == [kind |-> "receive", sock |-> s, id |-> id, n |-> n]

OfKind(k) == {o \in ops : o.kind = k}

Erase(f, S) == Restrict(f, DOMAIN f \ S)

Insert(f, x, y) == [z \in DOMAIN f \cup {x} |-> IF z = x THEN y ELSE f[z]]

\* NodeInfos are compared by id; without an assumed one any will do.
IsAssumed(assumed, id) == assumed \in {None, id}

\* weak_socket.lock(): one of the maps still owns the socket.
Alive(s) == s \in Range(being_connected_) \cup Range(peers_)

\* node_guard.lock(): the PeerNode that owns the socket is still in peers_.
NodeAlive(id, s) == id \in DOMAIN peers_ /\ peers_[id] = s

InUse == Range(being_connected_) \cup Range(peers_) \cup {o.sock : o \in ops}

\* make_shared<crux::socket>
Fresh(s) == s \in Socket \ InUse /\ \A r \in Socket \ InUse : s <= r

Unused(s) == CHOOSE n \in 1..(Cardinality(ops) + 1) : \A o \in ops : o.sock = s => o.n # n

Room == Cardinality(ops) < MaxOps
-----------------------------------------------------------------------------
IsManaged(id) == id \in DOMAIN peers_

OurCloseGroup(ids) == {p \in ids : Cardinality({q \in ids : q < p}) < GroupSize}

Init ==
  /\ being_connected_ = [ep \in {} |-> None]
  /\ peers_ = [id \in {} |-> None]
  /\ acceptors_ = {}
  /\ on_receive_ = None
  /\ current_close_group_ = {}
  /\ destroyed = FALSE
  /\ ops = {}
  /\ running = None

\* The calls of the owner, posted or made by the handler that is running.
SetOnReceive(h) ==
  /\ ~destroyed
  /\ on_receive_' = h
  /\ UNCHANGED <<being_connected_, peers_, acceptors_, current_close_group_, destroyed, ops,
                 running>>

AddNode(assumed, ep) ==
  /\ ~destroyed
  /\ Room
  /\ \E s \in Socket :
       /\ \/ /\ ep \in DOMAIN being_connected_ /\ s = being_connected_[ep]
             /\ UNCHANGED being_connected_
          \/ /\ ep \notin DOMAIN being_connected_ /\ Fresh(s)
             /\ being_connected_' = Insert(being_connected_, ep, s)
       /\ ops' = ops \cup {ConnectOp(s, ep, assumed, Unused(s))}
  /\ UNCHANGED <<peers_, acceptors_, on_receive_, current_close_group_, destroyed, running>>

StartAccepting(port) ==
  /\ ~destroyed
  /\ Room
  /\ acceptors_' = acceptors_ \cup {port}
  /\ \E s \in Socket :
       /\ Fresh(s)
       /\ ops' = ops \cup {AcceptOp(s, port, "waiting")}
  /\ UNCHANGED <<being_connected_, peers_, on_receive_, current_close_group_, destroyed, running>>

\* GroupChanged: a group that differs is stored, and returned with the old one.
GroupChanged(ids) == current_close_group_' = OurCloseGroup(ids)

DropNode(id) ==
  /\ ~destroyed
  /\ peers_' = Erase(peers_, {id})
  /\ GroupChanged(DOMAIN peers_')
  /\ UNCHANGED <<being_connected_, acceptors_, on_receive_, destroyed, ops, running>>

\* Destroying an acceptor aborts its pending accepts; one that had completed
\* already has its callback queued, and finds the acceptor gone.
CloseAcceptors ==
  LET waiting == {o \in OfKind("accept") : o.state = "waiting"} IN
  \E queued \in SUBSET waiting :
    ops' = (ops \ waiting) \cup {[o EXCEPT !.state = "done"] : o \in queued}
                           \cup {[o EXCEPT !.state = "aborted"] : o \in waiting \ queued}

Shutdown ==
  /\ ~destroyed
  /\ acceptors_' = {}
  /\ CloseAcceptors
  /\ being_connected_' = Erase(being_connected_, Endpoint)
  /\ peers_' = Erase(peers_, Address)
  /\ UNCHANGED <<on_receive_, current_close_group_, destroyed, running>>

\* ~ConnectionManager: every member goes, and with destroy_indicator_ the guard
\* of the callbacks still to come.
Destroy ==
  /\ ~destroyed
  /\ destroyed' = TRUE
  /\ acceptors_' = {}
  /\ CloseAcceptors
  /\ being_connected_' = Erase(being_connected_, Endpoint)
  /\ peers_' = Erase(peers_, Address)
  /\ on_receive_' = None
  /\ UNCHANGED <<current_close_group_, running>>
-----------------------------------------------------------------------------
\* Callbacks.  InsertPeer with the StartReceiving it makes; o is the operation
\* whose callback calls it.
\* Mutant: a receive is started whether or not the peer was inserted.
InsertPeerRearm(id, s, o) ==
  /\ peers_' = IF IsManaged(id) THEN peers_ ELSE Insert(peers_, id, s)
  /\ ops' = (ops \ {o}) \cup {ReceiveOp(peers_'[id], id, Unused(peers_'[id]))}

InsertPeer(id, s, o) ==
  \/ IsManaged(id) /\ ops' = ops \ {o} /\ UNCHANGED peers_
  \/ /\ ~IsManaged(id)
     /\ peers_' = Insert(peers_, id, s)
     /\ ops' = (ops \ {o}) \cup {ReceiveOp(s, id, Unused(s))}

\* Mutant: a failed connect leaves its entry behind.
ConnectDoneKeeps(s) ==
  \E o \in OfKind("connect") :
    /\ o.sock = s
    /\ running = None
    /\ \/ ops' = ops \ {o}
       \/ Alive(s) /\ ops' = (ops \ {o}) \cup {[o EXCEPT !.kind = "exchange"]}
    /\ UNCHANGED <<being_connected_, peers_, acceptors_, on_receive_, current_close_group_,
                   destroyed, running>>

\* The callback of async_connect in AddNode.
ConnectDone(s) ==
  \E o \in OfKind("connect") :
    /\ o.sock = s
    /\ running = None
    /\ \/ ~Alive(s) /\ ops' = ops \ {o} /\ UNCHANGED being_connected_
       \/ /\ Alive(s)
          /\ being_connected_' = Erase(being_connected_, {o.ep})
          /\ ops' = ops \ {o}
       \/ /\ Alive(s)
          /\ ops' = (ops \ {o}) \cup {[o EXCEPT !.kind = "exchange"]}
          /\ UNCHANGED being_connected_
    /\ UNCHANGED <<peers_, acceptors_, on_receive_, current_close_group_, destroyed, running>>

\* Mutant: the callback owns its socket, so it never finds it gone.
ExchangeDoneStrong(s) ==
  \E o \in OfKind("exchange") :
    /\ o.sock = s
    /\ running = None
    /\ ~destroyed
    /\ being_connected_' = Erase(being_connected_, {o.ep})
    /\ \/ ops' = ops \ {o} /\ UNCHANGED peers_
       \/ IsAssumed(o.assumed, IdAt[o.ep]) /\ InsertPeer(IdAt[o.ep], s, o)
    /\ UNCHANGED <<acceptors_, on_receive_, current_close_group_, destroyed, running>>

\* Mutant: the entry is erased only when the peer could be inserted.
ExchangeDoneKeeps(s) ==
  \E o \in OfKind("exchange") :
    /\ o.sock = s
    /\ running = None
    /\ \/ ops' = ops \ {o} /\ UNCHANGED <<being_connected_, peers_>>
       \/ /\ Alive(s)
          /\ being_connected_' = Erase(being_connected_, {o.ep})
          /\ IsAssumed(o.assumed, IdAt[o.ep])
          /\ InsertPeer(IdAt[o.ep], s, o)
    /\ UNCHANGED <<acceptors_, on_receive_, current_close_group_, destroyed, running>>

\* The handler of the AsyncExchange in AddNode: an error, an id other than the
\* assumed one, or a new peer.
ExchangeDone(s) ==
  \E o \in OfKind("exchange") :
    /\ o.sock = s
    /\ running = None
    /\ \/ ~Alive(s) /\ ops' = ops \ {o} /\ UNCHANGED <<being_connected_, peers_>>
       \/ /\ Alive(s)
          /\ being_connected_' = Erase(being_connected_, {o.ep})
          /\ \/ ops' = ops \ {o} /\ UNCHANGED peers_
             \/ IsAssumed(o.assumed, IdAt[o.ep]) /\ InsertPeer(IdAt[o.ep], s, o)
    /\ UNCHANGED <<acceptors_, on_receive_, current_close_group_, destroyed, running>>

\* The callback of async_accept in StartAccepting.  Any error but
\* operation_aborted falls through to the next accept and to an exchange on a
\* socket that was not connected, which fails.
AcceptDone(s) ==
  \E o \in OfKind("accept") :
    /\ o.sock = s
    /\ running = None
    /\ \/ /\ destroyed \/ o.state = "aborted"
          /\ ops' = ops \ {o}
          /\ UNCHANGED acceptors_
       \/ /\ ~destroyed
          /\ o.state # "aborted"
          /\ acceptors_' = acceptors_ \cup {o.port}
          /\ \E r \in Socket, good \in BOOLEAN :
               /\ Fresh(r)
               /\ ops' = (ops \ {o}) \cup {AcceptOp(r, o.port, "waiting"), HelloOp(s, good)}
    /\ UNCHANGED <<being_connected_, peers_, on_receive_, current_close_group_, destroyed, running>>

\* Mutant: the handler does not look at destroy_guard.
HelloDoneUnguarded(s) ==
  \E o \in OfKind("hello") :
    /\ o.sock = s
    /\ running = None
    /\ \/ ops' = ops \ {o} /\ UNCHANGED peers_
       \/ o.good /\ \E id \in Address : InsertPeer(id, s, o)
    /\ UNCHANGED <<being_connected_, acceptors_, on_receive_, current_close_group_, destroyed,
                   running>>

\* The handler of the AsyncExchange in StartAccepting; any node may have
\* connected.
HelloDone(s) ==
  \E o \in OfKind("hello") :
    /\ o.sock = s
    /\ running = None
    /\ \/ ops' = ops \ {o} /\ UNCHANGED peers_
       \/ /\ ~destroyed
          /\ o.good
          /\ \E id \in Address : InsertPeer(id, s, o)
    /\ UNCHANGED <<being_connected_, acceptors_, on_receive_, current_close_group_, destroyed,
                   running>>

\* The callback of PeerNode::Receive in StartReceiving, up to the call of the
\* handler, which has been moved out of on_receive_.  The loop ends when the
\* node is gone, on an error, and when there is no handler.
ReceiveDone(s) ==
  \E o \in OfKind("receive") :
    /\ o.sock = s
    /\ running = None
    /\ ops' = ops \ {o}
    /\ \/ UNCHANGED <<on_receive_, running>>
       \/ /\ NodeAlive(o.id, s)
          /\ on_receive_ # None
          /\ running' = [id |-> o.id, sock |-> s, h |-> on_receive_]
          /\ on_receive_' = None
    /\ UNCHANGED <<being_connected_, peers_, acceptors_, current_close_group_, destroyed>>

\* Mutant: the handler stays moved out of on_receive_.
HandlerReturnsForgets ==
  /\ running # None
  /\ running' = None
  /\ NodeAlive(running.id, running.sock)
  /\ ops' = ops \cup {ReceiveOp(running.sock, running.id, Unused(running.sock))}
  /\ UNCHANGED <<being_connected_, peers_, acceptors_, on_receive_, current_close_group_,
                 destroyed>>

\* What follows the call: the handler is put back unless it has been replaced,
\* and the next receive is started.
HandlerReturns ==
  /\ running # None
  /\ running' = None
  /\ \/ /\ ~NodeAlive(running.id, running.sock)
        /\ UNCHANGED <<on_receive_, ops>>
     \/ /\ NodeAlive(running.id, running.sock)
        /\ on_receive_' = IF on_receive_ = None THEN running.h ELSE on_receive_
        /\ ops' = ops \cup {ReceiveOp(running.sock, running.id, Unused(running.sock))}
  /\ UNCHANGED <<being_connected_, peers_, acceptors_, current_close_group_, destroyed>>

\* The handler throws out of the callback: nothing of what follows the call is
\* done.  The owner goes on running the io_service.
HandlerThrows ==
  /\ running # None
  /\ running' = None
  /\ UNCHANGED <<being_connected_, peers_, acceptors_, on_receive_, current_close_group_,
                 destroyed, ops>>

OwnerCall ==
  \/ \E h \in Handler : SetOnReceive(h)
  \/ \E assumed \in Assumed, ep \in Endpoint : AddNode(assumed, ep)
  \/ \E port \in Port : StartAccepting(port)
  \/ \E id \in Address : DropNode(id)
  \/ Shutdown
  \/ Destroy

Callback(s) ==
  ConnectDone(s) \/ ExchangeDone(s) \/ AcceptDone(s) \/ HelloDone(s) \/ ReceiveDone(s)

Next == OwnerCall \/ (\E s \in Socket : Callback(s)) \/ HandlerReturns \/ HandlerThrows

Spec == Init /\ [][Next]_vars

\* crux completes connects and exchanges, if only with an error.  The io_service
\* runs completions in the order in which they were queued, so a stream of
\* messages, whose handler keeps the thread busy again and again, does not
\* starve them: the fairness is strong.  The receive handler returns or throws.
Fairness ==
  /\ \A s \in Socket : SF_vars(ConnectDone(s) \/ ExchangeDone(s))
  /\ WF_vars(HandlerReturns \/ HandlerThrows)

FairSpec == Spec /\ Fairness
-----------------------------------------------------------------------------
\* No callback that comes after the manager was destroyed touches it, whichever
\* operations were outstanding and even when the receive handler destroyed it
\* (connection_manager.cc:211).
DestroyedIsUntouched ==
  [][destroyed => UNCHANGED <<being_connected_, peers_, acceptors_, on_receive_>>]_vars

\* An endpoint is only held as being connected while an operation on its socket
\* is outstanding, so AddNode never joins an attempt that has ended.
BeingConnectedHasPending ==
  \A ep \in DOMAIN being_connected_ :
    \E o \in OfKind("connect") \cup OfKind("exchange") :
      o.sock = being_connected_[ep] /\ o.ep = ep

\* A PeerNode has one receive_buffer_: at most one receive uses a socket at a
\* time, and none while the handler reads the buffer.
OneReceivePerPeer ==
  \A s \in Socket :
    Cardinality({o \in OfKind("receive") : o.sock = s /\ NodeAlive(o.id, s)})
      + (IF running # None /\ running.sock = s /\ NodeAlive(running.id, s) THEN 1 ELSE 0) <= 1

\* A peer is only ever made of a connection that is still being connected, or of
\* one that was accepted: what Shutdown let go of never comes back, however far
\* its connect or exchange had come and although other attempts share its socket.
ShutdownCancels ==
  [][\A id \in DOMAIN peers_' \ DOMAIN peers_ :
       peers_'[id] \in Range(being_connected_) \cup {o.sock : o \in OfKind("hello")}]_vars

\* Every attempt to connect to an endpoint ends: its entry is erased, and the
\* next AddNode makes a socket of its own.
AttemptsEnd ==
  \A ep \in Endpoint : ep \in DOMAIN being_connected_ ~> ep \notin DOMAIN being_connected_

HandlerHeld == on_receive_ # None \/ running # None

\* The receive handler, once set, is only ever lost by a handler that throws, or
\* that drops the very peer it runs for and sets no other; not by errors, by the
\* end of other peers or by a handler that replaces itself ("complex handler
\* invocation", connection_manager.cc:211).
ReceiveHandlerKept ==
  [][HandlerHeld /\ ~HandlerHeld' =>
       destroyed' \/ HandlerThrows \/ ~NodeAlive(running.id, running.sock)]_vars
=============================================================================
