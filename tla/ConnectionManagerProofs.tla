------------------------ MODULE ConnectionManagerProofs ------------------------
(***************************************************************************)
(* ConnectionManager is correct for every set of endpoints, addresses and  *)
(* handlers and any number of operations outstanding at once.              *)
(*                                                                         *)
(* The invariant says who may use a socket: the attempts to one endpoint   *)
(* share one, nobody else uses it, and it goes from being_connected_ to    *)
(* peers_ once; the socket of an accept has one operation after the other; *)
(* what is received on is neither being connected nor being accepted.      *)
(***************************************************************************)
EXTENDS ConnectionManager, FiniteSetTheorems, TLAPS

Attempt(o) == o.kind \in {"connect", "exchange"}
Accepting(o) == o.kind \in {"accept", "hello"}
Receiving(o) == o.kind = "receive"

\* Every operation is of one of the kinds, with the fields of its kind.
OpsOK ==
  \A o \in ops :
    \/ /\ Attempt(o)
       /\ o = [kind |-> o.kind, sock |-> o.sock, ep |-> o.ep, assumed |-> o.assumed, n |-> o.n]
       /\ o.ep \in Endpoint
    \/ /\ o.kind = "accept"
       /\ o = [kind |-> o.kind, sock |-> o.sock, port |-> o.port, state |-> o.state, n |-> o.n]
    \/ o.kind = "hello"
    \/ Receiving(o)

DomainsOK ==
  /\ DOMAIN being_connected_ \subseteq Endpoint
  /\ DOMAIN peers_ \subseteq Address
  /\ destroyed => DOMAIN being_connected_ = {} /\ DOMAIN peers_ = {}

TypeInv == OpsOK /\ DomainsOK

\* Attempts that share a socket are to one endpoint, and no accept uses it.
AttemptsShare ==
  \A o, q \in ops :
    Attempt(o) /\ o.sock = q.sock => ~Accepting(q) /\ (Attempt(q) => q.ep = o.ep)

\* The socket of an accept has one operation at a time.
AcceptsAlone ==
  \A o, q \in ops : Accepting(o) /\ Accepting(q) /\ o.sock = q.sock => o = q

\* A socket that became a peer's is that of the node its other attempts are for.
PeersSettled ==
  \A id \in DOMAIN peers_, o \in ops :
    o.sock = peers_[id] => ~Accepting(o) /\ (Attempt(o) => id = IdAt[o.ep])

\* A socket is in one of the maps, and once.
Owned ==
  /\ \A ep \in DOMAIN being_connected_, id \in DOMAIN peers_ : being_connected_[ep] # peers_[id]
  /\ \A id, jd \in DOMAIN peers_ : peers_[id] = peers_[jd] => id = jd

\* What is received on is neither being connected nor being accepted.
ReceivesApart ==
  \A o \in ops : Receiving(o) =>
    /\ \A ep \in DOMAIN being_connected_ : being_connected_[ep] # o.sock
    /\ \A q \in ops : Accepting(q) => q.sock # o.sock

SocketsOK == AttemptsShare /\ AcceptsAlone /\ PeersSettled /\ Owned /\ ReceivesApart

\* A peer has one receive, or a handler that runs.
ReceivesOnce ==
  \A o \in ops : Receiving(o) /\ NodeAlive(o.id, o.sock) =>
    /\ \A q \in ops : Receiving(q) /\ q.sock = o.sock /\ NodeAlive(q.id, q.sock) => q = o
    /\ running # None /\ NodeAlive(running.id, running.sock) => running.sock # o.sock

IInv == TypeInv /\ BeingConnectedHasPending /\ SocketsOK /\ ReceivesOnce
-----------------------------------------------------------------------------
LEMMA ExchangeFacts ==
  ASSUME NEW o,
         o = [kind |-> o.kind, sock |-> o.sock, ep |-> o.ep, assumed |-> o.assumed, n |-> o.n]
  PROVE  [o EXCEPT !.kind = "exchange"] =
           [kind |-> "exchange", sock |-> o.sock, ep |-> o.ep, assumed |-> o.assumed, n |-> o.n]
OBVIOUS

LEMMA InitIInv == Init => IInv
BY DEF Init, IInv, TypeInv, OpsOK, DomainsOK, BeingConnectedHasPending, SocketsOK, AttemptsShare,
       AcceptsAlone, PeersSettled, Owned, ReceivesApart, ReceivesOnce

LEMMA TypeStep == ASSUME TypeInv, [Next]_vars PROVE TypeInv'
<1> USE ConnectionManagerAssumption
<1> USE DEF TypeInv, DomainsOK, OpsOK, Attempt, Receiving
<1>1. ASSUME NEW h \in Handler, SetOnReceive(h) PROVE TypeInv' BY <1>1 DEF SetOnReceive
<1>2. ASSUME NEW assumed \in Assumed, NEW ep \in Endpoint, AddNode(assumed, ep) PROVE TypeInv'
  <2>1. OpsOK' BY <1>2 DEF AddNode, ConnectOp
  <2>2. DOMAIN being_connected_' \subseteq Endpoint BY <1>2 DEF AddNode, Insert
  <2> QED BY <1>2, <2>1, <2>2 DEF AddNode
<1>3. ASSUME NEW port \in Port, StartAccepting(port) PROVE TypeInv'
  BY <1>3 DEF StartAccepting, AcceptOp
<1>4. ASSUME NEW id \in Address, DropNode(id) PROVE TypeInv'
  BY <1>4 DEF DropNode, Erase, Restrict
<1>5. ASSUME CloseAcceptors PROVE OpsOK' BY <1>5 DEF CloseAcceptors, OfKind
<1>6. CASE Shutdown BY <1>5, <1>6 DEF Shutdown, Erase, Restrict
<1>7. CASE Destroy BY <1>5, <1>7 DEF Destroy, Erase, Restrict
<1>8. ASSUME NEW s \in Socket, ConnectDone(s) PROVE TypeInv'
  <2>1. PICK o \in OfKind("connect") : ConnectDone(s)!(o) BY <1>8 DEF ConnectDone
  <2>2. OpsOK'
    <3>1. CASE ops' = ops \ {o} BY <3>1
    <3>2. CASE ops' = (ops \ {o}) \cup {[o EXCEPT !.kind = "exchange"]}
      BY <2>1, <3>2, ExchangeFacts DEF OfKind
    <3> QED BY <2>1, <3>1, <3>2
  <2> QED BY <2>1, <2>2 DEF Erase, Restrict
<1>9. ASSUME NEW s \in Socket, ExchangeDone(s) PROVE TypeInv'
  <2>1. PICK o \in OfKind("exchange") : ExchangeDone(s)!(o) BY <1>9 DEF ExchangeDone
  <2>2. OpsOK' BY <2>1 DEF InsertPeer, ReceiveOp
  <2>3. IdAt[o.ep] \in Address BY DEF OfKind
  <2>4. DOMAIN being_connected_' \subseteq DOMAIN being_connected_ BY <2>1 DEF Erase, Restrict
  <2>5. DOMAIN peers_' \subseteq DOMAIN peers_ \cup {IdAt[o.ep]}
    BY <2>1 DEF InsertPeer, IsManaged, Insert
  <2>6. destroyed => DOMAIN peers_' = {} BY <2>1 DEF Alive, Range
  <2> QED BY <2>1, <2>2, <2>3, <2>4, <2>5, <2>6
<1>10. ASSUME NEW s \in Socket, AcceptDone(s) PROVE TypeInv'
  BY <1>10 DEF AcceptDone, OfKind, AcceptOp, HelloOp
<1>11. ASSUME NEW s \in Socket, HelloDone(s) PROVE TypeInv'
  <2>1. PICK o \in OfKind("hello") : HelloDone(s)!(o) BY <1>11 DEF HelloDone
  <2>2. OpsOK' BY <2>1 DEF InsertPeer, ReceiveOp
  <2>3. DOMAIN peers_' \subseteq Address
    <3>1. CASE UNCHANGED peers_ BY <3>1
    <3>2. ASSUME NEW id \in Address, InsertPeer(id, s, o) PROVE DOMAIN peers_' \subseteq Address
      BY <3>2 DEF InsertPeer, Insert
    <3> QED BY <2>1, <3>1, <3>2
  <2> QED BY <2>1, <2>2, <2>3
<1>12. ASSUME NEW s \in Socket, ReceiveDone(s) PROVE TypeInv'
  BY <1>12 DEF ReceiveDone, OfKind
<1>13. CASE HandlerReturns BY <1>13 DEF HandlerReturns, ReceiveOp
<1>14. CASE HandlerThrows BY <1>14 DEF HandlerThrows
<1>15. CASE UNCHANGED vars BY <1>15 DEF vars
<1> QED
  BY <1>1, <1>2, <1>3, <1>4, <1>6, <1>7, <1>8, <1>9, <1>10, <1>11, <1>12, <1>13, <1>14, <1>15
     DEF Next, OwnerCall, Callback

\* The same with the kinds of operations put together.
LEMMA PendingMeans ==
  BeingConnectedHasPending <=>
    \A ep \in DOMAIN being_connected_ :
      \E o \in ops : Attempt(o) /\ o.sock = being_connected_[ep] /\ o.ep = ep
BY DEF BeingConnectedHasPending, OfKind, Attempt

LEMMA PendingStep ==
  ASSUME TypeInv, BeingConnectedHasPending, [Next]_vars
  PROVE  BeingConnectedHasPending'
<1> SUFFICES ASSUME NEW ep \in DOMAIN being_connected_'
             PROVE  \E o \in ops' : Attempt(o) /\ o.sock = being_connected_'[ep] /\ o.ep = ep
  BY DEF BeingConnectedHasPending, OfKind, Attempt
<1> DEFINE Goal == \E o \in ops' : Attempt(o) /\ o.sock = being_connected_'[ep] /\ o.ep = ep
<1>p. \A x \in DOMAIN being_connected_ :
        \E o \in ops : Attempt(o) /\ o.sock = being_connected_[x] /\ o.ep = x
  BY PendingMeans
<1>k. ASSUME \A o \in ops : Attempt(o) => o \in ops',
             ep \in DOMAIN being_connected_, being_connected_'[ep] = being_connected_[ep]
      PROVE  Goal
  BY <1>k, <1>p
<1>1. ASSUME NEW h \in Handler, SetOnReceive(h) PROVE Goal BY <1>1, <1>k DEF SetOnReceive
<1>2. ASSUME NEW assumed \in Assumed, NEW e \in Endpoint, AddNode(assumed, e) PROVE Goal
  <2>1. PICK s \in Socket : AddNode(assumed, e)!3!(s) BY <1>2 DEF AddNode
  <2>2. CASE ep = e
    <3>1. being_connected_'[ep] = s BY <2>1, <2>2 DEF Insert
    <3> DEFINE o == ConnectOp(s, e, assumed, Unused(s))
    <3>2. o \in ops' /\ Attempt(o) /\ o.sock = s /\ o.ep = e BY <2>1 DEF ConnectOp, Attempt
    <3> QED BY <2>2, <3>1, <3>2
  <2>3. CASE ep # e
    <3>1. ep \in DOMAIN being_connected_ /\ being_connected_'[ep] = being_connected_[ep]
      BY <2>1, <2>3 DEF Insert
    <3> QED BY <2>1, <3>1, <1>k
  <2> QED BY <2>2, <2>3
<1>3. ASSUME NEW port \in Port, StartAccepting(port) PROVE Goal BY <1>3, <1>k DEF StartAccepting
<1>4. ASSUME NEW id \in Address, DropNode(id) PROVE Goal BY <1>4, <1>k DEF DropNode
<1>5. CASE Shutdown \/ Destroy
  BY <1>5 DEF Shutdown, Destroy, Erase, Restrict, TypeInv, DomainsOK
<1>8. ASSUME NEW s \in Socket, ConnectDone(s) PROVE Goal
  <2>1. PICK o \in OfKind("connect") : ConnectDone(s)!(o) BY <1>8 DEF ConnectDone
  <2>2. /\ ep \in DOMAIN being_connected_ /\ being_connected_'[ep] = being_connected_[ep]
        /\ Alive(s) /\ being_connected_' # being_connected_ => ep # o.ep
    BY <2>1 DEF Erase, Restrict
  <2>3. PICK q \in ops : Attempt(q) /\ q.sock = being_connected_[ep] /\ q.ep = ep BY <1>p, <2>2
  <2>4. CASE q # o BY <2>1, <2>2, <2>3, <2>4
  <2>5. CASE q = o
    <3>1. Alive(s) BY <2>1, <2>2, <2>3, <2>5 DEF Alive, Range
    <3>2. ops' = (ops \ {o}) \cup {[o EXCEPT !.kind = "exchange"]}
      BY <2>1, <2>2, <2>3, <2>5, <3>1 DEF Erase, Restrict
    <3>3. [o EXCEPT !.kind = "exchange"] =
            [kind |-> "exchange", sock |-> o.sock, ep |-> o.ep, assumed |-> o.assumed, n |-> o.n]
      BY ExchangeFacts DEF OfKind, TypeInv, OpsOK, Attempt, Receiving
    <3> QED BY <2>2, <2>3, <2>5, <3>2, <3>3 DEF Attempt
  <2> QED BY <2>4, <2>5
<1>9. ASSUME NEW s \in Socket, ExchangeDone(s) PROVE Goal
  <2>1. PICK o \in OfKind("exchange") : ExchangeDone(s)!(o) BY <1>9 DEF ExchangeDone
  <2>2. /\ ep \in DOMAIN being_connected_ /\ being_connected_'[ep] = being_connected_[ep]
        /\ Alive(s) => ep # o.ep
    BY <2>1 DEF Erase, Restrict
  <2>3. PICK q \in ops : Attempt(q) /\ q.sock = being_connected_[ep] /\ q.ep = ep BY <1>p, <2>2
  <2>4. q # o
    <3> SUFFICES ASSUME q = o PROVE FALSE OBVIOUS
    <3>1. Alive(s) BY <2>1, <2>2, <2>3 DEF Alive, Range
    <3> QED BY <2>2, <2>3, <3>1
  <2>5. ops \ {o} \subseteq ops' BY <2>1 DEF InsertPeer
  <2> QED BY <2>2, <2>3, <2>4, <2>5
<1>10. ASSUME NEW s \in Socket, AcceptDone(s) PROVE Goal
  BY <1>10, <1>k DEF AcceptDone, OfKind, Attempt
<1>11. ASSUME NEW s \in Socket, HelloDone(s) PROVE Goal
  <2>1. \A o \in ops : Attempt(o) => o \in ops'
    BY <1>11 DEF HelloDone, OfKind, InsertPeer, Attempt
  <2> QED BY <1>11, <1>k, <2>1 DEF HelloDone
<1>12. ASSUME NEW s \in Socket, ReceiveDone(s) PROVE Goal
  BY <1>12, <1>k DEF ReceiveDone, OfKind, Attempt
<1>13. CASE HandlerReturns BY <1>13, <1>k DEF HandlerReturns
<1>14. CASE HandlerThrows BY <1>14, <1>k DEF HandlerThrows
<1>15. CASE UNCHANGED vars BY <1>15, <1>k DEF vars
<1> QED
  BY <1>1, <1>2, <1>3, <1>4, <1>5, <1>8, <1>9, <1>10, <1>11, <1>12, <1>13, <1>14, <1>15
     DEF Next, OwnerCall, Callback

-----------------------------------------------------------------------------
\* q, an operation of the next state, stands where o stood.
Follows(q, o) ==
  /\ q.sock = o.sock
  /\ Attempt(q) => Attempt(o) /\ q.ep = o.ep
  /\ Accepting(q) => Accepting(o)
  /\ Receiving(q) => Receiving(o)

\* Steps that take entries out of the maps, and at most replace operations.
LEMMA SocketsShrink ==
  ASSUME SocketsOK,
         \A ep \in DOMAIN being_connected_' :
           ep \in DOMAIN being_connected_ /\ being_connected_'[ep] = being_connected_[ep],
         \A id \in DOMAIN peers_' : id \in DOMAIN peers_ /\ peers_'[id] = peers_[id],
         \A q \in ops' : \E o \in ops : Follows(q, o),
         AcceptsAlone'
  PROVE  SocketsOK'
<1> USE DEF Follows
<1>1. AttemptsShare' BY DEF SocketsOK, AttemptsShare
<1>2. PeersSettled' BY DEF SocketsOK, PeersSettled
<1>3. Owned' BY DEF SocketsOK, Owned
<1>4. ReceivesApart' BY DEF SocketsOK, ReceivesApart
<1> QED BY <1>1, <1>2, <1>3, <1>4 DEF SocketsOK

LEMMA FollowsItself == \A o \in ops : Follows(o, o)
BY DEF Follows

LEMMA SocketsAddNode ==
  ASSUME TypeInv, BeingConnectedHasPending, SocketsOK,
         NEW assumed \in Assumed, NEW e \in Endpoint, AddNode(assumed, e)
  PROVE  SocketsOK'
<1>1. PICK s \in Socket : AddNode(assumed, e)!3!(s) BY DEF AddNode
<1> DEFINE new == ConnectOp(s, e, assumed, Unused(s))
<1>2. ops' = ops \cup {new} /\ new.sock = s /\ new.ep = e /\ new.kind = "connect"
  BY <1>1 DEF ConnectOp
<1> HIDE DEF new
<1>3. UNCHANGED peers_ BY DEF AddNode
<1>4. ASSUME NEW o \in ops, o.sock = s
      PROVE  /\ ~Accepting(o) /\ ~Receiving(o)
             /\ Attempt(o) => o.ep = e
  <2>1. CASE e \in DOMAIN being_connected_ /\ s = being_connected_[e]
    <3>1. PICK q \in ops : Attempt(q) /\ q.sock = s /\ q.ep = e BY <2>1, PendingMeans
    <3> QED BY <1>4, <2>1, <3>1 DEF SocketsOK, AttemptsShare, ReceivesApart
  <2>2. CASE Fresh(s) BY <1>4, <2>2 DEF Fresh, InUse
  <2> QED BY <1>1, <2>1, <2>2
<1>5. \A id \in DOMAIN peers_ : peers_[id] # s
  <2>1. CASE e \in DOMAIN being_connected_ /\ s = being_connected_[e]
    BY <2>1 DEF SocketsOK, Owned
  <2>2. CASE Fresh(s) BY <2>2 DEF Fresh, InUse, Range
  <2> QED BY <1>1, <2>1, <2>2
<1>6. \A ep \in DOMAIN being_connected_' :
        \/ ep \in DOMAIN being_connected_ /\ being_connected_'[ep] = being_connected_[ep]
        \/ being_connected_'[ep] = s
  BY <1>1 DEF Insert
<1>7. AttemptsShare' BY <1>2, <1>4 DEF SocketsOK, AttemptsShare, Attempt, Accepting, Receiving
<1>8. AcceptsAlone' BY <1>2 DEF SocketsOK, AcceptsAlone, Accepting
<1>9. PeersSettled' BY <1>2, <1>3, <1>5 DEF SocketsOK, PeersSettled
<1>10. Owned' BY <1>3, <1>5, <1>6 DEF SocketsOK, Owned
<1>11. ReceivesApart' BY <1>2, <1>4, <1>6 DEF SocketsOK, ReceivesApart, Accepting, Receiving
<1> QED BY <1>7, <1>8, <1>9, <1>10, <1>11 DEF SocketsOK

\* A socket nobody uses is given to an accept, next to steps of the kind above.
LEMMA SocketsAccept ==
  ASSUME SocketsOK, UNCHANGED <<being_connected_, peers_>>,
         NEW r \in Socket, Fresh(r), NEW new, new.kind = "accept", new.sock = r,
         NEW Rest, ops' = Rest \cup {new},
         \A q \in Rest : \E o \in ops : Follows(q, o),
         \A q, p \in Rest : Accepting(q) /\ Accepting(p) /\ q.sock = p.sock => q = p
  PROVE  SocketsOK'
<1>1. \A q \in Rest : q.sock # r BY DEF Fresh, InUse, Follows
<1>2. /\ \A ep \in DOMAIN being_connected_ : being_connected_[ep] # r
      /\ \A id \in DOMAIN peers_ : peers_[id] # r
  BY DEF Fresh, InUse, Range
<1>3. ~Attempt(new) /\ ~Receiving(new) BY DEF Attempt, Receiving
<1>7. AttemptsShare' BY <1>1, <1>3 DEF SocketsOK, AttemptsShare, Follows
<1>8. AcceptsAlone' BY <1>1 DEF SocketsOK, AcceptsAlone
<1>9. PeersSettled' BY <1>2, <1>3 DEF SocketsOK, PeersSettled, Follows
<1>10. Owned' BY DEF SocketsOK, Owned
<1>11. ReceivesApart' BY <1>1, <1>3 DEF SocketsOK, ReceivesApart, Follows
<1> QED BY <1>7, <1>8, <1>9, <1>10, <1>11 DEF SocketsOK

\* What may become a peer: an attempt that is still being connected, or an accept.
Entitled(o, id) ==
  \/ Attempt(o) /\ id = IdAt[o.ep] /\ \E ep \in DOMAIN being_connected_ : being_connected_[ep] = o.sock
  \/ Accepting(o)

\* The socket of such an operation is nobody else's.
LEMMA EntitledFacts ==
  ASSUME SocketsOK, NEW o \in ops, NEW id, Entitled(o, id)
  PROVE  /\ \A jd \in DOMAIN peers_ : peers_[jd] # o.sock
         /\ \A q \in ops : Receiving(q) => q.sock # o.sock
         /\ \A q \in ops \ {o} : q.sock = o.sock => ~Accepting(q) /\ (Attempt(q) => id = IdAt[q.ep])
<1>1. CASE Attempt(o) /\ id = IdAt[o.ep]
           /\ \E ep \in DOMAIN being_connected_ : being_connected_[ep] = o.sock
  BY <1>1 DEF SocketsOK, Owned, ReceivesApart, AttemptsShare
<1>2. CASE Accepting(o)
  BY <1>2 DEF SocketsOK, PeersSettled, ReceivesApart, AttemptsShare, AcceptsAlone
<1> QED BY <1>1, <1>2 DEF Entitled

LEMMA SocketsInsert ==
  ASSUME SocketsOK, NEW o \in ops, NEW id, Entitled(o, id), NEW m,
         peers_' = Insert(peers_, id, o.sock), id \notin DOMAIN peers_,
         ops' = (ops \ {o}) \cup {ReceiveOp(o.sock, id, m)},
         \A ep \in DOMAIN being_connected_' :
           /\ ep \in DOMAIN being_connected_ /\ being_connected_'[ep] = being_connected_[ep]
           /\ being_connected_[ep] # o.sock
  PROVE  SocketsOK'
<1> DEFINE new == ReceiveOp(o.sock, id, m)
<1>1. new.sock = o.sock /\ new.kind = "receive" BY DEF ReceiveOp
<1>2. ops' = (ops \ {o}) \cup {new} OBVIOUS
<1> HIDE DEF new
<1>3. ~Attempt(new) /\ ~Accepting(new) BY <1>1 DEF Attempt, Accepting
<1>4. /\ DOMAIN peers_' = DOMAIN peers_ \cup {id} /\ peers_'[id] = o.sock
      /\ \A jd \in DOMAIN peers_ : peers_'[jd] = peers_[jd]
  BY DEF Insert
<1>7. AttemptsShare' BY <1>1, <1>2, <1>3 DEF SocketsOK, AttemptsShare
<1>8. AcceptsAlone' BY <1>2, <1>3 DEF SocketsOK, AcceptsAlone
<1>9. PeersSettled'
  <2> SUFFICES ASSUME NEW jd \in DOMAIN peers_', NEW q \in ops', q.sock = peers_'[jd]
               PROVE  ~Accepting(q) /\ (Attempt(q) => jd = IdAt[q.ep])
    BY DEF PeersSettled, Attempt, Accepting
  <2>1. CASE q = new BY <2>1, <1>3
  <2>2. CASE q \in ops \ {o} /\ jd = id BY <2>2, <1>4, EntitledFacts
  <2>3. CASE q \in ops \ {o} /\ jd \in DOMAIN peers_ BY <2>3, <1>4 DEF SocketsOK, PeersSettled
  <2> QED BY <2>1, <2>2, <2>3, <1>2, <1>4
<1>10. Owned'
  <2>1. \A jd \in DOMAIN peers_ : peers_[jd] # o.sock BY EntitledFacts
  <2>2. \A ep \in DOMAIN being_connected_', jd \in DOMAIN peers_' :
          being_connected_'[ep] # peers_'[jd]
    BY <1>4 DEF SocketsOK, Owned
  <2>3. \A jd, kd \in DOMAIN peers_' : peers_'[jd] = peers_'[kd] => jd = kd
    BY <1>4, <2>1 DEF SocketsOK, Owned
  <2> QED BY <2>2, <2>3 DEF Owned
<1>11. ReceivesApart' BY <1>1, <1>2, <1>3, EntitledFacts DEF SocketsOK, ReceivesApart
<1> QED BY <1>7, <1>8, <1>9, <1>10, <1>11 DEF SocketsOK

\* Only an operation that is entitled to inserts a peer.
LEMMA ExchangeInserts ==
  ASSUME TypeInv, BeingConnectedHasPending, SocketsOK, NEW s \in Socket,
         NEW o \in OfKind("exchange"), o.sock = s, Alive(s), ~IsManaged(IdAt[o.ep])
  PROVE  /\ o \in ops /\ Attempt(o) /\ Entitled(o, IdAt[o.ep])
         /\ \A ep \in DOMAIN being_connected_ : being_connected_[ep] = s => ep = o.ep
<1>1. o \in ops /\ Attempt(o) BY DEF OfKind, Attempt
<1>2. \A id \in DOMAIN peers_ : peers_[id] # s BY <1>1 DEF SocketsOK, PeersSettled, IsManaged
<1>3. \E ep \in DOMAIN being_connected_ : being_connected_[ep] = s BY <1>2 DEF Alive, Range
<1>4. ASSUME NEW ep \in DOMAIN being_connected_, being_connected_[ep] = s PROVE ep = o.ep
  <2>1. PICK q \in ops : Attempt(q) /\ q.sock = s /\ q.ep = ep BY <1>4, PendingMeans
  <2> QED BY <1>1, <2>1 DEF SocketsOK, AttemptsShare
<1> QED BY <1>1, <1>3, <1>4 DEF Entitled

LEMMA HelloInserts ==
  ASSUME BeingConnectedHasPending, SocketsOK, NEW o \in OfKind("hello"), NEW id
  PROVE  /\ o \in ops /\ Accepting(o) /\ Entitled(o, id)
         /\ \A ep \in DOMAIN being_connected_ : being_connected_[ep] # o.sock
<1>1. o \in ops /\ Accepting(o) BY DEF OfKind, Accepting
<1>2. ASSUME NEW ep \in DOMAIN being_connected_, being_connected_[ep] = o.sock PROVE FALSE
  <2>1. PICK q \in ops : Attempt(q) /\ q.sock = o.sock BY <1>2, PendingMeans
  <2> QED BY <1>1, <2>1 DEF SocketsOK, AttemptsShare
<1> QED BY <1>1, <1>2 DEF Entitled

LEMMA CloseFacts ==
  ASSUME TypeInv, SocketsOK, CloseAcceptors
  PROVE  /\ \A q \in ops' : \E o \in ops : Follows(q, o)
         /\ \A q \in ops' : Receiving(q) => q \in ops
         /\ AcceptsAlone'
<1> DEFINE waiting == {o \in OfKind("accept") : o.state = "waiting"}
<1>1. PICK queued \in SUBSET waiting :
        ops' = (ops \ waiting) \cup {[o EXCEPT !.state = "done"] : o \in queued}
                               \cup {[o EXCEPT !.state = "aborted"] : o \in waiting \ queued}
  BY DEF CloseAcceptors
<1> DEFINE Image(o) == IF o \notin waiting THEN o
                       ELSE IF o \in queued THEN [o EXCEPT !.state = "done"]
                       ELSE [o EXCEPT !.state = "aborted"]
<1>2. waiting \subseteq ops BY DEF OfKind
<1>3. ops' \subseteq {Image(o) : o \in ops} BY <1>1, <1>2
<1>4. ASSUME NEW o \in ops
      PROVE  Follows(Image(o), o) /\ (Receiving(Image(o)) => Image(o) = o)
  <2>1. CASE o \notin waiting BY <2>1, FollowsItself
  <2>2. CASE o \in waiting
    <3>1. o.kind = "accept" BY <2>2 DEF OfKind
    <3>2. o = [kind |-> o.kind, sock |-> o.sock, port |-> o.port, state |-> o.state, n |-> o.n]
      BY <3>1 DEF TypeInv, OpsOK, Attempt, Receiving
    <3>3. Image(o).kind = "accept" /\ Image(o).sock = o.sock BY <2>2, <3>1, <3>2
    <3> QED BY <3>1, <3>3 DEF Follows, Attempt, Accepting, Receiving
  <2> QED BY <2>1, <2>2
<1> HIDE DEF Image
<1>5. \A q \in ops' : \E o \in ops : q = Image(o) BY <1>3
<1>6. AcceptsAlone' BY <1>4, <1>5 DEF SocketsOK, AcceptsAlone, Follows
<1> QED BY <1>4, <1>5, <1>6

LEMMA SocketsStep ==
  ASSUME TypeInv, BeingConnectedHasPending, SocketsOK, [Next]_vars
  PROVE  SocketsOK'
<1>0. ASSUME UNCHANGED <<being_connected_, peers_, ops>> PROVE SocketsOK'
  BY <1>0 DEF SocketsOK, AttemptsShare, AcceptsAlone, PeersSettled, Owned, ReceivesApart
<1>1. ASSUME NEW h \in Handler, SetOnReceive(h) PROVE SocketsOK' BY <1>0, <1>1 DEF SetOnReceive
<1>2. ASSUME NEW assumed \in Assumed, NEW e \in Endpoint, AddNode(assumed, e) PROVE SocketsOK'
  BY <1>2, SocketsAddNode
<1>s. ASSUME ops' \subseteq ops,
             \A ep \in DOMAIN being_connected_' :
               ep \in DOMAIN being_connected_ /\ being_connected_'[ep] = being_connected_[ep],
             \A id \in DOMAIN peers_' : id \in DOMAIN peers_ /\ peers_'[id] = peers_[id]
      PROVE  SocketsOK'
  <2>1. AcceptsAlone' BY <1>s DEF SocketsOK, AcceptsAlone
  <2> QED BY <1>s, <2>1, FollowsItself, SocketsShrink
<1>3. ASSUME NEW port \in Port, StartAccepting(port) PROVE SocketsOK'
  <2>1. PICK r \in Socket : Fresh(r) /\ ops' = ops \cup {AcceptOp(r, port, "waiting")}
    BY <1>3 DEF StartAccepting
  <2> DEFINE new == AcceptOp(r, port, "waiting")
  <2>2. new.kind = "accept" /\ new.sock = r BY DEF AcceptOp
  <2>3. UNCHANGED <<being_connected_, peers_>> BY <1>3 DEF StartAccepting
  <2>4. \A q, p \in ops : Accepting(q) /\ Accepting(p) /\ q.sock = p.sock => q = p
    BY DEF SocketsOK, AcceptsAlone
  <2> HIDE DEF new
  <2> QED BY <2>1, <2>2, <2>3, <2>4, FollowsItself, SocketsAccept DEF new
<1>4. ASSUME NEW id \in Address, DropNode(id) PROVE SocketsOK'
  BY <1>4, <1>s DEF DropNode, Erase, Restrict
<1>5. CASE Shutdown \/ Destroy
  <2>1. CloseAcceptors BY <1>5 DEF Shutdown, Destroy
  <2>2. DOMAIN being_connected_' = {} /\ DOMAIN peers_' = {}
    BY <1>5 DEF Shutdown, Destroy, Erase, Restrict, TypeInv, DomainsOK
  <2> QED BY <2>1, <2>2, CloseFacts, SocketsShrink
<1>8. ASSUME NEW s \in Socket, ConnectDone(s) PROVE SocketsOK'
  <2>1. PICK o \in OfKind("connect") : ConnectDone(s)!(o) BY <1>8 DEF ConnectDone
  <2>2. /\ \A ep \in DOMAIN being_connected_' :
             ep \in DOMAIN being_connected_ /\ being_connected_'[ep] = being_connected_[ep]
        /\ UNCHANGED peers_
    BY <2>1 DEF Erase, Restrict
  <2>3. CASE ops' = ops \ {o} BY <1>s, <2>2, <2>3
  <2>4. CASE ops' = (ops \ {o}) \cup {[o EXCEPT !.kind = "exchange"]}
    <3> DEFINE new == [o EXCEPT !.kind = "exchange"]
    <3>1. o \in ops /\ o.kind = "connect" BY DEF OfKind
    <3>2. new = [kind |-> "exchange", sock |-> o.sock, ep |-> o.ep, assumed |-> o.assumed, n |-> o.n]
      BY <3>1, ExchangeFacts DEF TypeInv, OpsOK, Attempt, Receiving
    <3>3. new.kind = "exchange" /\ new.sock = o.sock /\ new.ep = o.ep BY <3>2
    <3> HIDE DEF new
    <3>4. Follows(new, o) /\ ~Accepting(new)
      BY <3>1, <3>3 DEF Follows, Attempt, Accepting, Receiving
    <3>5. ops' = (ops \ {o}) \cup {new} BY <2>4 DEF new
    <3>6. AcceptsAlone' BY <3>4, <3>5 DEF SocketsOK, AcceptsAlone
    <3> QED BY <2>2, <3>1, <3>4, <3>5, <3>6, FollowsItself, SocketsShrink
  <2> QED BY <2>1, <2>3, <2>4
<1>9. ASSUME NEW s \in Socket, ExchangeDone(s) PROVE SocketsOK'
  <2>1. PICK o \in OfKind("exchange") : ExchangeDone(s)!(o) BY <1>9 DEF ExchangeDone
  <2>2. \A ep \in DOMAIN being_connected_' :
          /\ ep \in DOMAIN being_connected_ /\ being_connected_'[ep] = being_connected_[ep]
          /\ Alive(s) => ep # o.ep
    BY <2>1 DEF Erase, Restrict
  <2>3. CASE ops' = ops \ {o} /\ UNCHANGED peers_ BY <1>s, <2>2, <2>3
  <2>4. CASE Alive(s) /\ ~IsManaged(IdAt[o.ep]) /\ InsertPeer(IdAt[o.ep], s, o)
    <3> DEFINE id == IdAt[o.ep]
    <3>1. /\ o \in ops /\ Entitled(o, id)
          /\ \A ep \in DOMAIN being_connected_ : being_connected_[ep] = s => ep = o.ep
      BY <2>1, <2>4, ExchangeInserts
    <3>2. id \notin DOMAIN peers_ /\ peers_' = Insert(peers_, id, o.sock)
      BY <2>1, <2>4 DEF InsertPeer, IsManaged
    <3>3. ops' = (ops \ {o}) \cup {ReceiveOp(o.sock, id, Unused(s))}
      BY <2>1, <2>4 DEF InsertPeer, IsManaged
    <3>4. \A ep \in DOMAIN being_connected_' :
            /\ ep \in DOMAIN being_connected_ /\ being_connected_'[ep] = being_connected_[ep]
            /\ being_connected_[ep] # o.sock
      BY <2>1, <2>2, <2>4, <3>1
    <3> HIDE DEF id
    <3> QED BY <3>1, <3>2, <3>3, <3>4, SocketsInsert
  <2> QED BY <2>1, <2>3, <2>4 DEF InsertPeer
<1>10. ASSUME NEW s \in Socket, AcceptDone(s) PROVE SocketsOK'
  <2>1. PICK o \in OfKind("accept") : AcceptDone(s)!(o) BY <1>10 DEF AcceptDone
  <2>2. CASE ops' = ops \ {o} BY <1>s, <2>1, <2>2
  <2>3. ASSUME NEW r \in Socket, NEW good \in BOOLEAN, Fresh(r),
               ops' = (ops \ {o}) \cup {AcceptOp(r, o.port, "waiting"), HelloOp(s, good)}
        PROVE  SocketsOK'
    <3> DEFINE new == AcceptOp(r, o.port, "waiting")
               hello == HelloOp(s, good)
               Rest == (ops \ {o}) \cup {hello}
    <3>1. new.kind = "accept" /\ new.sock = r BY DEF AcceptOp
    <3>2. hello.kind = "hello" /\ hello.sock = s BY DEF HelloOp
    <3>3. o \in ops /\ o.kind = "accept" /\ o.sock = s BY <2>1 DEF OfKind
    <3>4. ops' = Rest \cup {new} BY <2>3
    <3>5. Follows(hello, o) BY <3>2, <3>3 DEF Follows, Attempt, Accepting, Receiving
    <3>6. Accepting(o) BY <3>3 DEF Accepting
    <3> HIDE DEF new, hello
    <3>7. \A q \in Rest : \E x \in ops : Follows(q, x) BY <3>3, <3>5, FollowsItself
    <3>8. \A q, p \in Rest : Accepting(q) /\ Accepting(p) /\ q.sock = p.sock => q = p
      BY <3>2, <3>3, <3>6 DEF SocketsOK, AcceptsAlone
    <3> HIDE DEF Rest
    <3> QED BY <2>1, <2>3, <3>1, <3>4, <3>7, <3>8, SocketsAccept
  <2> QED BY <2>1, <2>2, <2>3
<1>11. ASSUME NEW s \in Socket, HelloDone(s) PROVE SocketsOK'
  <2>1. PICK o \in OfKind("hello") : HelloDone(s)!(o) BY <1>11 DEF HelloDone
  <2>2. CASE ops' = ops \ {o} /\ UNCHANGED peers_ BY <1>s, <2>1, <2>2
  <2>3. ASSUME NEW id \in Address, ~IsManaged(id), InsertPeer(id, s, o) PROVE SocketsOK'
    BY <2>1, <2>3, HelloInserts, SocketsInsert DEF InsertPeer, IsManaged
  <2> QED BY <2>1, <2>2, <2>3 DEF InsertPeer
<1>12. ASSUME NEW s \in Socket, ReceiveDone(s) PROVE SocketsOK' BY <1>12, <1>s DEF ReceiveDone
<1>13. CASE HandlerReturns
  <2>1. CASE UNCHANGED ops BY <1>0, <1>13, <2>1 DEF HandlerReturns
  <2>2. CASE /\ NodeAlive(running.id, running.sock)
             /\ ops' = ops \cup {ReceiveOp(running.sock, running.id, Unused(running.sock))}
    <3> DEFINE new == ReceiveOp(running.sock, running.id, Unused(running.sock))
    <3>1. new.kind = "receive" /\ new.sock = running.sock BY DEF ReceiveOp
    <3>2. ops' = ops \cup {new} BY <2>2
    <3> HIDE DEF new
    <3>3. ~Attempt(new) /\ ~Accepting(new) BY <3>1 DEF Attempt, Accepting
    <3>4. UNCHANGED <<being_connected_, peers_>> BY <1>13 DEF HandlerReturns
    <3>5. running.id \in DOMAIN peers_ /\ peers_[running.id] = new.sock
      BY <2>2, <3>1 DEF NodeAlive
    <3>6. AttemptsShare' BY <3>2, <3>3 DEF SocketsOK, AttemptsShare
    <3>7. AcceptsAlone' BY <3>2, <3>3 DEF SocketsOK, AcceptsAlone
    <3>8. PeersSettled' BY <3>2, <3>3, <3>4 DEF SocketsOK, PeersSettled
    <3>9. Owned' BY <3>4 DEF SocketsOK, Owned
    <3>10. ReceivesApart'
      BY <3>2, <3>3, <3>4, <3>5 DEF SocketsOK, ReceivesApart, Owned, PeersSettled
    <3> QED BY <3>6, <3>7, <3>8, <3>9, <3>10 DEF SocketsOK
  <2> QED BY <1>13, <2>1, <2>2 DEF HandlerReturns
<1>14. CASE HandlerThrows BY <1>0, <1>14 DEF HandlerThrows
<1>15. CASE UNCHANGED vars BY <1>0, <1>15 DEF vars
<1> QED
  BY <1>1, <1>2, <1>3, <1>4, <1>5, <1>8, <1>9, <1>10, <1>11, <1>12, <1>13, <1>14, <1>15
     DEF Next, OwnerCall, Callback

-----------------------------------------------------------------------------
\* Steps that start no receive and insert no peer.
LEMMA ReceivesShrink ==
  ASSUME ReceivesOnce,
         \A q \in ops' : Receiving(q) => q \in ops,
         \A id \in DOMAIN peers_' : id \in DOMAIN peers_ /\ peers_'[id] = peers_[id],
         running' \in {running, None}
  PROVE  ReceivesOnce'
<1>1. \A id, s : NodeAlive(id, s)' => NodeAlive(id, s) BY DEF NodeAlive
<1> QED BY <1>1 DEF ReceivesOnce

LEMMA ReceivesInsert ==
  ASSUME SocketsOK, ReceivesOnce, NEW o \in ops, NEW id, Entitled(o, id), NEW m,
         peers_' = Insert(peers_, id, o.sock), id \notin DOMAIN peers_,
         ops' = (ops \ {o}) \cup {ReceiveOp(o.sock, id, m)},
         running = None, running' = None
  PROVE  ReceivesOnce'
<1> DEFINE new == ReceiveOp(o.sock, id, m)
<1>1. new.sock = o.sock /\ new.id = id BY DEF ReceiveOp
<1>2. ops' = (ops \ {o}) \cup {new} OBVIOUS
<1> HIDE DEF new
<1>3. \A q \in ops : Receiving(q) => q.sock # o.sock BY EntitledFacts
<1>4. \A q \in ops : Receiving(q) /\ NodeAlive(q.id, q.sock)' => NodeAlive(q.id, q.sock)
  BY <1>3 DEF NodeAlive, Insert
<1> QED BY <1>1, <1>2, <1>3, <1>4 DEF ReceivesOnce

LEMMA ReceivesStep ==
  ASSUME TypeInv, BeingConnectedHasPending, SocketsOK, ReceivesOnce, [Next]_vars
  PROVE  ReceivesOnce'
<1>1. ASSUME NEW h \in Handler, SetOnReceive(h) PROVE ReceivesOnce'
  BY <1>1, ReceivesShrink DEF SetOnReceive
<1>2. ASSUME NEW assumed \in Assumed, NEW e \in Endpoint, AddNode(assumed, e) PROVE ReceivesOnce'
  <2>1. \A q \in ops' : Receiving(q) => q \in ops
    BY <1>2 DEF AddNode, ConnectOp, Receiving
  <2> QED BY <1>2, <2>1, ReceivesShrink DEF AddNode
<1>3. ASSUME NEW port \in Port, StartAccepting(port) PROVE ReceivesOnce'
  <2>1. \A q \in ops' : Receiving(q) => q \in ops
    BY <1>3 DEF StartAccepting, AcceptOp, Receiving
  <2> QED BY <1>3, <2>1, ReceivesShrink DEF StartAccepting
<1>4. ASSUME NEW id \in Address, DropNode(id) PROVE ReceivesOnce'
  BY <1>4, ReceivesShrink DEF DropNode, Erase, Restrict
<1>5. CASE Shutdown \/ Destroy
  <2>1. CloseAcceptors /\ UNCHANGED running BY <1>5 DEF Shutdown, Destroy
  <2>2. DOMAIN peers_' = {}
    BY <1>5 DEF Shutdown, Destroy, Erase, Restrict, TypeInv, DomainsOK
  <2> QED BY <2>1, <2>2, CloseFacts, ReceivesShrink
<1>8. ASSUME NEW s \in Socket, ConnectDone(s) PROVE ReceivesOnce'
  <2>1. PICK o \in OfKind("connect") : ConnectDone(s)!(o) BY <1>8 DEF ConnectDone
  <2>2. o.kind = "connect" /\ o \in ops BY DEF OfKind
  <2>3. [o EXCEPT !.kind = "exchange"].kind = "exchange"
    BY <2>2, ExchangeFacts DEF TypeInv, OpsOK, Attempt, Receiving
  <2>4. \A q \in ops' : Receiving(q) => q \in ops BY <2>1, <2>3 DEF Receiving
  <2> QED BY <2>1, <2>4, ReceivesShrink
<1>9. ASSUME NEW s \in Socket, ExchangeDone(s) PROVE ReceivesOnce'
  <2>1. PICK o \in OfKind("exchange") : ExchangeDone(s)!(o) BY <1>9 DEF ExchangeDone
  <2>2. CASE ops' = ops \ {o} /\ UNCHANGED peers_ BY <2>1, <2>2, ReceivesShrink
  <2>3. CASE Alive(s) /\ ~IsManaged(IdAt[o.ep]) /\ InsertPeer(IdAt[o.ep], s, o)
    <3> DEFINE id == IdAt[o.ep]
    <3>1. o \in ops /\ Entitled(o, id) BY <2>1, <2>3, ExchangeInserts
    <3>2. id \notin DOMAIN peers_ /\ peers_' = Insert(peers_, id, o.sock)
      BY <2>1, <2>3 DEF InsertPeer, IsManaged
    <3>3. ops' = (ops \ {o}) \cup {ReceiveOp(o.sock, id, Unused(s))}
      BY <2>1, <2>3 DEF InsertPeer, IsManaged
    <3> HIDE DEF id
    <3> QED BY <2>1, <3>1, <3>2, <3>3, ReceivesInsert
  <2> QED BY <2>1, <2>2, <2>3 DEF InsertPeer
<1>10. ASSUME NEW s \in Socket, AcceptDone(s) PROVE ReceivesOnce'
  <2>1. PICK o \in OfKind("accept") : AcceptDone(s)!(o) BY <1>10 DEF AcceptDone
  <2>2. \A q \in ops' : Receiving(q) => q \in ops BY <2>1 DEF AcceptOp, HelloOp, Receiving
  <2> QED BY <2>1, <2>2, ReceivesShrink
<1>11. ASSUME NEW s \in Socket, HelloDone(s) PROVE ReceivesOnce'
  <2>1. PICK o \in OfKind("hello") : HelloDone(s)!(o) BY <1>11 DEF HelloDone
  <2>2. CASE ops' = ops \ {o} /\ UNCHANGED peers_ BY <2>1, <2>2, ReceivesShrink
  <2>3. ASSUME NEW id \in Address, ~IsManaged(id), InsertPeer(id, s, o) PROVE ReceivesOnce'
    BY <2>1, <2>3, HelloInserts, ReceivesInsert DEF InsertPeer, IsManaged
  <2> QED BY <2>1, <2>2, <2>3 DEF InsertPeer
<1>12. ASSUME NEW s \in Socket, ReceiveDone(s) PROVE ReceivesOnce'
  <2>1. PICK o \in OfKind("receive") : ReceiveDone(s)!(o) BY <1>12 DEF ReceiveDone
  <2>2. CASE UNCHANGED running BY <2>1, <2>2, ReceivesShrink
  <2>3. CASE NodeAlive(o.id, s) /\ running' = [id |-> o.id, sock |-> s, h |-> on_receive_]
    <3>1. o \in ops /\ Receiving(o) /\ o.sock = s BY <2>1 DEF OfKind, Receiving
    <3>2. running'.sock = s BY <2>3
    <3>3. \A id, r : NodeAlive(id, r)' <=> NodeAlive(id, r) BY <2>1 DEF NodeAlive
    <3>4. \A q \in ops' : q \in ops /\ q # o BY <2>1
    <3> QED BY <2>3, <3>1, <3>2, <3>3, <3>4 DEF ReceivesOnce
  <2> QED BY <2>1, <2>2, <2>3
<1>13. CASE HandlerReturns
  <2>1. CASE UNCHANGED ops BY <1>13, <2>1, ReceivesShrink DEF HandlerReturns
  <2>2. CASE /\ NodeAlive(running.id, running.sock)
             /\ ops' = ops \cup {ReceiveOp(running.sock, running.id, Unused(running.sock))}
    <3> DEFINE new == ReceiveOp(running.sock, running.id, Unused(running.sock))
    <3>1. new.sock = running.sock BY DEF ReceiveOp
    <3>2. ops' = ops \cup {new} BY <2>2
    <3> HIDE DEF new
    <3>3. running # None /\ running' = None BY <1>13 DEF HandlerReturns
    <3>4. \A id, r : NodeAlive(id, r)' <=> NodeAlive(id, r)
      BY <1>13 DEF HandlerReturns, NodeAlive
    <3> QED BY <2>2, <3>1, <3>2, <3>3, <3>4 DEF ReceivesOnce
  <2> QED BY <1>13, <2>1, <2>2 DEF HandlerReturns
<1>14. CASE HandlerThrows BY <1>14, ReceivesShrink DEF HandlerThrows
<1>15. CASE UNCHANGED vars BY <1>15, ReceivesShrink DEF vars
<1> QED
  BY <1>1, <1>2, <1>3, <1>4, <1>5, <1>8, <1>9, <1>10, <1>11, <1>12, <1>13, <1>14, <1>15
     DEF Next, OwnerCall, Callback

\* The handlers that are set and run are handlers of the owner.
HandlersOK ==
  /\ on_receive_ \in Handler \cup {None}
  /\ running \in [id : Address, sock : Socket, h : Handler] \cup {None}

LEMMA HandlersStep == ASSUME TypeInv, HandlersOK, [Next]_vars PROVE HandlersOK'
<1> USE DEF HandlersOK
<1>1. ASSUME NEW h \in Handler, SetOnReceive(h) PROVE HandlersOK' BY <1>1 DEF SetOnReceive
<1>2. CASE UNCHANGED <<on_receive_, running>> BY <1>2
<1>3. CASE Destroy BY <1>3 DEF Destroy
<1>4. ASSUME NEW s \in Socket, ReceiveDone(s) PROVE HandlersOK'
  <2>1. PICK o \in OfKind("receive") : ReceiveDone(s)!(o) BY <1>4 DEF ReceiveDone
  <2> QED BY <2>1 DEF NodeAlive, TypeInv, DomainsOK
<1>5. CASE HandlerReturns BY <1>5 DEF HandlerReturns
<1>6. CASE HandlerThrows BY <1>6 DEF HandlerThrows
<1> QED
  BY <1>1, <1>2, <1>3, <1>4, <1>5, <1>6
     DEF Next, OwnerCall, Callback, AddNode, StartAccepting, DropNode, Shutdown, ConnectDone,
         ExchangeDone, AcceptDone, HelloDone, vars

LEMMA AlwaysIInv == Spec => [](IInv /\ HandlersOK)
<1>1. Init => IInv /\ HandlersOK BY InitIInv DEF Init, HandlersOK
<1>2. IInv /\ HandlersOK /\ [Next]_vars => (IInv /\ HandlersOK)'
  BY TypeStep, PendingStep, SocketsStep, ReceivesStep, HandlersStep DEF IInv
<1> QED BY <1>1, <1>2, PTL DEF Spec

\* However many calls share an attempt, and however its connect and its exchanges
\* end, an endpoint in being_connected_ has an operation outstanding on its socket
\* (AddNode, connection_manager.cc:132-182).
THEOREM BeingConnectedCorrect == Spec => []BeingConnectedHasPending
BY AlwaysIInv, PTL DEF IInv

\* A destroyed manager is not touched by any of the callbacks that come later: the
\* guards they captured tell them (connection_manager.cc:105, 118, 150, 162, 205, 216).
THEOREM DestroyedCorrect == Spec => DestroyedIsUntouched
<1>1. IInv /\ [Next]_vars =>
        [destroyed => UNCHANGED <<being_connected_, peers_, acceptors_, on_receive_>>]_vars
  <2> SUFFICES ASSUME IInv, Next, destroyed
               PROVE  UNCHANGED <<being_connected_, peers_, acceptors_, on_receive_>>
    OBVIOUS
  <2>1. DOMAIN being_connected_ = {} /\ DOMAIN peers_ = {} BY DEF IInv, TypeInv, DomainsOK
  <2>2. \A s : ~Alive(s) BY <2>1 DEF Alive, Range
  <2>3. \A id, s : ~NodeAlive(id, s) BY <2>1 DEF NodeAlive
  <2>4. ~OwnerCall
    BY DEF OwnerCall, SetOnReceive, AddNode, StartAccepting, DropNode, Shutdown, Destroy
  <2>5. ASSUME NEW s \in Socket, Callback(s)
        PROVE  UNCHANGED <<being_connected_, peers_, acceptors_, on_receive_>>
    BY <2>2, <2>3, <2>5
       DEF Callback, ConnectDone, ExchangeDone, AcceptDone, HelloDone, ReceiveDone
  <2> QED BY <2>3, <2>4, <2>5 DEF Next, HandlerReturns, HandlerThrows
<1> QED BY <1>1, AlwaysIInv, PTL DEF Spec, DestroyedIsUntouched

\* What Shutdown let go of never becomes a peer, although several attempts may
\* share its socket and their exchanges may have succeeded
\* (connection_manager.cc:160-181, connection_manager.h:145-149).
THEOREM ShutdownCorrect == Spec => ShutdownCancels
<1> DEFINE A == \A id \in DOMAIN peers_' \ DOMAIN peers_ :
                  peers_'[id] \in Range(being_connected_) \cup {o.sock : o \in OfKind("hello")}
<1>1. IInv /\ [Next]_vars => [A]_vars
  <2> SUFFICES ASSUME IInv, Next PROVE A OBVIOUS
  <2>1. CASE DOMAIN peers_' \subseteq DOMAIN peers_ BY <2>1
  <2>2. ASSUME NEW s \in Socket, ExchangeDone(s) PROVE A
    <3>1. PICK o \in OfKind("exchange") : ExchangeDone(s)!(o) BY <2>2 DEF ExchangeDone
    <3>2. CASE UNCHANGED peers_ BY <3>2
    <3>3. CASE Alive(s) /\ ~IsManaged(IdAt[o.ep]) /\ InsertPeer(IdAt[o.ep], s, o)
      <4>1. Entitled(o, IdAt[o.ep]) /\ Attempt(o) BY <3>1, <3>3, ExchangeInserts DEF IInv
      <4>2. o.sock \in Range(being_connected_)
        BY <4>1 DEF Entitled, Range, Attempt, Accepting
      <4>3. peers_' = Insert(peers_, IdAt[o.ep], o.sock) BY <3>1, <3>3 DEF InsertPeer
      <4> QED BY <4>2, <4>3 DEF Insert
    <3> QED BY <3>1, <3>2, <3>3 DEF InsertPeer
  <2>3. ASSUME NEW s \in Socket, HelloDone(s) PROVE A
    <3>1. PICK o \in OfKind("hello") : HelloDone(s)!(o) BY <2>3 DEF HelloDone
    <3>2. CASE UNCHANGED peers_ BY <3>2
    <3>3. ASSUME NEW id \in Address, InsertPeer(id, s, o) PROVE A
      <4>1. o.sock \in {q.sock : q \in OfKind("hello")} BY <3>1
      <4>2. CASE peers_' = Insert(peers_, id, o.sock) BY <4>1, <4>2 DEF Insert
      <4> QED BY <3>1, <3>2, <3>3, <4>2 DEF InsertPeer
    <3> QED BY <3>1, <3>2, <3>3
  <2>4. CASE \E id \in Address : DropNode(id) BY <2>1, <2>4 DEF DropNode, Erase, Restrict
  <2>5. CASE Shutdown \/ Destroy BY <2>1, <2>5 DEF Shutdown, Destroy, Erase, Restrict
  <2> QED
    BY <2>1, <2>2, <2>3, <2>4, <2>5
       DEF Next, OwnerCall, Callback, SetOnReceive, AddNode, StartAccepting, ConnectDone,
           AcceptDone, ReceiveDone, HandlerReturns, HandlerThrows
<1> QED BY <1>1, AlwaysIInv, PTL DEF Spec, ShutdownCancels

\* The receive_buffer_ of a peer is used by one receive or one handler at a time,
\* whichever of several connections to the node became the peer
\* (connection_manager.cc:184-223).
THEOREM OneReceiveCorrect == Spec => []OneReceivePerPeer
<1>1. IInv => OneReceivePerPeer
  <2> SUFFICES ASSUME IInv, NEW s \in Socket
               PROVE  Cardinality({o \in OfKind("receive") : o.sock = s /\ NodeAlive(o.id, s)})
                        + (IF running # None /\ running.sock = s /\ NodeAlive(running.id, s)
                           THEN 1 ELSE 0) <= 1
    BY DEF OneReceivePerPeer
  <2> DEFINE R == {o \in OfKind("receive") : o.sock = s /\ NodeAlive(o.id, s)}
  <2>1. CASE R = {} BY <2>1, FS_EmptySet
  <2>2. CASE R # {}
    <3>1. PICK o \in R : TRUE BY <2>2
    <3>2. o \in ops /\ Receiving(o) /\ o.sock = s /\ NodeAlive(o.id, o.sock)
      BY <3>1 DEF OfKind, Receiving
    <3>3. \A q \in R : q \in ops /\ Receiving(q) /\ q.sock = s /\ NodeAlive(q.id, q.sock)
      BY DEF OfKind, Receiving
    <3>4. R = {o} BY <3>1, <3>2, <3>3 DEF IInv, ReceivesOnce
    <3>5. Cardinality(R) = 1 BY <3>4, FS_Singleton
    <3>6. ~(running # None /\ running.sock = s /\ NodeAlive(running.id, s))
      BY <3>2 DEF IInv, ReceivesOnce
    <3> QED BY <3>5, <3>6
  <2> QED BY <2>1, <2>2
<1> QED BY <1>1, AlwaysIInv, PTL

\* The receive handler is lost only when it throws or drops its own peer and sets
\* no other, or with the manager (connection_manager.cc:209-221).
THEOREM HandlerCorrect == Spec => ReceiveHandlerKept
<1> DEFINE A == HandlerHeld /\ ~HandlerHeld' =>
                  destroyed' \/ HandlerThrows \/ ~NodeAlive(running.id, running.sock)
<1>1. IInv /\ HandlersOK /\ [Next]_vars => [A]_vars
  <2> SUFFICES ASSUME IInv, HandlersOK, Next PROVE A OBVIOUS
  <2>1. CASE UNCHANGED <<on_receive_, running>> BY <2>1 DEF HandlerHeld
  <2>2. ASSUME NEW h \in Handler, SetOnReceive(h) PROVE A
    BY <2>2, ConnectionManagerAssumption DEF SetOnReceive, HandlerHeld
  <2>3. CASE Destroy BY <2>3 DEF Destroy
  <2>4. ASSUME NEW s \in Socket, ReceiveDone(s) PROVE A
    <3>1. PICK o \in OfKind("receive") : ReceiveDone(s)!(o) BY <2>4 DEF ReceiveDone
    <3>2. CASE NodeAlive(o.id, s) /\ on_receive_ # None
               /\ running' = [id |-> o.id, sock |-> s, h |-> on_receive_]
      <4>1. running' \in [id : Address, sock : Socket, h : Handler]
        BY <3>2 DEF HandlersOK, NodeAlive, IInv, TypeInv, DomainsOK
      <4> QED BY <4>1, ConnectionManagerAssumption DEF HandlerHeld, Socket
    <3> QED BY <2>1, <3>1, <3>2
  <2>5. CASE HandlerReturns
    BY <2>5, ConnectionManagerAssumption DEF HandlerReturns, HandlerHeld, HandlersOK
  <2>6. CASE HandlerThrows BY <2>6
  <2> QED
    BY <2>1, <2>2, <2>3, <2>4, <2>5, <2>6
       DEF Next, OwnerCall, Callback, AddNode, StartAccepting, DropNode, Shutdown, ConnectDone,
           ExchangeDone, AcceptDone, HelloDone
<1> QED BY <1>1, AlwaysIInv, PTL DEF Spec, ReceiveHandlerKept
=============================================================================
