----------------------------- MODULE AsyncExchange -----------------------------
(***************************************************************************)
(* AsyncExchange (async_exchange.h): the two ends of every connection send *)
(* each other their identity.  An end starts a send and a receive at once; *)
(* the two completions come in either order, share state->first_error, and *)
(* the second to come calls the handler.                                   *)
(*                                                                         *)
(* The socket is crux's: a send completes with or without an error; a      *)
(* receive completes with the peer's datagram once it has arrived, or with *)
(* an error at any time.  A datagram may be lost.  ConnectionPair makes    *)
(* the exchanges of two ConnectionManagers of these steps.                 *)
(***************************************************************************)
EXTENDS Naturals, Sequences

CONSTANTS
  End,       \* the ends of the connections
  Peer,      \* Peer[e]: the other end of the connection of e
  None,      \* boost::none, and no data
  Ok, Failed \* error codes

ASSUME EndAssumption ==
  /\ Peer \in [End -> End]
  /\ \A e \in End : Peer[e] # e /\ Peer[Peer[e]] = e
  /\ Ok # Failed /\ None \notin {Ok, Failed} \cup End
  /\ {Ok, Failed} \cap {"idle", "pending"} = {}

VARIABLES
  send,         \* send[e]: async_send "idle", "pending", or its error code
  receive,      \* receive[e]: async_receive, likewise
  arrived,      \* arrived[e]: the peer's datagram is at e's socket
  first_error,  \* state->first_error of e's exchange
  rx_buffer,    \* state->rx_buffer: whose identity it starts with, and whether it was
                \* resized to the bytes received
  calls         \* calls[e]: the handler calls of e's exchange, in order

vars == <<send, receive, arrived, first_error, rx_buffer, calls>>

Error == {Ok, Failed}

\* A buffer that holds no identity, and the empty SerialisedMessage().
NoData == [owner |-> None, resized |-> FALSE]

Init ==
  /\ send = [e \in End |-> "idle"]
  /\ receive = [e \in End |-> "idle"]
  /\ arrived = [e \in End |-> FALSE]
  /\ first_error = [e \in End |-> None]
  /\ rx_buffer = [e \in End |-> NoData]
  /\ calls = [e \in End |-> <<>>]

Start(e) ==
  /\ send[e] = "idle"
  /\ send' = [send EXCEPT ![e] = "pending"]
  /\ receive' = [receive EXCEPT ![e] = "pending"]
  /\ UNCHANGED <<arrived, first_error, rx_buffer, calls>>

\* Mutant: only the second completion's own error is looked at.
CompletionOwnError(e, error, buffer) ==
  IF first_error[e] # None
  THEN /\ calls' = [calls EXCEPT ![e] = Append(@,
            IF error = Failed THEN [error |-> Failed, data |-> NoData]
            ELSE [error |-> Ok, data |-> buffer])]
       /\ UNCHANGED first_error
  ELSE first_error' = [first_error EXCEPT ![e] = error] /\ UNCHANGED calls

\* Mutant: an error is reported as soon as it is known, and again by the second.
CompletionEager(e, error, buffer) ==
  IF first_error[e] # None \/ error = Failed
  THEN /\ calls' = [calls EXCEPT ![e] = Append(@,
            IF first_error[e] = Failed \/ error = Failed THEN [error |-> Failed, data |-> NoData]
            ELSE [error |-> Ok, data |-> buffer])]
       /\ first_error' = [first_error EXCEPT ![e] = error]
  ELSE first_error' = [first_error EXCEPT ![e] = error] /\ UNCHANGED calls

\* What the two completion callbacks share: the first to come leaves its error
\* for the second, which calls the handler.
Completion(e, error, buffer) ==
  IF first_error[e] # None
  THEN /\ calls' = [calls EXCEPT ![e] = Append(@,
            IF first_error[e] = Failed \/ error = Failed
            THEN [error |-> Failed, data |-> NoData]
            ELSE [error |-> Ok, data |-> buffer])]
       /\ UNCHANGED first_error
  ELSE first_error' = [first_error EXCEPT ![e] = error] /\ UNCHANGED calls

SendDone(e, error, reaches) ==
  /\ send[e] = "pending"
  /\ reaches => error = Ok
  /\ send' = [send EXCEPT ![e] = error]
  /\ arrived' = [arrived EXCEPT ![Peer[e]] = @ \/ reaches]
  /\ Completion(e, error, rx_buffer[e])
  /\ UNCHANGED <<receive, rx_buffer>>

\* The socket writes the datagram into rx_buffer before the callback runs; the
\* callback resizes the buffer only when it comes second and both succeeded.
ReceiveDone(e, error) ==
  /\ receive[e] = "pending"
  /\ error = Ok => arrived[e]
  /\ receive' = [receive EXCEPT ![e] = error]
  /\ rx_buffer' = [rx_buffer EXCEPT ![e] =
       IF error = Ok THEN [owner |-> Peer[e], resized |-> first_error[e] = Ok] ELSE @]
  /\ Completion(e, error, rx_buffer'[e])
  /\ UNCHANGED <<send, arrived>>

Next ==
  \E e \in End :
    \/ Start(e)
    \/ \E error \in Error, reaches \in BOOLEAN : SendDone(e, error, reaches)
    \/ \E error \in Error : ReceiveDone(e, error)

Spec == Init /\ [][Next]_vars
-----------------------------------------------------------------------------
Completed(op) == op \in Error

\* The handler is called exactly once, when the later of the two completions
\* comes, whichever it is: connection_manager.cc and connections.h insert a
\* peer in it.
HandlerCalledOnce ==
  \A e \in End :
    Len(calls[e]) = IF Completed(send[e]) /\ Completed(receive[e]) THEN 1 ELSE 0

\* The handler hears of success, with the peer's identity, exactly when both
\* operations succeeded: an error of the first to complete is not lost.
SuccessMeansBoth ==
  \A e \in End : \A i \in DOMAIN calls[e] :
    IF send[e] = Ok /\ receive[e] = Ok
    THEN calls[e][i].error = Ok /\ calls[e][i].data.owner = Peer[e]
    ELSE calls[e][i] = [error |-> Failed, data |-> NoData]
=============================================================================
