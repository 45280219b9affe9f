------------------------------ MODULE AsyncProofs ------------------------------
(***************************************************************************)
(* Proofs about the two asynchronous building blocks and the pair of nodes *)
(* that is made of one of them: AsyncQueue, for any threads and any number *)
(* of calls; AsyncExchange, for any number of ends; and ConnectionPair,    *)
(* for any number of connections.                                          *)
(***************************************************************************)
EXTENDS AsyncQueue, ConnectionPair, SequenceTheorems, TLAPS

-----------------------------------------------------------------------------
(***************************************************************************)
(* The queue.  The invariant says that the two queues are consecutive call *)
(* numbers that start after the pairs already made, and that a pair taken  *)
(* out of the queues is held by one thread until its handler has run.      *)
(***************************************************************************)

\* The number of pairs taken out of the queues so far.
Matched == pushed - Len(values)

Consecutive(q, m) == \A i \in 1..Len(q) : q[i] = m + i

Queues ==
  /\ Len(values) <= pushed
  /\ Matched = popped - Len(handlers)
  /\ NeverBothWaiting
  /\ Consecutive(values, Matched)
  /\ Consecutive(handlers, Matched)

Held ==
  /\ \A t \in Thread : call[t] # <<>> =>
       /\ call[t][1] = call[t][2]
       /\ call[t][1] <= Matched
       /\ got[call[t][1]] = <<>>
  /\ \A t, u \in Thread :
       t # u /\ call[t] # <<>> /\ call[u] # <<>> => call[t][1] # call[u][1]
  /\ \A n \in 1..MaxOps : n > Matched => got[n] = <<>>

IInv == TypeOK /\ Queues /\ Held
-----------------------------------------------------------------------------
\* What a call adds at the back of a queue is the next call number.
LEMMA ConsecutiveAppend ==
  ASSUME NEW m \in Nat, NEW q \in Seq(1..MaxOps), NEW e \in 1..MaxOps,
         Consecutive(q, m), e = m + Len(q) + 1
  PROVE  /\ Append(q, e) \in Seq(1..MaxOps)
         /\ Len(Append(q, e)) = Len(q) + 1
         /\ Consecutive(Append(q, e), m)
<1> DEFINE r == Append(q, e)
<1>1. /\ r \in Seq(1..MaxOps)
      /\ Len(r) = Len(q) + 1
      /\ \A i \in 1..Len(q) : r[i] = q[i]
      /\ r[Len(q) + 1] = e
  BY AppendProperties
<1>2. Len(q) \in Nat BY LenProperties
<1> HIDE DEF r
<1>3. Consecutive(r, m) BY <1>1, <1>2 DEF Consecutive
<1> QED BY <1>1, <1>3 DEF r

\* What a call takes from the front of a queue is the number after the last
\* pair made.
LEMMA ConsecutiveTail ==
  ASSUME NEW m \in Nat, NEW q \in Seq(1..MaxOps), q # <<>>, Consecutive(q, m)
  PROVE  /\ Head(q) = m + 1
         /\ Head(q) \in 1..MaxOps
         /\ Tail(q) \in Seq(1..MaxOps)
         /\ Len(Tail(q)) = Len(q) - 1
         /\ Len(q) >= 1
         /\ Consecutive(Tail(q), m + 1)
<1> DEFINE r == Tail(q)
<1>1. /\ Head(q) \in 1..MaxOps
      /\ r \in Seq(1..MaxOps)
      /\ Len(r) = Len(q) - 1
      /\ \A i \in 1..Len(r) : r[i] = q[i + 1]
  BY HeadTailProperties, Zenon
<1>2. Len(q) \in Nat \ {0} BY EmptySeq
<1>3. Head(q) = q[1] BY <1>2
<1> HIDE DEF r
<1>4. Consecutive(r, m + 1) BY <1>1, <1>2 DEF Consecutive
<1>5. q[1] = m + 1 BY <1>2 DEF Consecutive
<1> QED BY <1>1, <1>2, <1>3, <1>4, <1>5 DEF r

\* The numbers the invariant speaks of are naturals.
LEMMA Counts ==
  ASSUME TypeOK, Queues
  PROVE  Matched \in Nat /\ Len(values) \in Nat /\ Len(handlers) \in Nat
<1>1. Len(values) \in Nat /\ Len(handlers) \in Nat BY LenProperties DEF TypeOK
<1> QED BY <1>1, MaxOpsAssumption DEF TypeOK, Queues, Matched
-----------------------------------------------------------------------------
\* The first call finds both queues empty and nothing held.
LEMMA InitIInv == QueueInit => IInv
  BY MaxOpsAssumption
     DEF QueueInit, IInv, TypeOK, Queues, Held, Matched, NeverBothWaiting, Consecutive

\* A call that takes the next pair out of the queues holds it alone.
LEMMA TakePair ==
  ASSUME TypeOK, Held, NEW t \in Thread, call[t] = <<>>, Matched \in Nat,
         Matched + 1 <= MaxOps, Matched' = Matched + 1, got' = got,
         call' = [call EXCEPT ![t] = <<Matched + 1, Matched + 1>>]
  PROVE  Held'
<1> DEFINE m == Matched
<1>1. /\ call'[t] = <<m + 1, m + 1>>
      /\ \A u \in Thread : u # t => call'[u] = call[u]
  BY DEF TypeOK
<1>2. m + 1 \in 1..MaxOps /\ got[m + 1] = <<>> BY MaxOpsAssumption DEF Held
<1>3. ASSUME NEW u \in Thread, call'[u] # <<>>
      PROVE  /\ call'[u][1] = call'[u][2]
             /\ call'[u][1] <= m + 1
             /\ got[call'[u][1]] = <<>>
  <2>1. CASE u = t BY <1>1, <1>2, <2>1
  <2>2. CASE u # t
    <3>1. call'[u] = call[u] /\ call[u] # <<>> BY <1>1, <1>3, <2>2
    <3>2. call[u][1] \in 1..MaxOps BY <3>1 DEF TypeOK
    <3> QED BY <3>1, <3>2, MaxOpsAssumption DEF Held
  <2> QED BY <2>1, <2>2
<1>4. ASSUME NEW u \in Thread, u # t, call[u] # <<>> PROVE call[u][1] # m + 1
  <2>1. call[u][1] <= m /\ call[u][1] \in 1..MaxOps BY <1>4 DEF Held, TypeOK
  <2> QED BY <2>1
<1>5. ASSUME NEW u \in Thread, NEW w \in Thread, u # w, call'[u] # <<>>, call'[w] # <<>>
      PROVE  call'[u][1] # call'[w][1]
  <2>1. CASE u = t BY <1>1, <1>4, <1>5, <2>1
  <2>2. CASE w = t BY <1>1, <1>4, <1>5, <2>2
  <2>3. CASE u # t /\ w # t BY <1>1, <1>5, <2>3 DEF Held
  <2> QED BY <2>1, <2>2, <2>3
<1>6. \A n \in 1..MaxOps : n > m + 1 => got[n] = <<>> BY MaxOpsAssumption DEF Held
<1> QED BY <1>3, <1>5, <1>6 DEF Held

\* Push keeps the queues consecutive, whether it queues its value or takes the
\* handler at the front.
LEMMA PushIInv == ASSUME IInv, NEW t \in Thread, Push(t) PROVE IInv'
<1> USE MaxOpsAssumption DEF IInv
<1>0. /\ Matched \in Nat /\ Len(values) \in Nat /\ Len(handlers) \in Nat
      /\ pushed \in Nat /\ pushed' = pushed + 1 /\ pushed' \in 1..MaxOps
      /\ popped' = popped /\ got' = got /\ call[t] = <<>>
      /\ values \in Seq(1..MaxOps) /\ handlers \in Seq(1..MaxOps)
  BY Counts DEF Push, TypeOK
<1>1. CASE handlers = <<>> /\ values' = Append(values, pushed') /\ UNCHANGED <<handlers, call>>
  <2>1. pushed' = Matched + Len(values) + 1 BY <1>0 DEF Matched
  <2>2. /\ values' \in Seq(1..MaxOps)
        /\ Len(values') = Len(values) + 1
        /\ Consecutive(values', Matched)
    BY <1>0, <1>1, <2>1, ConsecutiveAppend DEF Queues
  <2>3. Matched' = Matched BY <1>0, <2>2 DEF Matched
  <2>4. TypeOK' BY <1>0, <1>1, <2>2 DEF TypeOK
  <2>5. Queues' BY <1>0, <1>1, <2>2, <2>3 DEF Queues, NeverBothWaiting, Consecutive
  <2>6. Held' BY <1>0, <1>1, <2>3 DEF Held
  <2> QED BY <2>4, <2>5, <2>6
<1>2. CASE /\ handlers # <<>>
           /\ call' = [call EXCEPT ![t] = <<pushed', Head(handlers)>>]
           /\ handlers' = Tail(handlers)
           /\ UNCHANGED values
  <2>1. values = <<>> /\ Len(values) = 0 BY <1>2, EmptySeq DEF Queues, NeverBothWaiting
  <2>2. Matched = pushed BY <1>0, <2>1 DEF Matched
  <2>3. Matched' = Matched + 1 BY <1>0, <1>2, <2>1, <2>2 DEF Matched
  <2>4. /\ Head(handlers) = Matched + 1
        /\ handlers' \in Seq(1..MaxOps)
        /\ Len(handlers') = Len(handlers) - 1
        /\ Consecutive(handlers', Matched + 1)
    BY <1>0, <1>2, ConsecutiveTail DEF Queues
  <2>5. call' = [call EXCEPT ![t] = <<Matched + 1, Matched + 1>>] BY <1>0, <1>2, <2>2, <2>4, Zenon
  <2>6. <<Matched + 1, Matched + 1>> \in (1..MaxOps) \X (1..MaxOps) BY <1>0, <2>2
  <2>7. TypeOK' BY <1>0, <1>2, <2>4, <2>5, <2>6 DEF TypeOK
  <2>8. Matched' = popped' - Len(handlers')
    BY <1>0, <2>3, <2>4 DEF Queues, TypeOK
  <2>9. Queues'
    BY <1>0, <1>2, <2>1, <2>3, <2>4, <2>8 DEF Queues, NeverBothWaiting, Consecutive
  <2>10. Matched + 1 <= MaxOps BY <1>0, <2>2
  <2>11. Held' BY <1>0, <2>3, <2>5, <2>10, TakePair, Zenon
  <2> QED BY <2>7, <2>9, <2>11
<1> QED BY <1>1, <1>2 DEF Push

\* AsyncPop keeps the queues consecutive, whether it queues its handler or takes
\* the value at the front.
LEMMA AsyncPopIInv == ASSUME IInv, NEW t \in Thread, AsyncPop(t) PROVE IInv'
<1> USE MaxOpsAssumption DEF IInv
<1>0. /\ Matched \in Nat /\ Len(values) \in Nat /\ Len(handlers) \in Nat
      /\ pushed \in Nat /\ popped \in Nat /\ popped' = popped + 1 /\ popped' \in 1..MaxOps
      /\ pushed' = pushed /\ got' = got /\ call[t] = <<>>
      /\ values \in Seq(1..MaxOps) /\ handlers \in Seq(1..MaxOps)
      /\ Matched = popped - Len(handlers)
  BY Counts DEF AsyncPop, TypeOK, Queues
<1>1. CASE values = <<>> /\ handlers' = Append(handlers, popped') /\ UNCHANGED <<values, call>>
  <2>1. popped' = Matched + Len(handlers) + 1 BY <1>0
  <2>2. /\ handlers' \in Seq(1..MaxOps)
        /\ Len(handlers') = Len(handlers) + 1
        /\ Consecutive(handlers', Matched)
    BY <1>0, <1>1, <2>1, ConsecutiveAppend DEF Queues
  <2>3. Matched' = Matched BY <1>0, <1>1 DEF Matched
  <2>4. TypeOK' BY <1>0, <1>1, <2>2 DEF TypeOK
  <2>5. Queues' BY <1>0, <1>1, <2>2, <2>3 DEF Queues, NeverBothWaiting, Consecutive
  <2>6. Held' BY <1>0, <1>1, <2>3 DEF Held
  <2> QED BY <2>4, <2>5, <2>6
<1>2. CASE /\ values # <<>>
           /\ call' = [call EXCEPT ![t] = <<Head(values), popped'>>]
           /\ values' = Tail(values)
           /\ UNCHANGED handlers
  <2>1. handlers = <<>> /\ Len(handlers) = 0 BY <1>2, EmptySeq DEF Queues, NeverBothWaiting
  <2>2. Matched = popped BY <1>0, <2>1
  <2>3. /\ Head(values) = Matched + 1
        /\ values' \in Seq(1..MaxOps)
        /\ Len(values') = Len(values) - 1
        /\ Len(values) >= 1
        /\ Consecutive(values', Matched + 1)
    BY <1>0, <1>2, ConsecutiveTail DEF Queues
  <2>4. Matched' = Matched + 1 BY <1>0, <2>3 DEF Matched
  <2>5. call' = [call EXCEPT ![t] = <<Matched + 1, Matched + 1>>] BY <1>0, <1>2, <2>2, <2>3, Zenon
  <2>6. <<Matched + 1, Matched + 1>> \in (1..MaxOps) \X (1..MaxOps) BY <1>0, <2>2
  <2>7. TypeOK'
    <3>1. call' \in [Thread -> {<<>>} \cup ((1..MaxOps) \X (1..MaxOps))]
      BY <2>5, <2>6 DEF TypeOK
    <3>2. values' \in Seq(1..MaxOps) /\ handlers' \in Seq(1..MaxOps) BY <1>0, <1>2, <2>3
    <3> QED BY <1>0, <3>1, <3>2 DEF TypeOK
  <2>8. Len(values') <= pushed' BY <1>0, <2>3 DEF Queues
  <2>9. Queues'
    BY <1>0, <1>2, <2>1, <2>2, <2>3, <2>4, <2>8 DEF Queues, NeverBothWaiting, Consecutive
  <2>10. Matched + 1 <= MaxOps BY <1>0, <2>2
  <2>11. Held' BY <1>0, <2>4, <2>5, <2>10, TakePair, Zenon
  <2> QED BY <2>7, <2>9, <2>11
<1> QED BY <1>1, <1>2 DEF AsyncPop

\* Running the held handler releases its pair, which no other thread holds.
LEMMA RunHandlerIInv == ASSUME IInv, NEW t \in Thread, RunHandler(t) PROVE IInv'
<1> USE MaxOpsAssumption DEF IInv
<1> DEFINE n == call[t][1]
<1>1. /\ n \in 1..MaxOps /\ call[t][2] = n /\ n <= Matched /\ got[n] = <<>>
  BY DEF RunHandler, TypeOK, Held
<1>2. /\ got' = [got EXCEPT ![n] = Append(@, n)]
      /\ call' = [call EXCEPT ![t] = <<>>]
      /\ UNCHANGED <<handlers, values, pushed, popped>>
  BY <1>1 DEF RunHandler
<1> HIDE DEF n
<1>3. Append(got[n], n) \in Seq(1..MaxOps) BY <1>1, AppendProperties DEF TypeOK
<1>4. TypeOK' BY <1>1, <1>2, <1>3 DEF TypeOK
<1>5. Queues' BY <1>2 DEF Queues, Matched, NeverBothWaiting, Consecutive
<1>6. Matched' = Matched /\ Matched \in Nat BY <1>2, Counts DEF Matched
<1>7. /\ call'[t] = <<>>
      /\ \A u \in Thread : u # t => call'[u] = call[u]
      /\ \A k \in 1..MaxOps : k # n => got'[k] = got[k]
  BY <1>1, <1>2 DEF TypeOK
<1>8. ASSUME NEW u \in Thread, call'[u] # <<>>
      PROVE  /\ call'[u][1] = call'[u][2]
             /\ call'[u][1] <= Matched
             /\ got'[call'[u][1]] = <<>>
  <2>1. u # t /\ call'[u] = call[u] BY <1>7, <1>8
  <2>2. call[u][1] # n BY <1>8, <2>1 DEF n, RunHandler, Held
  <2>3. call[u][1] \in 1..MaxOps BY <1>8, <2>1 DEF TypeOK
  <2> QED BY <1>7, <1>8, <2>1, <2>2, <2>3 DEF Held
<1>9. \A u, w \in Thread :
        u # w /\ call'[u] # <<>> /\ call'[w] # <<>> => call'[u][1] # call'[w][1]
  BY <1>7 DEF Held
<1>10. \A k \in 1..MaxOps : k > Matched => got'[k] = <<>> BY <1>1, <1>6, <1>7 DEF Held
<1>11. Held' BY <1>6, <1>8, <1>9, <1>10 DEF Held
<1> QED BY <1>4, <1>5, <1>11
-----------------------------------------------------------------------------
\* The invariant holds of every reachable state.
LEMMA AlwaysIInv == QueueSpec => []IInv
<1>1. IInv /\ [QueueNext]_queueVars => IInv'
  <2>1. CASE UNCHANGED queueVars
    BY <2>1 DEF IInv, TypeOK, Queues, Held, Matched, NeverBothWaiting, Consecutive, queueVars
  <2> QED BY <2>1, PushIInv, AsyncPopIInv, RunHandlerIInv DEF QueueNext
<1> QED BY <1>1, InitIInv, PTL DEF QueueSpec

\* No value waits while a handler waits (async_queue.h, Push and AsyncPop), for
\* any threads and any number of calls.
THEOREM NeverBothWaitingCorrect == QueueSpec => [](TypeOK /\ NeverBothWaiting)
<1>1. IInv => TypeOK /\ NeverBothWaiting BY DEF IInv, Queues
<1> QED BY <1>1, AlwaysIInv, PTL

\* AsyncQueue implements the rendezvous: the n-th handler given to AsyncPop is
\* run at most once, with the n-th value pushed, for any threads and any
\* number of calls.
THEOREM ImplementsRendezvous == QueueSpec => Implements
<1>1. QueueInit => Promise!Init BY DEF QueueInit, Promise!Init
<1>2. IInv /\ [QueueNext]_queueVars => [Promise!Next]_(Promise!vars)
  <2> SUFFICES ASSUME IInv, [QueueNext]_queueVars PROVE [Promise!Next]_(Promise!vars)
    OBVIOUS
  <2>1. ASSUME NEW t \in Thread, Push(t) PROVE Promise!Push BY <2>1 DEF Push, Promise!Push
  <2>2. ASSUME NEW t \in Thread, AsyncPop(t) PROVE Promise!AsyncPop
    BY <2>2 DEF AsyncPop, Promise!AsyncPop
  <2>3. ASSUME NEW t \in Thread, RunHandler(t) PROVE \E n \in 1..MaxOps : Promise!Run(n)
    <3> DEFINE n == call[t][1]
    <3>1. /\ n \in 1..MaxOps /\ call[t][2] = n /\ n <= Matched /\ got[n] = <<>>
      BY <2>3 DEF RunHandler, TypeOK, Held, IInv
    <3>2. /\ got' = [got EXCEPT ![n] = Append(@, n)]
          /\ UNCHANGED <<pushed, popped>>
      BY <2>3, <3>1 DEF RunHandler
    <3> HIDE DEF n
    <3>3. Append(<<>>, n) = <<n>> OBVIOUS
    <3>4. got' = [got EXCEPT ![n] = <<n>>] BY <3>1, <3>2, <3>3 DEF IInv, TypeOK
    <3>5. n <= pushed /\ n <= popped
      <4>1. Len(values) \in Nat /\ Len(handlers) \in Nat /\ Matched \in Nat BY Counts DEF IInv
      <4>2. pushed \in Nat /\ popped \in Nat /\ Matched = popped - Len(handlers)
        BY DEF IInv, TypeOK, Queues
      <4> QED BY <3>1, <4>1, <4>2 DEF Matched
    <3>6. Promise!Run(n) BY <3>1, <3>2, <3>4, <3>5 DEF Promise!Run
    <3> QED BY <3>1, <3>6
  <2>4. CASE UNCHANGED queueVars BY <2>4 DEF queueVars, Promise!vars
  <2> QED BY <2>1, <2>2, <2>3, <2>4 DEF QueueNext, Promise!Next
<1> QED BY <1>1, <1>2, AlwaysIInv, PTL DEF QueueSpec, Implements, Promise!Spec

-----------------------------------------------------------------------------
(***************************************************************************)
(* The exchange.                                                           *)
(***************************************************************************)

Data == [owner : End \cup {None}, resized : BOOLEAN]
Call == [error : Error, data : Data]

ExchangeType ==
  /\ send \in [End -> {"idle", "pending"} \cup Error]
  /\ receive \in [End -> {"idle", "pending"} \cup Error]
  /\ arrived \in [End -> BOOLEAN]
  /\ first_error \in [End -> {None} \cup Error]
  /\ rx_buffer \in [End -> Data]
  /\ calls \in [End -> Seq(Call)]

\* What the handler is told when the operations ended with errors s and r.
Told(s, r, buffer) ==
  IF s = Ok /\ r = Ok THEN [error |-> Ok, data |-> buffer] ELSE [error |-> Failed, data |-> NoData]

\* Where the exchange of one end is: first_error is the error of the one
\* operation that has completed, and the handler is called when both have.
EndInv(e) ==
  /\ send[e] = "idle" <=> receive[e] = "idle"
  /\ ~Completed(send[e]) /\ ~Completed(receive[e]) => first_error[e] = None /\ calls[e] = <<>>
  /\ Completed(send[e]) /\ ~Completed(receive[e]) =>
       first_error[e] = send[e] /\ calls[e] = <<>>
  /\ ~Completed(send[e]) /\ Completed(receive[e]) =>
       first_error[e] = receive[e] /\ calls[e] = <<>>
  /\ Completed(send[e]) /\ Completed(receive[e]) =>
       /\ first_error[e] # None
       /\ calls[e] = <<Told(send[e], receive[e], rx_buffer[e])>>
  /\ receive[e] = Ok => rx_buffer[e].owner = Peer[e]

ExchangeInv == ExchangeType /\ \A e \in End : EndInv(e)

LEMMA ExchangeInit == Init => ExchangeInv
<1> SUFFICES ASSUME Init
             PROVE  ExchangeInv
  OBVIOUS
<1>1. NoData \in Data /\ <<>> \in Seq(Call)
  BY DEF NoData, Data
<1>2. ExchangeType
  BY <1>1 DEF Init, ExchangeType
<1>3. ASSUME NEW e \in End
      PROVE  EndInv(e)
  <2>1. /\ send[e] = "idle" /\ receive[e] = "idle" /\ first_error[e] = None
        /\ calls[e] = <<>>
    BY DEF Init
  <2>2. ~Completed("idle") /\ "idle" # Ok
    BY EndAssumption, Zenon DEF Completed, Error
  <2>3. QED
    BY <2>1, <2>2 DEF EndInv
<1>4. QED
  BY <1>2, <1>3 DEF ExchangeInv

\* What the callbacks share, at an end of which one more operation completes.
LEMMA CompletionFacts ==
  ASSUME ExchangeType, NEW e \in End, NEW error \in Error, NEW buffer \in Data,
         Completion(e, error, buffer)
  PROVE  /\ first_error' \in [End -> {None} \cup Error]
         /\ calls' \in [End -> Seq(Call)]
         /\ \A d \in End \ {e} : first_error'[d] = first_error[d] /\ calls'[d] = calls[d]
         /\ first_error[e] = None => first_error'[e] = error /\ calls'[e] = calls[e]
         /\ first_error[e] # None /\ calls[e] = <<>> =>
              first_error'[e] = first_error[e] /\ calls'[e] = <<Told(first_error[e], error, buffer)>>
<1>1. CASE first_error[e] = None
  BY <1>1, Zenon DEF Completion, ExchangeType
<1>2. CASE first_error[e] # None
  <2> DEFINE c == IF first_error[e] = Failed \/ error = Failed
                  THEN [error |-> Failed, data |-> NoData]
                  ELSE [error |-> Ok, data |-> buffer]
  <2>1. calls' = [calls EXCEPT ![e] = Append(@, c)] /\ first_error' = first_error
    BY <1>2 DEF Completion
  <2>2. first_error[e] \in Error
    BY <1>2 DEF ExchangeType
  <2>3. c = Told(first_error[e], error, buffer)
    BY <2>2, EndAssumption DEF Told, Error
  <2>4. c \in Call
    BY EndAssumption DEF Call, Data, NoData, Error
  <2> HIDE DEF c
  <2>5. calls' \in [End -> Seq(Call)]
    BY <2>1, <2>4 DEF ExchangeType
  <2>6. calls[e] = <<>> => calls'[e] = <<c>>
    BY <2>1, <2>4 DEF ExchangeType
  <2>7. QED
    BY <1>2, <2>1, <2>3, <2>5, <2>6 DEF ExchangeType
<1>3. QED
  BY <1>1, <1>2

LEMMA StartKeepsInv ==
  ASSUME ExchangeInv, NEW e \in End, Start(e)
  PROVE  ExchangeInv'
<1>1. ExchangeType'
  BY DEF ExchangeInv, ExchangeType, Start
<1>2. ASSUME NEW d \in End
      PROVE  EndInv(d)'
  <2>1. EndInv(d) /\ EndInv(e)
    BY DEF ExchangeInv
  <2>2. CASE d = e
    BY <2>1, <2>2, EndAssumption, Zenon
       DEF ExchangeInv, ExchangeType, EndInv, Start, Completed, Error
  <2>3. CASE d # e
    BY <2>1, <2>3, Zenon DEF ExchangeInv, ExchangeType, EndInv, Start, Completed, Told
  <2>4. QED
    BY <2>2, <2>3
<1>3. QED
  BY <1>1, <1>2 DEF ExchangeInv

LEMMA SendDoneKeepsInv ==
  ASSUME ExchangeInv, NEW e \in End, NEW error \in Error, NEW reaches \in BOOLEAN,
         SendDone(e, error, reaches)
  PROVE  ExchangeInv'
<1>1. ExchangeType /\ EndInv(e) /\ Completion(e, error, rx_buffer[e])
  BY DEF ExchangeInv, SendDone
<1>2. rx_buffer[e] \in Data
  BY <1>1 DEF ExchangeType
<1>3. /\ send[e] = "pending" /\ send' = [send EXCEPT ![e] = error]
      /\ receive' = receive /\ rx_buffer' = rx_buffer
      /\ arrived' = [arrived EXCEPT ![Peer[e]] = @ \/ reaches]
  BY DEF SendDone
<1>4. ExchangeType'
  BY <1>1, <1>2, <1>3, CompletionFacts, EndAssumption, Zenon DEF ExchangeType
<1>5. EndInv(e)'
  <2>1. ~Completed(send[e]) /\ send'[e] = error /\ Completed(error) /\ error # "idle"
    BY <1>1, <1>3, EndAssumption, Zenon DEF Completed, Error, ExchangeType
  <2>2. CASE Completed(receive[e])
    <3>1. first_error[e] = receive[e] /\ calls[e] = <<>> /\ receive[e] # None
      BY <1>1, <2>1, <2>2, EndAssumption DEF EndInv, Completed, Error
    <3>2. /\ first_error'[e] = first_error[e]
          /\ calls'[e] = <<Told(receive[e], error, rx_buffer[e])>>
      BY <1>1, <1>2, <3>1, CompletionFacts
    <3>3. Told(receive[e], error, rx_buffer[e]) = Told(error, receive[e], rx_buffer[e])
      BY DEF Told
    <3>4. QED
      BY <1>1, <1>3, <2>1, <2>2, <3>1, <3>2, <3>3 DEF EndInv
  <2>3. CASE ~Completed(receive[e])
    <3>1. first_error[e] = None /\ calls[e] = <<>>
      BY <1>1, <2>1, <2>3 DEF EndInv
    <3>2. first_error'[e] = error /\ calls'[e] = <<>>
      BY <1>1, <1>2, <3>1, CompletionFacts
    <3>3. QED
      BY <1>1, <1>3, <2>1, <2>3, <3>2 DEF EndInv
  <2>4. QED
    BY <2>2, <2>3
<1>6. ASSUME NEW d \in End \ {e}
      PROVE  EndInv(d)'
  <2>1. /\ first_error'[d] = first_error[d] /\ calls'[d] = calls[d] /\ send'[d] = send[d]
        /\ receive'[d] = receive[d] /\ rx_buffer'[d] = rx_buffer[d]
    BY <1>1, <1>2, <1>3, CompletionFacts DEF ExchangeType
  <2>2. EndInv(d)
    BY DEF ExchangeInv
  <2>3. QED
    BY <2>1, <2>2 DEF EndInv
<1>7. QED
  BY <1>4, <1>5, <1>6 DEF ExchangeInv
LEMMA ReceiveDoneKeepsInv ==
  ASSUME ExchangeInv, NEW e \in End, NEW error \in Error, ReceiveDone(e, error)
  PROVE  ExchangeInv'
<1>1. ExchangeType /\ EndInv(e) /\ Completion(e, error, rx_buffer'[e])
  BY DEF ExchangeInv, ReceiveDone
<1>2. /\ receive[e] = "pending" /\ receive' = [receive EXCEPT ![e] = error]
      /\ send' = send /\ arrived' = arrived
      /\ rx_buffer' = [rx_buffer EXCEPT ![e] =
           IF error = Ok THEN [owner |-> Peer[e], resized |-> first_error[e] = Ok] ELSE @]
  BY DEF ReceiveDone
<1>3. [owner |-> Peer[e], resized |-> first_error[e] = Ok] \in Data
  BY EndAssumption DEF Data
<1>4. /\ rx_buffer' \in [End -> Data] /\ \A d \in End \ {e} : rx_buffer'[d] = rx_buffer[d]
      /\ error = Ok => rx_buffer'[e].owner = Peer[e]
  BY <1>1, <1>2, <1>3 DEF ExchangeType
<1>5. rx_buffer'[e] \in Data
  BY <1>4
<1>6. ExchangeType'
  BY <1>1, <1>2, <1>4, <1>5, CompletionFacts DEF ExchangeType
<1>7. EndInv(e)'
  <2>1. ~Completed(receive[e]) /\ receive'[e] = error /\ Completed(error) /\ error # "idle"
    BY <1>1, <1>2, EndAssumption, Zenon DEF Completed, Error, ExchangeType
  <2>2. send'[e] = send[e] /\ send[e] # "idle"
    BY <1>1, <1>2 DEF EndInv
  <2>3. CASE Completed(send[e])
    <3>1. first_error[e] = send[e] /\ calls[e] = <<>> /\ send[e] # None
      BY <1>1, <2>1, <2>3, EndAssumption DEF EndInv, Completed, Error
    <3>2. /\ first_error'[e] = first_error[e]
          /\ calls'[e] = <<Told(send[e], error, rx_buffer'[e])>>
      BY <1>1, <1>5, <3>1, CompletionFacts
    <3>3. QED
      BY <1>4, <2>1, <2>2, <2>3, <3>1, <3>2 DEF EndInv
  <2>4. CASE ~Completed(send[e])
    <3>1. first_error[e] = None /\ calls[e] = <<>>
      BY <1>1, <2>1, <2>4 DEF EndInv
    <3>2. first_error'[e] = error /\ calls'[e] = <<>>
      BY <1>1, <1>5, <3>1, CompletionFacts
    <3>3. QED
      BY <1>4, <2>1, <2>2, <2>4, <3>2 DEF EndInv
  <2>5. QED
    BY <2>3, <2>4
<1>8. ASSUME NEW d \in End \ {e}
      PROVE  EndInv(d)'
  <2>1. /\ first_error'[d] = first_error[d] /\ calls'[d] = calls[d] /\ send'[d] = send[d]
        /\ receive'[d] = receive[d] /\ rx_buffer'[d] = rx_buffer[d]
    BY <1>1, <1>2, <1>4, <1>5, CompletionFacts DEF ExchangeType
  <2>2. EndInv(d)
    BY DEF ExchangeInv
  <2>3. QED
    BY <2>1, <2>2, Zenon DEF EndInv
<1>9. QED
  BY <1>6, <1>7, <1>8 DEF ExchangeInv

LEMMA ExchangeStepKeepsInv == ExchangeInv /\ [Next]_vars => ExchangeInv'
<1> SUFFICES ASSUME ExchangeInv, [Next]_vars
             PROVE  ExchangeInv'
  OBVIOUS
<1>1. CASE Next
  BY <1>1, StartKeepsInv, SendDoneKeepsInv, ReceiveDoneKeepsInv DEF Next
<1>2. CASE UNCHANGED vars
  BY <1>2 DEF vars, ExchangeInv, ExchangeType, EndInv
<1>3. QED
  BY <1>1, <1>2

LEMMA ExchangeInvImplies == ExchangeInv => HandlerCalledOnce /\ SuccessMeansBoth
<1> SUFFICES ASSUME ExchangeInv, NEW e \in End
             PROVE  /\ Len(calls[e]) =
                         IF Completed(send[e]) /\ Completed(receive[e]) THEN 1 ELSE 0
                    /\ \A i \in DOMAIN calls[e] :
                         IF send[e] = Ok /\ receive[e] = Ok
                         THEN calls[e][i].error = Ok /\ calls[e][i].data.owner = Peer[e]
                         ELSE calls[e][i] = [error |-> Failed, data |-> NoData]
  BY Zenon DEF HandlerCalledOnce, SuccessMeansBoth
<1>1. EndInv(e)
  BY DEF ExchangeInv
<1>2. CASE Completed(send[e]) /\ Completed(receive[e])
  <2>1. calls[e] = <<Told(send[e], receive[e], rx_buffer[e])>>
    BY <1>1, <1>2 DEF EndInv
  <2>2. Len(calls[e]) = 1 /\ \A i \in DOMAIN calls[e] :
          calls[e][i] = Told(send[e], receive[e], rx_buffer[e])
    BY <2>1
  <2>3. receive[e] = Ok => rx_buffer[e].owner = Peer[e]
    BY <1>1 DEF EndInv
  <2>4. QED
    BY <1>2, <2>2, <2>3 DEF Told
<1>3. CASE ~(Completed(send[e]) /\ Completed(receive[e]))
  <2>1. calls[e] = <<>>
    BY <1>1, <1>3 DEF EndInv
  <2>2. QED
    BY <1>3, <2>1
<1>4. QED
  BY <1>2, <1>3, Zenon

-----------------------------------------------------------------------------
(***************************************************************************)
(* The two managers.                                                       *)
(***************************************************************************)

\* Every step of the managers is a step of the exchanges, or leaves them alone.
LEMMA PairStepsExchange == PairNext => [Next]_vars
<1> SUFFICES ASSUME PairNext
             PROVE  [Next]_vars
  OBVIOUS
<1>1. ASSUME NEW c \in Connection
      PROVE  In(c) \in End /\ Out(c) \in End
  BY PairAssumption DEF In, Out
<1>2. ASSUME NEW n \in Node, NEW c \in Connection, AddNode(n, c)
      PROVE  UNCHANGED vars
  BY <1>2 DEF AddNode, exchange
<1>3. ASSUME NEW n \in Node, DropNode(n) \/ PeerReceiveFails(n)
      PROVE  UNCHANGED vars
  BY <1>3 DEF DropNode, PeerReceiveFails, exchange
<1>4. ASSUME NEW c \in Connection, AcceptDone(c) \/ ConnectDone(c)
      PROVE  Start(In(c)) \/ Start(Out(c)) \/ UNCHANGED vars
  BY <1>4 DEF AcceptDone, ConnectDone, exchange
<1>5. ASSUME NEW e \in End, ExchangeSendDone(e) \/ ExchangeReceiveDone(e)
      PROVE  Next
  BY <1>5 DEF ExchangeSendDone, ExchangeReceiveDone, Next
<1>6. ASSUME NEW e \in End, Start(e)
      PROVE  Next
  BY <1>6 DEF Next
<1>7. QED
  BY <1>1, <1>2, <1>3, <1>4, <1>5, <1>6 DEF PairNext

\* The exchanges of the two managers are exchanges as AsyncExchange describes
\* them: the managers' callbacks start them and never interfere.
THEOREM PairImplementsExchange == PairSpec => Spec
<1>1. PairInit => Init
  BY DEF PairInit
<1>2. [PairNext]_pairVars => [Next]_vars
  BY PairStepsExchange DEF pairVars
<1>3. QED
  BY <1>1, <1>2, PTL DEF PairSpec, Spec

\* The handler of every exchange is called once, when both operations are done.
THEOREM HandlerCalledOnceCorrect == PairSpec => []HandlerCalledOnce
<1>1. Spec => []HandlerCalledOnce
  BY ExchangeInit, ExchangeStepKeepsInv, ExchangeInvImplies, PTL DEF Spec
<1>2. QED
  BY <1>1, PairImplementsExchange, PTL

\* The handler hears of success exactly when both operations succeeded.
THEOREM SuccessMeansBothCorrect == PairSpec => []SuccessMeansBoth
<1>1. Spec => []SuccessMeansBoth
  BY ExchangeInit, ExchangeStepKeepsInv, ExchangeInvImplies, PTL DEF Spec
<1>2. QED
  BY <1>1, PairImplementsExchange, PTL

\* An exchange is only started on a connection some node made.
StartedIsMade ==
  /\ initiator \in [Connection -> Node \cup {None}]
  /\ \A e \in End : send[e] # "idle" => initiator[e[1]] \in Node

LEMMA StartedIsMadeInductive ==
  ASSUME ExchangeInv, StartedIsMade, [PairNext]_pairVars
  PROVE  StartedIsMade'
<1>1. ASSUME NEW n \in Node, NEW c \in Connection, AddNode(n, c)
      PROVE  StartedIsMade'
  BY <1>1 DEF AddNode, StartedIsMade, exchange, vars
<1>2. ASSUME NEW c \in Connection, NEW d \in {In(c), Out(c)}, Start(d), initiator[c] # None,
             initiator' = initiator
      PROVE  StartedIsMade'
  <2>1. d[1] = c /\ initiator[c] \in Node
    BY <1>2 DEF In, Out, StartedIsMade
  <2>2. ASSUME NEW e \in End, send'[e] # "idle"
        PROVE  initiator'[e[1]] \in Node
    <3>1. CASE e = d
      BY <1>2, <2>1, <3>1
    <3>2. CASE e # d
      BY <1>2, <2>2, <3>2 DEF Start, StartedIsMade, ExchangeInv, ExchangeType
    <3>3. QED
      BY <3>1, <3>2
  <2>3. QED
    BY <1>2, <2>2 DEF StartedIsMade
<1>3. ASSUME NEW e \in End, ExchangeSendDone(e) \/ ExchangeReceiveDone(e)
      PROVE  StartedIsMade'
  <2>1. initiator' = initiator
    BY <1>3 DEF ExchangeSendDone, ExchangeReceiveDone, ExchangeStep, ExchangeHandler, manager
  <2>2. ASSUME NEW d \in End, send'[d] # "idle"
        PROVE  send[d] # "idle"
    BY <1>3, <2>2
       DEF ExchangeSendDone, ExchangeReceiveDone, SendDone, ReceiveDone, ExchangeInv, ExchangeType
  <2>3. QED
    BY <2>1, <2>2 DEF StartedIsMade
<1>4. CASE send' = send /\ initiator' = initiator
  BY <1>4 DEF StartedIsMade
<1>5. ASSUME NEW n \in Node, DropNode(n) \/ PeerReceiveFails(n)
      PROVE  send' = send /\ initiator' = initiator
  BY <1>5 DEF DropNode, PeerReceiveFails, exchange, vars
<1>6. ASSUME NEW c \in Connection, AcceptDone(c) \/ ConnectDone(c)
      PROVE  /\ initiator[c] # None /\ initiator' = initiator
             /\ Start(In(c)) \/ Start(Out(c)) \/ send' = send
  BY <1>6 DEF AcceptDone, ConnectDone, manager, exchange, vars
<1>7. CASE UNCHANGED pairVars
  BY <1>4, <1>7 DEF pairVars, vars
<1>8. QED
  BY <1>1, <1>2, <1>3, <1>4, <1>5, <1>6, <1>7 DEF PairNext

\* A connection both nodes keep is kept until one of them drops it or something
\* fails, whatever else the two connect and accept.
THEOREM EstablishedSurvivesCorrect == PairSpec => EstablishedSurvives
<1>1. PairInit => ExchangeInv /\ StartedIsMade
  <2>1. PairInit => StartedIsMade
    BY DEF PairInit, Init, StartedIsMade
  <2>2. QED
    BY <2>1, ExchangeInit DEF PairInit
<1>2. ExchangeInv /\ StartedIsMade /\ [PairNext]_pairVars => (ExchangeInv /\ StartedIsMade)'
  <2>1. [PairNext]_pairVars => [Next]_vars
    BY PairStepsExchange DEF pairVars
  <2>2. QED
    BY <2>1, ExchangeStepKeepsInv, StartedIsMadeInductive
<1>3. ExchangeInv /\ StartedIsMade /\ [PairNext]_pairVars =>
        [Connected /\ ~disturbed' => peers_' = peers_]_pairVars
  <2> SUFFICES ASSUME ExchangeInv, StartedIsMade, PairNext, Connected, ~disturbed'
               PROVE  peers_' = peers_
    OBVIOUS
  <2>1. \A n \in Node : peers_[n] # None
    BY PairAssumption DEF Connected
  <2>2. ASSUME NEW e \in End, ExchangeSendDone(e) \/ ExchangeReceiveDone(e)
        PROVE  peers_' = peers_
    <3>1. send[e] # "idle"
      <4>1. send[e] = "pending" \/ receive[e] = "pending"
        BY <2>2 DEF ExchangeSendDone, ExchangeReceiveDone, SendDone, ReceiveDone
      <4>2. EndInv(e)
        BY DEF ExchangeInv
      <4>3. QED
        BY <4>1, <4>2 DEF EndInv
    <3>2. initiator[e[1]] \in Node
      BY <3>1 DEF StartedIsMade
    <3>3. At(e) \in Node
      BY <3>2, PairAssumption DEF At, Other
    <3>4. \/ ExchangeHandler(e)
          \/ UNCHANGED manager
      BY <2>2 DEF ExchangeSendDone, ExchangeReceiveDone, ExchangeStep
    <3>5. CASE ExchangeHandler(e)
      BY <2>1, <3>3, <3>5 DEF ExchangeHandler, InsertPeer
    <3>6. CASE UNCHANGED manager
      BY <3>6 DEF manager
    <3>7. QED
      BY <3>4, <3>5, <3>6
  <2>3. ASSUME NEW n \in Node, NEW c \in Connection, AddNode(n, c)
        PROVE  peers_' = peers_
    BY <2>3 DEF AddNode
  <2>4. ASSUME NEW n \in Node, DropNode(n) \/ PeerReceiveFails(n)
        PROVE  peers_' = peers_
    BY <2>4 DEF DropNode, PeerReceiveFails
  <2>5. ASSUME NEW c \in Connection, AcceptDone(c) \/ ConnectDone(c)
        PROVE  peers_' = peers_
    BY <2>5 DEF AcceptDone, ConnectDone, manager
  <2>6. QED
    BY <2>2, <2>3, <2>4, <2>5 DEF PairNext
<1>4. QED
  BY <1>1, <1>2, <1>3, PTL DEF PairSpec, EstablishedSurvives
=============================================================================
