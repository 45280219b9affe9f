------------------------------ MODULE AsyncQueue ------------------------------
(***************************************************************************)
(* AsyncQueue (async_queue.h): values pushed by some threads meet handlers *)
(* given to AsyncPop by others.  Under the mutex a call either queues what *)
(* it brings or takes its partner from the front of the other queue; the   *)
(* handler runs after the mutex is released, so between the two any other  *)
(* thread may call.  A value and a handler are named by the number of the  *)
(* call that brought them.                                                 *)
(***************************************************************************)
EXTENDS Naturals, Sequences

CONSTANTS
  Thread,    \* the threads that call Push and AsyncPop
  MaxOps     \* bound on the pushes, and on the pops

ASSUME MaxOpsAssumption == MaxOps \in Nat

VARIABLES
  handlers,  \* std::queue<Handler>
  values,    \* std::queue<Tuple>
  call,      \* call[t]: the pair <<value, handler>> thread t is about to run, or <<>>
  pushed,    \* number of Push calls that have held the mutex
  popped,    \* number of AsyncPop calls that have held the mutex
  got        \* got[h]: the values handler h has been run with

queueVars == <<handlers, values, call, pushed, popped, got>>

QueueInit ==
  /\ handlers = <<>>
  /\ values = <<>>
  /\ call = [t \in Thread |-> <<>>]
  /\ pushed = 0
  /\ popped = 0
  /\ got = [h \in 1..MaxOps |-> <<>>]

\* Mutant: the handler is copied from the front of the queue and not popped.
PushKeepsHandler(t) ==
  /\ call[t] = <<>>
  /\ pushed < MaxOps
  /\ pushed' = pushed + 1
  /\ \/ handlers = <<>> /\ values' = Append(values, pushed') /\ UNCHANGED call
     \/ /\ handlers # <<>>
        /\ call' = [call EXCEPT ![t] = <<pushed', Head(handlers)>>]
        /\ UNCHANGED values
  /\ UNCHANGED <<handlers, popped, got>>

\* Mutant: the value is queued although a handler waits.
PushQueuesAlways(t) ==
  /\ call[t] = <<>>
  /\ pushed < MaxOps
  /\ pushed' = pushed + 1
  /\ values' = Append(values, pushed')
  /\ UNCHANGED <<handlers, call, popped, got>>

Push(t) ==
  /\ call[t] = <<>>
  /\ pushed < MaxOps
  /\ pushed' = pushed + 1
  /\ \/ /\ handlers = <<>>
        /\ values' = Append(values, pushed')
        /\ UNCHANGED <<handlers, call>>
     \/ /\ handlers # <<>>
        /\ call' = [call EXCEPT ![t] = <<pushed', Head(handlers)>>]
        /\ handlers' = Tail(handlers)
        /\ UNCHANGED values
  /\ UNCHANGED <<popped, got>>

\* Mutant: the newest queued value is taken, as from a stack.
AsyncPopNewest(t) ==
  /\ call[t] = <<>>
  /\ popped < MaxOps
  /\ popped' = popped + 1
  /\ \/ /\ values = <<>>
        /\ handlers' = Append(handlers, popped')
        /\ UNCHANGED <<values, call>>
     \/ /\ values # <<>>
        /\ call' = [call EXCEPT ![t] = <<values[Len(values)], popped'>>]
        /\ values' = SubSeq(values, 1, Len(values) - 1)
        /\ UNCHANGED handlers
  /\ UNCHANGED <<pushed, got>>

AsyncPop(t) ==
  /\ call[t] = <<>>
  /\ popped < MaxOps
  /\ popped' = popped + 1
  /\ \/ /\ values = <<>>
        /\ handlers' = Append(handlers, popped')
        /\ UNCHANGED <<values, call>>
     \/ /\ values # <<>>
        /\ call' = [call EXCEPT ![t] = <<Head(values), popped'>>]
        /\ values' = Tail(values)
        /\ UNCHANGED handlers
  /\ UNCHANGED <<pushed, got>>

\* The handler runs outside the mutex.  Once it has been entered the thread may
\* call again, from inside the handler or after it.
RunHandler(t) ==
  /\ call[t] # <<>>
  /\ got' = [got EXCEPT ![call[t][2]] = Append(@, call[t][1])]
  /\ call' = [call EXCEPT ![t] = <<>>]
  /\ UNCHANGED <<handlers, values, pushed, popped>>

QueueNext == \E t \in Thread : Push(t) \/ AsyncPop(t) \/ RunHandler(t)

\* A thread that has left the mutex goes on to run the handler it holds.
Fairness == \A t \in Thread : WF_queueVars(RunHandler(t))

QueueSpec == QueueInit /\ [][QueueNext]_queueVars

FairSpec == QueueSpec /\ Fairness
-----------------------------------------------------------------------------
\* Every queue holds numbers of calls made, and a call is a pair of them.
TypeOK ==
  /\ pushed \in 0..MaxOps
  /\ popped \in 0..MaxOps
  /\ values \in Seq(1..MaxOps)
  /\ handlers \in Seq(1..MaxOps)
  /\ call \in [Thread -> {<<>>} \cup ((1..MaxOps) \X (1..MaxOps))]
  /\ got \in [1..MaxOps -> Seq(1..MaxOps)]

\* A value never waits while a handler waits: the two queues are the two ends
\* of one line, whichever threads filled them.
NeverBothWaiting == values = <<>> \/ handlers = <<>>

\* AsyncQueue implements the rendezvous: the n-th handler is run at most once,
\* with the n-th value, and only after both arrived.
Promise ==
  INSTANCE Rendezvous WITH MaxOps <- MaxOps, pushed <- pushed, popped <- popped, got <- got

Implements == Promise!Spec

\* A value and a handler that have both arrived meet: the handler is run with
\* that value, whatever the other threads do between the mutex and the call.
EventuallyDelivered == Promise!Delivery
=============================================================================
