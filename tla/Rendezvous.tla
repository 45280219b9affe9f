------------------------------ MODULE Rendezvous ------------------------------
(***************************************************************************)
(* What AsyncQueue promises its users, with no queue in it: values are     *)
(* numbered in the order in which they are pushed, handlers in the order   *)
(* in which they are given to AsyncPop, and the n-th handler is run once,  *)
(* with the n-th value, at some time after both have arrived.              *)
(***************************************************************************)
EXTENDS Naturals, Sequences

CONSTANT MaxOps    \* bound on the pushes, and on the pops

VARIABLES
  pushed,   \* how many values have been pushed
  popped,   \* how many handlers have asked for a value
  got       \* got[h]: the values handler h has been run with

vars == <<pushed, popped, got>>

Init ==
  /\ pushed = 0
  /\ popped = 0
  /\ got = [h \in 1..MaxOps |-> <<>>]

Push ==
  /\ pushed < MaxOps
  /\ pushed' = pushed + 1
  /\ UNCHANGED <<popped, got>>

AsyncPop ==
  /\ popped < MaxOps
  /\ popped' = popped + 1
  /\ UNCHANGED <<pushed, got>>

\* A value that finds its handler waiting, or the reverse, is handed over.
Run(n) ==
  /\ n <= pushed
  /\ n <= popped
  /\ got[n] = <<>>
  /\ got' = [got EXCEPT ![n] = <<n>>]
  /\ UNCHANGED <<pushed, popped>>

Next == Push \/ AsyncPop \/ \E n \in 1..MaxOps : Run(n)

Spec == Init /\ [][Next]_vars

Delivery == \A n \in 1..MaxOps : (n <= pushed /\ n <= popped) ~> (got[n] = <<n>>)
=============================================================================
