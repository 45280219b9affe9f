-------------------------- MODULE MCRoutingTable --------------------------
(***************************************************************************)
(* RoutingTable for TLC: an address is the number of its bits, under the   *)
(* XOR metric.                                                             *)
(***************************************************************************)
EXTENDS RoutingTable, XorAddress, TLC

\* The bits of a number below 2^Bits.
ToAddress(n) == [i \in 1..Bits |-> (n \div 2^(Bits - i)) % 2]

\* Ourself and contacts of every bucket: 1 | 2, 3 | 4, 5 | 8.
MCAddress == {0, 1, 2, 3, 4, 5, 8}

\* The metric as tables, which TLC computes once.
CloserTable ==
  [target \in MCAddress |-> [lhs \in MCAddress |-> [rhs \in MCAddress |->
     XorCloser(ToAddress(lhs), ToAddress(rhs), ToAddress(target))]]]
LeadingBitsTable ==
  [a \in MCAddress |-> [b \in MCAddress |->
     XorCommonLeadingBits(ToAddress(a), ToAddress(b))]]

MCCloserToTarget(lhs, rhs, target) == CloserTable[target][lhs][rhs]
MCCommonLeadingBits(a, b) == LeadingBitsTable[a][b]

ThreadSymmetry == Permutations(Thread)

=============================================================================
