---------------------------- MODULE XorAddress ----------------------------
(***************************************************************************)
(* Addresses and the XOR metric.  The library takes both from the common   *)
(* maidsafe code, which is not in this repository; they are modelled from  *)
(* how routing_table.cc and connection_manager.h use them.  An Address is  *)
(* a string of Bits bits (512 in the program), most significant bit first. *)
(***************************************************************************)
EXTENDS Integers

CONSTANT
  Bits    \* number of bits of an address

ASSUME BitsAssumption == Bits \in Nat \ {0}

BitAddress == [1..Bits -> {0, 1}]

\* The first bit at which a and b differ, for a # b.
FirstDifference(a, b) ==
  CHOOSE i \in 1..Bits : a[i] # b[i] /\ \A j \in 1..(i - 1) : a[j] = b[j]

\* lhs XOR target < rhs XOR target, as unsigned integers: at the first bit
\* where lhs and rhs differ, it is lhs that agrees with the target.
XorCloser(lhs, rhs, target) ==
  \E i \in 1..Bits :
    /\ \A j \in 1..(i - 1) : lhs[j] = rhs[j]
    /\ lhs[i] = target[i]
    /\ rhs[i] # target[i]

\* Number of leading bits that a and b share.
XorCommonLeadingBits(a, b) ==
  IF a = b THEN Bits ELSE FirstDifference(a, b) - 1

=============================================================================
