--------------------------- MODULE MCAccumulator ---------------------------
(***************************************************************************)
(* Accumulator for TLC.  Names, senders and values are interchangeable.    *)
(***************************************************************************)
EXTENDS Accumulator, TLC

Symmetry == Permutations(Name) \union Permutations(Sender) \union Permutations(Value)

=============================================================================
