-------------------------- MODULE MCConnectionManager --------------------------
(* ConnectionManager for TLC: it is node 1 that listens at the endpoints.  *)
EXTENDS ConnectionManager

MCIdAt == [ep \in Endpoint |-> 1]
=============================================================================
