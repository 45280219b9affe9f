---------------------------- MODULE MCConnections ----------------------------
(* Connections to nodes that may come back at the same endpoint.           *)
EXTENDS Connections, TLC

\* One node that is reached at every endpoint.
MCSameId == [ep \in Endpoint |-> CHOOSE id \in Id : TRUE]

EndpointSymmetry == Permutations(Endpoint)
=============================================================================
