--------------------------- MODULE MCBootstrapHandler ---------------------------
(***************************************************************************)
(* Endpoints for BootstrapHandler: an IPv4 address, 0.0.0.0, an IPv6       *)
(* address that is not IPv4-compatible.                                    *)
(***************************************************************************)
EXTENDS BootstrapHandler

MCEndpoint == {[v |-> 4, n |-> 2], [v |-> 4, n |-> 0], [v |-> 6, n |-> 9]}
=============================================================================
