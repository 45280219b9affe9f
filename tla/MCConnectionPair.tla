--------------------------- MODULE MCConnectionPair ---------------------------
(* ConnectionPair for TLC. *)
EXTENDS ConnectionPair

MCEnd == Connection \X {"out", "in"}
MCPeer == [e \in MCEnd |-> <<e[1], IF e[2] = "out" THEN "in" ELSE "out">>]
=============================================================================
