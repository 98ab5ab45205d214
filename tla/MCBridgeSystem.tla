--------------------------- MODULE MCBridgeSystem ---------------------------
(* BridgeSystem on a small instance. *)
EXTENDS BridgeSystem

CONSTANT id1

MCVcpIds == <<id1>>
MCMaxFed == [d \in Dir |-> 1]
=============================================================================
