--------------------------- MODULE MCRpcTransport --------------------------
(* Instances of RpcTransport for TLC. *)
EXTENDS RpcTransport

CONSTANTS c1, c2

MCCalls == {c1, c2}
============================================================================
