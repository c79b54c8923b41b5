---------------------------- MODULE MCRpcFailover ----------------------------
(* The RPC failover for TLC. *)
EXTENDS RpcFailover
==============================================================================
