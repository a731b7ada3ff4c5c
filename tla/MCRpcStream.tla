---------------------------- MODULE MCRpcStream ----------------------------
(* A small instance of RpcStream: two processes read three entries.        *)
EXTENDS RpcStream

CONSTANTS r1, r2
Two == {r1, r2}
One == {r1}
=============================================================================
