----------------------------- MODULE MCRpcServing -----------------------------
(* RpcServing on small instances.  Request 4 reuses the id of request 1, which *)
(* may then be running, held, cancelled or over.                               *)
EXTENDS RpcServing

MCRequests   == 1..4
MCIds        == 1..3
MCIdOf       == <<1, 2, 3, 1>>

MCThree      == 1..3
MCDistinctId == <<1, 2, 3>>
=============================================================================
