------------------------------- MODULE MCRpcApi ------------------------------
(* Two Fetch calls in flight at once (as under Promise.all) over every response shape.                   *)
EXTENDS RpcApi
MCCalls == {"c1", "c2"}
MCMethods == {"auth/session/check"}
MCPayloads == {"p1"}
==============================================================================
