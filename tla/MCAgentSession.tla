--------------------------- MODULE MCAgentSession ---------------------------
(* AgentSession on small instances. *)
EXTENDS AgentSession

CONSTANTS a, b, e1, e2

TwoCalls == {<<>>, <<"context", "context">>, <<"local", "unknown">>}
=============================================================================
