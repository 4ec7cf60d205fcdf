----------------------------- MODULE MCWsSession -----------------------------
(***************************************************************************)
(* Two connections under one peer id: the first sends every type of        *)
(* message, the second a few that change what its peer has.                *)
(***************************************************************************)
EXTENDS WsSession

CONSTANTS c1, c2

MCMethods == [s \in Sessions |-> IF s = c1 THEN MessageType ELSE {"JoinRoom", "CreateTransport"}]
=============================================================================
