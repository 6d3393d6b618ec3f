-------------------------- MODULE MCAgentSessions --------------------------
(***************************************************************************)
(* One machine: its agent process, and where a run asks for it a second    *)
(* one that was started beside it.  Seven ids are more than two processes, *)
(* their requests, their heartbeats and a coordinator can refer to at once *)
(* with one coordinator; a model that ran out would leave a registration   *)
(* waiting, and Attached would tell.                                       *)
(***************************************************************************)
EXTENDS AgentSessions

CONSTANTS first, second

Alone == {first}
Pair  == {first, second}
=============================================================================
