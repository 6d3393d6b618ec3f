-------------------------- MODULE MCTaskQueueLive --------------------------
(***************************************************************************)
(* A smaller fleet for liveness: two machines, of which the first runs     *)
(* everything, and two tasks that may each be leased at most twice.        *)
(***************************************************************************)
EXTENDS TaskQueue

CONSTANTS a1, a2, t1, t2

MCInstance == [a \in Agents |-> a]
MCCapable == [a \in Agents |-> IF a = a1 THEN Tasks ELSE {t1}]
MCTarget == [t \in Tasks |-> Agents]
MCNeeds == [t \in Tasks |-> 0]
MCMaxAttempts == [t \in Tasks |-> 2]
=============================================================================
