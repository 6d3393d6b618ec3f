------------------------- MODULE MCTaskQueueMemory -------------------------
(***************************************************************************)
(* The memory ledger under pressure: two registrations, of two machines,   *)
(* and three tasks that each ask for one unit of at most two.  A machine   *)
(* can hold two tasks, one, or none, depending on what it last reported    *)
(* and on what it was already promised to.                                 *)
(***************************************************************************)
EXTENDS TaskQueue

CONSTANTS a1, a2, t1, t2, t3

MCInstance == [a \in Agents |-> NoInstance]
MCCapable == [a \in Agents |-> IF a = a1 THEN Tasks ELSE {t1}]
MCTarget == [t \in Tasks |-> Agents]
MCNeeds == [t \in Tasks |-> 1]
MCMaxAttempts == [t \in Tasks |-> IF t = t1 THEN 2 ELSE 1]
=============================================================================
