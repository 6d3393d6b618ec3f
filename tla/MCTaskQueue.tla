---------------------------- MODULE MCTaskQueue ----------------------------
(***************************************************************************)
(* The fleet that MCTaskQueue.cfg checks: a laptop whose worker registers  *)
(* a second time (a1, then a2, one instance) and a second machine (a3).    *)
(* t1 runs on any of them and may be leased twice; t2 asks for the laptop  *)
(* by name and for memory, and may be leased once.                         *)
(***************************************************************************)
EXTENDS TaskQueue

CONSTANTS a1, a2, a3, t1, t2, laptop, other

MCInstance == a1 :> laptop @@ a2 :> laptop @@ a3 :> other
MCCapable == [a \in Agents |-> IF a = a2 THEN {t1} ELSE Tasks]
MCTarget == t1 :> Agents @@ t2 :> {a1, a2}
MCNeeds == t1 :> 0 @@ t2 :> 1
MCMaxAttempts == t1 :> 2 @@ t2 :> 1
=============================================================================
