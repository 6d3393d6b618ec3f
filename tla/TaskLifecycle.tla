--------------------------- MODULE TaskLifecycle ---------------------------
(***************************************************************************)
(* What the coordinator promises about a task to the client that submitted *)
(* it (src/common/protocol.js and the task routes of src/host/server.js):  *)
(* the statuses it may read, in which order, who holds the task, how its   *)
(* attempts are counted, and that its end is announced once and is final.  *)
(*                                                                         *)
(* Tasks are independent here.  Where a task waits, which agent is chosen  *)
(* and when records are dropped is what TaskQueue adds.                    *)
(***************************************************************************)
EXTENDS Naturals

CONSTANTS Tasks, Agents, NoAgent, MaxAttempts

VARIABLES status, holder, attempts, receipts

vars == <<status, holder, attempts, receipts>>

Init ==
  /\ status = [t \in Tasks |-> "absent"]
  /\ holder = [t \in Tasks |-> NoAgent]
  /\ attempts = [t \in Tasks |-> 0]
  /\ receipts = [t \in Tasks |-> 0]

\* The attempts a task has been charged with when it waits (again).  A lease
\* that ended without a report costs its attempt, and there must be another
\* left; one that was handed back unrun costs nothing.
ChargedNext(t, n) ==
  \/ status[t] \in {"absent", "queued"} /\ n = attempts[t]
  \/ /\ status[t] = "leased"
     /\ \/ n = attempts[t] /\ n < MaxAttempts[t]
        \/ n + 1 = attempts[t]

Wait(t) ==
  /\ status[t] \in {"absent", "leased"}
  /\ status'[t] = "queued"
  /\ holder'[t] = NoAgent
  /\ ChargedNext(t, attempts'[t])
  /\ receipts'[t] = receipts[t]

\* A lease may begin in the very step that submitted the task or that ended
\* its previous lease.
Lease(t) ==
  /\ status[t] \in {"absent", "queued", "leased"}
  /\ status'[t] = "leased"
  /\ holder'[t] \in Agents
  /\ \E n \in 0 .. attempts[t] :
       ChargedNext(t, n) /\ attempts'[t] = n + 1
  /\ receipts'[t] = receipts[t]

\* Only a held task can succeed, and only one without attempts left can fail.
End(t) ==
  /\ \/ status[t] = "leased" /\ status'[t] = "succeeded"
     \/ /\ status[t] = "leased" /\ status'[t] = "failed"
        /\ attempts[t] >= MaxAttempts[t]
     \/ status[t] \in {"queued", "leased"} /\ status'[t] = "cancelled"
  /\ holder'[t] = holder[t]
  /\ attempts'[t] = attempts[t]
  /\ receipts'[t] = receipts[t] + 1

Forget(t) ==
  /\ status[t] \in {"succeeded", "failed", "cancelled"}
  /\ status'[t] = "forgotten"
  /\ holder'[t] = holder[t]
  /\ attempts'[t] = attempts[t]
  /\ receipts'[t] = receipts[t]

Same(t) ==
  /\ status'[t] = status[t]
  /\ holder'[t] = holder[t]
  /\ attempts'[t] = attempts[t]
  /\ receipts'[t] = receipts[t]

Next ==
  /\ \A t \in Tasks : Same(t) \/ Wait(t) \/ Lease(t) \/ End(t) \/ Forget(t)
  /\ DOMAIN status' = Tasks
  /\ DOMAIN holder' = Tasks
  /\ DOMAIN attempts' = Tasks
  /\ DOMAIN receipts' = Tasks

Spec == Init /\ [][Next]_vars
=============================================================================
