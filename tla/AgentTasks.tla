----------------------------- MODULE AgentTasks -----------------------------
(***************************************************************************)
(* One agent and one task it is given again and again: the slots, the load *)
(* ceiling and the executions of TunnelAgent (src/agent/agent.js), against *)
(* the lease the coordinator keeps (src/host/queue.js).                    *)
(*                                                                         *)
(* The clock counts seconds.  It does not move on while a timer of the     *)
(* agent is due; what takes time of its own is a call, and a handler.      *)
(* Every lease is a new execution, numbered as it begins.  The coordinator *)
(* does not know the number: it asks who holds the task, and the agent is  *)
(* the same registration throughout.                                       *)
(***************************************************************************)
EXTENDS Integers, FiniteSets

CONSTANTS
  Slots,        \* concurrency
  Lease,        \* leaseMs
  Grace,        \* abortGraceMs
  ThrottleMax,  \* throttleMaxMs
  Retries,      \* of a report
  Tries,        \* the task's maxAttempts
  MaxRuns       \* bound: executions

ASSUME AgentTasksAssumption ==
  /\ {Slots, Lease, Tries, MaxRuns} \subseteq Nat \ {0}
  /\ {Grace, ThrottleMax, Retries} \subseteq Nat

Runs == 1 .. MaxRuns

VARIABLES
  task,      \* "queued", "leased" or how it ended
  tries,     \* the attempts it was charged with
  left,      \* seconds left of its lease
  current,   \* the execution the lease began
  run,       \* run[n]: where execution n is
  loaded,    \* the last reading was over the ceiling: the loop naps
  standing,  \* #throttledSince: seconds the agent has stood aside
  delay      \* seconds since the lease began that its handler was not running,
             \* or had been told to stop

taskVars == <<task, tries, left, current, run, loaded, standing, delay>>

(***************************************************************************)
(* An execution is "given" while the poll's answer is on its way, runs     *)
(* until its handler ends or it is aborted, and reports.  An aborted       *)
(* handler may stop at once, at any later time, or never; one that was     *)
(* abandoned is "unresponsive" from then on.                               *)
(***************************************************************************)
Stage   == {"none", "given", "running", "aborted", "reporting", "over"}
Outcome == {"none", "done", "failed", "declined", "unresponsive"}

NoRun == [stage |-> "none", timer |-> 0, outcome |-> "none", calls |-> 0]
Run   == [stage : Stage, timer : Nat, outcome : Outcome, calls : 0 .. Retries + 1]

AgentTasksTypeOK ==
  /\ task \in {"queued", "leased", "succeeded", "failed"}
  /\ tries \in 0 .. Tries /\ left \in 0 .. Lease
  /\ current \in 0 .. MaxRuns
  /\ run \in [Runs -> Run]
  /\ loaded \in BOOLEAN /\ standing \in 0 .. ThrottleMax /\ delay \in Nat

AgentTasksInit ==
  /\ task = "queued" /\ tries = 0 /\ left = 0
  /\ current = 0
  /\ run = [n \in Runs |-> NoRun]
  /\ loaded = FALSE /\ standing = 0 /\ delay = 0

hostVars == <<task, tries, left, current, delay>>
loopVars == <<loaded, standing>>

InFlight == {n \in Runs : run[n].stage \notin {"none", "over"}}

\* Slip: the margin before the end of the lease is not kept.
BudgetWhole == Lease

\* A little less than the lease, but at least a second.
Budget == IF Lease - 2 > 1 THEN Lease - 2 ELSE 1
----------------------------------------------------------------------------
(* The loop.                                                               *)

\* Nothing has taken the work for long enough: late beats never.
StoodLongEnough == InFlight = {} /\ standing = ThrottleMax

\* #napIfOverloaded, with load over the ceiling.
Naps ==
  /\ Cardinality(InFlight) < Slots /\ ~loaded
  /\ ~StoodLongEnough
  /\ loaded' = TRUE
  /\ UNCHANGED <<hostVars, run, standing>>

\* The poll.  If there is work the queue leases it; a poll that parks is
\* answered when there is.
Polls ==
  /\ Cardinality(InFlight) < Slots /\ ~loaded
  /\ standing' = 0 /\ UNCHANGED loaded
  /\ \/ /\ task = "queued" /\ current < MaxRuns
        /\ task' = "leased" /\ tries' = tries + 1 /\ left' = Lease
        /\ current' = current + 1 /\ delay' = 0
        /\ run' = [run EXCEPT ![current + 1].stage = "given"]
     \/ task # "queued" /\ UNCHANGED <<hostVars, run>>

\* #execute: a task this machine has no memory left for is handed back, one
\* it has no handler for is reported.
Receives(n, outcome) ==
  /\ run[n].stage = "given"
  /\ run' = [run EXCEPT ![n] = IF outcome = "none"
       THEN [@ EXCEPT !.stage = "running", !.timer = Budget]
       ELSE [NoRun EXCEPT !.stage = "reporting", !.outcome = outcome, !.calls = Retries + 1]]
  /\ UNCHANGED <<hostVars, loopVars>>

Reporting(n, outcome) ==
  /\ run' = [run EXCEPT ![n] =
       [NoRun EXCEPT !.stage = "reporting", !.outcome = outcome, !.calls = Retries + 1]]
  /\ UNCHANGED <<hostVars, loopVars>>

\* What a handler returns after its abort is not reported.
HandlerEnds(n, outcome) ==
  /\ run[n].stage = "running" \/ (run[n].stage = "aborted" /\ outcome = "failed")
  /\ Reporting(n, outcome)

\* The budget is used up.
Aborts(n) ==
  /\ run[n].stage = "running" /\ run[n].timer = 0
  /\ run' = [run EXCEPT ![n].stage = "aborted", ![n].timer = Grace]
  /\ UNCHANGED <<hostVars, loopVars>>

\* Slip: a handler that does not stop is waited for.
AbandonsNever(n) == FALSE /\ Reporting(n, "unresponsive")

\* Past the grace the slot is freed, whatever the handler still does.
Abandons(n) ==
  /\ run[n].stage = "aborted" /\ run[n].timer = 0
  /\ Reporting(n, "unresponsive")
----------------------------------------------------------------------------
(* Reports and leases.                                                     *)

\* fail, or an expired lease: over, or queued again.
Again(charged) ==
  task' = IF charged >= Tries THEN "failed" ELSE "queued"

\* #requireLeasedBy, and complete, fail or decline.  current is over.
Settles(n) ==
  /\ task = "leased"
  /\ \/ run[n].outcome = "done" /\ task' = "succeeded" /\ UNCHANGED tries
     \/ run[n].outcome \in {"failed", "unresponsive"} /\ Again(tries) /\ UNCHANGED tries
     \/ run[n].outcome = "declined" /\ task' = "queued" /\ tries' = tries - 1
  /\ left' = 0
  /\ UNCHANGED <<current, delay>>

Over(n) == [NoRun EXCEPT !.stage = "over", !.outcome = run[n].outcome]

\* An answer was not heard: the same report again, while there are retries.
Retried(n) ==
  IF run[n].calls = 1 THEN Over(n) ELSE [run[n] EXCEPT !.calls = @ - 1]

\* The call reaches the coordinator, which settles the lease or refuses.
ReportHandled(n, heard) ==
  /\ run[n].stage = "reporting"
  /\ IF task = "leased" THEN Settles(n) ELSE UNCHANGED hostVars
  /\ run' = [run EXCEPT ![n] = IF heard THEN Over(n) ELSE Retried(n)]
  /\ UNCHANGED loopVars

ReportLost(n) ==
  /\ run[n].stage = "reporting"
  /\ run' = [run EXCEPT ![n] = Retried(n)]
  /\ UNCHANGED <<hostVars, loopVars>>

\* sweep.
Lapses ==
  /\ task = "leased" /\ left = 0
  /\ Again(tries)
  /\ UNCHANGED <<tries, left, current, delay, run, loopVars>>
----------------------------------------------------------------------------
Less(n) == IF n = 0 THEN 0 ELSE n - 1

Due == \E n \in Runs : run[n].stage \in {"running", "aborted"} /\ run[n].timer = 0

\* Nothing is left for the clock to bring about.
Quiet == InFlight = {} /\ ~loaded /\ (task = "leased" => left = 0)

Second ==
  /\ ~Due /\ ~Quiet
  /\ left' = Less(left)
  /\ run' = [n \in Runs |-> [run[n] EXCEPT !.timer = Less(@)]]
  /\ loaded' = FALSE
  /\ standing' = IF loaded /\ standing < ThrottleMax THEN standing + 1 ELSE standing
  /\ delay' = IF task = "leased" /\ delay < 2
                 /\ run[current].stage # "running"
              THEN delay + 1 ELSE delay
  /\ UNCHANGED <<task, tries, current>>

Timers(n) == Aborts(n) \/ Abandons(n)

AgentTasksNext ==
  \/ Naps \/ Polls
  \/ \E n \in Runs :
       \/ \E o \in {"none", "failed", "declined"} : Receives(n, o)
       \/ \E o \in {"done", "failed"} : HandlerEnds(n, o)
       \/ Timers(n)
       \/ \E heard \in BOOLEAN : ReportHandled(n, heard)
       \/ ReportLost(n)
  \/ Lapses \/ Second

AgentTasksSpec == AgentTasksInit /\ [][AgentTasksNext]_taskVars

(***************************************************************************)
(* The loop, the timers and the sweeper go on, the clock with them, and a  *)
(* call ends.  Nothing is assumed of a handler.                            *)
(***************************************************************************)
AgentTasksFairness ==
  /\ WF_taskVars(Naps \/ Polls) /\ WF_taskVars(Lapses) /\ WF_taskVars(Second)
  /\ \A n \in Runs :
       /\ WF_taskVars(\E o \in {"none", "failed", "declined"} : Receives(n, o))
       /\ WF_taskVars(Timers(n))
       /\ WF_taskVars(ReportLost(n) \/ \E heard \in BOOLEAN : ReportHandled(n, heard))
----------------------------------------------------------------------------
(* Properties.                                                             *)

\* A slot is freed whatever the handler does and whoever does not answer
\* ("freeing the slot while it may still be running").
SlotsFreed == \A n \in Runs : run[n].stage = "given" ~> run[n].stage = "over"

\* "Late beats never": queued work is taken though the only agent that could
\* take it is over its ceiling at every reading, and has had handlers that do not stop.
TakenAtLast == task = "queued" /\ current < MaxRuns ~> task # "queued"

\* Neither a slot nor the queue is held for ever.
TasksMove == SlotsFreed /\ TakenAtLast

\* "Give up a little before the host reclaims the lease, so the failure is
\* reported by us": with a lease of three seconds or more, the calls and the
\* handler's stopping may take up to a second in all and the lease has still
\* not run out.
InTime ==
  task = "leased" /\ Lease >= 3 /\ delay < 2 => left > 0
=============================================================================
