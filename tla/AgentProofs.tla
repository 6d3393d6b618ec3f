----------------------------- MODULE AgentProofs ------------------------------
(***************************************************************************)
(* What the work of an agent and the repairs beside it promise, proved for *)
(* any number of attempts, leases, renders, passes and budgets: a failure  *)
(* is told before the lease runs out (AgentTasks), a render is given its   *)
(* own picture (Renders), repairs stay within their budgets (SelfHeal), a  *)
(* panel reported as provisioned has this task's networks (Panel), the     *)
(* memory of a machine is lent once (MemStore), and what it is ranked by   *)
(* was measured lately (LoadReports).                                      *)
(***************************************************************************)
EXTENDS AgentTasks, Renders, SelfHeal, Panel, MemStore, LoadReports, FiniteSums,
        TLAPS
----------------------------------------------------------------------------
(* An agent with a task.                                                   *)

\* What each execution keeps to, and how the number of the last one, the
\* attempts and the task go together.
RunsSound ==
  /\ \A n \in Runs :
       /\ run[n].stage \in {"none", "given", "running", "aborted"} => run[n].outcome = "none"
       /\ run[n].stage = "reporting" => run[n].calls >= 1
       /\ n > current => run[n] = NoRun
       /\ n <= current => run[n].stage # "none"
  /\ task = "queued" => tries < Tries
  /\ task = "leased" => tries >= 1 /\ current >= 1

\* The lease outlasts what the agent still means to do with it.
LeaseOutlasts ==
  task = "leased" /\ Lease >= 3 /\ delay < 2
  => /\ left >= 2 - delay
     /\ run[current].stage = "running" => left >= run[current].timer + 2 - delay
     /\ run[current].stage = "given" => left >= Lease - delay

TasksInv == AgentTasksTypeOK /\ RunsSound /\ LeaseOutlasts

LEMMA NoRunIs ==
  NoRun \in Run /\ NoRun.stage = "none" /\ NoRun.timer = 0 /\ NoRun.outcome = "none" /\ NoRun.calls = 0
BY AgentTasksAssumption DEF NoRun, Run, Stage, Outcome

LEMMA ReportIs ==
  ASSUME NEW o \in Outcome
  PROVE  LET r == [NoRun EXCEPT !.stage = "reporting", !.outcome = o, !.calls = Retries + 1]
         IN  r \in Run /\ r.stage = "reporting" /\ r.outcome = o /\ r.calls = Retries + 1 /\ r.timer = 0
<1>. DEFINE a == [NoRun EXCEPT !.stage = "reporting"]
            b == [a EXCEPT !.outcome = o]
            d == [b EXCEPT !.calls = Retries + 1]
<1>1. [NoRun EXCEPT !.stage = "reporting", !.outcome = o, !.calls = Retries + 1] = d
  BY Zenon
<1>2. a \in Run /\ a.stage = "reporting" /\ a.timer = 0
  BY NoRunIs DEF Run, Stage
<1>. HIDE DEF a
<1>3. b \in Run /\ b.stage = "reporting" /\ b.outcome = o /\ b.timer = 0
  BY <1>2 DEF Run
<1>. HIDE DEF b
<1>4. d \in Run /\ d.stage = "reporting" /\ d.outcome = o /\ d.timer = 0 /\ d.calls = Retries + 1
  BY <1>3, AgentTasksAssumption DEF Run
<1>. QED BY <1>1, <1>4

LEMMA OverIs ==
  ASSUME NEW n \in Runs, run[n] \in Run
  PROVE  Over(n) \in Run /\ Over(n).stage = "over" /\ Over(n).outcome = run[n].outcome
BY NoRunIs DEF Over, Run, Stage

LEMMA RetriedIs ==
  ASSUME NEW n \in Runs, run[n] \in Run, run[n].stage = "reporting", run[n].calls >= 1
  PROVE  /\ Retried(n) \in Run /\ Retried(n).stage \in {"reporting", "over"}
         /\ Retried(n).outcome = run[n].outcome
         /\ Retried(n).stage = "reporting" => Retried(n).calls >= 1
<1>1. CASE run[n].calls = 1
  BY <1>1, OverIs DEF Retried
<1>2. CASE run[n].calls # 1
  BY <1>2, AgentTasksAssumption DEF Retried, Run
<1>. QED BY <1>1, <1>2

LEMMA TasksStart == AgentTasksInit => TasksInv
<1>. SUFFICES ASSUME AgentTasksInit PROVE TasksInv
  OBVIOUS
<1>1. run \in [Runs -> Run] /\ \A n \in Runs : run[n] = NoRun
  BY NoRunIs DEF AgentTasksInit
<1>2. AgentTasksTypeOK
  <2>1. Lease \in Nat /\ Tries \in Nat /\ MaxRuns \in Nat /\ ThrottleMax \in Nat
    BY AgentTasksAssumption
  <2>2. /\ task = "queued" /\ tries = 0 /\ left = 0 /\ current = 0 /\ standing = 0
        /\ delay = 0 /\ loaded \in BOOLEAN
    BY DEF AgentTasksInit
  <2>. QED BY <1>1, <2>1, <2>2 DEF AgentTasksTypeOK
<1>3. \A n \in Runs : n > current /\ ~(n <= current)
  BY DEF AgentTasksInit, Runs
<1>. QED BY <1>1, <1>2, <1>3, NoRunIs, AgentTasksAssumption
         DEF AgentTasksInit, TasksInv, RunsSound, LeaseOutlasts

\* One execution moves on, and the lease is as it was or is given up.
OneRun(n, r) ==
  /\ run' = [run EXCEPT ![n] = r]
  /\ r \in Run /\ r.stage # "none" /\ run[n].stage \notin {"none", "over"}
  /\ r.stage \in {"given", "running", "aborted"} => r.outcome = "none"
  /\ r.stage = "reporting" => r.calls >= 1
  /\ UNCHANGED loopVars

LEMMA RunSteps ==
  ASSUME TasksInv, NEW n \in Runs, NEW r, OneRun(n, r), UNCHANGED hostVars,
         r.stage # "given",
         r.stage = "running" => run[n].stage = "given" /\ r.timer = Budget
  PROVE  TasksInv'
<1>. USE DEF TasksInv
<1>1. /\ run' \in [Runs -> Run] /\ run'[n] = r /\ \A m \in Runs \ {n} : run'[m] = run[m]
      /\ run[n] # NoRun /\ current \in 0 .. MaxRuns
  BY NoRunIs DEF OneRun, AgentTasksTypeOK
<1>2. AgentTasksTypeOK'
  BY <1>1 DEF OneRun, AgentTasksTypeOK, hostVars, loopVars
<1>3. n <= current
  BY <1>1 DEF RunsSound, Runs
<1>4. RunsSound'
  BY <1>1, <1>3 DEF OneRun, RunsSound, hostVars
<1>5. LeaseOutlasts'
  <2>1. CASE n # current
    BY <1>1, <2>1 DEF LeaseOutlasts, hostVars, RunsSound, Runs
  <2>2. CASE n = current
    BY <1>1, <2>2, AgentTasksAssumption DEF LeaseOutlasts, hostVars, Budget, AgentTasksTypeOK, OneRun
  <2>. QED BY <2>1, <2>2
<1>. QED BY <1>2, <1>4, <1>5

LEMMA SettlesIs ==
  ASSUME TasksInv, NEW n \in Runs, Settles(n)
  PROVE  /\ task' \in {"queued", "succeeded", "failed"} /\ tries' \in 0 .. Tries
         /\ task' = "queued" => tries' < Tries
         /\ left' = 0 /\ UNCHANGED <<current, delay>>
BY AgentTasksAssumption DEF TasksInv, AgentTasksTypeOK, RunsSound, Settles, Again

LEMMA TasksStep == TasksInv /\ [AgentTasksNext]_taskVars => TasksInv'
<1>. SUFFICES ASSUME TasksInv, [AgentTasksNext]_taskVars PROVE TasksInv'
  OBVIOUS
<1>t. AgentTasksTypeOK /\ RunsSound /\ \A n \in Runs : run[n] \in Run
  BY DEF TasksInv, AgentTasksTypeOK
<1>1. CASE Naps
  BY <1>1 DEF Naps, TasksInv, AgentTasksTypeOK, RunsSound, LeaseOutlasts, hostVars
<1>2. CASE Polls
  <2>1. CASE task # "queued" /\ UNCHANGED <<hostVars, run>>
    BY <1>2, <2>1, AgentTasksAssumption
       DEF Polls, TasksInv, AgentTasksTypeOK, RunsSound, LeaseOutlasts, hostVars
  <2>2. CASE /\ task = "queued" /\ current < MaxRuns
             /\ task' = "leased" /\ tries' = tries + 1 /\ left' = Lease
             /\ current' = current + 1 /\ delay' = 0
             /\ run' = [run EXCEPT ![current + 1].stage = "given"]
    <3>1. current + 1 \in Runs /\ current + 1 > current /\ current \in 0 .. MaxRuns
      BY <1>t, <2>2, AgentTasksAssumption DEF AgentTasksTypeOK, Runs
    <3>2. run[current + 1] = NoRun
      BY <1>t, <3>1 DEF RunsSound
    <3>3. /\ run' \in [Runs -> Run] /\ run'[current + 1].stage = "given"
          /\ run'[current + 1].outcome = "none"
          /\ \A m \in Runs \ {current + 1} : run'[m] = run[m]
      <4>. DEFINE r == [NoRun EXCEPT !.stage = "given"]
      <4>1. r \in Run /\ r.stage = "given" /\ r.outcome = "none"
        BY NoRunIs DEF Run, Stage
      <4>2. run' = [run EXCEPT ![current + 1] = r] /\ run \in [Runs -> Run]
        BY <1>t, <2>2, <3>2, Zenon DEF AgentTasksTypeOK
      <4>3. current + 1 \in Runs /\ current' = current + 1
        BY <2>2, <3>1
      <4>. HIDE DEF r
      <4>. QED BY <4>1, <4>2, <4>3
    <3>4. AgentTasksTypeOK'
      <4>1. loaded' = loaded /\ standing' \in 0 .. ThrottleMax
        BY <1>2, AgentTasksAssumption DEF Polls
      <4>2. tries' \in 0 .. Tries /\ left' \in 0 .. Lease /\ current' \in 0 .. MaxRuns
        <5>1. tries \in 0 .. Tries /\ tries < Tries
          BY <1>t, <2>2 DEF AgentTasksTypeOK, RunsSound
        <5>2. tries' \in 0 .. Tries
          BY <2>2, <5>1, AgentTasksAssumption
        <5>. QED BY <2>2, <3>1, <5>2, AgentTasksAssumption DEF Runs
      <4>3. task' \in {"queued", "leased", "succeeded", "failed"} /\ delay' \in Nat
        BY <2>2
      <4>. QED BY <3>3, <4>1, <4>2, <4>3, <1>t DEF AgentTasksTypeOK
    <3>5. RunsSound'
      <4>1. tries' >= 1 /\ current' >= 1 /\ task' = "leased"
        BY <1>t, <2>2, <3>1, AgentTasksAssumption DEF AgentTasksTypeOK
      <4>2. ASSUME NEW m \in Runs
            PROVE  /\ run'[m].stage \in {"none", "given", "running", "aborted"}
                        => run'[m].outcome = "none"
                   /\ run'[m].stage = "reporting" => run'[m].calls >= 1
                   /\ m > current' => run'[m] = NoRun
                   /\ m <= current' => run'[m].stage # "none"
        <5>1. CASE m = current + 1
          BY <2>2, <3>1, <3>3, <5>1
        <5>2. CASE m # current + 1
          <6>1. run'[m] = run[m]
            BY <3>3, <5>2
          <6>2. (m > current' => m > current) /\ (m <= current' => m <= current)
            BY <2>2, <3>1, <5>2 DEF Runs
          <6>. QED BY <1>t, <6>1, <6>2 DEF RunsSound
        <5>. QED BY <5>1, <5>2
      <4>. QED BY <4>1, <4>2 DEF RunsSound
    <3>6. LeaseOutlasts'
      BY <2>2, <3>1, <3>3, AgentTasksAssumption DEF LeaseOutlasts
    <3>. QED BY <3>4, <3>5, <3>6 DEF TasksInv
  <2>. QED BY <1>2, <2>1, <2>2 DEF Polls
<1>3. ASSUME NEW n \in Runs, NEW o \in {"none", "failed", "declined"}, Receives(n, o)
      PROVE  TasksInv'
  <2>1. CASE o = "none"
    <3>. DEFINE r == [run[n] EXCEPT !.stage = "running", !.timer = Budget]
    <3>1. /\ r \in Run /\ r.stage = "running" /\ r.timer = Budget /\ r.outcome = run[n].outcome
      <4>1. run[n] \in Run /\ Budget \in Nat
        BY <1>t, AgentTasksAssumption DEF Budget
      <4>2. [run[n] EXCEPT !.stage = "running"] \in Run
        BY <4>1 DEF Run, Stage
      <4>. QED BY <4>1, <4>2 DEF Run, Stage
    <3>2. run' = [run EXCEPT ![n] = r] /\ run[n].stage = "given" /\ UNCHANGED <<hostVars, loopVars>>
      BY <1>3, <2>1 DEF Receives
    <3>. HIDE DEF r
    <3>3. run[n].outcome = "none"
      BY <1>t, <3>2 DEF RunsSound
    <3>4. OneRun(n, r)
      BY <3>1, <3>2, <3>3 DEF OneRun
    <3>. QED BY <3>1, <3>2, <3>3, <3>4, RunSteps
  <2>2. CASE o # "none"
    <3>. DEFINE r == [NoRun EXCEPT !.stage = "reporting", !.outcome = o, !.calls = Retries + 1]
    <3>1. r \in Run /\ r.stage = "reporting" /\ r.outcome = o /\ r.calls = Retries + 1
      <4>1. o \in Outcome
        BY <1>3 DEF Outcome
      <4>. QED BY <4>1, ReportIs, Zenon
    <3>2. run' = [run EXCEPT ![n] = r] /\ run[n].stage = "given" /\ UNCHANGED <<hostVars, loopVars>>
      BY <1>3, <2>2 DEF Receives
    <3>. HIDE DEF r
    <3>3. run[n].outcome = "none"
      BY <1>t, <3>2 DEF RunsSound
    <3>4. OneRun(n, r)
      BY <3>1, <3>2, AgentTasksAssumption DEF OneRun
    <3>. QED BY <3>1, <3>2, <3>3, <3>4, RunSteps
  <2>. QED BY <2>1, <2>2
<1>4. ASSUME NEW n \in Runs, NEW o \in {"done", "failed"}, HandlerEnds(n, o)
      PROVE  TasksInv'
  <2>. DEFINE r == [NoRun EXCEPT !.stage = "reporting", !.outcome = o, !.calls = Retries + 1]
  <2>1. r \in Run /\ r.stage = "reporting" /\ r.outcome = o /\ r.calls = Retries + 1
    BY ReportIs DEF Outcome
  <2>2. run' = [run EXCEPT ![n] = r] /\ run[n].stage \in {"running", "aborted"}
        /\ UNCHANGED <<hostVars, loopVars>>
    BY <1>4 DEF HandlerEnds, Reporting
  <2>. HIDE DEF r
  <2>3. OneRun(n, r)
    BY <2>1, <2>2, AgentTasksAssumption DEF OneRun
  <2>. QED BY <2>1, <2>2, <2>3, RunSteps
<1>5. ASSUME NEW n \in Runs, Aborts(n) PROVE TasksInv'
  <2>. DEFINE r == [run[n] EXCEPT !.stage = "aborted", !.timer = Grace]
  <2>1. r \in Run /\ r.stage = "aborted" /\ r.outcome = run[n].outcome
    BY <1>t, AgentTasksAssumption DEF Run, Stage
  <2>2. run' = [run EXCEPT ![n] = r] /\ run[n].stage = "running" /\ UNCHANGED <<hostVars, loopVars>>
    BY <1>5, Zenon DEF Aborts
  <2>. HIDE DEF r
  <2>3. run[n].outcome = "none"
    BY <1>t, <2>2 DEF RunsSound
  <2>4. OneRun(n, r)
    BY <2>1, <2>2, <2>3 DEF OneRun
  <2>. QED BY <2>1, <2>2, <2>3, <2>4, RunSteps
<1>6. ASSUME NEW n \in Runs, Abandons(n) PROVE TasksInv'
  <2>. DEFINE r == [NoRun EXCEPT !.stage = "reporting", !.outcome = "unresponsive", !.calls = Retries + 1]
  <2>1. r \in Run /\ r.stage = "reporting" /\ r.outcome = "unresponsive" /\ r.calls = Retries + 1
    BY ReportIs DEF Outcome
  <2>2. run' = [run EXCEPT ![n] = r] /\ run[n].stage = "aborted" /\ UNCHANGED <<hostVars, loopVars>>
    BY <1>6 DEF Abandons, Reporting
  <2>. HIDE DEF r
  <2>3. OneRun(n, r)
    BY <2>1, <2>2, AgentTasksAssumption DEF OneRun
  <2>. QED BY <2>1, <2>2, <2>3, RunSteps
<1>7. ASSUME NEW n \in Runs, NEW heard \in BOOLEAN, ReportHandled(n, heard) \/ ReportLost(n)
      PROVE  TasksInv'
  <2>1. run[n].stage = "reporting" /\ run[n].calls >= 1 /\ run[n] \in Run
    BY <1>7, <1>t DEF ReportHandled, ReportLost, RunsSound
  <2>2. \E r \in {Over(n), Retried(n)} : run' = [run EXCEPT ![n] = r]
    BY <1>7 DEF ReportHandled, ReportLost
  <2>3. PICK r \in {Over(n), Retried(n)} : run' = [run EXCEPT ![n] = r]
    BY <2>2
  <2>4. /\ r \in Run /\ r.stage \in {"reporting", "over"} /\ r.outcome = run[n].outcome
        /\ r.stage = "reporting" => r.calls >= 1
    BY <2>1, OverIs, RetriedIs
  <2>5. OneRun(n, r)
    BY <1>7, <2>1, <2>3, <2>4 DEF OneRun, ReportHandled, ReportLost
  <2>6. CASE UNCHANGED hostVars
    BY <2>1, <2>4, <2>5, <2>6, RunSteps
  <2>7. CASE Settles(n)
    <3>1. /\ task' \in {"queued", "succeeded", "failed"} /\ tries' \in 0 .. Tries
          /\ task' = "queued" => tries' < Tries
          /\ left' = 0 /\ UNCHANGED <<current, delay>>
      BY <2>7, SettlesIs
    <3>2. run' \in [Runs -> Run] /\ run'[n] = r /\ \A m \in Runs \ {n} : run'[m] = run[m]
      BY <1>t, <2>3, <2>4 DEF AgentTasksTypeOK
    <3>3. AgentTasksTypeOK'
      BY <1>t, <2>5, <3>1, <3>2, AgentTasksAssumption DEF AgentTasksTypeOK, OneRun, loopVars
    <3>4. run[n] # NoRun
      BY <2>1, NoRunIs
    <3>5. RunsSound'
      BY <1>t, <2>4, <3>1, <3>2, <3>4 DEF RunsSound, AgentTasksTypeOK
    <3>. QED BY <3>1, <3>3, <3>5 DEF TasksInv, LeaseOutlasts
  <2>. QED BY <1>7, <2>6, <2>7 DEF ReportHandled, ReportLost
<1>8. CASE Lapses
  BY <1>8, AgentTasksAssumption
     DEF Lapses, Again, TasksInv, AgentTasksTypeOK, RunsSound, LeaseOutlasts, loopVars
<1>9. CASE Second
  <2>1. /\ ~Due /\ left' = Less(left) /\ loaded' = FALSE
        /\ run' = [n \in Runs |-> [run[n] EXCEPT !.timer = Less(@)]]
        /\ standing' = IF loaded /\ standing < ThrottleMax THEN standing + 1 ELSE standing
        /\ delay' = IF task = "leased" /\ delay < 2
                       /\ run[current].stage # "running"
                    THEN delay + 1 ELSE delay
        /\ UNCHANGED <<task, tries, current>>
    BY <1>9 DEF Second
  <2>2. \A n \in Runs :
          /\ run'[n] \in Run /\ run'[n].stage = run[n].stage /\ run'[n].outcome = run[n].outcome
          /\ run'[n].calls = run[n].calls /\ run'[n].timer = Less(run[n].timer)
    <3>. TAKE n \in Runs
    <3>1. run[n] \in Run /\ run'[n] = [run[n] EXCEPT !.timer = Less(@)]
      BY <1>t, <2>1 DEF AgentTasksTypeOK
    <3>2. Less(run[n].timer) \in Nat
      BY <3>1 DEF Run, Less
    <3>. DEFINE r == run[n]
                k == Less(run[n].timer)
    <3>. HIDE DEF r, k
    <3>3. run'[n] = [r EXCEPT !.timer = k]
      BY <3>1, Zenon DEF r, k
    <3>4. r \in Run /\ k \in Nat
      BY <3>1, <3>2 DEF r, k
    <3>5. /\ run'[n] \in Run /\ run'[n].stage = r.stage /\ run'[n].outcome = r.outcome
          /\ run'[n].calls = r.calls /\ run'[n].timer = k
      BY <3>3, <3>4 DEF Run
    <3>. QED BY <3>5 DEF r, k
  <2>3. run' \in [Runs -> Run]
    <3>. DEFINE r(n) == [run[n] EXCEPT !.timer = Less(@)]
    <3>1. run' = [n \in Runs |-> r(n)]
      BY <2>1, Zenon
    <3>2. \A n \in Runs : run'[n] \in Run
      BY <2>2
    <3>. HIDE DEF r
    <3>3. \A n \in Runs : r(n) \in Run
      BY <3>1, <3>2
    <3>. QED BY <3>1, <3>3
  <2>4. AgentTasksTypeOK'
    <3>1. left' \in 0 .. Lease
      <4>1. Lease \in Nat /\ left \in 0 .. Lease /\ left' = Less(left)
        BY <1>t, <2>1, AgentTasksAssumption DEF AgentTasksTypeOK
      <4>. QED BY <4>1 DEF Less
    <3>2. standing' \in 0 .. ThrottleMax
      BY <1>t, <2>1, AgentTasksAssumption DEF AgentTasksTypeOK
    <3>3. delay' \in Nat
      BY <1>t, <2>1 DEF AgentTasksTypeOK
    <3>. QED BY <1>t, <2>1, <2>3, <3>1, <3>2, <3>3 DEF AgentTasksTypeOK
  <2>5. RunsSound'
    <3>1. \A n \in Runs : run[n] = NoRun => run'[n] = NoRun
      BY <2>1 DEF NoRun, Less
    <3>. QED BY <1>t, <2>1, <2>2, <3>1 DEF RunsSound
  <2>6. LeaseOutlasts'
    <3>. SUFFICES ASSUME task = "leased", Lease >= 3, delay' < 2
                  PROVE  /\ left' >= 2 - delay'
                         /\ run'[current].stage = "running" => left' >= run'[current].timer + 2 - delay'
                         /\ run'[current].stage = "given" => left' >= Lease - delay'
      BY <2>1 DEF LeaseOutlasts
    <3>1. current \in Runs /\ run[current] \in Run /\ delay \in Nat /\ left \in Nat
      BY <1>t, AgentTasksAssumption DEF RunsSound, AgentTasksTypeOK, Runs
    <3>2. run[current].timer \in Nat
          /\ (run[current].stage = "running" => run[current].timer # 0)
      BY <1>t, <2>1, <2>2, <3>1 DEF RunsSound, Due, Run, Stage, AgentTasksTypeOK
    <3>3. /\ run'[current].stage = run[current].stage /\ run'[current].timer = Less(run[current].timer)
          /\ run'[current].outcome = run[current].outcome
      BY <2>2, <3>1
    <3>4. delay < 2
      BY <2>1, <3>1
    <3>5. /\ left >= 2 - delay
          /\ run[current].stage = "running" => left >= run[current].timer + 2 - delay
          /\ run[current].stage = "given" => left >= Lease - delay
      BY <3>3, <3>4 DEF TasksInv, LeaseOutlasts
    <3>6. /\ left' = Less(left) /\ Lease \in Nat
          /\ delay' = IF run[current].stage # "running" THEN delay + 1 ELSE delay
      BY <2>1, <3>4, AgentTasksAssumption
    <3>7. left' >= 2 - delay'
      <4>1. CASE run[current].stage = "running"
        BY <3>1, <3>2, <3>5, <3>6, <4>1 DEF Less
      <4>2. CASE run[current].stage # "running"
        BY <3>1, <3>5, <3>6, <4>2 DEF Less
      <4>. QED BY <4>1, <4>2
    <3>8. run'[current].stage = "running" => left' >= run'[current].timer + 2 - delay'
      BY <3>1, <3>2, <3>3, <3>5, <3>6 DEF Less
    <3>9. run'[current].stage = "given" => left' >= Lease - delay'
      BY <3>1, <3>3, <3>5, <3>6 DEF Less
    <3>. QED BY <3>7, <3>8, <3>9
  <2>. QED BY <2>4, <2>5, <2>6 DEF TasksInv
<1>10. CASE UNCHANGED taskVars
  BY <1>10 DEF taskVars, TasksInv, AgentTasksTypeOK, RunsSound, LeaseOutlasts
<1>. QED BY <1>1, <1>2, <1>3, <1>4, <1>5, <1>6, <1>7, <1>8, <1>9, <1>10
         DEF AgentTasksNext, Timers

\* The agent's slots, timers and the task at the coordinator keep their types
\* (agent.js: #worker, #handle, #report).
THEOREM AgentTasksTypeCorrect == AgentTasksSpec => []AgentTasksTypeOK
<1>1. TasksInv => AgentTasksTypeOK
  BY DEF TasksInv
<1>. QED BY <1>1, TasksStart, TasksStep, PTL DEF AgentTasksSpec

\* A handler that is told to stop in its last second leaves the time to report
\* it (agent.js: "Give up a little before the host reclaims the lease").
THEOREM FailuresAreInTime == AgentTasksSpec => []InTime
<1>1. TasksInv => InTime
  <2>. SUFFICES ASSUME TasksInv, task = "leased", Lease >= 3, delay < 2
                PROVE  left > 0
    BY DEF InTime
  <2>. QED BY DEF TasksInv, LeaseOutlasts, AgentTasksTypeOK
<1>. QED BY <1>1, TasksStart, TasksStep, PTL DEF AgentTasksSpec
----------------------------------------------------------------------------
(* Renders: a picture is found by what it is not yet anyone's, and by its *)
(* number.                                                                 *)

\* A nonempty set of numbers up to n has a largest.
LEMMA MaxIs ==
  ASSUME NEW n \in Nat, NEW S, S \subseteq 0 .. n, S # {}
  PROVE  Max(S) \in S
<1>. DEFINE R == {k \in Nat : \E x \in S : k = n - x}
<1>1. R # {} /\ R \subseteq Nat
  <2>1. PICK x \in S : TRUE
    OBVIOUS
  <2>2. n - x \in Nat
    BY <2>1
  <2>. QED BY <2>1, <2>2
<1>2. PICK k \in R : \A j \in R : k <= j
  BY <1>1, LeastExists
<1>3. PICK x \in S : k = n - x
  BY <1>2
<1>4. \A y \in S : x >= y
  <2>. TAKE y \in S
  <2>1. n - y \in R /\ x \in 0 .. n /\ y \in 0 .. n
    OBVIOUS
  <2>. QED BY <1>2, <1>3, <2>1
<1>. QED BY <1>4, Zenon DEF Max

\* What each render keeps to.  A seed is given out before its number.
RenderSound(i) ==
  /\ tasks[i].seed < i
  /\ i > posted => tasks[i] = NoTask
  /\ tasks[i].stage = "queued" => tasks[i].tries < RenderTries
  /\ tasks[i].stage = "rendering" => tasks[i].dir \subseteq {tasks[i].seed}
  /\ tasks[i].stage = "done" =>
       tasks[i].outputs = {tasks[i].seed} /\ tasks[i].seed \in produced

PassSound ==
  /\ todo \in Seq(RenderSeeds) /\ Len(todo) <= Batch
  /\ posted \in 0 .. MaxTasks /\ posted + Len(todo) <= MaxTasks
  /\ \A k \in 1 .. Len(todo) : todo[k] < posted + k

RendersInv ==
  /\ PassSound
  /\ tasks \in [Tasks -> Task]
  /\ produced \subseteq RenderSeeds /\ aged \subseteq Tasks
  /\ \A i \in Tasks : RenderSound(i)

LEMMA NoTaskIs ==
  NoTask \in Task /\ NoTask.seed = 0 /\ NoTask.stage = "none" /\ NoTask.tries = 0
BY RendersAssumption DEF NoTask, Task, RenderSeeds

LEMMA RendersStart == RendersInit => RendersInv
<1>. SUFFICES ASSUME RendersInit PROVE RendersInv
  OBVIOUS
<1>1. tasks \in [Tasks -> Task] /\ \A i \in Tasks : tasks[i] = NoTask
  BY NoTaskIs DEF RendersInit
<1>2. \A i \in Tasks : i > 0
  BY DEF Tasks
<1>3. PassSound
  <2>1. todo = <<>> /\ posted = 0 /\ MaxTasks \in Nat /\ Batch \in Nat
    BY RendersAssumption DEF RendersInit
  <2>. QED BY <2>1 DEF PassSound
<1>4. \A i \in Tasks : RenderSound(i)
  BY <1>1, <1>2, NoTaskIs DEF RenderSound
<1>. QED BY <1>1, <1>3, <1>4 DEF RendersInit, RendersInv

\* One render moves on.
LEMMA RenderStep ==
  ASSUME RendersInv, NEW i \in Tasks, NEW t \in Task, tasks' = [tasks EXCEPT ![i] = t],
         tasks[i].stage # "none", produced \subseteq produced', produced' \subseteq RenderSeeds,
         UNCHANGED <<todo, posted, aged>>,
         t.seed = tasks[i].seed,
         t.stage = "queued" => t.tries < RenderTries,
         t.stage = "rendering" => t.dir \subseteq {t.seed},
         t.stage = "done" => t.outputs = {t.seed} /\ t.seed \in produced'
  PROVE  RendersInv'
<1>1. /\ tasks' \in [Tasks -> Task] /\ tasks'[i] = t
      /\ \A j \in Tasks \ {i} : tasks'[j] = tasks[j]
  BY DEF RendersInv
<1>2. RenderSound(i)'
  <2>1. ~(i > posted)
    BY NoTaskIs DEF RendersInv, RenderSound
  <2>. QED BY <1>1, <2>1 DEF RendersInv, RenderSound
<1>3. ASSUME NEW j \in Tasks \ {i} PROVE RenderSound(j)'
  <2>1. RenderSound(j) /\ tasks'[j] = tasks[j]
    BY <1>1 DEF RendersInv
  <2>. QED BY <2>1 DEF RenderSound
<1>4. PassSound'
  BY DEF RendersInv, PassSound
<1>. QED BY <1>1, <1>2, <1>3, <1>4 DEF RendersInv

LEMMA FailedRender ==
  ASSUME RendersInv, NEW i \in Tasks, tasks[i].stage = "rendering", Fails(i),
         UNCHANGED <<todo, posted, aged, produced>>
  PROVE  RendersInv'
<1>. DEFINE s == IF tasks[i].tries < RenderTries THEN "queued" ELSE "failed"
            t == [tasks[i] EXCEPT !.stage = s, !.dir = {}]
<1>1. tasks' = [tasks EXCEPT ![i] = t]
  BY Zenon DEF Fails
<1>2. tasks[i] \in Task
  BY DEF RendersInv
<1>3. t \in Task /\ t.stage = s /\ t.seed = tasks[i].seed /\ t.tries = tasks[i].tries
  BY <1>2 DEF Task
<1>4. s \in {"queued", "failed"} /\ (s = "queued" => tasks[i].tries < RenderTries)
  OBVIOUS
<1>5. produced \subseteq RenderSeeds /\ produced' = produced
  BY DEF RendersInv
<1>. HIDE DEF t, s
<1>. QED BY <1>1, <1>3, <1>4, <1>5, RenderStep

LEMMA NextSeedIs ==
  ASSUME RendersInv
  PROVE  NextSeed \in Nat /\ NextSeed <= posted
<1>1. CASE At("done") = {}
  BY <1>1 DEF NextSeed, RendersInv, PassSound
<1>2. CASE At("done") # {}
  <2>. DEFINE S == {tasks[i].seed : i \in At("done")}
  <2>1. \A i \in At("done") : i \in Tasks /\ i <= posted /\ tasks[i].seed < i /\ tasks[i].seed \in 0 .. MaxTasks
    <3>. TAKE i \in At("done")
    <3>1. i \in Tasks /\ tasks[i].stage = "done" /\ tasks[i] \in Task /\ RenderSound(i)
      BY DEF At, RendersInv
    <3>2. tasks[i].seed < i /\ tasks[i].seed \in 0 .. MaxTasks /\ tasks[i] # NoTask
      BY <3>1, NoTaskIs DEF RenderSound, Task, RenderSeeds
    <3>3. ~(i > posted)
      BY <3>1, <3>2 DEF RenderSound
    <3>4. i \in Nat /\ posted \in Nat
      BY <3>1, RendersAssumption DEF RendersInv, PassSound, Tasks
    <3>. QED BY <3>1, <3>2, <3>3, <3>4
  <2>2. S \subseteq 0 .. MaxTasks /\ S # {}
    BY <1>2, <2>1
  <2>3. Max(S) \in S
    BY <2>2, MaxIs, RendersAssumption
  <2>4. PICK i \in At("done") : Max(S) = tasks[i].seed
    BY <2>3
  <2>5. NextSeed = Max(S) + 1
    BY <1>2, Zenon DEF NextSeed
  <2>6. posted \in Nat
    BY RendersAssumption DEF RendersInv, PassSound
  <2>. HIDE DEF S
  <2>. QED BY <2>1, <2>4, <2>5, <2>6 DEF Tasks
<1>. QED BY <1>1, <1>2

LEMMA RendersStep == RendersInv /\ [RendersNext]_renderVars => RendersInv'
<1>. SUFFICES ASSUME RendersInv, [RendersNext]_renderVars PROVE RendersInv'
  OBVIOUS
<1>t. \A i \in Tasks : tasks[i] \in Task /\ RenderSound(i)
  BY DEF RendersInv
<1>n. MaxTasks \in Nat /\ Batch \in Nat /\ RenderTries \in Nat /\ posted \in Nat /\ posted \in 0 .. MaxTasks
  BY RendersAssumption DEF RendersInv, PassSound
<1>1. CASE Pass
  <2>1. /\ todo' = [k \in 1 .. Batch |-> NextSeed + k - 1] /\ posted + Batch <= MaxTasks
        /\ UNCHANGED <<tasks, posted, produced, aged>>
    BY <1>1 DEF Pass
  <2>2. NextSeed \in Nat /\ NextSeed <= posted
    BY NextSeedIs
  <2>3. todo' \in Seq(RenderSeeds) /\ Len(todo') = Batch
        /\ \A k \in 1 .. Batch : todo'[k] = NextSeed + k - 1
    BY <1>n, <2>1, <2>2 DEF RenderSeeds
  <2>4. PassSound'
    BY <1>n, <2>1, <2>2, <2>3 DEF PassSound
  <2>. QED BY <2>1, <2>4 DEF RendersInv, RenderSound
<1>2. CASE Approves
  <2>. DEFINE n == posted + 1
              t == [NoTask EXCEPT !.seed = Head(todo), !.stage = "queued"]
  <2>1. /\ todo # <<>> /\ todo' = Tail(todo) /\ posted' = posted + 1
        /\ tasks' = [tasks EXCEPT ![n] = t]
        /\ UNCHANGED <<produced, aged>>
    BY <1>2 DEF Approves
  <2>2. todo \in Seq(RenderSeeds) /\ Len(todo) <= Batch /\ posted + Len(todo) <= MaxTasks
        /\ \A k \in 1 .. Len(todo) : todo[k] < posted + k
    BY DEF RendersInv, PassSound
  <2>3. /\ Head(todo) \in RenderSeeds /\ Head(todo) < n /\ Len(todo) >= 1
        /\ todo' \in Seq(RenderSeeds) /\ Len(todo') = Len(todo) - 1
        /\ \A k \in 1 .. Len(todo') : todo'[k] = todo[k + 1]
    <3>1. Len(todo) \in Nat /\ Len(todo) >= 1
      BY <2>1, <2>2
    <3>2. Head(todo) = todo[1] /\ 1 \in 1 .. Len(todo)
      BY <2>1, <2>2, <3>1
    <3>. QED BY <2>1, <2>2, <3>1, <3>2
  <2>4. n \in Tasks
    BY <1>n, <2>2, <2>3 DEF Tasks
  <2>5. t \in Task /\ t.seed = Head(todo) /\ t.stage = "queued" /\ t.tries = 0
    <3>. DEFINE a == [NoTask EXCEPT !.seed = Head(todo)]
                b == [a EXCEPT !.stage = "queued"]
    <3>1. t = b
      BY Zenon
    <3>2. a \in Task /\ a.seed = Head(todo) /\ a.tries = 0
      <4>. DEFINE h == Head(todo)
      <4>1. h \in RenderSeeds
        BY <2>3
      <4>. HIDE DEF h
      <4>2. [NoTask EXCEPT !.seed = h] \in Task /\ [NoTask EXCEPT !.seed = h].seed = h
            /\ [NoTask EXCEPT !.seed = h].tries = 0
        BY <4>1, NoTaskIs DEF Task
      <4>. QED BY <4>2 DEF h
    <3>. HIDE DEF a
    <3>3. b \in Task /\ b.seed = Head(todo) /\ b.stage = "queued" /\ b.tries = 0
      BY <3>2 DEF Task
    <3>. QED BY <3>1, <3>3
  <2>. HIDE DEF t
  <2>6. /\ tasks' \in [Tasks -> Task] /\ tasks'[n] = t
        /\ \A j \in Tasks \ {n} : tasks'[j] = tasks[j]
    BY <2>1, <2>4, <2>5 DEF RendersInv
  <2>7. PassSound'
    BY <1>n, <2>1, <2>2, <2>3, <2>4 DEF PassSound, Tasks
  <2>8. ASSUME NEW j \in Tasks PROVE RenderSound(j)'
    <3>1. CASE j = n
      BY <1>n, <2>1, <2>3, <2>5, <2>6, <3>1, RendersAssumption DEF RenderSound
    <3>2. CASE j # n
      <4>1. RenderSound(j) /\ tasks'[j] = tasks[j] /\ (j > posted' => j > posted)
        BY <1>t, <1>n, <2>1, <2>6, <3>2 DEF Tasks
      <4>. QED BY <2>1, <4>1 DEF RenderSound
    <3>. QED BY <3>1, <3>2
  <2>. QED BY <2>1, <2>6, <2>7, <2>8 DEF RendersInv
<1>3. CASE PassDies
  <2>1. Len(<<>>) = 0 /\ <<>> \in Seq(RenderSeeds)
    OBVIOUS
  <2>. QED BY <1>3, <1>n, <2>1 DEF PassDies, RendersInv, PassSound, RenderSound
<1>4. ASSUME NEW i \in Tasks, Ages(i) PROVE RendersInv'
  BY <1>4 DEF Ages, RendersInv, PassSound, RenderSound
<1>5. ASSUME NEW i \in Tasks, Renders(i) PROVE RendersInv'
  <2>. DEFINE a == [tasks[i] EXCEPT !.stage = "rendering"]
              b == [a EXCEPT !.tries = tasks[i].tries + 1]
              t == [b EXCEPT !.dir = {}]
  <2>1. /\ tasks[i].stage = "queued" /\ tasks' = [tasks EXCEPT ![i] = t]
        /\ UNCHANGED <<todo, posted, aged, produced>>
    BY <1>5, Zenon DEF Renders, machineVars
  <2>2. a \in Task /\ a.stage = "rendering" /\ a.seed = tasks[i].seed
    BY <1>t DEF Task
  <2>3. tasks[i].tries + 1 \in 0 .. RenderTries
    BY <1>t, <1>n, <2>1 DEF RenderSound, Task
  <2>. HIDE DEF a
  <2>4. b \in Task /\ b.stage = "rendering" /\ b.seed = tasks[i].seed
    BY <2>2, <2>3 DEF Task
  <2>. HIDE DEF b
  <2>5. t \in Task /\ t.stage = "rendering" /\ t.seed = tasks[i].seed /\ t.dir = {}
    BY <2>4 DEF Task
  <2>. HIDE DEF t
  <2>. QED BY <2>1, <2>5, RenderStep DEF RendersInv
<1>6. ASSUME NEW i \in Tasks, Writes(i) PROVE RendersInv'
  <2>. DEFINE t == [tasks[i] EXCEPT !.dir = {tasks[i].seed}]
  <2>1. /\ tasks[i].stage = "rendering" /\ tasks' = [tasks EXCEPT ![i] = t]
        /\ UNCHANGED <<todo, posted, aged, produced>>
    BY <1>6, Zenon DEF Writes, machineVars
  <2>2. t \in Task /\ t.stage = "rendering" /\ t.seed = tasks[i].seed /\ t.dir = {tasks[i].seed}
    BY <1>t, <2>1 DEF Task
  <2>. HIDE DEF t
  <2>. QED BY <2>1, <2>2, RenderStep DEF RendersInv
<1>7. ASSUME NEW i \in Tasks, ExitsWell(i) PROVE RendersInv'
  <2>. DEFINE C == Collected(i)
  <2>1. tasks[i].stage = "rendering" /\ UNCHANGED <<todo, posted, aged>>
    BY <1>7 DEF ExitsWell, machineVars
  <2>2. CASE C = {}
    BY <1>7, <2>1, <2>2, FailedRender DEF ExitsWell
  <2>3. CASE C # {}
    <3>1. C = {tasks[i].seed} /\ tasks[i].seed \in RenderSeeds
      BY <1>t, <2>1, <2>3 DEF Collected, RenderSound, Task
    <3>2. /\ produced' = produced \cup C
          /\ tasks' = [j \in Tasks |->
               IF j = i THEN [tasks[i] EXCEPT !.stage = "done", !.dir = {}, !.outputs = C]
               ELSE [tasks[j] EXCEPT !.dir = @ \ C]]
      BY <1>7, <2>3 DEF ExitsWell
    <3>. HIDE DEF C
    <3>3. \A j \in Tasks \ {i} :
            /\ tasks'[j] \in Task /\ tasks'[j].seed = tasks[j].seed
            /\ tasks'[j].stage = tasks[j].stage /\ tasks'[j].tries = tasks[j].tries
            /\ tasks'[j].dir \subseteq tasks[j].dir /\ tasks'[j].outputs = tasks[j].outputs
            /\ tasks[j] = NoTask => tasks'[j] = NoTask
      <4>. TAKE j \in Tasks \ {i}
      <4>1. tasks'[j] = [tasks[j] EXCEPT !.dir = tasks[j].dir \ C] /\ tasks[j] \in Task
        BY <1>t, <3>2
      <4>2. tasks[j] = NoTask => tasks'[j] = NoTask
        BY <4>1 DEF NoTask
      <4>. QED BY <4>1, <4>2 DEF Task
    <3>4. /\ tasks'[i] \in Task /\ tasks'[i].seed = tasks[i].seed /\ tasks'[i].stage = "done"
          /\ tasks'[i].outputs = C
      <4>. DEFINE a == [tasks[i] EXCEPT !.stage = "done"]
                  b == [a EXCEPT !.dir = {}]
                  t == [b EXCEPT !.outputs = C]
      <4>0. [tasks[i] EXCEPT !.stage = "done", !.dir = {}, !.outputs = C] = t
        BY Zenon
      <4>1. tasks'[i] = t
        BY <3>2, <4>0
      <4>2. a \in Task /\ a.stage = "done" /\ a.seed = tasks[i].seed
        BY <1>t DEF Task
      <4>. HIDE DEF a
      <4>3. b \in Task /\ b.stage = "done" /\ b.seed = tasks[i].seed
        BY <4>2 DEF Task
      <4>. HIDE DEF b
      <4>4. t \in Task /\ t.stage = "done" /\ t.seed = tasks[i].seed /\ t.outputs = C
        BY <3>1, <4>3 DEF Task
      <4>. QED BY <4>1, <4>4
    <3>5. tasks' \in [Tasks -> Task]
      BY <3>2, <3>3, <3>4
    <3>6. RenderSound(i)'
      <4>1. ~(i > posted) /\ tasks[i].seed < i
        BY <1>t, <2>1, NoTaskIs DEF RenderSound
      <4>. QED BY <2>1, <3>1, <3>2, <3>4, <4>1 DEF RenderSound
    <3>7. ASSUME NEW j \in Tasks \ {i} PROVE RenderSound(j)'
      <4>1. RenderSound(j)
        BY <1>t
      <4>2. /\ tasks'[j].seed = tasks[j].seed
            /\ tasks'[j].stage = tasks[j].stage /\ tasks'[j].tries = tasks[j].tries
            /\ tasks'[j].dir \subseteq tasks[j].dir /\ tasks'[j].outputs = tasks[j].outputs
            /\ tasks[j] = NoTask => tasks'[j] = NoTask
        BY <3>3
      <4>3. posted' = posted /\ produced \subseteq produced'
        BY <2>1, <3>2
      <4>. QED BY <4>1, <4>2, <4>3 DEF RenderSound
    <3>. QED BY <2>1, <3>1, <3>2, <3>5, <3>6, <3>7 DEF RendersInv, PassSound
  <2>. QED BY <2>2, <2>3
<1>8. ASSUME NEW i \in Tasks, ExitsBadly(i) \/ Killed(i) PROVE RendersInv'
  BY <1>8, FailedRender DEF ExitsBadly, Killed, machineVars
<1>9. CASE UNCHANGED renderVars
  BY <1>9 DEF renderVars, RendersInv, PassSound, RenderSound
<1>. QED BY <1>1, <1>2, <1>3, <1>4, <1>5, <1>6, <1>7, <1>8, <1>9 DEF RendersNext

\* A render that succeeded names the image it made itself and no other, and
\* that image is there.
THEOREM OutputsAreOnesOwn == RendersSpec => []OwnOutputs
<1>1. RendersInv => OwnOutputs
  BY DEF RendersInv, RenderSound, OwnOutputs, At
<1>. QED BY <1>1, RendersStart, RendersStep, PTL DEF RendersSpec

\* The attempts of a render that are over.
Ended(tk) == [i \in Tasks |-> IF tk[i].stage = "rendering" THEN tk[i].tries - 1 ELSE tk[i].tries]

\* No attempt leaves more than one directory behind.
Littered ==
  /\ \A i \in Tasks : tasks[i].stage = "rendering" => tasks[i].tries >= 1
  /\ staged \in Nat /\ staged <= SumOf(Ended(tasks), Tasks)

LEMMA TasksFinite == IsFiniteSet(Tasks) /\ Cardinality(Tasks) = MaxTasks
BY FS_Interval, RendersAssumption DEF Tasks

LEMMA EndedIs ==
  ASSUME RendersInv, Littered
  PROVE  /\ Ended(tasks) \in [Tasks -> Nat]
         /\ \A i \in Tasks : Ended(tasks)[i] <= RenderTries
         /\ SumOf(Ended(tasks), Tasks) \in Nat
<1>1. \A i \in Tasks : /\ tasks[i].tries \in Nat /\ tasks[i].tries <= RenderTries
                       /\ tasks[i].stage = "rendering" => tasks[i].tries >= 1
  BY RendersAssumption DEF RendersInv, Littered, Task
<1>2. Ended(tasks) \in [Tasks -> Nat] /\ \A i \in Tasks : Ended(tasks)[i] <= RenderTries
  BY <1>1, RendersAssumption DEF Ended
<1>3. SumOf(Ended(tasks), Tasks) \in Nat
  BY <1>2, TasksFinite, SumTaken
<1>. QED BY <1>2, <1>3

\* A step that ends at most one attempt, and leaves a directory only if it does.
LEMMA LitteredStep ==
  ASSUME RendersInv, Littered, RendersInv', NEW i \in Tasks,
         \A j \in Tasks : tasks'[j].stage = "rendering" => tasks'[j].tries >= 1,
         \A j \in Tasks \ {i} : Ended(tasks')[j] = Ended(tasks)[j],
         \/ staged' = staged /\ Ended(tasks')[i] >= Ended(tasks)[i]
         \/ staged' = staged + 1 /\ Ended(tasks')[i] >= Ended(tasks)[i] + 1
  PROVE  Littered'
<1>. DEFINE f == Ended(tasks)  g == Ended(tasks')
<1>1. f \in [Tasks -> Nat] /\ SumOf(f, Tasks) \in Nat
  BY EndedIs
<1>2. g \in [Tasks -> Nat]
  <2>1. \A j \in Tasks : /\ tasks'[j].tries \in Nat
                         /\ tasks'[j].stage = "rendering" => tasks'[j].tries >= 1
    BY RendersAssumption DEF RendersInv, Task
  <2>. QED BY <2>1 DEF Ended
<1>. HIDE DEF f, g
<1>3. SumOf(g, Tasks) + f[i] = SumOf(f, Tasks) + g[i] /\ SumOf(g, Tasks) \in Nat
  <2>1. \A j \in Tasks \ {i} : g[j] = f[j]
    BY DEF f, g
  <2>. QED BY <1>1, <1>2, <2>1, TasksFinite, SumOneChanged, SumTaken
<1>4. staged \in Nat /\ staged <= SumOf(f, Tasks)
  BY DEF Littered, f
<1>5. f[i] \in Nat /\ g[i] \in Nat
  BY <1>1, <1>2
<1>6. \/ staged' = staged /\ g[i] >= f[i]
      \/ staged' = staged + 1 /\ g[i] >= f[i] + 1
  BY DEF f, g
<1>7. staged' \in Nat /\ staged' <= SumOf(g, Tasks)
  BY <1>1, <1>3, <1>4, <1>5, <1>6
<1>. QED BY <1>7 DEF Littered, g

LEMMA LitteredSteps ==
  RendersInv /\ Littered /\ [RendersNext]_renderVars => Littered'
<1>. SUFFICES ASSUME RendersInv, Littered, [RendersNext]_renderVars PROVE Littered'
  OBVIOUS
<1>i. RendersInv'
  BY RendersStep
<1>t. /\ tasks \in [Tasks -> Task] /\ tasks' \in [Tasks -> Task]
      /\ \A j \in Tasks : tasks[j].stage = "rendering" => tasks[j].tries >= 1
  BY <1>i DEF RendersInv, Littered
<1>e. \A j \in Tasks : /\ Ended(tasks)[j] = IF tasks[j].stage = "rendering" THEN tasks[j].tries - 1
                                            ELSE tasks[j].tries
                       /\ Ended(tasks')[j] = IF tasks'[j].stage = "rendering" THEN tasks'[j].tries - 1
                                             ELSE tasks'[j].tries
                       /\ tasks[j].tries \in Nat /\ tasks'[j].tries \in Nat
  BY <1>t, RendersAssumption DEF Ended, Task
<1>1. CASE UNCHANGED <<tasks, staged>>
  BY <1>1 DEF Littered
<1>2. CASE Approves
  <2>. DEFINE i == posted + 1
              t == [NoTask EXCEPT !.seed = Head(todo), !.stage = "queued"]
  <2>1. i \in Tasks /\ tasks[i] = NoTask
    <3>1. todo # <<>> /\ todo \in Seq(RenderSeeds) /\ posted \in Nat /\ posted + Len(todo) <= MaxTasks
      BY <1>2 DEF Approves, RendersInv, PassSound
    <3>2. i \in Tasks
      BY <3>1, RendersAssumption DEF Tasks
    <3>. QED BY <3>1, <3>2 DEF RendersInv, RenderSound
  <2>2. tasks' = [tasks EXCEPT ![i] = t] /\ UNCHANGED staged
    BY <1>2 DEF Approves
  <2>3. t.stage = "queued" /\ t.tries = 0
    BY NoTaskIs DEF Task
  <2>. HIDE DEF i, t
  <2>4. /\ tasks'[i].stage = "queued" /\ tasks'[i].tries = 0
        /\ \A j \in Tasks \ {i} : tasks'[j] = tasks[j]
    BY <1>t, <2>1, <2>2, <2>3
  <2>5. \A j \in Tasks : tasks'[j].stage = "rendering" => tasks'[j].tries >= 1
    BY <1>t, <2>4
  <2>6. \A j \in Tasks \ {i} : Ended(tasks')[j] = Ended(tasks)[j]
    BY <1>e, <2>4
  <2>7. Ended(tasks')[i] = 0 /\ Ended(tasks)[i] = 0
    BY <1>e, <2>1, <2>4, NoTaskIs
  <2>8. Ended(tasks')[i] >= Ended(tasks)[i] /\ staged' = staged
    BY <2>2, <2>7
  <2>. QED BY <1>i, <2>1, <2>5, <2>6, <2>8, LitteredStep
<1>3. ASSUME NEW i \in Tasks, Renders(i) \/ Writes(i) \/ ExitsWell(i) \/ ExitsBadly(i) \/ Killed(i)
      PROVE  Littered'
  <2>1. \A j \in Tasks \ {i} : tasks'[j].stage = tasks[j].stage /\ tasks'[j].tries = tasks[j].tries
    BY <1>3, <1>t DEF Renders, Writes, ExitsWell, ExitsBadly, Killed, Fails, Task
  <2>2. \/ /\ staged' = staged
           /\ \/ /\ tasks[i].stage = "queued" /\ tasks'[i].stage = "rendering"
                 /\ tasks'[i].tries = tasks[i].tries + 1
              \/ tasks[i].stage = "rendering" /\ tasks'[i].tries = tasks[i].tries
        \/ /\ staged' = staged + 1 /\ tasks[i].stage = "rendering"
           /\ tasks'[i].stage # "rendering" /\ tasks'[i].tries = tasks[i].tries
    <3>1. CASE Renders(i)
      BY <1>t, <3>1 DEF Renders, Task
    <3>2. CASE Writes(i)
      BY <1>t, <3>2 DEF Writes, Task
    <3>3. CASE ExitsWell(i)
      <4>1. staged' = staged /\ tasks[i].stage = "rendering"
        BY <3>3 DEF ExitsWell
      <4>2. tasks'[i].tries = tasks[i].tries
        <5>1. CASE Collected(i) = {}
          BY <1>t, <3>3, <5>1 DEF ExitsWell, Fails, Task
        <5>2. CASE Collected(i) # {}
          <6>1. tasks'[i] = [tasks[i] EXCEPT !.stage = "done", !.dir = {}, !.outputs = Collected(i)]
            BY <3>3, <5>2 DEF ExitsWell
          <6>. QED BY <1>t, <6>1 DEF Task
        <5>. QED BY <5>1, <5>2
      <4>3. tasks[i].tries \in Nat /\ tasks'[i].tries \in Nat
        BY <1>e
      <4>. QED BY <4>1, <4>2, <4>3
    <3>4. CASE ExitsBadly(i)
      BY <1>t, <3>4 DEF ExitsBadly, Fails, Task
    <3>5. CASE Killed(i)
      BY <1>t, <3>5 DEF Killed, Fails, Task
    <3>. QED BY <1>3, <3>1, <3>2, <3>3, <3>4, <3>5
  <2>3. \A j \in Tasks : tasks'[j].stage = "rendering" => tasks'[j].tries >= 1
    <3>1. tasks'[i].stage = "rendering" => tasks'[i].tries >= 1
      BY <1>t, <1>e, <2>2
    <3>. QED BY <1>t, <2>1, <3>1
  <2>4. \A j \in Tasks \ {i} : Ended(tasks')[j] = Ended(tasks)[j]
    BY <1>e, <2>1
  <2>5. \/ staged' = staged /\ Ended(tasks')[i] >= Ended(tasks)[i]
        \/ staged' = staged + 1 /\ Ended(tasks')[i] >= Ended(tasks)[i] + 1
    BY <1>t, <1>e, <2>2
  <2>. QED BY <1>i, <2>3, <2>4, <2>5, LitteredStep
<1>4. \/ UNCHANGED <<tasks, staged>> \/ Approves
      \/ \E i \in Tasks : Renders(i) \/ Writes(i) \/ ExitsWell(i) \/ ExitsBadly(i) \/ Killed(i)
  BY Zenon DEF RendersNext, renderVars, Pass, PassDies, Ages
<1>. QED BY <1>1, <1>2, <1>3, <1>4

\* Renders, seeds and directories keep their types, and no more staging
\* directories are left behind than there were attempts.
THEOREM RendersTypeCorrect == RendersSpec => []RendersTypeOK
<1>1. RendersInit => Littered
  <2>. SUFFICES ASSUME RendersInit PROVE Littered
    OBVIOUS
  <2>1. RendersInv /\ staged = 0 /\ \A i \in Tasks : tasks[i] = NoTask
    BY RendersStart DEF RendersInit
  <2>2. \A i \in Tasks : Ended(tasks)[i] = 0
    BY <2>1, NoTaskIs DEF Ended
  <2>3. Ended(tasks) \in [Tasks -> Nat]
    BY <2>2 DEF Ended
  <2>4. SumOf(Ended(tasks), Tasks) \in Nat
    BY <2>3, TasksFinite, SumTaken
  <2>. QED BY <2>1, <2>4, NoTaskIs DEF Littered
<1>2. RendersInv /\ Littered => RendersTypeOK
  <2>. SUFFICES ASSUME RendersInv, Littered PROVE RendersTypeOK
    OBVIOUS
  <2>1. SumOf(Ended(tasks), Tasks) <= Cardinality(Tasks) * RenderTries
    <3>1. RenderTries \in Nat
      BY RendersAssumption
    <3>. QED BY <3>1, EndedIs, TasksFinite, SumBounded
  <2>. DEFINE most == MaxTasks * RenderTries
  <2>2. most \in Nat
    BY RendersAssumption
  <2>3. SumOf(Ended(tasks), Tasks) <= most
    BY <2>1, TasksFinite
  <2>4. SumOf(Ended(tasks), Tasks) \in Nat
    BY EndedIs
  <2>. HIDE DEF most
  <2>5. staged \in 0 .. most
    BY <2>2, <2>3, <2>4 DEF Littered
  <2>6. staged \in 0 .. MaxTasks * RenderTries
    BY <2>5 DEF most
  <2>. QED BY <2>6 DEF RendersInv, PassSound, RendersTypeOK
<1>. QED BY <1>1, <1>2, RendersStart, RendersStep, LitteredSteps, PTL DEF RendersSpec
----------------------------------------------------------------------------
(* Self-heal.  The budgets are kept by what is written down; what is not   *)
(* written down is what cut-short passes have done, or was in a torn file. *)

\* The repairs written down, and those of a span of time before a moment.
WrittenWithin(parts, span, moment) ==
  {x \in Parts \X Times : x[2] \in parts[x[1]].repairs /\ moment - x[2] < span}

WrittenOf(parts, p, span, moment) == {t \in Times : t \in parts[p].repairs /\ moment - t < span}

\* Both budgets are kept by what is written down.
WithinBudgets(parts, moment) ==
  /\ \A p \in Parts : Cardinality(WrittenOf(parts, p, Hour, moment)) <= PerHour
  /\ Cardinality(WrittenWithin(parts, Day, moment)) <= PerDay

\* Repairs of earlier passes that no pass lived to write down.
Unwritten ==
  {x \in Parts \X Times : /\ x[2] \in performed[x[1]] /\ x[2] < now /\ now - x[2] < Day
                          /\ x[2] \notin healed.parts[x[1]].repairs}

\* What a pass still does is in what it is going to write.
PlannedIn(next) ==
  {a \in Action : /\ a.do # "snapshot" => now \in next.parts[a.part].repairs
                  /\ a.do = "rollback" => good # NoBuild}

\* What a pass is going to write keeps both budgets, and forgets nothing that
\* still counts.
PlanSound ==
  /\ plan.todo \in Seq(PlannedIn(plan.next))
  /\ WithinBudgets(plan.next.parts, now)
  /\ \A p \in Parts, t \in Times :
       /\ t \in healed.parts[p].repairs /\ now - t < Day => t \in plan.next.parts[p].repairs
       /\ t \in plan.next.parts[p].repairs => t <= now
       /\ t \in performed[p] => t <= now
       /\ t = now /\ t \in performed[p] => t \in plan.next.parts[p].repairs

Rested ==
  /\ \A p \in Parts, t \in Times : t \in healed.parts[p].repairs => t < now
  /\ ~plan.active => \A p \in Parts, t \in Times : t \in performed[p] => t < now

HealInv ==
  /\ SelfHealTypeOK
  /\ plan = [active |-> plan.active, todo |-> plan.todo, next |-> plan.next]
  /\ now >= 1
  /\ WithinBudgets(healed.parts, now)
  /\ Cardinality(Unwritten) <= cut
  /\ Rested
  /\ plan.active => PlanSound

----------------------------------------------------------------------------
LEMMA PartsFinite == IsFiniteSet(Parts) /\ Parts = {"backend", "frontend", "public"}
<1>1. IsFiniteSet({"backend"}) /\ IsFiniteSet({"frontend"}) /\ IsFiniteSet({"public"})
  BY FS_Singleton
<1>2. IsFiniteSet({"backend"} \cup {"frontend"})
  BY <1>1, FS_Union
<1>3. IsFiniteSet(({"backend"} \cup {"frontend"}) \cup {"public"})
  BY <1>1, <1>2, FS_Union
<1>4. Parts = ({"backend"} \cup {"frontend"}) \cup {"public"}
  BY DEF Parts
<1>. QED BY <1>3, <1>4 DEF Parts

LEMMA TimesFinite == IsFiniteSet(Times) /\ IsFiniteSet(Parts \X Times)
<1>1. IsFiniteSet(Times)
  BY FS_Interval, SelfHealAssumption DEF Times
<1>. QED BY <1>1, PartsFinite, FS_Product

LEMMA SetsFinite ==
  ASSUME NEW parts, NEW span, NEW p, NEW moment
  PROVE  /\ IsFiniteSet(WrittenWithin(parts, span, moment))
         /\ IsFiniteSet(WrittenOf(parts, p, span, moment))
         /\ Cardinality(WrittenWithin(parts, span, moment)) \in Nat
         /\ Cardinality(WrittenOf(parts, p, span, moment)) \in Nat
<1>1. /\ WrittenWithin(parts, span, moment) \subseteq Parts \X Times
      /\ WrittenOf(parts, p, span, moment) \subseteq Times
  BY DEF WrittenWithin, WrittenOf
<1>. QED BY <1>1, TimesFinite, FS_Subset, FS_CardinalityType

LEMMA UnwrittenFinite == IsFiniteSet(Unwritten) /\ Cardinality(Unwritten) \in Nat
<1>1. Unwritten \subseteq Parts \X Times
  BY DEF Unwritten
<1>. QED BY <1>1, TimesFinite, FS_Subset, FS_CardinalityType

LEMMA BoundedBy ==
  ASSUME NEW T, IsFiniteSet(T), NEW S, S \subseteq T, NEW n \in Nat, Cardinality(T) <= n
  PROVE  IsFiniteSet(S) /\ Cardinality(S) <= n
<1>1. Cardinality(S) <= Cardinality(T) /\ IsFiniteSet(S)
  BY FS_Subset
<1>2. Cardinality(S) \in Nat /\ Cardinality(T) \in Nat
  BY <1>1, FS_CardinalityType
<1>. QED BY <1>1, <1>2

\* One more at most.
LEMMA OneMore ==
  ASSUME NEW T, IsFiniteSet(T), NEW x, NEW S, S \subseteq T \cup {x},
         NEW n \in Nat, Cardinality(T) <= n
  PROVE  IsFiniteSet(S) /\ Cardinality(S) <= n + 1
<1>1. IsFiniteSet(T \cup {x}) /\ Cardinality(T \cup {x}) <= n + 1
  <2>1. IsFiniteSet(T \cup {x})
        /\ Cardinality(T \cup {x}) = IF x \in T THEN Cardinality(T) ELSE Cardinality(T) + 1
    BY FS_AddElement
  <2>2. Cardinality(T) \in Nat
    BY FS_CardinalityType
  <2>. QED BY <2>1, <2>2
<1>. QED BY <1>1, BoundedBy

\* What is in either of two sets.
LEMMA InEither ==
  ASSUME NEW T, IsFiniteSet(T), NEW U, IsFiniteSet(U), NEW S, S \subseteq T \cup U,
         NEW m \in Nat, NEW n \in Nat, Cardinality(T) <= m, Cardinality(U) <= n
  PROVE  Cardinality(S) <= m + n
<1>1. /\ IsFiniteSet(T \cup U)
      /\ Cardinality(T \cup U) = Cardinality(T) + Cardinality(U) - Cardinality(T \cap U)
  BY FS_Union
<1>2. Cardinality(T) \in Nat /\ Cardinality(U) \in Nat /\ Cardinality(T \cap U) \in Nat
  BY FS_CardinalityType, FS_Intersection
<1>3. Cardinality(T \cup U) <= m + n
  BY <1>1, <1>2
<1>. QED BY <1>1, <1>3, BoundedBy

----------------------------------------------------------------------------
(* decide.                                                                 *)

LEMMA JudgedSound ==
  ASSUME NEW s \in Streaks, NEW r \in BOOLEAN, now \in Times
  PROVE  /\ Judged(s, r) \in Streaks
         /\ Judged(s, r).repairs = IF r THEN s.repairs \cup {now} ELSE s.repairs
<1>2. CASE r
  <2>. DEFINE a == [s EXCEPT !.level = 1]
              b == [a EXCEPT !.repairs = @ \cup {now}]
  <2>1. Judged(s, r) = [s EXCEPT !.level = 1, !.repairs = @ \cup {now}]
    BY <1>2, Zenon DEF Judged
  <2>2. a \in Streaks /\ a.repairs = s.repairs
    BY DEF Streaks
  <2>3. b = [s EXCEPT !.level = 1, !.repairs = @ \cup {now}]
    BY <2>2, Zenon
  <2>. HIDE DEF a
  <2>4. b \in Streaks /\ b.repairs = s.repairs \cup {now}
    BY <2>2 DEF Streaks
  <2>. QED BY <1>2, <2>1, <2>3, <2>4, Zenon
<1>3. CASE ~r
  BY <1>3 DEF Judged
<1>. QED BY <1>2, <1>3

LEMMA CountedSound ==
  ASSUME NEW s \in Streaks, NEW probe
  PROVE  /\ Counted(s, probe) \in Streaks
         /\ Counted(s, probe).repairs = Within(s.repairs, Day)
<1>. DEFINE kept == [s EXCEPT !.repairs = Within(@, Day)]
<1>1. kept \in Streaks /\ kept.repairs = Within(s.repairs, Day)
  <2>1. Within(s.repairs, Day) \subseteq Times
    BY DEF Streaks, Within
  <2>. QED BY <2>1 DEF Streaks
<1>2. Counted(s, probe) =
        IF probe = "ok"
        THEN [kept EXCEPT !.oks = UpTo(@ + 1, Confirmations), !.fails = 0, !.level = 0]
        ELSE [kept EXCEPT !.oks = 0, !.fails = UpTo(@ + 1, Threshold)]
  BY DEF Counted
<1>. HIDE DEF kept
<1>3. /\ Threshold \in Nat /\ Confirmations \in Nat
      /\ kept.oks \in 0 .. Confirmations /\ kept.fails \in 0 .. Threshold
  BY <1>1, SelfHealAssumption DEF Streaks
<1>4. UpTo(kept.oks + 1, Confirmations) \in 0 .. Confirmations
      /\ UpTo(kept.fails + 1, Threshold) \in 0 .. Threshold
  BY <1>3 DEF UpTo
<1>5. CASE probe = "ok"
  <2>. DEFINE a == [kept EXCEPT !.oks = UpTo(@ + 1, Confirmations)]
              b == [a EXCEPT !.fails = 0]
              d == [b EXCEPT !.level = 0]
  <2>1. Counted(s, probe) = d
    BY <1>2, <1>5, Zenon
  <2>2. a \in Streaks /\ a.repairs = kept.repairs
    BY <1>1, <1>4 DEF Streaks
  <2>. HIDE DEF a
  <2>3. b \in Streaks /\ b.repairs = kept.repairs
    BY <2>2, <1>3 DEF Streaks
  <2>. HIDE DEF b
  <2>4. d \in Streaks /\ d.repairs = kept.repairs
    BY <2>3 DEF Streaks
  <2>. QED BY <2>1, <2>4, <1>1
<1>6. CASE probe # "ok"
  <2>. DEFINE a == [kept EXCEPT !.oks = 0]
              b == [a EXCEPT !.fails = UpTo(@ + 1, Threshold)]
  <2>1. Counted(s, probe) = b
    BY <1>2, <1>6, Zenon
  <2>2. a \in Streaks /\ a.repairs = kept.repairs /\ a.fails = kept.fails
    BY <1>1, <1>3 DEF Streaks
  <2>. HIDE DEF a
  <2>3. b \in Streaks /\ b.repairs = kept.repairs
    BY <2>2, <1>4 DEF Streaks
  <2>. QED BY <2>1, <2>3, <1>1
<1>. QED BY <1>5, <1>6

\* What decide decides: each repair it adds was within both budgets, after the
\* ones it had decided on before.
DecidedOn(next, acts, c, r) ==
  /\ c \in [Parts -> Streaks] /\ r \in [Parts -> BOOLEAN]
  /\ \A p \in Parts : c[p].repairs = Within(healed.parts[p].repairs, Day)
  /\ next = [parts |-> [p \in Parts |-> Judged(c[p], r[p])], fingerprint |-> healed.fingerprint]
  /\ \A p \in Parts : r[p] => Cardinality(Within(c[p].repairs, Hour)) < PerHour
  /\ r["backend"] => Spent(c, 0) < PerDay
  /\ r["frontend"] => Spent(c, IF r["backend"] THEN 1 ELSE 0) < PerDay
  /\ r["public"] => Spent(c, IF r["frontend"] THEN (IF r["backend"] THEN 1 ELSE 0) + 1
                             ELSE IF r["backend"] THEN 1 ELSE 0) < PerDay
  /\ \E keep \in Seq({a \in Action : a.do = "snapshot"}) :
       acts = (IF r["backend"] THEN <<HealStep("backend", c["backend"])>> ELSE <<>>)
              \o (IF r["frontend"] THEN <<HealStep("frontend", c["frontend"])>> ELSE <<>>)
              \o (IF r["public"] THEN <<HealStep("public", c["public"])>> ELSE <<>>) \o keep

LEMMA DecidedIs ==
  ASSUME SelfHealTypeOK, NEW probes \in Probes
  PROVE  /\ Decided(probes) = [active |-> TRUE, todo |-> Decided(probes).todo,
                               next |-> Decided(probes).next]
         /\ \E c, r : DecidedOn(Decided(probes).next, Decided(probes).todo, c, r)
<1>. DEFINE c == [p \in Parts |-> Counted(healed.parts[p], probes[p])]
            back == Repairs(c.backend, probes.backend, FALSE, Spent(c, 0))
            n == IF back THEN 1 ELSE 0
            front == Repairs(c.frontend, probes.frontend, FALSE, Spent(c, n))
            blocked == \/ probes.frontend # "ok" \/ c.frontend.oks < Confirmations
                       \/ probes.public = "elsewhere"
            pub == Repairs(c.public, probes.public, blocked,
                           Spent(c, IF front THEN n + 1 ELSE n))
            r == [backend |-> back, frontend |-> front, public |-> pub]
            steps(p) == IF r[p] THEN <<HealStep(p, c[p])>> ELSE <<>>
            keep == IF /\ probes.frontend = "ok" /\ c.frontend.oks >= Confirmations
                       /\ build # healed.fingerprint
                    THEN <<[part |-> "frontend", do |-> "snapshot", seen |-> build]>> ELSE <<>>
            acts == steps("backend") \o steps("frontend") \o steps("public") \o keep
            next == [parts |-> [p \in Parts |-> Judged(c[p], r[p])],
                     fingerprint |-> healed.fingerprint]
<1>1. Decided(probes) = [active |-> TRUE, todo |-> acts, next |-> next]
  BY Zenon DEF Decided
<1>2. Decided(probes).todo = acts /\ Decided(probes).next = next
  <2>. HIDE DEF acts, next
  <2>. QED BY <1>1
<1>3. c \in [Parts -> Streaks]
      /\ \A p \in Parts : c[p].repairs = Within(healed.parts[p].repairs, Day)
  <2>1. \A p \in Parts : healed.parts[p] \in Streaks
    BY DEF SelfHealTypeOK, Healed
  <2>. QED BY <2>1, CountedSound, Zenon
<1>4. back \in BOOLEAN /\ front \in BOOLEAN /\ pub \in BOOLEAN
  BY Zenon DEF Repairs
<1>5. r["backend"] = back /\ r["frontend"] = front /\ r["public"] = pub
  BY Zenon
<1>5a. r \in [Parts -> BOOLEAN]
  <2>. HIDE DEF back, front, pub
  <2>. QED BY <1>4 DEF Parts
<1>6. /\ back => Spent(c, 0) < PerDay /\ Cardinality(Within(c["backend"].repairs, Hour)) < PerHour
      /\ front => Spent(c, n) < PerDay /\ Cardinality(Within(c["frontend"].repairs, Hour)) < PerHour
      /\ pub => Spent(c, IF front THEN n + 1 ELSE n) < PerDay
                /\ Cardinality(Within(c["public"].repairs, Hour)) < PerHour
  <2>. HIDE DEF c, n, blocked
  <2>. QED BY Zenon DEF Repairs
<1>7. keep \in Seq({a \in Action : a.do = "snapshot"})
  <2>1. build \in 0 .. MaxBuilds
    BY SelfHealAssumption DEF SelfHealTypeOK
  <2>2. [part |-> "frontend", do |-> "snapshot", seen |-> build] \in {a \in Action : a.do = "snapshot"}
    BY <2>1 DEF Action, Parts
  <2>. DEFINE x == [part |-> "frontend", do |-> "snapshot", seen |-> build]
              S == {a \in Action : a.do = "snapshot"}
  <2>3. keep = <<x>> \/ keep = <<>>
    BY Zenon
  <2>4. x \in S
    BY <2>2
  <2>. HIDE DEF keep, x, S
  <2>5. <<x>> \in Seq(S) /\ <<>> \in Seq(S)
    BY <2>4
  <2>6. keep \in Seq(S)
    BY <2>3, <2>5, Zenon
  <2>. QED BY <2>6 DEF S
<1>8. DecidedOn(next, acts, c, r)
  <2>1. \A p \in Parts : r[p] => Cardinality(Within(c[p].repairs, Hour)) < PerHour
    <3>. HIDE DEF c, back, front, pub, n, r
    <3>. QED BY <1>5, <1>6 DEF Parts
  <2>2. /\ r["backend"] => Spent(c, 0) < PerDay
        /\ r["frontend"] => Spent(c, IF r["backend"] THEN 1 ELSE 0) < PerDay
        /\ r["public"] => Spent(c, IF r["frontend"] THEN (IF r["backend"] THEN 1 ELSE 0) + 1
                                   ELSE IF r["backend"] THEN 1 ELSE 0) < PerDay
    <3>. HIDE DEF c, back, front, pub, r
    <3>. QED BY <1>5, <1>6, Zenon
  <2>3. acts = (IF r["backend"] THEN <<HealStep("backend", c["backend"])>> ELSE <<>>)
               \o (IF r["frontend"] THEN <<HealStep("frontend", c["frontend"])>> ELSE <<>>)
               \o (IF r["public"] THEN <<HealStep("public", c["public"])>> ELSE <<>>) \o keep
    <3>. HIDE DEF c, r, keep
    <3>1. acts = steps("backend") \o steps("frontend") \o steps("public") \o keep
      <4>. HIDE DEF steps
      <4>. QED BY Zenon
    <3>2. /\ steps("backend") = IF r["backend"] THEN <<HealStep("backend", c["backend"])>> ELSE <<>>
          /\ steps("frontend")
               = IF r["frontend"] THEN <<HealStep("frontend", c["frontend"])>> ELSE <<>>
          /\ steps("public") = IF r["public"] THEN <<HealStep("public", c["public"])>> ELSE <<>>
      BY Zenon
    <3>. HIDE DEF acts, steps
    <3>. QED BY <3>1, <3>2, Zenon
  <2>4. next = [parts |-> [p \in Parts |-> Judged(c[p], r[p])], fingerprint |-> healed.fingerprint]
    BY Zenon
  <2>. HIDE DEF c, r, keep, acts, next
  <2>. QED BY <1>3, <1>5a, <1>7, <2>1, <2>2, <2>3, <2>4, Zenon DEF DecidedOn
<1>. HIDE DEF c, r, acts, next
<1>9. \E x, y : DecidedOn(next, acts, x, y)
  BY <1>8, Zenon
<1>. QED BY <1>1, <1>2, <1>9, Zenon

----------------------------------------------------------------------------
LEMMA Constants ==
  /\ PerHour \in Nat /\ PerDay \in Nat /\ Hour \in Nat /\ Day \in Nat /\ Hour <= Day
  /\ MaxTime \in Nat /\ MaxBuilds \in Nat /\ MaxBuilds >= 1 /\ MaxTime >= 1
  /\ PerHour >= 1 /\ PerDay >= 1 /\ Hour >= 1
BY SelfHealAssumption

\* Time alone leaves the budgets kept.
LEMMA BudgetsLast ==
  ASSUME NEW parts, NEW m \in Nat, WithinBudgets(parts, m)
  PROVE  WithinBudgets(parts, m + 1)
<1>1. ASSUME NEW p \in Parts
      PROVE  Cardinality(WrittenOf(parts, p, Hour, m + 1)) <= PerHour
  <2>1. WrittenOf(parts, p, Hour, m + 1) \subseteq WrittenOf(parts, p, Hour, m)
    BY Constants DEF WrittenOf, Times
  <2>2. Cardinality(WrittenOf(parts, p, Hour, m)) <= PerHour
    BY DEF WithinBudgets
  <2>. QED BY <2>1, <2>2, SetsFinite, BoundedBy, Constants
<1>2. Cardinality(WrittenWithin(parts, Day, m + 1)) <= PerDay
  <2>1. WrittenWithin(parts, Day, m + 1) \subseteq WrittenWithin(parts, Day, m)
    BY Constants DEF WrittenWithin, Times
  <2>2. Cardinality(WrittenWithin(parts, Day, m)) <= PerDay
    BY DEF WithinBudgets
  <2>. QED BY <2>1, <2>2, SetsFinite, BoundedBy, Constants
<1>. QED BY <1>1, <1>2 DEF WithinBudgets

\* What a pass decides on is in what it is going to write.
LEMMA DecidedRepairs ==
  ASSUME SelfHealTypeOK, NEW next, NEW acts, NEW c, NEW r, DecidedOn(next, acts, c, r)
  PROVE  /\ next \in Healed
         /\ \A p \in Parts, t \in Times :
              t \in next.parts[p].repairs
                <=> \/ t \in healed.parts[p].repairs /\ now - t < Day
                    \/ r[p] /\ t = now
<1>1. now \in Times /\ healed.fingerprint \in 0 .. MaxBuilds
  BY DEF SelfHealTypeOK, Healed
<1>2. \A p \in Parts : c[p] \in Streaks /\ r[p] \in BOOLEAN
                       /\ c[p].repairs = Within(healed.parts[p].repairs, Day)
  BY DEF DecidedOn
<1>3. \A p \in Parts : /\ Judged(c[p], r[p]) \in Streaks
                       /\ Judged(c[p], r[p]).repairs
                            = IF r[p] THEN c[p].repairs \cup {now} ELSE c[p].repairs
  BY <1>1, <1>2, JudgedSound
<1>4. next = [parts |-> [p \in Parts |-> Judged(c[p], r[p])], fingerprint |-> healed.fingerprint]
  BY DEF DecidedOn
<1>5. next.parts = [p \in Parts |-> Judged(c[p], r[p])]
  BY <1>4
<1>6. next.parts \in [Parts -> Streaks]
  BY <1>3, <1>5
<1>7. next \in Healed
  BY <1>1, <1>4, <1>5, <1>6 DEF Healed
<1>8. ASSUME NEW p \in Parts, NEW t \in Times
      PROVE  t \in next.parts[p].repairs
                <=> \/ t \in healed.parts[p].repairs /\ now - t < Day
                    \/ r[p] /\ t = now
  <2>1. next.parts[p].repairs = IF r[p] THEN c[p].repairs \cup {now} ELSE c[p].repairs
    BY <1>3, <1>5
  <2>2. t \in c[p].repairs <=> t \in healed.parts[p].repairs /\ now - t < Day
    BY <1>2 DEF Within
  <2>. QED BY <2>1, <2>2
<1>. QED BY <1>7, <1>8

LEMMA DecidedTodo ==
  ASSUME SelfHealTypeOK, NEW next, NEW acts, NEW c, NEW r, DecidedOn(next, acts, c, r)
  PROVE  acts \in Seq(PlannedIn(next))
<1>. DEFINE S == PlannedIn(next)
            stepOf(p) == IF r[p] THEN <<HealStep(p, c[p])>> ELSE <<>>
<1>1. now \in Times
  BY DEF SelfHealTypeOK
<1>2. ASSUME NEW p \in Parts, r[p]
      PROVE  HealStep(p, c[p]) \in S
  <2>. DEFINE x == HealStep(p, c[p])
  <2>1. /\ x.part = p /\ x.seen = NoBuild
        /\ x.do = IF p = "frontend" /\ c[p].level = 1 /\ good # NoBuild THEN "rollback" ELSE "restart"
        /\ x = [part |-> x.part, seen |-> x.seen, do |-> x.do]
    BY DEF HealStep
  <2>2. now \in next.parts[p].repairs
    BY <1>1, <1>2, DecidedRepairs
  <2>. HIDE DEF x
  <2>3. x \in Action
    BY <2>1, Constants DEF Action, NoBuild
  <2>. QED BY <2>1, <2>2, <2>3 DEF PlannedIn, x
<1>3. {a \in Action : a.do = "snapshot"} \subseteq S
  BY DEF PlannedIn
<1>4. PICK keep \in Seq({a \in Action : a.do = "snapshot"}) :
        acts = stepOf("backend") \o stepOf("frontend") \o stepOf("public") \o keep
  BY Zenon DEF DecidedOn
<1>5. keep \in Seq(S)
  BY <1>3, <1>4
<1>6. ASSUME NEW p \in Parts
      PROVE  stepOf(p) \in Seq(S)
  <2>1. CASE r[p]
    <3>. DEFINE x == HealStep(p, c[p])
    <3>1. stepOf(p) = <<x>> /\ x \in S
      BY <1>2, <2>1, Zenon
    <3>. HIDE DEF x, S, stepOf
    <3>2. <<x>> \in Seq(S)
      BY <3>1
    <3>. QED BY <3>1, <3>2, Zenon
  <2>2. CASE ~r[p]
    <3>1. stepOf(p) = <<>>
      BY <2>2, Zenon
    <3>. HIDE DEF S, stepOf
    <3>. QED BY <3>1
  <2>. QED BY <2>1, <2>2
<1>7. stepOf("backend") \in Seq(S) /\ stepOf("frontend") \in Seq(S) /\ stepOf("public") \in Seq(S)
  <2>. HIDE DEF S, stepOf
  <2>. QED BY <1>6 DEF Parts
<1>. HIDE DEF S, stepOf
<1>8. stepOf("backend") \o stepOf("frontend") \in Seq(S)
  BY <1>7
<1>9. stepOf("backend") \o stepOf("frontend") \o stepOf("public") \in Seq(S)
  BY <1>7, <1>8
<1>10. acts \in Seq(S)
  BY <1>4, <1>5, <1>9
<1>. QED BY <1>10 DEF S

\* decide keeps both budgets, if what it read did.
LEMMA DecidedBudgets ==
  ASSUME SelfHealTypeOK, WithinBudgets(healed.parts, now),
         NEW next, NEW acts, NEW c, NEW r, DecidedOn(next, acts, c, r)
  PROVE  WithinBudgets(next.parts, now)
<1>1. now \in Times /\ now \in Nat /\ \A p \in Parts : healed.parts[p].repairs \subseteq Times
  BY Constants DEF SelfHealTypeOK, Times, Healed, Streaks
<1>2. \A p \in Parts : r[p] \in BOOLEAN /\ c[p].repairs = Within(healed.parts[p].repairs, Day)
  BY DEF DecidedOn
<1>3. \A p \in Parts, t \in Times :
        t \in next.parts[p].repairs <=> \/ t \in healed.parts[p].repairs /\ now - t < Day
                                        \/ r[p] /\ t = now
  BY DecidedRepairs
<1>4. ASSUME NEW p \in Parts
      PROVE  Cardinality(WrittenOf(next.parts, p, Hour, now)) <= PerHour
  <2>. DEFINE K == WrittenOf(healed.parts, p, Hour, now)
  <2>1. IsFiniteSet(K) /\ Cardinality(K) \in Nat /\ Cardinality(K) <= PerHour
    BY SetsFinite DEF WithinBudgets
  <2>2. CASE r[p]
    <3>1. K = Within(c[p].repairs, Hour)
      BY <1>1, <1>2, Constants DEF WrittenOf, Within, Times
    <3>2. Cardinality(K) < PerHour
      BY <2>2, <3>1 DEF DecidedOn
    <3>3. WrittenOf(next.parts, p, Hour, now) \subseteq K \cup {now}
      BY <1>3 DEF WrittenOf
    <3>. HIDE DEF K
    <3>4. Cardinality(K) <= PerHour - 1 /\ PerHour - 1 \in Nat
      BY <2>1, <3>2, Constants
    <3>5. Cardinality(WrittenOf(next.parts, p, Hour, now)) <= (PerHour - 1) + 1
      BY <2>1, <3>3, <3>4, OneMore
    <3>. QED BY <3>5, Constants
  <2>3. CASE ~r[p]
    <3>1. WrittenOf(next.parts, p, Hour, now) \subseteq K
      BY <1>3, <2>3 DEF WrittenOf
    <3>. HIDE DEF K
    <3>. QED BY <2>1, <3>1, BoundedBy, Constants
  <2>. QED BY <1>2, <2>2, <2>3
<1>5. Cardinality(WrittenWithin(next.parts, Day, now)) <= PerDay
  <2>. DEFINE K == WrittenWithin(healed.parts, Day, now)
              k == Cardinality(K)
              nb == IF r["backend"] THEN 1 ELSE 0
              nf == IF r["frontend"] THEN nb + 1 ELSE nb
              np == IF r["public"] THEN nf + 1 ELSE nf
              KB == IF r["backend"] THEN K \cup {<<"backend", now>>} ELSE K
              KF == IF r["frontend"] THEN KB \cup {<<"frontend", now>>} ELSE KB
              KP == IF r["public"] THEN KF \cup {<<"public", now>>} ELSE KF
  <2>1. IsFiniteSet(K) /\ k \in Nat /\ k <= PerDay
    BY SetsFinite DEF WithinBudgets
  <2>2. K = UNION {{<<p, t>> : t \in c[p].repairs} : p \in Parts}
    <3>1. ASSUME NEW x \in K
          PROVE  x \in UNION {{<<p, t>> : t \in c[p].repairs} : p \in Parts}
      <4>1. x = <<x[1], x[2]>> /\ x[1] \in Parts /\ x[2] \in c[x[1]].repairs
        BY <1>2 DEF WrittenWithin, Within
      <4>. QED BY <4>1
    <3>2. ASSUME NEW p \in Parts, NEW t \in c[p].repairs
          PROVE  <<p, t>> \in K
      BY <1>1, <1>2 DEF WrittenWithin, Within
    <3>. HIDE DEF K
    <3>. QED BY <3>1, <3>2
  <2>3. \A m : Spent(c, m) = k + m
    BY <2>2, Zenon DEF Spent
  <2>4. /\ r["backend"] => k < PerDay
        /\ r["frontend"] => k + nb < PerDay
        /\ r["public"] => k + nf < PerDay
    <3>1. /\ r["backend"] => Spent(c, 0) < PerDay
          /\ r["frontend"] => Spent(c, nb) < PerDay
          /\ r["public"] => Spent(c, nf) < PerDay
      BY Zenon DEF DecidedOn
    <3>2. k + 0 = k
      BY <2>1
    <3>. HIDE DEF k, nb, nf
    <3>. QED BY <2>3, <3>1, <3>2, Zenon
  <2>5. r["backend"] \in BOOLEAN /\ r["frontend"] \in BOOLEAN /\ r["public"] \in BOOLEAN
    BY <1>2 DEF Parts
  <2>6. WrittenWithin(next.parts, Day, now) \subseteq KP
    <3>1. ASSUME NEW x \in WrittenWithin(next.parts, Day, now)
          PROVE  \/ x \in K
                 \/ r["backend"] /\ x = <<"backend", now>>
                 \/ r["frontend"] /\ x = <<"frontend", now>>
                 \/ r["public"] /\ x = <<"public", now>>
      <4>1. /\ x = <<x[1], x[2]>> /\ x[1] \in Parts /\ x[2] \in Times
            /\ x[2] \in next.parts[x[1]].repairs /\ now - x[2] < Day /\ x \in Parts \X Times
        BY DEF WrittenWithin
      <4>2. CASE x[2] \in healed.parts[x[1]].repairs /\ now - x[2] < Day
        BY <4>1, <4>2 DEF WrittenWithin
      <4>3. CASE r[x[1]] /\ x[2] = now
        BY <4>1, <4>3 DEF Parts
      <4>. QED BY <1>3, <4>1, <4>2, <4>3
    <3>. HIDE DEF K
    <3>. QED BY <2>5, <3>1
  <2>. HIDE DEF K, k
  <2>7. k \in Nat /\ k = Cardinality(K)
    BY <2>1 DEF k
  <2>8. nb \in Nat /\ IsFiniteSet(KB) /\ Cardinality(KB) <= k + nb
    <3>1. CASE r["backend"]
      <4>1. nb = 1 /\ KB = K \cup {<<"backend", now>>}
        BY <3>1
      <4>. HIDE DEF KB, nb
      <4>2. Cardinality(K) <= k
        BY <2>7
      <4>3. KB \subseteq K \cup {<<"backend", now>>}
        BY <4>1
      <4>4. IsFiniteSet(KB) /\ Cardinality(KB) <= k + 1
        BY <2>1, <2>7, <4>2, <4>3, OneMore
      <4>. QED BY <4>1, <4>4
    <3>2. CASE ~r["backend"]
      BY <2>1, <2>7, <3>2
    <3>. QED BY <2>5, <3>1, <3>2
  <2>. HIDE DEF KB
  <2>9. nf \in Nat /\ IsFiniteSet(KF) /\ Cardinality(KF) <= k + nf
    <3>1. CASE r["frontend"]
      <4>1. nf = nb + 1 /\ KF = KB \cup {<<"frontend", now>>}
        BY <3>1
      <4>. HIDE DEF KF, nf, nb
      <4>2. k + nb \in Nat /\ (k + nb) + 1 = k + nf
        BY <2>7, <2>8, <4>1
      <4>3. IsFiniteSet(KF) /\ Cardinality(KF) <= (k + nb) + 1
        BY <2>8, <4>1, <4>2, OneMore
      <4>. QED BY <2>8, <4>1, <4>2, <4>3
    <3>2. CASE ~r["frontend"]
      BY <2>8, <3>2
    <3>. QED BY <2>5, <3>1, <3>2
  <2>. HIDE DEF KF
  <2>10. np \in Nat /\ IsFiniteSet(KP) /\ Cardinality(KP) <= k + np
    <3>1. CASE r["public"]
      <4>1. np = nf + 1 /\ KP = KF \cup {<<"public", now>>}
        BY <3>1
      <4>. HIDE DEF KP, np, nf
      <4>2. k + nf \in Nat /\ (k + nf) + 1 = k + np
        BY <2>7, <2>9, <4>1
      <4>3. IsFiniteSet(KP) /\ Cardinality(KP) <= (k + nf) + 1
        BY <2>9, <4>1, <4>2, OneMore
      <4>. QED BY <2>9, <4>1, <4>2, <4>3
    <3>2. CASE ~r["public"]
      BY <2>9, <3>2
    <3>. QED BY <2>5, <3>1, <3>2
  <2>. HIDE DEF KP
  <2>11. k + np <= PerDay
    BY <2>1, <2>4, <2>5, <2>7, Constants
  <2>12. Cardinality(KP) <= PerDay
    <3>. HIDE DEF np
    <3>1. Cardinality(KP) \in Nat
      BY <2>10, FS_CardinalityType
    <3>. QED BY <2>7, <2>10, <2>11, <3>1, Constants
  <2>. QED BY <2>6, <2>10, <2>12, BoundedBy, Constants
<1>. QED BY <1>4, <1>5 DEF WithinBudgets

----------------------------------------------------------------------------
(* runPass.                                                                *)

LEMMA HealFields ==
  ASSUME SelfHealTypeOK
  PROVE  /\ now \in Times /\ now \in Nat /\ healed \in Healed /\ plan.active \in BOOLEAN
         /\ plan.todo \in Seq(Action) /\ plan.next \in Healed
         /\ build \in 1 .. MaxBuilds /\ good \in 0 .. MaxBuilds
         /\ performed \in [Parts -> SUBSET Times] /\ cut \in Nat
         /\ \A p \in Parts : healed.parts[p].repairs \subseteq Times
BY Constants DEF SelfHealTypeOK, Times, Healed, Streaks

LEMMA NoPlanSound ==
  /\ NoPlan.active = FALSE /\ NoPlan.todo = <<>> /\ NoPlan.next \in Healed
  /\ NoPlan.todo \in Seq(Action)
  /\ \A p \in Parts : NoPlan.next.parts[p].repairs = {}
  /\ NoPlan = [active |-> NoPlan.active, todo |-> NoPlan.todo, next |-> NoPlan.next]
<1>1. NoStreaks \in Streaks /\ NoStreaks.repairs = {}
  BY SelfHealAssumption DEF NoStreaks, Streaks
<1>2. NoPlan.next = [parts |-> [p \in Parts |-> NoStreaks], fingerprint |-> NoBuild]
  BY DEF NoPlan
<1>3. NoPlan.next.parts = [p \in Parts |-> NoStreaks]
  BY <1>2
<1>4. NoPlan.next \in Healed /\ \A p \in Parts : NoPlan.next.parts[p].repairs = {}
  BY <1>1, <1>2, <1>3, Constants DEF Healed, NoBuild
<1>5. /\ NoPlan.active = FALSE /\ NoPlan.todo = <<>>
      /\ NoPlan = [active |-> NoPlan.active, todo |-> NoPlan.todo, next |-> NoPlan.next]
  BY DEF NoPlan
<1>6. <<>> \in Seq(Action)
  OBVIOUS
<1>. QED BY <1>4, <1>5, <1>6, Zenon

LEMMA HealStarts ==
  ASSUME SelfHealInit
  PROVE  HealInv
<1>1. /\ now = 1 /\ healed = NoPlan.next /\ plan = NoPlan /\ build = 1 /\ good = NoBuild
      /\ performed = [p \in Parts |-> {}] /\ cut = 0
  BY DEF SelfHealInit
<1>2. /\ NoPlan.next \in Healed
      /\ \A p \in Parts : NoPlan.next.parts[p].repairs = {}
  BY NoPlanSound
<1>3. plan.active = FALSE /\ plan.todo = <<>> /\ plan.next = NoPlan.next
      /\ plan = [active |-> plan.active, todo |-> plan.todo, next |-> plan.next]
  BY <1>1 DEF NoPlan
<1>4. SelfHealTypeOK
  <2>1. plan.active \in BOOLEAN /\ plan.todo \in Seq(Action)
    <3>1. <<>> \in Seq(Action)
      OBVIOUS
    <3>2. FALSE \in BOOLEAN
      OBVIOUS
    <3>. QED BY <1>3, <3>1, <3>2, Zenon
  <2>2. healed \in Healed /\ plan.next \in Healed
    BY <1>1, <1>2, <1>3, Zenon
  <2>3. performed \in [Parts -> SUBSET Times]
    BY <1>1
  <2>4. now \in Times /\ build \in 1 .. MaxBuilds /\ good \in 0 .. MaxBuilds /\ cut \in Nat
    BY <1>1, Constants DEF Times, NoBuild
  <2>. QED BY <2>1, <2>2, <2>3, <2>4, Zenon DEF SelfHealTypeOK
<1>5. WithinBudgets(healed.parts, now)
  <2>1. WrittenWithin(healed.parts, Day, now) = {}
        /\ \A p \in Parts : WrittenOf(healed.parts, p, Hour, now) = {}
    BY <1>1, <1>2 DEF WrittenWithin, WrittenOf
  <2>. QED BY <2>1, FS_EmptySet, Constants DEF WithinBudgets
<1>6. Unwritten = {}
  BY <1>1 DEF Unwritten
<1>7. Rested
  BY <1>1, <1>2 DEF Rested
<1>. QED BY <1>1, <1>3, <1>4, <1>5, <1>6, <1>7, FS_EmptySet DEF HealInv

LEMMA PassBeginsKeeps ==
  ASSUME HealInv, PassBegins
  PROVE  HealInv'
<1>1. /\ ~plan.active
      /\ now' = now /\ healed' = healed /\ build' = build /\ good' = good
      /\ performed' = performed /\ cut' = cut
      /\ SelfHealTypeOK /\ now >= 1 /\ WithinBudgets(healed.parts, now)
      /\ Cardinality(Unwritten) <= cut /\ Rested
  BY DEF PassBegins, HealInv
<1>2. PICK probes \in Probes : plan' = Decided(probes)
  BY DEF PassBegins
<1>3. PICK next, acts, c, r :
        /\ plan' = [active |-> TRUE, todo |-> acts, next |-> next]
        /\ DecidedOn(next, acts, c, r)
  BY <1>1, <1>2, DecidedIs, Zenon
<1>4. plan'.active = TRUE /\ plan'.todo = acts /\ plan'.next = next
      /\ plan' = [active |-> plan'.active, todo |-> plan'.todo, next |-> plan'.next]
  BY <1>3
<1>5. /\ next \in Healed
      /\ acts \in Seq(PlannedIn(next))
      /\ WithinBudgets(next.parts, now)
      /\ \A p \in Parts, t \in Times :
           t \in next.parts[p].repairs <=> \/ t \in healed.parts[p].repairs /\ now - t < Day
                                           \/ r[p] /\ t = now
  BY <1>1, <1>3, DecidedRepairs, DecidedTodo, DecidedBudgets, Zenon
<1>6. acts \in Seq(Action)
  <2>1. PlannedIn(next) \subseteq Action
    BY DEF PlannedIn
  <2>. HIDE DEF PlannedIn
  <2>. QED BY <1>5, <2>1
<1>7. SelfHealTypeOK'
  BY <1>1, <1>4, <1>5, <1>6, HealFields, Zenon DEF SelfHealTypeOK
<1>8. /\ Unwritten' = Unwritten
      /\ \A p \in Parts, t \in Times : /\ t \in healed.parts[p].repairs => t < now
                                       /\ t \in performed[p] => t < now
  BY <1>1, Zenon DEF Unwritten, Rested
<1>9. PlanSound'
  <2>1. PlannedIn(plan.next)' = PlannedIn(next)
    BY <1>1, <1>4, Zenon DEF PlannedIn
  <2>2. (plan.todo \in Seq(PlannedIn(plan.next)))'
    BY <1>4, <1>5, <2>1, Zenon
  <2>3. WithinBudgets(plan'.next.parts, now')
    BY <1>1, <1>4, <1>5, Zenon
  <2>4. now \in Nat /\ \A t \in Times : t \in Nat
    BY <1>1, HealFields, Constants DEF Times
  <2>5. \A p \in Parts, t \in Times :
          /\ t \in healed.parts[p].repairs /\ now - t < Day => t \in next.parts[p].repairs
          /\ t \in next.parts[p].repairs => t <= now
          /\ t \in performed[p] => t <= now
          /\ t = now /\ t \in performed[p] => t \in next.parts[p].repairs
    <3>1. \A t \in Times : t < now => t <= now /\ t # now
      BY <2>4
    <3>2. \A t \in Times : t = now => t <= now
      BY <2>4
    <3>. SUFFICES ASSUME NEW p \in Parts, NEW t \in Times
                  PROVE  /\ t \in healed.parts[p].repairs /\ now - t < Day
                              => t \in next.parts[p].repairs
                         /\ t \in next.parts[p].repairs => t <= now
                         /\ t \in performed[p] => t <= now
                         /\ t = now /\ t \in performed[p] => t \in next.parts[p].repairs
      OBVIOUS
    <3>3. t \in next.parts[p].repairs <=> \/ t \in healed.parts[p].repairs /\ now - t < Day
                                          \/ r[p] /\ t = now
      BY <1>5
    <3>4. /\ t \in healed.parts[p].repairs => t < now
          /\ t \in performed[p] => t < now
      BY <1>8
    <3>5. (t < now => t <= now /\ t # now) /\ (t = now => t <= now)
      BY <3>1, <3>2
    <3>. QED BY <3>3, <3>4, <3>5, Zenon
  <2>. QED BY <1>1, <1>4, <2>2, <2>3, <2>5, Zenon DEF PlanSound
<1>10. Rested'
  BY <1>1, <1>4, <1>8, Zenon DEF Rested
<1>. QED BY <1>1, <1>4, <1>7, <1>8, <1>9, <1>10, Zenon DEF HealInv

LEMMA WithTodo ==
  ASSUME NEW x, NEW y, NEW z, NEW w, NEW r, r = [active |-> x, todo |-> y, next |-> z]
  PROVE  [r EXCEPT !.todo = w] = [active |-> x, todo |-> w, next |-> z]
OBVIOUS

LEMMA ActsKeeps ==
  ASSUME HealInv, NEW works \in BOOLEAN, Acts(works)
  PROVE  HealInv'
<1>. DEFINE a == Head(plan.todo)
            f == IF a.do = "snapshot" /\ works THEN a.seen ELSE plan.next.fingerprint
            next == [parts |-> plan.next.parts, fingerprint |-> f]
<1>1. /\ plan.active /\ plan.todo # <<>>
      /\ now' = now /\ healed' = healed /\ cut' = cut
      /\ build' = Rebuilt(a) /\ good' = Snapped(a, works) /\ performed' = Performed(a)
      /\ plan' = [plan EXCEPT !.todo = Tail(@),
                     !.next.fingerprint = IF a.do = "snapshot" /\ works THEN a.seen ELSE @]
  BY DEF Acts
<1>2. /\ SelfHealTypeOK /\ now >= 1 /\ WithinBudgets(healed.parts, now)
      /\ Cardinality(Unwritten) <= cut /\ Rested /\ PlanSound
      /\ plan = [active |-> plan.active, todo |-> plan.todo, next |-> plan.next]
  BY <1>1 DEF HealInv
<1>3. /\ plan.next \in Healed /\ plan.next.parts \in [Parts -> Streaks]
      /\ plan.next.fingerprint \in 0 .. MaxBuilds
      /\ plan.next = [parts |-> plan.next.parts, fingerprint |-> plan.next.fingerprint]
  BY <1>2 DEF SelfHealTypeOK, Healed
<1>4. plan.todo \in Seq(PlannedIn(plan.next))
  BY <1>2 DEF PlanSound
<1>5. a \in PlannedIn(plan.next) /\ Tail(plan.todo) \in Seq(PlannedIn(plan.next))
  <2>. DEFINE S == PlannedIn(plan.next)
  <2>. HIDE DEF S
  <2>1. plan.todo \in Seq(S)
    BY <1>4 DEF S
  <2>2. a \in S /\ Tail(plan.todo) \in Seq(S)
    BY <1>1, <2>1
  <2>. QED BY <2>2 DEF S
<1>6. /\ a \in Action
      /\ a.do # "snapshot" => now \in plan.next.parts[a.part].repairs
      /\ a.do = "rollback" => good # NoBuild
  BY <1>5 DEF PlannedIn
<1>. HIDE DEF a
<1>7. f \in 0 .. MaxBuilds
  BY <1>3, <1>6 DEF Action
<1>8. plan' = [active |-> plan.active, todo |-> Tail(plan.todo), next |-> next]
  <2>. DEFINE b == [plan EXCEPT !.todo = Tail(@)]
              d == [b EXCEPT !.next = [@ EXCEPT !.fingerprint = f]]
  <2>1. plan' = d
    <3>1. b.next = plan.next
      BY <1>2
    <3>2. d = [b EXCEPT !.next.fingerprint = f]
      BY Zenon
    <3>3. plan' = [b EXCEPT !.next.fingerprint = IF a.do = "snapshot" /\ works THEN a.seen ELSE @]
      BY <1>1, Zenon
    <3>. QED BY <3>1, <3>2, <3>3, Zenon
  <2>2. b = [active |-> plan.active, todo |-> Tail(plan.todo), next |-> plan.next]
    <3>. DEFINE x == plan.active
                y == plan.todo
                z == plan.next
                w == Tail(plan.todo)
    <3>1. plan = [active |-> x, todo |-> y, next |-> z] /\ b = [plan EXCEPT !.todo = w]
      BY <1>2, Zenon
    <3>. HIDE DEF b, x, y, z, w
    <3>2. b = [active |-> x, todo |-> w, next |-> z]
      BY <3>1, WithTodo, Zenon
    <3>. QED BY <3>2 DEF x, z, w
  <2>. HIDE DEF b, f
  <2>3. [plan.next EXCEPT !.fingerprint = f] = next
    BY <1>3
  <2>4. d = [b EXCEPT !.next = next]
    BY <2>2, <2>3
  <2>. HIDE DEF d, next
  <2>. QED BY <2>1, <2>2, <2>4
<1>. HIDE DEF f
<1>9. /\ next \in Healed /\ next.parts = plan.next.parts
  BY <1>3, <1>7 DEF Healed
<1>. HIDE DEF next
<1>10. plan'.active = plan.active /\ plan'.todo = Tail(plan.todo) /\ plan'.next = next
       /\ plan' = [active |-> plan'.active, todo |-> plan'.todo, next |-> plan'.next]
  BY <1>8
<1>11. build' \in 1 .. MaxBuilds /\ good' \in 0 .. MaxBuilds /\ (good # NoBuild => good' # NoBuild)
  BY <1>1, <1>2, <1>6, Constants DEF SelfHealTypeOK, Rebuilt, Snapped, NoBuild
<1>12. /\ performed' \in [Parts -> SUBSET Times]
       /\ \A p \in Parts, t \in Times :
            t \in performed'[p] => \/ t \in performed[p]
                                   \/ t = now /\ t \in next.parts[p].repairs
       /\ \A p \in Parts, t \in Times : t # now => (t \in performed'[p] <=> t \in performed[p])
  <2>1. performed \in [Parts -> SUBSET Times] /\ now \in Times
    BY <1>2, HealFields
  <2>2. CASE a.do = "snapshot"
    BY <1>1, <2>1, <2>2 DEF Performed
  <2>3. CASE a.do # "snapshot"
    <3>1. performed' = [performed EXCEPT ![a.part] = @ \cup {now}] /\ a.part \in Parts
      BY <1>1, <1>6, <2>3 DEF Performed, Action
    <3>. QED BY <1>6, <1>9, <2>1, <2>3, <3>1
  <2>. QED BY <2>2, <2>3
<1>13. Tail(plan.todo) \in Seq(Action)
  <2>1. PlannedIn(plan.next) \subseteq Action
    BY DEF PlannedIn
  <2>. DEFINE S == PlannedIn(plan.next)
              tl == Tail(plan.todo)
  <2>2. S \subseteq Action /\ tl \in Seq(S)
    BY <1>5, <2>1
  <2>. HIDE DEF S, tl
  <2>3. tl \in Seq(Action)
    BY <2>2
  <2>. QED BY <2>3 DEF tl
<1>14. SelfHealTypeOK'
  BY <1>1, <1>2, <1>9, <1>10, <1>11, <1>12, <1>13, HealFields, Zenon DEF SelfHealTypeOK
<1>15. Unwritten' = Unwritten
  <2>1. ASSUME NEW x \in Parts \X Times
        PROVE  (/\ x[2] \in performed'[x[1]] /\ x[2] < now' /\ now' - x[2] < Day
                /\ x[2] \notin healed'.parts[x[1]].repairs)
               <=> (/\ x[2] \in performed[x[1]] /\ x[2] < now /\ now - x[2] < Day
                    /\ x[2] \notin healed.parts[x[1]].repairs)
    <3>1. x[1] \in Parts /\ x[2] \in Times /\ x[2] \in Nat /\ now \in Nat
      BY <1>2, HealFields, Constants DEF Times
    <3>2. x[2] < now => x[2] # now
      BY <3>1
    <3>. QED BY <1>1, <1>12, <3>1, <3>2, Zenon
  <2>. QED BY <2>1, Zenon DEF Unwritten
<1>16. PlanSound'
  <2>1. PlannedIn(plan.next) \subseteq PlannedIn(plan.next)'
    <3>1. plan'.next.parts = plan.next.parts
      BY <1>9, <1>10
    <3>. QED BY <1>1, <1>11, <3>1 DEF PlannedIn
  <2>2. (plan.todo \in Seq(PlannedIn(plan.next)))'
    <3>1. Tail(plan.todo) \in Seq(PlannedIn(plan.next)')
      <4>. DEFINE S == PlannedIn(plan.next)
                  T == PlannedIn(plan.next)'
      <4>1. S \subseteq T /\ Tail(plan.todo) \in Seq(S)
        BY <1>5, <2>1
      <4>. HIDE DEF S, T
      <4>2. Tail(plan.todo) \in Seq(T)
        BY <4>1
      <4>. QED BY <4>2 DEF T
    <3>. QED BY <1>10, <3>1, Zenon
  <2>3. WithinBudgets(plan.next.parts, now)
    BY <1>2 DEF PlanSound
  <2>4. WithinBudgets(plan'.next.parts, now')
    BY <1>1, <1>9, <1>10, <2>3, Zenon
  <2>5. \A t \in Times : t = now => t <= now
    BY <1>2, HealFields, Constants DEF Times
  <2>6. \A p \in Parts, t \in Times :
          /\ t \in healed.parts[p].repairs /\ now - t < Day => t \in next.parts[p].repairs
          /\ t \in next.parts[p].repairs => t <= now
          /\ t \in performed'[p] => t <= now
          /\ t = now /\ t \in performed'[p] => t \in next.parts[p].repairs
    BY <1>2, <1>9, <1>12, <2>5, Zenon DEF PlanSound
  <2>. QED BY <1>1, <1>10, <2>2, <2>4, <2>6, Zenon DEF PlanSound
<1>17. Rested'
  BY <1>1, <1>2, <1>10, Zenon DEF Rested
<1>. QED BY <1>1, <1>2, <1>10, <1>14, <1>15, <1>16, <1>17, Zenon DEF HealInv

LEMMA PassSavesKeeps ==
  ASSUME HealInv, PassSaves
  PROVE  HealInv'
<1>1. /\ plan.active /\ healed' = plan.next /\ plan' = NoPlan /\ now < MaxTime /\ now' = now + 1
      /\ build' = build /\ good' = good /\ performed' = performed /\ cut' = cut
      /\ SelfHealTypeOK /\ now >= 1 /\ Cardinality(Unwritten) <= cut /\ PlanSound
  BY DEF PassSaves, HealInv
<1>2. now \in Nat /\ now' \in Times /\ now' >= 1
  BY <1>1, HealFields, Constants DEF Times
<1>3. NoPlan.active = FALSE /\ NoPlan.todo = <<>> /\ NoPlan.next \in Healed
      /\ NoPlan = [active |-> NoPlan.active, todo |-> NoPlan.todo, next |-> NoPlan.next]
  BY NoPlanSound
<1>4. SelfHealTypeOK'
  <2>1. healed' \in Healed /\ plan'.active \in BOOLEAN /\ plan'.todo \in Seq(Action)
        /\ plan'.next \in Healed
    BY <1>1, <1>3, HealFields, NoPlanSound, Zenon
  <2>. QED BY <1>1, <1>2, <2>1, HealFields, Zenon DEF SelfHealTypeOK
<1>5. WithinBudgets(plan.next.parts, now + 1)
  <2>1. WithinBudgets(plan.next.parts, now)
    BY <1>1 DEF PlanSound
  <2>. QED BY <1>2, <2>1, BudgetsLast
<1>6. WithinBudgets(healed'.parts, now')
  BY <1>1, <1>5, Zenon
<1>7. \A p \in Parts, t \in Times :
        /\ t \in healed.parts[p].repairs /\ now - t < Day => t \in plan.next.parts[p].repairs
        /\ t \in plan.next.parts[p].repairs => t <= now
        /\ t \in performed[p] => t <= now
        /\ t = now /\ t \in performed[p] => t \in plan.next.parts[p].repairs
  BY <1>1, Zenon DEF PlanSound
<1>8. Unwritten' \subseteq Unwritten
  <2>. SUFFICES ASSUME NEW x \in Unwritten'
                PROVE  x \in Unwritten
    OBVIOUS
  <2>1. /\ x \in Parts \X Times /\ x[1] \in Parts /\ x[2] \in Times
        /\ x[2] \in performed[x[1]] /\ x[2] < now + 1 /\ now + 1 - x[2] < Day
        /\ x[2] \notin plan.next.parts[x[1]].repairs
    <3>1. Unwritten' = {y \in Parts \X Times : /\ y[2] \in performed'[y[1]] /\ y[2] < now'
                                              /\ now' - y[2] < Day
                                              /\ y[2] \notin healed'.parts[y[1]].repairs}
      BY Zenon DEF Unwritten
    <3>2. /\ x \in Parts \X Times /\ x[2] \in performed'[x[1]] /\ x[2] < now' /\ now' - x[2] < Day
          /\ x[2] \notin healed'.parts[x[1]].repairs
      BY <3>1, Zenon
    <3>3. x[1] \in Parts /\ x[2] \in Times
      BY <3>2
    <3>4. now' = now + 1 /\ performed' = performed /\ healed' = plan.next
      BY <1>1
    <3>5. x[2] \in performed[x[1]]
      BY <3>2, <3>4
    <3>6. x[2] < now + 1 /\ now + 1 - x[2] < Day
      <4>1. x[2] \in Nat
        BY <3>3, Constants DEF Times
      <4>. QED BY <1>2, <3>2, <3>4, <4>1, Constants
    <3>7. x[2] \notin plan.next.parts[x[1]].repairs
      BY <3>2, <3>4
    <3>. QED BY <3>2, <3>3, <3>5, <3>6, <3>7
  <2>2. x[2] \in Nat
    BY <2>1, Constants DEF Times
  <2>3. x[2] # now
    BY <1>7, <2>1
  <2>4. x[2] < now /\ now - x[2] < Day
    BY <1>2, <2>1, <2>2, <2>3, Constants
  <2>5. x[2] \notin healed.parts[x[1]].repairs
    BY <1>7, <2>1, <2>4
  <2>. QED BY <2>1, <2>4, <2>5 DEF Unwritten
<1>9. Cardinality(Unwritten') <= cut'
  <2>1. cut \in Nat
    BY <1>1, HealFields
  <2>. QED BY <1>1, <1>8, <2>1, UnwrittenFinite, BoundedBy
<1>10. Rested'
  <2>1. \A t \in Times : t <= now => t < now + 1
    BY <1>2, Constants DEF Times
  <2>. QED BY <1>1, <1>7, <2>1, Zenon DEF Rested
<1>. QED BY <1>1, <1>2, <1>3, <1>4, <1>6, <1>9, <1>10, Zenon DEF HealInv

\* Time goes on without a pass, or after one that was cut short.
LEMMA NothingWritten ==
  ASSUME HealInv, now < MaxTime, now' = now + 1, plan' \in {plan, NoPlan}, ~plan'.active,
         cut' = cut + Cardinality({p \in Parts : now \in performed[p]}),
         UNCHANGED <<healed, build, good, performed>>
  PROVE  HealInv'
<1>. DEFINE D == {p \in Parts : now \in performed[p]}
            N == {x \in Parts \X Times : x[2] = now /\ x[1] \in D}
<1>1. /\ now < MaxTime /\ now' = now + 1
      /\ cut' = cut + Cardinality(D)
      /\ healed' = healed /\ build' = build /\ good' = good /\ performed' = performed
      /\ SelfHealTypeOK /\ now >= 1 /\ Cardinality(Unwritten) <= cut /\ Rested
      /\ WithinBudgets(healed.parts, now) /\ (plan.active => PlanSound)
  BY DEF HealInv
<1>2. now \in Nat /\ now \in Times /\ now' \in Times /\ now' >= 1 /\ cut \in Nat
  BY <1>1, HealFields, Constants DEF Times
<1>3. IsFiniteSet(D) /\ Cardinality(D) \in Nat
  BY PartsFinite, FS_Subset, FS_CardinalityType
<1>4. IsFiniteSet(N) /\ Cardinality(N) <= Cardinality(D)
  <2>. DEFINE f == [p \in D |-> <<p, now>>]
  <2>1. f \in Surjection(D, N)
    BY <1>2 DEF Surjection
  <2>. HIDE DEF D, N, f
  <2>. QED BY <1>3, <2>1, FS_Surjection
<1>5. /\ plan'.active = FALSE /\ plan'.todo \in Seq(Action) /\ plan'.next \in Healed
      /\ plan' = [active |-> plan'.active, todo |-> plan'.todo, next |-> plan'.next]
  <2>1. CASE plan' = NoPlan
    BY <2>1, NoPlanSound, Zenon
  <2>2. CASE plan' = plan
    BY <1>1, <2>2, HealFields, Zenon DEF HealInv
  <2>. QED BY <2>1, <2>2
<1>. HIDE DEF D
<1>6. SelfHealTypeOK'
  <2>1. plan'.active \in BOOLEAN /\ plan'.todo \in Seq(Action) /\ plan'.next \in Healed
    BY <1>5, Zenon
  <2>2. cut' \in Nat
    BY <1>1, <1>2, <1>3
  <2>. QED BY <1>1, <1>2, <2>1, <2>2, HealFields, Zenon DEF SelfHealTypeOK
<1>7. WithinBudgets(healed'.parts, now')
  <2>1. WithinBudgets(healed.parts, now + 1)
    BY <1>1, <1>2, BudgetsLast
  <2>. QED BY <1>1, <2>1, Zenon
<1>8. \A p \in Parts, t \in Times :
        /\ t \in performed[p] => t <= now
        /\ t \in healed.parts[p].repairs => t < now
  <2>1. \A t \in Times : t < now => t <= now
    BY <1>2, Constants DEF Times
  <2>. QED BY <1>1, <2>1, Zenon DEF PlanSound, Rested
<1>9. Unwritten' \subseteq Unwritten \cup N
  <2>. SUFFICES ASSUME NEW x \in Unwritten'
                PROVE  x \in Unwritten \cup N
    OBVIOUS
  <2>1. /\ x \in Parts \X Times /\ x[1] \in Parts /\ x[2] \in Times
        /\ x[2] \in performed[x[1]] /\ x[2] < now + 1 /\ now + 1 - x[2] < Day
        /\ x[2] \notin healed.parts[x[1]].repairs
    <3>1. Unwritten' = {y \in Parts \X Times : /\ y[2] \in performed'[y[1]] /\ y[2] < now'
                                              /\ now' - y[2] < Day
                                              /\ y[2] \notin healed'.parts[y[1]].repairs}
      BY Zenon DEF Unwritten
    <3>2. /\ x \in Parts \X Times /\ x[2] \in performed'[x[1]] /\ x[2] < now' /\ now' - x[2] < Day
          /\ x[2] \notin healed'.parts[x[1]].repairs
      BY <3>1, Zenon
    <3>3. x[1] \in Parts /\ x[2] \in Times
      BY <3>2
    <3>4. now' = now + 1 /\ performed' = performed /\ healed' = healed
      BY <1>1
    <3>5. x[2] \in performed[x[1]]
      BY <3>2, <3>4
    <3>6. x[2] < now + 1 /\ now + 1 - x[2] < Day
      <4>1. x[2] \in Nat
        BY <3>3, Constants DEF Times
      <4>. QED BY <1>2, <3>2, <3>4, <4>1, Constants
    <3>7. x[2] \notin healed.parts[x[1]].repairs
      BY <3>2, <3>4
    <3>. QED BY <3>2, <3>3, <3>5, <3>6, <3>7
  <2>2. x[2] \in Nat
    BY <2>1, Constants DEF Times
  <2>3. CASE x[2] = now
    BY <2>1, <2>3 DEF D
  <2>4. CASE x[2] # now
    <3>1. x[2] < now /\ now - x[2] < Day
      BY <1>2, <2>1, <2>2, <2>4, Constants
    <3>. QED BY <2>1, <3>1 DEF Unwritten
  <2>. QED BY <2>3, <2>4
<1>. HIDE DEF N
<1>10. Cardinality(Unwritten') <= cut'
  <2>1. Cardinality(Unwritten') <= cut + Cardinality(D)
    BY <1>1, <1>2, <1>3, <1>4, <1>9, UnwrittenFinite, InEither
  <2>. QED BY <1>1, <2>1
<1>11. Rested'
  <2>1. \A t \in Times : (t <= now \/ t < now) => t < now + 1
    BY <1>2, Constants DEF Times
  <2>. QED BY <1>1, <1>8, <2>1, Zenon DEF Rested
<1>. QED BY <1>1, <1>2, <1>5, <1>6, <1>7, <1>10, <1>11, Zenon DEF HealInv

LEMMA CutShortKeeps ==
  ASSUME HealInv, CutShort
  PROVE  HealInv'
<1>1. plan' = NoPlan /\ ~plan'.active
  BY NoPlanSound DEF CutShort
<1>. QED BY <1>1, NothingWritten DEF CutShort

LEMMA SkippedKeeps ==
  ASSUME HealInv, Skipped
  PROVE  HealInv'
<1>1. {p \in Parts : now \in performed[p]} = {}
  <2>. SUFFICES ASSUME NEW p \in Parts, now \in performed[p] PROVE FALSE
    OBVIOUS
  <2>1. now \in Times /\ now \in Nat
    BY HealFields DEF HealInv
  <2>2. now < now
    BY <2>1, Zenon DEF HealInv, Rested, Skipped
  <2>. QED BY <2>1, <2>2
<1>2. cut \in Nat /\ Cardinality({}) = 0
  BY HealFields, FS_EmptySet DEF HealInv
<1>3. cut' = cut + Cardinality({p \in Parts : now \in performed[p]})
  <2>1. cut' = cut /\ cut + 0 = cut
    BY <1>2 DEF Skipped
  <2>. QED BY <1>1, <1>2, <2>1, Zenon
<1>. QED BY <1>3, NothingWritten DEF Skipped

LEMMA StateTornKeeps ==
  ASSUME HealInv, StateTorn
  PROVE  HealInv'
<1>. DEFINE W == UNION {{<<p, t>> : t \in healed.parts[p].repairs} : p \in Parts}
<1>1. /\ ~plan.active /\ healed' = NoPlan.next /\ now' = now /\ plan' = plan
      /\ cut' = cut + (Cardinality(W) + 0)
      /\ build' = build /\ good' = good /\ performed' = performed
      /\ SelfHealTypeOK /\ now >= 1 /\ Cardinality(Unwritten) <= cut /\ Rested
      /\ plan = [active |-> plan.active, todo |-> plan.todo, next |-> plan.next]
  BY DEF StateTorn, HealInv, Spent
<1>2. cut \in Nat /\ \A p \in Parts : healed.parts[p].repairs \subseteq Times
  BY <1>1, HealFields
<1>3. IsFiniteSet(W) /\ Cardinality(W) \in Nat
  <2>1. W \subseteq Parts \X Times
    BY <1>2
  <2>. HIDE DEF W
  <2>. QED BY <2>1, TimesFinite, FS_Subset, FS_CardinalityType
<1>4. /\ NoPlan.next \in Healed
      /\ \A p \in Parts : NoPlan.next.parts[p].repairs = {}
  BY NoPlanSound
<1>5. Unwritten' \subseteq Unwritten \cup W
  <2>. SUFFICES ASSUME NEW x \in Unwritten'
                PROVE  x \in Unwritten \cup W
    OBVIOUS
  <2>1. /\ x \in Parts \X Times /\ x[2] \in performed[x[1]] /\ x[2] < now /\ now - x[2] < Day
    BY <1>1, Zenon DEF Unwritten
  <2>2. x[1] \in Parts /\ x = <<x[1], x[2]>>
    BY <2>1
  <2>3. CASE x[2] \in healed.parts[x[1]].repairs
    BY <2>2, <2>3
  <2>4. CASE x[2] \notin healed.parts[x[1]].repairs
    BY <2>1, <2>4 DEF Unwritten
  <2>. QED BY <2>3, <2>4
<1>. HIDE DEF W
<1>6. Cardinality(Unwritten') <= cut'
  <2>1. cut' = cut + Cardinality(W)
    BY <1>1, <1>2, <1>3
  <2>2. Cardinality(Unwritten') <= cut + Cardinality(W)
    BY <1>1, <1>2, <1>3, <1>5, UnwrittenFinite, InEither
  <2>. QED BY <2>1, <2>2
<1>7. SelfHealTypeOK'
  <2>1. cut' \in Nat
    BY <1>1, <1>2, <1>3
  <2>. QED BY <1>1, <1>4, <2>1, HealFields, Zenon DEF SelfHealTypeOK
<1>8. WithinBudgets(healed'.parts, now')
  <2>1. WrittenWithin(healed'.parts, Day, now') = {}
        /\ \A p \in Parts : WrittenOf(healed'.parts, p, Hour, now') = {}
    BY <1>1, <1>4 DEF WrittenWithin, WrittenOf
  <2>. QED BY <2>1, FS_EmptySet, Constants DEF WithinBudgets
<1>9. Rested'
  BY <1>1, <1>4, Zenon DEF Rested
<1>. QED BY <1>1, <1>6, <1>7, <1>8, <1>9, Zenon DEF HealInv

LEMMA BuildsKeeps ==
  ASSUME HealInv, Builds
  PROVE  HealInv'
<1>1. /\ build < MaxBuilds /\ build' = build + 1 /\ now' = now /\ healed' = healed /\ plan' = plan
      /\ good' = good /\ performed' = performed /\ cut' = cut /\ SelfHealTypeOK
  BY DEF Builds, HealInv
<1>2. build' \in 1 .. MaxBuilds
  BY <1>1, Constants DEF SelfHealTypeOK
<1>3. SelfHealTypeOK'
  BY <1>1, <1>2, Zenon DEF SelfHealTypeOK
<1>4. Unwritten' = Unwritten /\ PlannedIn(plan.next)' = PlannedIn(plan.next)
  BY <1>1, Zenon DEF Unwritten, PlannedIn
<1>5. (plan.active => PlanSound)'
  BY <1>1, <1>4, Zenon DEF HealInv, PlanSound
<1>6. Rested'
  BY <1>1, Zenon DEF HealInv, Rested
<1>. QED BY <1>1, <1>3, <1>4, <1>5, <1>6, Zenon DEF HealInv

LEMMA HealInvHolds == SelfHealSpec => []HealInv
<1>1. SelfHealInit => HealInv
  BY HealStarts
<1>2. HealInv /\ [SelfHealNext]_healVars => HealInv'
  <2>. SUFFICES ASSUME HealInv, [SelfHealNext]_healVars
                PROVE  HealInv'
    OBVIOUS
  <2>1. CASE PassBegins
    BY <2>1, PassBeginsKeeps
  <2>2. CASE PassSaves
    BY <2>2, PassSavesKeeps
  <2>3. CASE CutShort
    BY <2>3, CutShortKeeps
  <2>4. CASE Builds
    BY <2>4, BuildsKeeps
  <2>5. CASE \E works \in BOOLEAN : Acts(works)
    BY <2>5, ActsKeeps
  <2>7. CASE Skipped
    BY <2>7, SkippedKeeps
  <2>8. CASE StateTorn
    BY <2>8, StateTornKeeps
  <2>6. CASE UNCHANGED healVars
    <3>1. /\ now' = now /\ healed' = healed /\ plan' = plan /\ build' = build /\ good' = good
          /\ performed' = performed /\ cut' = cut
      BY <2>6 DEF healVars
    <3>. QED BY <3>1, Zenon DEF HealInv, SelfHealTypeOK, Unwritten, PlannedIn, PlanSound, Rested
  <2>. QED BY <2>1, <2>2, <2>3, <2>4, <2>5, <2>6, <2>7, <2>8, Zenon DEF SelfHealNext
<1>. QED BY <1>1, <1>2, PTL DEF SelfHealSpec

\* The repairs that count towards a budget are written down, in the state file
\* or in what the pass under way is going to write, or are among those that
\* no file tells of, of which there are at most as many as were cut.
LEMMA BudgetFollows ==
  ASSUME HealInv
  PROVE  BudgetKept
<1>. DEFINE parts == IF plan.active THEN plan.next.parts ELSE healed.parts
<1>1. SelfHealTypeOK /\ Cardinality(Unwritten) <= cut /\ cut \in Nat /\ now \in Nat
      /\ \A p \in Parts : performed[p] \subseteq Times
  BY HealFields DEF HealInv
<1>2. WithinBudgets(parts, now)
  BY Zenon DEF HealInv, PlanSound
<1>3. ASSUME NEW p \in Parts, NEW t \in Times, t \in performed[p], now - t < Day
      PROVE  t \in parts[p].repairs \/ <<p, t>> \in Unwritten
  <2>1. t \in Nat
    BY Constants DEF Times
  <2>2. CASE plan.active
    <3>1. /\ t \in healed.parts[p].repairs => t \in parts[p].repairs
          /\ t <= now
          /\ t = now => t \in parts[p].repairs
      BY <1>3, <2>2, Zenon DEF HealInv, PlanSound
    <3>2. CASE t = now
      BY <3>1, <3>2
    <3>3. CASE t # now
      <4>1. t < now
        BY <1>1, <2>1, <3>1, <3>3
      <4>. QED BY <1>3, <3>1, <4>1 DEF Unwritten
    <3>. QED BY <3>2, <3>3
  <2>3. CASE ~plan.active
    <3>1. parts = healed.parts /\ t < now
      BY <1>3, <2>3, Zenon DEF HealInv, Rested
    <3>. QED BY <1>3, <3>1 DEF Unwritten
  <2>. QED BY <2>2, <2>3
<1>. HIDE DEF parts
<1>4. ASSUME NEW p \in Parts
      PROVE  Cardinality(Within(performed[p], Hour)) <= PerHour + cut
  <2>. DEFINE U == {t \in Times : <<p, t>> \in Unwritten}
  <2>1. Within(performed[p], Hour) \subseteq WrittenOf(parts, p, Hour, now) \cup U
    <3>. SUFFICES ASSUME NEW t \in Within(performed[p], Hour)
                  PROVE  t \in WrittenOf(parts, p, Hour, now) \cup U
      OBVIOUS
    <3>1. t \in performed[p] /\ now - t < Hour /\ t \in Times /\ t \in Nat
      BY <1>1, Constants DEF Within, Times
    <3>2. now - t < Day
      BY <1>1, <3>1, Constants
    <3>. QED BY <1>3, <3>1, <3>2 DEF WrittenOf
  <2>2. IsFiniteSet(U) /\ Cardinality(U) <= cut
    <3>. DEFINE f == [t \in U |-> <<p, t>>]
    <3>1. f \in Injection(U, Unwritten)
      BY DEF Injection, IsInjective
    <3>. HIDE DEF U, f
    <3>2. IsFiniteSet(U) /\ Cardinality(U) <= Cardinality(Unwritten)
      BY <3>1, UnwrittenFinite, FS_Injection
    <3>3. Cardinality(U) \in Nat
      BY <3>2, FS_CardinalityType
    <3>. QED BY <1>1, <3>2, <3>3, UnwrittenFinite
  <2>. HIDE DEF U
  <2>3. Cardinality(WrittenOf(parts, p, Hour, now)) <= PerHour
    BY <1>2 DEF WithinBudgets
  <2>. QED BY <1>1, <2>1, <2>2, <2>3, SetsFinite, InEither, Constants
<1>5. Cardinality(RepairsWithin(Day)) <= PerDay + cut
  <2>1. RepairsWithin(Day) \subseteq WrittenWithin(parts, Day, now) \cup Unwritten
    <3>1. ASSUME NEW p \in Parts, NEW t \in Within(performed[p], Day)
          PROVE  <<p, t>> \in WrittenWithin(parts, Day, now) \cup Unwritten
      <4>1. t \in performed[p] /\ now - t < Day /\ t \in Times
        BY <1>1 DEF Within
      <4>. QED BY <1>3, <4>1 DEF WrittenWithin
    <3>. QED BY <3>1 DEF RepairsWithin
  <2>2. Cardinality(WrittenWithin(parts, Day, now)) <= PerDay
    BY <1>2 DEF WithinBudgets
  <2>. QED BY <1>1, <2>1, <2>2, SetsFinite, UnwrittenFinite, InEither, Constants
<1>. QED BY <1>4, <1>5 DEF BudgetKept

\* The repairs that scripts/alpha-selfheal.mjs carries out stay within both of
\* its budgets, but for those of passes that were cut short and those in a
\* state file that was torn: whatever the thresholds, the budgets and the
\* spans of time are.
THEOREM RepairsAreBounded == SelfHealSpec => []BudgetKept
<1>1. HealInv => BudgetKept
  BY BudgetFollows
<1>. QED BY <1>1, HealInvHolds, PTL

\* The state of a pass, and what it writes, is of its type: whatever the
\* budgets are, the streaks stay bounded and a rollback finds a build.
THEOREM HealTypeCorrect == SelfHealSpec => []SelfHealTypeOK
<1>1. HealInv => SelfHealTypeOK
  BY DEF HealInv
<1>. QED BY <1>1, HealInvHolds, PTL
----------------------------------------------------------------------------
(* The panel.                                                              *)

\* What has been asked of the board in this conversation, at most.
Sent ==
  {"status"} \cup (IF talk.at = "sending" THEN {talk.expects} ELSE {})
             \cup (IF talk.at = "sending" /\ talk.whole THEN {"alpha"} ELSE {})

\* What the board has done for this task.
Carried(c) == (c = "wifi" => panel.nets = job) /\ (c = "alpha" => panel.alpha = job)

Order == [cmd : Sent, of : {job}]
Reply == [cmd : IF panel.image > 0 THEN {c \in Sent : Carried(c)} ELSE {""}, ok : BOOLEAN]

\* An answer that is accepted was to the command it is taken for.
Sure == panel.image > 0 \/ talk.asked <= 1

\* Where the conversation is: what is still to be sent, and what was.
Place ==
  \/ talk.at \in {"idle", "uploading"} /\ talk.expects = ""
  \/ /\ talk.at = "probing" /\ talk.expects \in {"", "status"}
     /\ \/ talk.left \in {<<"scan">>, <<"wifi">>} /\ ~talk.whole
        \/ talk.left = <<"alpha", "wifi">> /\ talk.whole
  \/ /\ talk.at = "sending" /\ talk.left = <<>>
     /\ (talk.expects = "scan" /\ ~talk.whole) \/ talk.expects = "wifi"
     /\ Sure /\ talk.whole => panel.alpha = job
  \/ talk.at = "sending" /\ talk.left = <<"wifi">> /\ talk.expects = "alpha" /\ talk.whole

\* The last command that was written.
LastSaid == IF talk.at = "sending" THEN talk.expects ELSE "status"

\* With an older sketch that one probe reached, there is only ever one
\* command on its way, with the board, or answered.
OneAtATime ==
  \/ /\ toBoard = <<>> /\ toHost = <<>> /\ panel.doing = ""
     /\ talk.asked = 0 => talk.at = "probing"
  \/ /\ talk.asked = 1 /\ toHost = <<>> /\ panel.doing = ""
     /\ toBoard = <<[cmd |-> LastSaid, of |-> job]>>
  \/ /\ talk.asked = 1 /\ toHost = <<>> /\ toBoard = <<>>
     /\ panel.doing = LastSaid /\ Carried(LastSaid)
  \/ /\ talk.asked = 1 /\ panel.doing = "" /\ toBoard = <<>>
     /\ Tail(toHost) = <<>> /\ Carried(LastSaid)

\* The line carries this task's commands, and answers to what was carried out.
PanelInv ==
  /\ PanelTypeOK
  /\ Place
  /\ talk.at \in {"probing", "sending"} =>
       /\ told = "" /\ toBoard \in Seq(Order) /\ toHost \in Seq(Reply)
       /\ panel.doing \in Sent \cup {""} /\ Carried(panel.doing)
       /\ panel.image = 0 /\ talk.asked <= 1 => OneAtATime

\* What is read from the line, and what is left on it.
LEMMA ReadOff ==
  ASSUME NEW S, NEW s \in Seq(S), s # <<>>
  PROVE  Head(s) \in S /\ Tail(s) \in Seq(S)
  OBVIOUS

LEMMA SentOn ==
  ASSUME NEW S, NEW s \in Seq(S), NEW x \in S
  PROVE  Append(s, x) \in Seq(S)
  OBVIOUS

LEMMA MoreOnTheLine ==
  ASSUME NEW S, NEW T, S \subseteq T
  PROVE  Seq(S) \subseteq Seq(T) /\ <<>> \in Seq(T)
  OBVIOUS

LEMMA OneOnTheLine == \A x : Append(<<>>, x) = <<x>>
  OBVIOUS

LEMMA NoneOrSome ==
  \A n \in 0 .. MaxSketches : (n > 0 <=> n # 0) /\ ~(0 > 0)
  BY PanelAssumption

LEMMA PanelBounds ==
  MaxJobs \in Nat \ {0} /\ MaxAsked \in Nat \ {0} /\ MaxResets \in Nat \ {0} /\ MaxSketches \in Nat \ {0}
  BY PanelAssumption

Talk == [at : {"idle", "probing", "sending", "uploading"},
         expects : Commands \cup {""}, left : Seq(Commands),
         asked : 0 .. MaxAsked, whole : BOOLEAN]
Board == [at : {"starting", "listening", "dead"}, doing : Commands \cup {""},
          nets : Jobs, alpha : Jobs, image : 0 .. MaxSketches]

LEMMA TalkTypes ==
  PanelTypeOK => talk \in Talk /\ panel \in Board
  BY DEF PanelTypeOK, Talk, Board

\* A task that is over, or has not begun, has no conversation.
LEMMA NoTalkIs ==
  /\ NoTalk \in Talk /\ NoTalk.at = "idle" /\ NoTalk.expects = ""
  /\ NoTalk.left = <<>> /\ NoTalk.asked = 0 /\ NoTalk.whole = FALSE
<1>1. <<>> \in Seq(Commands) /\ 0 \in 0 .. MaxAsked
  BY PanelBounds
<1>. QED BY <1>1 DEF NoTalk, Talk

LEMMA PanelInitially == PanelInit => PanelInv
<1>. SUFFICES ASSUME PanelInit PROVE PanelInv
  OBVIOUS
<1>1. 0 \in Jobs /\ 0 \in 0 .. MaxResets /\ 1 \in 1 .. MaxSketches /\ 0 \in 0 .. MaxSketches
  BY PanelBounds DEF Jobs
<1>2. panel \in Board
  <2>1. PICK image \in {0, 1} :
          panel = [at |-> "listening", doing |-> "", nets |-> 0, alpha |-> 0, image |-> image]
    BY DEF PanelInit
  <2>2. image \in 0 .. MaxSketches
    BY PanelBounds
  <2>. QED BY <1>1, <2>1, <2>2, Zenon DEF Board
<1>3. \A S : <<>> \in Seq(S)
  OBVIOUS
<1>4. PanelTypeOK
  BY <1>1, <1>2, <1>3, NoTalkIs, Zenon DEF PanelInit, PanelTypeOK, Talk, Board
<1>. QED BY <1>4, NoTalkIs DEF PanelInit, PanelInv, Place

\* Nothing is under way.
LEMMA AfterTalk ==
  ASSUME PanelTypeOK', talk'.at \in {"idle", "uploading"}, talk'.expects = ""
  PROVE  PanelInv'
  BY DEF PanelInv, Place

\* The job count, the sketch and the image stay within their bounds.
LEMMA PanelCounts ==
  /\ \A j \in Jobs : j < MaxJobs => j + 1 \in Jobs
  /\ \A n \in 0 .. MaxAsked : n < MaxAsked => n + 1 \in 0 .. MaxAsked
  /\ \A n \in 0 .. MaxResets : n < MaxResets => n + 1 \in 0 .. MaxResets
  /\ \A n \in 1 .. MaxSketches : n < MaxSketches => n + 1 \in 1 .. MaxSketches
  /\ \A n \in 1 .. MaxSketches : n \in 0 .. MaxSketches
  /\ 0 \in 0 .. MaxSketches
  BY PanelBounds DEF Jobs

Results == {"", "silent", "timed out", "refused", "provisioned", "scanned", "flashed", "failed"}

\* A step that ends the conversation, if there is one, and tells how.
LEMMA TellsQuietly ==
  ASSUME PanelInv, NEW r \in Results, Told(r),
         job' \in Jobs, resets' \in 0 .. MaxResets,
         toBoard' \in Seq([cmd : Commands, of : Jobs]),
         toHost' \in Seq([cmd : Commands \cup {""}, ok : BOOLEAN]),
         panel' \in Board, sketch' \in 1 .. MaxSketches, built' \in 0 .. MaxSketches
  PROVE  PanelInv'
<1>1. PanelTypeOK'
  BY NoTalkIs, Zenon DEF Told, PanelTypeOK, Talk, Board, Results
<1>. QED BY <1>1, NoTalkIs, AfterTalk DEF Told

LEMMA RejectsSafely ==
  ASSUME PanelInv, Rejects \/ NotAnswering \/ NoReply \/ Throws
  PROVE  PanelInv'
<1>1. /\ job' \in Jobs
      /\ UNCHANGED <<resets, toBoard, toHost, panel, sketch, built>>
  BY PanelCounts DEF PanelInv, PanelTypeOK, Rejects, NotAnswering, NoReply, Throws
<1>2. panel' \in Board
  BY <1>1 DEF PanelInv, PanelTypeOK, Board
<1>3. CASE \E r \in Results : Told(r)
  BY <1>1, <1>2, <1>3, TellsQuietly DEF PanelInv, PanelTypeOK
<1>4. CASE NotAnswering /\ talk' = [talk EXCEPT !.expects = ""] /\ told' = told
  <2>1. /\ talk'.at = talk.at /\ talk'.expects = "" /\ talk'.left = talk.left
        /\ talk'.whole = talk.whole /\ talk'.asked = talk.asked /\ talk' \in Talk
    BY <1>4, TalkTypes DEF PanelInv, Talk
  <2>2. PanelTypeOK'
    BY <1>1, <1>4, <2>1, Zenon DEF NotAnswering, PanelInv, PanelTypeOK, Talk
  <2>3. talk.at = "probing" /\ job' = job
    BY <1>4 DEF NotAnswering
  <2>4. Sent' = Sent /\ Place'
    BY <1>4, <2>1, <2>3 DEF Sent, Place, PanelInv
  <2>5. Order' = Order /\ Reply' = Reply
    BY <1>1, <2>3, <2>4 DEF Order, Reply, Carried
  <2>6. OneAtATime' = OneAtATime
    BY <1>1, <2>1, <2>3 DEF OneAtATime, LastSaid, Carried
  <2>7. Carried(panel.doing)' = Carried(panel.doing)
    BY <1>1, <2>3 DEF Carried
  <2>. QED BY <1>1, <1>4, <2>1, <2>2, <2>3, <2>4, <2>5, <2>6, <2>7 DEF PanelInv
<1>. QED BY <1>3, <1>4 DEF Rejects, NotAnswering, NoReply, Throws, Results

\* A board that starts again has forgotten what it was doing.
LEMMA StartsAgain ==
  ASSUME panel \in Board, NEW at \in {"starting", "listening", "dead"},
         NEW image \in 0 .. MaxSketches, Rebooted(at, image)
  PROVE  /\ panel' \in Board /\ panel'.doing = "" /\ panel'.image = image
         /\ panel'.nets = panel.nets /\ panel'.alpha = panel.alpha
         /\ toBoard' = <<>>
<1>. DEFINE a == [panel EXCEPT !.at = at]
            b == [a EXCEPT !.doing = ""]
            d == [b EXCEPT !.image = image]
<1>1. panel' = d /\ toBoard' = <<>>
  BY Zenon DEF Rebooted
<1>2. a \in Board /\ a.nets = panel.nets /\ a.alpha = panel.alpha
  BY DEF Board
<1>. HIDE DEF a
<1>3. b \in Board /\ b.doing = "" /\ b.nets = a.nets /\ b.alpha = a.alpha
  BY <1>2 DEF Board
<1>. HIDE DEF b
<1>4. d \in Board /\ d.doing = "" /\ d.image = image /\ d.nets = b.nets /\ d.alpha = b.alpha
  BY <1>3 DEF Board
<1>. HIDE DEF d
<1>. QED BY <1>1, <1>2, <1>3, <1>4, Zenon

\* The line is cut when the port is opened.
LEMMA OpensSafely ==
  ASSUME PanelInv, NEW commands \in Conversations, Open(commands)
  PROVE  PanelInv'
<1>1. /\ commands \in Seq(Commands)
      /\ \/ commands \in {<<"scan">>, <<"wifi">>} /\ Len(commands) # 2
         \/ commands = <<"alpha", "wifi">> /\ Len(commands) = 2
  BY DEF Conversations, Commands
<1>2. /\ talk' \in Talk /\ talk'.at = "probing" /\ talk'.expects = "" /\ talk'.left = commands
      /\ talk'.whole = (Len(commands) = 2) /\ talk'.asked = 0
  <2>. DEFINE a == [NoTalk EXCEPT !.at = "probing"]
              b == [a EXCEPT !.left = commands]
              whole == Len(commands) = 2
              d == [b EXCEPT !.whole = whole]
  <2>1. talk' = d
    BY Zenon DEF Open
  <2>2. a \in Talk /\ a.at = "probing" /\ a.expects = "" /\ a.asked = 0
    BY NoTalkIs DEF Talk
  <2>. HIDE DEF a
  <2>3. b \in Talk /\ b.at = "probing" /\ b.expects = "" /\ b.left = commands /\ b.asked = 0
    BY <2>2, <1>1 DEF Talk
  <2>. HIDE DEF b
  <2>4. whole \in BOOLEAN
    BY Zenon
  <2>5. whole = (Len(commands) = 2)
    OBVIOUS
  <2>. HIDE DEF whole
  <2>6. d \in Talk /\ d.at = "probing" /\ d.expects = "" /\ d.left = commands /\ d.whole = whole
        /\ d.asked = 0
    BY <2>3, <2>4 DEF Talk
  <2>. HIDE DEF d
  <2>. QED BY <2>1, <2>5, <2>6, Zenon
<1>3. /\ job' \in Jobs /\ told' = "" /\ toHost' = <<>>
      /\ UNCHANGED <<resets, sketch, built>>
  BY PanelCounts DEF Open, PanelInv, PanelTypeOK
<1>4. panel' \in Board /\ panel'.doing = "" /\ toBoard' = <<>>
  <2>1. panel \in Board /\ panel.image \in 0 .. MaxSketches
    BY TalkTypes DEF PanelInv, Board
  <2>2. PICK at \in {"starting", "dead"} : Rebooted(at, panel.image)
    BY DEF Open
  <2>. QED BY <2>1, <2>2, StartsAgain
<1>5. \A S : <<>> \in Seq(S)
  OBVIOUS
<1>6. PanelTypeOK'
  BY <1>2, <1>3, <1>4, <1>5, Zenon DEF PanelInv, PanelTypeOK, Talk, Board
<1>7. Place'
  <2>1. talk'.whole <=> Len(commands) = 2
    BY <1>2, Zenon
  <2>. QED BY <1>1, <1>2, <2>1 DEF Place
<1>8. OneAtATime' /\ Carried(panel.doing)'
  BY <1>2, <1>3, <1>4 DEF OneAtATime, Carried
<1>. QED BY <1>3, <1>4, <1>5, <1>6, <1>7, <1>8, Zenon DEF PanelInv

\* A step of the handler or the board in the middle of a conversation.
LEMMA GoesOn ==
  ASSUME PanelInv, UNCHANGED <<job, told, sketch, built>>, resets' \in 0 .. MaxResets,
         talk' \in Talk, panel' \in Board,
         toBoard' \in Seq(Order'),
         toHost' \in Seq(Reply'), Sent' \subseteq Commands,
         panel'.doing \in Sent' \cup {""}, Carried(panel.doing)',
         panel'.image = 0 /\ talk'.asked <= 1 => OneAtATime',
         Place', talk.at \in {"probing", "sending"}
  PROVE  PanelInv'
<1>1. job \in Jobs /\ job' = job
  BY DEF PanelInv, PanelTypeOK
<1>2. Order' \subseteq [cmd : Commands, of : Jobs]
  BY <1>1 DEF Order
<1>3. Reply' \subseteq [cmd : Commands \cup {""}, ok : BOOLEAN]
  BY DEF Reply
<1>. DEFINE O == Order'
            R == Reply'
            AnyOrder == [cmd : Commands, of : Jobs]
            AnyReply == [cmd : Commands \cup {""}, ok : BOOLEAN]
<1>4. toBoard' \in Seq(O) /\ toHost' \in Seq(R) /\ O \subseteq AnyOrder /\ R \subseteq AnyReply
  BY <1>2, <1>3
<1>5. toBoard' \in Seq(AnyOrder) /\ toHost' \in Seq(AnyReply)
  <2>. HIDE DEF O, R, AnyOrder, AnyReply
  <2>. QED BY <1>4, MoreOnTheLine
<1>6. PanelTypeOK'
  BY <1>5, Zenon DEF PanelInv, PanelTypeOK, Talk, Board
<1>7. told' = ""
  BY DEF PanelInv
<1>. QED BY <1>4, <1>6, <1>7, Zenon DEF PanelInv

LEMMA ResetsKeep == PanelInv /\ UNCHANGED resets => resets' \in 0 .. MaxResets
  BY Zenon DEF PanelInv, PanelTypeOK

\* Everything that is sent is a command.
LEMMA SentAreCommands == PanelInv => Sent \subseteq Commands
  BY DEF PanelInv, Place, Sent, Commands

LEMMA AsksSafely ==
  ASSUME PanelInv, NEW heard \in BOOLEAN, Asks(heard)
  PROVE  PanelInv'
<1>1. talk.at = "probing" /\ UNCHANGED <<job, told, toHost, panel, resets, sketch, built>>
  BY DEF Asks
<1>2. /\ talk' \in Talk /\ talk'.at = "probing" /\ talk'.expects = "status"
      /\ talk'.left = talk.left /\ talk'.whole = talk.whole
      /\ talk'.asked = IF heard THEN talk.asked + 1 ELSE talk.asked
  <2>. DEFINE a == [talk EXCEPT !.expects = "status"]
              n == IF heard THEN talk.asked + 1 ELSE talk.asked
              b == [a EXCEPT !.asked = n]
  <2>1. talk' = [a EXCEPT !.asked = IF heard THEN @ + 1 ELSE @]
    BY Zenon DEF Asks
  <2>2. /\ a \in Talk /\ a.at = "probing" /\ a.expects = "status" /\ a.left = talk.left
        /\ a.whole = talk.whole /\ a.asked = talk.asked
    BY <1>1, TalkTypes DEF PanelInv, Talk, Commands
  <2>3. n \in 0 .. MaxAsked
    BY TalkTypes, PanelCounts DEF Asks, Talk, PanelInv
  <2>. HIDE DEF a
  <2>4. talk' = b
    BY <2>1, <2>2, Zenon
  <2>5. n = IF heard THEN talk.asked + 1 ELSE talk.asked
    OBVIOUS
  <2>. HIDE DEF n
  <2>6. /\ b \in Talk /\ b.at = "probing" /\ b.expects = "status" /\ b.left = talk.left
        /\ b.whole = talk.whole /\ b.asked = n
    BY <2>2, <2>3 DEF Talk
  <2>. HIDE DEF b
  <2>. QED BY <2>4, <2>5, <2>6, Zenon
<1>3. Sent' = Sent /\ Place' /\ "status" \in Sent
  BY <1>1, <1>2 DEF Sent, Place, PanelInv
<1>4. Order' = Order /\ Reply' = Reply /\ Carried(panel.doing)' = Carried(panel.doing)
  BY <1>1, <1>3 DEF Order, Reply, Carried
<1>5. [cmd |-> "status", of |-> job] \in Order
  BY <1>3 DEF Order
<1>6. toBoard \in Seq(Order) /\ toHost \in Seq(Reply)
  BY <1>1 DEF PanelInv
<1>7. toBoard' \in Seq(Order)
  <2>1. toBoard' = toBoard \/ toBoard' = Append(toBoard, [cmd |-> "status", of |-> job])
    BY DEF Asks
  <2>2. Append(toBoard, [cmd |-> "status", of |-> job]) \in Seq(Order)
    BY <1>5, <1>6, SentOn, Zenon
  <2>. QED BY <2>1, <2>2, <1>6, Zenon
<1>8. panel' \in Board
  BY <1>1, TalkTypes DEF PanelInv
<1>9. toBoard' \in Seq(Order') /\ toHost' \in Seq(Reply')
  BY <1>1, <1>4, <1>6, <1>7
<1>10. Sent' \subseteq Commands
  BY <1>3, SentAreCommands
<1>11. panel'.doing \in Sent' \cup {""} /\ Carried(panel.doing)'
  BY <1>1, <1>3, <1>4 DEF PanelInv
<1>12. ASSUME panel'.image = 0, talk'.asked <= 1
       PROVE  OneAtATime'
  <2>1. panel' = panel /\ job' = job /\ toHost' = toHost
    BY <1>1
  <2>a. talk.asked \in Nat
    <3>1. talk \in Talk
      BY TalkTypes, Zenon DEF PanelInv
    <3>2. talk.asked \in 0 .. MaxAsked
      BY <3>1, Zenon DEF Talk
    <3>. QED BY <3>2, PanelBounds
  <2>b. talk.asked <= 1 /\ (heard => talk.asked = 0 /\ talk'.asked = 1)
    BY <1>2, <1>12, <2>a
  <2>2. OneAtATime
    <3>1. panel.image = 0
      BY <1>12, <2>1, Zenon
    <3>. QED BY <1>1, <2>b, <3>1, Zenon DEF PanelInv
  <2>3. CASE heard
    <3>1. talk.asked = 0 /\ talk'.asked = 1
      BY <2>b, <2>3
    <3>a. talk.asked # 1
      BY <3>1
    <3>2. toBoard = <<>> /\ toHost = <<>> /\ panel.doing = ""
      BY <2>2, <3>a, Zenon DEF OneAtATime
    <3>3. toBoard' = <<[cmd |-> "status", of |-> job]>>
      BY <2>3, <3>2, OneOnTheLine, Zenon DEF Asks
    <3>4. LastSaid' = "status"
      BY <1>2 DEF LastSaid
    <3>. QED BY <2>1, <3>1, <3>2, <3>3, <3>4 DEF OneAtATime
  <2>4. CASE ~heard
    <3>1. toBoard' = toBoard /\ talk'.asked = talk.asked /\ LastSaid' = LastSaid /\ talk'.at = talk.at
      BY <1>1, <1>2, <2>4 DEF Asks, LastSaid
    <3>2. Carried(LastSaid)' = Carried(LastSaid)
      BY <2>1, <3>1 DEF Carried
    <3>. QED BY <2>1, <2>2, <3>1, <3>2, Zenon DEF OneAtATime
  <2>. QED BY <2>3, <2>4
<1>. QED BY <1>1, <1>2, <1>3, <1>8, <1>9, <1>10, <1>11, <1>12, GoesOn, ResetsKeep

\* What is accepted was asked for; if it can be sure, it was carried out.
LEMMA Accepted ==
  ASSUME PanelInv, talk.at \in {"probing", "sending"}, toHost # <<>>,
         talk.expects # "", Accepts(Head(toHost), talk.expects)
  PROVE  Sure => Carried(talk.expects)
<1>1. toHost \in Seq(Reply)
  BY DEF PanelInv
<1>2. Head(toHost) \in Reply
  BY <1>1, ReadOff, Zenon
<1>3. CASE panel.image > 0
  <2>1. Head(toHost).cmd \in Sent /\ Carried(Head(toHost).cmd)
    BY <1>2, <1>3 DEF Reply
  <2>2. Head(toHost).cmd = talk.expects
    BY <2>1 DEF Accepts, Sent, PanelInv, Place
  <2>. QED BY <2>1, <2>2
<1>4. CASE ~(panel.image > 0) /\ talk.asked <= 1
  <2>a. panel \in Board
    BY TalkTypes, Zenon DEF PanelInv
  <2>b. panel.image \in 0 .. MaxSketches
    BY <2>a, Zenon DEF Board
  <2>1. panel.image = 0
    BY <1>4, <2>b, NoneOrSome, Zenon
  <2>2. Carried(LastSaid)
    BY <1>4, <2>1, Zenon DEF PanelInv, OneAtATime
  <2>3. talk.expects = LastSaid
    BY DEF PanelInv, Place, LastSaid
  <2>. QED BY <2>2, <2>3
<1>. QED BY <1>3, <1>4 DEF Sure

LEMMA LeftOnTheLine ==
  ASSUME PanelInv, talk.at \in {"probing", "sending"}, toHost # <<>>
  PROVE  Tail(toHost) \in Seq(Reply)
<1>1. toHost \in Seq(Reply)
  BY DEF PanelInv
<1>. QED BY <1>1, ReadOff, Zenon

\* Reading off the line leaves the board as it is and the line, where there
\* is one command at a time, empty.
LEMMA LineIsRead ==
  ASSUME PanelInv, talk.at \in {"probing", "sending"}, toHost # <<>>,
         panel.image = 0, talk.asked <= 1
  PROVE  /\ talk.asked = 1 /\ toBoard = <<>> /\ panel.doing = "" /\ Tail(toHost) = <<>>
         /\ Carried(LastSaid) /\ Accepts(Head(toHost), talk.expects)
<1>1. toHost \in Seq(Reply)
  BY DEF PanelInv
<1>2. Head(toHost) \in Reply
  BY <1>1, ReadOff, Zenon
<1>3. Head(toHost).cmd = ""
  <2>1. ~(panel.image > 0)
    OBVIOUS
  <2>. QED BY <1>2, <2>1, Zenon DEF Reply
<1>4. Accepts(Head(toHost), talk.expects)
  BY <1>3, Zenon DEF Accepts
<1>5. OneAtATime
  BY Zenon DEF PanelInv
<1>6. /\ talk.asked = 1 /\ toBoard = <<>> /\ panel.doing = "" /\ Tail(toHost) = <<>>
      /\ Carried(LastSaid)
  BY <1>5, Zenon DEF OneAtATime
<1>. QED BY <1>4, <1>6, Zenon

LEMMA PlanIs ==
  /\ <<"scan">> # <<>> /\ <<"wifi">> # <<>> /\ <<"alpha", "wifi">> # <<>>
  /\ <<"scan">> # <<"wifi">> /\ <<"scan">> # <<"alpha", "wifi">> /\ <<"wifi">> # <<"alpha", "wifi">>
  /\ Head(<<"scan">>) = "scan" /\ Tail(<<"scan">>) = <<>>
  /\ Head(<<"wifi">>) = "wifi" /\ Tail(<<"wifi">>) = <<>>
  /\ Head(<<"alpha", "wifi">>) = "alpha" /\ Tail(<<"alpha", "wifi">>) = <<"wifi">>
<1>1. /\ Len(<<"scan">>) = 1 /\ Len(<<"wifi">>) = 1 /\ Len(<<"alpha", "wifi">>) = 2
      /\ Len(<<>>) = 0 /\ <<"scan">>[1] = "scan" /\ <<"wifi">>[1] = "wifi"
      /\ "scan" # "wifi"
  OBVIOUS
<1>2. /\ <<"scan">> # <<>> /\ <<"wifi">> # <<>> /\ <<"alpha", "wifi">> # <<>>
      /\ <<"scan">> # <<"wifi">> /\ <<"scan">> # <<"alpha", "wifi">> /\ <<"wifi">> # <<"alpha", "wifi">>
  BY <1>1
<1>3. Tail(<<"alpha", "wifi">>) = <<"wifi">>
  OBVIOUS
<1>. QED BY <1>2, <1>3

LEMMA SendsSafely ==
  ASSUME PanelInv, toHost # <<>>, toHost' = Tail(toHost),
         Accepts(Head(toHost), talk.expects),
         talk.at = "probing" \/ (talk.at = "sending" /\ talk.left # <<>>),
         talk.expects # "", Sends, UNCHANGED <<job, panel, resets, sketch, built>>
  PROVE  PanelInv'
<1>1. Tail(toHost) \in Seq(Reply) /\ (Sure => Carried(talk.expects))
  BY Accepted, LeftOnTheLine
<1>2. talk.left \in Seq(Commands) /\ talk.left # <<>> /\ talk \in Talk
  <2>1. talk.left \in Seq(Commands) /\ talk \in Talk
    BY TalkTypes DEF PanelInv, Talk
  <2>2. talk.left # <<>>
    BY PlanIs DEF PanelInv, Place
  <2>. QED BY <2>1, <2>2
<1>3. Head(talk.left) \in Commands /\ Tail(talk.left) \in Seq(Commands)
  BY <1>2, ReadOff, Zenon
<1>4. /\ talk' \in Talk /\ talk'.at = "sending" /\ talk'.expects = Head(talk.left)
      /\ talk'.left = Tail(talk.left) /\ talk'.whole = talk.whole /\ talk'.asked = talk.asked
  <2>. DEFINE a == [talk EXCEPT !.at = "sending"]
              next == Head(talk.left)
              rest == Tail(talk.left)
              b == [a EXCEPT !.expects = next]
              d == [b EXCEPT !.left = rest]
  <2>1. next \in Commands /\ rest \in Seq(Commands)
    BY <1>3
  <2>2. a \in Talk /\ a.at = "sending" /\ a.left = talk.left /\ a.whole = talk.whole /\ a.asked = talk.asked
    BY <1>2 DEF Talk
  <2>3. talk' = [a EXCEPT !.expects = next, !.left = Tail(@)]
    BY Zenon DEF Sends
  <2>. HIDE DEF a, next
  <2>4. b \in Talk /\ b.at = "sending" /\ b.expects = next /\ b.left = talk.left /\ b.whole = talk.whole
        /\ b.asked = talk.asked
    BY <2>1, <2>2 DEF Talk
  <2>5. talk' = [b EXCEPT !.left = Tail(@)]
    BY <2>3, Zenon
  <2>. HIDE DEF b
  <2>6. talk' = d
    BY <2>4, <2>5, Zenon
  <2>. HIDE DEF rest
  <2>7. d \in Talk /\ d.at = "sending" /\ d.expects = next /\ d.left = rest /\ d.whole = talk.whole
        /\ d.asked = talk.asked
    BY <2>1, <2>4 DEF Talk
  <2>. HIDE DEF d
  <2>. QED BY <2>6, <2>7, Zenon DEF next, rest
<1>5. \/ talk.left = <<"scan">> /\ Head(talk.left) = "scan" /\ Tail(talk.left) = <<>> /\ ~talk.whole
      \/ talk.left = <<"wifi">> /\ Head(talk.left) = "wifi" /\ Tail(talk.left) = <<>>
         /\ (talk.whole => talk.at = "sending" /\ talk.expects = "alpha")
      \/ talk.left = <<"alpha", "wifi">> /\ Head(talk.left) = "alpha" /\ Tail(talk.left) = <<"wifi">>
         /\ talk.whole /\ talk.at = "probing"
  BY PlanIs DEF PanelInv, Place
<1>6. Sure /\ talk.whole /\ talk.left = <<"wifi">> => panel.alpha = job
  <2>1. talk.whole /\ talk.left = <<"wifi">> => talk.expects = "alpha"
    BY PlanIs DEF PanelInv, Place
  <2>. QED BY <2>1, <1>1 DEF Carried
<1>7. Place' /\ Sent' \subseteq Commands
  <2>1. Sure' = Sure
    BY <1>4 DEF Sure
  <2>. QED BY <1>4, <1>5, <1>6, <2>1 DEF Place, Sent, Commands
<1>8. Sent \subseteq Sent' /\ Head(talk.left) \in Sent'
  BY <1>4, <1>5 DEF Sent, PanelInv, Place
<1>9. Order \subseteq Order' /\ Reply \subseteq Reply'
  BY <1>8 DEF Order, Reply, Carried
<1>10. [cmd |-> Head(talk.left), of |-> job] \in Order'
  BY <1>8 DEF Order
<1>11. toBoard' \in Seq(Order') /\ toHost' \in Seq(Reply')
  <2>1. toBoard \in Seq(Order) /\ toHost' \in Seq(Reply)
    BY <1>1 DEF PanelInv
  <2>2. toBoard \in Seq(Order') /\ toHost' \in Seq(Reply')
    BY <2>1, <1>9, MoreOnTheLine, Zenon
  <2>3. toBoard' = Append(toBoard, [cmd |-> Head(talk.left), of |-> job])
    BY Zenon DEF Sends
  <2>. QED BY <2>2, <2>3, <1>10, SentOn, Zenon
<1>12. panel' \in Board /\ told' = told
  BY TalkTypes DEF PanelInv, Sends
<1>13. panel'.doing \in Sent' \cup {""} /\ Carried(panel.doing)'
  BY <1>8 DEF PanelInv, Carried
<1>14. ASSUME panel'.image = 0, talk'.asked <= 1
       PROVE  OneAtATime'
  <2>1. panel.image = 0 /\ talk.asked <= 1
    BY <1>4, <1>14
  <2>2. talk.asked = 1 /\ toBoard = <<>> /\ panel.doing = "" /\ Tail(toHost) = <<>>
    BY <2>1, LineIsRead
  <2>3. toBoard' = <<[cmd |-> Head(talk.left), of |-> job]>>
    BY <2>2, OneOnTheLine, Zenon DEF Sends
  <2>4. LastSaid' = Head(talk.left)
    BY <1>4 DEF LastSaid
  <2>. QED BY <1>4, <2>2, <2>3, <2>4 DEF OneAtATime
<1>. QED BY <1>4, <1>7, <1>11, <1>12, <1>13, <1>14, GoesOn, ResetsKeep

LEMMA ReadsSafely ==
  ASSUME PanelInv, Reads
  PROVE  PanelInv'
<1>1. /\ talk.expects # "" /\ toHost # <<>> /\ toHost' = Tail(toHost)
      /\ UNCHANGED <<job, panel, resets, sketch, built>>
  BY DEF Reads
<1>2. talk.at \in {"probing", "sending"}
  BY <1>1 DEF PanelInv, Place
<1>3. Tail(toHost) \in Seq(Reply)
  BY <1>1, <1>2, LeftOnTheLine
<1>4. CASE UNCHANGED <<talk, told, toBoard>> /\ ~Accepts(Head(toHost), talk.expects)
  <2>1. Sent' = Sent /\ Place' /\ Order' = Order /\ Reply' = Reply
    <3>1. Sent' = Sent /\ Sure' = Sure
      BY <1>1, <1>4, Zenon DEF Sent, Sure
    <3>2. Place' = Place
      BY <1>1, <1>4, <3>1, Zenon DEF Place
    <3>3. Order' = Order /\ Reply' = Reply
      BY <1>1, <3>1, Zenon DEF Order, Reply, Carried
    <3>. QED BY <3>1, <3>2, <3>3, Zenon DEF PanelInv
  <2>2. toBoard' \in Seq(Order') /\ toHost' \in Seq(Reply')
    BY <1>1, <1>2, <1>3, <1>4, <2>1 DEF PanelInv
  <2>3. talk' \in Talk /\ panel' \in Board /\ Sent' \subseteq Commands
    BY <1>1, <1>4, <2>1, TalkTypes, SentAreCommands DEF PanelInv
  <2>4. panel'.doing \in Sent' \cup {""} /\ Carried(panel.doing)'
    BY <1>1, <1>2, <1>4, <2>1 DEF PanelInv, Carried
  <2>5. ~(panel'.image = 0 /\ talk'.asked <= 1)
    BY <1>1, <1>2, <1>4, LineIsRead
  <2>. QED BY <1>1, <1>2, <1>4, <2>1, <2>2, <2>3, <2>4, <2>5, GoesOn, ResetsKeep
<1>5. CASE /\ Accepts(Head(toHost), talk.expects) /\ Sends
           /\ talk.at = "probing" \/ talk.left # <<>>
  BY <1>1, <1>2, <1>5, SendsSafely
<1>6. CASE UNCHANGED toBoard /\ \E r \in Results : Told(r)
  <2>1. job' \in Jobs /\ resets' \in 0 .. MaxResets /\ sketch' \in 1 .. MaxSketches
        /\ built' \in 0 .. MaxSketches /\ toBoard' \in Seq([cmd : Commands, of : Jobs])
        /\ panel' \in Board
    BY <1>1, <1>6, TalkTypes DEF PanelInv, PanelTypeOK
  <2>2. toHost' \in Seq([cmd : Commands \cup {""}, ok : BOOLEAN])
    <3>. DEFINE AnyReply == [cmd : Commands \cup {""}, ok : BOOLEAN]
    <3>1. toHost \in Seq(AnyReply)
      BY Zenon DEF PanelInv, PanelTypeOK
    <3>. HIDE DEF AnyReply
    <3>2. Tail(toHost) \in Seq(AnyReply)
      BY <1>1, <3>1, ReadOff, Zenon
    <3>. QED BY <1>1, <3>2 DEF AnyReply
  <2>. QED BY <1>6, <2>1, <2>2, TellsQuietly
<1>7. \/ UNCHANGED <<talk, told, toBoard>> /\ ~Accepts(Head(toHost), talk.expects)
      \/ /\ Accepts(Head(toHost), talk.expects) /\ Sends
         /\ talk.at = "probing" \/ talk.left # <<>>
      \/ UNCHANGED toBoard /\ \E r \in Results : Told(r)
  <2>1. \A r : r \in {"refused", "scanned", "provisioned"} => r \in Results
    BY DEF Results
  <2>2. (CASE ~Head(toHost).ok -> "refused"
           [] talk.expects = "scan" -> "scanned"
           [] OTHER -> "provisioned") \in {"refused", "scanned", "provisioned"}
    OBVIOUS
  <2>. QED BY <2>1, <2>2, Zenon DEF Reads
<1>. QED BY <1>4, <1>5, <1>6, <1>7

LEMMA CompilesSafely ==
  ASSUME PanelInv, NEW works \in BOOLEAN, NEW flash \in BOOLEAN, Compile(works, flash)
  PROVE  PanelInv'
<1>1. /\ job' \in Jobs /\ built' \in 0 .. MaxSketches
      /\ UNCHANGED <<toBoard, toHost, panel, resets, sketch>>
  BY PanelCounts DEF Compile, PanelInv, PanelTypeOK
<1>2. CASE \E r \in Results : Told(r)
  BY <1>1, <1>2, TalkTypes, TellsQuietly DEF PanelInv, PanelTypeOK
<1>3. CASE told' = "" /\ talk' = [NoTalk EXCEPT !.at = "uploading"]
  <2>1. talk' \in Talk /\ talk'.at = "uploading" /\ talk'.expects = ""
    BY <1>3, NoTalkIs DEF Talk
  <2>2. PanelTypeOK'
    BY <1>1, <1>3, <2>1, Zenon DEF PanelInv, PanelTypeOK, Talk
  <2>. QED BY <2>1, <2>2, AfterTalk
<1>. QED BY <1>2, <1>3, Zenon DEF Compile, Results

LEMMA UploadsSafely ==
  ASSUME PanelInv, NEW works \in BOOLEAN, Upload(works)
  PROVE  PanelInv'
<1>1. UNCHANGED <<job, toHost, resets, sketch, built>>
  BY DEF Upload
<1>2. PICK image \in {panel.image, built}, at \in {"starting", "dead"} : Rebooted(at, image)
  BY DEF Upload
<1>3. panel \in Board /\ image \in 0 .. MaxSketches
  BY TalkTypes DEF PanelInv, PanelTypeOK, Board
<1>4. panel' \in Board /\ toBoard' = <<>>
  BY <1>2, <1>3, StartsAgain
<1>5. PICK r \in Results : Told(r)
  BY DEF Upload, Results
<1>6. \A S : <<>> \in Seq(S)
  OBVIOUS
<1>7. toBoard' \in Seq([cmd : Commands, of : Jobs])
  BY <1>4, <1>6, Zenon
<1>. QED BY <1>1, <1>4, <1>5, <1>7, TellsQuietly, Zenon DEF PanelInv, PanelTypeOK

LEMMA EditsSafely ==
  ASSUME PanelInv, Edits \/ UNCHANGED panelVars
  PROVE  PanelInv'
<1>1. /\ UNCHANGED <<job, talk, told, toBoard, toHost, panel, resets, built>>
      /\ sketch' \in 1 .. MaxSketches
  BY PanelCounts DEF Edits, panelVars, PanelInv, PanelTypeOK
<1>2. PanelTypeOK'
  BY <1>1, Zenon DEF PanelInv, PanelTypeOK
<1>3. Sent' = Sent /\ Place' = Place /\ LastSaid' = LastSaid
  BY <1>1, Zenon DEF Sent, Place, Sure, LastSaid
<1>4. \A c : Carried(c)' = Carried(c)
  BY <1>1, Zenon DEF Carried
<1>5. Order' = Order /\ Reply' = Reply
  BY <1>1, <1>3, Zenon DEF Order, Reply, Carried
<1>6. OneAtATime' = OneAtATime
  BY <1>1, <1>3, Zenon DEF OneAtATime, Carried
<1>. QED BY <1>1, <1>2, <1>3, <1>4, <1>5, <1>6, Zenon DEF PanelInv

\* The board starts, or starts again: what it keeps is what it kept.
LEMMA BoardSafely ==
  ASSUME PanelInv, Boots \/ ResetsItself
  PROVE  PanelInv'
<1>1. /\ UNCHANGED <<job, talk, told, toHost, sketch, built>>
      /\ resets' \in 0 .. MaxResets
  BY PanelCounts DEF Boots, ResetsItself, PanelInv, PanelTypeOK
<1>2. panel \in Board
  BY TalkTypes DEF PanelInv
<1>3. /\ panel' \in Board /\ panel'.nets = panel.nets /\ panel'.alpha = panel.alpha
      /\ panel'.image = panel.image
      /\ \/ panel'.doing = panel.doing /\ toBoard' = toBoard
         \/ panel'.doing = "" /\ toBoard' = <<>>
  <2>1. CASE Boots
    BY <1>2, <2>1 DEF Boots, Board
  <2>2. CASE ResetsItself
    <3>1. panel.image \in 0 .. MaxSketches /\ Rebooted("starting", panel.image)
      BY <1>2, <2>2 DEF ResetsItself, Board
    <3>. QED BY <1>2, <3>1, StartsAgain
  <2>. QED BY <2>1, <2>2
<1>4. \A S : <<>> \in Seq(S)
  OBVIOUS
<1>5. Sent' = Sent /\ Place' /\ LastSaid' = LastSaid
  <2>1. Sent' = Sent /\ LastSaid' = LastSaid
    BY <1>1, Zenon DEF Sent, LastSaid
  <2>2. Sure' = Sure
    BY <1>1, <1>3, Zenon DEF Sure
  <2>3. Place' = Place
    BY <1>1, <1>3, <2>2, Zenon DEF Place
  <2>. QED BY <2>1, <2>3 DEF PanelInv
<1>6. \A c : Carried(c)' = Carried(c)
  BY <1>1, <1>3, Zenon DEF Carried
<1>7. Order' = Order /\ Reply' = Reply
  <2>1. Order' = Order
    BY <1>1, <1>5, Zenon DEF Order
  <2>2. \A c : Carried(c) <=> Carried(c)'
    BY <1>6, Zenon
  <2>. QED BY <1>1, <1>3, <1>5, <2>1, <2>2 DEF Reply, Carried
<1>8. CASE talk.at \in {"probing", "sending"}
  <2>1. toBoard' \in Seq(Order') /\ toHost' \in Seq(Reply')
    BY <1>1, <1>3, <1>4, <1>7, <1>8, Zenon DEF PanelInv
  <2>2. panel'.doing \in Sent' \cup {""} /\ Carried(panel.doing)'
    BY <1>1, <1>3, <1>5, <1>8 DEF PanelInv, Carried
  <2>3. ASSUME panel'.image = 0, talk'.asked <= 1
        PROVE  OneAtATime'
    <3>1. OneAtATime /\ talk.asked <= 1
      BY <1>1, <1>3, <1>8, <2>3 DEF PanelInv
    <3>2. CASE panel'.doing = panel.doing /\ toBoard' = toBoard
      BY <1>1, <1>5, <1>6, <3>1, <3>2 DEF OneAtATime
    <3>3. CASE panel'.doing = "" /\ toBoard' = <<>>
      <4>0. talk.asked = 0 => talk.asked # 1
        OBVIOUS
      <4>1. toHost = <<>> \/ (talk.asked = 1 /\ Tail(toHost) = <<>> /\ Carried(LastSaid))
        BY <3>1, Zenon DEF OneAtATime
      <4>2. talk.asked = 0 => talk.at = "probing"
        BY <3>1, <4>0, Zenon DEF OneAtATime
      <4>3. Carried(LastSaid) => Carried(LastSaid)'
        BY <1>1, <1>3, <1>5, Zenon DEF Carried
      <4>. QED BY <1>1, <3>3, <4>1, <4>2, <4>3, Zenon DEF OneAtATime
    <3>. QED BY <1>3, <3>2, <3>3
  <2>4. talk' \in Talk /\ Sent' \subseteq Commands
    BY <1>1, <1>5, TalkTypes, SentAreCommands DEF PanelInv
  <2>. QED BY <1>1, <1>3, <1>5, <1>8, <2>1, <2>2, <2>3, <2>4, GoesOn
<1>9. CASE talk.at \notin {"probing", "sending"}
  <2>1. talk'.at \in {"idle", "uploading"} /\ talk'.expects = ""
    BY <1>1, <1>9 DEF PanelInv, Place
  <2>2. toBoard' \in Seq([cmd : Commands, of : Jobs])
    BY <1>3, <1>4, Zenon DEF PanelInv, PanelTypeOK
  <2>3. PanelTypeOK'
    BY <1>1, <1>3, <2>2, Zenon DEF PanelInv, PanelTypeOK, Board
  <2>. QED BY <2>1, <2>3, AfterTalk
<1>. QED BY <1>8, <1>9

\* A command is taken off the line: its order becomes what the board does.
LEMMA TakesSafely ==
  ASSUME PanelInv, Takes
  PROVE  PanelInv'
<1>. DEFINE c == Head(toBoard)
            nets == IF c.cmd = "wifi" THEN c.of ELSE panel.nets
            alpha == IF c.cmd = "alpha" THEN c.of ELSE panel.alpha
<1>1. /\ toBoard # <<>> /\ toBoard' = Tail(toBoard) /\ panel.doing = ""
      /\ UNCHANGED <<job, talk, told, toHost, resets, sketch, built>>
  BY Zenon DEF Takes
<1>2. c \in [cmd : Commands, of : Jobs] /\ Tail(toBoard) \in Seq([cmd : Commands, of : Jobs])
  BY <1>1, ReadOff, Zenon DEF PanelInv, PanelTypeOK
<1>3. c.cmd \in Commands /\ c.of \in Jobs
  BY <1>2
<1>4. panel \in Board /\ nets \in Jobs /\ alpha \in Jobs
  BY <1>3, TalkTypes DEF PanelInv, Board
<1>5. /\ panel' \in Board /\ panel'.doing = c.cmd /\ panel'.image = panel.image
      /\ panel'.nets = IF c.cmd = "wifi" THEN c.of ELSE panel.nets
      /\ panel'.alpha = IF c.cmd = "alpha" THEN c.of ELSE panel.alpha
  <2>. DEFINE cmd == c.cmd
              d == [panel EXCEPT !.doing = cmd]
              e == [d EXCEPT !.nets = nets]
              f == [e EXCEPT !.alpha = alpha]
  <2>1. panel' = [panel EXCEPT !.doing = cmd, !.nets = IF c.cmd = "wifi" THEN c.of ELSE @,
                               !.alpha = IF c.cmd = "alpha" THEN c.of ELSE @]
    BY Zenon DEF Takes
  <2>2. cmd \in Commands
    BY <1>3
  <2>3. cmd = c.cmd
    OBVIOUS
  <2>. HIDE DEF c
  <2>4. d \in Board /\ d.nets = panel.nets /\ d.alpha = panel.alpha /\ d.doing = cmd
        /\ d.image = panel.image
    BY <1>4, <2>2 DEF Board
  <2>. HIDE DEF cmd
  <2>5. nets = (IF c.cmd = "wifi" THEN c.of ELSE panel.nets)
        /\ alpha = (IF c.cmd = "alpha" THEN c.of ELSE panel.alpha)
    OBVIOUS
  <2>6. panel' = [d EXCEPT !.nets = IF c.cmd = "wifi" THEN c.of ELSE @,
                           !.alpha = IF c.cmd = "alpha" THEN c.of ELSE @]
    BY <2>1, Zenon
  <2>. HIDE DEF d, nets, alpha
  <2>7. /\ e \in Board /\ e.nets = nets /\ e.alpha = d.alpha /\ e.doing = d.doing
        /\ e.image = d.image
    BY <1>4, <2>4 DEF Board
  <2>8. panel' = f
    <3>1. panel' = [e EXCEPT !.alpha = IF c.cmd = "alpha" THEN c.of ELSE @]
      BY <2>4, <2>5, <2>6, Zenon
    <3>. HIDE DEF e
    <3>. QED BY <2>4, <2>5, <2>7, <3>1, Zenon
  <2>. HIDE DEF e
  <2>9. /\ f \in Board /\ f.nets = nets /\ f.alpha = alpha /\ f.doing = d.doing
        /\ f.image = d.image
    BY <1>4, <2>7 DEF Board
  <2>. HIDE DEF f
  <2>. QED BY <2>3, <2>4, <2>5, <2>8, <2>9, Zenon
<1>6. CASE talk.at \in {"probing", "sending"}
  <2>1. toBoard \in Seq(Order) /\ toHost \in Seq(Reply)
    BY <1>6 DEF PanelInv
  <2>2. c \in Order /\ Tail(toBoard) \in Seq(Order)
    BY <1>1, <2>1, ReadOff, Zenon
  <2>3. c.cmd \in Sent /\ c.of = job
    BY <2>2 DEF Order
  <2>4. /\ Sent' = Sent /\ Order' = Order /\ LastSaid' = LastSaid
    BY <1>1 DEF Sent, Order, LastSaid
  <2>a. ASSUME panel'.image = 0, talk'.asked <= 1
        PROVE  OneAtATime'
    <3>1. OneAtATime /\ talk.asked <= 1
      BY <1>1, <1>5, <1>6, <2>a DEF PanelInv
    <3>2. talk.asked = 1 /\ toHost = <<>> /\ toBoard = <<[cmd |-> LastSaid, of |-> job]>>
      BY <1>1, <3>1 DEF OneAtATime
    <3>3. c.cmd = LastSaid /\ Tail(toBoard) = <<>>
      BY <3>2
    <3>4. Carried(LastSaid)'
      BY <1>1, <1>5, <2>3, <2>4, <3>3 DEF Carried
    <3>. QED BY <1>1, <1>5, <2>4, <3>2, <3>3, <3>4 DEF OneAtATime
  <2>. HIDE DEF c
  <2>5. \A k : Carried(k) => (k = "wifi" => panel'.nets = job) /\ (k = "alpha" => panel'.alpha = job)
    BY <1>5, <2>3 DEF Carried
  <2>6. Reply \subseteq Reply'
    BY <1>1, <1>5, <2>4, <2>5 DEF Reply, Carried
  <2>7. toHost' \in Seq(Reply')
    BY <1>1, <2>1, <2>6, MoreOnTheLine, Zenon
  <2>8. toBoard' \in Seq(Order')
    BY <1>1, <2>2, <2>4, Zenon
  <2>9. Place'
    <3>1. Sure' = Sure
      BY <1>1, <1>5 DEF Sure
    <3>. QED BY <1>1, <1>5, <2>3, <3>1 DEF PanelInv, Place
  <2>10. talk' \in Talk /\ Sent' \subseteq Commands
    BY <1>1, <2>4, TalkTypes, SentAreCommands DEF PanelInv
  <2>11. panel'.doing \in Sent' \cup {""} /\ Carried(panel.doing)'
    BY <1>1, <1>5, <2>3, <2>4 DEF Carried
  <2>. QED BY <1>1, <1>5, <1>6, <2>a, <2>7, <2>8, <2>9, <2>10, <2>11, GoesOn, ResetsKeep
<1>7. CASE talk.at \notin {"probing", "sending"}
  <2>1. talk'.at \in {"idle", "uploading"} /\ talk'.expects = ""
    BY <1>1, <1>7 DEF PanelInv, Place
  <2>2. PanelTypeOK'
    BY <1>1, <1>2, <1>5, Zenon DEF PanelInv, PanelTypeOK, Board
  <2>. QED BY <2>1, <2>2, AfterTalk
<1>. QED BY <1>6, <1>7

\* The sketch answers a command once it has carried it out.
LEMMA RepliesSafely ==
  ASSUME PanelInv, NEW works \in BOOLEAN, Replies(works)
  PROVE  PanelInv'
<1>. DEFINE name == IF panel.image = 0 THEN "" ELSE panel.doing
            reply == [cmd |-> name, ok |-> works]
<1>1. /\ panel.doing # "" /\ toHost' = Append(toHost, reply)
      /\ UNCHANGED <<job, talk, told, toBoard, resets, sketch, built>>
  BY Zenon DEF Replies
<1>2. panel \in Board /\ panel.doing \in Commands
  BY <1>1, TalkTypes DEF PanelInv, Board
<1>3. /\ panel' \in Board /\ panel'.doing = "" /\ panel'.image = panel.image
      /\ panel'.nets = panel.nets /\ panel'.alpha = panel.alpha
  BY <1>2 DEF Replies, Board
<1>4. CASE talk.at \in {"probing", "sending"}
  <2>1. toBoard \in Seq(Order) /\ toHost \in Seq(Reply) /\ panel.doing \in Sent
        /\ Carried(panel.doing)
    BY <1>1, <1>4 DEF PanelInv
  <2>2. Sent' = Sent /\ Order' = Order /\ LastSaid' = LastSaid
    BY <1>1 DEF Sent, Order, LastSaid
  <2>3. \A k : Carried(k)' <=> Carried(k)
    BY <1>1, <1>3 DEF Carried
  <2>4. Reply' = Reply
    BY <1>1, <1>3, <2>2 DEF Reply, Carried
  <2>5. reply \in Reply
    <3>0. panel.image > 0 <=> panel.image # 0
      <4>1. panel.image \in 0 .. MaxSketches
        BY <1>2, Zenon DEF Board
      <4>. QED BY <4>1, PanelBounds
    <3>1. name \in IF panel.image > 0 THEN {c \in Sent : Carried(c)} ELSE {""}
      BY <2>1, <3>0, Zenon
    <3>. HIDE DEF name
    <3>. QED BY <3>1, Zenon DEF Reply
  <2>6. toHost' \in Seq(Reply')
    <3>. HIDE DEF reply
    <3>. QED BY <1>1, <2>1, <2>4, <2>5, SentOn, Zenon
  <2>7. toBoard' \in Seq(Order')
    BY <1>1, <2>1, <2>2, Zenon
  <2>8. Place'
    <3>1. Sure' = Sure
      BY <1>1, <1>3 DEF Sure
    <3>. QED BY <1>1, <1>3, <3>1 DEF PanelInv, Place
  <2>9. talk' \in Talk /\ Sent' \subseteq Commands
    BY <1>1, <2>2, TalkTypes, SentAreCommands DEF PanelInv
  <2>10. panel'.doing \in Sent' \cup {""} /\ Carried(panel.doing)'
    BY <1>3 DEF Carried
  <2>11. ASSUME panel'.image = 0, talk'.asked <= 1
         PROVE  OneAtATime'
    <3>1. OneAtATime /\ talk.asked <= 1
      BY <1>1, <1>3, <1>4, <2>11 DEF PanelInv
    <3>2. talk.asked = 1 /\ toHost = <<>> /\ toBoard = <<>> /\ Carried(LastSaid)
      BY <1>1, <3>1 DEF OneAtATime
    <3>3. Tail(toHost') = <<>>
      <4>. HIDE DEF reply
      <4>1. toHost' = Append(toHost, reply) /\ toHost = <<>>
        BY <1>1, <3>2, Zenon
      <4>. QED BY <4>1
    <3>4. Carried(LastSaid)'
      BY <1>1, <1>3, <2>2, <3>2 DEF Carried
    <3>. QED BY <1>1, <1>3, <3>2, <3>3, <3>4 DEF OneAtATime
  <2>. QED BY <1>1, <1>3, <1>4, <2>6, <2>7, <2>8, <2>9, <2>10, <2>11, GoesOn, ResetsKeep
<1>5. CASE talk.at \notin {"probing", "sending"}
  <2>1. talk'.at \in {"idle", "uploading"} /\ talk'.expects = ""
    BY <1>1, <1>5 DEF PanelInv, Place
  <2>. DEFINE AnyReply == [cmd : Commands \cup {""}, ok : BOOLEAN]
  <2>2. reply \in AnyReply
    BY <1>2
  <2>3. toHost \in Seq(AnyReply)
    BY Zenon DEF PanelInv, PanelTypeOK
  <2>4. toHost' \in Seq(AnyReply)
    <3>. HIDE DEF AnyReply, reply
    <3>. QED BY <1>1, <2>2, <2>3, SentOn, Zenon
  <2>5. PanelTypeOK'
    BY <1>1, <1>3, <2>4, Zenon DEF PanelInv, PanelTypeOK, Board
  <2>. QED BY <2>1, <2>5, AfterTalk
<1>. QED BY <1>4, <1>5

LEMMA PanelInductive == PanelInv /\ [PanelNext]_panelVars => PanelInv'
<1>. SUFFICES ASSUME PanelInv, [PanelNext]_panelVars PROVE PanelInv'
  OBVIOUS
<1>. QED BY RejectsSafely, OpensSafely, AsksSafely, ReadsSafely, CompilesSafely, UploadsSafely,
            EditsSafely, BoardSafely, TakesSafely, RepliesSafely, Zenon DEF PanelNext

LEMMA PanelInvHolds == PanelSpec => []PanelInv
<1>. QED BY PanelInitially, PanelInductive, PTL DEF PanelSpec

\* The conversation, the two directions of the line and the board keep their
\* types, for any number of tasks, probes and resets.
THEOREM PanelTypeCorrect == PanelSpec => []PanelTypeOK
<1>1. PanelInv => PanelTypeOK
  BY DEF PanelInv
<1>. QED BY <1>1, PanelInvHolds, PTL

\* A panel reported as provisioned has this task's networks, and its host if
\* it named one, whatever was left on the line, answered late or lost; one
\* whose replies name no command, if a single probe reached it
\* (src/agent/handlers/alpha-panel.js, converse, nextReply; the replies of
\* firmware/crowpanel/crowpanel.ino).
THEOREM ReportsAreTrue == PanelSpec => ReportTrue
<1>. DEFINE Truly ==
       talk.at = "sending" /\ told' = "provisioned" /\ (panel.image > 0 \/ talk.asked = 1) =>
         panel.nets = job /\ (talk.whole => panel.alpha = job)
<1>1. PanelInv /\ [PanelNext]_panelVars => Truly
  <2>. SUFFICES ASSUME PanelInv, [PanelNext]_panelVars,
                       talk.at = "sending", told' = "provisioned",
                       panel.image > 0 \/ talk.asked = 1
                PROVE  panel.nets = job /\ (talk.whole => panel.alpha = job)
    OBVIOUS
  <2>1. told # told' /\ talk.at # "idle" /\ talk.at # "probing" /\ talk.at # "uploading"
    BY DEF PanelInv
  <2>2. Reads
    BY <2>1 DEF PanelNext, panelVars, Rejects, NotAnswering, NoReply, Throws, Told, Edits, Boots,
       ResetsItself, Open, Asks, Upload, Takes, Replies, Compile
  <2>3. /\ toHost # <<>> /\ talk.expects # ""
        /\ talk.left = <<>> \/ ~Head(toHost).ok
        /\ Accepts(Head(toHost), talk.expects)
        /\ told' = CASE ~Head(toHost).ok -> "refused"
                     [] talk.expects = "scan" -> "scanned"
                     [] OTHER -> "provisioned"
    BY <2>1, <2>2 DEF Reads, Sends, Told
  <2>4. Head(toHost).ok /\ talk.expects # "scan" /\ talk.left = <<>>
    BY <2>3
  <2>5. Sure
    BY DEF Sure
  <2>6. talk.expects = "wifi" /\ (talk.whole => panel.alpha = job)
    BY <2>4, <2>5, PlanIs DEF PanelInv, Place
  <2>. QED BY <2>3, <2>5, <2>6, Accepted DEF Carried
<1>2. PanelSpec => [][Truly]_panelVars
  <2>. HIDE DEF Truly
  <2>. QED BY <1>1, PanelInvHolds, PTL DEF PanelSpec
<1>. QED BY <1>2, Zenon DEF ReportTrue
----------------------------------------------------------------------------
(* The memory store.                                                       *)

\* A store: some keys, each with its value and its place in the order.
Store(es) ==
  /\ DOMAIN es \subseteq StoreKeys /\ IsFiniteSet(DOMAIN es)
  /\ es \in [DOMAIN es -> Entry]
  /\ Ordered(es)

\* The store keeps within its limit, unless it is one value.
EntryKept(es) == Bytes(es) > Limit => \A j, k \in DOMAIN es : j = k

\* An offer was made with the whole of the limit held back.
MemInv ==
  /\ Store(entries) /\ offered \in 0 .. Total
  /\ EntryKept(entries)
  /\ offered > 0 => offered + Limit + Reserve <= Total

LEMMA StoreConstants ==
  Limit \in Nat /\ MaxValue \in Nat /\ Total \in Nat /\ Reserve \in Nat
BY MemStoreAssumption

LEMMA SizesAre ==
  ASSUME NEW es, Store(es)
  PROVE  /\ Sizes(es) \in [DOMAIN es -> Nat]
         /\ \A k \in DOMAIN es : Sizes(es)[k] = es[k].bytes
BY StoreConstants DEF Sizes, Store, Entry

LEMMA BytesAreSum ==
  ASSUME NEW es, NEW keys
  PROVE  BytesOf(es, keys) = SumOf(Sizes(es), keys)
BY Zenon DEF BytesOf, FoldFunctionOnSet, SumOf, MapThenSumSet

\* What a part of the store takes.
LEMMA PartOfBytes ==
  ASSUME NEW es, Store(es), NEW keys \in SUBSET DOMAIN es
  PROVE  /\ BytesOf(es, keys) \in Nat /\ Bytes(es) \in Nat
         /\ BytesOf(es, keys) <= Bytes(es)
         /\ \A part \in SUBSET keys : BytesOf(es, part) \in Nat /\ BytesOf(es, part) <= BytesOf(es, keys)
<1>1. IsFiniteSet(DOMAIN es) /\ IsFiniteSet(keys)
  BY FS_Subset DEF Store
<1>2. Sizes(es) \in [DOMAIN es -> Nat]
  BY SizesAre
<1>3. \A s \in SUBSET DOMAIN es : IsFiniteSet(s) =>
        \A t \in SUBSET s : /\ SumOf(Sizes(es), t) \in Nat /\ SumOf(Sizes(es), s) \in Nat
                            /\ SumOf(Sizes(es), t) <= SumOf(Sizes(es), s)
  BY <1>2, SumOfPart
<1>4. \A t : BytesOf(es, t) = SumOf(Sizes(es), t)
  BY BytesAreSum
<1>. QED BY <1>1, <1>3, <1>4 DEF Bytes

\* Dropping keys leaves a store with what the others took.
LEMMA WithoutStore ==
  ASSUME NEW es, Store(es), NEW keys
  PROVE  /\ Store(Without(es, keys))
         /\ DOMAIN Without(es, keys) = DOMAIN es \ keys
         /\ Bytes(Without(es, keys)) = BytesOf(es, DOMAIN es \ keys)
         /\ Bytes(Without(es, keys)) <= Bytes(es)
<1> DEFINE rest == Without(es, keys)
           R == DOMAIN es \ keys
<1>1. /\ DOMAIN rest = R
      /\ \A k \in R : /\ rest[k] \in Entry
                      /\ rest[k].bytes = es[k].bytes
                      /\ rest[k].older = es[k].older \ keys
  BY DEF Without, Store, Entry
<1>2. rest = [k \in R |-> rest[k]]
  BY <1>1 DEF Without
<1>3. R \subseteq StoreKeys /\ IsFiniteSet(R)
  BY FS_Subset DEF Store
<1> HIDE DEF rest
<1>4. Ordered(rest)
  <2>1. \A k \in R :
          /\ es[k].older \subseteq DOMAIN es \ {k}
          /\ \A j \in DOMAIN es \ {k} : (j \in es[k].older) # (k \in es[j].older)
          /\ \A j \in es[k].older : es[j].older \subseteq es[k].older
    BY DEF Store, Ordered
  <2> QED BY <1>1, <2>1 DEF Ordered
<1>5. Store(rest)
  BY <1>1, <1>2, <1>3, <1>4 DEF Store
<1>6. SumOf(Sizes(rest), R) = SumOf(Sizes(es), R)
  <2>1. \A k \in R : Sizes(rest)[k] = Sizes(es)[k]
    BY <1>1, <1>5, SizesAre
  <2>2. Sizes(rest) \in [R -> Nat] /\ Sizes(es) \in [DOMAIN es -> Nat]
    BY <1>1, <1>5, SizesAre
  <2>3. R \in SUBSET (R \cap DOMAIN es)
    OBVIOUS
  <2> QED BY <1>3, <2>1, <2>2, <2>3, SumAgrees
<1>7. Bytes(rest) = BytesOf(es, R)
  BY <1>1, <1>6, BytesAreSum DEF Bytes
<1>8. BytesOf(es, R) <= Bytes(es)
  BY PartOfBytes
<1>. QED BY <1>1, <1>5, <1>7, <1>8 DEF rest

\* A key that is not there is added at the end.
LEMMA AddedStore ==
  ASSUME NEW es, Store(es), NEW key \in StoreKeys, key \notin DOMAIN es, NEW e \in Entry
  PROVE  /\ Store(Added(es, key, e))
         /\ Bytes(Added(es, key, e)) = Bytes(es) + e.bytes
<1> DEFINE more == Added(es, key, e)
           D == DOMAIN es
<1>1. /\ DOMAIN more = D \cup {key}
      /\ \A k \in D : more[k] = es[k]
      /\ more[key] \in Entry /\ more[key].bytes = e.bytes /\ more[key].older = D
  BY DEF Added, Entry, Store
<1>2. more = [k \in D \cup {key} |-> more[k]]
  BY <1>1 DEF Added
<1>3. D \cup {key} \subseteq StoreKeys /\ IsFiniteSet(D) /\ IsFiniteSet(D \cup {key})
  BY FS_AddElement DEF Store
<1> HIDE DEF more
<1>4. \A k \in D : es[k] \in Entry
  BY DEF Store
<1>5. Ordered(more)
  <2>1. \A k \in D :
          /\ es[k].older \subseteq D \ {k}
          /\ \A j \in D \ {k} : (j \in es[k].older) # (k \in es[j].older)
          /\ \A j \in es[k].older : es[j].older \subseteq es[k].older
    BY DEF Store, Ordered
  <2> QED BY <1>1, <2>1 DEF Ordered
<1>6. Store(more)
  BY <1>1, <1>2, <1>3, <1>4, <1>5 DEF Store
<1>7. Sizes(more) \in [D \cup {key} -> Nat] /\ Sizes(es) \in [D -> Nat]
  BY <1>1, <1>6, SizesAre
<1>8. SumOf(Sizes(more), D \cup {key}) = Sizes(more)[key] + SumOf(Sizes(more), D)
  <2>1. (D \cup {key}) \ {key} = D
    OBVIOUS
  <2>2. \A x \in D \cup {key} :
          SumOf(Sizes(more), D \cup {key}) = Sizes(more)[x] + SumOf(Sizes(more), (D \cup {key}) \ {x})
    BY <1>3, <1>7, SumTaken
  <2> QED BY <2>1, <2>2
<1>9. SumOf(Sizes(more), D) = SumOf(Sizes(es), D)
  <2>1. \A k \in D : Sizes(more)[k] = Sizes(es)[k]
    BY <1>1, <1>6, SizesAre
  <2>2. D \in SUBSET ((D \cup {key}) \cap D)
    OBVIOUS
  <2> QED BY <1>3, <1>7, <2>1, <2>2, SumAgrees
<1>10. Sizes(more)[key] = e.bytes
  BY <1>1, <1>6, SizesAre
<1>11. SumOf(Sizes(es), D) \in Nat /\ e.bytes \in Nat
  BY <1>3, <1>7, SumTaken, StoreConstants DEF Entry
<1>12. Bytes(more) = Bytes(es) + e.bytes
  BY <1>1, <1>8, <1>9, <1>10, <1>11, BytesAreSum DEF Bytes
<1>. QED BY <1>6, <1>12 DEF more

\* Some key of a part of the store comes before all the others of that part.
LEMMA OldestExists ==
  ASSUME NEW es, Store(es), NEW keys \in SUBSET DOMAIN es, keys # {}
  PROVE  \E k \in keys : keys \subseteq FromOn(es, k)
<1> DEFINE N == {Cardinality(es[k].older) : k \in keys}
<1>1. \A k \in DOMAIN es :
        /\ es[k].older \subseteq DOMAIN es \ {k}
        /\ IsFiniteSet(es[k].older) /\ Cardinality(es[k].older) \in Nat
  BY FS_Subset, FS_CardinalityType DEF Store, Ordered
<1>2. N \in SUBSET Nat /\ N # {}
  BY <1>1
<1>3. PICK n \in N : \A m \in N : n <= m
  BY <1>2, LeastExists
<1>4. PICK k \in keys : \A j \in keys : Cardinality(es[k].older) <= Cardinality(es[j].older)
  BY <1>3
<1>5. ASSUME NEW j \in keys, j # k PROVE k \in es[j].older
  <2>1. SUFFICES ASSUME k \notin es[j].older PROVE FALSE
    OBVIOUS
  <2>2. j \in es[k].older /\ es[j].older \subseteq es[k].older
    BY <1>5, <2>1 DEF Store, Ordered
  <2>3. j \notin es[j].older
    BY <1>1
  <2>4. Cardinality(es[j].older) < Cardinality(es[k].older)
    <3>1. es[j].older \subseteq es[k].older \ {j}
      BY <2>2, <2>3
    <3>2. /\ IsFiniteSet(es[k].older \ {j}) /\ Cardinality(es[k].older \ {j}) \in Nat
          /\ Cardinality(es[k].older) = Cardinality(es[k].older \ {j}) + 1
      BY <1>1, <2>2, OneLess
    <3>3. Cardinality(es[j].older) <= Cardinality(es[k].older \ {j})
      BY <3>1, <3>2, FS_Subset
    <3> QED BY <1>1, <3>2, <3>3
  <2> QED BY <1>1, <1>4, <2>4
<1>. QED BY <1>4, <1>5 DEF FromOn

\* There is room for a value once makeRoom is done, or nothing else is left.
LEMMA RoomIsMade ==
  ASSUME NEW es, Store(es), NEW bytes \in 1 .. MaxValue
  PROVE  /\ Store(MakesRoom(es, bytes)) /\ DOMAIN MakesRoom(es, bytes) \subseteq DOMAIN es
         /\ \/ Bytes(MakesRoom(es, bytes)) + bytes <= Limit
            \/ DOMAIN MakesRoom(es, bytes) = {}
<1>1. ASSUME NEW fs, Store(fs)
      PROVE  /\ Store(Evicted(fs, bytes)) /\ DOMAIN Evicted(fs, bytes) \subseteq DOMAIN fs
             /\ \/ Bytes(Evicted(fs, bytes)) + bytes <= Limit
                \/ DOMAIN Evicted(fs, bytes) = {}
  <2> DEFINE Gone == {k \in DOMAIN fs : BytesOf(fs, FromOn(fs, k)) + bytes > Limit}
             Stay == DOMAIN fs \ Gone
  <2>1. /\ Store(Evicted(fs, bytes)) /\ DOMAIN Evicted(fs, bytes) = Stay
        /\ Bytes(Evicted(fs, bytes)) = BytesOf(fs, Stay)
    BY <1>1, WithoutStore DEF Evicted
  <2>2. \A k \in Stay : /\ FromOn(fs, k) \in SUBSET DOMAIN fs
                        /\ BytesOf(fs, FromOn(fs, k)) \in Nat
                        /\ BytesOf(fs, FromOn(fs, k)) + bytes <= Limit
    <3>1. \A k \in Stay : FromOn(fs, k) \in SUBSET DOMAIN fs
      BY DEF FromOn
    <3>2. \A k \in Stay : BytesOf(fs, FromOn(fs, k)) \in Nat
      BY <1>1, <3>1, PartOfBytes
    <3> QED BY <3>1, <3>2, StoreConstants
  <2>s. Stay \in SUBSET DOMAIN fs
    OBVIOUS
  <2> HIDE DEF Stay, Gone
  <2>3. ASSUME Stay # {} PROVE BytesOf(fs, Stay) + bytes <= Limit
    <3>1. PICK k \in Stay : Stay \subseteq FromOn(fs, k)
      BY <1>1, <2>s, <2>3, OldestExists
    <3>2. BytesOf(fs, Stay) <= BytesOf(fs, FromOn(fs, k)) /\ BytesOf(fs, Stay) \in Nat
      BY <1>1, <2>2, <3>1, PartOfBytes
    <3> QED BY <2>2, <3>2, StoreConstants
  <2> QED BY <2>1, <2>3, <2>s
<1>2. Store(Unexpired(es)) /\ DOMAIN Unexpired(es) \subseteq DOMAIN es
  <2> DEFINE old == {k \in DOMAIN es : es[k].expired}
  <2>1. Unexpired(es) = Without(es, old)
    BY DEF Unexpired
  <2> HIDE DEF old
  <2>2. Store(Without(es, old)) /\ DOMAIN Without(es, old) = DOMAIN es \ old
    BY WithoutStore
  <2> QED BY <2>1, <2>2
<1>. QED BY <1>1, <1>2 DEF MakesRoom

LEMMA EmptyStore == Store(NoEntries) /\ EntryKept(NoEntries)
<1>1. DOMAIN NoEntries = {} /\ NoEntries \in [{} -> Entry] /\ IsFiniteSet({})
  BY FS_EmptySet DEF NoEntries
<1>2. Store(NoEntries)
  BY <1>1 DEF Store, Ordered
<1>. QED BY <1>1, <1>2 DEF EntryKept

\* What the agent promises does not change when the store does.
LEMMA HoldsSafely ==
  ASSUME MemInv, NEW es, Store(es), EntryKept(es), StoreHolds(es)
  PROVE  MemInv'
BY DEF MemInv, StoreHolds, EntryKept

LEMMA MemSteps == MemInv /\ [MemStoreNext]_memVars => MemInv'
<1> SUFFICES ASSUME MemInv, [MemStoreNext]_memVars PROVE MemInv'
  OBVIOUS
<1>t. Store(entries) /\ Bytes(entries) \in Nat /\ EntryKept(entries)
  BY PartOfBytes DEF MemInv
<1>d. \A keys : /\ Store(Without(entries, keys)) /\ Bytes(Without(entries, keys)) \in Nat
                /\ EntryKept(Without(entries, keys))
                /\ DOMAIN Without(entries, keys) = DOMAIN entries \ keys
  <2>1. ASSUME NEW keys
        PROVE  /\ Store(Without(entries, keys)) /\ Bytes(Without(entries, keys)) <= Bytes(entries)
               /\ DOMAIN Without(entries, keys) = DOMAIN entries \ keys
    BY <1>t, WithoutStore
  <2>2. ASSUME NEW keys PROVE Bytes(Without(entries, keys)) \in Nat
    BY <2>1, PartOfBytes
  <2>3. ASSUME NEW keys PROVE EntryKept(Without(entries, keys))
    <3>. DEFINE rest == Without(entries, keys)
    <3>1. Bytes(rest) \in Nat /\ Bytes(rest) <= Bytes(entries)
      BY <2>1, <2>2, Zenon
    <3>a. DOMAIN rest = DOMAIN entries \ keys
      BY <2>1, Zenon
    <3>. HIDE DEF rest
    <3>2. EntryKept(rest)
      BY <1>t, <3>1, <3>a, StoreConstants DEF EntryKept
    <3>. QED BY <3>2 DEF rest
  <2> QED BY <2>1, <2>2, <2>3
<1>1. ASSUME NEW k \in StoreKeys, NEW b \in 1 .. MaxValue, NEW ttl \in BOOLEAN, Put(k, b, ttl)
      PROVE  MemInv'
  <2> DEFINE rest == Without(entries, {k})
             room == MakesRoom(rest, b)
             e == [bytes |-> b, ttl |-> ttl, expired |-> FALSE, older |-> {}]
  <2>1. Store(rest) /\ k \notin DOMAIN rest
    <3>1. Store(rest) /\ DOMAIN rest = DOMAIN entries \ {k}
      BY <1>d, Zenon
    <3> HIDE DEF rest
    <3> QED BY <3>1
  <2>2. e \in Entry /\ e.bytes = b
    BY DEF Entry
  <2>3. StoreHolds(Added(room, k, e))
    BY <1>1 DEF Put
  <2> HIDE DEF rest, e
  <2>4. /\ Store(room) /\ k \notin DOMAIN room
        /\ Bytes(room) + b <= Limit \/ DOMAIN room = {}
    BY <2>1, RoomIsMade
  <2> HIDE DEF room
  <2>5. /\ Store(Added(room, k, e)) /\ Bytes(Added(room, k, e)) = Bytes(room) + b
        /\ DOMAIN Added(room, k, e) = DOMAIN room \cup {k}
    BY <2>2, <2>4, AddedStore DEF Added
  <2>6. EntryKept(Added(room, k, e))
    <3>1. Bytes(room) \in Nat
      BY <2>4, PartOfBytes
    <3>2. CASE DOMAIN room = {}
      BY <2>5, <3>2 DEF EntryKept
    <3>3. CASE Bytes(room) + b <= Limit
      BY <2>5, <3>1, <3>3, StoreConstants DEF EntryKept
    <3>. QED BY <2>4, <3>2, <3>3
  <2> QED BY <2>3, <2>5, <2>6, HoldsSafely
<1>2. ASSUME NEW k \in DOMAIN entries, Get(k)
      PROVE  MemInv'
  <2> DEFINE rest == Without(entries, {k})
             e == entries[k]
  <2>1. /\ Store(rest) /\ k \notin DOMAIN rest /\ EntryKept(rest)
        /\ DOMAIN rest \cup {k} = DOMAIN entries
    <3>1. Store(rest) /\ DOMAIN rest = DOMAIN entries \ {k} /\ EntryKept(rest)
      BY <1>d, Zenon
    <3> HIDE DEF rest
    <3> QED BY <3>1
  <2>2. e \in Entry /\ k \in StoreKeys
    BY <1>t DEF Store
  <2>3. Bytes(rest) + e.bytes = Bytes(entries)
    <3>1. Bytes(rest) = SumOf(Sizes(entries), DOMAIN entries \ {k})
      BY <1>t, WithoutStore, BytesAreSum
    <3>2. Bytes(entries) = Sizes(entries)[k] + SumOf(Sizes(entries), DOMAIN entries \ {k})
      <4>1. IsFiniteSet(DOMAIN entries) /\ Sizes(entries) \in [DOMAIN entries -> Nat]
        BY <1>t, SizesAre DEF Store
      <4> QED BY <4>1, SumTaken, BytesAreSum DEF Bytes
    <3>3. Sizes(entries)[k] = e.bytes
      BY <1>t, SizesAre
    <3> HIDE DEF rest
    <3>4. e.bytes \in Nat /\ Bytes(rest) \in Nat
      BY <1>d, <2>2, StoreConstants DEF Entry, rest
    <3> QED BY <3>1, <3>2, <3>3, <3>4
  <2> HIDE DEF rest, e
  <2>4. Store(Added(rest, k, e)) /\ EntryKept(Added(rest, k, e))
    <3>1. /\ Store(Added(rest, k, e)) /\ Bytes(Added(rest, k, e)) = Bytes(entries)
          /\ DOMAIN Added(rest, k, e) = DOMAIN entries
      BY <2>1, <2>2, <2>3, AddedStore DEF Added
    <3>. QED BY <1>t, <3>1 DEF EntryKept
  <2>5. StoreHolds(rest) \/ StoreHolds(Added(rest, k, e))
    BY <1>2 DEF Get, rest, e
  <2> QED BY <2>1, <2>4, <2>5, HoldsSafely
<1>3. ASSUME NEW k \in DOMAIN entries, Delete(k)
      PROVE  MemInv'
  BY <1>3, <1>d, HoldsSafely DEF Delete
<1>4. ASSUME NEW k \in DOMAIN entries, Expires(k)
      PROVE  MemInv'
  <2> DEFINE D == DOMAIN entries
  <2>1. /\ DOMAIN entries' = D /\ entries' = [j \in D |-> entries'[j]]
        /\ \A j \in D : /\ entries'[j] \in Entry
                        /\ entries'[j].bytes = entries[j].bytes
                        /\ entries'[j].older = entries[j].older
    BY <1>t, <1>4 DEF Expires, Store, Entry
  <2>2. Ordered(entries')
    BY <1>t, <2>1 DEF Store, Ordered
  <2>3. Store(entries')
    BY <1>t, <2>1, <2>2 DEF Store
  <2>4. Sizes(entries') = Sizes(entries)
    BY <2>1 DEF Sizes
  <2>5. Bytes(entries') = Bytes(entries)
    BY <2>1, <2>4, BytesAreSum DEF Bytes
  <2>6. EntryKept(entries')
    BY <1>t, <2>1, <2>5 DEF EntryKept
  <2> QED BY <1>4, <2>3, <2>6, HoldsSafely DEF Expires, StoreHolds
<1>5. CASE Clear
  BY <1>5, EmptyStore, HoldsSafely DEF Clear
<1>6. CASE Sweep
  BY <1>6, <1>d, HoldsSafely DEF Sweep, Unexpired
<1>7. CASE Offer
  <2>1. /\ Committed \in Nat /\ Bytes(entries) + Committed >= Limit
    BY <1>t, StoreConstants DEF Committed, AtLeast0
  <2>2. /\ offered' = AtLeast0(Total - Bytes(entries) - (Reserve + Committed))
        /\ entries' = entries
    BY <1>7 DEF Offer
  <2>3. offered' \in 0 .. Total /\ (offered' > 0 => offered' + Limit + Reserve <= Total)
    BY <1>t, <2>1, <2>2, StoreConstants DEF AtLeast0
  <2> QED BY <1>t, <2>2, <2>3 DEF MemInv
<1>8. CASE UNCHANGED memVars
  BY <1>8 DEF MemInv, memVars
<1>. QED BY <1>1, <1>2, <1>3, <1>4, <1>5, <1>6, <1>7, <1>8 DEF MemStoreNext

LEMMA MemInvHolds == MemStoreSpec => []MemInv
<1>1. MemStoreInit => MemInv
  BY EmptyStore, StoreConstants DEF MemStoreInit, MemInv
<1>. QED BY <1>1, MemSteps, PTL DEF MemStoreSpec

\* The entries are a Map's, in one order, and an offer is at most the machine.
THEOREM MemStoreTypeCorrect == MemStoreSpec => []MemStoreTypeOK
<1>1. MemInv => MemStoreTypeOK
  BY DEF MemInv, Store, MemStoreTypeOK
<1>. QED BY <1>1, MemInvHolds, PTL

\* src/agent/memstore.js and src/agent/memory.js, "the same RAM would be
\* promised twice": what was offered for tasks, what the store holds now and
\* the owner's reserve fit the machine together, and the store its budget,
\* unless it holds a single value that is larger than the budget.
THEOREM MemoryIsLentOnce == MemStoreSpec => []LentOnce
<1>1. MemInv => LentOnce
  <2> SUFFICES ASSUME MemInv PROVE LentOnce
    OBVIOUS
  <2>1. Bytes(entries) \in Nat
    BY PartOfBytes DEF MemInv
  <2>2. offered \in Nat
    BY StoreConstants DEF MemInv
  <2> QED BY <2>1, <2>2, StoreConstants DEF MemInv, LentOnce, EntryKept
<1>. QED BY <1>1, MemInvHolds, PTL
----------------------------------------------------------------------------
(* The load of a machine.                                                  *)

LoadTyped ==
  /\ clock \in Instants /\ sampler \in Sampler /\ known \in Record
  /\ underWay \subseteq Message
  /\ sampler.old => sampler.last = NoReport

\* How long ago an answer was made when it was sent, and when it arrived.
Timely ==
  /\ sampler.last.taken <= clock
  /\ \A m \in underWay :
       /\ m.load.taken <= m.at /\ m.at <= clock /\ clock <= m.at + Transit
       /\ m.load.taken # 0 => m.at <= m.load.taken + (MinInterval - 1)
  /\ known.load.taken <= known.at /\ known.at <= clock
  /\ known.load.taken # 0
       => known.at <= known.load.taken + Transit + (MinInterval - 1)

\* A window that was measured ended before the one that is being measured.
Behind(r) ==
  r.from # 0 => /\ r.taken - r.from >= MinWindow
                /\ r.taken <= clock
                /\ sampler.base # 0 => r.taken <= sampler.base

Apart(a, b) ==
  a.from # 0 /\ b.from # 0 /\ a # b => a.taken <= b.from \/ b.taken <= a.from

Windows ==
  /\ \A r \in AllReports : Behind(r)
  /\ \A a, b \in AllReports : Apart(a, b)

LoadInv == LoadTyped /\ Timely /\ Windows

LEMMA LoadConstants ==
  /\ MinWindow \in Nat \ {0} /\ MinInterval \in Nat \ {0} /\ StaleAfter \in Nat
  /\ Transit \in Nat /\ MaxNow \in Nat \ {0} /\ MaxProcesses \in Nat \ {0}
  BY LoadReportsAssumption

LEMMA NoReportIs == NoReport \in Report /\ NoReport.from = 0 /\ NoReport.taken = 0
  BY DEF NoReport, Report

LEMMA LoadStart == LoadInit => LoadInv
<1>. SUFFICES ASSUME LoadInit PROVE LoadInv
  OBVIOUS
<1>1. LoadTyped
  BY LoadConstants, NoReportIs DEF LoadInit, LoadTyped, Instants, Sampler, Record
<1>2. Timely
  BY LoadConstants, NoReportIs DEF LoadInit, Timely
<1>3. AllReports = {NoReport}
  BY DEF LoadInit, AllReports
<1>4. Windows
  BY <1>3, NoReportIs DEF Windows, Behind, Apart
<1>. QED BY <1>1, <1>2, <1>4 DEF LoadInv

\* Reports that are among those there were, while the baseline stays.
LEMMA SameWindows ==
  ASSUME LoadInv, AllReports' \subseteq AllReports \cup {NoReport},
         sampler'.base = sampler.base, clock' \in Instants, clock' >= clock
  PROVE  Windows'
<1>1. \A r \in AllReports : r \in Report
  BY DEF LoadInv, LoadTyped, AllReports, Sampler, Record, Message
<1>2. clock \in Nat /\ clock' \in Nat
  BY DEF LoadInv, LoadTyped, Instants
<1>3. ASSUME NEW r \in AllReports' PROVE Behind(r)'
  BY <1>1, <1>2, <1>3, NoReportIs DEF LoadInv, Windows, Behind, Report, Instants
<1>4. ASSUME NEW a \in AllReports', NEW b \in AllReports' PROVE Apart(a, b)'
  BY <1>4, NoReportIs DEF LoadInv, Windows, Apart
<1>. QED BY <1>3, <1>4 DEF Windows

LEMMA SnapshotInv ==
  ASSUME LoadInv, ~sampler.old, NEW ticks \in Ticks, sampler' = Snapshot(ticks),
         AllReports' \subseteq AllReports \cup {sampler'.last}, clock' = clock
  PROVE  /\ sampler' \in Sampler /\ ~sampler'.old /\ sampler'.run = sampler.run
         /\ sampler'.last.taken # 0 /\ sampler'.last.taken <= clock
         /\ clock <= sampler'.last.taken + (MinInterval - 1)
         /\ Windows'
<1>0. clock \in Instants /\ clock \in Nat /\ sampler \in Sampler /\ sampler.last \in Report
  BY DEF LoadInv, LoadTyped, Sampler, Instants
<1>1. CASE GivenAgain(sampler.last)
  <2>1. sampler' = sampler
    BY <1>1 DEF Snapshot
  <2>2. AllReports' \subseteq AllReports \cup {NoReport}
    BY <2>1 DEF AllReports
  <2>3. Windows'
    BY <1>0, <2>1, <2>2, SameWindows
  <2>4. sampler.last.taken # 0 /\ clock <= sampler.last.taken + (MinInterval - 1)
    BY <1>0, <1>1, LoadConstants DEF GivenAgain, Report, Instants
  <2>. QED BY <1>0, <2>1, <2>3, <2>4 DEF LoadInv, Timely
<1>2. CASE ~GivenAgain(sampler.last)
  <2>. DEFINE base == NextBase(sampler.base, ticks)
              from == Utilisation(sampler.base, ticks)
              new == [from |-> from, taken |-> clock]
  <2>1. sampler' = [sampler EXCEPT !.base = base, !.last = new]
    BY <1>2 DEF Snapshot
  <2>2. sampler.base \in Instants \cup {0}
    BY <1>0 DEF Sampler
  <2>3. base \in Instants \cup {0} /\ from \in Instants \cup {0}
    BY <1>0, <2>2 DEF NextBase, Utilisation
  <2>4. new \in Report
    BY <1>0, <2>3 DEF Report
  <2>5. from # 0 => from = sampler.base /\ clock - from >= MinWindow /\ base = clock
    BY <1>0, <2>2, LoadConstants DEF NextBase, Utilisation, TooSoon, Instants
  <2>6. base # 0 => base = sampler.base \/ base = clock
    BY DEF NextBase
  <2>7. sampler' \in Sampler /\ ~sampler'.old /\ sampler'.run = sampler.run /\ sampler'.last = new
        /\ sampler'.base = base
    BY <1>0, <2>1, <2>3, <2>4 DEF Sampler
  <2>8. \A r \in AllReports : r \in Report /\ Behind(r)
    BY DEF LoadInv, LoadTyped, Windows, AllReports, Sampler, Record, Message
  <2>9. new.from = from /\ new.taken = clock
    OBVIOUS
  <2>. HIDE DEF base, from, new
  <2>10. ASSUME NEW r \in AllReports' PROVE Behind(r)'
    <3>1. CASE r = new
      BY <1>0, <2>3, <2>5, <2>7, <2>9, <3>1, LoadConstants DEF Behind, Instants
    <3>2. CASE r \in AllReports /\ sampler.base # 0
      BY <1>0, <2>2, <2>3, <2>6, <2>7, <2>8, <3>2, LoadConstants DEF Behind, Report, Instants
    <3>3. CASE r \in AllReports /\ sampler.base = 0
      BY <1>0, <2>2, <2>3, <2>6, <2>7, <2>8, <3>3, LoadConstants DEF Behind, Report, Instants
    <3>. QED BY <2>7, <2>10, <3>1, <3>2, <3>3
  <2>11. \A r \in AllReports : Apart(new, r) /\ Apart(r, new)
    BY <1>0, <2>2, <2>5, <2>8, <2>9 DEF Apart, Behind, Report, Instants
  <2>12. ASSUME NEW a \in AllReports', NEW b \in AllReports' PROVE Apart(a, b)
    BY <2>7, <2>11, <2>12 DEF LoadInv, Windows, Apart
  <2>13. Windows'
    BY <2>10, <2>12 DEF Windows, Apart
  <2>14. clock <= clock + (MinInterval - 1)
    BY <1>0, LoadConstants
  <2>15. clock # 0 /\ clock <= clock
    BY <1>0 DEF Instants
  <2>. QED BY <2>7, <2>9, <2>13, <2>14, <2>15
<1>. QED BY <1>1, <1>2

LEMMA StartsInv ==
  ASSUME LoadInv, NEW old \in BOOLEAN, NEW ticks \in Ticks, AgentStarts(old, ticks)
  PROVE  LoadInv'
<1>0. clock \in Instants /\ clock \in Nat /\ sampler \in Sampler
  BY DEF LoadInv, LoadTyped, Instants
<1>. DEFINE base == IF ticks = "none" THEN 0 ELSE clock
<1>1. sampler' = [run |-> sampler.run + 1, old |-> old, id |-> FALSE, base |-> base,
                last |-> NoReport]
  BY DEF AgentStarts
<1>2. base \in Instants \cup {0} /\ (base # 0 => base = clock)
  BY <1>0
<1>. HIDE DEF base
<1>3. sampler' \in Sampler /\ sampler'.last = NoReport /\ sampler'.base = base
  BY <1>0, <1>1, <1>2, NoReportIs, LoadConstants DEF AgentStarts, Sampler
<1>4. LoadTyped'
  BY <1>0, <1>3 DEF AgentStarts, LoadInv, LoadTyped
<1>5. Timely'
  BY <1>0, <1>3, NoReportIs DEF AgentStarts, LoadInv, Timely
<1>6. AllReports' \subseteq AllReports \cup {NoReport}
  BY <1>3 DEF AllReports, AgentStarts
<1>7. \A r \in AllReports : r \in Report /\ Behind(r)
  BY DEF LoadInv, LoadTyped, Windows, AllReports, Sampler, Record, Message
<1>8. ASSUME NEW r \in AllReports' PROVE Behind(r)'
  BY <1>0, <1>2, <1>3, <1>6, <1>7, NoReportIs DEF AgentStarts, Behind, Report, Instants
<1>9. ASSUME NEW a \in AllReports', NEW b \in AllReports' PROVE Apart(a, b)
  BY <1>6, <1>9, NoReportIs DEF LoadInv, Windows, Apart
<1>10. Windows'
  BY <1>8, <1>9 DEF Windows, Apart
<1>. QED BY <1>4, <1>5, <1>10 DEF LoadInv

LEMMA ReportsInv ==
  ASSUME LoadInv, NEW kind \in {"register", "heartbeat", "poll"},
         NEW ticks \in Ticks, SendsLoad(kind, ticks)
  PROVE  LoadInv'
<1>. DEFINE m == [kind |-> kind, run |-> sampler.run, load |-> sampler'.last, at |-> clock]
<1>0. clock \in Instants /\ clock \in Nat /\ sampler \in Sampler /\ known \in Record
      /\ underWay \subseteq Message
  BY DEF LoadInv, LoadTyped, Instants
<1>1. underWay' = underWay \cup {m} /\ clock' = clock /\ known' = known /\ sampler.run # 0
  BY DEF SendsLoad
<1>2. m.load = sampler'.last /\ m.at = clock /\ m.kind = kind /\ m.run = sampler.run
  OBVIOUS
<1>3. AllReports' \subseteq AllReports \cup {sampler'.last}
  BY <1>1, <1>2 DEF AllReports
<1>4. /\ sampler' \in Sampler /\ (sampler'.old => sampler'.last = NoReport)
      /\ sampler'.last.taken <= clock
      /\ sampler'.last.taken # 0 => clock <= sampler'.last.taken + (MinInterval - 1)
      /\ Windows'
  <2>1. CASE sampler.old
    <3>1. sampler' = sampler /\ sampler.last = NoReport
      BY <2>1 DEF SendsLoad, LoadInv, LoadTyped
    <3>2. Windows'
      BY <1>0, <1>1, <1>3, <3>1, SameWindows
    <3>. QED BY <1>0, <3>1, <3>2, NoReportIs
  <2>2. CASE ~sampler.old
    <3>1. sampler' = Snapshot(ticks)
      BY <2>2 DEF SendsLoad
    <3>. QED BY <1>1, <1>3, <2>2, <3>1, SnapshotInv
  <2>. QED BY <2>1, <2>2
<1>5. m \in Message
  BY <1>0, <1>1, <1>4 DEF Message, Sampler
<1>6. LoadTyped'
  BY <1>0, <1>1, <1>4, <1>5 DEF LoadTyped
<1>. HIDE DEF m
<1>7. Timely'
  BY <1>0, <1>1, <1>2, <1>4, LoadConstants DEF LoadInv, Timely
<1>. QED BY <1>4, <1>6, <1>7 DEF LoadInv

LEMMA LooksInv ==
  ASSUME LoadInv, NEW ticks \in Ticks, Looks(ticks)
  PROVE  LoadInv'
<1>1. sampler' = Snapshot(ticks) /\ ~sampler.old /\ clock' = clock /\ underWay' = underWay
      /\ known' = known
  BY DEF Looks
<1>2. AllReports' \subseteq AllReports \cup {sampler'.last}
  BY <1>1 DEF AllReports
<1>3. /\ sampler' \in Sampler /\ ~sampler'.old /\ sampler'.last.taken <= clock /\ Windows'
  BY <1>1, <1>2, SnapshotInv
<1>4. LoadTyped' /\ Timely'
  BY <1>1, <1>3 DEF LoadInv, LoadTyped, Timely
<1>. QED BY <1>3, <1>4 DEF LoadInv

LEMMA DroppedInv ==
  ASSUME LoadInv, NEW m \in underWay, ReportDropped(m)
  PROVE  LoadInv'
<1>1. underWay' \subseteq underWay /\ sampler' = sampler /\ known' = known /\ clock' = clock
  BY DEF ReportDropped
<1>2. AllReports' \subseteq AllReports \cup {NoReport}
  BY <1>1 DEF AllReports
<1>3. clock \in Instants /\ clock \in Nat
  BY DEF LoadInv, LoadTyped, Instants
<1>4. Windows'
  BY <1>1, <1>2, <1>3, SameWindows
<1>5. LoadTyped' /\ Timely'
  BY <1>1 DEF LoadInv, LoadTyped, Timely
<1>. QED BY <1>4, <1>5 DEF LoadInv

\* What a report that arrives leaves on record.
LEMMA ArrivedInv ==
  ASSUME LoadInv, NEW m \in underWay, underWay' = underWay \ {m}, clock' = clock,
         sampler' \in {sampler, [sampler EXCEPT !.id = TRUE]},
         known' \in Record,
         \/ known' = known
         \/ known'.load = m.load /\ known'.at = clock
         \/ known'.load = NoReport /\ known'.at = 0
  PROVE  LoadInv'
<1>0. clock \in Instants /\ clock \in Nat /\ sampler \in Sampler /\ m \in Message
  BY DEF LoadInv, LoadTyped, Instants
<1>1. sampler' \in Sampler /\ sampler'.last = sampler.last /\ sampler'.old = sampler.old
      /\ sampler'.base = sampler.base
  BY <1>0 DEF Sampler
<1>2. LoadTyped'
  BY <1>1 DEF LoadInv, LoadTyped
<1>3. AllReports' \subseteq AllReports \cup {NoReport}
  BY <1>1 DEF AllReports
<1>4. Windows'
  BY <1>0, <1>1, <1>3, SameWindows
<1>5. m.load \in Report /\ m.at \in Nat
  BY <1>0 DEF Message, Instants
<1>6. /\ known'.load.taken <= known'.at /\ known'.at <= clock
      /\ known'.load.taken # 0
           => known'.at <= known'.load.taken + Transit + (MinInterval - 1)
  BY <1>0, <1>5, NoReportIs, LoadConstants DEF LoadInv, Timely, Report, Instants
<1>7. Timely'
  BY <1>1, <1>6 DEF LoadInv, Timely
<1>. QED BY <1>2, <1>4, <1>7 DEF LoadInv

LEMMA RegistrationInv ==
  ASSUME LoadInv, NEW m \in underWay, RegistrationRecorded(m)
  PROVE  LoadInv'
<1>0. clock \in Instants /\ m \in Message
  BY DEF LoadInv, LoadTyped
<1>1. known' = [run |-> m.run, load |-> m.load,
                 at |-> IF m.load = NoReport THEN 0 ELSE clock]
  BY DEF RegistrationRecorded
<1>2. known' \in Record
  BY <1>0, <1>1 DEF Record, Message
<1>3. \/ known'.load = m.load /\ known'.at = clock
      \/ known'.load = NoReport /\ known'.at = 0
  BY <1>1
<1>. QED BY <1>2, <1>3, ArrivedInv DEF RegistrationRecorded

LEMMA RecordedInv ==
  ASSUME LoadInv, NEW m \in underWay, ReportRecorded(m)
  PROVE  LoadInv'
<1>0. clock \in Instants /\ m \in Message /\ known \in Record
  BY DEF LoadInv, LoadTyped
<1>1. known' \in {known, [known EXCEPT !.load = m.load, !.at = clock]}
  BY DEF ReportRecorded, Recorded
<1>2. known' \in Record
  BY <1>0, <1>1 DEF Record, Message
<1>3. known' = known \/ (known'.load = m.load /\ known'.at = clock)
  BY <1>0, <1>1 DEF Record
<1>. QED BY <1>2, <1>3, ArrivedInv DEF ReportRecorded

LEMMA PassesInv ==
  ASSUME LoadInv, Passes
  PROVE  LoadInv'
<1>0. clock \in Instants /\ clock \in Nat /\ underWay \subseteq Message /\ known \in Record
      /\ sampler \in Sampler
  BY DEF LoadInv, LoadTyped, Instants
<1>1. clock' = clock + 1 /\ clock' \in Instants /\ sampler' = sampler /\ underWay' = underWay
      /\ known' = known
  BY <1>0, LoadConstants DEF Passes, Instants
<1>2. AllReports' \subseteq AllReports \cup {NoReport}
  BY <1>1 DEF AllReports
<1>3. Windows'
  BY <1>0, <1>1, <1>2, SameWindows
<1>4. LoadTyped'
  BY <1>1 DEF LoadInv, LoadTyped
<1>5. \A m \in underWay : m.at \in Nat /\ clock + 1 - m.at <= Transit
  BY <1>0 DEF Passes, Message, Instants
<1>6. sampler.last.taken \in Nat /\ known.at \in Nat
  BY <1>0 DEF Sampler, Record, Report, Instants
<1>7. Timely'
  BY <1>0, <1>1, <1>5, <1>6, LoadConstants DEF LoadInv, Timely
<1>. QED BY <1>3, <1>4, <1>7 DEF LoadInv

LEMMA LoadInvHolds == LoadSpec => []LoadInv
<1>1. LoadInv /\ [LoadNext]_loadVars => LoadInv'
  <2>. SUFFICES ASSUME LoadInv, [LoadNext]_loadVars PROVE LoadInv'
    OBVIOUS
  <2>1. CASE UNCHANGED loadVars
    BY <2>1 DEF loadVars, LoadInv, LoadTyped, Timely, Windows, AllReports, Behind, Apart
  <2>. QED BY <2>1, StartsInv, ReportsInv, LooksInv, DroppedInv, RegistrationInv,
             RecordedInv, PassesInv DEF LoadNext
<1>. QED BY <1>1, LoadStart, PTL DEF LoadSpec

\* The sampler, the reports under way and the registry's record of one
\* machine keep their types (src/agent/load.js, src/host/registry.js).
THEOREM LoadTypeCorrect == LoadSpec => []LoadTypeOK
<1>1. LoadInv => LoadTypeOK
  BY DEF LoadInv, LoadTyped, Timely, LoadTypeOK, Instants
<1>. QED BY <1>1, LoadInvHolds, PTL

\* A machine is ranked by what it was like at most StaleAfter + Transit +
\* MinInterval - 1 ago, whichever report arrives last (src/agent/load.js,
\* snapshot; src/host/registry.js, reportLoad and loadFactor).
THEOREM RankingIsRecent == LoadSpec => []RankedOnRecent
<1>1. LoadInv => RankedOnRecent
  <2>. SUFFICES ASSUME LoadInv, Ranked
                PROVE  clock - known.load.taken <= StaleAfter + Transit + (MinInterval - 1)
    BY DEF RankedOnRecent
  <2>1. known.load.taken \in Nat /\ known.at \in Nat /\ clock \in Nat
    BY DEF LoadInv, LoadTyped, Record, Report, Instants
  <2>. QED BY <2>1, LoadConstants DEF Ranked, Measured, LoadInv, Timely
<1>. QED BY <1>1, LoadInvHolds, PTL

\* No busy second is counted twice or guessed: the windows behind any two
\* figures, wherever they are, are the same or apart, and long enough
\* (src/agent/load.js, utilisation and snapshot).
THEOREM WindowsAreApart == LoadSpec => []WindowsApart
<1>1. LoadInv => WindowsApart
  BY DEF LoadInv, Windows, WindowsApart, Behind, Apart
<1>. QED BY <1>1, LoadInvHolds, PTL

\* Whatever a machine is ranked by was measured, over a window of its own, and
\* lately (src/agent/load.js, src/host/registry.js).
THEOREM LoadIsSound == LoadSpec => []LoadSound
<1>1. RankedOnRecent /\ WindowsApart => LoadSound
  BY DEF LoadSound
<1>. QED BY <1>1, RankingIsRecent, WindowsAreApart, PTL
=============================================================================
