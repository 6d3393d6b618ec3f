--------------------------- MODULE AgentSessions ---------------------------
(***************************************************************************)
(* The agent processes of one machine and the coordinators they attach to: *)
(* TunnelAgent's loop and heartbeat (src/agent/agent.js), the entry point  *)
(* that owns the process (src/agent/index.js), and the half of             *)
(* AgentRegistry that decides which process holds the machine's place      *)
(* (src/host/registry.js, and the agent plane of src/host/server.js).      *)
(*                                                                         *)
(* All processes here share one instance id, so a registration at a        *)
(* coordinator supersedes the one before it.  A process has one request of *)
(* its loop and one heartbeat outstanding at most; either may be answered  *)
(* after the process has moved on.  Concurrency is 1: a process that runs  *)
(* a task does not poll.                                                   *)
(*                                                                         *)
(* An id that nobody can use or ask about any more is used again, so that  *)
(* no bound on registrations hides an endless eviction.                    *)
(***************************************************************************)
EXTENDS Naturals, FiniteSets, FiniteSetsExt

CONSTANTS
  Procs,        \* agent processes started on the machine
  NumHosts,     \* length of hostUrls: 1 is the primary
  NumIds,       \* bound: agent ids
  MaxTrouble    \* bound: lost calls, crashes, coordinators that go down

ASSUME SessionsAssumption ==
  /\ NumHosts \in Nat \ {0}
  /\ NumIds \in Nat
  /\ MaxTrouble \in Nat

Hosts == 1 .. NumHosts
Ids   == 1 .. NumIds
NoId  == 0

VARIABLES
  up,           \* [Hosts -> BOOLEAN]
  live,         \* #agents, of this machine
  superseded,   \* #superseded
  stray,        \* register requests whose sender has given up on them
  life,         \* of the process
  id, at,       \* #agentId, #hostIndex
  stoodDown,    \* #stoodDown
  beating,      \* the heartbeat timer is set
  loop,         \* where start() is
  loopId,       \* the id in the loop's request, or in its answer
  beat,         \* the heartbeat in flight
  work,         \* the id the running task was leased to
  trouble       \* counted against the bound

hostVars == <<up, live, superseded>>
procVars == <<life, id, at, stoodDown, beating, loop, loopId, beat, work>>
vars     == <<hostVars, stray, procVars, trouble>>

\* "top": about to look at #agentId.  "slot": in #awaitSlot, with a task.
\* "done": past the loop.
Loop == {"top", "slot", "registering", "registered", "polling", "done"}
Life == {"off", "running", "stopping", "gone"}

Answer == {"ok", "reregister", "stand_down"}

NoBeat == [stage |-> "none", id |-> NoId, host |-> 1, answer |-> "ok"]

Beat == [stage : {"none", "sent", "answered"}, id : Ids \cup {NoId},
         host : Hosts, answer : Answer]

TypeOK ==
  /\ up \in [Hosts -> BOOLEAN]
  /\ live \in [Hosts -> SUBSET Ids]
  /\ superseded \in [Hosts -> SUBSET Ids]
  /\ stray \subseteq Procs \X Hosts
  /\ life \in [Procs -> Life]
  /\ id \in [Procs -> Ids \cup {NoId}]
  /\ at \in [Procs -> Hosts]
  /\ stoodDown \in [Procs -> BOOLEAN]
  /\ beating \in [Procs -> BOOLEAN]
  /\ loop \in [Procs -> Loop]
  /\ loopId \in [Procs -> Ids \cup {NoId}]
  /\ beat \in [Procs -> Beat]
  /\ work \in [Procs -> Ids \cup {NoId}]
  /\ trouble \in 0 .. MaxTrouble

\* The primary may be the one that is not there yet.
Init ==
  /\ up \in {[h \in Hosts |-> TRUE], [h \in Hosts |-> h # 1]}
  /\ live = [h \in Hosts |-> {}]
  /\ superseded = [h \in Hosts |-> {}]
  /\ stray = {}
  /\ life = [p \in Procs |-> "off"]
  /\ id = [p \in Procs |-> NoId]
  /\ at = [p \in Procs |-> 1]
  /\ stoodDown = [p \in Procs |-> FALSE]
  /\ beating = [p \in Procs |-> FALSE]
  /\ loop = [p \in Procs |-> "top"]
  /\ loopId = [p \in Procs |-> NoId]
  /\ beat = [p \in Procs |-> NoBeat]
  /\ work = [p \in Procs |-> NoId]
  /\ trouble = 0

Alive(p) == life[p] \in {"running", "stopping"}

Trouble == trouble < MaxTrouble /\ trouble' = trouble + 1

\* A call to h gets no answer: nothing listens there, or the network fails.
Unanswered(h) ==
  \/ ~up[h] /\ UNCHANGED trouble
  \/ up[h] /\ Trouble
----------------------------------------------------------------------------
(* The registry.                                                           *)

\* Every id that a process or a message in flight still refers to.
Used ==
  UNION {{id[p], loopId[p], beat[p].id, work[p]} : p \in Procs}

Fresh ==
  LET free == Ids \ (Used \cup UNION {live[h] : h \in Hosts})
  IN  IF free = {} THEN NoId ELSE Min(free)

\* Slip: the new registration finds itself and retires it too.
RegistersOverItself(h) ==
  /\ Fresh # NoId
  /\ live' = [live EXCEPT ![h] = {}]
  /\ superseded' =
       [superseded EXCEPT ![h] = ((@ \cup live[h]) \cap Used) \cup {Fresh}]
  /\ UNCHANGED up

\* register: whatever this machine left behind is retired.
Registers(h) ==
  /\ Fresh # NoId
  /\ live' = [live EXCEPT ![h] = {Fresh}]
  /\ superseded' = [superseded EXCEPT ![h] = (@ \cup live[h]) \cap Used]
  /\ UNCHANGED up

\* Slip: a process whose place was taken is asked to register again.
AnsweredKindly(h, i) == IF i \in live[h] THEN "ok" ELSE "reregister"

\* Slip: an id is not looked up.
AnsweredAlways(h, i) == "ok"

\* What the agent plane says to a request under i.
Answered(h, i) ==
  IF i \in live[h] THEN "ok"
  ELSE IF i \in superseded[h] THEN "stand_down" ELSE "reregister"

\* A registration that no process heartbeats for goes stale.
Prune(h, i) ==
  /\ i \in live[h]
  /\ \A p \in Procs : ~(Alive(p) /\ i \in {id[p], loopId[p], beat[p].id})
  /\ live' = [live EXCEPT ![h] = @ \ {i}]
  /\ UNCHANGED <<up, superseded, stray, procVars, trouble>>

\* A coordinator keeps no registrations across a restart.
HostStops(h) ==
  /\ up[h]
  /\ Trouble
  /\ up' = [up EXCEPT ![h] = FALSE]
  /\ live' = [live EXCEPT ![h] = {}]
  /\ superseded' = [superseded EXCEPT ![h] = {}]
  /\ UNCHANGED <<stray, procVars>>

HostStarts(h) ==
  /\ ~up[h]
  /\ up' = [up EXCEPT ![h] = TRUE]
  /\ UNCHANGED <<live, superseded, stray, procVars, trouble>>
----------------------------------------------------------------------------
(* Registration.                                                           *)

ProcStarts(p) ==
  /\ life[p] = "off"
  /\ life' = [life EXCEPT ![p] = "running"]
  /\ UNCHANGED <<hostVars, stray, id, at, stoodDown, beating, loop, loopId,
                 beat, work, trouble>>

\* #register always begins with the primary.
RegisterSent(p) ==
  /\ life[p] = "running"
  /\ loop[p] = "top" /\ id[p] = NoId
  /\ at' = [at EXCEPT ![p] = 1]
  /\ loop' = [loop EXCEPT ![p] = "registering"]
  /\ UNCHANGED <<hostVars, stray, life, id, stoodDown, beating, loopId, beat,
                 work, trouble>>

RegisterHandled(p) ==
  /\ Alive(p) /\ loop[p] = "registering"
  /\ up[at[p]]
  /\ Registers(at[p])
  /\ loop' = [loop EXCEPT ![p] = "registered"]
  /\ loopId' = [loopId EXCEPT ![p] = Fresh]
  /\ UNCHANGED <<stray, life, id, at, stoodDown, beating, beat, work, trouble>>

\* The loop goes round again, unless stop() was called meanwhile.  With an id
\* and a task it waits for the slot at once.
Resumed(p, i, task) ==
  IF life[p] # "running" THEN "done"
  ELSE IF i # NoId /\ task # NoId THEN "slot" ELSE "top"

\* The answer is taken whether or not the process is stopping.
RegisterReceived(p) ==
  /\ Alive(p) /\ loop[p] = "registered"
  /\ id' = [id EXCEPT ![p] = loopId[p]]
  /\ beating' = [beating EXCEPT ![p] = TRUE]
  /\ loop' = [loop EXCEPT ![p] = Resumed(p, loopId[p], work[p])]
  /\ loopId' = [loopId EXCEPT ![p] = NoId]
  /\ UNCHANGED <<hostVars, stray, life, at, stoodDown, beat, work, trouble>>

\* Slip: the walk along hostUrls does not stop at its end.
NextHostUnbounded(p) ==
  \/ at' = [at EXCEPT ![p] = @ + 1] /\ UNCHANGED loop
  \/ UNCHANGED <<at, loop>>

\* No answer: the same host again (fetchJson's retries), then the next one,
\* and after the last a pause and the loop again.
NextHost(p) ==
  \/ UNCHANGED <<at, loop>>
  \/ /\ at[p] < NumHosts
     /\ at' = [at EXCEPT ![p] = @ + 1]
     /\ UNCHANGED loop
  \/ /\ at[p] = NumHosts
     /\ at' = [at EXCEPT ![p] = 1]
     /\ loop' = [loop EXCEPT ![p] = Resumed(p, NoId, work[p])]

\* A request that timed out may still be on its way, or it was handled and
\* its answer is lost.
RegisterUnanswered(p) ==
  /\ Alive(p)
  /\ \/ /\ loop[p] = "registering"
        /\ Unanswered(at[p])
        /\ IF up[at[p]] THEN stray' \in {stray, stray \cup {<<p, at[p]>>}}
                        ELSE UNCHANGED stray
        /\ NextHost(p)
        /\ UNCHANGED loopId
     \/ /\ loop[p] = "registered"
        /\ Trouble
        /\ loopId' = [loopId EXCEPT ![p] = NoId]
        /\ loop' = [loop EXCEPT ![p] = "registering"]
        /\ UNCHANGED <<stray, at>>
  /\ UNCHANGED <<hostVars, life, id, stoodDown, beating, beat, work>>

StrayHandled(p, h) ==
  /\ <<p, h>> \in stray
  /\ stray' = stray \ {<<p, h>>}
  /\ IF up[h] THEN Registers(h) ELSE UNCHANGED hostVars
  /\ UNCHANGED <<procVars, trouble>>
----------------------------------------------------------------------------
(* Standing down and stopping.                                             *)

\* What stop() does to the loop: a parked poll is aborted and a wait for a
\* slot released.  A registration is not aborted.
Interrupted(p) ==
  IF loop[p] \in {"registering", "registered"} THEN loop[p] ELSE "done"

\* #standDown, up to the drain.
StandsDown(p) ==
  /\ stoodDown' = [stoodDown EXCEPT ![p] = TRUE]
  /\ id' = [id EXCEPT ![p] = NoId]
  /\ life' = [life EXCEPT ![p] = "stopping"]
  /\ beating' = [beating EXCEPT ![p] = beating[p] /\ life[p] = "stopping"]
  /\ loop' = [loop EXCEPT ![p] = Interrupted(p)]
  /\ loopId' = [loopId EXCEPT ![p] = IF Interrupted(p) = "done" THEN NoId ELSE @]

\* Slip: stop() says the process is leaving before it drains.
StopDeregistersFirst(p) ==
  /\ life[p] = "running"
  /\ life' = [life EXCEPT ![p] = "stopping"]
  /\ beating' = [beating EXCEPT ![p] = FALSE]
  /\ loop' = [loop EXCEPT ![p] = Interrupted(p)]
  /\ loopId' = [loopId EXCEPT ![p] = IF Interrupted(p) = "done" THEN NoId ELSE @]
  /\ live' = [live EXCEPT ![at[p]] = @ \ {id[p]}]
  /\ UNCHANGED <<up, superseded, stray, id, at, stoodDown, beat, work, trouble>>

StopBegins(p) ==
  /\ life[p] = "running"
  /\ life' = [life EXCEPT ![p] = "stopping"]
  /\ beating' = [beating EXCEPT ![p] = FALSE]
  /\ loop' = [loop EXCEPT ![p] = Interrupted(p)]
  /\ loopId' = [loopId EXCEPT ![p] = IF Interrupted(p) = "done" THEN NoId ELSE @]
  /\ UNCHANGED <<hostVars, stray, id, at, stoodDown, beat, work, trouble>>

Gone(p) ==
  /\ life' = [life EXCEPT ![p] = "gone"]
  /\ id' = [id EXCEPT ![p] = NoId]
  /\ at' = [at EXCEPT ![p] = 1]
  /\ beating' = [beating EXCEPT ![p] = FALSE]
  /\ loop' = [loop EXCEPT ![p] = "done"]
  /\ loopId' = [loopId EXCEPT ![p] = NoId]
  /\ beat' = [beat EXCEPT ![p] = NoBeat]
  /\ work' = [work EXCEPT ![p] = NoId]
  /\ stray' \in {stray} \cup
       IF loop[p] = "registering" THEN {stray \cup {<<p, at[p]>>}} ELSE {}
  /\ UNCHANGED stoodDown

\* #deregister, if it gets through: a coordinator drops the registration.
Deregisters(p) ==
  \/ /\ up[at[p]]
     /\ live' = [live EXCEPT ![at[p]] = @ \ {id[p]}]
     /\ UNCHANGED <<up, superseded, trouble>>
  \/ Unanswered(at[p]) /\ UNCHANGED hostVars

\* The drain is over or has taken too long; the registration is dropped.
StopEnds(p) ==
  /\ life[p] = "stopping" /\ ~stoodDown[p]
  /\ Deregisters(p)
  /\ Gone(p)

\* The entry point ends the process as soon as start() has returned.
StandDownEnds(p) ==
  /\ life[p] = "stopping" /\ stoodDown[p] /\ loop[p] = "done"
  /\ Gone(p)
  /\ UNCHANGED <<hostVars, trouble>>

ProcCrashes(p) ==
  /\ Alive(p)
  /\ Trouble
  /\ Gone(p)
  /\ UNCHANGED hostVars
----------------------------------------------------------------------------
(* Work.                                                                   *)

\* There is a slot.  After a wait for it #agentId is not looked at again.
HasSlot(p) ==
  /\ life[p] = "running" /\ work[p] = NoId
  /\ loop[p] = "slot" \/ (loop[p] = "top" /\ id[p] # NoId)

PollSent(p) ==
  /\ HasSlot(p)
  /\ loop' = [loop EXCEPT ![p] = "polling"]
  /\ loopId' = [loopId EXCEPT ![p] = id[p]]
  /\ UNCHANGED <<hostVars, stray, life, id, at, stoodDown, beating, beat, work,
                 trouble>>

PollGranted(p) ==
  /\ loop[p] = "polling" /\ up[at[p]]
  /\ Answered(at[p], loopId[p]) = "ok"
  /\ work' \in {work, [work EXCEPT ![p] = loopId[p]]}
  /\ loop' = [loop EXCEPT ![p] = Resumed(p, id[p], work'[p])]
  /\ loopId' = [loopId EXCEPT ![p] = NoId]
  /\ UNCHANGED <<hostVars, stray, life, id, at, stoodDown, beating, beat, trouble>>

PollRefused(p) ==
  /\ loop[p] = "polling" /\ up[at[p]]
  /\ \/ /\ Answered(at[p], loopId[p]) = "stand_down"
        /\ StandsDown(p)
     \/ /\ Answered(at[p], loopId[p]) = "reregister"
        /\ id' = [id EXCEPT ![p] = NoId]
        /\ loop' = [loop EXCEPT ![p] = "top"]
        /\ loopId' = [loopId EXCEPT ![p] = NoId]
        /\ UNCHANGED <<life, stoodDown, beating>>
  /\ UNCHANGED <<hostVars, stray, at, beat, work, trouble>>

\* With somewhere else to go, the registration is given up.
PollUnanswered(p) ==
  /\ loop[p] = "polling"
  /\ Unanswered(at[p])
  /\ id' = [id EXCEPT ![p] = IF NumHosts > 1 THEN NoId ELSE @]
  /\ loop' = [loop EXCEPT ![p] = "top"]
  /\ loopId' = [loopId EXCEPT ![p] = NoId]
  /\ UNCHANGED <<hostVars, stray, life, at, stoodDown, beating, beat, work>>

\* The task ends and is reported, under whatever #agentId is by then.
TaskEnds(p) ==
  /\ Alive(p) /\ work[p] # NoId
  /\ work' = [work EXCEPT ![p] = NoId]
  /\ UNCHANGED <<hostVars, stray, life, id, at, stoodDown, beating, loop, loopId,
                 beat, trouble>>

\* Slip: the standby is left when it stops answering, not when the primary
\* is back.
ReturnsWhenLost(p) ==
  /\ HasSlot(p) /\ at[p] > 1 /\ ~up[at[p]]
  /\ Deregisters(p)
  /\ id' = [id EXCEPT ![p] = NoId]
  /\ at' = [at EXCEPT ![p] = 1]
  /\ loop' = [loop EXCEPT ![p] = "top"]
  /\ UNCHANGED <<stray, life, stoodDown, beating, loopId, beat, work>>

\* #returnToPrimary, between tasks only.
ReturnsToPrimary(p) ==
  /\ HasSlot(p) /\ at[p] > 1 /\ up[1]
  /\ Deregisters(p)
  /\ id' = [id EXCEPT ![p] = NoId]
  /\ at' = [at EXCEPT ![p] = 1]
  /\ loop' = [loop EXCEPT ![p] = "top"]
  /\ UNCHANGED <<stray, life, stoodDown, beating, loopId, beat, work>>
----------------------------------------------------------------------------
(* The heartbeat, beside all of this.                                      *)

BeatSent(p) ==
  /\ Alive(p) /\ beating[p] /\ id[p] # NoId
  /\ beat[p] = NoBeat
  /\ beat' = [beat EXCEPT ![p] =
       [stage |-> "sent", id |-> id[p], host |-> at[p], answer |-> "ok"]]
  /\ UNCHANGED <<hostVars, stray, life, id, at, stoodDown, beating, loop, loopId,
                 work, trouble>>

\* An answer of "ok" changes nothing when it arrives.
BeatHandled(p) ==
  LET answer == Answered(beat[p].host, beat[p].id) IN
  /\ beat[p].stage = "sent" /\ up[beat[p].host]
  /\ beat' = [beat EXCEPT ![p] =
       IF answer = "ok" THEN NoBeat
       ELSE [beat[p] EXCEPT !.stage = "answered", !.answer = answer]]
  /\ UNCHANGED <<hostVars, stray, life, id, at, stoodDown, beating, loop, loopId,
                 work, trouble>>

BeatMissed(p) ==
  /\ beat[p] # NoBeat
  /\ Unanswered(beat[p].host)
  /\ beat' = [beat EXCEPT ![p] = NoBeat]
  /\ UNCHANGED <<hostVars, stray, life, id, at, stoodDown, beating, loop, loopId,
                 work>>

\* The answer is about the id the beat was sent under; what it clears is
\* whatever #agentId is now.
BeatReceived(p) ==
  /\ beat[p].stage = "answered"
  /\ beat' = [beat EXCEPT ![p] = NoBeat]
  /\ \/ /\ beat[p].answer = "reregister"
        /\ id' = [id EXCEPT ![p] = NoId]
        /\ UNCHANGED <<life, stoodDown, beating, loop, loopId>>
     \/ /\ beat[p].answer = "stand_down"
        /\ IF stoodDown[p] THEN UNCHANGED <<life, id, stoodDown, beating, loop, loopId>>
                           ELSE StandsDown(p)
  /\ UNCHANGED <<hostVars, stray, at, work, trouble>>
----------------------------------------------------------------------------
Registering(p) ==
  RegisterSent(p) \/ RegisterHandled(p) \/ RegisterReceived(p)

Polling(p) ==
  PollSent(p) \/ PollGranted(p) \/ PollRefused(p)

Ending(p) == StopEnds(p) \/ StandDownEnds(p)

Beating(p) == BeatHandled(p) \/ BeatReceived(p)

Next ==
  \/ \E p \in Procs :
       \/ ProcStarts(p) \/ Registering(p) \/ RegisterUnanswered(p)
       \/ StopBegins(p) \/ Ending(p) \/ ProcCrashes(p)
       \/ Polling(p) \/ PollUnanswered(p) \/ TaskEnds(p) \/ ReturnsToPrimary(p)
       \/ BeatSent(p) \/ Beating(p) \/ BeatMissed(p)
  \/ \E h \in Hosts :
       \/ HostStops(h) \/ HostStarts(h)
       \/ \E i \in Ids : Prune(h, i)
       \/ \E p \in Procs : StrayHandled(p, h)

Spec == Init /\ [][Next]_vars

(***************************************************************************)
(* A process that runs goes on; a call ends with an answer or a timeout;   *)
(* a heartbeat is due every twenty seconds.  Whenever a process on a       *)
(* standby is between tasks and the recheck is due it asks for the primary,*)
(* so it will not pass over a primary that is there for ever.              *)
(***************************************************************************)
Fairness ==
  /\ \A p \in Procs :
       /\ WF_vars(Registering(p)) /\ WF_vars(RegisterUnanswered(p) /\ ~up[at[p]])
       /\ WF_vars(Polling(p)) /\ WF_vars(PollUnanswered(p) /\ ~up[at[p]])
       /\ WF_vars(TaskEnds(p)) /\ SF_vars(ReturnsToPrimary(p))
       /\ WF_vars(Ending(p))
       /\ WF_vars(BeatSent(p)) /\ WF_vars(Beating(p))
       /\ WF_vars(BeatMissed(p) /\ ~up[beat[p].host])
  /\ \A h \in Hosts :
       /\ WF_vars(\E i \in Ids : Prune(h, i))
       /\ WF_vars(\E p \in Procs : StrayHandled(p, h))

FairSpec == Spec /\ Fairness
----------------------------------------------------------------------------
(* Properties.                                                             *)

\* While every call is answered and nothing crashes, the processes attached
\* to one coordinator do not all give way: a stand-down leaves another one.
Survivor ==
  trouble = 0 /\ NumHosts = 1 =>
    \A p \in Procs : stoodDown[p] =>
      \E q \in Procs \ {p} : life[q] # "off" /\ ~stoodDown[q]

\* The processes of one machine do not evict each other for ever.
EvictionEnds == <>[][UNCHANGED live]_vars

\* Once things are quiet, a running process holds a registration at a
\* coordinator that is up, if any is.
Attached ==
  (\E h \in Hosts : <>[]up[h]) =>
    \A p \in Procs : <>[](life[p] = "running" => id[p] \in live[at[p]])

\* A fleet that failed over comes back: with the primary up for good, no
\* process stays on a standby.
ComesHome ==
  <>[]up[1] => \A p \in Procs : <>[](life[p] = "running" => at[p] = 1)

\* With one coordinator and every call answered, the only report that is
\* turned away is that of a process whose place was taken: stopping, in
\* particular, does not cost a task that was reported in time.
ReportsHeard ==
  [][trouble = 0 /\ NumHosts = 1 =>
       \A p \in Procs :
         work[p] # NoId /\ work'[p] # work[p] /\ life'[p] # "gone"
           => \/ id[p] = work[p] /\ work[p] \in live[1]
              \/ work[p] \in superseded[1]]_vars

\* "two agent processes started on one machine converge on one survivor
\* instead of evicting each other forever" (registry.js).
OneSurvivor == ~(\A p \in Procs : stoodDown[p])
=============================================================================
