----------------------------- MODULE TaskQueue -----------------------------
(***************************************************************************)
(* The coordinator's task queue (src/host/queue.js) together with the      *)
(* registry it consults, driven by the routes of src/host/server.js.       *)
(*                                                                         *)
(* The coordinator is one JavaScript thread: an action is one turn of it,  *)
(* from the request or timer that starts it to the point where it waits.   *)
(* Requests arrive in any order and repeat.  In particular a report        *)
(* (complete, fail, decline) may come from any id about any task, because  *)
(* the route checks the registration, waits for the body, and only then    *)
(* calls the queue: the registration may be gone by that time.             *)
(*                                                                         *)
(* The one place where a turn must be split is a dispatch.  The queue      *)
(* resolves the poll's promise and the poll's route continues as a         *)
(* microtask, before any other request or timer; there it either writes    *)
(* the task to the agent or finds the connection closed and hands the      *)
(* task back.  handoff holds the tasks between those two halves, and every *)
(* other turn waits for them.  There can be several only because one sweep *)
(* may reclaim several leases before any microtask runs; sweeping says     *)
(* that the turn just taken was a sweep, which may have more to reclaim.   *)
(*                                                                         *)
(* Lease and retention clocks are left out: any lease may be found lapsed  *)
(* by the sweeper and any prefix of the finished tasks may be found past   *)
(* its retention.                                                          *)
(***************************************************************************)
EXTENDS AgentRegistry, SequencesExt

CONSTANTS
  MaxAttempts,  \* MaxAttempts[t]: how often t may be leased
  MaxFinished,  \* finished tasks kept before the oldest is forgotten
  MaxParked     \* bound: long polls one agent has parked at a time

ASSUME QueueAssumption ==
  /\ MaxAttempts \in [Tasks -> Nat \ {0}]
  /\ MaxFinished \in Nat \ {0}
  /\ MaxParked \in Nat \ {0}

VARIABLES
  registry,       \* registry[a]: the agent record of id a
  status,         \* status[t]: "absent" before enqueue, "forgotten" after
  holder,         \* holder[t]: task.agentId
  attempts,       \* attempts[t]: leases charged to t
  pending,        \* the queued tasks in the order a poll scans them
  parked,         \* parked[a]: long polls of a waiting for work
  handoff,        \* the tasks whose poll has resolved but not yet answered
  sweeping,       \* the last turn was the sweeper's
  finishedOrder,  \* the terminal tasks still remembered, oldest first
  receipts        \* receipts[t]: how often t was announced as finished

vars == <<registry, status, holder, attempts, pending, parked, handoff,
          sweeping, finishedOrder, receipts>>

Terminal == {"succeeded", "failed", "cancelled"}
Status   == {"absent", "queued", "leased", "forgotten"} \cup Terminal

TypeOK ==
  /\ registry \in [Agents -> Record]
  /\ status \in [Tasks -> Status]
  /\ holder \in [Tasks -> Agents \cup {NoAgent}]
  /\ attempts \in [Tasks -> Nat]
  /\ pending \in Seq(Tasks)
  /\ parked \in [Agents -> Nat]
  /\ handoff \in SUBSET Tasks
  /\ sweeping \in BOOLEAN
  /\ finishedOrder \in Seq(Tasks)
  /\ receipts \in [Tasks -> Nat]

Init ==
  /\ registry = NewRegistry
  /\ status = [t \in Tasks |-> "absent"]
  /\ holder = [t \in Tasks |-> NoAgent]
  /\ attempts = [t \in Tasks |-> 0]
  /\ pending = <<>>
  /\ parked = [a \in Agents |-> 0]
  /\ handoff = {}
  /\ sweeping = FALSE
  /\ finishedOrder = <<>>
  /\ receipts = [t \in Tasks |-> 0]

\* A new turn, of anything but the sweeper: no dispatch is half done.
Turn == handoff = {} /\ sweeping' = FALSE
----------------------------------------------------------------------------
(* Placing a task.  r is the registry after the calls made so far in the   *)
(* turn and n the attempts already charged.                                *)

\* Slip: a parked poll is taken to mean that its agent is still registered.
EligibleUnchecked(t, r) ==
  {a \in Agents : parked[a] > 0 /\ t \in Capable[a] /\ CanAdmit(r, a, t)}

\* #findWaiterFor: agents with a parked poll that may be given t ...
Eligible(t, r) ==
  {a \in Agents : /\ parked[a] > 0
                  /\ t \in Capable[a]
                  /\ Knows(r, a)
                  /\ CanAdmit(r, a, t)}

\* ... and those of the lowest rank among them.
Best(t, r) ==
  {a \in Eligible(t, r) :
     \A b \in Eligible(t, r) : r[a].inFlight <= r[b].inFlight}

\* #assign, and the resolution of the poll that gets t.
Assign(t, a, r, n) ==
  /\ registry' = Admitted(r, a, t)
  /\ status' = [status EXCEPT ![t] = "leased"]
  /\ holder' = [holder EXCEPT ![t] = a]
  /\ attempts' = [attempts EXCEPT ![t] = n + 1]
  /\ handoff' = handoff \cup {t}

\* The tail of enqueue and of #requeue: to the best parked poll, or pending.
Place(t, r, n) ==
  \/ \E a \in Best(t, r) :
       /\ Assign(t, a, r, n)
       /\ parked' = [parked EXCEPT ![a] = @ - 1]
       /\ UNCHANGED pending
  \/ /\ Eligible(t, r) = {}
     /\ registry' = r
     /\ status' = [status EXCEPT ![t] = "queued"]
     /\ holder' = [holder EXCEPT ![t] = NoAgent]
     /\ attempts' = [attempts EXCEPT ![t] = n]
     /\ pending' = Append(pending, t)
     /\ handoff' = handoff \ {t}
     /\ UNCHANGED parked

Requeue(t, r, n) ==
  /\ Place(t, r, n)
  /\ UNCHANGED <<finishedOrder, receipts>>

\* #forgetFinished: how many of the oldest may go, at least those over cap.
Droppable(order) == {n \in 0 .. Len(order) : Len(order) - n <= MaxFinished}

\* #finished: t ends as s, is announced once, and older records may go.
\* A record cannot be past its retention in the turn that makes it.
Finish(t, s, r) ==
  LET order == Append(finishedOrder, t) IN
  \E n \in Droppable(order) \ {Len(order)} :
    /\ registry' = r
    /\ finishedOrder' = SubSeq(order, n + 1, Len(order))
    /\ status' = [u \in Tasks |-> IF \E i \in 1 .. n : order[i] = u
                                  THEN "forgotten"
                                  ELSE IF u = t THEN s ELSE status[u]]
    /\ receipts' = [receipts EXCEPT ![t] = @ + 1]
    /\ UNCHANGED <<holder, attempts, parked, handoff>>

\* A lease that ended badly: over for good, or queued again.
GiveUpOrRequeue(t, r) ==
  \/ /\ attempts[t] >= MaxAttempts[t]
     /\ Finish(t, "failed", r)
     /\ UNCHANGED pending
  \/ /\ attempts[t] < MaxAttempts[t]
     /\ Requeue(t, r, attempts[t])

\* Slip: whoever held t last may report on it, whatever became of it.
HeldLastBy(t, a) == holder[t] = a

\* #requireLeasedBy.
LeasedBy(t, a) == status[t] = "leased" /\ holder[t] = a
----------------------------------------------------------------------------
(* The registration routes and the registry's own timer.                   *)

queueVars == <<status, holder, attempts, pending, parked, handoff,
               finishedOrder, receipts>>

Register(a, m) ==
  /\ Turn
  /\ registry[a].state = "new"
  /\ registry' \in Registered(registry, a, m)
  /\ UNCHANGED queueVars

\* A heartbeat, the reading a refused decline leaves, or, with m = 0, a
\* report growing stale.
Heartbeat(a, m) ==
  /\ Turn
  /\ Knows(registry, a)
  /\ registry' = Reported(registry, a, m)
  /\ UNCHANGED queueVars

Deregister(a) ==
  /\ Turn
  /\ Knows(registry, a)
  /\ registry' = Dropped(registry, {a})
  /\ UNCHANGED queueVars

Prune(quiet) ==
  /\ Turn
  /\ \A a \in quiet : registry[a].state \in {"live", "superseded"}
  /\ registry' = Dropped(registry, quiet)
  /\ UNCHANGED queueVars
----------------------------------------------------------------------------
(* The queue's operations.                                                 *)

Enqueue(t) ==
  /\ Turn
  /\ status[t] = "absent"
  /\ Place(t, registry, 0)
  /\ UNCHANGED <<finishedOrder, receipts>>

\* The positions of pending whose task a could be given.
Runnable(a, r) ==
  {i \in DOMAIN pending : /\ pending[i] \in Capable[a]
                          /\ CanAdmit(r, a, pending[i])}

\* Slip: the newest task first, a stack instead of a queue.
LastRunnable(a, r) ==
  {i \in Runnable(a, r) : \A j \in Runnable(a, r) : j <= i}

\* findIndex: the first of them.
FirstRunnable(a, r) ==
  {i \in Runnable(a, r) : \A j \in Runnable(a, r) : i <= j}

\* GET tasks/next: the poll reports memory, then takes the first pending
\* task it can run, or parks, or (wait=0) comes back empty.
Poll(a, m, wait) ==
  /\ Turn
  /\ Knows(registry, a)
  /\ LET r == Reported(registry, a, m) IN
       \/ \E i \in FirstRunnable(a, r) :
            /\ Assign(pending[i], a, r, attempts[pending[i]])
            /\ pending' = RemoveAt(pending, i)
            /\ UNCHANGED parked
       \/ /\ Runnable(a, r) = {}
          /\ registry' = r
          /\ \/ ~wait /\ UNCHANGED parked
             \/ /\ wait
                /\ parked[a] < MaxParked
                /\ parked' = [parked EXCEPT ![a] = @ + 1]
          /\ UNCHANGED <<status, holder, attempts, pending, handoff>>
  /\ UNCHANGED <<finishedOrder, receipts>>

\* Slip: a poll that was already answered ends once more.
PollEndsTwice(a) ==
  /\ Turn
  /\ parked' = [parked EXCEPT ![a] = @ - 1]
  /\ UNCHANGED <<registry, status, holder, attempts, pending, handoff,
                 finishedOrder, receipts>>

\* A parked poll times out, or its connection closes.
PollEnds(a) ==
  /\ Turn
  /\ parked[a] > 0
  /\ parked' = [parked EXCEPT ![a] = @ - 1]
  /\ UNCHANGED <<registry, status, holder, attempts, pending, handoff,
                 finishedOrder, receipts>>

\* The poll's route continues and writes the task to the agent ...
Deliver(t) ==
  /\ t \in handoff
  /\ handoff' = handoff \ {t}
  /\ sweeping' = FALSE
  /\ UNCHANGED <<registry, status, holder, attempts, pending, parked,
                 finishedOrder, receipts>>

\* ... or finds the connection closed: the attempt is handed back.
Undelivered(t) ==
  /\ t \in handoff
  /\ LeasedBy(t, holder[t])
  /\ sweeping' = FALSE
  /\ Requeue(t, Released(registry, holder[t], t), Monus(attempts[t], 1))

Complete(t, a) ==
  /\ Turn
  /\ LeasedBy(t, a)
  /\ Finish(t, "succeeded", Released(registry, a, t))
  /\ UNCHANGED pending

\* Slip: a reported failure is always worth another attempt.
FailForever(t, a) ==
  /\ Turn
  /\ LeasedBy(t, a)
  /\ Requeue(t, Released(registry, a, t), attempts[t])

Fail(t, a) ==
  /\ Turn
  /\ LeasedBy(t, a)
  /\ GiveUpOrRequeue(t, Released(registry, a, t))

\* The agent refused t unrun: its fresh reading is recorded before the
\* requeue and the attempt is handed back.
Decline(t, a, m) ==
  /\ Turn
  /\ LeasedBy(t, a)
  /\ Requeue(t, Released(Reported(registry, a, m), a, t), Monus(attempts[t], 1))

\* Slip: a cancelled task is left on the pending list.
CancelInPlace(t) ==
  /\ Turn
  /\ \/ status[t] = "queued" /\ Finish(t, "cancelled", registry)
     \/ /\ status[t] = "leased"
        /\ Finish(t, "cancelled", Released(registry, holder[t], t))
  /\ UNCHANGED pending

Cancel(t) ==
  /\ Turn
  /\ \/ /\ status[t] = "queued"
        /\ \E i \in DOMAIN pending :
             /\ pending[i] = t
             /\ pending' = RemoveAt(pending, i)
        /\ Finish(t, "cancelled", registry)
     \/ /\ status[t] = "leased"
        /\ Finish(t, "cancelled", Released(registry, holder[t], t))
        /\ UNCHANGED pending

\* Slip: the sweeper does not settle with the registry ...
ReclaimUnsettled(t) ==
  /\ handoff = {} \/ sweeping
  /\ sweeping' = TRUE
  /\ status[t] = "leased"
  /\ t \notin handoff
  /\ GiveUpOrRequeue(t, registry)

\* ... or treats a lapsed lease as one that was handed back unrun.
ReclaimUncharged(t) ==
  /\ handoff = {} \/ sweeping
  /\ sweeping' = TRUE
  /\ status[t] = "leased"
  /\ t \notin handoff
  /\ Requeue(t, Released(registry, holder[t], t), Monus(attempts[t], 1))

\* sweep, for a lease that has lapsed, as no lease it has just begun can ...
Reclaim(t) ==
  /\ handoff = {} \/ sweeping
  /\ sweeping' = TRUE
  /\ status[t] = "leased"
  /\ t \notin handoff
  /\ GiveUpOrRequeue(t, Released(registry, holder[t], t))

\* ... and for records past their retention.
ForgetFinished ==
  /\ Turn
  /\ \E n \in Droppable(finishedOrder) \ {0} :
       /\ finishedOrder' = SubSeq(finishedOrder, n + 1, Len(finishedOrder))
       /\ status' = [u \in Tasks |-> IF \E i \in 1 .. n : finishedOrder[i] = u
                                     THEN "forgotten" ELSE status[u]]
  /\ UNCHANGED <<registry, holder, attempts, pending, parked, handoff, receipts>>
----------------------------------------------------------------------------
RegistryStep ==
  \/ \E a \in Agents, m \in Memory : Register(a, m) \/ Heartbeat(a, m)
  \/ \E a \in Agents : Deregister(a)
  \/ \E quiet \in SUBSET Agents : Prune(quiet)

AgentStep ==
  \/ \E a \in Agents, m \in Memory, wait \in BOOLEAN : Poll(a, m, wait)
  \/ \E a \in Agents : PollEnds(a)
  \/ \E t \in Tasks, a \in Agents : Complete(t, a) \/ Fail(t, a)
  \/ \E t \in Tasks, a \in Agents, m \in Memory : Decline(t, a, m)

Next ==
  \/ RegistryStep
  \/ AgentStep
  \/ \E t \in Tasks : Deliver(t) \/ Undelivered(t)
  \/ \E t \in Tasks : Enqueue(t) \/ Cancel(t) \/ Reclaim(t)
  \/ ForgetFinished

Spec == Init /\ [][Next]_vars
----------------------------------------------------------------------------
(* Safety.                                                                 *)

Queued    == {t \in Tasks : status[t] = "queued"}
Held(a)   == {t \in Tasks : LeasedBy(t, a)}
Finished  == {t \in Tasks : status[t] \in Terminal}

\* The pending list and the statuses agree: a queued task is pending exactly
\* once, so no handler may lose a task it requeues or leave behind one that
\* it dispatched or cancelled (queue.js: #pending, splice and push).
PendingExact ==
  /\ ToSet(pending) = Queued
  /\ IsInjective(pending)

\* What the registry charges a live agent with is what that agent holds,
\* through every end a lease can have and every agent that comes and goes in
\* between (registry.js: admit and release, called from seven places).
LedgerExact ==
  \A a \in Live(registry) :
    /\ registry[a].inFlight = Cardinality(Held(a))
    /\ registry[a].reserved = MapThenSumSet(LAMBDA t : Needs[t], Held(a))

\* No lost wakeup: a task that asks for no memory is never pending while a
\* registered agent that could run it is parked.  (One that does ask for
\* memory may be: nothing looks at pending again when memory is released.)
NoIdleMatch ==
  \A t \in Queued, a \in Live(registry) :
    ~ /\ parked[a] > 0
      /\ t \in Capable[a]
      /\ a \in Target[t]
      /\ Needs[t] = 0

\* A queued task always has an attempt left, a leased one has been charged
\* for its lease, and nothing is leased more often than it allows, however
\* declines and dropped connections hand attempts back.
AttemptBudget ==
  \A t \in Tasks :
    /\ status[t] = "queued" => attempts[t] < MaxAttempts[t]
    /\ status[t] = "leased" => attempts[t] \in 1 .. MaxAttempts[t]

\* A dispatch goes to a registration the host still has, of an agent that
\* advertised the type and answers to the name asked for: never to a poll
\* that has outlived its registration.
DispatchSound ==
  \A t \in handoff :
    LET a == holder[t] IN
      /\ LeasedBy(t, a)
      /\ a \in Agents
      /\ Knows(registry, a)
      /\ t \in Capable[a]
      /\ a \in Target[t]

\* One worker is counted once, however often it crashes and registers again.
OneRegistration ==
  \A a, b \in Live(registry) :
    Instance[a] = Instance[b] /\ Instance[a] # NoInstance => a = b

\* Exactly the finished tasks are in line to be forgotten, each once and no
\* more of them than the cap: nothing unfinished is ever dropped.
FinishedExact ==
  /\ ToSet(finishedOrder) = Finished
  /\ IsInjective(finishedOrder)
  /\ Len(finishedOrder) <= MaxFinished

\* "A task finishes exactly once": one receipt for each task that ended.
OneReceipt ==
  \A t \in Tasks :
    receipts[t] = IF status[t] \in Terminal \cup {"forgotten"} THEN 1 ELSE 0

\* What has ended, however many ways raced to end it, is announced once and
\* remembered until its turn to be forgotten (#finished, #forgetFinished).
EndsExact == FinishedExact /\ OneReceipt

\* Seen one task at a time, the queue is the life cycle its callers are
\* promised, with its attempt arithmetic and no way out of a final status.
Lifecycle ==
  INSTANCE TaskLifecycle WITH status <- status, holder <- holder,
                              attempts <- attempts, receipts <- receipts

ImplementsLifecycle == Lifecycle!Spec
----------------------------------------------------------------------------
(* Liveness.                                                               *)

(***************************************************************************)
(* Fairness is what Node and the agent's loop provide.  A resolved poll's  *)
(* continuation is a microtask and always runs.  A parked poll has a timer *)
(* of at most MAX_POLL_WAIT_MS.  An agent that stays attached asks again   *)
(* after every poll; strong fairness, because each dispatch disables every *)
(* other turn for an instant.  Nothing is assumed of what agents report,   *)
(* of clients, or of agents staying attached.                              *)
(***************************************************************************)
PollAgain(a) == \E m \in Memory : Poll(a, m, TRUE)

FairSpec ==
  /\ Spec
  /\ WF_vars(\E t \in Tasks : Deliver(t) \/ Undelivered(t))
  /\ \A a \in Agents : SF_vars(PollAgain(a)) /\ SF_vars(PollEnds(a))

\* a can run t and its memory cannot get in the way.
Suits(t, a) == t \in Capable[a] /\ a \in Target[t] /\ Needs[t] = 0

\* No starvation: if one suitable agent stays attached, a queued task does
\* not stay queued, even while agents hand other tasks back over and over
\* (lease scans pending from the head, #requeue pushes at the tail).
NoStarvation ==
  \A t \in Tasks, a \in Agents :
    Suits(t, a) /\ <>[]Knows(registry, a)
      => (status[t] = "queued" ~> status[t] # "queued")

HandBack ==
  \/ \E t \in Tasks : Undelivered(t)
  \/ \E t \in Tasks, a \in Agents, m \in Memory : Decline(t, a, m)

\* Every task ends, provided that a suitable agent stays attached, that the
\* sweeper keeps running, and that agents do not decline it, or lose the
\* connection it is being sent on, for ever: attempts are what bounds it.
EventuallyFinished ==
  (<>[][~HandBack]_vars /\ \A t \in Tasks : SF_vars(Reclaim(t)))
    => \A t \in Tasks, a \in Agents :
         Suits(t, a) /\ <>[]Knows(registry, a)
           => (status[t] \in {"queued", "leased"}
                 ~> status[t] \in Terminal \cup {"forgotten"})
=============================================================================
