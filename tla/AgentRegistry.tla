--------------------------- MODULE AgentRegistry ---------------------------
(***************************************************************************)
(* The coordinator's registry of attached agents (src/host/registry.js):   *)
(* who is registered, what memory each machine last offered, and what is   *)
(* promised to the tasks it holds.                                         *)
(*                                                                         *)
(* The registry never acts on its own.  Every operator below is one of its *)
(* methods, written as a function from the registry before the call to the *)
(* registry after it, so that TaskQueue can make several calls in one step *)
(* the way one JavaScript turn does.                                       *)
(*                                                                         *)
(* Clocks are left out: a report may grow stale, a registration may be     *)
(* pruned and the memory of a superseded one may lapse at any time.  Load  *)
(* is left out as well.  It contributes strictly less than one lease to    *)
(* rank, and it may be reported as anything at any time, so it can only    *)
(* choose among agents holding equally many leases.                        *)
(***************************************************************************)
EXTENDS Naturals, FiniteSets

CONSTANTS
  Agents,      \* registration ids; newId never repeats, so each is used once
  NoAgent,     \* the agentId of a task nobody has held
  Tasks,       \* task ids, each enqueued at most once for the same reason
  Instance,    \* Instance[a]: the worker, and its owner, behind the id a
  NoInstance,  \* the instance of an agent too old to report one
  Capable,     \* Capable[a]: the tasks whose type a advertises
  Target,      \* Target[t]: the agents answering to the name t asks for
  Needs,       \* Needs[t]: the memory t asks for
  MaxMemory    \* bound: the most memory a report may offer

ASSUME RegistryAssumption ==
  /\ NoAgent \notin Agents
  /\ Capable \in [Agents -> SUBSET Tasks]
  /\ Target \in [Tasks -> SUBSET Agents]
  /\ Needs \in [Tasks -> Nat]
  /\ MaxMemory \in Nat

Memory == 0 .. MaxMemory

(***************************************************************************)
(* One agent's record.  "superseded" and "gone" ids are no longer in the   *)
(* Map; the first is still remembered, so that its process is told to      *)
(* stand down instead of to register again.                                *)
(***************************************************************************)
Record ==
  [state    : {"new", "live", "superseded", "gone"},
   memory   : Memory,    \* last offer; 0 when missing or stale
   inFlight : Nat,       \* leases held
   reserved : Nat,       \* memory promised to those leases
   against  : Nat]       \* the offer when this run of promises began

Blank(state) ==
  [state |-> state, memory |-> 0, inFlight |-> 0, reserved |-> 0, against |-> 0]

NewRegistry == [a \in Agents |-> Blank("new")]

Knows(r, a) == r[a].state = "live"
Live(r)     == {a \in Agents : Knows(r, a)}

\* JavaScript's Math.max(0, x - y).
Monus(x, y) == IF x > y THEN x - y ELSE 0
----------------------------------------------------------------------------
(* Registrations.                                                          *)

\* Slip: only a registration that holds nothing is taken over.
IdleInstances(r, a) ==
  {b \in Live(r) \ {a} : /\ Instance[b] = Instance[a]
                         /\ Instance[a] # NoInstance
                         /\ r[b].inFlight = 0}

\* #findLiveInstance: registrations the same worker left behind.
LiveInstances(r, a) ==
  {b \in Live(r) \ {a} : Instance[b] = Instance[a] /\ Instance[a] # NoInstance}

\* register: the results of attaching id a, which first reports memory m.
Registered(r, a, m) ==
  LET added == [r EXCEPT ![a] = [Blank("live") EXCEPT !.memory = m]]
      old   == LiveInstances(r, a)
  IN  IF old = {} THEN {added}
      ELSE {[added EXCEPT ![b] = Blank("superseded")] : b \in old}

\* deregister and prune: the ids dropped leave the Map with what they held.
\* Prune also forgets supersessions that have been remembered long enough.
Dropped(r, ids) == [a \in Agents |-> IF a \in ids THEN Blank("gone") ELSE r[a]]

\* reportMemory, and the ageing of a report into an offer of nothing.
Reported(r, a, m) == IF Knows(r, a) THEN [r EXCEPT ![a].memory = m] ELSE r
----------------------------------------------------------------------------
(* Admission control: the calls TaskQueue makes.                           *)

\* unmaterializedBytes: promises the machine's own report does not show yet.
Unmaterialized(r, a) == Monus(r[a].reserved, Monus(r[a].against, r[a].memory))

Offerable(r, a) == Monus(r[a].memory, Unmaterialized(r, a))

\* Slip: a task that asks for nothing is measured like any other, strictly.
CanAdmitMeasured(r, a, t) ==
  /\ a \in Target[t]
  /\ Offerable(r, a) > Needs[t]

CanAdmit(r, a, t) ==
  /\ a \in Target[t]
  /\ Needs[t] = 0 \/ Offerable(r, a) >= Needs[t]

\* admit and release on the record of a live agent.  The first promise of a
\* run anchors it to the offer it was made against; the last one released
\* lifts the anchor.
Charged(rec, need) ==
  [rec EXCEPT !.inFlight = @ + 1,
              !.reserved = @ + need,
              !.against  = IF need > 0 /\ rec.reserved = 0 THEN rec.memory
                           ELSE @]

Settled(rec, need) ==
  [rec EXCEPT !.inFlight = Monus(@, 1),
              !.reserved = Monus(@, need),
              !.against  = IF need > 0 /\ rec.reserved <= need THEN 0 ELSE @]

Admitted(r, a, t) ==
  IF Knows(r, a) THEN [r EXCEPT ![a] = Charged(@, Needs[t])] ELSE r

Released(r, a, t) ==
  IF Knows(r, a) THEN [r EXCEPT ![a] = Settled(@, Needs[t])] ELSE r
=============================================================================
