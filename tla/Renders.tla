------------------------------ MODULE Renders ------------------------------
(***************************************************************************)
(* Unattended rendering: the scheduled passes of scripts/alpha-manager.mjs *)
(* that queue renders and do not wait for them, and the handler that       *)
(* renders (src/agent/handlers/alpha-render.js), on a machine where        *)
(* several renders run side by side.                                       *)
(*                                                                         *)
(* One species: the seeds of another are its own.  The file a render       *)
(* writes is named after its seed, so the seed stands for it.  The ledger  *)
(* is what has finished; the coordinator is only its tasks and attempts.   *)
(***************************************************************************)
EXTENDS Integers, Sequences, FiniteSets, FiniteSetsExt

CONSTANTS
  Quota,      \* --max-per-window
  Batch,      \* --count
  RenderTries,  \* maxAttempts of a render
  MaxTasks    \* bound: renders ever queued

ASSUME RendersAssumption == {Quota, Batch, RenderTries, MaxTasks} \subseteq Nat \ {0}

Tasks == 1 .. MaxTasks

VARIABLES
  todo,     \* seeds the pass under way has still to queue
  tasks,    \* every render ever queued
  posted,   \* how many
  produced,  \* the output directory
  staged,    \* staging directories nobody removes any more
  aged       \* receipts that have left the quota's window

renderVars == <<todo, tasks, posted, produced, staged, aged>>

RenderSeeds == 0 .. MaxTasks
Task == [seed : RenderSeeds, stage : {"none", "queued", "rendering", "done", "failed"},
         tries : 0 .. RenderTries, dir : SUBSET RenderSeeds, outputs : SUBSET RenderSeeds]
NoTask == [seed |-> 0, stage |-> "none", tries |-> 0, dir |-> {}, outputs |-> {}]

RendersTypeOK ==
  /\ todo \in Seq(RenderSeeds) /\ Len(todo) <= Batch
  /\ tasks \in [Tasks -> Task] /\ posted \in 0 .. MaxTasks
  /\ produced \subseteq RenderSeeds /\ staged \in 0 .. MaxTasks * RenderTries
  /\ aged \subseteq Tasks

RendersInit ==
  /\ todo = <<>> /\ tasks = [i \in Tasks |-> NoTask] /\ posted = 0
  /\ produced = {} /\ staged = 0 /\ aged = {}

At(stage) == {i \in Tasks : tasks[i].stage = stage}
Receipts == At("done") \cup At("failed")
----------------------------------------------------------------------------
(* The manager.                                                            *)

\* nextSeedFor: only what succeeded has a recipe in its receipt.
NextSeed == IF At("done") = {} THEN 0 ELSE Max({tasks[i].seed : i \in At("done")}) + 1

\* approve: the pass is refused whole.
Approved == Cardinality(Receipts \ aged) + Batch <= Quota

\* commandRender, up to the loop that queues.
Pass ==
  /\ todo = <<>> /\ posted + Batch <= MaxTasks
  /\ Approved
  /\ todo' = [k \in 1 .. Batch |-> NextSeed + k - 1]
  /\ UNCHANGED <<tasks, posted, produced, staged, aged>>

Approves ==
  /\ todo # <<>>
  /\ todo' = Tail(todo) /\ posted' = posted + 1
  /\ tasks' = [tasks EXCEPT ![posted + 1] =
                 [NoTask EXCEPT !.seed = Head(todo), !.stage = "queued"]]
  /\ UNCHANGED <<produced, staged, aged>>

\* The coordinator does not take the next one: what was queued stays queued.
PassDies ==
  /\ todo # <<>> /\ todo' = <<>>
  /\ UNCHANGED <<tasks, posted, produced, staged, aged>>

Ages(i) ==
  /\ i \in Receipts \ aged /\ aged' = aged \cup {i}
  /\ UNCHANGED <<todo, tasks, posted, produced, staged>>
----------------------------------------------------------------------------
(* The handler.                                                            *)

machineVars == <<todo, posted, aged>>

\* run: each render has a staging directory of its own.
Renders(i) ==
  /\ tasks[i].stage = "queued"
  /\ tasks' = [tasks EXCEPT ![i].stage = "rendering", ![i].tries = @ + 1, ![i].dir = {}]
  /\ UNCHANGED <<machineVars, produced, staged>>

\* The generator, a program of its own, writes its image.
Writes(i) ==
  /\ tasks[i].stage = "rendering" /\ tasks[i].dir = {}
  /\ tasks' = [tasks EXCEPT ![i].dir = {tasks[i].seed}]
  /\ UNCHANGED <<machineVars, produced, staged>>

\* Slip: every render writes where every other does.
CollectedShared(i) == UNION {tasks[j].dir : j \in At("rendering")}

\* collectOutputs.
Collected(i) == tasks[i].dir

\* A failed attempt: the queue tries again, while there are attempts left.
Fails(i) ==
  tasks' = [tasks EXCEPT
    ![i].stage = IF tasks[i].tries < RenderTries THEN "queued" ELSE "failed", ![i].dir = {}]

\* Exit code 0.  A render that wrote nothing has failed.
ExitsWell(i) ==
  /\ tasks[i].stage = "rendering"
  /\ IF Collected(i) = {} THEN Fails(i) /\ UNCHANGED produced
     ELSE /\ produced' = produced \cup Collected(i)
          /\ tasks' = [j \in Tasks |->
               IF j = i THEN [tasks[i] EXCEPT !.stage = "done", !.dir = {},
                                              !.outputs = Collected(i)]
               ELSE [tasks[j] EXCEPT !.dir = @ \ Collected(i)]]
  /\ UNCHANGED <<machineVars, staged>>

ExitsBadly(i) ==
  /\ tasks[i].stage = "rendering" /\ Fails(i)
  /\ UNCHANGED <<machineVars, produced, staged>>

\* Past its timeout, past its lease, or with its machine: nothing is tidied.
Killed(i) ==
  /\ tasks[i].stage = "rendering" /\ Fails(i) /\ staged' = staged + 1
  /\ UNCHANGED <<machineVars, produced>>

RendersNext ==
  \/ Pass \/ Approves \/ PassDies
  \/ \E i \in Tasks :
       Ages(i) \/ Renders(i) \/ Writes(i) \/ ExitsWell(i) \/ ExitsBadly(i) \/ Killed(i)

RendersSpec == RendersInit /\ [][RendersNext]_renderVars
----------------------------------------------------------------------------
(* Properties.                                                             *)

\* "Everything in it is unambiguously its own": a render that succeeded
\* names the image it made itself and no other, and that image is there,
\* whatever ran beside it, failed beside it or had the same seed.
OwnOutputs == \A i \in At("done") : tasks[i].outputs = {tasks[i].seed} /\ tasks[i].seed \in produced
=============================================================================
