------------------------------- MODULE Keeper -------------------------------
(***************************************************************************)
(* scripts/keep-agent.mjs: one process that runs the agent of its machine  *)
(* from a checkout, starts it again when it dies, pulls the checkout       *)
(* through scripts/self-update.mjs and restarts the agent on what it       *)
(* pulled.  Two loops share the child and one flag, #expectedExit.         *)
(*                                                                         *)
(* A release is a number.  That an agent has exited and that the keeper    *)
(* has seen it are two steps.                                              *)
(***************************************************************************)
EXTENDS Naturals

CONSTANTS
  NumOthers,   \* checkouts given with --also-repo
  MaxRelease   \* bound: releases the remote gets

ASSUME KeeperAssumption == {NumOthers, MaxRelease} \subseteq Nat

VARIABLES
  remote,        \* the release the remote has
  checkout,      \* the release in the repository
  landed,        \* the last release a pull of the keeper's moved it to
  agent,         \* the child
  expectedExit,  \* #expectedExit
  supervisor,    \* where #superviseForever is, and run after it
  updater,       \* where #updateForever is
  pulls,         \* self-updates left of this tick, the last of them its own
  stopping       \* #stopping

keeperVars ==
  <<remote, checkout, landed, agent, expectedExit, supervisor, updater, pulls, stopping>>

NewAgent(r) == [stage |-> "up", code |-> 0, asked |-> FALSE, release |-> r]
AgentRecord ==
  [stage : {"up", "exited"}, code : {0, 1}, asked : BOOLEAN, release : 0 .. MaxRelease]

KeeperTypeOK ==
  /\ remote \in 0 .. MaxRelease /\ checkout \in 0 .. MaxRelease /\ landed \in 0 .. MaxRelease
  /\ agent \in AgentRecord
  /\ expectedExit \in BOOLEAN /\ stopping \in BOOLEAN
  /\ supervisor \in {"watching", "backing off", "starting", "settling", "over"}
  /\ updater \in {"napping", "pulling", "pulled", "restarting", "over"}
  /\ pulls \in 0 .. NumOthers + 1

\* run: the agent is started before anything is awaited.
KeeperInit ==
  /\ remote = 0 /\ checkout = 0 /\ landed = 0
  /\ agent = NewAgent(0) /\ expectedExit = FALSE
  /\ supervisor = "watching" /\ updater = "napping" /\ pulls = 0
  /\ stopping = FALSE

repoVars == <<remote, checkout, landed>>
----------------------------------------------------------------------------
(* The agent.                                                              *)

\* It crashes, is told to stand down, or has drained and does as it was
\* asked.  One that is wedged does nothing.
AgentExits(code) ==
  /\ agent.stage = "up"
  /\ agent' = [agent EXCEPT !.stage = "exited", !.code = code]
  /\ UNCHANGED <<repoVars, expectedExit, supervisor, updater, pulls, stopping>>

\* #stopChild, once the agent has had its time to drain.
AgentKilled == agent.asked /\ AgentExits(1)

\* #stopChild, as far as the wait.
Ask ==
  /\ agent' = [agent EXCEPT !.asked = TRUE]
  /\ expectedExit' = TRUE
----------------------------------------------------------------------------
(* #superviseForever.                                                      *)

\* The exit is seen.  One that was asked for is followed by a start, an
\* unasked exit with code 0 is a stand-down, any other is waited out.
SeesExit ==
  /\ supervisor = "watching" /\ agent.stage = "exited"
  /\ \/ /\ stopping
        /\ supervisor' = "settling" /\ UNCHANGED <<expectedExit, stopping>>
     \/ /\ ~stopping /\ expectedExit
        /\ supervisor' = "starting" /\ expectedExit' = FALSE /\ UNCHANGED stopping
     \/ /\ ~stopping /\ ~expectedExit /\ agent.code = 0
        /\ supervisor' = "settling" /\ stopping' = TRUE /\ UNCHANGED expectedExit
     \/ /\ ~stopping /\ ~expectedExit /\ agent.code # 0
        /\ supervisor' = "backing off" /\ UNCHANGED <<expectedExit, stopping>>
  /\ UNCHANGED <<repoVars, agent, updater, pulls>>

\* The backoff is slept through, whatever happens meanwhile.
BackoffEnds ==
  /\ supervisor = "backing off" /\ supervisor' = "starting"
  /\ UNCHANGED <<repoVars, agent, expectedExit, updater, pulls, stopping>>

\* #spawnAgent, if nobody has asked the keeper to stop.
Starts ==
  /\ supervisor = "starting"
  /\ IF stopping THEN supervisor' = "settling" /\ UNCHANGED agent
     ELSE supervisor' = "watching" /\ agent' = NewAgent(checkout)
  /\ UNCHANGED <<repoVars, expectedExit, updater, pulls, stopping>>

\* The end of run and of the process.
Ends ==
  /\ supervisor = "settling" /\ updater = "over" /\ supervisor' = "over"
  /\ UNCHANGED <<repoVars, agent, expectedExit, updater, pulls, stopping>>
----------------------------------------------------------------------------
(* #updateForever.                                                         *)

\* Slip: a nap that shutdown does not cut short is slept through for hours.
NapNotCut == updater = "napping" /\ ~stopping

\* The interval is over, or the nap was cut short.
NapOver == updater = "napping"

WakesUp ==
  /\ NapOver
  /\ IF stopping THEN updater' = "over" /\ UNCHANGED pulls
     ELSE updater' = "pulling" /\ pulls' = NumOthers + 1
  /\ UNCHANGED <<repoVars, agent, expectedExit, supervisor, stopping>>

\* Between two self-updates of other checkouts #stopping is not looked at.
AfterPull(moved) ==
  /\ pulls' = pulls - 1
  /\ updater' = IF pulls > 2 THEN "pulling"
                ELSE IF stopping THEN "over"
                ELSE IF pulls = 2 THEN "pulling"
                ELSE IF moved THEN "pulled" ELSE "napping"

\* A self-update has ended: it refused or failed, there was nothing new, or
\* it moved the checkout.  One that is killed may have moved it, but has not
\* said so: after five minutes, or when the keeper has waited for it.
SelfUpdateEnds(moves, claimed) ==
  /\ updater = "pulling" /\ (claimed => moves)
  /\ IF moves /\ pulls = 1 /\ checkout < remote
     THEN /\ checkout' = remote /\ landed' = IF claimed THEN remote ELSE landed
          /\ AfterPull(claimed)
     ELSE UNCHANGED <<checkout, landed>> /\ AfterPull(FALSE)
  /\ UNCHANGED <<remote, agent, expectedExit, supervisor, stopping>>

\* Slip: the agent goes on running what it was started from.
RestartsNothing ==
  /\ updater = "pulled" /\ updater' = "napping"
  /\ UNCHANGED <<repoVars, agent, expectedExit, supervisor, pulls, stopping>>

\* The pull moved the checkout: stop the child there is now, dead or alive.
AsksForRestart ==
  /\ updater = "pulled" /\ updater' = "restarting"
  /\ Ask
  /\ UNCHANGED <<repoVars, supervisor, pulls, stopping>>

\* The child that was stopped has exited: another start shows that too.
RestartSeen ==
  /\ updater = "restarting" /\ (agent.stage = "exited" \/ ~agent.asked)
  /\ updater' = IF stopping THEN "over" ELSE "napping"
  /\ UNCHANGED <<repoVars, agent, expectedExit, supervisor, pulls, stopping>>
----------------------------------------------------------------------------
\* SIGINT or SIGTERM.
Shutdown ==
  /\ ~stopping /\ stopping' = TRUE
  /\ Ask
  /\ UNCHANGED <<repoVars, supervisor, updater, pulls>>

Released ==
  /\ remote < MaxRelease /\ remote' = remote + 1
  /\ UNCHANGED <<checkout, landed, agent, expectedExit, supervisor, updater, pulls, stopping>>

\* Somebody, or a scheduled self-update, pulls the checkout.
PulledByOthers ==
  /\ checkout < remote /\ checkout' = remote
  /\ UNCHANGED <<remote, landed, agent, expectedExit, supervisor, updater, pulls, stopping>>

KeeperNext ==
  \/ \E code \in {0, 1} : AgentExits(code)
  \/ AgentKilled \/ SeesExit \/ BackoffEnds \/ Starts \/ Ends
  \/ WakesUp \/ AsksForRestart \/ RestartSeen
  \/ \E moves, claimed \in BOOLEAN : SelfUpdateEnds(moves, claimed)
  \/ Shutdown \/ Released \/ PulledByOthers

KeeperSpec == KeeperInit /\ [][KeeperNext]_keeperVars

(***************************************************************************)
(* Timers fire, loops go on, and a self-update ends because it is killed   *)
(* after five minutes.  An agent need never exit of its own accord.        *)
(***************************************************************************)
KeeperFairness ==
  /\ WF_keeperVars(AgentKilled) /\ WF_keeperVars(SeesExit)
  /\ WF_keeperVars(BackoffEnds) /\ WF_keeperVars(Starts) /\ WF_keeperVars(Ends)
  /\ WF_keeperVars(WakesUp) /\ WF_keeperVars(AsksForRestart) /\ WF_keeperVars(RestartSeen)
  /\ WF_keeperVars(\E moves, claimed \in BOOLEAN : SelfUpdateEnds(moves, claimed))
----------------------------------------------------------------------------
(* Properties.                                                             *)

\* "Exiting under it orphans it": when the keeper's process is over, neither
\* an agent nor a self-update it started is still running.
NothingOrphaned == supervisor = "over" => agent.stage = "exited" /\ updater = "over"

\* A keeper that was asked to stop, or whose agent stood down, ends, though
\* the agent is wedged, dead, or being restarted, and a pull hangs.
KeeperEnds == stopping ~> supervisor = "over"

\* "Restarts the agent if the pull moved something": what the keeper pulled
\* is run, whatever the agent was doing then, unless the keeper stops.
RunsWhatItPulled ==
  \A r \in 1 .. MaxRelease : landed = r ~> agent.release >= r \/ stopping
=============================================================================
