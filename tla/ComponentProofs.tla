-------------------------- MODULE ComponentProofs ----------------------------
(***************************************************************************)
(* The components side by side, as MCComponents composes them, and the two *)
(* that keep other programs running, proved for any number of checkouts    *)
(* and releases and for any thresholds: what the keeper never leaves       *)
(* behind, and that the tunnel follows the copy of Alpha it is for.        *)
(***************************************************************************)
EXTENDS MCComponents, HostProofs, BridgeProofs, AgentProofs
----------------------------------------------------------------------------
(* The keeper of an agent.                                                 *)

\* A supervisor past its watch has no agent, and one that is over has waited
\* for the update loop; a self-update is counted while it runs.
KeeperInv ==
  /\ KeeperTypeOK
  /\ updater = "pulling" => pulls > 0
  /\ supervisor # "watching" => agent.stage = "exited"
  /\ supervisor = "over" => updater = "over"

\* How many checkouts and releases there are is counted.
LEMMA KeeperBounds == NumOthers \in Nat /\ MaxRelease \in Nat
  BY KeeperAssumption

\* The pulls of a tick are counted down, the releases up.
LEMMA KeeperCounts ==
  /\ 0 \in 0 .. MaxRelease /\ 0 \in 0 .. NumOthers + 1
  /\ NumOthers + 1 \in 0 .. NumOthers + 1 /\ NumOthers + 1 > 0
  /\ \A p \in 0 .. NumOthers + 1 :
       /\ p > 0 => p - 1 \in 0 .. NumOthers + 1
       /\ p > 2 => p - 1 > 0
       /\ p = 2 => p - 1 > 0
  /\ \A r \in 0 .. MaxRelease : r < MaxRelease => r + 1 \in 0 .. MaxRelease
  BY KeeperBounds

LEMMA KeeperInitially == KeeperInit => KeeperInv
<1> SUFFICES ASSUME KeeperInit PROVE KeeperInv
  OBVIOUS
<1>1. NewAgent(0) \in AgentRecord
  BY KeeperCounts DEF NewAgent, AgentRecord
<1> QED
  BY <1>1, KeeperCounts DEF KeeperInit, KeeperInv, KeeperTypeOK

LEMMA KeeperInductive == KeeperInv /\ [KeeperNext]_keeperVars => KeeperInv'
<1> SUFFICES ASSUME KeeperInv, [KeeperNext]_keeperVars PROVE KeeperInv'
  OBVIOUS
<1> USE DEF KeeperInv, KeeperTypeOK, AgentRecord, repoVars
<1>1. CASE \E code \in {0, 1} : AgentExits(code)
  BY <1>1 DEF AgentExits
<1>2. CASE AgentKilled
  BY <1>2 DEF AgentKilled, AgentExits
<1>3. CASE SeesExit
  BY <1>3 DEF SeesExit
<1>4. CASE BackoffEnds
  BY <1>4 DEF BackoffEnds
<1>5. CASE Starts
  <2>1. NewAgent(checkout) \in AgentRecord
    BY DEF NewAgent
  <2> QED
    BY <1>5, <2>1 DEF Starts
<1>6. CASE Ends
  BY <1>6 DEF Ends
<1>7. CASE WakesUp
  BY <1>7, KeeperCounts DEF WakesUp, NapOver
<1>8. CASE AsksForRestart
  BY <1>8 DEF AsksForRestart, Ask
<1>9. CASE RestartSeen
  BY <1>9 DEF RestartSeen
<1>10. CASE \E moves, claimed \in BOOLEAN : SelfUpdateEnds(moves, claimed)
  BY <1>10, KeeperCounts DEF SelfUpdateEnds, AfterPull
<1>11. CASE Shutdown
  BY <1>11 DEF Shutdown, Ask
<1>12. CASE Released
  BY <1>12, KeeperCounts DEF Released
<1>13. CASE PulledByOthers
  BY <1>13 DEF PulledByOthers
<1>14. CASE UNCHANGED keeperVars
  BY <1>14 DEF keeperVars
<1> QED
  BY <1>1, <1>2, <1>3, <1>4, <1>5, <1>6, <1>7, <1>8, <1>9, <1>10, <1>11, <1>12,
     <1>13, <1>14 DEF KeeperNext

\* The keeper's types: in particular no self-update is counted that does not
\* run (#updateForever's loop over the other checkouts and its own).
THEOREM KeeperTypes == KeeperSpec => []KeeperTypeOK
<1>1. KeeperInv => KeeperTypeOK
  BY DEF KeeperInv
<1> QED
  BY <1>1, KeeperInitially, KeeperInductive, PTL DEF KeeperSpec

\* A keeper whose process is over has left neither an agent nor a
\* self-update behind (run's settleUpdate, shutdown, #superviseForever).
THEOREM KeeperLeavesNothing == KeeperSpec => []NothingOrphaned
<1>1. KeeperInv => NothingOrphaned
  BY DEF KeeperInv, NothingOrphaned
<1> QED
  BY <1>1, KeeperInitially, KeeperInductive, PTL DEF KeeperSpec
----------------------------------------------------------------------------
(* The standby of a coordinator.                                           *)

\* A hand-back stops the copy first and then the tunnel; at any other time,
\* but on the way out, the two are wanted together.
InStep ==
  /\ handler # "none" => leaving
  /\ \/ leaving
     \/ turn = "demote" /\ ~alpha.running
     \/ turn = "demote tunnel" /\ ~alpha.running /\ ~tunnel.running
     \/ turn \notin {"demote", "demote tunnel"} /\ (tunnel.running <=> alpha.running)

StandbyInv == StandbyTypeOK /\ InStep

\* The thresholds are counts of at least one.
LEMMA Thresholds ==
  /\ Failures \in Nat /\ Recover \in Nat /\ LocalFailures \in Nat
  /\ Failures > 0 /\ Recover > 0 /\ LocalFailures > 0
  BY StandbyAssumption

\* Each counter is counted up as far as its threshold.
LEMMA StandbyCounts ==
  /\ 0 \in 0 .. Failures /\ 0 \in 0 .. Recover /\ 0 \in 0 .. LocalFailures - 1
  /\ \A n \in 0 .. Failures : n < Failures => n + 1 \in 0 .. Failures
  /\ \A n \in 0 .. Recover : n < Recover => n + 1 \in 0 .. Recover
  /\ \A n \in 0 .. LocalFailures - 1 :
       n + 1 # LocalFailures => n + 1 \in 0 .. LocalFailures - 1
  BY Thresholds

LEMMA NotRunningType == NotRunning \in Supervised /\ ~NotRunning.running
  BY DEF NotRunning, Supervised, Child

\* What happens to the child leaves what is wanted of the program alone
\* (Supervised.restart and #superviseForever).
LEMMA SupervisedTypes ==
  ASSUME NEW p \in Supervised, NEW s \in SigTerm
  PROVE  /\ Begun(p) \in Supervised /\ Begun(p).running
         /\ Stopped(p, s) \in Supervised /\ ~Stopped(p, s).running
         /\ Restarted(p, s) \in Supervised /\ Restarted(p, s).running = p.running
         /\ Exited(p) \in Supervised /\ Exited(p).running = p.running
         /\ GetsOlder(p) => Older(p) \in Supervised /\ Older(p).running = p.running
  BY DEF Supervised, Child, SigTerm, Begun, Stopped, Restarted, Exited, Older, GetsOlder,
         Ending

\* A stop, or a restart, that may not happen.
LEMMA PerhapsStopped ==
  ASSUME NEW p \in Supervised, NEW q, (\E s \in SigTerm : q = Stopped(p, s)) \/ q = p
  PROVE  q \in Supervised
  BY SupervisedTypes

LEMMA PerhapsRestarted ==
  ASSUME NEW p \in Supervised, NEW q, (\E s \in SigTerm : q = Restarted(p, s)) \/ q = p
  PROVE  q \in Supervised /\ q.running = p.running
  BY SupervisedTypes

LEMMA StandbyInitially == StandbyInit => StandbyInv
  BY StandbyCounts, NotRunningType DEF StandbyInit, StandbyInv, StandbyTypeOK, InStep

\* Children that fall, are killed, and are started again.
LEMMA ProgramsInductive ==
  ASSUME StandbyInv,
         \/ AlphaExits \/ AlphaKilled \/ AlphaStarts
         \/ TunnelExits \/ TunnelKilled \/ TunnelStarts
  PROVE  StandbyInv'
<1> USE DEF StandbyInv, StandbyTypeOK, InStep, counters
<1> alpha \in Supervised /\ tunnel \in Supervised /\ "stopping" \in SigTerm
  BY DEF SigTerm
<1>1. CASE AlphaExits
  BY <1>1, SupervisedTypes DEF AlphaExits
<1>2. CASE AlphaKilled
  BY <1>2, SupervisedTypes DEF AlphaKilled
<1>3. CASE AlphaStarts
  BY <1>3, SupervisedTypes DEF AlphaStarts
<1>4. CASE TunnelExits
  BY <1>4, SupervisedTypes DEF TunnelExits
<1>5. CASE TunnelKilled
  BY <1>5, SupervisedTypes DEF TunnelKilled
<1>6. CASE TunnelStarts
  BY <1>6, SupervisedTypes DEF TunnelStarts
<1> QED
  BY <1>1, <1>2, <1>3, <1>4, <1>5, <1>6

\* The steps of run.
LEMMA TurnInductive ==
  ASSUME StandbyInv,
         \/ Answered \/ Missed \/ Demoted \/ HandedBack \/ RestartDone \/ NapEnds
         \/ \E ok \in BOOLEAN : ControlProbed(ok) \/ LocalProbed(ok)
  PROVE  StandbyInv'
<1> USE DEF StandbyInv, StandbyTypeOK, InStep, counters, programs
<1> alpha \in Supervised /\ tunnel \in Supervised /\ "stopping" \in SigTerm
  BY DEF SigTerm
<1>1. CASE Answered
  <2>1. misses' \in 0 .. Failures /\ hits' \in 0 .. Recover
    <3>1. hits < Recover => hits + 1 \in 0 .. Recover
      BY StandbyCounts
    <3> QED
      BY <1>1, <3>1, StandbyCounts DEF Answered
  <2>2. \/ /\ turn' = "demote" /\ alpha' \in Supervised /\ ~alpha'.running
        \/ turn' \in {"local", "nap"} /\ alpha' = alpha
    BY <1>1, SupervisedTypes DEF Answered, AfterProbe
  <2> QED
    BY <1>1, <2>1, <2>2 DEF Answered
<1>2. CASE Missed
  BY <1>2, StandbyCounts DEF Missed, AfterProbe
<1>3. CASE Demoted
  <2>1. PICK s \in SigTerm : tunnel' = Stopped(tunnel, s)
    BY <1>3 DEF Demoted, TunnelStopped
  <2>2. tunnel' \in Supervised /\ ~tunnel'.running
    BY <2>1, SupervisedTypes
  <2> QED
    BY <1>3, <2>2 DEF Demoted
<1>4. CASE HandedBack
  BY <1>4 DEF HandedBack
<1>5. CASE RestartDone
  BY <1>5 DEF RestartDone
<1>6. CASE NapEnds
  BY <1>6 DEF NapEnds
<1>7. ASSUME NEW ok \in BOOLEAN, ControlProbed(ok) PROVE StandbyInv'
  BY <1>7, SupervisedTypes, StandbyCounts DEF ControlProbed
<1>8. ASSUME NEW ok \in BOOLEAN, LocalProbed(ok) PROVE StandbyInv'
  <2>1. localMisses' \in 0 .. LocalFailures - 1
    <3>1. localMisses + 1 # LocalFailures => localMisses + 1 \in 0 .. LocalFailures - 1
      BY StandbyCounts
    <3> QED
      BY <1>8, <3>1, StandbyCounts DEF LocalProbed
  <2>2. alpha' \in Supervised /\ alpha'.running = alpha.running
    <3>1. \/ \E s \in SigTerm : alpha' = Restarted(alpha, s)
          \/ alpha' = alpha
      BY <1>8 DEF LocalProbed
    <3> QED
      BY <3>1, PerhapsRestarted
  <2>3. turn = "local" /\ turn' \in {"restart", "nap"}
    BY <1>8 DEF LocalProbed
  <2> QED
    BY <1>8, <2>1, <2>2, <2>3 DEF LocalProbed
<1> QED
  BY <1>1, <1>2, <1>3, <1>4, <1>5, <1>6, <1>7, <1>8

\* The end of run, shutdown, and the main host.
LEMMA LeavingInductive ==
  ASSUME StandbyInv,
         LoopEnds \/ RunOver \/ Signalled \/ AlphaStopped \/ ShutdownOver \/ HostChanges
  PROVE  StandbyInv'
<1> USE DEF StandbyInv, StandbyTypeOK, InStep, counters, programs
<1> alpha \in Supervised /\ tunnel \in Supervised /\ "stopping" \in SigTerm
  BY DEF SigTerm
<1>1. CASE LoopEnds
  <2>1. tunnel' \in Supervised
    <3>1. \/ \E s \in SigTerm : tunnel' = Stopped(tunnel, s)
          \/ tunnel' = tunnel
      BY <1>1 DEF LoopEnds, StopTunnelAndExit, SigTerm
    <3> QED
      BY <3>1, PerhapsStopped
  <2>2. turn' \in {"end tunnel", "over"} /\ handler' = handler
    BY <1>1 DEF LoopEnds, StopTunnelAndExit
  <2> QED
    BY <1>1, <2>1, <2>2 DEF LoopEnds
<1>2. CASE RunOver
  BY <1>2 DEF RunOver
<1>3. CASE Signalled
  <2>1. alpha' \in Supervised
    <3>1. \/ \E s \in SigTerm : alpha' = Stopped(alpha, s)
          \/ alpha' = alpha
      BY <1>3 DEF Signalled, SigTerm
    <3> QED
      BY <3>1, PerhapsStopped
  <2>2. tunnel' \in Supervised
    <3>1. \/ \E s \in SigTerm : tunnel' = Stopped(tunnel, s)
          \/ tunnel' = tunnel
      BY <1>3 DEF Signalled, StopTunnelAndExit, SigTerm
    <3> QED
      BY <3>1, PerhapsStopped
  <2>3. turn' \in {turn, "over"} /\ handler' \in {handler, "alpha", "tunnel"}
    BY <1>3 DEF Signalled, StopTunnelAndExit, HandlerWaits
  <2> QED
    BY <1>3, <2>1, <2>2, <2>3 DEF Signalled
<1>4. CASE AlphaStopped
  <2>1. tunnel' \in Supervised
    <3>1. \/ \E s \in SigTerm : tunnel' = Stopped(tunnel, s)
          \/ tunnel' = tunnel
      BY <1>4 DEF AlphaStopped, StopTunnelAndExit, SigTerm
    <3> QED
      BY <3>1, PerhapsStopped
  <2>2. turn' \in {turn, "over"} /\ handler' \in {handler, "tunnel"}
    BY <1>4 DEF AlphaStopped, StopTunnelAndExit, HandlerWaits
  <2> QED
    BY <1>4, <2>1, <2>2 DEF AlphaStopped
<1>5. CASE ShutdownOver
  BY <1>5 DEF ShutdownOver
<1>6. CASE HostChanges
  BY <1>6 DEF HostChanges
<1> QED
  BY <1>1, <1>2, <1>3, <1>4, <1>5, <1>6

LEMMA StandbyInductive == StandbyInv /\ [StandbyNext]_standbyVars => StandbyInv'
<1> SUFFICES ASSUME StandbyInv, [StandbyNext]_standbyVars PROVE StandbyInv'
  OBVIOUS
<1>1. CASE UNCHANGED standbyVars
  BY <1>1 DEF standbyVars, StandbyInv, StandbyTypeOK, InStep
<1> QED
  BY <1>1, ProgramsInductive, TurnInductive, LeavingInductive DEF StandbyNext

\* The standby's types: its counters stop at their thresholds.
THEOREM StandbyTypes == StandbySpec => []StandbyTypeOK
<1>1. StandbyInv => StandbyTypeOK
  BY DEF StandbyInv
<1> QED
  BY <1>1, StandbyInitially, StandbyInductive, PTL DEF StandbySpec

\* The tunnel is wanted here exactly while the copy of Alpha is, but during a
\* hand-back and on the way out (#hostAnswered, #hostMissed, shutdown).
THEOREM TunnelRunsWithAlpha == StandbySpec => []TunnelFollows
<1>1. StandbyInv => TunnelFollows
  BY DEF StandbyInv, StandbyTypeOK, InStep, TunnelFollows, Supervised
<1> QED
  BY <1>1, StandbyInitially, StandbyInductive, PTL DEF StandbySpec
----------------------------------------------------------------------------
(* Side by side.  Each component is specified on its own variables; a step *)
(* of the composition is a step of one of them and leaves the others as    *)
(* they are, so that whatever is proved of a component alone holds in it.  *)

\* A step of the composition is a step or a stutter of each component.
LEMMA StepOfEach ==
  ASSUME [MCNext]_mcVars
  PROVE  /\ [AccountsNext]_accountsVars
         /\ [MessagesNext]_mailVars
         /\ [BillingNext]_billingVars
         /\ [MusicNext]_musicVars
         /\ [MemStoreNext]_memVars
         /\ [RendersNext]_renderVars
         /\ [PanelNext]_panelVars
         /\ [SelfHealNext]_healVars
         /\ [AgentTasksNext]_taskVars
         /\ [KeeperNext]_keeperVars
         /\ [StandbyNext]_standbyVars
         /\ [LoadNext]_loadVars
<1>1. [AccountsNext]_accountsVars
  BY Zenon DEF MCNext, mcVars
<1>2. [MessagesNext]_mailVars
  BY Zenon DEF MCNext, mcVars
<1>3. [BillingNext]_billingVars
  BY Zenon DEF MCNext, mcVars
<1>4. [MusicNext]_musicVars
  BY Zenon DEF MCNext, mcVars
<1>5. [MemStoreNext]_memVars
  BY Zenon DEF MCNext, mcVars
<1>6. [RendersNext]_renderVars
  BY Zenon DEF MCNext, mcVars
<1>7. [PanelNext]_panelVars
  BY Zenon DEF MCNext, mcVars
<1>8. [SelfHealNext]_healVars
  BY Zenon DEF MCNext, mcVars
<1>9. [AgentTasksNext]_taskVars
  BY Zenon DEF MCNext, mcVars
<1>10. [KeeperNext]_keeperVars
  BY Zenon DEF MCNext, mcVars
<1>11. [StandbyNext]_standbyVars
  BY Zenon DEF MCNext, mcVars
<1>12. [LoadNext]_loadVars
  BY Zenon DEF MCNext, mcVars
<1>. QED BY <1>1, <1>2, <1>3, <1>4, <1>5, <1>6, <1>7, <1>8, <1>9, <1>10, <1>11,
             <1>12

\* The composition implements each of its components: a run of it is a run of
\* that component, which keeps every safety property it has alone.
THEOREM ComponentsBehave ==
  MCSpec => /\ AccountsSpec
            /\ MessagesSpec
            /\ BillingSpec
            /\ MusicSpec
            /\ MemStoreSpec
            /\ RendersSpec
            /\ PanelSpec
            /\ SelfHealSpec
            /\ AgentTasksSpec
            /\ KeeperSpec
            /\ StandbySpec
            /\ LoadSpec
<1>1. MCInit => /\ AccountsInit
                /\ MessagesInit
                /\ BillingInit
                /\ MusicInit
                /\ MemStoreInit
                /\ RendersInit
                /\ PanelInit
                /\ SelfHealInit
                /\ AgentTasksInit
                /\ KeeperInit
                /\ StandbyInit
                /\ LoadInit
  BY DEF MCInit
<1>2. [MCNext]_mcVars => /\ [AccountsNext]_accountsVars
                         /\ [MessagesNext]_mailVars
                         /\ [BillingNext]_billingVars
                         /\ [MusicNext]_musicVars
                         /\ [MemStoreNext]_memVars
                         /\ [RendersNext]_renderVars
                         /\ [PanelNext]_panelVars
                         /\ [SelfHealNext]_healVars
                         /\ [AgentTasksNext]_taskVars
                         /\ [KeeperNext]_keeperVars
                         /\ [StandbyNext]_standbyVars
                         /\ [LoadNext]_loadVars
  BY StepOfEach, Zenon
<1>. QED BY <1>1, <1>2, PTL
     DEF MCSpec, AccountsSpec, MessagesSpec, BillingSpec, MusicSpec, MemStoreSpec, RendersSpec,
         PanelSpec, SelfHealSpec, AgentTasksSpec, KeeperSpec, StandbySpec, LoadSpec

\* Every component's state keeps its types: no count goes below zero or past
\* its limit, no request waits for a write that will not end, no execution,
\* child process or pass is in a state its code does not know.
THEOREM ComponentsTypeCorrect == MCSpec => []ComponentsTypeOK
<1>1. /\ AccountsTypeOK
      /\ MessagesTypeOK
      /\ BillingTypeOK
      /\ MusicTypeOK
      /\ MemStoreTypeOK
      /\ RendersTypeOK
      /\ PanelTypeOK
      /\ SelfHealTypeOK
      /\ AgentTasksTypeOK
      /\ KeeperTypeOK
      /\ StandbyTypeOK
      /\ LoadTypeOK
      => ComponentsTypeOK
  BY DEF ComponentsTypeOK
<1>. QED BY <1>1, ComponentsBehave, AccountsTypeCorrect, InboxTypeCorrect, BillingTypeCorrect,
        MusicTypeCorrect, MemStoreTypeCorrect, RendersTypeCorrect, PanelTypeCorrect,
        HealTypeCorrect, AgentTasksTypeCorrect, KeeperTypes, StandbyTypes, LoadTypeCorrect, PTL
=============================================================================
