------------------------------ MODULE Standby ------------------------------
(***************************************************************************)
(* scripts/standby-alpha.mjs: a laptop probes the main host, runs Alpha    *)
(* and the tunnel to it while the host does not answer, and hands back     *)
(* when it does.                                                           *)
(*                                                                         *)
(* Alpha and the tunnel are each a Supervised: #running, #expectedExit and *)
(* the one child.  A child that is "stopping" was sent a SIGTERM it will   *)
(* heed, a "stubborn" one does not; either way the stop that sent it waits *)
(* and kills it in the end, if the process is there to do so.              *)
(***************************************************************************)
EXTENDS Naturals

CONSTANTS
  Failures,       \* misses in a row before taking over
  Recover,        \* answers in a row before handing back
  LocalFailures,  \* misses of the copy here before it is restarted
  Stay            \* never hand back

ASSUME StandbyAssumption ==
  {Failures, Recover, LocalFailures} \subseteq Nat \ {0} /\ Stay \in BOOLEAN

VARIABLES
  host,         \* the main host answers this machine
  misses, hits, localMisses,
  alpha, tunnel,
  turn,         \* where run is
  handler,      \* where shutdown is
  leaving       \* #stopping

standbyVars == <<host, misses, hits, localMisses, alpha, tunnel, turn, handler, leaving>>

Child == {"none", "young", "up", "stopping", "stubborn"}
Supervised == [running : BOOLEAN, expected : BOOLEAN, child : Child]
NotRunning == [running |-> FALSE, expected |-> FALSE, child |-> "none"]

StandbyTypeOK ==
  /\ host \in BOOLEAN /\ leaving \in BOOLEAN
  /\ misses \in 0 .. Failures /\ hits \in 0 .. Recover
  /\ localMisses \in 0 .. LocalFailures - 1
  /\ alpha \in Supervised /\ tunnel \in Supervised
  /\ turn \in {"probe", "control", "local", "restart", "demote", "demote tunnel", "nap",
               "end tunnel", "over"}
  /\ handler \in {"none", "alpha", "tunnel"}

StandbyInit ==
  /\ host = TRUE /\ misses = 0 /\ hits = 0 /\ localMisses = 0
  /\ alpha = NotRunning /\ tunnel = NotRunning
  /\ turn = "probe" /\ handler = "none" /\ leaving = FALSE

counters == <<misses, hits, localMisses>>
programs == <<alpha, tunnel>>
Alive == turn # "over"
----------------------------------------------------------------------------
(* Supervised, as operators on the record.                                 *)

Ending(p) == p.child \in {"stopping", "stubborn"}

Begun(p) == IF p.running THEN p ELSE [running |-> TRUE, expected |-> FALSE, child |-> "young"]

\* stop, as far as the wait.  A nap between two starts is cut short.
Stopped(p, sigterm) ==
  IF ~p.running THEN p
  ELSE [p EXCEPT !.running = FALSE,
                 !.child = IF @ \in {"young", "up"} THEN sigterm ELSE @]

\* restart, as far as the wait.
Restarted(p, sigterm) ==
  IF p.child = "none" THEN p
  ELSE [p EXCEPT !.expected = TRUE, !.child = IF Ending(p) THEN @ ELSE sigterm]

\* #superviseForever on the exit of its child: a restart that was asked for
\* starts the next one straight away, any other exit is waited out first.
Exited(p) ==
  IF p.running /\ p.expected THEN [p EXCEPT !.expected = FALSE, !.child = "young"]
  ELSE [p EXCEPT !.child = "none"]

SigTerm == {"stopping", "stubborn"}

\* A child falls over, or has stopped.
Exits(p) == p.child \notin {"none", "stubborn"}

AlphaExits ==
  /\ Exits(alpha) /\ alpha' = Exited(alpha)
  /\ UNCHANGED <<host, counters, tunnel, turn, handler, leaving>>

TunnelExits ==
  /\ Exits(tunnel) /\ tunnel' = Exited(tunnel)
  /\ UNCHANGED <<host, counters, alpha, turn, handler, leaving>>

\* Slip: a child that does not stop in time is waited for.
NeverKills(p) == FALSE

\* #stopChild: the stop timeout.
Kills(p) == Alive /\ Ending(p)

AlphaKilled ==
  /\ Kills(alpha) /\ alpha' = Exited(alpha)
  /\ UNCHANGED <<host, counters, tunnel, turn, handler, leaving>>

TunnelKilled ==
  /\ Kills(tunnel) /\ tunnel' = Exited(tunnel)
  /\ UNCHANGED <<host, counters, alpha, turn, handler, leaving>>

\* The backoff before a start, and localGraceMs after one.
Older(p) ==
  CASE p.child = "none"  -> [p EXCEPT !.child = "young"]
    [] p.child = "young" -> [p EXCEPT !.child = "up"]

GetsOlder(p) == Alive /\ p.running /\ p.child \in {"none", "young"}

AlphaStarts ==
  /\ GetsOlder(alpha) /\ alpha' = Older(alpha)
  /\ UNCHANGED <<host, counters, tunnel, turn, handler, leaving>>

TunnelStarts ==
  /\ GetsOlder(tunnel) /\ tunnel' = Older(tunnel)
  /\ UNCHANGED <<host, counters, alpha, turn, handler, leaving>>
----------------------------------------------------------------------------
(* run.                                                                    *)

\* After the probe: the copy here is checked, if it is past its grace.
AfterProbe == IF alpha.running /\ alpha.child \notin {"none", "young"} THEN "local" ELSE "nap"

\* #hostAnswered.
Answered ==
  /\ turn = "probe" /\ ~leaving /\ host
  /\ misses' = 0 /\ hits' = IF hits < Recover THEN hits + 1 ELSE hits
  /\ IF alpha.running /\ ~Stay /\ hits' >= Recover
     THEN turn' = "demote" /\ \E s \in SigTerm : alpha' = Stopped(alpha, s)
     ELSE turn' = AfterProbe /\ UNCHANGED alpha
  /\ UNCHANGED <<host, localMisses, tunnel, handler, leaving>>

\* #hostMissed, up to the control.
Missed ==
  /\ turn = "probe" /\ ~leaving /\ ~host
  /\ hits' = 0 /\ misses' = IF misses < Failures THEN misses + 1 ELSE misses
  /\ turn' = IF alpha.running THEN AfterProbe
             ELSE IF misses' < Failures THEN "nap" ELSE "control"
  /\ UNCHANGED <<host, localMisses, programs, handler, leaving>>

\* If the control is unreachable too, the fault is here; otherwise take over.
ControlProbed(reached) ==
  /\ turn = "control" /\ turn' = "nap"
  /\ IF reached THEN localMisses' = 0 /\ alpha' = Begun(alpha) /\ tunnel' = Begun(tunnel)
     ELSE UNCHANGED <<localMisses, programs>>
  /\ UNCHANGED <<host, misses, hits, handler, leaving>>

TunnelStopped(s) == Stopped(tunnel, s)

\* The copy here has stopped: now the tunnel.
Demoted ==
  /\ turn = "demote" /\ ~Ending(alpha)
  /\ turn' = "demote tunnel" /\ \E s \in SigTerm : tunnel' = TunnelStopped(s)
  /\ UNCHANGED <<host, counters, alpha, handler, leaving>>

HandedBack ==
  /\ turn = "demote tunnel" /\ ~Ending(tunnel) /\ turn' = "nap"
  /\ UNCHANGED <<host, counters, programs, handler, leaving>>

\* #checkLocalHealth, when its probe has ended.
LocalProbed(answered) ==
  /\ turn = "local"
  /\ localMisses' = IF answered \/ localMisses + 1 = LocalFailures THEN 0 ELSE localMisses + 1
  /\ IF ~answered /\ localMisses + 1 = LocalFailures
     THEN turn' = "restart" /\ \E s \in SigTerm : alpha' = Restarted(alpha, s)
     ELSE turn' = "nap" /\ UNCHANGED alpha
  /\ UNCHANGED <<host, misses, hits, tunnel, handler, leaving>>

RestartDone ==
  /\ turn = "restart" /\ ~Ending(alpha) /\ turn' = "nap"
  /\ UNCHANGED <<host, counters, programs, handler, leaving>>

NapEnds ==
  /\ turn = "nap" /\ ~leaving /\ turn' = "probe"
  /\ UNCHANGED <<host, counters, programs, handler, leaving>>

\* What ends run and shutdown alike: stop the tunnel, and exit.
StopTunnelAndExit(wait) ==
  IF tunnel.running /\ tunnel.child # "none"
  THEN wait /\ \E s \in SigTerm : tunnel' = Stopped(tunnel, s)
  ELSE turn' = "over" /\ tunnel' = Stopped(tunnel, "stopping") /\ UNCHANGED handler

\* The loop has ended.  Its own stop of Alpha returns at once: shutdown,
\* which ended the loop, has called it, and #running is false already.
LoopEnds ==
  /\ turn \in {"nap", "probe"} /\ leaving
  /\ StopTunnelAndExit(turn' = "end tunnel" /\ UNCHANGED handler)
  /\ UNCHANGED <<host, counters, alpha, leaving>>

RunOver ==
  /\ turn = "end tunnel" /\ ~Ending(tunnel) /\ turn' = "over"
  /\ UNCHANGED <<host, counters, programs, handler, leaving>>
----------------------------------------------------------------------------
(* shutdown.                                                               *)

HandlerWaits(where) == handler' = where /\ UNCHANGED turn

Signalled ==
  /\ Alive /\ ~leaving /\ leaving' = TRUE
  /\ IF alpha.running /\ alpha.child # "none"
     THEN /\ HandlerWaits("alpha") /\ UNCHANGED tunnel
          /\ \E s \in SigTerm : alpha' = Stopped(alpha, s)
     ELSE alpha' = Stopped(alpha, "stopping") /\ StopTunnelAndExit(HandlerWaits("tunnel"))
  /\ UNCHANGED <<host, counters>>

AlphaStopped ==
  /\ Alive /\ handler = "alpha" /\ ~Ending(alpha)
  /\ StopTunnelAndExit(HandlerWaits("tunnel"))
  /\ UNCHANGED <<host, counters, alpha, leaving>>

ShutdownOver ==
  /\ Alive /\ handler = "tunnel" /\ ~Ending(tunnel) /\ turn' = "over"
  /\ UNCHANGED <<host, counters, programs, handler, leaving>>

HostChanges ==
  /\ host' = ~host
  /\ UNCHANGED <<counters, programs, turn, handler, leaving>>

StandbyNext ==
  \/ AlphaExits \/ AlphaKilled \/ AlphaStarts
  \/ TunnelExits \/ TunnelKilled \/ TunnelStarts
  \/ Answered \/ Missed \/ Demoted \/ HandedBack \/ RestartDone \/ NapEnds
  \/ \E ok \in BOOLEAN : ControlProbed(ok) \/ LocalProbed(ok)
  \/ LoopEnds \/ RunOver \/ Signalled \/ AlphaStopped \/ ShutdownOver
  \/ HostChanges

StandbySpec == StandbyInit /\ [][StandbyNext]_standbyVars

\* Probes end and timers fire, the kill after a stop among them.
StandbyFairness ==
  /\ WF_standbyVars(Answered \/ Missed \/ Demoted \/ HandedBack \/ RestartDone \/ NapEnds)
  /\ WF_standbyVars(\E ok \in BOOLEAN : ControlProbed(ok) \/ LocalProbed(ok))
  /\ WF_standbyVars(AlphaKilled) /\ WF_standbyVars(TunnelKilled)
----------------------------------------------------------------------------
(* Properties.                                                             *)

\* "The named tunnel runs here for exactly as long as this machine is the
\* one serving": the two are up together, through takeovers, restarts and
\* falls, but while they are being stopped one after the other.
TunnelFollows ==
  turn \notin {"demote", "demote tunnel"} /\ ~leaving => (tunnel.running <=> alpha.running)

\* "Demotion is on by default, so the split heals as soon as the link does":
\* once the main host answers for good there is no second Alpha, nor a
\* tunnel to it, however they take being stopped.
SplitHeals ==
  ~Stay => (<>[](host /\ ~leaving) => <>[](alpha.child = "none" /\ tunnel.child = "none"))

\* "And the standby still stops it on the way out, rather than orphaning it"
\* (standby-alpha.test.js): when its process is over, a copy of Alpha that
\* would not stop has been killed.
NotOrphaned == ~Alive => alpha.child # "stubborn"
=============================================================================
