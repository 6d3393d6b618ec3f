---------------------------- MODULE LoadReports ----------------------------
(***************************************************************************)
(* How busy a machine is, from the processor's counters to the figure the  *)
(* coordinator ranks it by: the sampler of src/agent/load.js, which the    *)
(* loop and the heartbeat share; the reports of src/agent/agent.js, as the *)
(* wire carries them (src/common/protocol.js); and the record that the     *)
(* registry (src/host/registry.js) keeps and trusts for a time.            *)
(*                                                                         *)
(* A figure is abstracted to the window it was measured over and to when   *)
(* it was taken; how busy the machine was is left out.  Two clocks are one *)
(* here, and it is never set back.                                         *)
(***************************************************************************)
EXTENDS Integers, FiniteSets

CONSTANTS
  MinWindow,      \* MIN_SAMPLE_WINDOW_MS
  MinInterval,    \* minIntervalMs: for how long an answer is given again
  StaleAfter,     \* LOAD_REPORT_STALE_MS
  Transit,        \* for how long a report may be under way, retries included
  LoadAverage,    \* whether this platform has a load average: not Windows
  MaxNow, MaxProcesses, MaxSent   \* bounds: time, processes, reports under way

ASSUME LoadReportsAssumption ==
  /\ {MinWindow, MinInterval, StaleAfter, MaxProcesses, MaxSent} \subseteq Nat \ {0}
  /\ Transit \in Nat /\ MaxNow \in Nat \ {0}
  /\ LoadAverage \in BOOLEAN

VARIABLES
  clock,
  sampler,      \* the process: its #previous reading and its #last answer
  underWay,       \* reports under way
  known      \* the registry's entry for this machine

loadVars == <<clock, sampler, underWay, known>>

Instants == 1 .. MaxNow

\* from: where the window that was measured begins, 0 when `busy` is null.
\* taken: when the answer was made, which is where the window ends.
Report == [from : Instants \cup {0}, taken : Instants \cup {0}]
NoReport == [from |-> 0, taken |-> 0]

\* base: when the counters were last read, 0 when they could not be.
Sampler == [run : 0 .. MaxProcesses, old : BOOLEAN, id : BOOLEAN,
          base : Instants \cup {0}, last : Report]

Message == [kind : {"register", "heartbeat", "poll"}, run : 1 .. MaxProcesses,
            load : Report, at : Instants]

Record == [run : 0 .. MaxProcesses, load : Report, at : Instants \cup {0}]

LoadTypeOK ==
  /\ clock \in Nat /\ sampler \in Sampler /\ known \in Record
  /\ underWay \subseteq Message
  /\ known.load.taken <= known.at /\ known.at <= clock

LoadInit ==
  /\ clock = 1
  /\ sampler = [run |-> 0, old |-> FALSE, id |-> FALSE, base |-> 0, last |-> NoReport]
  /\ underWay = {}
  /\ known = [run |-> 0, load |-> NoReport, at |-> 0]
----------------------------------------------------------------------------
(* The sampler.                                                            *)

\* What readTicks finds: counters that have moved on, the same ones as
\* before, or none at all.
Ticks == {"moved", "still", "none"}

TooSoon(base) == base # 0 /\ clock - base < MinWindow

\* Slip: every window begins where the first one did.
FirstBase(base, ticks) == IF base = 0 /\ ticks # "none" THEN clock ELSE base

\* utilisation(): the window that is measured, 0 for null, ...
Utilisation(base, ticks) ==
  IF base = 0 \/ TooSoon(base) \/ ticks # "moved" THEN 0 ELSE base

\* ... and the reading that the next call starts from.
NextBase(base, ticks) ==
  IF TooSoon(base) THEN base ELSE IF ticks = "none" THEN 0 ELSE clock

GivenAgain(last) == last.taken # 0 /\ clock - last.taken < MinInterval

\* snapshot(): the last answer, or a new one.
Snapshot(ticks) ==
  IF GivenAgain(sampler.last) THEN sampler
  ELSE [sampler EXCEPT
          !.base = NextBase(sampler.base, ticks),
          !.last = [from |-> Utilisation(sampler.base, ticks), taken |-> clock]]

\* combine: the figure is null only when neither signal exists.
Measured(load) == load.taken # 0 /\ (load.from # 0 \/ LoadAverage)
----------------------------------------------------------------------------
(* The agent.                                                              *)

\* A process starts, of a release that reports its load or of an older one.
\* Reports of the one before may still be under way.
AgentStarts(old, ticks) ==
  /\ sampler.run < MaxProcesses
  /\ sampler' = [run |-> sampler.run + 1, old |-> old, id |-> FALSE,
                 base |-> IF ticks = "none" THEN 0 ELSE clock, last |-> NoReport]
  /\ UNCHANGED <<clock, underWay, known>>

\* A registration is sent when there is no id, the others when there is one.
SendsLoad(kind, ticks) ==
  /\ sampler.run # 0
  /\ Cardinality(underWay) < MaxSent
  /\ (kind = "register") = ~sampler.id
  /\ sampler' = IF sampler.old THEN sampler ELSE Snapshot(ticks)
  /\ underWay' = underWay \cup {[kind |-> kind, run |-> sampler.run,
                                load |-> sampler'.last, at |-> clock]}
  /\ UNCHANGED <<clock, known>>

\* The loop looks at the load before it asks for work.
Looks(ticks) ==
  /\ sampler.run # 0 /\ ~sampler.old
  /\ sampler' = Snapshot(ticks)
  /\ UNCHANGED <<clock, underWay, known>>

\* A report that is lost, or was under way when the other end gave up.
ReportDropped(m) ==
  /\ m \in underWay
  /\ underWay' = underWay \ {m}
  /\ UNCHANGED <<clock, sampler, known>>
----------------------------------------------------------------------------
(* The coordinator.                                                        *)

\* loadReportFromQuery: every value is null.  The sampler always gives the
\* number of cores, so that is so of older releases only.
EveryValueNull(load) == load.taken = 0

\* reportLoad: a report that is null leaves the last one standing.
Recorded(load) ==
  IF EveryValueNull(load) THEN known
                          ELSE [known EXCEPT !.load = load, !.at = clock]

\* A new entry, in place of that of the process before.
RegistrationRecorded(m) ==
  /\ m \in underWay /\ m.kind = "register"
  /\ known' = [run |-> m.run, load |-> m.load,
               at |-> IF m.load = NoReport THEN 0 ELSE clock]
  /\ sampler' = IF m.run = sampler.run THEN [sampler EXCEPT !.id = TRUE] ELSE sampler
  /\ underWay' = underWay \ {m}
  /\ UNCHANGED clock

\* The report of a process whose entry was superseded is refused.
ReportRecorded(m) ==
  /\ m \in underWay /\ m.kind # "register"
  /\ known' = IF m.run = known.run THEN Recorded(m.load) ELSE known
  /\ underWay' = underWay \ {m}
  /\ UNCHANGED <<clock, sampler>>

\* loadFactor: what the machine is ranked by, unless that is unknown.
Ranked ==
  /\ Measured(known.load)
  /\ clock - known.at <= StaleAfter

\* Time passes, while no report is under way for longer than it may be.
Passes ==
  /\ clock < MaxNow
  /\ \A m \in underWay : clock + 1 - m.at <= Transit
  /\ clock' = clock + 1
  /\ UNCHANGED <<sampler, underWay, known>>
----------------------------------------------------------------------------
LoadNext ==
  \/ \E old \in BOOLEAN, ticks \in Ticks : AgentStarts(old, ticks)
  \/ \E kind \in {"register", "heartbeat", "poll"}, ticks \in Ticks :
       SendsLoad(kind, ticks)
  \/ \E ticks \in Ticks : Looks(ticks)
  \/ \E m \in underWay : ReportDropped(m) \/ RegistrationRecorded(m) \/ ReportRecorded(m)
  \/ Passes

LoadSpec == LoadInit /\ [][LoadNext]_loadVars
----------------------------------------------------------------------------
(* Properties.                                                             *)

\* A machine is ranked by what it was like at most so long ago: given again
\* for one interval, under way for Transit, and trusted until it is stale,
\* whichever of the reports arrives last and whatever the machine says or
\* does not say since (load.js: snapshot; registry.js: reportLoad, loadFactor).
RankedOnRecent ==
  Ranked => clock - known.load.taken <= StaleAfter + Transit + (MinInterval - 1)

AllReports == {sampler.last, known.load} \cup {m.load : m \in underWay}

\* No busy second is counted twice and none is a guess: the windows behind
\* any two figures, the agent's, those under way and the coordinator's, are
\* the same or apart, and none is too short to divide (load.js: utilisation,
\* snapshot).
WindowsApart ==
  \A a, b \in {r \in AllReports : r.from # 0} :
    /\ a.taken - a.from >= MinWindow
    /\ a # b => a.taken <= b.from \/ b.taken <= a.from

\* What a machine says of itself and is ranked by is measured, and lately.
LoadSound == RankedOnRecent /\ WindowsApart
=============================================================================
