------------------------------ MODULE SelfHeal ------------------------------
(***************************************************************************)
(* scripts/alpha-selfheal.mjs: scheduled passes that probe the backend,    *)
(* the frontend and the public way in, repair what has failed for long     *)
(* enough, within budgets, and keep the last good build of the frontend.   *)
(*                                                                         *)
(* A pass reads its state file, probes, decides, acts, and writes the file *)
(* at its end.  One that is cut short has acted and not written.  Streaks  *)
(* are counted as far as they are compared; what is raised for a person to *)
(* read is left out.  A build is a number.                                 *)
(*                                                                         *)
(* Passes do not overlap.  A lock is taken over after ten minutes; the     *)
(* scheduled task kills a pass after five, and does not start a second     *)
(* one beside it (scripts/repair-alpha-host.ps1).  A pass that a person    *)
(* runs by hand for more than ten minutes is outside this model.           *)
(***************************************************************************)
EXTENDS Integers, Sequences, FiniteSets, FiniteSetsExt

CONSTANTS
  Threshold,       \* failures before a repair
  Confirmations,   \* good passes before the connector, or a snapshot
  Cooldown, PerHour, PerDay,
  Hour, Day,       \* in units of the interval between passes
  MaxTime, MaxCuts, MaxBuilds   \* bounds

ASSUME SelfHealAssumption ==
  {Threshold, Confirmations, Cooldown, PerHour, PerDay, Hour, Day, MaxTime, MaxBuilds}
     \subseteq Nat \ {0} /\ MaxCuts \in Nat /\ Hour <= Day

Parts == {"backend", "frontend", "public"}
NoBuild == 0

VARIABLES
  now,
  healed,     \* state.json
  plan,       \* the pass under way: what it still does, what it will write
  build,      \* what is in dist
  good,       \* what is in dist.last-good
  performed,  \* when each part was really repaired
  cut         \* repairs no file tells of: by passes that were cut short, or
              \* in a file that was torn

healVars == <<now, healed, plan, build, good, performed, cut>>

Times == 0 .. MaxTime
Streaks == [fails : 0 .. Threshold, oks : 0 .. Confirmations, level : 0 .. 1,
            repairs : SUBSET Times]
Healed == [parts : [Parts -> Streaks], fingerprint : 0 .. MaxBuilds]

NoStreaks == [fails |-> 0, oks |-> 0, level |-> 0, repairs |-> {}]

Action == [part : Parts, do : {"restart", "rollback", "snapshot"}, seen : 0 .. MaxBuilds]
NoPlan == [active |-> FALSE, todo |-> <<>>, next |-> [parts |-> [p \in Parts |-> NoStreaks],
                                                      fingerprint |-> NoBuild]]

SelfHealTypeOK ==
  /\ now \in Times /\ healed \in Healed
  /\ plan.active \in BOOLEAN /\ plan.todo \in Seq(Action) /\ plan.next \in Healed
  /\ build \in 1 .. MaxBuilds /\ good \in 0 .. MaxBuilds
  /\ performed \in [Parts -> SUBSET Times] /\ cut \in Nat

SelfHealInit ==
  /\ now = 1 /\ healed = NoPlan.next /\ plan = NoPlan
  /\ build = 1 /\ good = NoBuild
  /\ performed = [p \in Parts |-> {}] /\ cut = 0

Within(times, span) == {t \in times : now - t < span}
UpTo(n, bound) == IF n < bound THEN n ELSE bound
----------------------------------------------------------------------------
(* decide.  A probe finds a part "ok", "down", or failing in a way that a  *)
(* restart does not fix ("unfixable", of the frontend) or that is not the  *)
(* connector's ("elsewhere", of the public way in, the control included).  *)

Probes ==
  [backend : {"ok", "down"}, frontend : {"ok", "down", "unfixable"},
   public : {"ok", "down", "elsewhere"}]

\* The streaks after a probe.
Counted(s, probe) ==
  LET aged == [s EXCEPT !.repairs = Within(@, Day)] IN
  IF probe = "ok"
  THEN [aged EXCEPT !.oks = UpTo(@ + 1, Confirmations), !.fails = 0, !.level = 0]
  ELSE [aged EXCEPT !.oks = 0, !.fails = UpTo(@ + 1, Threshold)]

\* Slip: what this pass has decided already is not counted.
SpentBefore(counted, doing) == Cardinality(UNION {{<<p, t>> : t \in counted[p].repairs} : p \in Parts})

\* spentToday, and the actions this pass has decided on.
Spent(counted, doing) ==
  Cardinality(UNION {{<<p, t>> : t \in counted[p].repairs} : p \in Parts}) + doing

\* A part is repaired if it has failed for long enough, nothing else is to
\* blame, and the cooldown and both budgets allow it.
Repairs(s, probe, blocked, spent) ==
  /\ probe \in {"down", "elsewhere"} /\ s.fails = Threshold /\ ~blocked
  /\ Within(s.repairs, Cooldown) = {}
  /\ Cardinality(Within(s.repairs, Hour)) < PerHour /\ spent < PerDay

Judged(s, repaired) ==
  IF repaired THEN [s EXCEPT !.level = 1, !.repairs = @ \cup {now}] ELSE s

\* The ladder of the frontend: a restart, then the last good build.
HealStep(p, s) ==
  [part |-> p, seen |-> NoBuild,
   do |-> IF p = "frontend" /\ s.level = 1 /\ good # NoBuild THEN "rollback" ELSE "restart"]

Decided(probes) ==
  LET c == [p \in Parts |-> Counted(healed.parts[p], probes[p])]
      back == Repairs(c.backend, probes.backend, FALSE, Spent(c, 0))
      n == IF back THEN 1 ELSE 0
      front == Repairs(c.frontend, probes.frontend, FALSE, Spent(c, n))
      blocked == \/ probes.frontend # "ok" \/ c.frontend.oks < Confirmations
                 \/ probes.public = "elsewhere"
      r == [backend |-> back, frontend |-> front,
            public |-> Repairs(c.public, probes.public, blocked,
                               Spent(c, IF front THEN n + 1 ELSE n))]
      steps(p) == IF r[p] THEN <<HealStep(p, c[p])>> ELSE <<>>
      keep == IF /\ probes.frontend = "ok" /\ c.frontend.oks >= Confirmations
                 /\ build # healed.fingerprint
              THEN <<[part |-> "frontend", do |-> "snapshot", seen |-> build]>> ELSE <<>>
  IN  [active |-> TRUE,
       todo |-> steps("backend") \o steps("frontend") \o steps("public") \o keep,
       next |-> [parts |-> [p \in Parts |-> Judged(c[p], r[p])],
                 fingerprint |-> healed.fingerprint]]
----------------------------------------------------------------------------
(* runPass.                                                                *)

PassBegins ==
  /\ ~plan.active
  /\ \E probes \in Probes : plan' = Decided(probes)
  /\ UNCHANGED <<now, healed, build, good, performed, cut>>

\* rollbackDist.
Rebuilt(a) == IF a.do = "rollback" THEN good ELSE build

\* snapshotLastGood.
Snapped(a, works) == IF a.do = "snapshot" /\ works THEN build ELSE good

\* The executor: a repair is carried out, whether it helps or not.
Performed(a) ==
  IF a.do = "snapshot" THEN performed ELSE [performed EXCEPT ![a.part] = @ \cup {now}]

\* An action of the pass: it works, or fails and has been tried all the same.
Acts(works) ==
  /\ plan.active /\ plan.todo # <<>>
  /\ LET a == Head(plan.todo) IN
       /\ build' = Rebuilt(a) /\ good' = Snapped(a, works) /\ performed' = Performed(a)
       /\ plan' = [plan EXCEPT !.todo = Tail(@),
                     !.next.fingerprint = IF a.do = "snapshot" /\ works THEN a.seen ELSE @]
  /\ UNCHANGED <<now, healed, cut>>

\* writeState, and the time until the next pass.
PassSaves ==
  /\ plan.active /\ plan.todo = <<>>
  /\ healed' = plan.next /\ plan' = NoPlan
  /\ now < MaxTime /\ now' = now + 1
  /\ UNCHANGED <<build, good, performed, cut>>

\* The pass is killed, or its machine restarts: it has decided nothing.
CutShort ==
  /\ plan.active /\ cut < MaxCuts /\ now < MaxTime
  /\ plan' = NoPlan /\ now' = now + 1
  /\ cut' = cut + Cardinality({p \in Parts : now \in performed[p]})
  /\ UNCHANGED <<healed, build, good, performed>>

\* The lock of a pass that was killed is not stale yet, or nothing runs.
Skipped ==
  /\ ~plan.active /\ now < MaxTime /\ now' = now + 1
  /\ UNCHANGED <<healed, plan, build, good, performed, cut>>

\* The state file no longer parses: readState starts counting again.
StateTorn ==
  /\ ~plan.active /\ cut < MaxCuts
  /\ healed' = NoPlan.next
  /\ cut' = cut + Spent(healed.parts, 0)
  /\ UNCHANGED <<now, plan, build, good, performed>>

\* Somebody builds the frontend, at any moment.
Builds ==
  /\ build < MaxBuilds /\ build' = build + 1
  /\ UNCHANGED <<now, healed, plan, good, performed, cut>>

SelfHealNext ==
  \/ PassBegins \/ PassSaves \/ CutShort \/ Skipped \/ StateTorn \/ Builds
  \/ \E works \in BOOLEAN : Acts(works)

SelfHealSpec == SelfHealInit /\ [][SelfHealNext]_healVars
----------------------------------------------------------------------------
(* Properties.                                                             *)

RepairsWithin(span) ==
  UNION {{<<p, t>> : t \in Within(performed[p], span)} : p \in Parts}

\* "Everything it may do is bounded": the repairs that were really carried
\* out stay within both budgets, in every hour and every day, but for those
\* of passes that were cut short before they could write them down, and
\* those in a state file that was torn.
BudgetKept ==
  /\ \A p \in Parts : Cardinality(Within(performed[p], Hour)) <= PerHour + cut
  /\ Cardinality(RepairsWithin(Day)) <= PerDay + cut
=============================================================================
