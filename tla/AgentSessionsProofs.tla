------------------------ MODULE AgentSessionsProofs ------------------------
(***************************************************************************)
(* What the agent processes of one machine keep to at their coordinators,  *)
(* proved for any number of processes, coordinators, ids and mishaps.      *)
(*                                                                         *)
(* First what an id that is given out is, then that every step keeps the   *)
(* types; then, for as long as one coordinator answers every call, that    *)
(* it knows or remembers every id in use and that somebody holds the       *)
(* machine's place.                                                        *)
(***************************************************************************)
EXTENDS AgentSessions, WellFoundedInduction, TLAPS

\* A nonempty set of numbers has a least.
LEMMA LeastExists ==
  ASSUME NEW S \in SUBSET Nat, S # {}
  PROVE  \E m \in S : \A k \in S : m <= k
<1>1. PICK m \in S : \A k \in S : <<k, m>> \notin OpToRel(<, Nat)
  BY WFMin, NatLessThanWellFounded, Zenon
<1>2. \A k \in S : ~(k < m)
  BY <1>1, Zenon DEF OpToRel
<1> QED BY <1>2

LEMMA MinIs ==
  ASSUME NEW S \in SUBSET Nat, S # {}
  PROVE  Min(S) \in S
<1>1. PICK m \in S : \A k \in S : m <= k
  BY LeastExists
<1>. QED BY <1>1, Zenon DEF Min

LEMMA ZeroIsNoId == NoId \notin Ids
  BY DEF NoId, Ids

\* An id that is given out is nobody's, and no registration's.
LEMMA FreshIs ==
  /\ Fresh \in Ids \cup {NoId}
  /\ Fresh # NoId => Fresh \in Ids \ Used /\ \A h \in Hosts : Fresh \notin live[h]
<1>. DEFINE taken == UNION {live[h] : h \in Hosts}
            free == Ids \ (Used \cup taken)
<1>1. Fresh = IF free = {} THEN NoId ELSE Min(free)
  BY DEF Fresh
<1>2. free \in SUBSET Nat
  BY DEF Ids
<1>3. free # {} => Min(free) \in free
  <2>. HIDE DEF free
  <2>. QED BY <1>2, MinIs
<1>4. \A h \in Hosts : live[h] \subseteq taken
  OBVIOUS
<1>. HIDE DEF taken
<1>. QED BY <1>1, <1>3, <1>4

LEMMA InUse ==
  ASSUME NEW q \in Procs
  PROVE  {id[q], loopId[q], beat[q].id, work[q]} \subseteq Used
  BY Zenon DEF Used
----------------------------------------------------------------------------
(* Types.                                                                  *)

LEMMA PrimaryIsHost == 1 \in Hosts /\ NumHosts \in Hosts /\ NumHosts \in Nat
  BY SessionsAssumption DEF Hosts

LEMMA NoBeatIsBeat == NoBeat \in Beat
  BY PrimaryIsHost DEF NoBeat, Beat, Answer

LEMMA SessionsInitially == Init => TypeOK
<1>. SUFFICES ASSUME Init PROVE TypeOK
  OBVIOUS
<1>1. \A h \in Hosts : TRUE \in BOOLEAN /\ (h # 1) \in BOOLEAN
  BY Zenon
<1>2. up \in [Hosts -> BOOLEAN]
  BY <1>1, Zenon DEF Init
<1>3. trouble \in 0 .. MaxTrouble
  BY SessionsAssumption DEF Init
<1>4. /\ NoId \in Ids \cup {NoId} /\ 1 \in Hosts /\ FALSE \in BOOLEAN
      /\ "off" \in Life /\ "top" \in Loop /\ {} \subseteq Procs \X Hosts
  BY PrimaryIsHost DEF Life, Loop
<1>. QED BY <1>2, <1>3, <1>4, NoBeatIsBeat, Zenon DEF Init, TypeOK

\* A registration keeps the types of the registry.
LEMMA RegistersTypes ==
  ASSUME TypeOK, NEW h \in Hosts, Registers(h)
  PROVE  /\ up' = up
         /\ live' \in [Hosts -> SUBSET Ids]
         /\ superseded' \in [Hosts -> SUBSET Ids]
         /\ Fresh \in Ids
<1>1. Fresh \in Ids
  BY FreshIs DEF Registers
<1>2. (superseded[h] \cup live[h]) \cap Used \subseteq Ids
  BY DEF TypeOK
<1>. QED BY <1>1, <1>2 DEF Registers, TypeOK

\* A call keeps within the bound on trouble.
LEMMA TroubleTypes == TypeOK /\ Trouble => trouble' \in 0 .. MaxTrouble /\ trouble' # 0
  BY SessionsAssumption DEF TypeOK, Trouble

LEMMA UnansweredTypes ==
  ASSUME TypeOK, NEW h, Unanswered(h)
  PROVE  trouble' \in 0 .. MaxTrouble
  BY TroubleTypes DEF Unanswered, TypeOK

LEMMA DeregistersTypes ==
  ASSUME TypeOK, NEW p \in Procs, Deregisters(p)
  PROVE  /\ up' = up /\ superseded' = superseded
         /\ live' \in [Hosts -> SUBSET Ids]
         /\ trouble' \in 0 .. MaxTrouble
<1>1. CASE UNCHANGED <<up, superseded, trouble>> /\ live' = [live EXCEPT ![at[p]] = @ \ {id[p]}]
  BY <1>1 DEF TypeOK
<1>2. CASE Unanswered(at[p]) /\ UNCHANGED hostVars
  BY <1>2, UnansweredTypes DEF TypeOK, hostVars
<1>. QED BY <1>1, <1>2, Zenon DEF Deregisters

LEMMA GoneTypes ==
  ASSUME TypeOK, NEW p \in Procs, Gone(p), hostVars' = hostVars \/ Deregisters(p),
         trouble' \in 0 .. MaxTrouble
  PROVE  TypeOK'
<1>1. /\ up' \in [Hosts -> BOOLEAN] /\ live' \in [Hosts -> SUBSET Ids]
      /\ superseded' \in [Hosts -> SUBSET Ids]
  BY DeregistersTypes DEF TypeOK, hostVars
<1>2. stray' \subseteq Procs \X Hosts
  BY DEF Gone, TypeOK
<1>. QED BY <1>1, <1>2, PrimaryIsHost, NoBeatIsBeat DEF Gone, TypeOK, Life, Loop

LEMMA StandsDownTypes ==
  ASSUME TypeOK, NEW p \in Procs, StandsDown(p)
  PROVE  /\ life' \in [Procs -> Life] /\ id' \in [Procs -> Ids \cup {NoId}]
         /\ stoodDown' \in [Procs -> BOOLEAN] /\ beating' \in [Procs -> BOOLEAN]
         /\ loop' \in [Procs -> Loop] /\ loopId' \in [Procs -> Ids \cup {NoId}]
<1>1. (beating[p] /\ life[p] = "stopping") \in BOOLEAN
  BY Zenon
<1>2. Interrupted(p) \in Loop
  BY DEF Interrupted, Loop
<1>. QED BY <1>1, <1>2 DEF StandsDown, TypeOK, Life

LEMMA ResumedTypes == \A p, i, t : Resumed(p, i, t) \in Loop
  BY DEF Resumed, Loop

\* A process that starts, registers or stops.
LEMMA RegisteringTypes ==
  ASSUME TypeOK, NEW p \in Procs,
         \/ ProcStarts(p) \/ Registering(p) \/ RegisterUnanswered(p)
         \/ StopBegins(p) \/ Ending(p) \/ ProcCrashes(p)
  PROVE  TypeOK'
<1>1. CASE ProcStarts(p)
  BY <1>1 DEF ProcStarts, TypeOK, hostVars, Life
<1>2. CASE RegisterSent(p)
  BY <1>2, PrimaryIsHost DEF RegisterSent, TypeOK, hostVars, Loop
<1>3. CASE RegisterHandled(p)
  <2>1. at[p] \in Hosts
    BY DEF TypeOK
  <2>. QED BY <1>3, <2>1, RegistersTypes DEF RegisterHandled, TypeOK, Loop
<1>4. CASE RegisterReceived(p)
  BY <1>4, ResumedTypes DEF RegisterReceived, TypeOK, hostVars
<1>5. CASE RegisterUnanswered(p)
  <2>1. at[p] \in Hosts
    BY DEF TypeOK
  <2>2. NextHost(p) => at' \in [Procs -> Hosts] /\ loop' \in [Procs -> Loop]
    <3>1. at[p] < NumHosts => at[p] + 1 \in Hosts
      BY <2>1, PrimaryIsHost DEF Hosts
    <3>. QED BY <3>1, ResumedTypes, PrimaryIsHost DEF NextHost, TypeOK
  <2>3. /\ at' \in [Procs -> Hosts] /\ loop' \in [Procs -> Loop]
        /\ loopId' \in [Procs -> Ids \cup {NoId}]
    BY <1>5, <2>2 DEF RegisterUnanswered, TypeOK, Loop
  <2>4. trouble' \in 0 .. MaxTrouble
    BY <1>5, TroubleTypes, UnansweredTypes, Zenon DEF RegisterUnanswered
  <2>5. stray' \subseteq Procs \X Hosts
    BY <1>5, <2>1 DEF RegisterUnanswered, TypeOK
  <2>. QED BY <1>5, <2>3, <2>4, <2>5 DEF RegisterUnanswered, TypeOK, hostVars
<1>6. CASE StopBegins(p)
  <2>1. Interrupted(p) \in Loop
    BY DEF Interrupted, Loop
  <2>. QED BY <1>6, <2>1 DEF StopBegins, TypeOK, hostVars, Life
<1>7. CASE StopEnds(p)
  BY <1>7, GoneTypes, DeregistersTypes, Zenon DEF StopEnds
<1>8. CASE StandDownEnds(p)
  <2>1. hostVars' = hostVars /\ trouble' \in 0 .. MaxTrouble
    BY <1>8 DEF StandDownEnds, TypeOK
  <2>. QED BY <1>8, <2>1, GoneTypes, Zenon DEF StandDownEnds
<1>9. CASE ProcCrashes(p)
  <2>1. hostVars' = hostVars /\ trouble' \in 0 .. MaxTrouble
    BY <1>9, TroubleTypes DEF ProcCrashes
  <2>. QED BY <1>9, <2>1, GoneTypes, Zenon DEF ProcCrashes
<1>. QED BY <1>1, <1>2, <1>3, <1>4, <1>5, <1>6, <1>7, <1>8, <1>9, Zenon DEF Registering, Ending

\* Its polls, its task and its heartbeat.
LEMMA WorkingTypes ==
  ASSUME TypeOK, NEW p \in Procs,
         \/ Polling(p) \/ PollUnanswered(p) \/ TaskEnds(p) \/ ReturnsToPrimary(p)
         \/ BeatSent(p) \/ Beating(p) \/ BeatMissed(p)
  PROVE  TypeOK'
<1>1. CASE PollSent(p)
  BY <1>1 DEF PollSent, TypeOK, hostVars, Loop
<1>2. CASE PollGranted(p)
  BY <1>2, ResumedTypes DEF PollGranted, TypeOK, hostVars
<1>3. CASE PollRefused(p)
  BY <1>3, StandsDownTypes DEF PollRefused, TypeOK, hostVars, Loop
<1>4. CASE PollUnanswered(p)
  BY <1>4, UnansweredTypes DEF PollUnanswered, TypeOK, hostVars, Loop
<1>5. CASE TaskEnds(p)
  BY <1>5 DEF TaskEnds, TypeOK, hostVars
<1>6. CASE ReturnsToPrimary(p)
  BY <1>6, DeregistersTypes, PrimaryIsHost DEF ReturnsToPrimary, TypeOK, Loop
<1>7. CASE BeatSent(p)
  <2>1. [stage |-> "sent", id |-> id[p], host |-> at[p], answer |-> "ok"] \in Beat
    BY DEF TypeOK, Beat, Answer
  <2>. QED BY <1>7, <2>1 DEF BeatSent, TypeOK, hostVars
<1>8. CASE BeatHandled(p)
  <2>. DEFINE answer == Answered(beat[p].host, beat[p].id)
              heard == [beat[p] EXCEPT !.stage = "answered", !.answer = answer]
  <2>1. answer \in Answer
    BY DEF Answered, Answer
  <2>2. beat[p] \in Beat
    BY DEF TypeOK
  <2>. HIDE DEF answer
  <2>3. heard \in Beat
    BY <2>1, <2>2 DEF Beat
  <2>4. beat' = [beat EXCEPT ![p] = IF answer = "ok" THEN NoBeat ELSE heard]
    BY <1>8, Zenon DEF BeatHandled, answer
  <2>. HIDE DEF heard
  <2>5. beat' \in [Procs -> Beat]
    BY <2>3, <2>4, NoBeatIsBeat DEF TypeOK
  <2>. QED BY <1>8, <2>5, Zenon DEF BeatHandled, TypeOK, hostVars
<1>9. CASE BeatReceived(p)
  <2>1. beat' \in [Procs -> Beat]
    BY <1>9, NoBeatIsBeat DEF BeatReceived, TypeOK
  <2>. QED BY <1>9, <2>1, StandsDownTypes DEF BeatReceived, TypeOK, hostVars
<1>10. CASE BeatMissed(p)
  BY <1>10, UnansweredTypes, NoBeatIsBeat DEF BeatMissed, TypeOK, hostVars
<1>. QED BY <1>1, <1>2, <1>3, <1>4, <1>5, <1>6, <1>7, <1>8, <1>9, <1>10, Zenon
         DEF Polling, Beating

\* A coordinator that comes, goes, or tidies up.
LEMMA HostTypes ==
  ASSUME TypeOK, NEW h \in Hosts,
         \/ HostStops(h) \/ HostStarts(h)
         \/ \E i \in Ids : Prune(h, i)
         \/ \E p \in Procs : StrayHandled(p, h)
  PROVE  TypeOK'
<1>1. CASE HostStops(h)
  BY <1>1, TroubleTypes DEF HostStops, TypeOK, procVars
<1>2. CASE HostStarts(h)
  BY <1>2 DEF HostStarts, TypeOK, procVars
<1>3. CASE \E i \in Ids : Prune(h, i)
  BY <1>3 DEF Prune, TypeOK, procVars
<1>4. CASE \E p \in Procs : StrayHandled(p, h)
  <2>1. stray' \subseteq Procs \X Hosts /\ UNCHANGED <<procVars, trouble>>
    BY <1>4, Zenon DEF StrayHandled, TypeOK
  <2>2. Registers(h) \/ UNCHANGED hostVars
    BY <1>4, Zenon DEF StrayHandled
  <2>. QED BY <2>1, <2>2, RegistersTypes DEF TypeOK, procVars, hostVars
<1>. QED BY <1>1, <1>2, <1>3, <1>4

LEMMA SessionsTypes == TypeOK /\ [Next]_vars => TypeOK'
<1>. SUFFICES ASSUME TypeOK, [Next]_vars PROVE TypeOK'
  OBVIOUS
<1>1. CASE UNCHANGED vars
  BY <1>1 DEF vars, hostVars, procVars, TypeOK
<1>. QED BY <1>1, RegisteringTypes, WorkingTypes, HostTypes, Zenon DEF Next
----------------------------------------------------------------------------
(* While one coordinator answers every call.                               *)

Calm == trouble = 0 /\ NumHosts = 1

\* The ids a process uses or asks about.
Held(p) == {id[p], loopId[p], beat[p].id} \ {NoId}

\* What a process is up to agrees with whether it is there.
Consistent(p) ==
  /\ loop[p] \in {"registering", "registered", "polling"} => Alive(p)
  /\ ~Alive(p) => Held(p) = {} /\ beat[p] = NoBeat /\ work[p] = NoId
  /\ life[p] = "off" => ~stoodDown[p]
  /\ beat[p] # NoBeat => beat[p].stage # "none" /\ beat[p].id # NoId
  /\ loopId[p] # NoId => loop[p] \in {"registered", "polling"}
  /\ loop[p] = "polling" => work[p] = NoId

\* A process that registers, or is about to, has nothing under way and was
\* not told to go.
Newcomer(p) ==
  loop[p] \in {"registering", "registered"} \/ (loop[p] = "top" /\ id[p] = NoId)
    => id[p] = NoId /\ beat[p] = NoBeat /\ ~stoodDown[p] /\ work[p] = NoId

\* The coordinator knows, or remembers, every id in use; a process uses one
\* at a time; and whoever is told to go was superseded.
Known(p) ==
  /\ Alive(p) => Held(p) \subseteq live[1] \cup superseded[1]
  /\ loop[p] = "slot" => id[p] # NoId
  /\ loop[p] = "polling" => id[p] # NoId /\ loopId[p] = id[p]
  /\ id[p] # NoId /\ beat[p] # NoBeat => beat[p].id = id[p]
  /\ beat[p].stage = "answered" =>
       beat[p].answer = "stand_down" /\ beat[p].id \in superseded[1]
  /\ work[p] # NoId => work[p] \in superseded[1] \/ work[p] = id[p]

\* No two processes are given one id.
OwnIds == \A p, q \in Procs : p # q => Held(p) \cap Held(q) = {}

\* A register request that outlives its sender was sent by one that stopped.
StrayLeft == \A p \in Procs, h \in Hosts : <<p, h>> \in stray => life[p] = "gone" /\ ~stoodDown[p]

\* A process that keeps the machine's place, or has left it of its own accord.
Keeps(q) ==
  /\ life[q] # "off" /\ ~stoodDown[q] /\ beat[q].stage # "answered"
  /\ Alive(q) => Held(q) \subseteq live[1]

\* If any registration was superseded, or a process told to go, somebody
\* keeps the place.
SomebodyKeeps ==
  \/ superseded[1] = {} /\ \A p \in Procs : ~stoodDown[p] /\ beat[p].stage # "answered"
  \/ \E q \in Procs : Keeps(q)

Sound(p) == Consistent(p) /\ Newcomer(p) /\ Known(p)

Settled == OwnIds /\ StrayLeft /\ SomebodyKeeps /\ \A p \in Procs : Sound(p)

SessionsInv == TypeOK /\ (Calm => Settled)

LEMMA SettledInitially == Init => Settled
<1>. SUFFICES ASSUME Init PROVE Settled
  OBVIOUS
<1>1. \A p \in Procs : Held(p) = {} /\ beat[p] = NoBeat /\ ~Alive(p)
  BY DEF Init, Held, NoBeat, Alive
<1>2. ASSUME NEW p \in Procs PROVE Sound(p)
  BY <1>1 DEF Init, Sound, Consistent, Newcomer, Known, NoBeat
<1>3. SomebodyKeeps
  BY <1>1, PrimaryIsHost DEF Init, SomebodyKeeps, NoBeat
<1>. QED BY <1>1, <1>2, <1>3 DEF Settled, OwnIds, StrayLeft, Init

\* With one coordinator every process is at it.
LEMMA OneHost ==
  ASSUME TypeOK, Calm
  PROVE  Hosts = {1} /\ \A p \in Procs : at[p] = 1 /\ beat[p].host = 1
<1>1. Hosts = {1}
  BY DEF Calm, Hosts
<1>2. \A p \in Procs : at[p] \in Hosts /\ beat[p] \in Beat
  BY DEF TypeOK
<1>. QED BY <1>1, <1>2 DEF Beat

\* A step that leaves a process alone.
Unmoved(q) ==
  /\ life'[q] = life[q] /\ id'[q] = id[q] /\ stoodDown'[q] = stoodDown[q]
  /\ loop'[q] = loop[q] /\ loopId'[q] = loopId[q] /\ beat'[q] = beat[q]
  /\ work'[q] = work[q]

\* What a process keeps to depends on the others only in what the coordinator
\* knows.
LEMMA Bystander ==
  ASSUME NEW q \in Procs, Sound(q), Unmoved(q),
         Alive(q) => Held(q) \cap live[1] \subseteq live'[1] \cup superseded'[1],
         Used \cap superseded[1] \subseteq superseded'[1]
  PROVE  Sound(q)' /\ Held(q)' = Held(q) /\ Alive(q)' = Alive(q)
<1>1. Held(q)' = Held(q) /\ Alive(q)' = Alive(q)
  BY Zenon DEF Unmoved, Held, Alive
<1>2. Consistent(q)'
  BY <1>1, Zenon DEF Sound, Consistent, Unmoved
<1>3. Newcomer(q)'
  BY Zenon DEF Sound, Newcomer, Unmoved
<1>4. Held(q) \cup {beat[q].id, work[q]} \subseteq Used
  BY InUse DEF Held
<1>5. Alive(q) => Held(q) \subseteq live'[1] \cup superseded'[1]
  BY <1>4 DEF Sound, Known
<1>6. /\ beat[q].id \in superseded[1] => beat[q].id \in superseded'[1]
      /\ work[q] \in superseded[1] => work[q] \in superseded'[1]
  BY <1>4
<1>7. Known(q)'
  BY <1>1, <1>5, <1>6, Zenon DEF Sound, Known, Unmoved
<1>. QED BY <1>1, <1>2, <1>3, <1>7 DEF Sound

\* Whoever is left alone keeps the place, unless a registration takes it.
LEMMA StillKeeps ==
  ASSUME NEW q \in Procs, Keeps(q), Unmoved(q),
         Alive(q) => Held(q) \cap live[1] \subseteq live'[1]
  PROVE  Keeps(q)'
<1>1. Held(q)' = Held(q) /\ Alive(q)' = Alive(q)
  BY Zenon DEF Unmoved, Held, Alive
<1>. QED BY <1>1 DEF Keeps, Unmoved

\* A step of one process that the coordinator does not notice.
LEMMA LocalStep ==
  ASSUME NEW p \in Procs, Settled, UNCHANGED <<live, superseded, stray>>,
         \A q \in Procs \ {p} : Unmoved(q),
         Sound(p)', Held(p)' \subseteq Held(p), life'[p] = "gone" <=> life[p] = "gone",
         life[p] = "gone" => stoodDown'[p] = stoodDown[p],
         SomebodyKeeps'
  PROVE  Settled'
<1>1. ASSUME NEW q \in Procs \ {p} PROVE Sound(q)' /\ Held(q)' = Held(q)
  BY Bystander DEF Settled
<1>2. \A q \in Procs : Held(q)' \subseteq Held(q)
  BY <1>1
<1>3. OwnIds'
  BY <1>2 DEF Settled, OwnIds
<1>4. StrayLeft'
  BY DEF Settled, StrayLeft, Unmoved
<1>. QED BY <1>1, <1>3, <1>4 DEF Settled

\* The place is kept by a process that goes on, and when one that did not
\* keep it is told to go.
LEMMA PlaceIsKept ==
  ASSUME NEW p \in Procs, Settled, UNCHANGED <<live, superseded>>,
         \A q \in Procs \ {p} : Unmoved(q),
         \/ /\ stoodDown'[p] = stoodDown[p] /\ Held(p)' \subseteq Held(p)
            /\ beat'[p].stage = "answered" => beat[p].stage = "answered"
            /\ life[p] # "off" => life'[p] # "off" /\ (Alive(p)' => Alive(p))
         \/ ~Keeps(p) /\ (superseded[1] # {} \/ beat[p].stage = "answered")
  PROVE  SomebodyKeeps'
<1>1. CASE \E q \in Procs \ {p} : Keeps(q)
  <2>1. PICK q \in Procs \ {p} : Keeps(q)
    BY <1>1
  <2>. QED BY <2>1, StillKeeps DEF SomebodyKeeps
<1>2. CASE Keeps(p) /\ stoodDown'[p] = stoodDown[p]
  BY <1>2 DEF Keeps, SomebodyKeeps
<1>3. CASE ~\E q \in Procs : Keeps(q)
  <2>1. superseded[1] = {} /\ \A q \in Procs : ~stoodDown[q] /\ beat[q].stage # "answered"
    BY <1>3, Zenon DEF Settled, SomebodyKeeps
  <2>. QED BY <2>1 DEF SomebodyKeeps, Unmoved
<1>. QED BY <1>1, <1>2, <1>3

\* A quiet step is one before which, and after which, nothing was lost.
Quiet == TypeOK /\ Settled /\ Calm /\ Calm'

LEMMA NoTrouble == Quiet => ~Trouble
  BY TroubleTypes DEF Quiet, Calm

\* Each of these leaves the other processes and the coordinator alone.
LEMMA StartsQuietly ==
  ASSUME Quiet, NEW p \in Procs, ProcStarts(p)
  PROVE  Settled'
<1>. USE DEF Quiet
<1>1. /\ UNCHANGED <<live, superseded, stray>>
      /\ \A q \in Procs \ {p} : Unmoved(q)
  BY DEF ProcStarts, TypeOK, Unmoved, hostVars
<1>2. /\ life[p] = "off" /\ life'[p] = "running"
      /\ UNCHANGED <<id, stoodDown, loop, loopId, beat, work>>
  BY DEF ProcStarts, TypeOK
<1>3. Held(p)' = Held(p) /\ Held(p) = {} /\ Alive(p)' /\ ~Alive(p)
  BY <1>2 DEF Held, Alive, Settled, Sound, Consistent
<1>4. Sound(p)'
  BY <1>1, <1>2, <1>3 DEF Settled, Sound, Consistent, Newcomer, Known
<1>5. SomebodyKeeps'
  BY <1>1, <1>2, <1>3, PlaceIsKept
<1>. QED BY <1>1, <1>2, <1>3, <1>4, <1>5, LocalStep

LEMMA RegistersQuietly ==
  ASSUME Quiet, NEW p \in Procs,
         RegisterSent(p) \/ RegisterReceived(p) \/ RegisterUnanswered(p)
  PROVE  Settled'
<1>. USE DEF Quiet
<1>1. /\ UNCHANGED <<live, superseded, life, stoodDown, beat, work>>
      /\ \A q \in Procs \ {p} : Unmoved(q)
  BY NoTrouble DEF RegisterSent, RegisterReceived, RegisterUnanswered, TypeOK, Unmoved,
         hostVars, NextHost
<1>2. UNCHANGED stray
  BY NoTrouble DEF RegisterSent, RegisterReceived, RegisterUnanswered, Unanswered
<1>3. /\ Alive(p) /\ Alive(p)'
      /\ id[p] = NoId /\ beat[p] = NoBeat /\ ~stoodDown[p] /\ work[p] = NoId
  BY <1>1 DEF RegisterSent, RegisterReceived, RegisterUnanswered, Alive,
              Settled, Sound, Newcomer
<1>4. /\ {id'[p], loopId'[p]} \subseteq {id[p], loopId[p]}
      /\ loop'[p] \in {"registering", "done"} \/ (loop'[p] = "top" /\ life[p] = "running")
      /\ loopId'[p] = NoId /\ (loop'[p] = "registering" => id'[p] = id[p])
  <2>1. CASE RegisterSent(p)
    BY <2>1 DEF RegisterSent, TypeOK, Settled, Sound, Consistent
  <2>2. CASE RegisterReceived(p)
    <3>1. loop'[p] = Resumed(p, loopId[p], NoId)
      BY <2>2, <1>3 DEF RegisterReceived, TypeOK
    <3>. QED BY <2>2, <3>1, <1>3 DEF RegisterReceived, TypeOK, Resumed
  <2>3. CASE RegisterUnanswered(p)
    <3>1. loop[p] = "registering" /\ NextHost(p) /\ UNCHANGED loopId
      BY <2>3, NoTrouble DEF RegisterUnanswered
    <3>2. loop'[p] \in {loop[p], Resumed(p, NoId, NoId)}
      BY <3>1, <1>3 DEF NextHost, TypeOK
    <3>. QED BY <2>3, <3>1, <3>2 DEF RegisterUnanswered, Resumed, Settled, Sound, Consistent
  <2>. QED BY <2>1, <2>2, <2>3
<1>5. Held(p)' \subseteq Held(p)
  BY <1>1, <1>4 DEF Held
<1>6. Sound(p)'
  <2>1. Consistent(p)'
    BY <1>1, <1>3, <1>4 DEF Consistent, Settled, Sound, Alive
  <2>2. Newcomer(p)'
    BY <1>1, <1>3, <1>4 DEF Newcomer
  <2>3. Known(p)'
    BY <1>1, <1>3, <1>4, <1>5 DEF Known, Settled, Sound, NoBeat
  <2>. QED BY <2>1, <2>2, <2>3 DEF Sound
<1>7. SomebodyKeeps'
  BY <1>1, <1>3, <1>5, PlaceIsKept
<1>. QED BY <1>1, <1>2, <1>5, <1>6, <1>7, LocalStep

LEMMA StopsQuietly ==
  ASSUME Quiet, NEW p \in Procs, StopBegins(p)
  PROVE  Settled'
<1>. USE DEF Quiet
<1>1. /\ UNCHANGED <<live, superseded, stray, id, stoodDown, beat, work>>
      /\ \A q \in Procs \ {p} : Unmoved(q)
  BY DEF StopBegins, TypeOK, Unmoved, hostVars
<1>2. /\ life[p] = "running" /\ life'[p] = "stopping"
      /\ loop'[p] \in {"registering", "registered", "done"}
      /\ loop'[p] # "done" => loop'[p] = loop[p] /\ loopId'[p] = loopId[p]
      /\ loop'[p] = "done" => loopId'[p] = NoId
  BY DEF StopBegins, TypeOK, Interrupted
<1>3. Held(p)' \subseteq Held(p) /\ Alive(p) /\ Alive(p)'
  BY <1>1, <1>2 DEF Held, Alive
<1>4. Sound(p)'
  BY <1>1, <1>2, <1>3 DEF Settled, Sound, Consistent, Newcomer, Known
<1>5. SomebodyKeeps'
  BY <1>1, <1>2, <1>3, PlaceIsKept
<1>. QED BY <1>1, <1>2, <1>3, <1>4, <1>5, LocalStep

LEMMA WorksQuietly ==
  ASSUME Quiet, NEW p \in Procs,
         PollSent(p) \/ PollGranted(p) \/ PollUnanswered(p) \/ TaskEnds(p)
  PROVE  Settled'
<1>. USE DEF Quiet
<1>1. /\ UNCHANGED <<live, superseded, stray, life, stoodDown, beat>>
      /\ \A q \in Procs \ {p} : Unmoved(q)
  BY DEF PollSent, PollGranted, PollUnanswered, TaskEnds, TypeOK, Unmoved, hostVars
<1>2. UNCHANGED id
  BY DEF PollSent, PollGranted, PollUnanswered, TaskEnds, TypeOK, Calm
<1>3. Alive(p) /\ Alive(p)'
  BY <1>1 DEF PollSent, PollGranted, PollUnanswered, TaskEnds, HasSlot, Alive,
              Settled, Sound, Consistent
<1>4. /\ loop[p] \in {"slot", "top"} => loopId[p] = NoId
      /\ loop[p] = "slot" => id[p] # NoId
      /\ loop[p] = "polling" => id[p] # NoId /\ loopId[p] = id[p] /\ work[p] = NoId
  BY DEF Settled, Sound, Consistent, Known
<1>5. \/ /\ loop'[p] = "polling" /\ loopId'[p] = id[p] /\ id[p] # NoId
         /\ work'[p] = NoId /\ work[p] = NoId
      \/ /\ loop'[p] \in {"top", "slot", "done"} /\ loopId'[p] = NoId /\ id[p] # NoId
         /\ work'[p] \in {work[p], id[p]}
      \/ /\ loop'[p] = loop[p] /\ loopId'[p] = loopId[p] /\ work'[p] = NoId
         /\ loop[p] # "polling"
  <2>1. CASE PollSent(p)
    BY <2>1, <1>4 DEF PollSent, HasSlot, TypeOK
  <2>2. CASE PollGranted(p)
    <3>1. loop'[p] \in {"top", "slot", "done"}
      BY <2>2 DEF PollGranted, TypeOK, Resumed
    <3>. QED BY <2>2, <3>1, <1>4 DEF PollGranted, TypeOK
  <2>3. CASE PollUnanswered(p)
    BY <2>3, <1>4 DEF PollUnanswered, TypeOK
  <2>4. CASE TaskEnds(p)
    BY <2>4, <1>4 DEF TaskEnds, TypeOK
  <2>. QED BY <2>1, <2>2, <2>3, <2>4
<1>6. Held(p)' \subseteq Held(p)
  BY <1>1, <1>2, <1>5 DEF Held
<1>7. Sound(p)'
  <2>1. Consistent(p)'
    BY <1>1, <1>2, <1>3, <1>5, <1>6 DEF Consistent, Settled, Sound, Alive
  <2>2. Newcomer(p)'
    BY <1>1, <1>2, <1>5 DEF Newcomer, Settled, Sound
  <2>3. Known(p)'
    BY <1>1, <1>2, <1>3, <1>5, <1>6 DEF Known, Settled, Sound
  <2>. QED BY <2>1, <2>2, <2>3 DEF Sound
<1>8. SomebodyKeeps'
  BY <1>1, <1>3, <1>6, PlaceIsKept
<1>. QED BY <1>1, <1>6, <1>7, <1>8, LocalStep

\* The heartbeat, up to its answer.
LEMMA BeatsQuietly ==
  ASSUME Quiet, NEW p \in Procs, BeatSent(p) \/ BeatMissed(p)
  PROVE  Settled'
<1>. USE DEF Quiet
<1>1. /\ UNCHANGED <<live, superseded, stray, life, id, stoodDown, loop, loopId, work>>
      /\ \A q \in Procs \ {p} : Unmoved(q)
  BY DEF BeatSent, BeatMissed, TypeOK, Unmoved, hostVars
<1>2. \/ beat'[p] = NoBeat /\ beat[p] # NoBeat
      \/ beat'[p].stage = "sent" /\ beat'[p].id = id[p] /\ id[p] # NoId /\ Alive(p)
  BY DEF BeatSent, BeatMissed, TypeOK
<1>3. NoBeat.id = NoId /\ NoBeat.stage = "none"
  BY DEF NoBeat
<1>4. Held(p)' \subseteq Held(p) /\ (Alive(p)' <=> Alive(p)) /\ Alive(p)
  BY <1>1, <1>2, <1>3 DEF Held, Alive, Settled, Sound, Consistent
<1>5. Sound(p)'
  <2>1. Consistent(p)'
    BY <1>1, <1>2, <1>3, <1>4 DEF Consistent, Settled, Sound
  <2>2. Newcomer(p)'
    BY <1>1, <1>2, <1>3 DEF Newcomer, Settled, Sound
  <2>3. Known(p)'
    BY <1>1, <1>2, <1>3, <1>4 DEF Known, Settled, Sound
  <2>. QED BY <2>1, <2>2, <2>3 DEF Sound
<1>6. SomebodyKeeps'
  BY <1>1, <1>2, <1>3, <1>4, PlaceIsKept
<1>. QED BY <1>1, <1>4, <1>5, <1>6, LocalStep

\* A process that is told to go was superseded, so somebody else was not.
LEMMA ToldToGo ==
  ASSUME Quiet, NEW p \in Procs, NEW i \in Held(p), i \notin live[1], Alive(p)
  PROVE  i \in superseded[1] /\ ~Keeps(p) /\ Answered(1, i) = "stand_down"
<1>1. i \in superseded[1]
  BY DEF Quiet, Settled, Sound, Known
<1>. QED BY <1>1 DEF Keeps, Answered

LEMMA HearsQuietly ==
  ASSUME Quiet, NEW p \in Procs, BeatHandled(p)
  PROVE  Settled'
<1>. USE DEF Quiet
<1>1. /\ UNCHANGED <<live, superseded, stray, life, id, stoodDown, loop, loopId, work>>
      /\ \A q \in Procs \ {p} : Unmoved(q)
  BY DEF BeatHandled, TypeOK, Unmoved, hostVars
<1>2. beat[p].stage = "sent" /\ beat[p] # NoBeat /\ beat[p].id \in Held(p) /\ Alive(p)
  BY DEF BeatHandled, NoBeat, Held, Settled, Sound, Consistent
<1>3. \/ beat'[p] = NoBeat
      \/ /\ beat[p].id \notin live[1]
         /\ beat'[p].stage = "answered" /\ beat'[p].id = beat[p].id
         /\ beat'[p].answer = Answered(1, beat[p].id)
  <2>1. beat[p].host = 1
    BY OneHost
  <2>. DEFINE answer == Answered(beat[p].host, beat[p].id)
              heard == [beat[p] EXCEPT !.stage = "answered", !.answer = answer]
  <2>2. beat[p] \in Beat
    BY DEF TypeOK
  <2>3. answer # "ok" => beat[p].id \notin live[1]
    BY <2>1 DEF Answered
  <2>4. beat' = [beat EXCEPT ![p] = IF answer = "ok" THEN NoBeat ELSE heard]
    BY Zenon DEF BeatHandled
  <2>5. answer = Answered(1, beat[p].id)
    BY <2>1
  <2>. HIDE DEF answer
  <2>6. heard.stage = "answered" /\ heard.id = beat[p].id /\ heard.answer = answer
    BY <2>2 DEF Beat
  <2>. HIDE DEF heard
  <2>. QED BY <2>3, <2>4, <2>5, <2>6 DEF TypeOK
<1>4. NoBeat.id = NoId /\ NoBeat.stage = "none"
  BY DEF NoBeat
<1>5. Held(p)' \subseteq Held(p) /\ Alive(p)'
  BY <1>1, <1>2, <1>3, <1>4 DEF Held, Alive
<1>6. beat'[p] # NoBeat => beat[p].id \in superseded[1] /\ ~Keeps(p) /\ beat'[p].answer = "stand_down"
  BY <1>2, <1>3, ToldToGo
<1>7. Sound(p)'
  <2>1. Consistent(p)'
    BY <1>1, <1>2, <1>3, <1>4, <1>5 DEF Consistent, Settled, Sound, Held
  <2>2. Newcomer(p)'
    BY <1>1, <1>2 DEF Newcomer, Settled, Sound
  <2>3. Known(p)'
    BY <1>1, <1>2, <1>3, <1>4, <1>5, <1>6 DEF Known, Settled, Sound
  <2>. QED BY <2>1, <2>2, <2>3 DEF Sound
<1>8. SomebodyKeeps'
  <2>1. CASE beat'[p] = NoBeat
    BY <2>1, <1>1, <1>2, <1>4, <1>5, PlaceIsKept
  <2>2. CASE beat'[p] # NoBeat
    BY <2>2, <1>1, <1>6, PlaceIsKept
  <2>. QED BY <2>1, <2>2
<1>. QED BY <1>1, <1>5, <1>7, <1>8, LocalStep

LEMMA GoesQuietly ==
  ASSUME Quiet, NEW p \in Procs, PollRefused(p) \/ BeatReceived(p)
  PROVE  Settled'
<1>. USE DEF Quiet
<1>1. /\ UNCHANGED <<live, superseded, stray, work>>
      /\ \A q \in Procs \ {p} : Unmoved(q)
  BY DEF PollRefused, BeatReceived, StandsDown, TypeOK, Unmoved, hostVars
<1>2. NoBeat.id = NoId /\ NoBeat.stage = "none"
  BY DEF NoBeat
<1>3. Alive(p)
  BY <1>2 DEF PollRefused, BeatReceived, Settled, Sound, Consistent
<1>4. ~Keeps(p) /\ (superseded[1] # {} \/ beat[p].stage = "answered")
  <2>1. CASE PollRefused(p)
    <3>1. loopId[p] \in Held(p) /\ loopId[p] \notin live[1]
      <4>1. Answered(1, loopId[p]) # "ok"
        BY <2>1, OneHost DEF PollRefused
      <4>2. loopId[p] # NoId
        BY <2>1 DEF PollRefused, Settled, Sound, Known
      <4>. QED BY <4>1, <4>2 DEF Held, Answered
    <3>. QED BY <3>1, <1>3, ToldToGo
  <2>2. CASE BeatReceived(p)
    BY <2>2 DEF BeatReceived, Keeps
  <2>. QED BY <2>1, <2>2
<1>5. \/ /\ stoodDown[p] /\ beat'[p] = NoBeat /\ beat[p].stage = "answered"
         /\ UNCHANGED <<life, id, stoodDown, loop, loopId>>
      \/ /\ stoodDown'[p] /\ id'[p] = NoId /\ life'[p] = "stopping"
         /\ loop'[p] = "done" /\ loopId'[p] = NoId /\ beat'[p] \in {beat[p], NoBeat}
         /\ work[p] # NoId => work[p] \in superseded[1]
  <2>1. CASE PollRefused(p)
    <3>1. StandsDown(p) /\ beat' = beat /\ loop[p] = "polling"
      <4>1. loopId[p] \in Held(p)
        BY <2>1 DEF PollRefused, Settled, Sound, Known, Held
      <4>2. Answered(1, loopId[p]) # "reregister"
        BY <4>1, <1>3 DEF Answered, Settled, Sound, Known
      <4>. QED BY <2>1, <4>2, OneHost DEF PollRefused
    <3>2. work[p] = NoId
      BY <3>1 DEF Settled, Sound, Consistent
    <3>. QED BY <3>1, <3>2 DEF StandsDown, Interrupted, TypeOK
  <2>2. CASE BeatReceived(p) /\ ~stoodDown[p]
    <3>1. /\ beat[p].stage = "answered" /\ beat[p] # NoBeat
          /\ beat[p].answer = "stand_down" /\ beat[p].id \in superseded[1]
      BY <2>2, <1>2 DEF BeatReceived, Settled, Sound, Known
    <3>2. StandsDown(p) /\ beat'[p] = NoBeat
      BY <2>2, <3>1 DEF BeatReceived, TypeOK
    <3>3. loop[p] \notin {"registering", "registered"}
      BY <3>1 DEF Settled, Sound, Newcomer
    <3>4. work[p] # NoId => work[p] \in superseded[1]
      BY <3>1 DEF Settled, Sound, Known
    <3>. QED BY <3>2, <3>3, <3>4 DEF StandsDown, Interrupted, TypeOK
  <2>3. CASE BeatReceived(p) /\ stoodDown[p]
    <3>1. beat[p].stage = "answered" /\ beat[p].answer = "stand_down"
      BY <2>3 DEF BeatReceived, Settled, Sound, Known
    <3>. QED BY <2>3, <3>1 DEF BeatReceived, TypeOK
  <2>. QED BY <2>1, <2>2, <2>3
<1>6. Held(p)' \subseteq Held(p) /\ Alive(p)' /\ stoodDown'[p]
  BY <1>2, <1>3, <1>5 DEF Held, Alive
<1>7. Sound(p)'
  <2>1. Consistent(p)'
    BY <1>1, <1>2, <1>5, <1>6 DEF Consistent, Settled, Sound, Alive
  <2>2. Newcomer(p)'
    BY <1>1, <1>5 DEF Newcomer, Settled, Sound
  <2>3. Known(p)'
    BY <1>1, <1>2, <1>3, <1>5, <1>6 DEF Known, Settled, Sound
  <2>. QED BY <2>1, <2>2, <2>3 DEF Sound
<1>8. SomebodyKeeps'
  BY <1>1, <1>4, PlaceIsKept
<1>9. life'[p] # "gone" /\ life[p] # "gone"
  BY <1>3, <1>6 DEF Alive
<1>. QED BY <1>1, <1>6, <1>7, <1>8, <1>9, LocalStep

\* A registration takes the place for a new id.  Its process, or the one that
\* sent it and stopped, has not been told to go.
LEMMA PlaceIsTaken ==
  ASSUME Quiet, NEW p \in Procs, Registers(1),
         \A q \in Procs \ {p} : Unmoved(q),
         Held(p)' \subseteq Held(p) \cup {Fresh}, Sound(p)', Keeps(p)', StrayLeft'
  PROVE  Settled'
<1>. USE DEF Quiet
<1>1. Fresh \in Ids \ Used
  BY FreshIs DEF Registers
<1>2. live'[1] = {Fresh} /\ superseded'[1] = (superseded[1] \cup live[1]) \cap Used
  BY OneHost DEF Registers, TypeOK
<1>3. \A q \in Procs : Held(q) \subseteq Used
  BY InUse DEF Held
<1>4. ASSUME NEW q \in Procs \ {p} PROVE Sound(q)' /\ Held(q)' = Held(q)
  <2>1. Held(q) \cap live[1] \subseteq live'[1] \cup superseded'[1]
    BY <1>2, <1>3
  <2>2. Used \cap superseded[1] \subseteq superseded'[1]
    BY <1>2
  <2>. QED BY <2>1, <2>2, Bystander DEF Settled
<1>5. OwnIds'
  BY <1>1, <1>3, <1>4 DEF Settled, OwnIds
<1>6. SomebodyKeeps'
  BY DEF SomebodyKeeps
<1>. QED BY <1>4, <1>5, <1>6 DEF Settled

LEMMA RegisteredQuietly ==
  ASSUME Quiet, NEW p \in Procs, RegisterHandled(p)
  PROVE  Settled'
<1>. USE DEF Quiet
<1>1. /\ UNCHANGED <<stray, life, id, stoodDown, beat, work>>
      /\ \A q \in Procs \ {p} : Unmoved(q)
      /\ loop[p] = "registering" /\ Alive(p)
      /\ loop'[p] = "registered" /\ loopId'[p] = Fresh
  BY DEF RegisterHandled, TypeOK, Unmoved
<1>2. Registers(1)
  BY OneHost DEF RegisterHandled
<1>3. live'[1] = {Fresh} /\ Fresh # NoId
  BY <1>2, OneHost DEF Registers, TypeOK
<1>4. id[p] = NoId /\ beat[p] = NoBeat /\ ~stoodDown[p] /\ work[p] = NoId
  BY <1>1 DEF Settled, Sound, Newcomer
<1>5. Held(p)' = {Fresh} /\ Alive(p)'
  BY <1>1, <1>3, <1>4 DEF Held, NoBeat, Alive
<1>6. Sound(p)'
  <2>1. Consistent(p)'
    BY <1>1, <1>4, <1>5 DEF Consistent, Settled, Sound
  <2>2. Newcomer(p)'
    BY <1>1, <1>4 DEF Newcomer
  <2>3. Known(p)'
    BY <1>1, <1>3, <1>4, <1>5 DEF Known, NoBeat
  <2>. QED BY <2>1, <2>2, <2>3 DEF Sound
<1>7. Keeps(p)'
  BY <1>1, <1>3, <1>4, <1>5 DEF Keeps, NoBeat, Alive
<1>8. StrayLeft'
  BY <1>1 DEF Settled, StrayLeft
<1>. QED BY <1>1, <1>2, <1>5, <1>6, <1>7, <1>8, PlaceIsTaken

LEMMA StraysQuietly ==
  ASSUME Quiet, NEW p \in Procs, StrayHandled(p, 1)
  PROVE  Settled'
<1>. USE DEF Quiet
<1>1. /\ UNCHANGED <<life, id, stoodDown, loop, loopId, beat, work>>
      /\ \A q \in Procs : Unmoved(q)
      /\ stray' \subseteq stray
      /\ Registers(1) \/ UNCHANGED <<live, superseded>>
  BY DEF StrayHandled, procVars, hostVars, Unmoved
<1>2. life[p] = "gone" /\ ~stoodDown[p] /\ ~Alive(p)
  BY OneHost DEF StrayHandled, Settled, StrayLeft, Alive
<1>3. Held(p) = {} /\ beat[p] = NoBeat /\ work[p] = NoId
  BY <1>2 DEF Settled, Sound, Consistent
<1>4. Held(p)' = {} /\ ~Alive(p)'
  BY <1>1, <1>2, <1>3 DEF Held, Alive
<1>5. Sound(p)'
  <2>1. Consistent(p)'
    <3>1. Unmoved(p) /\ Consistent(p)
      BY <1>1 DEF Settled, Sound
    <3>. QED BY <3>1, <1>2, <1>4, Zenon DEF Consistent, Unmoved, Held, Alive
  <2>2. Newcomer(p)'
    BY <1>1 DEF Settled, Sound, Newcomer
  <2>3. Known(p)'
    BY <1>1, <1>3, <1>4 DEF Settled, Sound, Known, NoBeat
  <2>. QED BY <2>1, <2>2, <2>3 DEF Sound
<1>6. Keeps(p)'
  BY <1>1, <1>2, <1>3, <1>4 DEF Keeps, NoBeat
<1>7. StrayLeft'
  BY <1>1 DEF Settled, StrayLeft
<1>8. CASE Registers(1)
  BY <1>1, <1>4, <1>5, <1>6, <1>7, <1>8, PlaceIsTaken
<1>9. CASE UNCHANGED <<live, superseded>>
  <2>1. \A q \in Procs : Sound(q)' /\ Held(q)' = Held(q)
    BY <1>1, <1>9, Bystander DEF Settled
  <2>2. SomebodyKeeps'
    BY <1>6 DEF SomebodyKeeps
  <2>. QED BY <2>1, <2>2, <1>7 DEF Settled, OwnIds
<1>. QED BY <1>1, <1>8, <1>9

\* A process that is over leaves the others what they hold.
LEMMA EndsQuietly ==
  ASSUME Quiet, NEW p \in Procs, Ending(p)
  PROVE  Settled'
<1>. USE DEF Quiet
<1>1. /\ Gone(p) /\ superseded' = superseded /\ life[p] = "stopping"
      /\ stoodDown[p] => loop[p] = "done" /\ live' = live
      /\ live'[1] \in {live[1], live[1] \ {id[p]}}
  BY OneHost DEF Ending, StopEnds, StandDownEnds, Deregisters, hostVars, TypeOK
<1>2. /\ \A q \in Procs \ {p} : Unmoved(q)
      /\ life'[p] = "gone" /\ id'[p] = NoId /\ loop'[p] = "done" /\ loopId'[p] = NoId
      /\ beat'[p] = NoBeat /\ work'[p] = NoId /\ UNCHANGED stoodDown
  BY <1>1 DEF Gone, Unmoved, TypeOK
<1>3. Held(p)' = {} /\ ~Alive(p)' /\ Alive(p)
  BY <1>1, <1>2 DEF Held, NoBeat, Alive
<1>4. Sound(p)'
  BY <1>2, <1>3 DEF Sound, Consistent, Newcomer, Known, NoBeat
<1>5. ASSUME NEW q \in Procs \ {p} PROVE Held(q) \cap live[1] \subseteq live'[1]
  <2>1. NoId \notin Held(q)
    BY DEF Held
  <2>2. id[p] \notin Held(q)
    BY <2>1 DEF Held, Settled, OwnIds
  <2>. QED BY <2>2, <1>1
<1>6. ASSUME NEW q \in Procs \ {p} PROVE Sound(q)' /\ Held(q)' = Held(q)
  BY <1>1, <1>2, <1>5, Bystander DEF Settled
<1>7. OwnIds'
  BY <1>3, <1>6 DEF Settled, OwnIds
<1>8. StrayLeft'
  <2>1. stray' \in {stray, stray \cup {<<p, at[p]>>}} /\ (stoodDown[p] => stray' = stray)
    BY <1>1 DEF Gone
  <2>2. \A q \in Procs \ {p} : life'[q] = life[q]
    BY <1>2 DEF Unmoved
  <2>3. \A h \in Hosts : <<p, h>> \notin stray
    BY <1>1 DEF Settled, StrayLeft
  <2>. QED BY <1>2, <2>1, <2>2, <2>3 DEF Settled, StrayLeft
<1>9. SomebodyKeeps'
  <2>1. CASE ~stoodDown[p]
    BY <2>1, <1>2, <1>3 DEF SomebodyKeeps, Keeps, NoBeat
  <2>2. CASE stoodDown[p]
    <3>1. PICK q \in Procs : Keeps(q)
      BY <2>2 DEF Settled, SomebodyKeeps
    <3>2. q # p
      BY <2>2, <3>1 DEF Keeps
    <3>. QED BY <3>1, <3>2, <1>2, <1>5, StillKeeps DEF SomebodyKeeps
  <2>. QED BY <2>1, <2>2
<1>. QED BY <1>4, <1>6, <1>7, <1>8, <1>9 DEF Settled

LEMMA HostQuietly ==
  ASSUME Quiet, HostStarts(1) \/ (\E i \in Ids : Prune(1, i)) \/ UNCHANGED vars
  PROVE  Settled'
<1>. USE DEF Quiet
<1>1. /\ UNCHANGED <<superseded, stray, life, id, stoodDown, loop, loopId, beat, work>>
      /\ \A q \in Procs : Unmoved(q)
  BY DEF HostStarts, Prune, vars, hostVars, procVars, Unmoved
<1>2. ASSUME NEW q \in Procs, Alive(q) PROVE Held(q) \cap live[1] \subseteq live'[1]
  BY <1>2, OneHost DEF HostStarts, Prune, Held, TypeOK, vars, hostVars
<1>3. \A q \in Procs : Sound(q)' /\ Held(q)' = Held(q)
  BY <1>1, <1>2, Bystander DEF Settled
<1>4. SomebodyKeeps'
  <2>1. ASSUME NEW q \in Procs, Keeps(q) PROVE SomebodyKeeps'
    BY <2>1, <1>1, <1>2, StillKeeps DEF SomebodyKeeps
  <2>. QED BY <2>1, <1>1 DEF Settled, SomebodyKeeps
<1>. QED BY <1>1, <1>3, <1>4 DEF Settled, OwnIds, StrayLeft
----------------------------------------------------------------------------
LEMMA SettledStays == Quiet /\ [Next]_vars => Settled'
<1>. SUFFICES ASSUME Quiet, [Next]_vars PROVE Settled'
  OBVIOUS
<1>1. CASE UNCHANGED vars
  BY <1>1, HostQuietly
<1>2. ASSUME NEW p \in Procs, ~ProcCrashes(p), ~ReturnsToPrimary(p),
             \/ ProcStarts(p) \/ Registering(p) \/ RegisterUnanswered(p)
             \/ StopBegins(p) \/ Ending(p) \/ ProcCrashes(p)
             \/ Polling(p) \/ PollUnanswered(p) \/ TaskEnds(p) \/ ReturnsToPrimary(p)
             \/ BeatSent(p) \/ Beating(p) \/ BeatMissed(p)
      PROVE  Settled'
  BY <1>2, StartsQuietly, RegistersQuietly, RegisteredQuietly, StopsQuietly, EndsQuietly,
     WorksQuietly, GoesQuietly, BeatsQuietly, HearsQuietly, Zenon
  DEF Registering, Polling, Beating
<1>3. \A p \in Procs : ~ProcCrashes(p) /\ ~ReturnsToPrimary(p)
  BY NoTrouble, OneHost DEF Quiet, ProcCrashes, ReturnsToPrimary
<1>4. ASSUME NEW h \in Hosts,
             \/ HostStops(h) \/ HostStarts(h)
             \/ \E i \in Ids : Prune(h, i)
             \/ \E p \in Procs : StrayHandled(p, h)
      PROVE  Settled'
  <2>1. h = 1 /\ ~HostStops(h)
    BY OneHost, NoTrouble DEF Quiet, HostStops
  <2>. QED BY <1>4, <2>1, HostQuietly, StraysQuietly
<1>. QED BY <1>1, <1>2, <1>3, <1>4, Zenon DEF Next

\* Trouble is counted and never taken back.
LEMMA TroubleGrows ==
  ASSUME [Next]_vars
  PROVE  UNCHANGED trouble \/ Trouble
<1>1. ASSUME NEW h, Unanswered(h) PROVE UNCHANGED trouble \/ Trouble
  BY <1>1, Zenon DEF Unanswered
<1>2. ASSUME NEW p, Deregisters(p) PROVE UNCHANGED trouble \/ Trouble
  BY <1>1, <1>2, Zenon DEF Deregisters
<1>3. CASE UNCHANGED vars
  BY <1>3 DEF vars
<1>4. ASSUME NEW p \in Procs,
             \/ ProcStarts(p) \/ Registering(p) \/ RegisterUnanswered(p)
             \/ StopBegins(p) \/ Ending(p) \/ ProcCrashes(p)
      PROVE  UNCHANGED trouble \/ Trouble
  BY <1>1, <1>2, <1>4, Zenon DEF ProcStarts, Registering, RegisterSent, RegisterHandled,
     RegisterReceived, RegisterUnanswered, StopBegins, Ending, StopEnds, StandDownEnds, ProcCrashes
<1>5. ASSUME NEW p \in Procs,
             \/ Polling(p) \/ PollUnanswered(p) \/ TaskEnds(p) \/ ReturnsToPrimary(p)
             \/ BeatSent(p) \/ Beating(p) \/ BeatMissed(p)
      PROVE  UNCHANGED trouble \/ Trouble
  BY <1>1, <1>2, <1>5, Zenon DEF Polling, PollSent, PollGranted, PollRefused, PollUnanswered,
     TaskEnds, ReturnsToPrimary, BeatSent, Beating, BeatHandled, BeatReceived, BeatMissed
<1>6. ASSUME NEW h \in Hosts,
             \/ HostStops(h) \/ HostStarts(h)
             \/ \E i \in Ids : Prune(h, i)
             \/ \E p \in Procs : StrayHandled(p, h)
      PROVE  UNCHANGED trouble \/ Trouble
  BY <1>6, Zenon DEF HostStops, HostStarts, Prune, StrayHandled
<1>. QED BY <1>3, <1>4, <1>5, <1>6, Zenon DEF Next

LEMMA SessionsInductive == SessionsInv /\ [Next]_vars => SessionsInv'
<1>. SUFFICES ASSUME SessionsInv, [Next]_vars PROVE SessionsInv'
  OBVIOUS
<1>1. TypeOK'
  BY SessionsTypes DEF SessionsInv
<1>2. ASSUME Calm' PROVE Settled'
  <2>1. Calm
    BY <1>2, TroubleGrows, TroubleTypes DEF SessionsInv, Calm
  <2>. QED BY <1>2, <2>1, SettledStays DEF SessionsInv, Quiet
<1>. QED BY <1>1, <1>2 DEF SessionsInv

LEMMA SessionsInvHolds == Spec => []SessionsInv
<1>1. Init => SessionsInv
  BY SessionsInitially, SettledInitially DEF SessionsInv
<1>. QED BY <1>1, SessionsInductive, PTL DEF Spec

\* The registrations, the processes and what they have under way keep their
\* types: whatever is lost, a walk along hostUrls stays in the list
\* (src/agent/agent.js, #register).
THEOREM SessionsTypeCorrect == Spec => []TypeOK
<1>1. SessionsInv => TypeOK
  BY DEF SessionsInv
<1>. QED BY <1>1, SessionsInvHolds, PTL

\* However many processes are started on a machine, one that stands down
\* leaves another that does not (src/host/registry.js, register; src/agent/
\* agent.js, #standDown), while its one coordinator answers and nothing crashes.
THEOREM SomebodySurvives == Spec => []Survivor
<1>1. SessionsInv => Survivor
  <2>. SUFFICES ASSUME SessionsInv, Calm, NEW p \in Procs, stoodDown[p]
                PROVE  \E q \in Procs \ {p} : life[q] # "off" /\ ~stoodDown[q]
    BY DEF Survivor, Calm
  <2>1. PICK q \in Procs : Keeps(q)
    BY DEF SessionsInv, Settled, SomebodyKeeps
  <2>. QED BY <2>1 DEF Keeps
<1>. QED BY <1>1, SessionsInvHolds, PTL

\* In the same circumstances a report is heard, or turned away because the
\* place of its process was taken (src/agent/agent.js, #report; src/host/
\* server.js, the agent plane): stopping costs no result.
THEOREM ReportsAreHeard == Spec => ReportsHeard
<1>. DEFINE Heard ==
       trouble = 0 /\ NumHosts = 1 =>
         \A p \in Procs :
           work[p] # NoId /\ work'[p] # work[p] /\ life'[p] # "gone"
             => \/ id[p] = work[p] /\ work[p] \in live[1]
                \/ work[p] \in superseded[1]
<1>1. SessionsInv => Heard
  <2>. SUFFICES ASSUME SessionsInv, Calm, NEW p \in Procs, work[p] # NoId
                PROVE  \/ id[p] = work[p] /\ work[p] \in live[1]
                       \/ work[p] \in superseded[1]
    BY DEF Calm
  <2>1. Alive(p)
    BY DEF SessionsInv, Settled, Sound, Consistent
  <2>2. work[p] \in superseded[1] \/ work[p] = id[p]
    BY DEF SessionsInv, Settled, Sound, Known
  <2>3. id[p] # NoId => id[p] \in live[1] \cup superseded[1]
    BY <2>1 DEF SessionsInv, Settled, Sound, Known, Held
  <2>. QED BY <2>2, <2>3
<1>2. Spec => [][Heard]_vars
  <2>. HIDE DEF Heard
  <2>. QED BY <1>1, SessionsInvHolds, PTL
<1>. QED BY <1>2, Zenon DEF ReportsHeard
=============================================================================
