-------------------------- MODULE TaskQueueProofs --------------------------
(***************************************************************************)
(* Proofs about TaskQueue for every fleet, every set of tasks and every    *)
(* bound: type correctness, the invariants of the queue, of who may be     *)
(* attached and of what agents are charged with, and that each task has    *)
(* the life TaskLifecycle gives it.                                        *)
(***************************************************************************)
EXTENDS TaskQueue, FiniteSums, SequenceTheorems
----------------------------------------------------------------------------
(* What each method of the registry returns: a registry, except for the    *)
(* registration routes one that leaves alone who is attached; and what it  *)
(* charges an agent with follows the set of tasks the agent holds.         *)

\* admit and release, on one record, produce a record: the counters stay
\* natural numbers because release subtracts with a floor of zero.
LEMMA RecordType ==
  ASSUME NEW rec \in Record, NEW need \in Nat
  PROVE  /\ Charged(rec, need) \in Record
         /\ Settled(rec, need) \in Record
<1>1. /\ rec.memory \in Nat /\ rec.against \in Nat
      /\ rec.inFlight \in Nat /\ rec.reserved \in Nat
  BY RegistryAssumption DEF Record, Memory
<1>2. Charged(rec, need) \in Record
  <2> DEFINE anchor == IF need > 0 /\ rec.reserved = 0 THEN rec.memory
                       ELSE rec.against
  <2>1. anchor \in Nat /\ rec.inFlight + 1 \in Nat /\ rec.reserved + need \in Nat
    BY <1>1
  <2>2. Charged(rec, need) = [rec EXCEPT !.inFlight = rec.inFlight + 1,
                                         !.reserved = rec.reserved + need,
                                         !.against  = anchor]
    BY DEF Charged
  <2> HIDE DEF anchor
  <2> QED BY <2>1, <2>2 DEF Record
<1>3. Settled(rec, need) \in Record
  <2> DEFINE anchor == IF need > 0 /\ rec.reserved <= need THEN 0
                       ELSE rec.against
             leases == Monus(rec.inFlight, 1)
             promised == Monus(rec.reserved, need)
  <2>1. anchor \in Nat /\ leases \in Nat /\ promised \in Nat
    BY <1>1 DEF Monus
  <2>2. Settled(rec, need) = [rec EXCEPT !.inFlight = leases,
                                         !.reserved = promised,
                                         !.against  = anchor]
    BY DEF Settled
  <2> HIDE DEF anchor, leases, promised
  <2> QED BY <2>1, <2>2 DEF Record
<1> QED BY <1>2, <1>3

\* Neither changes whether the agent is attached.
LEMMA RecordState ==
  ASSUME NEW rec \in Record, NEW need \in Nat
  PROVE  /\ Charged(rec, need).state = rec.state
         /\ Settled(rec, need).state = rec.state
BY DEF Charged, Settled, Record

LEMMA BlankType ==
  ASSUME NEW s \in {"new", "live", "superseded", "gone"}
  PROVE  /\ Blank(s) \in Record
         /\ Blank(s).state = s
BY RegistryAssumption DEF Blank, Record, Memory

\* register, with its supersession of what the same worker left behind.
LEMMA RegisteredType ==
  ASSUME NEW r \in [Agents -> Record], NEW a \in Agents, NEW m \in Memory
  PROVE  Registered(r, a, m) \subseteq [Agents -> Record]
<1>1. [Blank("live") EXCEPT !.memory = m] \in Record
  BY BlankType DEF Record
<1>2. Blank("superseded") \in Record
  BY BlankType
<1> DEFINE added == [r EXCEPT ![a] = [Blank("live") EXCEPT !.memory = m]]
<1>3. added \in [Agents -> Record]
  BY <1>1
<1> HIDE DEF added
<1>4. \A b \in Agents : [added EXCEPT ![b] = Blank("superseded")] \in [Agents -> Record]
  BY <1>2, <1>3
<1>5. LiveInstances(r, a) \subseteq Agents
  BY DEF LiveInstances, Live
<1>6. Registered(r, a, m) =
        IF LiveInstances(r, a) = {} THEN {added}
        ELSE {[added EXCEPT ![b] = Blank("superseded")] : b \in LiveInstances(r, a)}
  BY DEF Registered, added
<1> QED BY <1>3, <1>4, <1>5, <1>6

\* deregister and prune.
LEMMA DroppedType ==
  ASSUME NEW r \in [Agents -> Record], NEW ids \in SUBSET Agents
  PROVE  Dropped(r, ids) \in [Agents -> Record]
BY BlankType DEF Dropped

\* The same two registries, compared by who is attached.
SameStates(r, s) == \A a \in Agents : s[a].state = r[a].state

LEMMA ReportedType ==
  ASSUME NEW r \in [Agents -> Record], NEW a \in Agents, NEW m \in Memory
  PROVE  /\ Reported(r, a, m) \in [Agents -> Record]
         /\ SameStates(r, Reported(r, a, m))
BY DEF Reported, Record, SameStates

LEMMA AdmittedType ==
  ASSUME NEW r \in [Agents -> Record], NEW a \in Agents, NEW t \in Tasks
  PROVE  /\ Admitted(r, a, t) \in [Agents -> Record]
         /\ SameStates(r, Admitted(r, a, t))
<1>1. Needs[t] \in Nat /\ r[a] \in Record
  BY RegistryAssumption
<1>2. /\ Charged(r[a], Needs[t]) \in Record
      /\ Charged(r[a], Needs[t]).state = r[a].state
  BY <1>1, RecordType, RecordState
<1> QED BY <1>2 DEF Admitted, SameStates

LEMMA ReleasedType ==
  ASSUME NEW r \in [Agents -> Record], NEW a \in Agents, NEW t \in Tasks
  PROVE  /\ Released(r, a, t) \in [Agents -> Record]
         /\ SameStates(r, Released(r, a, t))
<1>1. Needs[t] \in Nat /\ r[a] \in Record
  BY RegistryAssumption
<1>2. /\ Settled(r[a], Needs[t]) \in Record
      /\ Settled(r[a], Needs[t]).state = r[a].state
  BY <1>1, RecordType, RecordState
<1> QED BY <1>2 DEF Released, SameStates
----------------------------------------------------------------------------
(* What the registry charges an agent with.                                *)

\* The record charges its agent with exactly the leases in H.
Ledger(rec, H) ==
  /\ rec.inFlight = Cardinality(H)
  /\ rec.reserved = SumOf(Needs, H)

LEMMA NoLeases ==
  /\ IsFiniteSet({})
  /\ \A s : Ledger(Blank(s), {})
<1>1. SumOf(Needs, {}) = 0
  BY SumTaken, RegistryAssumption
<1>2. Cardinality({}) = 0 /\ IsFiniteSet({})
  BY FS_EmptySet
<1> QED BY <1>1, <1>2 DEF Ledger, Blank

LEMMA ChargedLedger ==
  ASSUME NEW rec \in Record, NEW H \in SUBSET Tasks, IsFiniteSet(H),
         NEW t \in Tasks \ H, Ledger(rec, H)
  PROVE  Ledger(Charged(rec, Needs[t]), H \cup {t})
<1>1. Cardinality(H \cup {t}) = Cardinality(H) + 1
  BY FS_AddElement
<1>2. SumOf(Needs, H \cup {t}) = Needs[t] + SumOf(Needs, H)
  <2>1. IsFiniteSet(H \cup {t}) /\ H \cup {t} \in SUBSET Tasks
    BY FS_AddElement
  <2>2. t \in H \cup {t} /\ (H \cup {t}) \ {t} = H
    OBVIOUS
  <2> QED BY <2>1, <2>2, SumTaken, RegistryAssumption
<1>3. SumOf(Needs, H) \in Nat /\ Needs[t] \in Nat
  BY SumTaken, RegistryAssumption
<1>4. /\ Charged(rec, Needs[t]).inFlight = rec.inFlight + 1
      /\ Charged(rec, Needs[t]).reserved = rec.reserved + Needs[t]
  BY DEF Charged, Record
<1> QED BY <1>1, <1>2, <1>3, <1>4 DEF Ledger

LEMMA SettledLedger ==
  ASSUME NEW rec \in Record, NEW H \in SUBSET Tasks, IsFiniteSet(H),
         NEW t \in H, Ledger(rec, H)
  PROVE  Ledger(Settled(rec, Needs[t]), H \ {t})
<1>1. /\ Cardinality(H \ {t}) \in Nat
      /\ Cardinality(H) = Cardinality(H \ {t}) + 1
  BY OneLess
<1>2. /\ SumOf(Needs, H) = Needs[t] + SumOf(Needs, H \ {t})
      /\ SumOf(Needs, H \ {t}) \in Nat /\ Needs[t] \in Nat
  <2>1. IsFiniteSet(H \ {t})
    BY OneLess
  <2> QED BY <2>1, SumTaken, RegistryAssumption
<1>3. /\ Settled(rec, Needs[t]).inFlight = Monus(rec.inFlight, 1)
      /\ Settled(rec, Needs[t]).reserved = Monus(rec.reserved, Needs[t])
  BY DEF Settled, Record
<1> QED BY <1>1, <1>2, <1>3 DEF Ledger, Monus

\* Every attached agent is charged with what it holds, and an id that has
\* not been given out yet holds nothing.
Balanced(r, held) ==
  \A a \in Agents :
    /\ held[a] \in SUBSET Tasks /\ IsFiniteSet(held[a])
    /\ r[a].state = "new" => held[a] = {}
    /\ Knows(r, a) => Ledger(r[a], held[a])

\* A lease begins: a comes to hold t and is charged with it.
LEMMA AdmittedBalanced ==
  ASSUME NEW r \in [Agents -> Record], NEW held \in [Agents -> SUBSET Tasks],
         Balanced(r, held), NEW a \in Agents, Knows(r, a),
         NEW t \in Tasks, t \notin held[a]
  PROVE  Balanced(Admitted(r, a, t), [held EXCEPT ![a] = @ \cup {t}])
<1> DEFINE s == Admitted(r, a, t)
           now == [held EXCEPT ![a] = @ \cup {t}]
<1>1. s = [r EXCEPT ![a] = Charged(r[a], Needs[t])]
  BY DEF Admitted
<1>2. now[a] = held[a] \cup {t} /\ \A b \in Agents \ {a} : now[b] = held[b]
  OBVIOUS
<1>3. s[a] = Charged(r[a], Needs[t]) /\ \A b \in Agents \ {a} : s[b] = r[b]
  BY <1>1
<1> HIDE DEF s, now
<1>4. s[a].state = "live"
  BY <1>3, RecordState, RegistryAssumption DEF Knows
<1>5. Ledger(s[a], now[a]) /\ IsFiniteSet(now[a])
  <2>1. /\ held[a] \in SUBSET Tasks /\ IsFiniteSet(held[a])
        /\ Ledger(r[a], held[a]) /\ r[a] \in Record
    BY DEF Balanced
  <2>2. Ledger(Charged(r[a], Needs[t]), held[a] \cup {t})
    BY <2>1, ChargedLedger
  <2>3. IsFiniteSet(held[a] \cup {t})
    BY <2>1, FS_AddElement
  <2> QED BY <1>2, <1>3, <2>2, <2>3
<1>6. \A b \in Agents \ {a} : Knows(s, b) => Knows(r, b)
  BY <1>3 DEF Knows
<1> QED BY <1>2, <1>3, <1>4, <1>5, <1>6 DEF Balanced, s, now

\* A lease ends: its holder no longer holds t, and is credited with it if it
\* is still attached.
LEMMA ReleasedBalanced ==
  ASSUME NEW r \in [Agents -> Record], NEW held \in [Agents -> SUBSET Tasks],
         Balanced(r, held), NEW a \in Agents, NEW t \in held[a]
  PROVE  Balanced(Released(r, a, t), [held EXCEPT ![a] = @ \ {t}])
<1> DEFINE s == Released(r, a, t)
           now == [held EXCEPT ![a] = @ \ {t}]
<1>1. now[a] = held[a] \ {t} /\ \A b \in Agents \ {a} : now[b] = held[b]
  OBVIOUS
<1>2. /\ s[a] = IF Knows(r, a) THEN Settled(r[a], Needs[t]) ELSE r[a]
      /\ \A b \in Agents \ {a} : s[b] = r[b]
  BY DEF Released
<1>3. t \in Tasks /\ Needs[t] \in Nat
  BY RegistryAssumption
<1>4. s[a].state = r[a].state
  BY <1>2, <1>3, RecordState
<1> HIDE DEF s, now
<1>5. Knows(s, a) => Ledger(s[a], now[a])
  <2>1. held[a] \in SUBSET Tasks /\ IsFiniteSet(held[a]) /\ r[a] \in Record
    BY DEF Balanced
  <2>2. ASSUME Knows(s, a)
        PROVE  Ledger(s[a], now[a])
    <3>1. Knows(r, a) /\ Ledger(r[a], held[a])
      BY <1>4, <2>2 DEF Balanced, Knows
    <3>2. Ledger(Settled(r[a], Needs[t]), held[a] \ {t})
      BY <2>1, <3>1, SettledLedger
    <3> QED BY <1>1, <1>2, <3>1, <3>2
  <2> QED BY <2>2
<1>6. IsFiniteSet(now[a])
  BY <1>1, FS_RemoveElement DEF Balanced
<1>7. \A b \in Agents \ {a} : Knows(s, b) => Knows(r, b)
  BY <1>2 DEF Knows
<1> QED BY <1>1, <1>2, <1>4, <1>5, <1>6, <1>7 DEF Balanced, s, now

LEMMA ReportedBalanced ==
  ASSUME NEW r \in [Agents -> Record], NEW held, Balanced(r, held),
         NEW a \in Agents, NEW m
  PROVE  Balanced(Reported(r, a, m), held)
<1> DEFINE s == Reported(r, a, m)
<1>1. \A b \in Agents : /\ s[b].state = r[b].state
                        /\ s[b].inFlight = r[b].inFlight
                        /\ s[b].reserved = r[b].reserved
  BY DEF Reported, Record
<1> HIDE DEF s
<1> QED BY <1>1 DEF Balanced, Ledger, Knows, s

LEMMA DroppedBalanced ==
  ASSUME NEW r \in [Agents -> Record], NEW held, Balanced(r, held),
         NEW ids \in SUBSET Agents
  PROVE  Balanced(Dropped(r, ids), held)
BY DEF Balanced, Dropped, Blank, Knows

\* A new registration starts with an empty ledger; the one it takes over from
\* leaves the registry with what it holds.
LEMMA RegisteredBalanced ==
  ASSUME NEW r \in [Agents -> Record], NEW held, Balanced(r, held),
         NEW a \in Agents, r[a].state = "new", NEW m \in Memory,
         NEW s \in Registered(r, a, m)
  PROVE  Balanced(s, held)
<1> DEFINE added == [r EXCEPT ![a] = [Blank("live") EXCEPT !.memory = m]]
<1>1. \/ s = added
      \/ \E b \in Live(r) \ {a} : s = [added EXCEPT ![b] = Blank("superseded")]
  BY DEF Registered, LiveInstances
<1>2. Balanced(added, held)
  <2>1. Ledger(added[a], held[a])
    <3>1. held[a] = {}
      BY DEF Balanced
    <3>2. added[a].inFlight = Blank("live").inFlight
          /\ added[a].reserved = Blank("live").reserved
      BY DEF Blank
    <3> QED BY <3>1, <3>2, NoLeases DEF Ledger
  <2>2. added[a].state = "live"
    BY DEF Blank
  <2>3. \A b \in Agents \ {a} : added[b] = r[b]
    OBVIOUS
  <2> HIDE DEF added
  <2> QED BY <2>1, <2>2, <2>3 DEF Balanced, Knows
<1>3. added \in [Agents -> Record]
  BY BlankType DEF Record
<1>4. ASSUME NEW b \in Agents
      PROVE  Balanced([added EXCEPT ![b] = Blank("superseded")], held)
  <2> HIDE DEF added
  <2> QED BY <1>2, <1>3 DEF Balanced, Knows, Blank
<1> QED BY <1>1, <1>2, <1>4 DEF Live
----------------------------------------------------------------------------
(* Sequences that list a set, each element once: what pending and          *)
(* finishedOrder are, and what push and splice do to such a list.          *)

Lists(s, S) == ToSet(s) = S /\ IsInjective(s)

\* push.
LEMMA AppendLists ==
  ASSUME NEW T, NEW s \in Seq(T), NEW e \in T
  PROVE  /\ Append(s, e) \in Seq(T)
         /\ Len(Append(s, e)) = Len(s) + 1
         /\ \A i \in 1 .. Len(s) : Append(s, e)[i] = s[i]
         /\ \A S : Lists(s, S) /\ e \notin S => Lists(Append(s, e), S \cup {e})
<1> DEFINE q == Append(s, e)
<1>1. /\ q \in Seq(T)
      /\ Len(q) = Len(s) + 1
      /\ \A i \in 1 .. Len(s) : q[i] = s[i]
      /\ q[Len(s) + 1] = e
  BY AppendProperties
<1> HIDE DEF q
<1>2. Len(s) \in Nat /\ DOMAIN s = 1 .. Len(s) /\ DOMAIN q = 1 .. Len(s) + 1
  BY <1>1
<1>3. ASSUME NEW S, Lists(s, S), e \notin S
      PROVE  Lists(q, S \cup {e})
  <2>1. ToSet(q) = ToSet(s) \cup {e}
    BY <1>1, <1>2 DEF ToSet
  <2>2. \A i \in 1 .. Len(s) : s[i] # e
    BY <1>2, <1>3 DEF Lists, ToSet
  <2>3. IsInjective(q)
    BY <1>1, <1>2, <1>3, <2>2 DEF Lists, IsInjective
  <2> QED BY <1>3, <2>1, <2>3 DEF Lists
<1> QED BY <1>1, <1>3 DEF q

\* splice of one position.
LEMMA RemoveAtLists ==
  ASSUME NEW T, NEW s \in Seq(T), NEW i \in DOMAIN s
  PROVE  /\ RemoveAt(s, i) \in Seq(T)
         /\ \A S : Lists(s, S) => Lists(RemoveAt(s, i), S \ {s[i]})
<1> DEFINE head == SubSeq(s, 1, i - 1)
           tail == SubSeq(s, i + 1, Len(s))
           q    == head \o tail
<1>1. Len(s) \in Nat /\ DOMAIN s = 1 .. Len(s) /\ i \in 1 .. Len(s)
  OBVIOUS
<1>2. \A j \in 1 .. Len(s) : s[j] \in T
  BY ElementOfSeq
<1>3. /\ head \in Seq(T)
      /\ Len(head) = i - 1
      /\ \A j \in 1 .. i - 1 : head[j] = s[j]
  <2>1. \A j \in 1 .. i - 1 : s[j] \in T
    BY <1>1, <1>2
  <2> QED BY <1>1, <2>1, SubSeqProperties
<1>4. /\ tail \in Seq(T)
      /\ Len(tail) = Len(s) - i
      /\ \A j \in 1 .. Len(s) - i : tail[j] = s[i + j]
  <2>1. \A j \in i + 1 .. Len(s) : s[j] \in T
    BY <1>1, <1>2
  <2> QED BY <1>1, <2>1, SubSeqProperties
<1> HIDE DEF head, tail
<1>5. /\ q \in Seq(T)
      /\ Len(q) = Len(s) - 1
      /\ \A j \in 1 .. Len(s) - 1 : q[j] = IF j < i THEN s[j] ELSE s[j + 1]
  <2>1. /\ q \in Seq(T)
        /\ Len(q) = Len(head) + Len(tail)
        /\ \A j \in 1 .. Len(head) + Len(tail) :
             q[j] = IF j <= Len(head) THEN head[j] ELSE tail[j - Len(head)]
    BY <1>3, <1>4, ConcatProperties
  <2>2. Len(head) + Len(tail) = Len(s) - 1
    BY <1>1, <1>3, <1>4
  <2>3. ASSUME NEW j \in 1 .. Len(s) - 1
        PROVE  q[j] = IF j < i THEN s[j] ELSE s[j + 1]
    <3>1. CASE j < i
      BY <1>1, <1>3, <2>1, <2>2, <3>1
    <3>2. CASE ~(j < i)
      <4>1. /\ j - (i - 1) \in 1 .. Len(s) - i
            /\ i + (j - (i - 1)) = j + 1
            /\ ~(j <= i - 1)
        BY <1>1, <3>2
      <4>2. q[j] = tail[j - (i - 1)]
        BY <1>3, <2>1, <2>2, <4>1
      <4> QED BY <1>4, <3>2, <4>1, <4>2
    <3> QED BY <3>1, <3>2
  <2> HIDE DEF q
  <2> QED BY <2>1, <2>2, <2>3
<1> HIDE DEF q
<1>6. DOMAIN q = 1 .. Len(s) - 1
  BY <1>5
<1>7. ASSUME NEW S, Lists(s, S)
      PROVE  Lists(q, S \ {s[i]})
  <2>1. \A j, k \in 1 .. Len(s) : s[j] = s[k] => j = k
    BY <1>1, <1>7 DEF Lists, IsInjective
  <2>2. ASSUME NEW j \in 1 .. Len(s) - 1
        PROVE  q[j] \in S \ {s[i]}
    <3>1. \E k \in 1 .. Len(s) : k # i /\ q[j] = s[k]
      <4>1. CASE j < i
        BY <1>1, <1>5, <4>1
      <4>2. CASE ~(j < i)
        <5>1. j + 1 \in 1 .. Len(s) /\ j + 1 # i
          BY <1>1, <4>2
        <5> QED BY <1>5, <4>2, <5>1
      <4> QED BY <4>1, <4>2
    <3> QED BY <1>1, <1>7, <2>1, <3>1 DEF Lists, ToSet
  <2>3. ASSUME NEW e \in S \ {s[i]}
        PROVE  \E j \in 1 .. Len(s) - 1 : q[j] = e
    <3>1. PICK k \in 1 .. Len(s) : e = s[k]
      BY <1>1, <1>7 DEF Lists, ToSet
    <3>2. CASE k < i
      BY <1>1, <1>5, <3>1, <3>2
    <3>3. CASE k > i
      <4>1. k - 1 \in 1 .. Len(s) - 1 /\ ~(k - 1 < i) /\ (k - 1) + 1 = k
        BY <1>1, <3>3
      <4> QED BY <1>5, <3>1, <4>1
    <3>4. k # i
      BY <3>1
    <3> QED BY <1>1, <3>2, <3>3, <3>4
  <2>4. ToSet(q) = S \ {s[i]}
    BY <1>6, <2>2, <2>3 DEF ToSet
  <2>5. IsInjective(q)
    BY <1>1, <1>5, <1>6, <2>1 DEF IsInjective
  <2> QED BY <2>4, <2>5 DEF Lists
<1> QED BY <1>5, <1>7 DEF q, head, tail, RemoveAt

\* splice of a prefix.
LEMMA DropLists ==
  ASSUME NEW T, NEW s \in Seq(T), NEW n \in 0 .. Len(s)
  PROVE  /\ SubSeq(s, n + 1, Len(s)) \in Seq(T)
         /\ Len(SubSeq(s, n + 1, Len(s))) = Len(s) - n
         /\ \A S : Lists(s, S) =>
              Lists(SubSeq(s, n + 1, Len(s)), S \ {s[i] : i \in 1 .. n})
<1> DEFINE q == SubSeq(s, n + 1, Len(s))
<1>1. /\ Len(s) \in Nat /\ DOMAIN s = 1 .. Len(s)
      /\ n \in Nat /\ n <= Len(s)
  OBVIOUS
<1>2. \A j \in n + 1 .. Len(s) : s[j] \in T
  BY <1>1, ElementOfSeq
<1>3. /\ q \in Seq(T)
      /\ Len(q) = Len(s) - n
      /\ \A j \in 1 .. Len(s) - n : q[j] = s[n + j]
  <2>1. /\ q \in Seq(T)
        /\ Len(q) = IF n + 1 <= Len(s) THEN Len(s) - (n + 1) + 1 ELSE 0
        /\ \A j \in 1 .. Len(s) - (n + 1) + 1 : q[j] = s[(n + 1) + j - 1]
    <3>1. n + 1 \in Int /\ Len(s) \in Int
      BY <1>1
    <3> QED BY <1>2, <3>1, SubSeqProperties
  <2> HIDE DEF q
  <2>2. Len(s) - (n + 1) + 1 = Len(s) - n
    BY <1>1
  <2>3. Len(q) = Len(s) - n
    <3>1. CASE n + 1 <= Len(s)
      <4>1. Len(q) = Len(s) - (n + 1) + 1
        BY <2>1, <3>1
      <4> QED BY <2>2, <4>1
    <3>2. CASE ~(n + 1 <= Len(s))
      <4>1. Len(q) = 0
        BY <2>1, <3>2
      <4>2. Len(s) - n = 0
        <5> DEFINE l == Len(s)
        <5>1. l \in Nat /\ n \in Nat /\ n <= l /\ ~(n + 1 <= l)
          BY <1>1, <3>2
        <5> HIDE DEF l
        <5>2. l - n = 0
          BY <5>1
        <5> QED BY <5>2 DEF l
      <4> QED BY <4>1, <4>2
    <3> QED BY <3>1, <3>2
  <2>4. ASSUME NEW j \in 1 .. Len(s) - n
        PROVE  q[j] = s[n + j]
    <3>1. (n + 1) + j - 1 = n + j
      BY <1>1
    <3> QED BY <2>1, <2>2, <3>1
  <2> QED BY <2>1, <2>3, <2>4
<1> HIDE DEF q
<1>4. DOMAIN q = 1 .. Len(s) - n
  BY <1>3
<1>5. ASSUME NEW S, Lists(s, S)
      PROVE  Lists(q, S \ {s[i] : i \in 1 .. n})
  <2>1. \A j, k \in 1 .. Len(s) : s[j] = s[k] => j = k
    BY <1>1, <1>5 DEF Lists, IsInjective
  <2>2. ASSUME NEW j \in 1 .. Len(s) - n
        PROVE  q[j] \in S \ {s[i] : i \in 1 .. n}
    <3>1. n + j \in 1 .. Len(s) /\ n + j \notin 1 .. n
      BY <1>1
    <3>2. \A i \in 1 .. n : i \in 1 .. Len(s) /\ i # n + j
      BY <1>1, <3>1
    <3>3. s[n + j] \in S
      BY <1>1, <1>5, <3>1 DEF Lists, ToSet
    <3> QED BY <1>3, <2>1, <3>1, <3>2, <3>3
  <2>3. ASSUME NEW e \in S \ {s[i] : i \in 1 .. n}
        PROVE  \E j \in 1 .. Len(s) - n : q[j] = e
    <3>1. PICK k \in 1 .. Len(s) : e = s[k]
      BY <1>1, <1>5 DEF Lists, ToSet
    <3>2. k > n
      BY <1>1, <3>1
    <3>3. k - n \in 1 .. Len(s) - n /\ n + (k - n) = k
      BY <1>1, <3>2
    <3> QED BY <1>3, <3>1, <3>3
  <2>4. ToSet(q) = S \ {s[i] : i \in 1 .. n}
    BY <1>4, <2>2, <2>3 DEF ToSet
  <2>5. IsInjective(q)
    <3>1. \A j \in 1 .. Len(s) - n : n + j \in 1 .. Len(s)
      BY <1>1
    <3> QED BY <1>1, <1>3, <1>4, <2>1, <3>1 DEF IsInjective
  <2> QED BY <2>4, <2>5 DEF Lists
<1> QED BY <1>3, <1>5 DEF q
----------------------------------------------------------------------------
(* What a step does to the tasks.  Every action does one of four things to *)
(* one task, or nothing to any.                                            *)

\* The attempts a task is left charged with when it is placed again.
Charge(t, n) ==
  \/ status[t] = "absent" /\ n = 0
  \/ status[t] = "queued" /\ n = attempts[t]
  \/ status[t] = "leased" /\ n = attempts[t] /\ n < MaxAttempts[t]
  \/ status[t] = "leased" /\ n = Monus(attempts[t], 1)

\* t leaves the pending list if it was on it.
LeavesPending(t) ==
  \/ /\ status[t] = "queued"
     /\ \E i \in DOMAIN pending :
          pending[i] = t /\ pending' = RemoveAt(pending, i)
  \/ status[t] # "queued" /\ UNCHANGED pending

Nothing ==
  UNCHANGED <<status, holder, attempts, pending, finishedOrder, receipts>>

Leases(t, a, n) ==
  /\ Charge(t, n)
  /\ LeavesPending(t)
  /\ status' = [status EXCEPT ![t] = "leased"]
  /\ holder' = [holder EXCEPT ![t] = a]
  /\ attempts' = [attempts EXCEPT ![t] = n + 1]
  /\ UNCHANGED <<finishedOrder, receipts>>

Waits(t, n) ==
  /\ Charge(t, n)
  /\ status[t] # "queued"
  /\ pending' = Append(pending, t)
  /\ status' = [status EXCEPT ![t] = "queued"]
  /\ holder' = [holder EXCEPT ![t] = NoAgent]
  /\ attempts' = [attempts EXCEPT ![t] = n]
  /\ UNCHANGED <<finishedOrder, receipts>>

\* finishedOrder afterwards lists the finished tasks, within the cap.
Retained ==
  /\ finishedOrder' \in Seq(Tasks)
  /\ Lists(finishedOrder', Finished')
  /\ Len(finishedOrder') <= MaxFinished

Ends(t, s, gone) ==
  /\ \/ status[t] = "leased" /\ s = "succeeded"
     \/ status[t] = "leased" /\ s = "failed" /\ attempts[t] >= MaxAttempts[t]
     \/ status[t] \in {"queued", "leased"} /\ s = "cancelled"
  /\ LeavesPending(t)
  /\ status' = [u \in Tasks |-> IF u \in gone THEN "forgotten"
                                ELSE IF u = t THEN s ELSE status[u]]
  /\ receipts' = [receipts EXCEPT ![t] = @ + 1]
  /\ Retained
  /\ UNCHANGED <<holder, attempts>>

Forgets(gone) ==
  /\ status' = [u \in Tasks |-> IF u \in gone THEN "forgotten" ELSE status[u]]
  /\ Retained
  /\ UNCHANGED <<holder, attempts, pending, receipts>>

Shape ==
  \/ Nothing
  \/ \E t \in Tasks, a \in Agents, n \in Nat : Leases(t, a, n)
  \/ \E t \in Tasks, n \in Nat : Waits(t, n)
  \/ \E t \in Tasks, s \in Terminal, gone \in SUBSET Finished : Ends(t, s, gone)
  \/ \E gone \in SUBSET Finished : Forgets(gone)

\* The part of the state that Shape does not speak of.
FleetTypeOK ==
  /\ registry \in [Agents -> Record]
  /\ parked \in [Agents -> Nat]
  /\ handoff \in SUBSET Tasks
  /\ sweeping \in BOOLEAN

\* A leased task names the agent to release it from.
HolderNamed == \A t \in Tasks : status[t] = "leased" => holder[t] \in Agents

\* PendingExact and FinishedExact support each other: a finished task that
\* goes must not be one that is pending.
IInv == TypeOK /\ HolderNamed /\ PendingExact /\ FinishedExact

\* Placing a task, which enqueue and the three ways of requeueing do.
LEMMA PlaceShape ==
  ASSUME TypeOK, NEW t \in Tasks, NEW n \in Nat,
         NEW r \in [Agents -> Record],
         status[t] # "queued", Charge(t, n), Place(t, r, n),
         UNCHANGED <<finishedOrder, receipts>>
  PROVE  /\ \/ \E a \in Agents : Leases(t, a, n)
            \/ Waits(t, n)
         /\ registry' \in [Agents -> Record]
         /\ parked' \in [Agents -> Nat]
         /\ handoff' \in SUBSET Tasks
<1>1. ASSUME NEW a \in Best(t, r), Assign(t, a, r, n),
             parked' = [parked EXCEPT ![a] = @ - 1], UNCHANGED pending
      PROVE  /\ a \in Agents
             /\ Leases(t, a, n)
             /\ registry' \in [Agents -> Record]
             /\ parked' \in [Agents -> Nat]
             /\ handoff' \in SUBSET Tasks
  <2>1. a \in Agents /\ parked[a] > 0
    BY DEF Best, Eligible
  <2>2. registry' \in [Agents -> Record]
    BY <1>1, <2>1, AdmittedType DEF Assign
  <2>3. parked' \in [Agents -> Nat]
    <3>1. parked[a] - 1 \in Nat
      BY <2>1 DEF TypeOK
    <3> QED BY <1>1, <3>1 DEF TypeOK
  <2>4. handoff' \in SUBSET Tasks
    BY <1>1 DEF Assign, TypeOK
  <2>5. Leases(t, a, n)
    BY <1>1 DEF Leases, LeavesPending, Assign
  <2> QED BY <2>1, <2>2, <2>3, <2>4, <2>5
<1>2. ASSUME Eligible(t, r) = {}, registry' = r,
             status' = [status EXCEPT ![t] = "queued"],
             holder' = [holder EXCEPT ![t] = NoAgent],
             attempts' = [attempts EXCEPT ![t] = n],
             pending' = Append(pending, t),
             handoff' = handoff \ {t}, UNCHANGED parked
      PROVE  /\ Waits(t, n)
             /\ registry' \in [Agents -> Record]
             /\ parked' \in [Agents -> Nat]
             /\ handoff' \in SUBSET Tasks
  BY <1>2 DEF Waits, TypeOK
<1> QED BY <1>1, <1>2 DEF Place

\* Finishing a task: the records that go to make room are finished ones.
LEMMA FinishShape ==
  ASSUME IInv, NEW t \in Tasks, NEW s \in Terminal, NEW r,
         Finish(t, s, r), LeavesPending(t),
         \/ status[t] = "leased" /\ s = "succeeded"
         \/ status[t] = "leased" /\ s = "failed" /\ attempts[t] >= MaxAttempts[t]
         \/ status[t] \in {"queued", "leased"} /\ s = "cancelled"
  PROVE  /\ \E gone \in SUBSET Finished : Ends(t, s, gone)
         /\ registry' = r
         /\ UNCHANGED <<parked, handoff>>
<1> DEFINE order == Append(finishedOrder, t)
<1>1. PICK n \in Droppable(order) \ {Len(order)} :
        /\ registry' = r
        /\ finishedOrder' = SubSeq(order, n + 1, Len(order))
        /\ status' = [u \in Tasks |-> IF \E i \in 1 .. n : order[i] = u
                                      THEN "forgotten"
                                      ELSE IF u = t THEN s ELSE status[u]]
        /\ receipts' = [receipts EXCEPT ![t] = @ + 1]
        /\ UNCHANGED <<holder, attempts, parked, handoff>>
  BY DEF Finish
<1>2. t \notin Finished
  BY DEF Finished, Terminal
<1>3. finishedOrder \in Seq(Tasks) /\ Lists(finishedOrder, Finished)
  BY DEF IInv, TypeOK, FinishedExact, Lists
<1>4. /\ order \in Seq(Tasks)
      /\ Len(order) = Len(finishedOrder) + 1
      /\ \A i \in 1 .. Len(finishedOrder) : order[i] = finishedOrder[i]
      /\ Lists(order, Finished \cup {t})
  BY <1>2, <1>3, AppendLists
<1> HIDE DEF order
<1>5. /\ n \in 0 .. Len(order)
      /\ Len(order) - n <= MaxFinished
      /\ n \in 0 .. Len(finishedOrder)
  <2>1. Len(finishedOrder) \in Nat
    BY <1>3
  <2> QED BY <1>4, <2>1 DEF Droppable
<1> DEFINE gone == {order[i] : i \in 1 .. n}
<1>6. gone \in SUBSET Finished
  <2>1. \A i \in 1 .. n : i \in 1 .. Len(finishedOrder)
    BY <1>3, <1>5
  <2>2. \A i \in 1 .. Len(finishedOrder) : finishedOrder[i] \in Finished
    BY <1>3 DEF Lists, ToSet
  <2> QED BY <1>4, <2>1, <2>2
<1>7. status' = [u \in Tasks |-> IF u \in gone THEN "forgotten"
                                 ELSE IF u = t THEN s ELSE status[u]]
  BY <1>1
<1>8. /\ SubSeq(order, n + 1, Len(order)) \in Seq(Tasks)
      /\ Len(SubSeq(order, n + 1, Len(order))) = Len(order) - n
      /\ Lists(SubSeq(order, n + 1, Len(order)), (Finished \cup {t}) \ gone)
  BY <1>4, <1>5, DropLists
<1> HIDE DEF gone
<1>9. Finished' = (Finished \cup {t}) \ gone
  <2>1. \A u \in Tasks : status'[u] \in Terminal
                           <=> u \in (Finished \cup {t}) \ gone
    BY <1>6, <1>7 DEF Finished, Terminal
  <2> QED BY <2>1, <1>6 DEF Finished
<1>10. Retained
  BY <1>1, <1>5, <1>8, <1>9 DEF Retained
<1>11. Ends(t, s, gone)
  BY <1>1, <1>7, <1>10 DEF Ends
<1> QED BY <1>1, <1>6, <1>11

\* Forgetting finished tasks, as every sweep does.
LEMMA ForgetShape ==
  ASSUME IInv, ForgetFinished
  PROVE  /\ \E gone \in SUBSET Finished : Forgets(gone)
         /\ UNCHANGED <<registry, parked, handoff>>
<1>1. PICK n \in Droppable(finishedOrder) \ {0} :
        /\ finishedOrder' = SubSeq(finishedOrder, n + 1, Len(finishedOrder))
        /\ status' = [u \in Tasks |-> IF \E i \in 1 .. n : finishedOrder[i] = u
                                      THEN "forgotten" ELSE status[u]]
  BY DEF ForgetFinished
<1>2. finishedOrder \in Seq(Tasks) /\ Lists(finishedOrder, Finished)
  BY DEF IInv, TypeOK, FinishedExact, Lists
<1>3. /\ n \in 0 .. Len(finishedOrder)
      /\ Len(finishedOrder) - n <= MaxFinished
  BY <1>1 DEF Droppable
<1> DEFINE gone == {finishedOrder[i] : i \in 1 .. n}
<1>4. gone \in SUBSET Finished
  <2>1. \A i \in 1 .. n : i \in 1 .. Len(finishedOrder)
    BY <1>2, <1>3
  <2>2. \A i \in 1 .. Len(finishedOrder) : finishedOrder[i] \in Finished
    BY <1>2 DEF Lists, ToSet
  <2> QED BY <2>1, <2>2
<1>5. status' = [u \in Tasks |-> IF u \in gone THEN "forgotten" ELSE status[u]]
  BY <1>1
<1> DEFINE rest == SubSeq(finishedOrder, n + 1, Len(finishedOrder))
<1>6. /\ rest \in Seq(Tasks)
      /\ Len(rest) = Len(finishedOrder) - n
      /\ Lists(rest, Finished \ gone)
  BY <1>2, <1>3, DropLists
<1>7. finishedOrder' = rest
  BY <1>1
<1> HIDE DEF gone, rest
<1>8. Finished' = Finished \ gone
  <2>1. \A u \in Tasks : status'[u] \in Terminal <=> u \in Finished \ gone
    BY <1>4, <1>5 DEF Finished, Terminal
  <2> QED BY <2>1, <1>4 DEF Finished
<1>9. Retained
  BY <1>3, <1>6, <1>7, <1>8 DEF Retained
<1>10. Forgets(gone)
  BY <1>5, <1>9 DEF Forgets, ForgetFinished
<1> QED BY <1>4, <1>10 DEF ForgetFinished

\* A lease that ends badly, reported or reclaimed.
LEMMA GiveUpShape ==
  ASSUME IInv, NEW t \in Tasks, NEW r \in [Agents -> Record],
         status[t] = "leased", GiveUpOrRequeue(t, r)
  PROVE  /\ Shape
         /\ registry' \in [Agents -> Record]
         /\ parked' \in [Agents -> Nat]
         /\ handoff' \in SUBSET Tasks
<1>1. CASE /\ attempts[t] >= MaxAttempts[t]
           /\ Finish(t, "failed", r)
           /\ UNCHANGED pending
  <2>1. LeavesPending(t)
    BY <1>1 DEF LeavesPending
  <2>2. "failed" \in Terminal
    BY DEF Terminal
  <2>3. /\ \E gone \in SUBSET Finished : Ends(t, "failed", gone)
        /\ registry' = r
        /\ UNCHANGED <<parked, handoff>>
    BY <1>1, <2>1, <2>2, FinishShape
  <2> QED BY <2>2, <2>3 DEF Shape, IInv, TypeOK
<1>2. CASE attempts[t] < MaxAttempts[t] /\ Requeue(t, r, attempts[t])
  <2>1. attempts[t] \in Nat /\ Charge(t, attempts[t])
    BY <1>2 DEF IInv, TypeOK, Charge
  <2>2. Place(t, r, attempts[t]) /\ UNCHANGED <<finishedOrder, receipts>>
    BY <1>2 DEF Requeue
  <2>3. /\ \/ \E a \in Agents : Leases(t, a, attempts[t])
           \/ Waits(t, attempts[t])
        /\ registry' \in [Agents -> Record]
        /\ parked' \in [Agents -> Nat]
        /\ handoff' \in SUBSET Tasks
    BY <2>1, <2>2, PlaceShape DEF IInv
  <2> QED BY <2>1, <2>3 DEF Shape
<1> QED BY <1>1, <1>2 DEF GiveUpOrRequeue

\* A lease handed back unrun.
LEMMA HandBackShape ==
  ASSUME IInv, NEW t \in Tasks, NEW r \in [Agents -> Record],
         status[t] = "leased", Requeue(t, r, Monus(attempts[t], 1))
  PROVE  /\ Shape
         /\ registry' \in [Agents -> Record]
         /\ parked' \in [Agents -> Nat]
         /\ handoff' \in SUBSET Tasks
<1> DEFINE n == Monus(attempts[t], 1)
<1>1. n \in Nat /\ Charge(t, n)
  BY DEF IInv, TypeOK, Charge, Monus
<1>2. Place(t, r, n) /\ UNCHANGED <<finishedOrder, receipts>>
  BY DEF Requeue
<1> HIDE DEF n
<1>3. /\ \/ \E a \in Agents : Leases(t, a, n)
         \/ Waits(t, n)
      /\ registry' \in [Agents -> Record]
      /\ parked' \in [Agents -> Nat]
      /\ handoff' \in SUBSET Tasks
  BY <1>1, <1>2, PlaceShape DEF IInv
<1> QED BY <1>1, <1>3 DEF Shape

\* Every step has one of the shapes, and keeps the types Shape leaves out.
LEMMA StepShape ==
  ASSUME IInv, Next
  PROVE  Shape /\ FleetTypeOK'
<1> USE DEF FleetTypeOK
<1>1. /\ registry \in [Agents -> Record] /\ parked \in [Agents -> Nat]
      /\ handoff \in SUBSET Tasks /\ sweeping \in BOOLEAN
      /\ status \in [Tasks -> Status] /\ holder \in [Tasks -> Agents \cup {NoAgent}]
      /\ attempts \in [Tasks -> Nat] /\ pending \in Seq(Tasks)
  BY DEF IInv, TypeOK
<1>2. ASSUME NEW a \in Agents, NEW m \in Memory, Register(a, m)
      PROVE  Shape /\ FleetTypeOK'
  BY <1>1, <1>2, RegisteredType DEF Register, Turn, queueVars, Shape, Nothing
<1>3. ASSUME NEW a \in Agents, NEW m \in Memory, Heartbeat(a, m)
      PROVE  Shape /\ FleetTypeOK'
  BY <1>1, <1>3, ReportedType DEF Heartbeat, Turn, queueVars, Shape, Nothing
<1>4. ASSUME NEW a \in Agents, Deregister(a)
      PROVE  Shape /\ FleetTypeOK'
  BY <1>1, <1>4, DroppedType DEF Deregister, Turn, queueVars, Shape, Nothing
<1>5. ASSUME NEW quiet \in SUBSET Agents, Prune(quiet)
      PROVE  Shape /\ FleetTypeOK'
  BY <1>1, <1>5, DroppedType DEF Prune, Turn, queueVars, Shape, Nothing
<1>6. ASSUME NEW a \in Agents, NEW m \in Memory, NEW wait \in BOOLEAN,
             Poll(a, m, wait)
      PROVE  Shape /\ FleetTypeOK'
  <2> DEFINE r == Reported(registry, a, m)
  <2>1. r \in [Agents -> Record]
    BY <1>1, ReportedType
  <2>2. sweeping' = FALSE /\ UNCHANGED <<finishedOrder, receipts>>
    BY <1>6 DEF Poll, Turn
  <2>3. ASSUME NEW i \in FirstRunnable(a, r),
               Assign(pending[i], a, r, attempts[pending[i]]),
               pending' = RemoveAt(pending, i), UNCHANGED parked
        PROVE  Shape /\ FleetTypeOK'
    <3> DEFINE t == pending[i]
               n == attempts[t]
    <3>1. i \in DOMAIN pending /\ t \in Tasks /\ n \in Nat
      BY <1>1 DEF FirstRunnable, Runnable
    <3>2. status[t] = "queued"
      BY <3>1 DEF IInv, PendingExact, ToSet, Queued
    <3>3. Charge(t, n) /\ LeavesPending(t)
      BY <2>3, <3>1, <3>2 DEF Charge, LeavesPending
    <3>4. Assign(t, a, r, n)
      BY <2>3
    <3> HIDE DEF t, n, r
    <3>5. Leases(t, a, n)
      BY <2>2, <3>3, <3>4 DEF Leases, Assign
    <3>6. FleetTypeOK'
      <4>1. registry' = Admitted(r, a, t) /\ handoff' = handoff \cup {t}
        BY <3>4 DEF Assign
      <4>2. Admitted(r, a, t) \in [Agents -> Record]
        BY <2>1, <3>1, AdmittedType
      <4> QED BY <1>1, <2>2, <2>3, <3>1, <4>1, <4>2
    <3> QED BY <3>1, <3>5, <3>6 DEF Shape
  <2>4. ASSUME registry' = r,
               \/ UNCHANGED parked
               \/ parked' = [parked EXCEPT ![a] = @ + 1],
               UNCHANGED <<status, holder, attempts, pending, handoff>>
        PROVE  Shape /\ FleetTypeOK'
    <3> HIDE DEF r
    <3>1. parked' \in [Agents -> Nat]
      <4>1. parked[a] + 1 \in Nat
        BY <1>1
      <4> QED BY <1>1, <2>4, <4>1
    <3>2. Nothing
      BY <2>2, <2>4 DEF Nothing
    <3> QED BY <1>1, <2>1, <2>2, <2>4, <3>1, <3>2 DEF Shape
  <2> QED BY <1>6, <2>3, <2>4 DEF Poll
<1>7. ASSUME NEW a \in Agents, PollEnds(a)
      PROVE  Shape /\ FleetTypeOK'
  <2>1. parked[a] - 1 \in Nat
    BY <1>1, <1>7 DEF PollEnds
  <2> QED BY <1>1, <1>7, <2>1 DEF PollEnds, Turn, Shape, Nothing
<1>8. ASSUME NEW t \in Tasks, Deliver(t)
      PROVE  Shape /\ FleetTypeOK'
  BY <1>1, <1>8 DEF Deliver, Shape, Nothing
<1>9. ASSUME NEW t \in Tasks, status[t] = "leased"
      PROVE  Released(registry, holder[t], t) \in [Agents -> Record]
  BY <1>1, <1>9, ReleasedType DEF IInv, HolderNamed
<1>10. ASSUME NEW t \in Tasks, Undelivered(t)
       PROVE  Shape /\ FleetTypeOK'
  <2>1. /\ status[t] = "leased" /\ sweeping' = FALSE
        /\ Requeue(t, Released(registry, holder[t], t), Monus(attempts[t], 1))
    BY <1>10 DEF Undelivered, LeasedBy
  <2> QED BY <2>1, <1>9, HandBackShape
<1>11. ASSUME NEW t \in Tasks, NEW a \in Agents, Complete(t, a)
       PROVE  Shape /\ FleetTypeOK'
  <2> DEFINE r == Released(registry, a, t)
  <2>1. /\ status[t] = "leased" /\ sweeping' = FALSE
        /\ Finish(t, "succeeded", r) /\ LeavesPending(t)
    BY <1>11 DEF Complete, Turn, LeasedBy, LeavesPending
  <2>2. r \in [Agents -> Record]
    BY <1>1, ReleasedType
  <2> HIDE DEF r
  <2>3. "succeeded" \in Terminal
    BY DEF Terminal
  <2>4. /\ \E gone \in SUBSET Finished : Ends(t, "succeeded", gone)
        /\ registry' = r
        /\ UNCHANGED <<parked, handoff>>
    BY <2>1, <2>3, FinishShape
  <2> QED BY <1>1, <2>1, <2>2, <2>3, <2>4 DEF Shape
<1>12. ASSUME NEW t \in Tasks, NEW a \in Agents, Fail(t, a)
       PROVE  Shape /\ FleetTypeOK'
  <2>1. /\ status[t] = "leased" /\ sweeping' = FALSE
        /\ GiveUpOrRequeue(t, Released(registry, a, t))
    BY <1>12 DEF Fail, Turn, LeasedBy
  <2>2. Released(registry, a, t) \in [Agents -> Record]
    BY <1>1, ReleasedType
  <2> QED BY <2>1, <2>2, GiveUpShape
<1>13. ASSUME NEW t \in Tasks, NEW a \in Agents, NEW m \in Memory,
              Decline(t, a, m)
       PROVE  Shape /\ FleetTypeOK'
  <2> DEFINE r == Released(Reported(registry, a, m), a, t)
  <2>1. /\ status[t] = "leased" /\ sweeping' = FALSE
        /\ Requeue(t, r, Monus(attempts[t], 1))
    BY <1>13 DEF Decline, Turn, LeasedBy
  <2>2. r \in [Agents -> Record]
    BY <1>1, ReportedType, ReleasedType
  <2> HIDE DEF r
  <2> QED BY <2>1, <2>2, HandBackShape
<1>14. ASSUME NEW t \in Tasks, Enqueue(t)
       PROVE  Shape /\ FleetTypeOK'
  <2>1. /\ status[t] = "absent" /\ sweeping' = FALSE
        /\ Place(t, registry, 0) /\ UNCHANGED <<finishedOrder, receipts>>
        /\ Charge(t, 0)
    BY <1>14 DEF Enqueue, Turn, Charge
  <2>2. /\ \/ \E a \in Agents : Leases(t, a, 0)
           \/ Waits(t, 0)
        /\ registry' \in [Agents -> Record]
        /\ parked' \in [Agents -> Nat]
        /\ handoff' \in SUBSET Tasks
    BY <1>1, <2>1, PlaceShape DEF IInv
  <2> QED BY <2>1, <2>2 DEF Shape
<1>15. ASSUME NEW t \in Tasks, Cancel(t)
       PROVE  Shape /\ FleetTypeOK'
  <2>1. PICK r \in [Agents -> Record] :
          /\ status[t] \in {"queued", "leased"}
          /\ Finish(t, "cancelled", r)
          /\ LeavesPending(t)
    <3>1. CASE status[t] = "queued"
      BY <1>1, <1>15, <3>1 DEF Cancel, LeavesPending
    <3>2. CASE status[t] = "leased"
      BY <1>9, <1>15, <3>2 DEF Cancel, LeavesPending
    <3> QED BY <1>15, <3>1, <3>2 DEF Cancel
  <2>2. "cancelled" \in Terminal
    BY DEF Terminal
  <2>3. /\ \E gone \in SUBSET Finished : Ends(t, "cancelled", gone)
        /\ registry' = r
        /\ UNCHANGED <<parked, handoff>>
    BY <2>1, <2>2, FinishShape
  <2>4. sweeping' = FALSE
    BY <1>15 DEF Cancel, Turn
  <2> QED BY <1>1, <2>2, <2>3, <2>4 DEF Shape
<1>16. ASSUME NEW t \in Tasks, Reclaim(t)
       PROVE  Shape /\ FleetTypeOK'
  <2>1. /\ status[t] = "leased" /\ sweeping' = TRUE
        /\ GiveUpOrRequeue(t, Released(registry, holder[t], t))
    BY <1>16 DEF Reclaim
  <2> QED BY <2>1, <1>9, GiveUpShape
<1>17. ASSUME ForgetFinished
       PROVE  Shape /\ FleetTypeOK'
  BY <1>1, <1>17, ForgetShape DEF Shape, ForgetFinished, Turn
<1>18. ASSUME RegistryStep
       PROVE  Shape /\ FleetTypeOK'
  BY <1>2, <1>3, <1>4, <1>5, <1>18 DEF RegistryStep
<1>19. ASSUME AgentStep
       PROVE  Shape /\ FleetTypeOK'
  BY <1>6, <1>7, <1>11, <1>12, <1>13, <1>19 DEF AgentStep
<1> QED BY <1>8, <1>10, <1>14, <1>15, <1>16, <1>17, <1>18, <1>19 DEF Next

LEMMA InitIInv ==
  ASSUME Init
  PROVE  IInv
<1>1. TypeOK
  <2>1. NewRegistry \in [Agents -> Record]
    BY BlankType DEF NewRegistry
  <2>2. /\ status \in [Tasks -> Status]
        /\ holder \in [Tasks -> Agents \cup {NoAgent}]
        /\ attempts \in [Tasks -> Nat] /\ receipts \in [Tasks -> Nat]
        /\ parked \in [Agents -> Nat] /\ handoff \in SUBSET Tasks
        /\ sweeping \in BOOLEAN
    BY DEF Init, Status
  <2>3. pending \in Seq(Tasks) /\ finishedOrder \in Seq(Tasks)
    BY EmptySeq DEF Init
  <2>4. registry = NewRegistry
    BY DEF Init
  <2> QED BY <2>1, <2>2, <2>3, <2>4 DEF TypeOK
<1>2. Lists(<<>>, {})
  BY DEF Lists, ToSet, IsInjective
<1>3. Queued = {} /\ Finished = {} /\ HolderNamed
  BY DEF Init, Queued, Finished, Terminal, HolderNamed
<1>4. Len(finishedOrder) <= MaxFinished
  BY QueueAssumption DEF Init
<1> QED BY <1>1, <1>2, <1>3, <1>4
      DEF Init, IInv, PendingExact, FinishedExact, Lists

\* Leaving the pending list.
LEMMA LeavesPendingLists ==
  ASSUME IInv, NEW t \in Tasks, LeavesPending(t)
  PROVE  /\ pending' \in Seq(Tasks)
         /\ Lists(pending', Queued \ {t})
<1>1. pending \in Seq(Tasks) /\ Lists(pending, Queued)
  BY DEF IInv, TypeOK, PendingExact, Lists
<1>2. CASE status[t] # "queued" /\ UNCHANGED pending
  <2>1. Queued \ {t} = Queued
    BY <1>2 DEF Queued
  <2> QED BY <1>1, <1>2, <2>1
<1>3. ASSUME NEW i \in DOMAIN pending, pending[i] = t,
             pending' = RemoveAt(pending, i)
      PROVE  pending' \in Seq(Tasks) /\ Lists(pending', Queued \ {t})
  BY <1>1, <1>3, RemoveAtLists
<1> QED BY <1>2, <1>3 DEF LeavesPending

LEMMA StepIInv ==
  ASSUME IInv, [Next]_vars
  PROVE  IInv'
<1>1. CASE UNCHANGED vars
  BY <1>1 DEF vars, IInv, TypeOK, HolderNamed, PendingExact, FinishedExact,
              Queued, Finished
<1>2. CASE Next
  <2>1. Shape /\ FleetTypeOK'
    BY <1>2, StepShape
  <2>2. /\ status \in [Tasks -> Status] /\ holder \in [Tasks -> Agents \cup {NoAgent}]
        /\ attempts \in [Tasks -> Nat] /\ receipts \in [Tasks -> Nat]
        /\ pending \in Seq(Tasks) /\ Lists(pending, Queued)
        /\ finishedOrder \in Seq(Tasks) /\ Lists(finishedOrder, Finished)
        /\ Len(finishedOrder) <= MaxFinished /\ HolderNamed
    BY DEF IInv, TypeOK, PendingExact, FinishedExact, Lists
  <2> DEFINE TasksOK ==
        /\ status' \in [Tasks -> Status]
        /\ holder' \in [Tasks -> Agents \cup {NoAgent}]
        /\ attempts' \in [Tasks -> Nat] /\ receipts' \in [Tasks -> Nat]
        /\ pending' \in Seq(Tasks) /\ Lists(pending', Queued')
        /\ Retained /\ HolderNamed'
  <2>3. ASSUME Nothing PROVE TasksOK
    <3>1. Queued' = Queued /\ Finished' = Finished /\ HolderNamed'
      BY <2>2, <2>3 DEF Nothing, Queued, Finished, HolderNamed
    <3> QED BY <2>2, <2>3, <3>1 DEF Nothing, Retained
  <2>4. ASSUME NEW t \in Tasks, NEW a \in Agents, NEW n \in Nat, Leases(t, a, n)
        PROVE  TasksOK
    <3>1. status[t] \notin Terminal
      BY <2>4 DEF Leases, Charge, Terminal
    <3>2. Queued' = Queued \ {t} /\ Finished' = Finished /\ HolderNamed'
      BY <2>2, <2>4, <3>1 DEF Leases, Queued, Finished, Terminal, HolderNamed
    <3>3. /\ status' \in [Tasks -> Status]
          /\ holder' \in [Tasks -> Agents \cup {NoAgent}]
          /\ attempts' \in [Tasks -> Nat] /\ receipts' \in [Tasks -> Nat]
      BY <2>2, <2>4 DEF Leases, Status
    <3>4. Retained
      BY <2>2, <2>4, <3>2 DEF Leases, Retained
    <3>5. pending' \in Seq(Tasks) /\ Lists(pending', Queued \ {t})
      BY <2>4, LeavesPendingLists DEF Leases
    <3> QED BY <3>2, <3>3, <3>4, <3>5
  <2>5. ASSUME NEW t \in Tasks, NEW n \in Nat, Waits(t, n)
        PROVE  TasksOK
    <3>1. status[t] \notin Terminal \cup {"queued"}
      BY <2>5 DEF Waits, Charge, Terminal
    <3>2. Queued' = Queued \cup {t} /\ Finished' = Finished /\ HolderNamed'
      BY <2>2, <2>5, <3>1 DEF Waits, Queued, Finished, Terminal, HolderNamed
    <3>3. /\ status' \in [Tasks -> Status]
          /\ holder' \in [Tasks -> Agents \cup {NoAgent}]
          /\ attempts' \in [Tasks -> Nat] /\ receipts' \in [Tasks -> Nat]
      BY <2>2, <2>5 DEF Waits, Status
    <3>4. Retained
      BY <2>2, <2>5, <3>2 DEF Waits, Retained
    <3>5. t \notin Queued
      BY <3>1 DEF Queued
    <3>6. pending' \in Seq(Tasks) /\ Lists(pending', Queued \cup {t})
      BY <2>2, <2>5, <3>5, AppendLists DEF Waits
    <3> QED BY <3>2, <3>3, <3>4, <3>6
  <2>6. ASSUME NEW t \in Tasks, NEW s \in Terminal, NEW gone \in SUBSET Finished,
               Ends(t, s, gone)
        PROVE  TasksOK
    <3>1. Queued' = Queued \ {t} /\ HolderNamed'
      BY <2>2, <2>6 DEF Ends, Queued, Finished, Terminal, HolderNamed
    <3>2. /\ status' \in [Tasks -> Status]
          /\ holder' \in [Tasks -> Agents \cup {NoAgent}]
          /\ attempts' \in [Tasks -> Nat] /\ receipts' \in [Tasks -> Nat]
      BY <2>2, <2>6 DEF Ends, Status
    <3>3. pending' \in Seq(Tasks) /\ Lists(pending', Queued \ {t})
      BY <2>6, LeavesPendingLists DEF Ends
    <3> QED BY <2>6, <3>1, <3>2, <3>3 DEF Ends
  <2>7. ASSUME NEW gone \in SUBSET Finished, Forgets(gone)
        PROVE  TasksOK
    <3>1. Queued' = Queued /\ HolderNamed'
      BY <2>2, <2>7 DEF Forgets, Queued, Finished, Terminal, HolderNamed
    <3>2. status' \in [Tasks -> Status]
      BY <2>2, <2>7 DEF Forgets, Status
    <3> QED BY <2>2, <2>7, <3>1, <3>2 DEF Forgets
  <2>8. TasksOK
    BY <2>1, <2>3, <2>4, <2>5, <2>6, <2>7 DEF Shape
  <2> QED BY <2>1, <2>8
        DEF FleetTypeOK, IInv, TypeOK, PendingExact, FinishedExact, Retained, Lists
<1> QED BY <1>1, <1>2

\* The inductive invariant.
LEMMA Inductive == Spec => []IInv
<1>1. Init => IInv
  BY InitIInv
<1>2. IInv /\ [Next]_vars => IInv'
  BY StepIInv
<1> QED BY <1>1, <1>2, PTL DEF Spec

\* Every variable keeps its type, whatever the fleet does.
THEOREM TypeCorrect == Spec => []TypeOK
<1>1. IInv => TypeOK
  BY DEF IInv
<1> QED BY <1>1, Inductive, PTL

\* No queued task is lost and none is queued twice (queue.js: #pending).
THEOREM PendingIsExact == Spec => []PendingExact
<1>1. IInv => PendingExact
  BY DEF IInv
<1> QED BY <1>1, Inductive, PTL

\* Only finished tasks are ever dropped, and the live copies of finished
\* tasks stay within the cap (queue.js: #finishedOrder, #forgetFinished).
THEOREM FinishedIsExact == Spec => []FinishedExact
<1>1. IInv => FinishedExact
  BY DEF IInv
<1> QED BY <1>1, Inductive, PTL
----------------------------------------------------------------------------
(* The life of one task: its attempts and its receipt.                     *)

\* A task that has not been enqueued has no attempts to its name.
Fresh == \A t \in Tasks : status[t] = "absent" => attempts[t] = 0

LifeInv == IInv /\ Fresh /\ AttemptBudget /\ OneReceipt

\* What Charge leaves a task with is within its budget.
LEMMA ChargeBudget ==
  ASSUME LifeInv, NEW t \in Tasks, NEW n \in Nat, Charge(t, n)
  PROVE  n < MaxAttempts[t]
<1>1. MaxAttempts[t] \in Nat \ {0} /\ attempts[t] \in Nat
  BY QueueAssumption DEF LifeInv, IInv, TypeOK
<1>2. /\ status[t] = "queued" => attempts[t] < MaxAttempts[t]
      /\ status[t] = "leased" => attempts[t] \in 1 .. MaxAttempts[t]
  BY DEF LifeInv, AttemptBudget
<1>3. CASE status[t] = "absent" /\ n = 0
  BY <1>1, <1>3
<1>4. CASE status[t] = "queued" /\ n = attempts[t]
  BY <1>2, <1>4
<1>5. CASE n < MaxAttempts[t]
  BY <1>5
<1>6. CASE status[t] = "leased" /\ n = Monus(attempts[t], 1)
  BY <1>1, <1>2, <1>6 DEF Monus
<1> QED BY <1>3, <1>4, <1>5, <1>6 DEF Charge

LEMMA InitLifeInv ==
  ASSUME Init
  PROVE  LifeInv
BY InitIInv DEF Init, LifeInv, Fresh, AttemptBudget, OneReceipt, Terminal

LEMMA StepLifeInv ==
  ASSUME LifeInv, [Next]_vars
  PROVE  LifeInv'
<1>1. IInv'
  BY StepIInv DEF LifeInv
<1>2. CASE UNCHANGED vars
  BY <1>1, <1>2 DEF vars, LifeInv, Fresh, AttemptBudget, OneReceipt
<1>3. CASE Next
  <2>1. Shape
    BY <1>3, StepShape DEF LifeInv
  <2>2. /\ status \in [Tasks -> Status] /\ attempts \in [Tasks -> Nat]
        /\ receipts \in [Tasks -> Nat]
        /\ Fresh /\ AttemptBudget /\ OneReceipt
    BY DEF LifeInv, IInv, TypeOK
  <2>3. \A t \in Tasks : MaxAttempts[t] \in Nat \ {0}
    BY QueueAssumption
  <2> DEFINE LifeOK == Fresh' /\ AttemptBudget' /\ OneReceipt'
  <2>4. ASSUME Nothing PROVE LifeOK
    BY <2>2, <2>4 DEF Nothing, Fresh, AttemptBudget, OneReceipt
  <2>5. ASSUME NEW t \in Tasks, NEW a \in Agents, NEW n \in Nat, Leases(t, a, n)
        PROVE  LifeOK
    <3>1. n < MaxAttempts[t]
      BY <2>5, ChargeBudget DEF Leases
    <3>2. n + 1 \in 1 .. MaxAttempts[t]
      BY <2>3, <3>1
    <3>3. receipts[t] = 0
      BY <2>2, <2>5 DEF OneReceipt, Leases, Charge, Terminal
    <3>4. /\ status' = [status EXCEPT ![t] = "leased"]
          /\ attempts' = [attempts EXCEPT ![t] = n + 1]
          /\ receipts' = receipts
      BY <2>5 DEF Leases
    <3>5. Fresh' /\ AttemptBudget'
      BY <2>2, <3>2, <3>4 DEF Fresh, AttemptBudget
    <3>6. OneReceipt'
      BY <2>2, <3>3, <3>4 DEF OneReceipt, Terminal
    <3> QED BY <3>5, <3>6
  <2>6. ASSUME NEW t \in Tasks, NEW n \in Nat, Waits(t, n)
        PROVE  LifeOK
    <3>1. n < MaxAttempts[t]
      BY <2>6, ChargeBudget DEF Waits
    <3>2. receipts[t] = 0
      BY <2>2, <2>6 DEF OneReceipt, Waits, Charge, Terminal
    <3>3. /\ status' = [status EXCEPT ![t] = "queued"]
          /\ attempts' = [attempts EXCEPT ![t] = n]
          /\ receipts' = receipts
      BY <2>6 DEF Waits
    <3>4. Fresh' /\ AttemptBudget'
      BY <2>2, <3>1, <3>3 DEF Fresh, AttemptBudget
    <3>5. OneReceipt'
      BY <2>2, <3>2, <3>3 DEF OneReceipt, Terminal
    <3> QED BY <3>4, <3>5
  <2>7. ASSUME NEW t \in Tasks, NEW s \in Terminal, NEW gone \in SUBSET Finished,
               Ends(t, s, gone)
        PROVE  LifeOK
    <3>1. receipts[t] = 0 /\ t \notin gone
      BY <2>2, <2>7 DEF OneReceipt, Ends, Finished, Terminal
    <3>2. /\ status' = [u \in Tasks |-> IF u \in gone THEN "forgotten"
                                        ELSE IF u = t THEN s ELSE status[u]]
          /\ attempts' = attempts
          /\ receipts' = [receipts EXCEPT ![t] = @ + 1]
      BY <2>7 DEF Ends
    <3>3. Fresh' /\ AttemptBudget'
      BY <2>2, <3>2 DEF Fresh, AttemptBudget, Terminal
    <3>4. receipts'[t] = 1 /\ status'[t] \in Terminal
      BY <2>2, <3>1, <3>2
    <3>5. ASSUME NEW u \in Tasks, u # t
          PROVE  /\ receipts'[u] = receipts[u]
                 /\ status'[u] \in Terminal \cup {"forgotten"}
                      <=> status[u] \in Terminal \cup {"forgotten"}
      BY <2>2, <2>7, <3>2, <3>5 DEF Finished, Terminal
    <3>6. OneReceipt'
      BY <2>2, <3>4, <3>5 DEF OneReceipt
    <3> QED BY <3>3, <3>6
  <2>8. ASSUME NEW gone \in SUBSET Finished, Forgets(gone)
        PROVE  LifeOK
    <3>1. /\ status' = [u \in Tasks |-> IF u \in gone THEN "forgotten"
                                        ELSE status[u]]
          /\ attempts' = attempts /\ receipts' = receipts
      BY <2>8 DEF Forgets
    <3>2. Fresh' /\ AttemptBudget'
      BY <2>2, <3>1 DEF Fresh, AttemptBudget
    <3>3. OneReceipt'
      BY <2>2, <2>8, <3>1 DEF OneReceipt, Finished, Terminal
    <3> QED BY <3>2, <3>3
  <2>9. LifeOK
    BY <2>1, <2>4, <2>5, <2>6, <2>7, <2>8 DEF Shape
  <2> QED BY <1>1, <2>9 DEF LifeInv
<1> QED BY <1>2, <1>3

LEMMA LifeInductive == Spec => []LifeInv
<1>1. Init => LifeInv
  BY InitLifeInv
<1>2. LifeInv /\ [Next]_vars => LifeInv'
  BY StepLifeInv
<1> QED BY <1>1, <1>2, PTL DEF Spec

\* Nothing is leased more often than it allows, and what waits has an
\* attempt left (queue.js: #assign, fail, decline, undelivered, sweep).
THEOREM AttemptsBudgeted == Spec => []AttemptBudget
<1>1. LifeInv => AttemptBudget
  BY DEF LifeInv
<1> QED BY <1>1, LifeInductive, PTL

\* A task that ended was announced once (queue.js: #finished).
THEOREM ReceiptsAreOnce == Spec => []OneReceipt
<1>1. LifeInv => OneReceipt
  BY DEF LifeInv
<1> QED BY <1>1, LifeInductive, PTL

\* A task that ended was announced once and is in line to be forgotten, once,
\* however reports, sweeps and cancels race for its end (queue.js: #finished).
THEOREM EndsAreExact == Spec => []EndsExact
<1>1. FinishedExact /\ OneReceipt => EndsExact
  BY DEF EndsExact
<1> QED BY <1>1, FinishedIsExact, ReceiptsAreOnce, PTL
----------------------------------------------------------------------------
(* TaskQueue implements TaskLifecycle: each shape is, for the task it is   *)
(* about, a step of the life cycle, and for every other task none or the   *)
(* forgetting of a finished one.                                           *)

LEMMA ChargeRefines ==
  ASSUME LifeInv, NEW t \in Tasks, NEW n \in Nat, Charge(t, n)
  PROVE  /\ n \in 0 .. attempts[t]
         /\ Lifecycle!ChargedNext(t, n)
         /\ status[t] \in {"absent", "queued", "leased"}
<1>1. /\ attempts[t] \in Nat
      /\ status[t] = "absent" => attempts[t] = 0
      /\ status[t] = "leased" => attempts[t] >= 1
  BY DEF LifeInv, IInv, TypeOK, Fresh, AttemptBudget
<1>2. CASE status[t] = "leased" /\ n = Monus(attempts[t], 1)
  <2>1. n + 1 = attempts[t]
    BY <1>1, <1>2 DEF Monus
  <2> QED BY <1>1, <1>2, <2>1 DEF Lifecycle!ChargedNext
<1>3. CASE status[t] = "leased" /\ n = attempts[t] /\ n < MaxAttempts[t]
  BY <1>1, <1>3 DEF Lifecycle!ChargedNext
<1>4. CASE status[t] = "queued" /\ n = attempts[t]
  BY <1>1, <1>4 DEF Lifecycle!ChargedNext
<1>5. CASE status[t] = "absent" /\ n = 0
  BY <1>1, <1>5 DEF Lifecycle!ChargedNext
<1> QED BY <1>2, <1>3, <1>4, <1>5 DEF Charge

LEMMA StepRefines ==
  ASSUME LifeInv, LifeInv', [Next]_vars
  PROVE  [Lifecycle!Next]_(Lifecycle!vars)
<1>1. CASE UNCHANGED vars
  BY <1>1 DEF vars, Lifecycle!vars
<1>2. CASE Next
  <2>1. Shape
    BY <1>2, StepShape DEF LifeInv
  <2>2. /\ status \in [Tasks -> Status] /\ attempts \in [Tasks -> Nat]
        /\ receipts \in [Tasks -> Nat] /\ holder \in [Tasks -> Agents \cup {NoAgent}]
    BY DEF LifeInv, IInv, TypeOK
  <2>3. /\ DOMAIN status' = Tasks /\ DOMAIN holder' = Tasks
        /\ DOMAIN attempts' = Tasks /\ DOMAIN receipts' = Tasks
    BY DEF LifeInv, IInv, TypeOK
  <2> DEFINE Step(u) == \/ Lifecycle!Same(u) \/ Lifecycle!Wait(u)
                        \/ Lifecycle!Lease(u) \/ Lifecycle!End(u)
                        \/ Lifecycle!Forget(u)
  <2>4. ASSUME Nothing, NEW u \in Tasks PROVE Step(u)
    BY <2>4 DEF Nothing, Lifecycle!Same
  <2>5. ASSUME NEW t \in Tasks, NEW a \in Agents, NEW n \in Nat,
               Leases(t, a, n), NEW u \in Tasks
        PROVE  Step(u)
    <3>1. CASE u = t
      <4>1. /\ n \in 0 .. attempts[t] /\ Lifecycle!ChargedNext(t, n)
            /\ status[t] \in {"absent", "queued", "leased"}
        BY <2>5, ChargeRefines DEF Leases
      <4>2. /\ status'[t] = "leased" /\ holder'[t] = a
            /\ attempts'[t] = n + 1 /\ receipts'[t] = receipts[t]
        BY <2>2, <2>5 DEF Leases
      <4> QED BY <3>1, <4>1, <4>2 DEF Lifecycle!Lease
    <3>2. CASE u # t
      BY <2>2, <2>5, <3>2 DEF Leases, Lifecycle!Same
    <3> QED BY <3>1, <3>2
  <2>6. ASSUME NEW t \in Tasks, NEW n \in Nat, Waits(t, n), NEW u \in Tasks
        PROVE  Step(u)
    <3>1. CASE u = t
      <4>1. /\ Lifecycle!ChargedNext(t, n)
            /\ status[t] \in {"absent", "leased"}
        BY <2>6, ChargeRefines DEF Waits
      <4>2. /\ status'[t] = "queued" /\ holder'[t] = NoAgent
            /\ attempts'[t] = n /\ receipts'[t] = receipts[t]
        BY <2>2, <2>6 DEF Waits
      <4> QED BY <3>1, <4>1, <4>2 DEF Lifecycle!Wait
    <3>2. CASE u # t
      BY <2>2, <2>6, <3>2 DEF Waits, Lifecycle!Same
    <3> QED BY <3>1, <3>2
  <2>7. ASSUME NEW gone \in SUBSET Finished, NEW u \in gone,
               status'[u] = "forgotten", holder' = holder,
               attempts' = attempts, receipts'[u] = receipts[u]
        PROVE  Step(u)
    BY <2>7 DEF Lifecycle!Forget, Finished, Terminal
  <2>8. ASSUME NEW t \in Tasks, NEW s \in Terminal, NEW gone \in SUBSET Finished,
               Ends(t, s, gone), NEW u \in Tasks
        PROVE  Step(u)
    <3>1. t \notin gone
      BY <2>8 DEF Ends, Finished, Terminal
    <3>2. /\ status' = [v \in Tasks |-> IF v \in gone THEN "forgotten"
                                        ELSE IF v = t THEN s ELSE status[v]]
          /\ receipts' = [receipts EXCEPT ![t] = @ + 1]
          /\ holder' = holder /\ attempts' = attempts
      BY <2>8 DEF Ends
    <3>3. CASE u = t
      <4>1. status'[t] = s /\ receipts'[t] = receipts[t] + 1
        BY <2>2, <3>1, <3>2
      <4> QED BY <2>8, <3>2, <3>3, <4>1 DEF Ends, Lifecycle!End
    <3>4. CASE u \in gone
      BY <2>2, <2>7, <3>1, <3>2, <3>4
    <3>5. CASE u # t /\ u \notin gone
      BY <2>2, <3>2, <3>5 DEF Lifecycle!Same
    <3> QED BY <3>3, <3>4, <3>5
  <2>9. ASSUME NEW gone \in SUBSET Finished, Forgets(gone), NEW u \in Tasks
        PROVE  Step(u)
    <3>1. CASE u \in gone
      BY <2>7, <2>9, <3>1 DEF Forgets
    <3>2. CASE u \notin gone
      BY <2>9, <3>2 DEF Forgets, Lifecycle!Same
    <3> QED BY <3>1, <3>2
  <2>10. \A u \in Tasks : Step(u)
    BY <2>1, <2>4, <2>5, <2>6, <2>8, <2>9 DEF Shape
  <2> QED BY <2>3, <2>10 DEF Lifecycle!Next
<1> QED BY <1>1, <1>2

\* Whatever the fleet does, a client sees each task live the life of
\* TaskLifecycle (protocol.js: TaskStatus, TERMINAL_STATUSES).
THEOREM QueueImplementsLifecycle == Spec => ImplementsLifecycle
<1>1. Init => Lifecycle!Init
  BY DEF Init, Lifecycle!Init
<1>2. LifeInv /\ LifeInv' /\ [Next]_vars => [Lifecycle!Next]_(Lifecycle!vars)
  BY StepRefines
<1> QED BY <1>1, <1>2, LifeInductive, PTL
      DEF Spec, ImplementsLifecycle, Lifecycle!Spec
----------------------------------------------------------------------------
(* The fleet: who is attached, who is parked, and what each agent holds.   *)
(* Where Shape says what a step does to the tasks, FleetShape says what it *)
(* does to the registry, the parked polls and the dispatches.              *)

\* The registry in the middle of a turn about t: a report has been recorded,
\* perhaps, and the lease t has, if it has one, is settled.
Cleared(t, r) ==
  \E q \in [Agents -> Record] :
    /\ \/ q = registry
       \/ \E a \in Agents, m \in Memory : q = Reported(registry, a, m)
    /\ r = IF status[t] = "leased" THEN Released(q, holder[t], t) ELSE q

\* t goes to a, which is attached and suits it.
Gets(t, a) ==
  \E r \in [Agents -> Record] :
    /\ Cleared(t, r)
    /\ Knows(r, a) /\ t \in Capable[a] /\ a \in Target[t]
    /\ registry' = Admitted(r, a, t)
    /\ handoff' = handoff \cup {t}
    /\ \A b \in Agents : parked'[b] <= parked[b]

\* t waits, and no parked poll could have had it.
Queues(t) ==
  \E r \in [Agents -> Record] :
    /\ Cleared(t, r)
    /\ Eligible(t, r) = {}
    /\ registry' = r
    /\ handoff' = handoff \ {t}
    /\ UNCHANGED parked

\* t ends, and was not in the middle of a dispatch.
Closes(t) ==
  /\ t \notin handoff
  /\ \E r \in [Agents -> Record] : Cleared(t, r) /\ registry' = r
  /\ UNCHANGED <<parked, handoff>>

\* a's long poll parks, having found nothing it could run.
Parks(a) ==
  /\ Knows(registry, a)
  /\ \E r \in [Agents -> Record] : Runnable(a, r) = {}
  /\ \A b \in Agents \ {a} : parked'[b] = parked[b]

Attaches ==
  /\ Nothing /\ handoff = {} /\ UNCHANGED <<parked, handoff>>
  /\ \E a \in Agents, m \in Memory :
       registry[a].state = "new" /\ registry' \in Registered(registry, a, m)

Detaches ==
  /\ Nothing /\ handoff = {} /\ UNCHANGED <<parked, handoff>>
  /\ \E ids \in SUBSET Agents : registry' = Dropped(registry, ids)

Idles ==
  /\ Nothing
  /\ handoff' \subseteq handoff
  /\ \/ registry' = registry
     \/ \E a \in Agents, m \in Memory : registry' = Reported(registry, a, m)
  /\ \/ \A b \in Agents : parked'[b] <= parked[b]
     \/ \E a \in Agents : Parks(a)

FleetShape ==
  \/ Attaches
  \/ Detaches
  \/ Idles
  \/ \E t \in Tasks, a \in Agents, n \in Nat : Leases(t, a, n) /\ Gets(t, a)
  \/ \E t \in Tasks, n \in Nat : Waits(t, n) /\ Queues(t)
  \/ \E t \in Tasks, s \in Terminal, gone \in SUBSET Finished :
       Ends(t, s, gone) /\ Closes(t)
  \/ \E gone \in SUBSET Finished :
       Forgets(gone) /\ UNCHANGED <<registry, parked, handoff>>

LEMMA ClearedType ==
  ASSUME IInv, NEW t \in Tasks, NEW q \in [Agents -> Record],
         \/ q = registry
         \/ \E a \in Agents, m \in Memory : q = Reported(registry, a, m)
  PROVE  /\ status[t] # "leased" => Cleared(t, q)
         /\ status[t] = "leased" =>
              /\ Released(q, holder[t], t) \in [Agents -> Record]
              /\ Cleared(t, Released(q, holder[t], t))
BY ReleasedType DEF Cleared, IInv, HolderNamed

LEMMA PlaceFleet ==
  ASSUME IInv, NEW t \in Tasks, NEW n \in Nat,
         NEW r \in [Agents -> Record], Cleared(t, r),
         status[t] # "queued", Charge(t, n), Place(t, r, n),
         UNCHANGED <<finishedOrder, receipts>>
  PROVE  FleetShape
<1>1. ASSUME NEW a \in Best(t, r), Assign(t, a, r, n),
             parked' = [parked EXCEPT ![a] = @ - 1], UNCHANGED pending
      PROVE  a \in Agents /\ Leases(t, a, n) /\ Gets(t, a)
  <2>1. /\ a \in Agents /\ Knows(r, a)
        /\ t \in Capable[a] /\ a \in Target[t]
    BY DEF Best, Eligible, CanAdmit
  <2>2. \A b \in Agents : parked'[b] <= parked[b]
    BY <1>1, <2>1 DEF IInv, TypeOK
  <2>3. Leases(t, a, n)
    BY <1>1 DEF Leases, LeavesPending, Assign
  <2> QED BY <1>1, <2>1, <2>2, <2>3 DEF Gets, Assign
<1>2. ASSUME Eligible(t, r) = {}, registry' = r,
             status' = [status EXCEPT ![t] = "queued"],
             holder' = [holder EXCEPT ![t] = NoAgent],
             attempts' = [attempts EXCEPT ![t] = n],
             pending' = Append(pending, t),
             handoff' = handoff \ {t}, UNCHANGED parked
      PROVE  Waits(t, n) /\ Queues(t)
  BY <1>2 DEF Waits, Queues
<1> QED BY <1>1, <1>2 DEF Place, FleetShape

LEMMA FinishFleet ==
  ASSUME IInv, NEW t \in Tasks, NEW s \in Terminal,
         NEW r \in [Agents -> Record], Cleared(t, r), t \notin handoff,
         Finish(t, s, r), LeavesPending(t),
         \/ status[t] = "leased" /\ s = "succeeded"
         \/ status[t] = "leased" /\ s = "failed" /\ attempts[t] >= MaxAttempts[t]
         \/ status[t] \in {"queued", "leased"} /\ s = "cancelled"
  PROVE  FleetShape
<1>1. /\ \E gone \in SUBSET Finished : Ends(t, s, gone)
      /\ registry' = r
      /\ UNCHANGED <<parked, handoff>>
  BY FinishShape
<1> QED BY <1>1 DEF FleetShape, Closes

LEMMA GiveUpFleet ==
  ASSUME IInv, NEW t \in Tasks, NEW r \in [Agents -> Record],
         Cleared(t, r), t \notin handoff,
         status[t] = "leased", GiveUpOrRequeue(t, r)
  PROVE  FleetShape
<1>1. CASE /\ attempts[t] >= MaxAttempts[t]
           /\ Finish(t, "failed", r)
           /\ UNCHANGED pending
  BY <1>1, FinishFleet DEF LeavesPending, Terminal
<1>2. CASE attempts[t] < MaxAttempts[t] /\ Requeue(t, r, attempts[t])
  <2>1. attempts[t] \in Nat /\ Charge(t, attempts[t])
    BY <1>2 DEF IInv, TypeOK, Charge
  <2> QED BY <1>2, <2>1, PlaceFleet DEF Requeue
<1> QED BY <1>1, <1>2 DEF GiveUpOrRequeue

LEMMA HandBackFleet ==
  ASSUME IInv, NEW t \in Tasks, NEW r \in [Agents -> Record], Cleared(t, r),
         status[t] = "leased", Requeue(t, r, Monus(attempts[t], 1))
  PROVE  FleetShape
<1>1. Monus(attempts[t], 1) \in Nat /\ Charge(t, Monus(attempts[t], 1))
  BY DEF IInv, TypeOK, Charge, Monus
<1> QED BY <1>1, PlaceFleet DEF Requeue

LEMMA StepFleetShape ==
  ASSUME IInv, Next
  PROVE  FleetShape
<1>1. /\ registry \in [Agents -> Record] /\ parked \in [Agents -> Nat]
      /\ handoff \in SUBSET Tasks /\ holder \in [Tasks -> Agents \cup {NoAgent}]
      /\ attempts \in [Tasks -> Nat] /\ pending \in Seq(Tasks)
  BY DEF IInv, TypeOK
<1>2. ASSUME NEW a \in Agents, NEW m \in Memory, Register(a, m)
      PROVE  FleetShape
  <2>1. Attaches
    BY <1>2 DEF Register, Turn, queueVars, Attaches, Nothing
  <2> QED BY <2>1 DEF FleetShape
<1>3. ASSUME NEW a \in Agents, NEW m \in Memory, Heartbeat(a, m)
      PROVE  FleetShape
  <2>1. Idles
    BY <1>1, <1>3 DEF Heartbeat, Turn, queueVars, Idles, Nothing
  <2> QED BY <2>1 DEF FleetShape
<1>4. ASSUME NEW ids \in SUBSET Agents, handoff = {},
             registry' = Dropped(registry, ids), UNCHANGED queueVars
      PROVE  FleetShape
  <2>1. Detaches
    BY <1>4 DEF queueVars, Detaches, Nothing
  <2> QED BY <2>1 DEF FleetShape
<1>5. ASSUME NEW a \in Agents, NEW m \in Memory, NEW wait \in BOOLEAN,
             Poll(a, m, wait)
      PROVE  FleetShape
  <2> DEFINE r == Reported(registry, a, m)
  <2>1. r \in [Agents -> Record] /\ SameStates(registry, r)
    BY <1>1, ReportedType
  <2>2. Knows(registry, a) /\ UNCHANGED <<finishedOrder, receipts>>
    BY <1>5 DEF Poll
  <2>3. ASSUME NEW i \in FirstRunnable(a, r),
               Assign(pending[i], a, r, attempts[pending[i]]),
               pending' = RemoveAt(pending, i), UNCHANGED parked
        PROVE  FleetShape
    <3> DEFINE t == pending[i]
               n == attempts[t]
    <3>1. /\ i \in DOMAIN pending /\ t \in Tasks /\ n \in Nat
          /\ t \in Capable[a] /\ a \in Target[t]
      BY <1>1 DEF FirstRunnable, Runnable, CanAdmit
    <3>2. status[t] = "queued"
      BY <3>1 DEF IInv, PendingExact, ToSet, Queued
    <3>3. Charge(t, n) /\ LeavesPending(t)
      BY <2>3, <3>1, <3>2 DEF Charge, LeavesPending
    <3>4. Assign(t, a, r, n)
      BY <2>3
    <3>5. Cleared(t, r)
      BY <2>1, <3>1, <3>2, ClearedType
    <3> HIDE DEF t, n, r
    <3>6. Leases(t, a, n)
      BY <2>2, <3>3, <3>4 DEF Leases, Assign
    <3>7. Gets(t, a)
      <4>1. Knows(r, a)
        BY <2>1, <2>2 DEF SameStates, Knows
      <4>2. \A b \in Agents : parked'[b] <= parked[b]
        BY <1>1, <2>3
      <4> QED BY <2>1, <3>1, <3>4, <3>5, <4>1, <4>2 DEF Gets, Assign
    <3> QED BY <3>1, <3>6, <3>7 DEF FleetShape
  <2>4. ASSUME Runnable(a, r) = {}, registry' = r,
               \/ UNCHANGED parked
               \/ parked' = [parked EXCEPT ![a] = @ + 1],
               UNCHANGED <<status, holder, attempts, pending, handoff>>
        PROVE  FleetShape
    <3>1. Nothing
      BY <2>2, <2>4 DEF Nothing
    <3>2. CASE UNCHANGED parked
      <4>1. \A b \in Agents : parked'[b] <= parked[b]
        BY <1>1, <3>2
      <4>2. Idles
        BY <2>4, <3>1, <4>1 DEF Idles
      <4> QED BY <4>2 DEF FleetShape
    <3>3. CASE parked' = [parked EXCEPT ![a] = @ + 1]
      <4>1. \A b \in Agents \ {a} : parked'[b] = parked[b]
        BY <1>1, <3>3
      <4>2. Parks(a)
        BY <2>1, <2>2, <2>4, <4>1 DEF Parks
      <4>3. Idles
        BY <2>4, <3>1, <4>2 DEF Idles
      <4> QED BY <4>3 DEF FleetShape
    <3> QED BY <2>4, <3>2, <3>3
  <2> QED BY <1>5, <2>3, <2>4 DEF Poll
<1>6. ASSUME NEW a \in Agents, PollEnds(a)
      PROVE  FleetShape
  <2>1. \A b \in Agents : parked'[b] <= parked[b]
    BY <1>1, <1>6 DEF PollEnds
  <2>2. Idles
    BY <1>6, <2>1 DEF PollEnds, Turn, Idles, Nothing
  <2> QED BY <2>2 DEF FleetShape
<1>7. ASSUME NEW t \in Tasks, Deliver(t)
      PROVE  FleetShape
  <2>1. \A b \in Agents : parked'[b] <= parked[b]
    BY <1>1, <1>7 DEF Deliver
  <2>2. Idles
    BY <1>7, <2>1 DEF Deliver, Idles, Nothing
  <2> QED BY <2>2 DEF FleetShape
<1>8. ASSUME NEW t \in Tasks, status[t] = "leased"
      PROVE  /\ Released(registry, holder[t], t) \in [Agents -> Record]
             /\ Cleared(t, Released(registry, holder[t], t))
  BY <1>1, <1>8, ClearedType
<1>9. ASSUME NEW t \in Tasks, Undelivered(t)
      PROVE  FleetShape
  BY <1>8, <1>9, HandBackFleet DEF Undelivered, LeasedBy
<1>10. ASSUME NEW t \in Tasks, NEW a \in Agents, Complete(t, a)
       PROVE  FleetShape
  <2>1. /\ status[t] = "leased" /\ holder[t] = a /\ t \notin handoff
        /\ Finish(t, "succeeded", Released(registry, holder[t], t))
        /\ LeavesPending(t) /\ "succeeded" \in Terminal
    BY <1>10 DEF Complete, Turn, LeasedBy, LeavesPending, Terminal
  <2> QED BY <1>8, <2>1, FinishFleet
<1>11. ASSUME NEW t \in Tasks, NEW a \in Agents, Fail(t, a)
       PROVE  FleetShape
  <2>1. /\ status[t] = "leased" /\ holder[t] = a /\ t \notin handoff
        /\ GiveUpOrRequeue(t, Released(registry, holder[t], t))
    BY <1>11 DEF Fail, Turn, LeasedBy
  <2> QED BY <1>8, <2>1, GiveUpFleet
<1>12. ASSUME NEW t \in Tasks, NEW a \in Agents, NEW m \in Memory,
              Decline(t, a, m)
       PROVE  FleetShape
  <2> DEFINE q == Reported(registry, a, m)
  <2>1. /\ status[t] = "leased" /\ holder[t] = a
        /\ Requeue(t, Released(q, holder[t], t), Monus(attempts[t], 1))
    BY <1>12 DEF Decline, Turn, LeasedBy
  <2>2. q \in [Agents -> Record]
    BY <1>1, ReportedType
  <2>3. /\ Released(q, holder[t], t) \in [Agents -> Record]
        /\ Cleared(t, Released(q, holder[t], t))
    BY <2>1, <2>2, ClearedType
  <2> HIDE DEF q
  <2> QED BY <2>1, <2>3, HandBackFleet
<1>13. ASSUME NEW t \in Tasks, Enqueue(t)
       PROVE  FleetShape
  <2>1. /\ status[t] = "absent"
        /\ Place(t, registry, 0) /\ UNCHANGED <<finishedOrder, receipts>>
        /\ Charge(t, 0)
    BY <1>13 DEF Enqueue, Turn, Charge
  <2>2. Cleared(t, registry)
    BY <1>1, <2>1, ClearedType
  <2> QED BY <1>1, <2>1, <2>2, PlaceFleet
<1>14. ASSUME NEW t \in Tasks, Cancel(t)
       PROVE  FleetShape
  <2>1. t \notin handoff /\ "cancelled" \in Terminal
    BY <1>14 DEF Cancel, Turn, Terminal
  <2>2. CASE status[t] = "queued"
    <3>1. Finish(t, "cancelled", registry) /\ LeavesPending(t)
      BY <1>14, <2>2 DEF Cancel, LeavesPending
    <3>2. Cleared(t, registry)
      BY <1>1, <2>2, ClearedType
    <3> QED BY <1>1, <2>1, <2>2, <3>1, <3>2, FinishFleet
  <2>3. CASE status[t] = "leased"
    <3>1. /\ Finish(t, "cancelled", Released(registry, holder[t], t))
          /\ LeavesPending(t)
      BY <1>14, <2>3 DEF Cancel, LeavesPending
    <3> QED BY <1>8, <2>1, <2>3, <3>1, FinishFleet
  <2> QED BY <1>14, <2>2, <2>3 DEF Cancel
<1>15. ASSUME NEW t \in Tasks, Reclaim(t)
       PROVE  FleetShape
  BY <1>8, <1>15, GiveUpFleet DEF Reclaim
<1>16. ASSUME ForgetFinished
       PROVE  FleetShape
  BY <1>16, ForgetShape DEF FleetShape
<1>17. ASSUME RegistryStep
       PROVE  FleetShape
  BY <1>2, <1>3, <1>4, <1>17 DEF RegistryStep, Deregister, Prune, Turn
<1>18. ASSUME AgentStep
       PROVE  FleetShape
  BY <1>5, <1>6, <1>10, <1>11, <1>12, <1>18 DEF AgentStep
<1> QED BY <1>7, <1>9, <1>13, <1>14, <1>15, <1>16, <1>17, <1>18 DEF Next

LEMMA ClearedStates ==
  ASSUME IInv, NEW t \in Tasks, NEW r, Cleared(t, r)
  PROVE  SameStates(registry, r)
<1>1. PICK q \in [Agents -> Record] :
        /\ \/ q = registry
           \/ \E a \in Agents, m \in Memory : q = Reported(registry, a, m)
        /\ r = IF status[t] = "leased" THEN Released(q, holder[t], t) ELSE q
  BY DEF Cleared
<1>2. SameStates(registry, q)
  <2>1. CASE q = registry
    BY <2>1 DEF SameStates
  <2>2. CASE q # registry
    BY <1>1, <2>2, ReportedType DEF IInv, TypeOK
  <2> QED BY <2>1, <2>2
<1>3. CASE status[t] = "leased"
  <2>1. SameStates(q, r)
    BY <1>1, <1>3, ReleasedType DEF IInv, HolderNamed
  <2> QED BY <1>2, <2>1 DEF SameStates
<1>4. CASE status[t] # "leased"
  BY <1>1, <1>2, <1>4
<1> QED BY <1>3, <1>4

\* A step that neither attaches nor detaches leaves alone who is attached.
LEMMA StatesKept ==
  ASSUME IInv, NEW t \in Tasks,
         \/ \E a \in Agents : Gets(t, a)
         \/ Queues(t) \/ Closes(t)
  PROVE  SameStates(registry, registry')
<1>1. ASSUME NEW a \in Agents, Gets(t, a)
      PROVE  SameStates(registry, registry')
  <2>1. PICK r \in [Agents -> Record] :
          Cleared(t, r) /\ registry' = Admitted(r, a, t)
    BY <1>1 DEF Gets
  <2>2. SameStates(registry, r) /\ SameStates(r, registry')
    BY <2>1, ClearedStates, AdmittedType
  <2> QED BY <2>2 DEF SameStates
<1>2. ASSUME Queues(t) \/ Closes(t)
      PROVE  SameStates(registry, registry')
  BY <1>2, ClearedStates DEF Queues, Closes
<1> QED BY <1>1, <1>2

LEMMA IdlesStates ==
  ASSUME IInv, Idles
  PROVE  SameStates(registry, registry')
<1>1. CASE registry' = registry
  BY <1>1 DEF SameStates
<1>2. CASE registry' # registry
  BY <1>2, ReportedType DEF Idles, IInv, TypeOK
<1> QED BY <1>1, <1>2

\* register, as the fleet sees it: a becomes attached, and every other
\* registration stays as it was or leaves; of those of a's worker one leaves.
LEMMA RegisteredStates ==
  ASSUME NEW r \in [Agents -> Record], NEW a \in Agents, NEW m \in Memory,
         r[a].state = "new", NEW s \in Registered(r, a, m)
  PROVE  /\ s[a].state = "live"
         /\ \A b \in Agents \ {a} : s[b].state \in {r[b].state, "superseded"}
         /\ LiveInstances(r, a) # {} =>
              \E b \in LiveInstances(r, a) : s[b].state = "superseded"
<1> DEFINE added == [r EXCEPT ![a] = [Blank("live") EXCEPT !.memory = m]]
<1>1. added[a].state = "live" /\ \A b \in Agents \ {a} : added[b] = r[b]
  BY DEF Blank
<1>2. added \in [Agents -> Record]
  BY BlankType DEF Record
<1>3. IF LiveInstances(r, a) = {} THEN s = added
      ELSE \E b \in LiveInstances(r, a) :
             s = [added EXCEPT ![b] = Blank("superseded")]
  BY DEF Registered
<1>4. LiveInstances(r, a) \subseteq Agents \ {a}
  BY DEF LiveInstances, Live
<1> HIDE DEF added
<1>5. CASE LiveInstances(r, a) = {}
  BY <1>1, <1>3, <1>5
<1>6. ASSUME NEW b \in LiveInstances(r, a),
             s = [added EXCEPT ![b] = Blank("superseded")]
      PROVE  /\ s[b].state = "superseded" /\ s[a].state = "live"
             /\ \A c \in Agents \ {a} : s[c].state \in {r[c].state, "superseded"}
  <2>1. b \in Agents /\ b # a
    BY <1>4
  <2>2. s[b] = Blank("superseded") /\ \A c \in Agents \ {b} : s[c] = added[c]
    BY <1>2, <1>6, <2>1
  <2> QED BY <1>1, <2>1, <2>2 DEF Blank
<1> QED BY <1>3, <1>5, <1>6

\* An id that has not been given out has nobody polling for it.
NewIsIdle == \A a \in Agents : registry[a].state = "new" => parked[a] = 0

FleetInv ==
  IInv /\ NewIsIdle /\ OneRegistration /\ DispatchSound /\ NoIdleMatch

LEMMA InitFleetInv ==
  ASSUME Init
  PROVE  FleetInv
<1>1. Live(registry) = {} /\ Queued = {} /\ handoff = {} /\ NewIsIdle
  BY DEF Init, NewRegistry, Blank, Live, Knows, Queued, NewIsIdle
<1> QED BY <1>1, InitIInv
      DEF FleetInv, OneRegistration, DispatchSound, NoIdleMatch

\* What a dispatch needs is still there after a step that changes neither
\* its task nor who is attached.
LEMMA DispatchKept ==
  ASSUME DispatchSound, SameStates(registry, registry'),
         handoff \in SUBSET Tasks,
         NEW u \in handoff, status'[u] = status[u], holder'[u] = holder[u]
  PROVE  LET a == holder'[u] IN
           /\ status'[u] = "leased" /\ a \in Agents /\ registry'[a].state = "live"
           /\ u \in Capable[a] /\ a \in Target[u]
BY DEF DispatchSound, LeasedBy, Knows, SameStates

LEMMA StepFleetInv ==
  ASSUME FleetInv, [Next]_vars
  PROVE  FleetInv'
<1>1. IInv' /\ IInv
  BY StepIInv DEF FleetInv
<1>2. CASE UNCHANGED vars
  BY <1>1, <1>2 DEF vars, FleetInv, NewIsIdle, OneRegistration, DispatchSound,
                    NoIdleMatch, Queued, LeasedBy
<1>3. CASE Next
  <2>1. /\ registry \in [Agents -> Record] /\ parked \in [Agents -> Nat]
        /\ registry' \in [Agents -> Record] /\ parked' \in [Agents -> Nat]
        /\ handoff \in SUBSET Tasks /\ status \in [Tasks -> Status]
        /\ holder \in [Tasks -> Agents \cup {NoAgent}]
        /\ pending \in Seq(Tasks) /\ ToSet(pending) = Queued
    BY <1>1 DEF IInv, TypeOK, PendingExact
  <2>2. NewIsIdle /\ OneRegistration /\ DispatchSound /\ NoIdleMatch
    BY DEF FleetInv
  <2> DEFINE Goal == NewIsIdle' /\ OneRegistration' /\ DispatchSound' /\ NoIdleMatch'
  <2>3. ASSUME Attaches PROVE Goal
    <3>1. PICK a \in Agents, m \in Memory :
            registry[a].state = "new" /\ registry' \in Registered(registry, a, m)
      BY <2>3 DEF Attaches
    <3>2. /\ registry'[a].state = "live"
          /\ \A b \in Agents \ {a} : registry'[b].state \in {registry[b].state, "superseded"}
          /\ LiveInstances(registry, a) # {} =>
               \E b \in LiveInstances(registry, a) : registry'[b].state = "superseded"
      BY <2>1, <3>1, RegisteredStates
    <3>3. /\ parked[a] = 0 /\ parked' = parked /\ handoff' = {}
          /\ Queued' = Queued
      BY <2>2, <2>3, <3>1 DEF Attaches, NewIsIdle, Nothing, Queued
    <3>4. Live(registry') \subseteq Live(registry) \cup {a}
      BY <3>2 DEF Live, Knows
    <3>5. NewIsIdle'
      BY <2>2, <3>2, <3>3 DEF NewIsIdle
    <3>6. OneRegistration'
      <4>1. ASSUME NEW b \in Live(registry'), b # a,
                   Instance[b] = Instance[a], Instance[a] # NoInstance
            PROVE  FALSE
        <5>1. b \in LiveInstances(registry, a)
          BY <3>4, <4>1 DEF LiveInstances
        <5>2. PICK c \in LiveInstances(registry, a) : registry'[c].state = "superseded"
          BY <3>2, <5>1
        <5>3. b = c
          BY <2>2, <5>1, <5>2 DEF OneRegistration, LiveInstances
        <5> QED BY <4>1, <5>2, <5>3 DEF Live, Knows
      <4>2. ASSUME NEW b \in Live(registry'), NEW c \in Live(registry'),
                   Instance[b] = Instance[c], Instance[b] # NoInstance
            PROVE  b = c
        <5>1. CASE b = a \/ c = a
          BY <4>1, <4>2, <5>1
        <5>2. CASE b # a /\ c # a
          BY <2>2, <3>4, <4>2, <5>2 DEF OneRegistration
        <5> QED BY <5>1, <5>2
      <4> QED BY <4>2 DEF OneRegistration
    <3>7. DispatchSound'
      BY <3>3 DEF DispatchSound
    <3>8. NoIdleMatch'
      BY <2>1, <2>2, <3>3, <3>4 DEF NoIdleMatch
    <3> QED BY <3>5, <3>6, <3>7, <3>8
  <2>4. ASSUME Detaches PROVE Goal
    <3>1. PICK ids \in SUBSET Agents : registry' = Dropped(registry, ids)
      BY <2>4 DEF Detaches
    <3>2. \A b \in Agents : registry'[b].state \in {registry[b].state, "gone"}
      BY <3>1 DEF Dropped, Blank
    <3>3. parked' = parked /\ handoff' = {} /\ Queued' = Queued
      BY <2>4 DEF Detaches, Nothing, Queued
    <3>4. Live(registry') \subseteq Live(registry)
      BY <3>2 DEF Live, Knows
    <3> QED BY <2>2, <3>2, <3>3, <3>4
          DEF NewIsIdle, OneRegistration, DispatchSound, NoIdleMatch
  <2>5. ASSUME SameStates(registry, registry')
        PROVE  /\ Live(registry') = Live(registry)
               /\ OneRegistration'
               /\ \A a \in Agents : registry'[a].state = registry[a].state
    <3>1. Live(registry') = Live(registry)
      BY <2>5 DEF SameStates, Live, Knows
    <3> QED BY <2>2, <2>5, <3>1 DEF OneRegistration, SameStates
  <2>6. ASSUME SameStates(registry, registry'),
               \A b \in Agents : parked'[b] <= parked[b]
        PROVE  /\ NewIsIdle'
               /\ \A b \in Agents : parked'[b] > 0 => parked[b] > 0
    <3>1. \A b \in Agents : parked'[b] \in Nat /\ parked[b] \in Nat
      BY <2>1
    <3>2. \A b \in Agents : registry[b].state = "new" => parked'[b] = 0
      BY <2>2, <2>6, <3>1 DEF NewIsIdle
    <3> QED BY <2>5, <2>6, <3>1, <3>2 DEF NewIsIdle
  <2>7. ASSUME Idles PROVE Goal
    <3>1. SameStates(registry, registry')
      BY <1>1, <2>7, IdlesStates
    <3>2. /\ status' = status /\ holder' = holder /\ handoff' \subseteq handoff
          /\ Queued' = Queued
      BY <2>7 DEF Idles, Nothing, Queued
    <3>3. DispatchSound'
      <4>1. ASSUME NEW u \in handoff' PROVE
              LET a == holder'[u] IN
                /\ status'[u] = "leased" /\ a \in Agents
                /\ registry'[a].state = "live"
                /\ u \in Capable[a] /\ a \in Target[u]
        <5>1. u \in handoff /\ status'[u] = status[u] /\ holder'[u] = holder[u]
          BY <3>2
        <5> QED BY <2>1, <2>2, <3>1, <5>1, DispatchKept
      <4> QED BY <4>1 DEF DispatchSound, LeasedBy, Knows
    <3>4. CASE \A b \in Agents : parked'[b] <= parked[b]
      <4>1. NewIsIdle' /\ \A b \in Agents : parked'[b] > 0 => parked[b] > 0
        BY <2>6, <3>1, <3>4
      <4>2. NoIdleMatch'
        BY <2>2, <2>5, <3>1, <3>2, <4>1 DEF NoIdleMatch, Live
      <4> QED BY <2>5, <3>1, <3>3, <4>1, <4>2
    <3>5. ASSUME NEW a \in Agents, Parks(a)
          PROVE  Goal
      <4>1. /\ registry[a].state = "live"
            /\ \A b \in Agents \ {a} : parked'[b] = parked[b]
        BY <3>5 DEF Parks, Knows
      <4>2. NewIsIdle'
        BY <2>2, <2>5, <3>1, <4>1 DEF NewIsIdle
      <4>3. PICK r \in [Agents -> Record] : Runnable(a, r) = {}
        BY <3>5 DEF Parks
      <4>4. ASSUME NEW t \in Queued, t \in Capable[a], a \in Target[t],
                   Needs[t] = 0
            PROVE  FALSE
        <5>1. PICK i \in DOMAIN pending : pending[i] = t
          BY <2>1 DEF ToSet
        <5>2. i \in Runnable(a, r)
          BY <4>4, <5>1 DEF Runnable, CanAdmit
        <5> QED BY <4>3, <5>2
      <4>5. NoIdleMatch'
        BY <2>2, <2>5, <3>1, <3>2, <4>1, <4>4 DEF NoIdleMatch, Live
      <4> QED BY <2>5, <3>1, <3>3, <4>2, <4>5
    <3> QED BY <2>7, <3>4, <3>5 DEF Idles
  <2>8. ASSUME NEW t \in Tasks, NEW a \in Agents, NEW n \in Nat,
               Leases(t, a, n), Gets(t, a)
        PROVE  Goal
    <3>1. SameStates(registry, registry')
      BY <1>1, <2>8, StatesKept
    <3>2. /\ status' = [status EXCEPT ![t] = "leased"]
          /\ holder' = [holder EXCEPT ![t] = a]
      BY <2>8 DEF Leases
    <3>3. /\ handoff' = handoff \cup {t}
          /\ \A b \in Agents : parked'[b] <= parked[b]
          /\ t \in Capable[a] /\ a \in Target[t]
      BY <2>8 DEF Gets
    <3>4. registry'[a].state = "live"
      <4>1. PICK r \in [Agents -> Record] : Cleared(t, r) /\ Knows(r, a)
        BY <2>8 DEF Gets
      <4>2. SameStates(registry, r)
        BY <1>1, <4>1, ClearedStates
      <4> QED BY <3>1, <4>1, <4>2 DEF SameStates, Knows
    <3>5. Queued' \subseteq Queued
      BY <2>1, <3>2 DEF Queued
    <3>6. NewIsIdle' /\ \A b \in Agents : parked'[b] > 0 => parked[b] > 0
      BY <2>6, <3>1, <3>3
    <3>7. NoIdleMatch'
      BY <2>2, <2>5, <3>1, <3>5, <3>6 DEF NoIdleMatch, Live
    <3>8. DispatchSound'
      <4>1. ASSUME NEW u \in handoff' PROVE
              LET b == holder'[u] IN
                /\ status'[u] = "leased" /\ b \in Agents
                /\ registry'[b].state = "live"
                /\ u \in Capable[b] /\ b \in Target[u]
        <5>1. CASE u = t
          BY <2>1, <3>2, <3>3, <3>4, <5>1
        <5>2. CASE u # t
          <6>1. u \in handoff /\ status'[u] = status[u] /\ holder'[u] = holder[u]
            BY <2>1, <3>2, <3>3, <5>2
          <6> QED BY <2>1, <2>2, <3>1, <6>1, DispatchKept
        <5> QED BY <5>1, <5>2
      <4> QED BY <4>1 DEF DispatchSound, LeasedBy, Knows
    <3> QED BY <2>5, <3>1, <3>6, <3>7, <3>8
  <2>9. ASSUME NEW t \in Tasks, NEW n \in Nat, Waits(t, n), Queues(t)
        PROVE  Goal
    <3>1. SameStates(registry, registry')
      BY <1>1, <2>9, StatesKept
    <3>2. /\ status' = [status EXCEPT ![t] = "queued"]
          /\ holder' = [holder EXCEPT ![t] = NoAgent]
      BY <2>9 DEF Waits
    <3>3. handoff' = handoff \ {t} /\ parked' = parked
      BY <2>9 DEF Queues
    <3>4. Queued' = Queued \cup {t}
      BY <2>1, <3>2 DEF Queued
    <3>5. \A b \in Live(registry) :
            ~(parked[b] > 0 /\ t \in Capable[b] /\ b \in Target[t] /\ Needs[t] = 0)
      <4>1. PICK r \in [Agents -> Record] : Cleared(t, r) /\ Eligible(t, r) = {}
        BY <2>9 DEF Queues
      <4>2. SameStates(registry, r)
        BY <1>1, <4>1, ClearedStates
      <4> QED BY <4>1, <4>2 DEF Eligible, CanAdmit, SameStates, Live, Knows
    <3>6. NoIdleMatch'
      BY <2>2, <2>5, <3>1, <3>3, <3>4, <3>5 DEF NoIdleMatch
    <3>7. NewIsIdle'
      BY <2>2, <2>5, <3>1, <3>3 DEF NewIsIdle
    <3>8. DispatchSound'
      <4>1. ASSUME NEW u \in handoff' PROVE
              LET b == holder'[u] IN
                /\ status'[u] = "leased" /\ b \in Agents
                /\ registry'[b].state = "live"
                /\ u \in Capable[b] /\ b \in Target[u]
        <5>1. u \in handoff /\ status'[u] = status[u] /\ holder'[u] = holder[u]
          BY <2>1, <3>2, <3>3
        <5> QED BY <2>1, <2>2, <3>1, <5>1, DispatchKept
      <4> QED BY <4>1 DEF DispatchSound, LeasedBy, Knows
    <3> QED BY <2>5, <3>1, <3>6, <3>7, <3>8
  <2>10. ASSUME NEW gone \in SUBSET Finished, SameStates(registry, registry'),
                Queued' \subseteq Queued,
                \A u \in handoff : u \notin gone => status'[u] = status[u],
                UNCHANGED <<holder, parked, handoff>>
         PROVE  Goal
    <3>1. NoIdleMatch' /\ NewIsIdle'
      BY <2>2, <2>5, <2>10 DEF NoIdleMatch, NewIsIdle
    <3>2. DispatchSound'
      <4>1. ASSUME NEW u \in handoff' PROVE
              LET b == holder'[u] IN
                /\ status'[u] = "leased" /\ b \in Agents
                /\ registry'[b].state = "live"
                /\ u \in Capable[b] /\ b \in Target[u]
        <5>1. u \in handoff /\ u \notin gone
          BY <2>2, <2>10 DEF DispatchSound, LeasedBy, Finished, Terminal
        <5>2. status'[u] = status[u] /\ holder'[u] = holder[u]
          BY <2>10, <5>1
        <5> QED BY <2>1, <2>2, <2>10, <5>1, <5>2, DispatchKept
      <4> QED BY <4>1 DEF DispatchSound, LeasedBy, Knows
    <3> QED BY <2>5, <2>10, <3>1, <3>2
  <2>11. ASSUME NEW t \in Tasks, NEW s \in Terminal, NEW gone \in SUBSET Finished,
                Ends(t, s, gone), Closes(t)
         PROVE  Goal
    <3>1. SameStates(registry, registry')
      BY <1>1, <2>11, StatesKept
    <3>2. Queued' \subseteq Queued
      BY <2>1, <2>11 DEF Ends, Queued, Terminal
    <3>3. \A u \in handoff : u \notin gone => status'[u] = status[u]
      BY <2>1, <2>11 DEF Ends, Closes
    <3> QED BY <2>10, <2>11, <3>1, <3>2, <3>3 DEF Ends, Closes
  <2>12. ASSUME NEW gone \in SUBSET Finished, Forgets(gone),
                UNCHANGED <<registry, parked, handoff>>
         PROVE  Goal
    <3>1. SameStates(registry, registry')
      BY <2>12 DEF SameStates
    <3>2. Queued' \subseteq Queued
      BY <2>1, <2>12 DEF Forgets, Queued
    <3>3. \A u \in handoff : u \notin gone => status'[u] = status[u]
      BY <2>1, <2>12 DEF Forgets
    <3> QED BY <2>10, <2>12, <3>1, <3>2, <3>3 DEF Forgets
  <2>13. FleetShape
    BY <1>1, <1>3, StepFleetShape
  <2> QED BY <1>1, <2>3, <2>4, <2>7, <2>8, <2>9, <2>11, <2>12, <2>13
        DEF FleetShape, FleetInv
<1> QED BY <1>2, <1>3

LEMMA FleetInductive == Spec => []FleetInv
<1>1. Init => FleetInv
  BY InitFleetInv
<1>2. FleetInv /\ [Next]_vars => FleetInv'
  BY StepFleetInv
<1> QED BY <1>1, <1>2, PTL DEF Spec

\* One worker holds one registration, however often it crashes and registers
\* again (registry.js: register, #findLiveInstance).
THEOREM RegistrationsAreUnique == Spec => []OneRegistration
<1>1. FleetInv => OneRegistration
  BY DEF FleetInv
<1> QED BY <1>1, FleetInductive, PTL

\* A dispatch in flight is to an attached agent that can run the task
\* (queue.js: #findWaiterFor, #assign, lease).
THEOREM DispatchesAreSound == Spec => []DispatchSound
<1>1. FleetInv => DispatchSound
  BY DEF FleetInv
<1> QED BY <1>1, FleetInductive, PTL

\* No queued task that needs no memory is waiting while an attached agent
\* that could run it is parked (queue.js: #requeue, enqueue, lease).
THEOREM NoWakeupIsLost == Spec => []NoIdleMatch
<1>1. FleetInv => NoIdleMatch
  BY DEF FleetInv
<1> QED BY <1>1, FleetInductive, PTL
----------------------------------------------------------------------------
(* The ledger: what the registry charges an agent with is what it holds.   *)

HeldBy == [a \in Agents |-> Held(a)]

LedgerInv == FleetInv /\ Balanced(registry, HeldBy)

\* The lease of t, if it has one, taken from its holder.
Without(t) ==
  [a \in Agents |-> IF status[t] = "leased" /\ holder[t] = a
                    THEN Held(a) \ {t} ELSE Held(a)]

LEMMA InitLedgerInv ==
  ASSUME Init
  PROVE  LedgerInv
<1>1. \A a \in Agents : HeldBy[a] = {} /\ ~Knows(registry, a)
  BY DEF Init, HeldBy, Held, LeasedBy, NewRegistry, Blank, Knows
<1>2. IsFiniteSet({})
  BY NoLeases
<1> QED BY <1>1, <1>2, InitFleetInv DEF LedgerInv, Balanced

\* In the middle of a turn the ledger balances without the lease of t.
LEMMA ClearedBalanced ==
  ASSUME LedgerInv, NEW t \in Tasks, NEW r, Cleared(t, r)
  PROVE  Balanced(r, Without(t))
<1>1. PICK q \in [Agents -> Record] :
        /\ \/ q = registry
           \/ \E a \in Agents, m \in Memory : q = Reported(registry, a, m)
        /\ r = IF status[t] = "leased" THEN Released(q, holder[t], t) ELSE q
  BY DEF Cleared
<1>2. registry \in [Agents -> Record] /\ Balanced(registry, HeldBy)
  BY DEF LedgerInv, FleetInv, IInv, TypeOK
<1>3. Balanced(q, HeldBy)
  <2>1. CASE q = registry
    BY <1>2, <2>1
  <2>2. CASE q # registry
    BY <1>1, <1>2, <2>2, ReportedBalanced
  <2> QED BY <2>1, <2>2
<1>4. CASE status[t] = "leased"
  <2> DEFINE a == holder[t]
  <2>1. a \in Agents /\ t \in HeldBy[a] /\ HeldBy \in [Agents -> SUBSET Tasks]
    BY <1>4 DEF LedgerInv, FleetInv, IInv, HolderNamed, HeldBy, Held, LeasedBy
  <2>2. Balanced(Released(q, a, t), [HeldBy EXCEPT ![a] = @ \ {t}])
    <3> HIDE DEF a
    <3> QED BY <1>3, <2>1, ReleasedBalanced
  <2>3. [HeldBy EXCEPT ![a] = @ \ {t}] = Without(t)
    BY <1>4 DEF HeldBy, Without
  <2> QED BY <1>1, <1>4, <2>2, <2>3
<1>5. CASE status[t] # "leased"
  <2>1. HeldBy = Without(t)
    BY <1>5 DEF HeldBy, Without
  <2> QED BY <1>1, <1>3, <1>5, <2>1
<1> QED BY <1>4, <1>5

LEMMA StepLedgerInv ==
  ASSUME LedgerInv, [Next]_vars
  PROVE  LedgerInv'
<1>1. FleetInv' /\ FleetInv /\ Balanced(registry, HeldBy)
  BY StepFleetInv DEF LedgerInv
<1>2. CASE UNCHANGED vars
  <2>1. HeldBy' = HeldBy
    BY <1>2 DEF vars, HeldBy, Held, LeasedBy
  <2> QED BY <1>1, <1>2, <2>1 DEF vars, LedgerInv
<1>3. CASE Next
  <2>1. /\ registry \in [Agents -> Record]
        /\ status \in [Tasks -> Status]
        /\ holder \in [Tasks -> Agents \cup {NoAgent}]
    BY <1>1 DEF FleetInv, IInv, TypeOK
  <2>2. FleetShape
    BY <1>1, <1>3, StepFleetShape DEF FleetInv
  <2> DEFINE Goal == Balanced(registry', HeldBy')
  <2>3. ASSUME Nothing PROVE HeldBy' = HeldBy
    BY <2>3 DEF Nothing, HeldBy, Held, LeasedBy
  <2>4. ASSUME Attaches PROVE Goal
    <3>1. Balanced(registry', HeldBy)
      BY <1>1, <2>1, <2>4, RegisteredBalanced DEF Attaches
    <3> QED BY <2>3, <2>4, <3>1 DEF Attaches
  <2>5. ASSUME Detaches PROVE Goal
    <3>1. Balanced(registry', HeldBy)
      BY <1>1, <2>1, <2>5, DroppedBalanced DEF Detaches
    <3> QED BY <2>3, <2>5, <3>1 DEF Detaches
  <2>6. ASSUME Idles PROVE Goal
    <3>1. CASE registry' = registry
      BY <1>1, <2>3, <2>6, <3>1 DEF Idles
    <3>2. CASE registry' # registry
      <4>1. Balanced(registry', HeldBy)
        BY <1>1, <2>1, <2>6, <3>2, ReportedBalanced DEF Idles
      <4> QED BY <2>3, <2>6, <4>1 DEF Idles
    <3> QED BY <3>1, <3>2
  <2>7. ASSUME NEW t \in Tasks, NEW a \in Agents, NEW n \in Nat,
               Leases(t, a, n), Gets(t, a)
        PROVE  Goal
    <3>1. PICK r \in [Agents -> Record] :
            /\ Cleared(t, r) /\ Knows(r, a)
            /\ registry' = Admitted(r, a, t)
      BY <2>7 DEF Gets
    <3>2. Balanced(r, Without(t)) /\ Without(t) \in [Agents -> SUBSET Tasks]
      BY <3>1, ClearedBalanced DEF Without, Held
    <3>3. t \notin Without(t)[a]
      BY DEF Without, Held, LeasedBy
    <3>4. Balanced(registry', [Without(t) EXCEPT ![a] = @ \cup {t}])
      BY <3>1, <3>2, <3>3, AdmittedBalanced
    <3>5. /\ status' = [status EXCEPT ![t] = "leased"]
          /\ holder' = [holder EXCEPT ![t] = a]
      BY <2>7 DEF Leases
    <3>6. HeldBy' = [Without(t) EXCEPT ![a] = @ \cup {t}]
      <4>1. \A b \in Agents : Held(b)' = IF b = a THEN Without(t)[b] \cup {t}
                                         ELSE Without(t)[b]
        BY <2>1, <3>5 DEF Held, LeasedBy, Without
      <4> QED BY <4>1, <3>2 DEF HeldBy
    <3> QED BY <3>4, <3>6
  <2>8. ASSUME NEW t \in Tasks, Cleared(t, registry'), HeldBy' = Without(t)
        PROVE  Goal
    BY <2>8, ClearedBalanced
  <2>9. ASSUME NEW t \in Tasks, NEW n \in Nat, Waits(t, n), Queues(t)
        PROVE  Goal
    <3>1. Cleared(t, registry')
      BY <2>9 DEF Queues
    <3>2. /\ status' = [status EXCEPT ![t] = "queued"]
          /\ holder' = [holder EXCEPT ![t] = NoAgent]
      BY <2>9 DEF Waits
    <3>3. \A b \in Agents : Held(b)' = Without(t)[b]
      BY <2>1, <3>2 DEF Held, LeasedBy, Without
    <3>4. HeldBy' = Without(t)
      BY <3>3 DEF HeldBy, Without
    <3> QED BY <2>8, <3>1, <3>4
  <2>10. ASSUME NEW t \in Tasks, NEW s \in Terminal, NEW gone \in SUBSET Finished,
                Ends(t, s, gone), Closes(t)
         PROVE  Goal
    <3>1. Cleared(t, registry')
      BY <2>10 DEF Closes
    <3>2. /\ status' = [u \in Tasks |-> IF u \in gone THEN "forgotten"
                                        ELSE IF u = t THEN s ELSE status[u]]
          /\ holder' = holder
      BY <2>10 DEF Ends
    <3>3. \A b \in Agents : Held(b)' = Without(t)[b]
      BY <2>1, <3>2 DEF Held, LeasedBy, Without, Finished, Terminal
    <3>4. HeldBy' = Without(t)
      BY <3>3 DEF HeldBy, Without
    <3> QED BY <2>8, <3>1, <3>4
  <2>11. ASSUME NEW gone \in SUBSET Finished, Forgets(gone),
                UNCHANGED <<registry, parked, handoff>>
         PROVE  Goal
    <3>1. \A b \in Agents : Held(b)' = Held(b)
      BY <2>1, <2>11 DEF Held, LeasedBy, Forgets, Finished, Terminal
    <3>2. HeldBy' = HeldBy
      BY <3>1 DEF HeldBy
    <3> QED BY <1>1, <2>11, <3>2
  <2> QED BY <1>1, <2>2, <2>4, <2>5, <2>6, <2>7, <2>9, <2>10, <2>11
        DEF FleetShape, LedgerInv
<1> QED BY <1>2, <1>3

LEMMA LedgerInductive == Spec => []LedgerInv
<1>1. Init => LedgerInv
  BY InitLedgerInv
<1>2. LedgerInv /\ [Next]_vars => LedgerInv'
  BY StepLedgerInv
<1> QED BY <1>1, <1>2, PTL DEF Spec

\* What the registry charges an attached agent with, in leases and in
\* promised memory, is what that agent holds (registry.js: admit, release).
THEOREM LedgerIsExact == Spec => []LedgerExact
<1>1. ASSUME LedgerInv, NEW a \in Live(registry)
      PROVE  /\ registry[a].inFlight = Cardinality(Held(a))
             /\ registry[a].reserved = MapThenSumSet(LAMBDA t : Needs[t], Held(a))
  <2>1. Ledger(registry[a], Held(a))
    BY <1>1 DEF LedgerInv, Balanced, HeldBy, Live
  <2> QED BY <2>1, Zenon DEF Ledger, SumOf
<1>2. LedgerInv => LedgerExact
  BY <1>1, Zenon DEF LedgerExact
<1> QED BY <1>2, LedgerInductive, PTL
=============================================================================
