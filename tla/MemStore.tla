------------------------------ MODULE MemStore ------------------------------
(***************************************************************************)
(* A machine that lends its memory twice over: as the budget of memory     *)
(* store values (src/agent/memstore.js behind the handler in               *)
(* src/agent/handlers/memstore.js) and as the free memory it offers for    *)
(* tasks (src/agent/memory.js).                                            *)
(*                                                                         *)
(* Bytes are small numbers.  What else runs on the machine takes no more   *)
(* and no less meanwhile.  A task of the coordinator's that was placed on  *)
(* the offer may take all of it.                                           *)
(***************************************************************************)
EXTENDS Integers, FiniteSets, Functions

CONSTANTS
  StoreKeys,
  Limit,       \* limitBytes
  MaxValue,    \* maxValueBytes
  Total,       \* the machine's memory, less what else runs on it
  Reserve      \* the larger of the reserve and its percentage

\* By default a value may take half the store; one that is configured may be
\* larger than the store.
ASSUME MemStoreAssumption ==
  {Limit, MaxValue, Total} \subseteq Nat \ {0} /\ Reserve \in Nat

VARIABLES
  entries,   \* #entries, a Map: of each key its value and the keys before it
  offered    \* the last offerableBytes the coordinator was told

memVars == <<entries, offered>>

\* older: the keys that a loop over the Map comes to first, which are the ones
\* less recently used.
Entry == [bytes : 1 .. MaxValue, ttl : BOOLEAN, expired : BOOLEAN, older : SUBSET StoreKeys]

\* Insertion order is a total order of the keys.
Ordered(es) ==
  \A k \in DOMAIN es :
    /\ es[k].older \subseteq DOMAIN es \ {k}
    /\ \A j \in DOMAIN es \ {k} : (j \in es[k].older) # (k \in es[j].older)
    /\ \A j \in es[k].older : es[j].older \subseteq es[k].older

MemStoreTypeOK ==
  /\ DOMAIN entries \subseteq StoreKeys /\ IsFiniteSet(DOMAIN entries)
  /\ entries \in [DOMAIN entries -> Entry] /\ Ordered(entries)
  /\ offered \in 0 .. Total

NoEntries == [k \in {} |-> {}]

MemStoreInit == entries = NoEntries /\ offered = 0

\* #usedBytes: put adds what it stores, every drop takes away what it held.
Sizes(es) == [k \in DOMAIN es |-> es[k].bytes]
BytesOf(es, keys) == FoldFunctionOnSet(+, 0, Sizes(es), keys)
Bytes(es) == BytesOf(es, DOMAIN es)
----------------------------------------------------------------------------
(* The store, as operators on the entries.                                 *)

\* Slip: the value a key had is not dropped.
Beside(es, keys) == es

\* #drop, of each of the keys that is there.
Without(es, keys) ==
  [k \in DOMAIN es \ keys |-> [es[k] EXCEPT !.older = @ \ keys]]
Unexpired(es) == Without(es, {k \in DOMAIN es : es[k].expired})

\* Map.set of a key that is not there: it comes last.
Added(es, key, e) ==
  [k \in DOMAIN es \cup {key} |-> IF k = key THEN [e EXCEPT !.older = DOMAIN es] ELSE es[k]]

\* #makeRoom drops from the front until the value fits: what stays is every
\* key that fits together with all that comes after it.
FromOn(es, key) == {key} \cup {k \in DOMAIN es : key \in es[k].older}
Evicted(es, bytes) ==
  Without(es, {k \in DOMAIN es : BytesOf(es, FromOn(es, k)) + bytes > Limit})

\* #makeRoom: nothing goes while the value fits, expired entries go first.
MakesRoom(es, bytes) == IF Bytes(es) + bytes <= Limit THEN es ELSE Evicted(Unexpired(es), bytes)

StoreHolds(es) == entries' = es /\ UNCHANGED offered

\* put.  A value over maxValueBytes is refused before anything else.
Put(k, bytes, ttl) ==
  StoreHolds(Added(MakesRoom(Without(entries, {k}), bytes), k,
               [bytes |-> bytes, ttl |-> ttl, expired |-> FALSE, older |-> {}]))

\* get, of what is held: an expired entry is dropped (as it is by has),
\* another is now the most recently used.
Get(k) ==
  LET rest == Without(entries, {k}) IN
  StoreHolds(IF entries[k].expired THEN rest ELSE Added(rest, k, entries[k]))

Delete(k) == StoreHolds(Without(entries, {k}))
Clear == StoreHolds(NoEntries)

\* sweep, by keys and stats.
Sweep == StoreHolds(Unexpired(entries))

Expires(k) ==
  /\ entries[k].ttl /\ ~entries[k].expired
  /\ entries' = [entries EXCEPT ![k].expired = TRUE]
  /\ UNCHANGED offered
----------------------------------------------------------------------------
(* What the agent tells the coordinator.                                   *)

AtLeast0(n) == IF n < 0 THEN 0 ELSE n

\* Slip: the handler does not say what it has promised itself.
CommittedNothing == 0

\* headroomBytes, that the handler exports as committedBytes.
Committed == AtLeast0(Limit - Bytes(entries))

\* memorySnapshot: the values held are missing from the free memory already.
Offer ==
  /\ offered' = AtLeast0(Total - Bytes(entries) - (Reserve + Committed))
  /\ UNCHANGED entries

MemStoreNext ==
  \/ \E k \in StoreKeys, b \in 1 .. MaxValue, ttl \in BOOLEAN : Put(k, b, ttl)
  \/ \E k \in DOMAIN entries : Get(k) \/ Delete(k) \/ Expires(k)
  \/ Clear \/ Sweep \/ Offer

MemStoreSpec == MemStoreInit /\ [][MemStoreNext]_memVars
----------------------------------------------------------------------------
(* Properties.                                                             *)

\* "The same RAM would be promised twice": with a task that fills the offer
\* and whatever has been stored since it was made, the machine's owner still
\* has the reserve, as long as the store keeps within its budget; what takes
\* it past that can only be one value larger than all of the budget, alone.
\* (put, #makeRoom, headroomBytes and memorySnapshot.)
LentOnce ==
  /\ Bytes(entries) > Limit => \A j, k \in DOMAIN entries : j = k
  /\ offered > 0 /\ Bytes(entries) <= Limit => offered + Bytes(entries) + Reserve <= Total
=============================================================================
