---------------------- MODULE CoordinatorRestartProofs ----------------------
(***************************************************************************)
(* Proofs about CoordinatorRestart for every set of tasks and any number   *)
(* of crashes, failed writes and unreadable journals: what is on disk, and *)
(* what a restart makes of it.                                             *)
(***************************************************************************)
EXTENDS CoordinatorRestart, FiniteSetTheorems, TLAPS
----------------------------------------------------------------------------
(* What a journal can hold, and what the queue it came from can be.        *)

\* A record a sound queue wrote: never of a task that names a credential, and
\* of one that is not over only with the attempts its status asks for.
SoundRecord(t, record) ==
  \/ record = NoRecord
  \/ /\ t \notin Secret
     /\ record.status \in {"queued", "leased"} \cup Terminal
     /\ record.status = "queued" => record.attempts < MaxAttempts[t]
     /\ record.status = "leased" => record.attempts \in 1 .. MaxAttempts[t]

Journaled(read) == {t \in Tasks : read[t] # NoRecord}

SoundSnapshot(read) ==
  /\ read \in Snapshot
  /\ \A t \in Tasks : SoundRecord(t, read[t])
  /\ IsFiniteSet(Journaled(read))

Submitted == {t \in Tasks : status[t] # "absent"}

SoundQueue ==
  /\ status \in [Tasks -> Status]
  /\ holder \in [Tasks -> Agents \cup {NoAgent}]
  /\ attempts \in Counts
  /\ receipts \in Counts
  /\ IsFiniteSet(Submitted)
  /\ \A t \in Tasks :
       /\ status[t] = "absent" => attempts[t] = 0
       /\ status[t] = "queued" => attempts[t] < MaxAttempts[t]
       /\ status[t] = "leased" => attempts[t] \in 1 .. MaxAttempts[t]

\* At most one write is in flight.
OneDraft(drafts, S) == drafts = <<>> \/ \E d \in S : drafts = <<d>>

Flags ==
  /\ phase \in Phase
  /\ due \in BOOLEAN /\ landed \in BOOLEAN /\ clean \in BOOLEAN
  /\ found \in {"read", "damaged", "unreadable"}
  /\ trouble \in Nat /\ spent \in [Tasks -> Int]

SoundJournal ==
  /\ SoundSnapshot(file)
  /\ OneDraft(draft, Snapshot)
  /\ draft # <<>> => SoundSnapshot(draft[1])

SoundLedger ==
  /\ ledgerFile \in Counts
  /\ OneDraft(ledgerDraft, Counts)
  /\ ledgerDue \in Nat

\* A process that is gone has no write under way.
AtRest ==
  ~Running => ~due /\ draft = <<>> /\ ledgerDue = 0 /\ ledgerDraft = <<>>

IInv == Flags /\ SoundQueue /\ SoundJournal /\ SoundLedger /\ AtRest

LEMMA IInvTypes == IInv => TypeOK
<1>1. ASSUME NEW S, NEW d, OneDraft(d, S)
      PROVE  Len(d) <= 1 /\ \A i \in DOMAIN d : d[i] \in S
  <2>1. CASE d = <<>>
    BY <2>1
  <2>2. ASSUME NEW e \in S, d = <<e>>
        PROVE  Len(d) <= 1 /\ \A i \in DOMAIN d : d[i] \in S
    BY <2>2
  <2> QED BY <1>1, <2>1, <2>2 DEF OneDraft
<1>2. ASSUME IInv
      PROVE  TypeOK
  <2>1. /\ Len(draft) <= 1 /\ \A i \in DOMAIN draft : draft[i] \in Snapshot
        /\ Len(ledgerDraft) <= 1 /\ \A i \in DOMAIN ledgerDraft : ledgerDraft[i] \in Counts
    BY <1>1, <1>2 DEF IInv, SoundJournal, SoundLedger
  <2> QED BY <1>2, <2>1 DEF IInv, Flags, SoundQueue, SoundJournal, SoundLedger,
                            SoundSnapshot, TypeOK
<1> QED BY <1>2

\* What toRecord writes of a sound queue can be read back.
LEMMA RecordedSound ==
  ASSUME SoundQueue
  PROVE  SoundSnapshot(Recorded)
<1>1. NoRecord \in JournalRecord
  BY DEF NoRecord, JournalRecord, Status
<1>2. \A t \in Tasks :
        [status |-> status[t], holder |-> holder[t], attempts |-> attempts[t]]
          \in JournalRecord
  BY DEF SoundQueue, JournalRecord, Counts
<1>3. Recorded \in Snapshot
  BY <1>1, <1>2 DEF Recorded, Snapshot
<1>4. \A t \in Tasks : SoundRecord(t, Recorded[t])
  BY DEF SoundQueue, Recorded, SoundRecord, Status
<1>5. Journaled(Recorded) \subseteq Submitted
  BY DEF Journaled, Recorded, Submitted
<1>6. IsFiniteSet(Journaled(Recorded))
  BY <1>5, FS_Subset DEF SoundQueue
<1> QED BY <1>3, <1>4, <1>6 DEF SoundSnapshot

LEMMA NothingSound == SoundSnapshot(Nothing)
<1>1. NoRecord \in JournalRecord
  BY DEF NoRecord, JournalRecord, Status
<1>2. Journaled(Nothing) = {}
  BY DEF Journaled, Nothing
<1> QED BY <1>1, <1>2, FS_EmptySet DEF SoundSnapshot, Snapshot, Nothing, SoundRecord

\* What a turn makes of the task it is about.
Moves(t) ==
  \/ /\ status[t] \in {"absent", "leased"} /\ status'[t] = "queued"
     /\ attempts'[t] < MaxAttempts[t]
  \/ /\ status[t] \in {"absent", "queued", "leased"} /\ status'[t] = "leased"
     /\ attempts'[t] \in 1 .. MaxAttempts[t]
  \/ status[t] \in {"queued", "leased"} /\ status'[t] \in Terminal
  \/ status[t] \in Terminal /\ status'[t] = "forgotten"

LEMMA TurnMoves ==
  ASSUME SoundQueue, NEW t \in Tasks, Turn(t)
  PROVE  /\ Moves(t)
         /\ status' \in [Tasks -> Status]
         /\ holder' \in [Tasks -> Agents \cup {NoAgent}]
         /\ attempts' \in Counts /\ receipts' \in Counts
         /\ \A u \in Tasks \ {t} :
              /\ status'[u] = status[u] /\ holder'[u] = holder[u]
              /\ attempts'[u] = attempts[u] /\ receipts'[u] = receipts[u]
         /\ receipts'[t] = IF Ends(t) THEN receipts[t] + 1 ELSE receipts[t]
         /\ status[t] \in Terminal => holder'[t] = holder[t] /\ attempts'[t] = attempts[t]
<1>1. PICK s \in Status, a \in Agents \cup {NoAgent}, n \in 0 .. MaxAttempts[t] :
        /\ status' = [status EXCEPT ![t] = s]
        /\ holder' = [holder EXCEPT ![t] = a]
        /\ attempts' = [attempts EXCEPT ![t] = n]
        /\ receipts' = [receipts EXCEPT ![t] = IF Ends(t) THEN @ + 1 ELSE @]
        /\ Queue!Wait(t) \/ Queue!Lease(t) \/ Queue!End(t) \/ Queue!Forget(t)
  BY DEF Turn
<1>2. MaxAttempts[t] \in Nat \ {0} /\ n \in Nat
  BY RestartAssumption
<1>3. /\ status \in [Tasks -> Status] /\ holder \in [Tasks -> Agents \cup {NoAgent}]
      /\ attempts \in [Tasks -> Nat] /\ receipts \in [Tasks -> Nat]
      /\ status[t] = "absent" => attempts[t] = 0
      /\ status[t] = "queued" => attempts[t] < MaxAttempts[t]
      /\ status[t] = "leased" => attempts[t] \in 1 .. MaxAttempts[t]
  BY DEF SoundQueue, Counts
<1>4. status'[t] = s /\ attempts'[t] = n
  BY <1>1, <1>3
<1>5. ASSUME NEW m \in Nat, Queue!ChargedNext(t, m)
      PROVE  m < MaxAttempts[t] /\ status[t] \in {"absent", "queued", "leased"}
  BY <1>2, <1>3, <1>5 DEF Queue!ChargedNext
<1>6. Moves(t)
  <2>1. CASE Queue!Wait(t)
    <3>1. Queue!ChargedNext(t, n)
      BY <1>4, <2>1 DEF Queue!Wait
    <3> QED BY <1>2, <1>4, <1>5, <2>1, <3>1 DEF Queue!Wait, Moves
  <2>2. CASE Queue!Lease(t)
    <3>1. PICK m \in 0 .. attempts[t] : Queue!ChargedNext(t, m) /\ n = m + 1
      BY <1>4, <2>2 DEF Queue!Lease
    <3>2. m \in Nat /\ m < MaxAttempts[t]
      BY <1>3, <1>5, <3>1
    <3>3. n \in 1 .. MaxAttempts[t]
      BY <1>2, <3>1, <3>2
    <3> QED BY <1>4, <2>2, <3>3 DEF Queue!Lease, Moves
  <2>3. CASE Queue!End(t)
    BY <2>3 DEF Queue!End, Moves, Terminal
  <2>4. CASE Queue!Forget(t)
    BY <2>4 DEF Queue!Forget, Moves, Terminal
  <2> QED BY <1>1, <2>1, <2>2, <2>3, <2>4
<1>7. /\ receipts' \in Counts
      /\ receipts'[t] = IF Ends(t) THEN receipts[t] + 1 ELSE receipts[t]
      /\ \A u \in Tasks \ {t} : receipts'[u] = receipts[u]
  BY <1>1, <1>3 DEF Counts
<1>8. status[t] \in Terminal => holder'[t] = holder[t] /\ attempts'[t] = attempts[t]
  BY <1>1 DEF Queue!Wait, Queue!Lease, Queue!End, Queue!Forget, Terminal
<1> QED BY <1>1, <1>2, <1>3, <1>6, <1>7, <1>8 DEF Counts

\* A turn keeps the history of what its task was given.
LEMMA TurnSpends ==
  ASSUME SoundQueue, spent \in [Tasks -> Int], NEW t \in Tasks, Turn(t)
  PROVE  /\ spent' \in [Tasks -> Int]
         /\ clean => /\ spent'[t] = spent[t] + attempts'[t] - attempts[t]
                     /\ \A u \in Tasks \ {t} : spent'[u] = spent[u]
<1>1. PICK n \in 0 .. MaxAttempts[t] :
        /\ attempts' = [attempts EXCEPT ![t] = n]
        /\ spent' = IF clean THEN [spent EXCEPT ![t] = @ + n - attempts[t]] ELSE spent
  BY DEF Turn
<1>2. attempts \in [Tasks -> Nat] /\ n \in Nat
  BY RestartAssumption DEF SoundQueue, Counts
<1>3. attempts'[t] = n /\ spent[t] + n - attempts[t] \in Int
  BY <1>1, <1>2
<1> QED BY <1>1, <1>3

LEMMA TurnQueue ==
  ASSUME SoundQueue, NEW t \in Tasks, Turn(t)
  PROVE  SoundQueue'
<1>1. Submitted' \subseteq Submitted \cup {t}
  BY TurnMoves DEF Submitted
<1>2. IsFiniteSet(Submitted')
  <2>1. IsFiniteSet(Submitted \cup {t})
    BY FS_AddElement DEF SoundQueue
  <2> QED BY <1>1, <2>1, FS_Subset
<1>3. \A u \in Tasks :
        /\ status'[u] = "absent" => attempts'[u] = 0
        /\ status'[u] = "queued" => attempts'[u] < MaxAttempts[u]
        /\ status'[u] = "leased" => attempts'[u] \in 1 .. MaxAttempts[u]
  BY TurnMoves DEF SoundQueue, Moves, Terminal
<1> QED BY <1>2, <1>3, TurnMoves DEF SoundQueue

\* What a start makes of the journal and the ledger it reads.
LEMMA StartQueue ==
  ASSUME SoundQueue, NEW read, SoundSnapshot(read), ledgerFile \in Counts,
         StartFrom(read)
  PROVE  /\ SoundQueue'
         /\ ledgerDue' \in Nat
         /\ \A t \in Tasks :
              /\ read[t] = NoRecord =>
                   status'[t] = IF status[t] = "absent" THEN "absent" ELSE "forgotten"
              /\ read[t].status = "queued" => status'[t] = "queued"
              /\ read[t].status = "leased" =>
                   \/ status'[t] = "queued"
                   \/ status'[t] = "failed" /\ t \in AnnouncedBy(read)
              /\ read[t].status \in Terminal =>
                   /\ status'[t] \in {read[t].status, "forgotten"}
                   /\ holder'[t] = read[t].holder
              /\ attempts'[t] = read[t].attempts
              /\ receipts'[t] = IF t \in AnnouncedBy(read)
                                THEN ledgerFile[t] + 1 ELSE ledgerFile[t]
         /\ \A t \in AnnouncedBy(read) :
              read[t].status = "leased" /\ status'[t] = "failed"
<1>1. \A t \in Tasks : MaxAttempts[t] \in Nat \ {0}
  BY RestartAssumption
<1>2. /\ status \in [Tasks -> Status] /\ IsFiniteSet(Submitted)
      /\ read \in [Tasks -> JournalRecord] /\ ledgerFile \in [Tasks -> Nat]
      /\ \A t \in Tasks : SoundRecord(t, read[t])
      /\ IsFiniteSet(Journaled(read))
  BY DEF SoundQueue, SoundSnapshot, Snapshot, Counts
<1>3. \A t \in Tasks : /\ read[t].status \in Status
                       /\ read[t].holder \in Agents \cup {NoAgent}
                       /\ read[t].attempts \in Nat
  BY <1>2 DEF JournalRecord
<1>4. PICK expired \in SUBSET {t \in Tasks : read[t].status \in Terminal} :
        status' = [t \in Tasks |->
                     IF t \in expired THEN "forgotten"
                     ELSE IF read[t] # NoRecord THEN Restored(t, read).status
                     ELSE IF status[t] # "absent" THEN "forgotten"
                     ELSE "absent"]
  BY DEF StartFrom
<1>5. /\ holder' = [t \in Tasks |-> Restored(t, read).holder]
      /\ attempts' = [t \in Tasks |-> Restored(t, read).attempts]
      /\ receipts' = [t \in Tasks |-> IF t \in AnnouncedBy(read)
                                      THEN ledgerFile[t] + 1 ELSE ledgerFile[t]]
      /\ ledgerDue' = Cardinality(AnnouncedBy(read))
  BY DEF StartFrom
<1>6. ASSUME NEW t \in Tasks
      PROVE  \/ read[t].status # "leased" /\ Restored(t, read) = read[t]
             \/ /\ read[t].status = "leased"
                /\ Restored(t, read).status = "failed"
                /\ Restored(t, read).holder = read[t].holder
                /\ Restored(t, read).attempts = read[t].attempts
             \/ /\ read[t].status = "leased"
                /\ read[t].attempts < MaxAttempts[t]
                /\ Restored(t, read).status = "queued"
                /\ Restored(t, read).holder = NoAgent
                /\ Restored(t, read).attempts = read[t].attempts
  <2>1. read[t] \in JournalRecord
    BY <1>2
  <2>2. CASE read[t].status # "leased"
    BY <2>2 DEF Restored
  <2>3. CASE read[t].status = "leased" /\ read[t].attempts >= MaxAttempts[t]
    BY <2>1, <2>3 DEF Restored, JournalRecord
  <2>4. CASE read[t].status = "leased" /\ ~(read[t].attempts >= MaxAttempts[t])
    <3>1. read[t].attempts < MaxAttempts[t]
      BY <1>1, <1>3, <2>4
    <3> QED BY <2>1, <2>4, <3>1 DEF Restored, JournalRecord
  <2> QED BY <2>2, <2>3, <2>4
<1>7. /\ AnnouncedBy(read) \subseteq Journaled(read)
      /\ \A t \in AnnouncedBy(read) : read[t].status = "leased"
      /\ \A t \in Tasks :
           read[t].status = "leased" /\ Restored(t, read).status = "failed"
             => t \in AnnouncedBy(read)
  <2>1. ASSUME NEW t \in AnnouncedBy(read)
        PROVE  t \in Journaled(read) /\ read[t].status = "leased"
    <3>1. /\ t \in Tasks /\ Restored(t, read).status \in Terminal
          /\ read[t].status \notin Terminal
      BY DEF AnnouncedBy
    <3>2. read[t].status = "leased"
      BY <1>6, <3>1
    <3>3. NoRecord.status # "leased"
      BY DEF NoRecord
    <3> QED BY <3>1, <3>2, <3>3 DEF Journaled
  <2>2. ASSUME NEW t \in Tasks, read[t].status = "leased",
               Restored(t, read).status = "failed"
        PROVE  t \in AnnouncedBy(read)
    BY <2>2 DEF AnnouncedBy, Terminal
  <2> QED BY <2>1, <2>2
<1>8. ledgerDue' \in Nat
  BY <1>2, <1>5, <1>7, FS_Subset, FS_CardinalityType
<1>9. NoRecord.status = "absent" /\ NoRecord.holder = NoAgent /\ NoRecord.attempts = 0
  BY DEF NoRecord
<1>10. ASSUME NEW t \in Tasks
       PROVE  /\ read[t] = NoRecord =>
                   status'[t] = IF status[t] = "absent" THEN "absent" ELSE "forgotten"
              /\ read[t].status = "queued" => status'[t] = "queued"
              /\ read[t].status = "leased" =>
                   \/ status'[t] = "queued" /\ read[t].attempts < MaxAttempts[t]
                   \/ status'[t] = "failed" /\ t \in AnnouncedBy(read)
              /\ read[t].status \in Terminal =>
                   /\ status'[t] \in {read[t].status, "forgotten"}
                   /\ holder'[t] = read[t].holder
              /\ attempts'[t] = read[t].attempts
              /\ holder'[t] \in Agents \cup {NoAgent}
              /\ receipts'[t] = IF t \in AnnouncedBy(read)
                                THEN ledgerFile[t] + 1 ELSE ledgerFile[t]
  <2>1. status'[t] = IF t \in expired THEN "forgotten"
                     ELSE IF read[t] # NoRecord THEN Restored(t, read).status
                     ELSE IF status[t] # "absent" THEN "forgotten"
                     ELSE "absent"
    BY <1>4
  <2>2. t \in expired => read[t].status \in Terminal
    BY <1>4
  <2>3. holder'[t] = Restored(t, read).holder /\ attempts'[t] = Restored(t, read).attempts
    BY <1>5
  <2> QED BY <1>3, <1>5, <1>6, <1>7, <1>9, <2>1, <2>2, <2>3 DEF Terminal
<1>11. \A t \in Tasks : /\ read[t] = NoRecord
                           \/ read[t].status \in {"queued", "leased"} \cup Terminal
                        /\ read[t].status = "queued" => read[t].attempts < MaxAttempts[t]
  BY <1>2, <1>9 DEF SoundRecord
<1>12. \A t \in Tasks :
         /\ status'[t] \in Status
         /\ status'[t] = "absent" => attempts'[t] = 0 /\ status[t] = "absent"
         /\ status'[t] = "queued" => attempts'[t] < MaxAttempts[t]
         /\ status'[t] # "leased"
  BY <1>9, <1>10, <1>11 DEF Status, Terminal
<1>13. IsFiniteSet(Submitted')
  <2>1. Submitted' \subseteq Submitted \cup Journaled(read)
    BY <1>10 DEF Submitted, Journaled
  <2> QED BY <1>2, <2>1, FS_Union, FS_Subset
<1>14. /\ status' \in [Tasks -> Status]
       /\ holder' \in [Tasks -> Agents \cup {NoAgent}]
       /\ attempts' \in Counts /\ receipts' \in Counts
  <2>1. \A t \in Tasks : receipts'[t] \in Nat /\ attempts'[t] \in Nat
    BY <1>2, <1>3, <1>10
  <2> QED BY <1>4, <1>5, <1>10, <1>12, <2>1 DEF Counts
<1>15. SoundQueue'
  BY <1>12, <1>13, <1>14 DEF SoundQueue
<1>16. ASSUME NEW t \in AnnouncedBy(read)
       PROVE  read[t].status = "leased" /\ status'[t] = "failed"
  <2>1. /\ t \in Tasks /\ read[t].status = "leased"
        /\ Restored(t, read).status \in Terminal
    BY <1>7 DEF AnnouncedBy
  <2>2. t \notin expired /\ read[t] # NoRecord
    BY <1>4, <1>9, <2>1 DEF Terminal
  <2>3. status'[t] = Restored(t, read).status
    BY <1>4, <2>1, <2>2
  <2> QED BY <1>6, <2>1, <2>3 DEF Terminal
<1> QED BY <1>8, <1>10, <1>15, <1>16

LEMMA InitIInv ==
  ASSUME Init
  PROVE  IInv
<1>1. /\ status = [t \in Tasks |-> "absent"] /\ holder = [t \in Tasks |-> NoAgent]
      /\ attempts = [t \in Tasks |-> 0] /\ receipts = [t \in Tasks |-> 0]
  BY DEF Init, Queue!Init
<1>2. SoundQueue
  <2>1. Submitted = {}
    BY <1>1 DEF Submitted
  <2> QED BY <1>1, <2>1, FS_EmptySet DEF SoundQueue, Status, Counts
<1>3. Flags /\ SoundJournal /\ SoundLedger /\ AtRest
  <2>1. spent \in [Tasks -> Int]
    BY DEF Init, Unspent
  <2> QED BY <2>1, NothingSound DEF Init, Flags, Phase, SoundJournal, OneDraft, SoundLedger,
                                    Counts, AtRest
<1> QED BY <1>2, <1>3 DEF IInv

LEMMA StepIInv ==
  ASSUME IInv, [Next]_vars
  PROVE  IInv'
<1> USE DEF Flags, Phase, Running, AtRest
<1>1. /\ SoundQueue /\ SoundJournal /\ SoundLedger /\ Flags /\ AtRest
      /\ MaxTrouble \in Nat /\ Unspent \in [Tasks -> Int]
  BY RestartAssumption DEF IInv, Unspent
<1>2. ASSUME UNCHANGED queueVars PROVE SoundQueue'
  BY <1>1, <1>2 DEF queueVars, SoundQueue, Submitted
<1>3. ASSUME UNCHANGED <<file, draft>> PROVE SoundJournal'
  BY <1>1, <1>3 DEF SoundJournal
<1>4. ASSUME UNCHANGED file, draft' = <<>> PROVE SoundJournal'
  BY <1>1, <1>4 DEF SoundJournal, OneDraft
<1>5. ASSUME UNCHANGED ledgerVars PROVE SoundLedger'
  BY <1>1, <1>5 DEF SoundLedger, ledgerVars
<1>6. ASSUME Gone PROVE SoundQueue' /\ SoundJournal' /\ SoundLedger'
  <2>1. SoundLedger'
    BY <1>1, <1>6 DEF Gone, SoundLedger, OneDraft
  <2> QED BY <1>2, <1>4, <1>6, <2>1 DEF Gone, queueVars
<1>7. ASSUME Trouble PROVE trouble' \in Nat
  BY <1>1, <1>7 DEF Trouble
<1>8. CASE UNCHANGED vars
  BY <1>1, <1>2, <1>3, <1>5, <1>8
     DEF vars, queueVars, journalVars, ledgerVars, troubles, IInv
<1>9. ASSUME NEW t \in Tasks, Turn(t) PROVE IInv'
  <2>1. SoundQueue'
    BY <1>1, <1>9, TurnQueue
  <2>2. SoundLedger'
    BY <1>1, <1>9 DEF Turn, SoundLedger
  <2>3. spent' \in [Tasks -> Int]
    BY <1>1, <1>9, TurnSpends
  <2> QED BY <1>1, <1>3, <1>9, <2>1, <2>2, <2>3 DEF Turn, IInv
<1>10. CASE WriteStarts
  <2>1. SoundJournal'
    <3>1. SoundSnapshot(Recorded)
      BY <1>1, RecordedSound
    <3>2. draft' = <<Recorded>> /\ file' = file
      BY <1>10 DEF WriteStarts
    <3>3. Recorded \in Snapshot /\ draft'[1] = Recorded
      BY <3>1, <3>2 DEF SoundSnapshot
    <3> QED BY <1>1, <3>1, <3>2, <3>3 DEF SoundJournal, OneDraft
  <2> QED BY <1>1, <1>2, <1>5, <1>10, <2>1
             DEF WriteStarts, troubles, IInv
<1>11. CASE WriteLands
  <2>1. SoundJournal'
    BY <1>1, <1>11 DEF WriteLands, SoundJournal, OneDraft
  <2> QED BY <1>1, <1>2, <1>5, <1>11, <2>1
             DEF WriteLands, troubles, IInv
<1>12. CASE WriteFails
  BY <1>1, <1>2, <1>4, <1>5, <1>7, <1>12 DEF WriteFails, Mishap, IInv
<1>13. CASE LedgerStarts
  <2>1. SoundLedger'
    <3>1. ledgerDue' \in Nat
      BY <1>1, <1>13 DEF LedgerStarts, SoundLedger
    <3> QED BY <1>1, <1>13, <3>1 DEF LedgerStarts, SoundLedger, SoundQueue, OneDraft
  <2> QED BY <1>1, <1>2, <1>3, <1>13, <2>1
             DEF LedgerStarts, journalVars, troubles, IInv
<1>14. CASE LedgerLands
  <2>1. SoundLedger'
    BY <1>1, <1>14 DEF LedgerLands, SoundLedger, OneDraft
  <2> QED BY <1>1, <1>2, <1>3, <1>14, <2>1
             DEF LedgerLands, journalVars, troubles, IInv
<1>15. CASE LedgerFails
  <2>1. CASE phase' = "off" /\ Gone
    BY <1>1, <1>6, <1>7, <1>15, <2>1 DEF LedgerFails, Mishap, Gone, IInv
  <2>2. CASE /\ ledgerDraft' = <<>>
             /\ UNCHANGED <<phase, queueVars, journalVars, ledgerDue, ledgerFile>>
    <3>1. SoundLedger'
      BY <1>1, <2>2 DEF SoundLedger, OneDraft
    <3> QED BY <1>1, <1>2, <1>3, <1>7, <1>15, <2>2, <3>1
               DEF LedgerFails, Mishap, journalVars, IInv
  <2> QED BY <1>15, <2>1, <2>2 DEF LedgerFails
<1>16. CASE Crash
  BY <1>1, <1>6, <1>7, <1>16 DEF Crash, Mishap, Gone, IInv
<1>17. CASE CloseBegins
  BY <1>1, <1>2, <1>3, <1>5, <1>7, <1>17
     DEF CloseBegins, journalVars, IInv
<1>18. CASE ListenersClosed
  BY <1>1, <1>2, <1>3, <1>5, <1>18
     DEF ListenersClosed, journalVars, troubles, IInv
<1>19. CASE Flushed
  BY <1>1, <1>6, <1>19 DEF Flushed, Gone, troubles, IInv
<1>20. ASSUME NEW read, SoundSnapshot(read), StartFrom(read)
       PROVE  /\ SoundQueue' /\ SoundLedger' /\ AtRest'
              /\ phase' = "up" /\ due' \in BOOLEAN /\ landed' = TRUE
              /\ draft' = draft /\ draft = <<>>
  <2>1. SoundQueue' /\ ledgerDue' \in Nat
    BY <1>1, <1>20, StartQueue DEF SoundLedger
  <2> QED BY <1>1, <1>20, <2>1 DEF StartFrom, SoundLedger
<1>21. CASE Start
  <2>1. SoundSnapshot(file)
    BY <1>1 DEF SoundJournal
  <2> QED BY <1>1, <1>3, <1>20, <1>21, <2>1 DEF Start, troubles, IInv
<1>22. CASE StartWithoutJournal
  <2>1. StartFrom(Nothing) /\ Mishap /\ file' \in {file, Nothing}
        /\ found' \in {"read", "damaged", "unreadable"}
    BY <1>22 DEF StartWithoutJournal
  <2>2. SoundJournal'
    BY <1>1, <1>20, <2>1, NothingSound DEF SoundJournal, OneDraft
  <2> QED BY <1>1, <1>7, <1>20, <2>1, <2>2, NothingSound DEF Mishap, IInv
<1> QED BY <1>8, <1>9, <1>10, <1>11, <1>12, <1>13, <1>14, <1>15, <1>16, <1>17,
           <1>18, <1>19, <1>21, <1>22 DEF Next

LEMMA Inductive == Spec => []IInv
<1>1. Init => IInv
  BY InitIInv
<1>2. IInv /\ [Next]_vars => IInv'
  BY StepIInv
<1> QED BY <1>1, <1>2, PTL DEF Spec

\* Every variable keeps its type, however the process ends and starts again.
THEOREM TypeCorrect == Spec => []TypeOK
BY Inductive, IInvTypes, PTL

----------------------------------------------------------------------------
(* The journal catches up with the queue.                                  *)

\* A write in flight with none queued behind it holds the last change.
DraftIsCurrent == Running /\ ~due /\ draft # <<>> => draft[1] = Recorded

CatchInv == IInv /\ JournalCatchesUp /\ ClosedComplete /\ DraftIsCurrent

\* A queue restored from an empty journal records nothing.
LEMMA RestoredEmpty ==
  ASSUME SoundQueue, ledgerFile \in Counts, StartFrom(Nothing)
  PROVE  Recorded' = Nothing
<1>1. \A t \in Tasks : status'[t] \in {"absent", "forgotten"}
  <2>1. \A t \in Tasks : Nothing[t] = NoRecord
    BY DEF Nothing
  <2> QED BY <2>1, NothingSound, StartQueue
<1> QED BY <1>1 DEF Recorded, Nothing

LEMMA StepCatchInv ==
  ASSUME CatchInv, [Next]_vars
  PROVE  CatchInv'
<1> USE DEF Running
<1>1. IInv /\ IInv' /\ JournalCatchesUp /\ ClosedComplete /\ DraftIsCurrent
  BY StepIInv DEF CatchInv
<1>2. ASSUME UNCHANGED <<status, holder, attempts>> PROVE Recorded' = Recorded
  BY <1>2 DEF Recorded
<1> DEFINE Goal == JournalCatchesUp' /\ ClosedComplete' /\ DraftIsCurrent'
<1>3. ASSUME UNCHANGED <<status, holder, attempts, phase, journalVars>> PROVE Goal
  BY <1>1, <1>2, <1>3
     DEF journalVars, JournalCatchesUp, ClosedComplete, DraftIsCurrent
<1>4. CASE UNCHANGED vars
  BY <1>1, <1>3, <1>4 DEF vars, queueVars, CatchInv
<1>5. ASSUME NEW t \in Tasks, Turn(t) PROVE Goal
  BY <1>5 DEF Turn, JournalCatchesUp, ClosedComplete, DraftIsCurrent
<1>6. ASSUME WriteStarts PROVE Goal
  <2>1. draft' = <<Recorded>> /\ Recorded' = Recorded /\ phase # "stopped" /\ phase' = phase
    BY <1>2, <1>6 DEF WriteStarts, queueVars
  <2> QED BY <2>1 DEF JournalCatchesUp, ClosedComplete, DraftIsCurrent
<1>7. ASSUME WriteLands PROVE Goal
  <2>1. Recorded' = Recorded /\ draft' = <<>> /\ file' = draft[1] /\ due' = due
        /\ draft # <<>> /\ Running /\ phase' = phase
    BY <1>2, <1>7 DEF WriteLands, queueVars
  <2> QED BY <1>1, <2>1 DEF JournalCatchesUp, ClosedComplete, DraftIsCurrent
<1>8. ASSUME WriteFails PROVE Goal
  BY <1>8 DEF WriteFails, JournalCatchesUp, ClosedComplete, DraftIsCurrent
<1>9. ASSUME LedgerStarts \/ LedgerLands PROVE Goal
  BY <1>3, <1>9 DEF LedgerStarts, LedgerLands, queueVars
<1>10. ASSUME phase' = "off", Gone PROVE Goal
  BY <1>10 DEF JournalCatchesUp, ClosedComplete, DraftIsCurrent
<1>11. ASSUME LedgerFails PROVE Goal
  BY <1>3, <1>10, <1>11 DEF LedgerFails, queueVars
<1>12. ASSUME Crash PROVE Goal
  BY <1>10, <1>12 DEF Crash
<1>13. ASSUME CloseBegins \/ ListenersClosed PROVE Goal
  <2>1. Recorded' = Recorded
    BY <1>2, <1>13 DEF CloseBegins, ListenersClosed, queueVars
  <2> QED BY <1>1, <1>13, <2>1
        DEF CloseBegins, ListenersClosed, journalVars,
            JournalCatchesUp, ClosedComplete, DraftIsCurrent
<1>14. ASSUME Flushed PROVE Goal
  <2>1. Recorded' = Recorded /\ phase' = "stopped" /\ UNCHANGED <<file, landed, found>>
    BY <1>2, <1>14 DEF Flushed, Gone, queueVars
  <2>2. found # "unreadable" /\ landed => file = Recorded
    BY <1>1, <1>14 DEF Flushed, JournalCatchesUp
  <2> QED BY <2>1, <2>2 DEF JournalCatchesUp, ClosedComplete, DraftIsCurrent
<1>15. ASSUME NEW read, StartFrom(read),
              read = Nothing => file' = Nothing \/ found' = "unreadable"
       PROVE  Goal
  <2>1. phase' = "up" /\ due' = (read # Nothing) /\ draft' = <<>>
    BY <1>1, <1>15 DEF StartFrom, IInv, AtRest
  <2>2. CASE read = Nothing
    <3>1. Recorded' = Nothing
      BY <1>1, <1>15, <2>2, RestoredEmpty DEF IInv, SoundLedger
    <3> QED BY <1>15, <2>1, <2>2, <3>1 DEF JournalCatchesUp, ClosedComplete, DraftIsCurrent
  <2>3. CASE read # Nothing
    BY <2>1, <2>3 DEF JournalCatchesUp, ClosedComplete, DraftIsCurrent
  <2> QED BY <2>2, <2>3
<1>16. ASSUME Start PROVE Goal
  BY <1>15, <1>16 DEF Start
<1>17. ASSUME StartWithoutJournal PROVE Goal
  BY <1>15, <1>17 DEF StartWithoutJournal
<1> QED BY <1>1, <1>4, <1>5, <1>6, <1>7, <1>8, <1>9, <1>11, <1>12, <1>13, <1>14,
           <1>16, <1>17 DEF Next, CatchInv

LEMMA InitRecorded ==
  ASSUME Init
  PROVE  file = Recorded
BY DEF Init, Queue!Init, Recorded, Nothing

LEMMA CatchInductive == Spec => []CatchInv
<1>1. Init => CatchInv
  BY InitIInv DEF Init, CatchInv, JournalCatchesUp, ClosedComplete,
                  DraftIsCurrent, Running
<1>2. CatchInv /\ [Next]_vars => CatchInv'
  BY StepCatchInv
<1> QED BY <1>1, <1>2, PTL DEF Spec

\* When the journal's writes come to rest, the file is the queue
\* (journal.js: schedule).
THEOREM JournalIsCurrent == Spec => []JournalCatchesUp
<1>1. CatchInv => JournalCatchesUp
  BY DEF CatchInv
<1> QED BY <1>1, CatchInductive, PTL

\* A coordinator that was closed and not killed has written everything down
\* (server.js: close; journal.js: flush).
THEOREM ClosingIsComplete == Spec => []ClosedComplete
<1>1. CatchInv => ClosedComplete
  BY DEF CatchInv
<1> QED BY <1>1, CatchInductive, PTL
----------------------------------------------------------------------------
(* Without mishaps: one receipt for each task, and answers that stand.     *)

\* What the ledger has on disk, or on its way there, was announced.
LedgerFollows ==
  \A t \in Tasks :
    /\ ledgerFile[t] <= receipts[t]
    /\ ledgerDraft # <<>> => ledgerDraft[1][t] <= receipts[t]

\* What a task's account says is what it was given, and within its means.
Charged ==
  \A t \in Tasks :
    /\ status[t] # "forgotten" => attempts[t] = spent[t]
    /\ spent[t] <= MaxAttempts[t]

CleanInv ==
  /\ CatchInv
  /\ LedgerFollows
  /\ clean => landed /\ found = "read"
  /\ clean /\ ~Running => file = Recorded
  /\ clean => \A t \in Tasks :
                /\ receipts[t] <= 1
                /\ status[t] \in {"absent", "queued", "leased"} => receipts[t] = 0
  /\ clean => Charged

LEMMA InitCleanInv ==
  ASSUME Init
  PROVE  CleanInv
<1>1. CatchInv
  BY InitIInv DEF Init, CatchInv, JournalCatchesUp, ClosedComplete,
                  DraftIsCurrent, Running
<1>2. LedgerFollows
  BY DEF Init, Queue!Init, LedgerFollows
<1>3. \A t \in Tasks : receipts[t] <= 1 /\ receipts[t] = 0
  BY DEF Init, Queue!Init
<1>4. landed /\ found = "read" /\ file = Recorded
  BY InitRecorded DEF Init
<1>5. Charged
  <2>1. \A t \in Tasks : MaxAttempts[t] \in Nat
    BY RestartAssumption
  <2> QED BY <2>1 DEF Init, Queue!Init, Unspent, Charged
<1> QED BY <1>1, <1>2, <1>3, <1>4, <1>5 DEF CleanInv

LEMMA StepCleanInv ==
  ASSUME CleanInv, [Next]_vars
  PROVE  CleanInv'
<1> USE DEF Running
<1>1. CatchInv /\ CatchInv' /\ IInv /\ IInv' /\ LedgerFollows
  BY StepCatchInv DEF CleanInv, CatchInv
<1>2. /\ clean => landed /\ found = "read"
      /\ clean /\ ~Running => file = Recorded
      /\ clean => \A t \in Tasks :
           /\ receipts[t] <= 1
           /\ status[t] \in {"absent", "queued", "leased"} => receipts[t] = 0
      /\ clean => Charged
  BY DEF CleanInv
<1>3. /\ status \in [Tasks -> Status] /\ receipts \in [Tasks -> Nat]
      /\ ledgerFile \in [Tasks -> Nat]
      /\ ledgerDraft # <<>> => ledgerDraft[1] \in [Tasks -> Nat]
  <2>1. ledgerDraft # <<>> => \E d \in Counts : ledgerDraft = <<d>>
    BY <1>1 DEF IInv, SoundLedger, OneDraft
  <2>2. ledgerDraft # <<>> => ledgerDraft[1] \in Counts
    BY <2>1
  <2> QED BY <1>1, <2>2 DEF IInv, SoundQueue, SoundLedger, Counts
<1> DEFINE Stopped == /\ clean' => landed' /\ found' = "read"
                      /\ clean' /\ ~Running' => file' = Recorded'
           Once == clean' => \A t \in Tasks :
             /\ receipts'[t] <= 1
             /\ status'[t] \in {"absent", "queued", "leased"} => receipts'[t] = 0
           Paid == clean' => Charged'
           Goal == LedgerFollows' /\ Stopped /\ Once /\ Paid
<1>4. ASSUME ~clean' PROVE Stopped /\ Once /\ Paid
  BY <1>4
<1>5. ASSUME UNCHANGED queueVars, clean' = clean, spent' = spent
      PROVE  Once /\ Paid /\ Recorded' = Recorded
  BY <1>2, <1>5 DEF queueVars, Recorded, Charged
<1>6. ASSUME UNCHANGED <<receipts, ledgerFile, ledgerDraft>> PROVE LedgerFollows'
  BY <1>1, <1>6 DEF LedgerFollows
<1>7. ASSUME Gone PROVE LedgerFollows'
  BY <1>1, <1>7 DEF Gone, queueVars, LedgerFollows
<1>8. CASE UNCHANGED vars
  BY <1>1, <1>2, <1>5, <1>6, <1>8
     DEF vars, queueVars, journalVars, ledgerVars, troubles, CleanInv
<1>9. ASSUME NEW t \in Tasks, Turn(t) PROVE Goal
  <2>1. SoundQueue
    BY <1>1 DEF IInv
  <2>2. /\ Moves(t)
        /\ \A u \in Tasks \ {t} : status'[u] = status[u] /\ receipts'[u] = receipts[u]
        /\ receipts'[t] = IF Ends(t) THEN receipts[t] + 1 ELSE receipts[t]
    BY <1>9, <2>1, TurnMoves
  <2>3. UNCHANGED <<ledgerFile, ledgerDraft, phase, file, landed, found, clean>> /\ Running
    BY <1>9 DEF Turn, troubles
  <2>4. receipts'[t] >= receipts[t]
    BY <1>3, <2>2
  <2>5. LedgerFollows'
    <3>1. \A u \in Tasks : receipts[u] <= receipts'[u] /\ receipts'[u] \in Nat
      BY <1>3, <2>2, <2>4
    <3> QED BY <1>1, <1>3, <2>3, <3>1 DEF LedgerFollows
  <2>6. Once
    <3>1. Ends(t) => status[t] \in {"absent", "queued", "leased"}
      BY <2>2 DEF Ends, Moves, Terminal
    <3>2. status'[t] \in {"absent", "queued", "leased"} =>
            status[t] \in {"absent", "queued", "leased"} /\ ~Ends(t)
      BY <2>2 DEF Ends, Moves, Terminal
    <3>3. clean' => /\ receipts'[t] <= 1
                    /\ status'[t] \in {"absent", "queued", "leased"} => receipts'[t] = 0
      BY <1>2, <1>3, <2>2, <2>3, <3>1, <3>2
    <3> QED BY <1>2, <2>2, <2>3, <3>3
  <2>7. Paid
    <3> SUFFICES ASSUME clean PROVE Charged'
      BY <2>3
    <3>1. /\ \A u \in Tasks \ {t} : attempts'[u] = attempts[u]
          /\ attempts[t] \in Nat /\ attempts'[t] \in Nat
          /\ status[t] \in Terminal => attempts'[t] = attempts[t]
      BY <1>9, <2>1, TurnMoves DEF SoundQueue, Counts
    <3>2. /\ spent'[t] = spent[t] + attempts'[t] - attempts[t] /\ spent[t] \in Int
          /\ \A u \in Tasks \ {t} : spent'[u] = spent[u]
      BY <1>1, <1>9, <2>1, TurnSpends DEF IInv, Flags
    <3>3. MaxAttempts[t] \in Nat /\ status[t] # "forgotten"
      BY <2>2, RestartAssumption DEF Moves, Terminal
    <3>4. status'[t] \in Terminal => attempts'[t] = attempts[t]
      <4>1. status'[t] \in Terminal => Queue!End(t)
        BY <1>9 DEF Turn, Queue!Wait, Queue!Lease, Queue!Forget, Terminal
      <4> QED BY <4>1 DEF Queue!End
    <3>5. Charged => /\ status'[t] # "forgotten" => attempts'[t] = spent'[t]
                     /\ spent'[t] <= MaxAttempts[t]
      BY <2>2, <3>1, <3>2, <3>3, <3>4 DEF Charged, Moves, Terminal
    <3> QED BY <1>2, <2>2, <3>1, <3>2, <3>5 DEF Charged
  <2> QED BY <1>2, <2>3, <2>5, <2>6, <2>7
<1>10. ASSUME WriteStarts PROVE Goal
  BY <1>2, <1>5, <1>6, <1>10 DEF WriteStarts, troubles, queueVars, ledgerVars
<1>11. ASSUME WriteLands PROVE Goal
  BY <1>2, <1>5, <1>6, <1>11 DEF WriteLands, troubles, queueVars, ledgerVars
<1>12. ASSUME WriteFails PROVE Goal
  BY <1>4, <1>6, <1>12 DEF WriteFails, Mishap, queueVars, ledgerVars
<1>13. ASSUME LedgerStarts PROVE Goal
  <2>1. LedgerFollows'
    <3>1. ledgerDraft' = <<receipts>> /\ receipts' = receipts /\ ledgerFile' = ledgerFile
      BY <1>13 DEF LedgerStarts, queueVars
    <3>2. ledgerDraft'[1] = receipts
      BY <3>1
    <3> QED BY <1>1, <1>3, <3>1, <3>2 DEF LedgerFollows
  <2> QED BY <1>2, <1>5, <1>13, <2>1 DEF LedgerStarts, troubles, journalVars
<1>14. ASSUME LedgerLands PROVE Goal
  <2>1. LedgerFollows'
    BY <1>1, <1>14 DEF LedgerLands, queueVars, LedgerFollows
  <2> QED BY <1>2, <1>5, <1>14, <2>1 DEF LedgerLands, troubles, journalVars
<1>15. ASSUME LedgerFails PROVE Goal
  <2>1. LedgerFollows'
    BY <1>1, <1>7, <1>15 DEF LedgerFails, queueVars, LedgerFollows
  <2> QED BY <1>4, <1>15, <2>1 DEF LedgerFails, Mishap
<1>16. ASSUME Crash PROVE Goal
  BY <1>4, <1>7, <1>16 DEF Crash, Mishap
<1>17. ASSUME CloseBegins \/ ListenersClosed PROVE Goal
  BY <1>2, <1>5, <1>6, <1>17
     DEF CloseBegins, ListenersClosed, troubles, journalVars, ledgerVars, queueVars
<1>18. ASSUME Flushed PROVE Goal
  <2>1. UNCHANGED <<queueVars, clean, spent, landed, found, file>> /\ Gone
    BY <1>18 DEF Flushed, Gone, troubles
  <2>2. found # "unreadable" /\ landed => file = Recorded
    BY <1>1, <1>18 DEF Flushed, CatchInv, JournalCatchesUp
  <2> QED BY <1>2, <1>5, <1>7, <2>1, <2>2
<1>19. ASSUME NEW read, SoundSnapshot(read), StartFrom(read)
       PROVE  LedgerFollows'
  <2>1. \A t \in Tasks : receipts'[t] = IF t \in AnnouncedBy(read)
                                        THEN ledgerFile[t] + 1 ELSE ledgerFile[t]
    BY <1>1, <1>19, StartQueue DEF IInv, SoundLedger
  <2>2. ledgerFile' = ledgerFile /\ ledgerDraft' = <<>>
    BY <1>1, <1>19 DEF StartFrom, IInv, AtRest
  <2> QED BY <1>3, <2>1, <2>2 DEF LedgerFollows
<1>20. ASSUME Start PROVE Goal
  <2>1. /\ SoundSnapshot(file) /\ StartFrom(file) /\ ~Running /\ phase' = "up"
        /\ landed' = TRUE /\ found' = "read" /\ clean' = clean /\ spent' = spent
    BY <1>1, <1>20 DEF Start, StartFrom, IInv, SoundJournal, troubles
  <2>2. ASSUME clean, NEW t \in Tasks
        PROVE  /\ receipts'[t] <= 1
               /\ status'[t] \in {"absent", "queued", "leased"} => receipts'[t] = 0
    <3>1. file[t] = Recorded[t] /\ ledgerFile[t] <= receipts[t] /\ receipts[t] <= 1
      BY <1>1, <1>2, <2>1, <2>2 DEF LedgerFollows
    <3>2. ledgerFile[t] \in Nat /\ receipts[t] \in Nat
      BY <1>3
    <3>3. /\ file[t] = NoRecord =>
               status'[t] = IF status[t] = "absent" THEN "absent" ELSE "forgotten"
          /\ file[t].status = "queued" => status'[t] = "queued"
          /\ file[t].status = "leased" =>
               \/ status'[t] = "queued"
               \/ status'[t] = "failed" /\ t \in AnnouncedBy(file)
          /\ file[t].status \in Terminal =>
               status'[t] \in {file[t].status, "forgotten"}
          /\ receipts'[t] = IF t \in AnnouncedBy(file)
                            THEN ledgerFile[t] + 1 ELSE ledgerFile[t]
          /\ t \in AnnouncedBy(file) => file[t].status = "leased" /\ status'[t] = "failed"
      BY <1>1, <2>1, StartQueue DEF IInv, SoundLedger
    <3>4. \/ file[t] = NoRecord
          \/ file[t].status = status[t] /\ status[t] \notin {"absent", "forgotten"}
      BY <3>1 DEF Recorded
    <3>5. NoRecord.status = "absent"
      BY DEF NoRecord
    <3>6. CASE file[t] = NoRecord
      BY <1>2, <2>2, <3>1, <3>2, <3>3, <3>5, <3>6
    <3>7. CASE file[t].status = status[t] /\ status[t] \in {"queued", "leased"}
      <4>1. ledgerFile[t] = 0
        BY <1>2, <2>2, <3>1, <3>2, <3>7
      <4> QED BY <3>3, <4>1
    <3>8. CASE file[t].status = status[t] /\ status[t] \in Terminal
      BY <3>1, <3>2, <3>3, <3>8 DEF Terminal
    <3>9. status[t] \in Status
      BY <1>3
    <3> QED BY <3>4, <3>6, <3>7, <3>8, <3>9 DEF Status
  <2>3. ASSUME clean, NEW t \in Tasks
        PROVE  /\ status'[t] # "forgotten" => attempts'[t] = spent'[t]
               /\ spent'[t] <= MaxAttempts[t]
    <3>1. file[t] = Recorded[t] /\ spent' = spent /\ Charged
      BY <1>2, <2>1, <2>3
    <3>2. /\ attempts'[t] = file[t].attempts
          /\ file[t] = NoRecord =>
               status'[t] = IF status[t] = "absent" THEN "absent" ELSE "forgotten"
      BY <1>1, <2>1, StartQueue DEF IInv, SoundLedger
    <3>3. NoRecord.attempts = 0 /\ (status[t] = "absent" => attempts[t] = 0)
      BY <1>1 DEF NoRecord, IInv, SoundQueue
    <3>4. \/ file[t] = NoRecord
          \/ file[t].attempts = attempts[t] /\ status[t] # "forgotten"
      BY <3>1 DEF Recorded
    <3> QED BY <3>1, <3>2, <3>3, <3>4 DEF Charged
  <2> QED BY <1>19, <2>1, <2>2, <2>3 DEF Charged
<1>21. ASSUME StartWithoutJournal PROVE Goal
  BY <1>4, <1>19, <1>21, NothingSound DEF StartWithoutJournal, Mishap
<1> QED BY <1>1, <1>8, <1>9, <1>10, <1>11, <1>12, <1>13, <1>14, <1>15, <1>16,
           <1>17, <1>18, <1>20, <1>21 DEF Next, CleanInv
LEMMA CleanInductive == Spec => []CleanInv
<1>1. Init => CleanInv
  BY InitCleanInv
<1>2. CleanInv /\ [Next]_vars => CleanInv'
  BY StepCleanInv
<1> QED BY <1>1, <1>2, PTL DEF Spec

\* However often the coordinator is closed and started, no task is announced
\* twice (receipts.js: record; queue.js: restore).
THEOREM ReceiptsSurviveRestarts == Spec => []OneReceiptAcrossRestarts
<1>1. CleanInv => OneReceiptAcrossRestarts
  BY DEF CleanInv, OneReceiptAcrossRestarts
<1> QED BY <1>1, CleanInductive, PTL

\* No closing and no start mints an attempt, nor gives back the one of a lease
\* it cut short (journal.js: flush, load; queue.js: restore).
THEOREM RestartsKeepTheBudget == Spec => []RestoredBudget
<1>1. ASSUME CleanInv
      PROVE  RestoredBudget
  <2>1. IInv /\ \A t \in Tasks : SoundRecord(t, file[t])
    BY <1>1 DEF CleanInv, CatchInv, IInv, SoundJournal, SoundSnapshot
  <2>2. clean => Charged
    BY <1>1 DEF CleanInv
  <2>3. \A t \in Tasks :
          /\ file[t].status = "queued" => file[t].attempts < MaxAttempts[t]
          /\ file[t].status = "leased" => file[t].attempts \in 1 .. MaxAttempts[t]
    BY <2>1 DEF SoundRecord, NoRecord, Terminal
  <2> QED BY <2>1, <2>2, <2>3 DEF IInv, SoundQueue, Charged, RestoredBudget
<1>2. CleanInv => RestoredBudget
  BY <1>1
<1> QED BY <1>2, CleanInductive, PTL

Stands ==
  clean' => \A t \in Tasks \ Secret :
    status[t] \in Terminal => status'[t] \in {status[t], "forgotten"}

LEMMA StepStands ==
  ASSUME CleanInv, [Next]_vars
  PROVE  Stands
<1>1. IInv /\ (clean /\ ~Running => file = Recorded)
  BY DEF CleanInv, CatchInv
<1>2. ASSUME UNCHANGED status PROVE Stands
  BY <1>2 DEF Stands
<1>3. ASSUME NEW t \in Tasks, Turn(t) PROVE Stands
  <2>1. Moves(t) /\ \A u \in Tasks \ {t} : status'[u] = status[u]
    BY <1>1, <1>3, TurnMoves DEF IInv
  <2> QED BY <2>1 DEF Stands, Moves, Terminal
<1>4. ASSUME Start PROVE Stands
  <2>1. /\ SoundSnapshot(file) /\ StartFrom(file) /\ ~Running /\ clean' = clean
    BY <1>1, <1>4 DEF Start, StartFrom, IInv, SoundJournal, troubles, Running
  <2>2. ASSUME clean, NEW t \in Tasks \ Secret, status[t] \in Terminal
        PROVE  status'[t] \in {status[t], "forgotten"}
    <3>1. file[t].status = status[t]
      BY <1>1, <2>1, <2>2 DEF Recorded, Terminal
    <3>2. file[t].status \in Terminal => status'[t] \in {file[t].status, "forgotten"}
      BY <1>1, <2>1, StartQueue DEF IInv, SoundLedger
    <3> QED BY <2>2, <3>1, <3>2
  <2> QED BY <2>1, <2>2 DEF Stands
<1>5. ASSUME StartWithoutJournal PROVE Stands
  BY <1>5 DEF StartWithoutJournal, Mishap, Stands
<1>6. ASSUME \/ WriteStarts \/ WriteLands \/ WriteFails
             \/ LedgerStarts \/ LedgerLands \/ LedgerFails
             \/ Crash \/ CloseBegins \/ ListenersClosed \/ Flushed
             \/ UNCHANGED vars
      PROVE  UNCHANGED status
  BY <1>6 DEF WriteStarts, WriteLands, WriteFails, LedgerStarts, LedgerLands,
              LedgerFails, Crash, CloseBegins, ListenersClosed, Flushed, Gone,
              vars, queueVars
<1> QED BY <1>2, <1>3, <1>4, <1>5, <1>6 DEF Next

\* An answer a client has read stands through every restart that follows an
\* orderly close (server.js: close; queue.js: restore).
THEOREM AnswersOutliveRestarts == Spec => AnswersStand
<1>1. CleanInv /\ [Next]_vars => [Stands]_vars
  BY StepStands
<1>2. Spec => [][Stands]_vars
  BY <1>1, CleanInductive, PTL DEF Spec
<1> QED BY <1>2 DEF Stands, AnswersStand
----------------------------------------------------------------------------
(* The life cycle on disk.                                                 *)

Open(record) == record.status \in {"queued", "leased"}

\* y was written, or could be, later than x in the life of one process:
\* nothing that had ended in x has changed in y, and what was open in x and
\* is not in y was announced.
Follows(x, y) ==
  \A t \in Tasks :
    /\ Finished(x[t]) => y[t] \in {x[t], NoRecord}
    /\ Open(x[t]) /\ ~Open(y[t]) => receipts[t] > 0

\* What is written down of a task was submitted.
WrittenSubmitted(x) == Journaled(x) \subseteq Submitted

DiskFollows ==
  Running /\ found = "read" =>
    /\ Follows(file, Recorded) /\ WrittenSubmitted(file)
    /\ draft # <<>> => /\ Follows(file, draft[1])
                       /\ Follows(draft[1], Recorded)
                       /\ WrittenSubmitted(draft[1])

DurableInv == IInv /\ DiskFollows

\* A turn carries the queue along: what it could be read from before the turn
\* is followed by it after the turn as well.
LEMMA TurnFollows ==
  ASSUME SoundQueue, NEW t \in Tasks, Turn(t), NEW x, SoundSnapshot(x),
         Follows(x, Recorded), WrittenSubmitted(x)
  PROVE  /\ \A u \in Tasks :
              /\ Finished(x[u]) => Recorded'[u] \in {x[u], NoRecord}
              /\ Open(x[u]) /\ ~Open(Recorded'[u]) => receipts'[u] > 0
         /\ Journaled(x) \subseteq Submitted'
<1>1. /\ Moves(t)
      /\ \A u \in Tasks \ {t} :
           /\ status'[u] = status[u] /\ holder'[u] = holder[u]
           /\ attempts'[u] = attempts[u] /\ receipts'[u] = receipts[u]
      /\ receipts'[t] = IF Ends(t) THEN receipts[t] + 1 ELSE receipts[t]
      /\ status[t] \in Terminal => holder'[t] = holder[t] /\ attempts'[t] = attempts[t]
  BY TurnMoves
<1>2. \A u \in Tasks : receipts[u] \in Nat
  BY DEF SoundQueue, Counts
<1>3. \A u \in Tasks \ {t} : Recorded'[u] = Recorded[u]
  BY <1>1 DEF Recorded
<1>4. /\ Recorded[t] = IF t \in Secret \/ status[t] \in {"absent", "forgotten"} THEN NoRecord
          ELSE [status |-> status[t], holder |-> holder[t], attempts |-> attempts[t]]
      /\ Recorded'[t] = IF t \in Secret \/ status'[t] \in {"absent", "forgotten"} THEN NoRecord
          ELSE [status |-> status'[t], holder |-> holder'[t], attempts |-> attempts'[t]]
  BY DEF Recorded
<1>5. /\ NoRecord.status = "absent"
      /\ Finished(x[t]) \/ Open(x[t]) => t \notin Secret /\ status[t] # "absent"
  BY DEF SoundSnapshot, SoundRecord, WrittenSubmitted, Journaled, Submitted,
         NoRecord, Finished, Open, Terminal
<1>6. /\ Finished(x[t]) => Recorded[t] \in {x[t], NoRecord}
      /\ Open(x[t]) /\ ~Open(Recorded[t]) => receipts[t] > 0
  BY DEF Follows
<1>7. Finished(x[t]) => Recorded'[t] \in {x[t], NoRecord}
  <2>1. ASSUME Finished(x[t])
        PROVE  status[t] \in Terminal \cup {"forgotten"}
    BY <1>4, <1>5, <1>6, <2>1 DEF Finished
  <2>2. status[t] \in Terminal \cup {"forgotten"} => status'[t] = "forgotten"
    BY <1>1 DEF Moves, Terminal
  <2> QED BY <1>4, <2>1, <2>2
<1>8. ASSUME Open(x[t]), ~Open(Recorded'[t])
      PROVE  receipts'[t] > 0
  <2>1. t \notin Secret /\ status[t] # "absent"
    BY <1>5, <1>8
  <2>2. CASE status[t] \in {"queued", "leased"}
    <3>1. status'[t] \in Terminal
      BY <1>1, <1>4, <1>8, <2>1, <2>2 DEF Moves, Open, Terminal
    <3>2. Ends(t)
      BY <2>2, <3>1 DEF Ends, Terminal
    <3> QED BY <1>1, <1>2, <3>2
  <2>3. CASE status[t] \notin {"queued", "leased"}
    <3>1. ~Open(Recorded[t])
      BY <1>4, <1>5, <2>3 DEF Open
    <3>2. receipts'[t] >= receipts[t]
      BY <1>1, <1>2
    <3> QED BY <1>1, <1>2, <1>6, <1>8, <3>1, <3>2
  <2> QED BY <2>2, <2>3
<1>9. Submitted \subseteq Submitted'
  BY <1>1 DEF Submitted, Moves, Terminal
<1> QED BY <1>1, <1>3, <1>7, <1>8, <1>9 DEF Follows, WrittenSubmitted

\* So does a start from the journal.
LEMMA StartFollows ==
  ASSUME SoundQueue, SoundSnapshot(file), ledgerFile \in Counts, StartFrom(file)
  PROVE  /\ \A t \in Tasks :
              /\ Finished(file[t]) => Recorded'[t] \in {file[t], NoRecord}
              /\ Open(file[t]) /\ ~Open(Recorded'[t]) => receipts'[t] > 0
         /\ Journaled(file) \subseteq Submitted'
<1>1. ASSUME NEW t \in Tasks
      PROVE  /\ Finished(file[t]) => Recorded'[t] \in {file[t], NoRecord}
             /\ Open(file[t]) /\ ~Open(Recorded'[t]) => receipts'[t] > 0
             /\ file[t] # NoRecord => status'[t] # "absent"
  <2>1. /\ file[t].status = "queued" => status'[t] = "queued"
        /\ file[t].status = "leased" =>
             \/ status'[t] = "queued"
             \/ status'[t] = "failed" /\ t \in AnnouncedBy(file)
        /\ file[t].status \in Terminal =>
             /\ status'[t] \in {file[t].status, "forgotten"}
             /\ holder'[t] = file[t].holder /\ attempts'[t] = file[t].attempts
        /\ receipts'[t] = IF t \in AnnouncedBy(file)
                          THEN ledgerFile[t] + 1 ELSE ledgerFile[t]
    BY StartQueue
  <2>2. /\ file[t] \in JournalRecord
        /\ \/ file[t] = NoRecord
           \/ /\ t \notin Secret
              /\ file[t].status \in {"queued", "leased"} \cup Terminal
    BY DEF SoundSnapshot, SoundRecord, Snapshot
  <2>3. NoRecord.status = "absent"
    BY DEF NoRecord
  <2>4. Recorded'[t] = IF t \in Secret \/ status'[t] \in {"absent", "forgotten"} THEN NoRecord
          ELSE [status |-> status'[t], holder |-> holder'[t], attempts |-> attempts'[t]]
    BY DEF Recorded
  <2>5. Finished(file[t]) => Recorded'[t] \in {file[t], NoRecord}
    <3>1. CASE file[t].status \in Terminal /\ status'[t] = file[t].status
      <4>1. file[t] = [status |-> file[t].status, holder |-> file[t].holder,
                       attempts |-> file[t].attempts]
        BY <2>2 DEF JournalRecord
      <4> QED BY <2>1, <2>4, <3>1, <4>1
    <3> QED BY <2>1, <2>4, <3>1 DEF Finished
  <2>6. ASSUME Open(file[t]), ~Open(Recorded'[t])
        PROVE  receipts'[t] > 0
    <3>1. t \notin Secret
      BY <2>2, <2>3, <2>6 DEF Open
    <3>2. t \in AnnouncedBy(file)
      BY <2>1, <2>4, <2>6, <3>1 DEF Open
    <3>3. ledgerFile[t] \in Nat
      BY DEF Counts
    <3> QED BY <2>1, <3>2, <3>3
  <2>7. file[t] # NoRecord => status'[t] # "absent"
    BY <2>1, <2>2 DEF Terminal
  <2> QED BY <2>5, <2>6, <2>7
<1> QED BY <1>1 DEF Journaled, Submitted

LEMMA StepDurableInv ==
  ASSUME DurableInv, [Next]_vars
  PROVE  DurableInv'
<1> USE DEF Running
<1>1. IInv /\ IInv' /\ DiskFollows /\ SoundQueue
      /\ SoundSnapshot(file) /\ (draft # <<>> => SoundSnapshot(draft[1]))
  BY StepIInv DEF DurableInv, IInv, SoundJournal
<1>2. ASSUME UNCHANGED queueVars
      PROVE  /\ Recorded' = Recorded /\ Submitted' = Submitted /\ receipts' = receipts
  BY <1>2 DEF queueVars, Recorded, Submitted
<1>3. ASSUME UNCHANGED <<queueVars, file, draft, found>>, Running PROVE DiskFollows'
  BY <1>1, <1>2, <1>3 DEF DiskFollows, Follows, WrittenSubmitted
<1>4. ASSUME ~Running' PROVE DiskFollows'
  BY <1>4 DEF DiskFollows
<1>5. CASE UNCHANGED vars
  <2>1. DiskFollows'
    BY <1>3, <1>4, <1>5 DEF vars, journalVars
  <2> QED BY <1>1, <2>1 DEF DurableInv
<1>6. ASSUME NEW t \in Tasks, Turn(t) PROVE DiskFollows'
  <2>1. UNCHANGED <<file, draft, found>> /\ Running
    BY <1>6 DEF Turn
  <2>2. ASSUME NEW x, SoundSnapshot(x), Follows(x, Recorded), WrittenSubmitted(x)
        PROVE  /\ \A u \in Tasks :
                    /\ Finished(x[u]) => Recorded'[u] \in {x[u], NoRecord}
                    /\ Open(x[u]) /\ ~Open(Recorded'[u]) => receipts'[u] > 0
               /\ Journaled(x) \subseteq Submitted'
    BY <1>1, <1>6, <2>2, TurnFollows
  <2>3. \A u \in Tasks :
          receipts'[u] >= receipts[u] /\ receipts'[u] \in Nat /\ receipts[u] \in Nat
    <3>1. \A u \in Tasks : receipts[u] \in Nat
      BY <1>1 DEF SoundQueue, Counts
    <3>2. /\ \A u \in Tasks \ {t} : receipts'[u] = receipts[u]
          /\ receipts'[t] = IF Ends(t) THEN receipts[t] + 1 ELSE receipts[t]
      BY <1>1, <1>6, TurnMoves
    <3> QED BY <3>1, <3>2
  <2>4. ASSUME Running, found = "read"
        PROVE  /\ Follows(file, Recorded)' /\ WrittenSubmitted(file)'
               /\ draft # <<>> => /\ Follows(file, draft[1])'
                                  /\ Follows(draft[1], Recorded)'
                                  /\ WrittenSubmitted(draft[1])'
    <3>1. /\ Follows(file, Recorded) /\ WrittenSubmitted(file)
          /\ draft # <<>> => /\ Follows(file, draft[1])
                             /\ Follows(draft[1], Recorded)
                             /\ WrittenSubmitted(draft[1])
      BY <1>1, <2>4 DEF DiskFollows
    <3>2. Follows(file, Recorded)' /\ WrittenSubmitted(file)'
      BY <1>1, <2>1, <2>2, <3>1 DEF Follows, WrittenSubmitted
    <3>3. ASSUME draft # <<>>
          PROVE  Follows(draft[1], Recorded)' /\ WrittenSubmitted(draft[1])'
      <4> DEFINE x == draft[1]
      <4>1. SoundSnapshot(x) /\ Follows(x, Recorded) /\ WrittenSubmitted(x) /\ x' = x
        BY <1>1, <2>1, <3>1, <3>3
      <4> HIDE DEF x
      <4>2. Follows(x, Recorded)' /\ WrittenSubmitted(x)'
        BY <2>2, <4>1 DEF Follows, WrittenSubmitted
      <4> QED BY <4>2 DEF x
    <3>4. ASSUME draft # <<>>
          PROVE  Follows(file, draft[1])'
      BY <2>1, <2>3, <3>1, <3>4 DEF Follows
    <3> QED BY <3>2, <3>3, <3>4
  <2> QED BY <2>1, <2>4 DEF DiskFollows
<1>7. ASSUME WriteStarts PROVE DiskFollows'
  <2>1. UNCHANGED <<queueVars, file, found>> /\ Running /\ draft' = <<Recorded>> /\ draft = <<>>
    BY <1>7 DEF WriteStarts
  <2>2. Follows(Recorded, Recorded) /\ WrittenSubmitted(Recorded)
    BY DEF Follows, WrittenSubmitted, Journaled, Submitted, Recorded
  <2>3. draft'[1] = Recorded
    BY <2>1
  <2> QED BY <1>1, <1>2, <2>1, <2>2, <2>3 DEF DiskFollows, Follows, WrittenSubmitted
<1>8. ASSUME WriteLands PROVE DiskFollows'
  <2>1. /\ UNCHANGED <<queueVars, found>> /\ Running
        /\ draft # <<>> /\ draft' = <<>> /\ file' = draft[1]
    BY <1>8 DEF WriteLands
  <2> QED BY <1>1, <1>2, <2>1 DEF DiskFollows, Follows, WrittenSubmitted
<1>9. ASSUME WriteFails PROVE DiskFollows'
  <2>1. UNCHANGED <<queueVars, file, found>> /\ Running /\ draft' = <<>>
    BY <1>9 DEF WriteFails
  <2> QED BY <1>1, <1>2, <2>1 DEF DiskFollows, Follows, WrittenSubmitted
<1>10. ASSUME LedgerStarts \/ LedgerLands \/ CloseBegins \/ ListenersClosed
       PROVE  DiskFollows'
  BY <1>3, <1>10 DEF LedgerStarts, LedgerLands, CloseBegins, ListenersClosed,
                     journalVars
<1>11. ASSUME LedgerFails \/ Crash \/ Flushed PROVE DiskFollows'
  BY <1>3, <1>4, <1>11 DEF LedgerFails, Crash, Flushed, journalVars
<1>12. ASSUME Start PROVE DiskFollows'
  <2>1. /\ SoundSnapshot(file) /\ StartFrom(file) /\ ledgerFile \in Counts
        /\ file' = file
    BY <1>1, <1>12 DEF Start, IInv, SoundLedger
  <2>2. draft' = <<>>
    BY <1>1, <2>1 DEF StartFrom, IInv, AtRest
  <2> QED BY <1>1, <2>1, <2>2, StartFollows DEF DiskFollows, Follows, WrittenSubmitted
<1>13. ASSUME StartWithoutJournal PROVE DiskFollows'
  BY <1>13 DEF StartWithoutJournal, DiskFollows
<1> QED BY <1>1, <1>5, <1>6, <1>7, <1>8, <1>9, <1>10, <1>11, <1>12, <1>13
        DEF Next, DurableInv

LEMMA DurableInductive == Spec => []DurableInv
<1>1. Init => DurableInv
  BY InitIInv DEF Init, DurableInv, DiskFollows, Running
<1>2. DurableInv /\ [Next]_vars => DurableInv'
  BY StepDurableInv
<1> QED BY <1>1, <1>2, PTL DEF Spec

DiskStep ==
  found' = "read" =>
    \A t \in Tasks :
      /\ Finished(file[t]) => file'[t] \in {file[t], NoRecord}
      /\ file[t] # NoRecord /\ ~Finished(file[t]) /\ file'[t] = NoRecord
           => receipts[t] > 0

LEMMA StepDisk ==
  ASSUME DurableInv, [Next]_vars
  PROVE  DiskStep
<1>1. IInv /\ DiskFollows
  BY DEF DurableInv
<1>2. ASSUME file' = file PROVE DiskStep
  BY <1>2 DEF DiskStep
<1>3. ASSUME WriteLands PROVE DiskStep
  <2>1. file' = draft[1] /\ draft # <<>> /\ found' = found /\ Running
    BY <1>3 DEF WriteLands
  <2>2. ASSUME found = "read" PROVE Follows(file, draft[1])
    BY <1>1, <2>1, <2>2 DEF DiskFollows
  <2>3. \A t \in Tasks : file[t] # NoRecord /\ ~Finished(file[t]) => Open(file[t])
    BY <1>1 DEF IInv, SoundJournal, SoundSnapshot, SoundRecord, Open, Finished
  <2>4. ~Open(NoRecord)
    BY DEF Open, NoRecord
  <2> QED BY <2>1, <2>2, <2>3, <2>4 DEF DiskStep, Follows
<1>4. ASSUME StartWithoutJournal PROVE DiskStep
  BY <1>4 DEF StartWithoutJournal, DiskStep
<1>5. ASSUME \/ \E t \in Tasks : Turn(t)
             \/ WriteStarts \/ WriteFails
             \/ LedgerStarts \/ LedgerLands \/ LedgerFails
             \/ Crash \/ CloseBegins \/ ListenersClosed \/ Flushed \/ Start
             \/ UNCHANGED vars
      PROVE  file' = file
  BY <1>5 DEF Turn, WriteStarts, WriteFails, LedgerStarts, LedgerLands,
              LedgerFails, Crash, CloseBegins, ListenersClosed, Flushed, Start,
              Gone, vars, journalVars
<1> QED BY <1>2, <1>3, <1>4, <1>5 DEF Next

\* Read off the disk at any moment, through crashes at any point of a write, a
\* task follows a life cycle: its end stands until it is forgotten, and it is
\* not dropped before its end was announced (journal.js: schedule, write).
THEOREM DiskFollowsLifecycle == Spec => DurableLifecycle
<1>1. DurableInv /\ [Next]_vars => [DiskStep]_vars
  BY StepDisk
<1>2. Spec => [][DiskStep]_vars
  BY <1>1, DurableInductive, PTL DEF Spec
<1> QED BY <1>2 DEF DiskStep, DurableLifecycle
=============================================================================
