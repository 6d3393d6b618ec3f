------------------------- MODULE CoordinatorRestart -------------------------
(***************************************************************************)
(* What of the queue outlives the coordinator's process: the task journal  *)
(* (src/host/journal.js), the receipt ledger (src/host/receipts.js), the   *)
(* order in which src/host/server.js reads them back and lets go of them,  *)
(* and TaskQueue.restore.                                                  *)
(*                                                                         *)
(* The queue itself is the abstract one of TaskLifecycle, which TaskQueue  *)
(* implements: a turn moves a task one step along its life cycle.  Every   *)
(* turn asks for the journal to be written, every end of a task asks for   *)
(* the ledger to be written, and neither is waited for.  Both are written  *)
(* to a temporary file that is renamed over the old one, so a write that   *)
(* is cut short changes nothing: a draft is what is being written, and     *)
(* landing is the rename.                                                  *)
(***************************************************************************)
EXTENDS Integers, FiniteSets, Sequences

CONSTANTS
  Tasks, Agents, NoAgent, MaxAttempts,
  Secret,         \* tasks whose payload names a credential
  MaxTrouble      \* bound: closings, and mishaps: crashes, failed writes,
                  \* journals that cannot be read

ASSUME RestartAssumption ==
  /\ MaxAttempts \in [Tasks -> Nat \ {0}]
  /\ Secret \subseteq Tasks
  /\ MaxTrouble \in Nat

VARIABLES
  phase,        \* of the coordinator's process
  status, holder, attempts,   \* the queue's Map
  receipts,     \* the ledger's list, as a count per task
  due,          \* #writeQueued: a journal write is to start
  draft,        \* the journal snapshot being written, if any
  file,         \* the journal on disk
  landed,       \* the last journal write did not fail
  ledgerDue,    \* ledger writes chained behind the one in flight
  ledgerDraft,  \* the ledger snapshot being written, if any
  ledgerFile,   \* the ledger on disk
  found,        \* what the process made of the journal it started from
  trouble,      \* closings and mishaps so far, against the bound
  clean,        \* there was no mishap
  spent         \* history, until a mishap: the leases each task was given in
                \* all, less those handed back unrun; no process keeps it

queueVars   == <<status, holder, attempts, receipts>>
journalVars == <<due, draft, file, landed, found>>
ledgerVars  == <<ledgerDue, ledgerDraft, ledgerFile>>
troubles    == <<trouble, clean, spent>>
vars        == <<phase, queueVars, journalVars, ledgerVars, troubles>>

Queue ==
  INSTANCE TaskLifecycle WITH status <- status, holder <- holder,
                              attempts <- attempts, receipts <- receipts

Terminal == {"succeeded", "failed", "cancelled"}
Status   == {"absent", "queued", "leased", "forgotten"} \cup Terminal

(***************************************************************************)
(* "off" after a crash and before the first start; "closing" while open    *)
(* requests finish; "flushing" once there are none; "stopped" when close() *)
(* has returned.                                                           *)
(***************************************************************************)
Phase == {"off", "up", "closing", "flushing", "stopped"}

\* What the journal holds of a task: enough to tell its states apart.
JournalRecord ==
  [status : Status, holder : Agents \cup {NoAgent}, attempts : Nat]

NoRecord == [status |-> "absent", holder |-> NoAgent, attempts |-> 0]

Nothing == [t \in Tasks |-> NoRecord]

Unspent == [t \in Tasks |-> 0]

Snapshot == [Tasks -> JournalRecord]
Counts   == [Tasks -> Nat]

TypeOK ==
  /\ phase \in Phase
  /\ status \in [Tasks -> Status]
  /\ holder \in [Tasks -> Agents \cup {NoAgent}]
  /\ attempts \in Counts
  /\ receipts \in Counts
  /\ due \in BOOLEAN
  /\ Len(draft) <= 1 /\ \A i \in DOMAIN draft : draft[i] \in Snapshot
  /\ file \in Snapshot
  /\ landed \in BOOLEAN
  /\ ledgerDue \in Nat
  /\ Len(ledgerDraft) <= 1
  /\ \A i \in DOMAIN ledgerDraft : ledgerDraft[i] \in Counts
  /\ ledgerFile \in Counts
  /\ found \in {"read", "damaged", "unreadable"}
  /\ trouble \in Nat /\ clean \in BOOLEAN /\ spent \in [Tasks -> Int]

Init ==
  /\ phase = "off"
  /\ Queue!Init
  /\ due = FALSE /\ draft = <<>> /\ landed = TRUE
  /\ file = Nothing
  /\ found = "read"
  /\ ledgerDue = 0 /\ ledgerDraft = <<>>
  /\ ledgerFile = [t \in Tasks |-> 0]
  /\ trouble = 0 /\ clean = TRUE /\ spent = Unspent

Running == phase \in {"up", "closing", "flushing"}

Trouble == trouble < MaxTrouble /\ trouble' = trouble + 1

Mishap == Trouble /\ clean' = FALSE /\ spent' = Unspent
----------------------------------------------------------------------------
(* The queue at work.                                                      *)

\* toRecord, over all that the Map holds.
Recorded ==
  [t \in Tasks |->
     IF t \in Secret \/ status[t] \in {"absent", "forgotten"} THEN NoRecord
     ELSE [status |-> status[t], holder |-> holder[t], attempts |-> attempts[t]]]

Ends(t) == status[t] \notin Terminal /\ status'[t] \in Terminal

\* One step of one task, with the calls of onTerminal and onChange it makes.
\* Requests are served until the last connection is closed.
Turn(t) ==
  /\ phase \in {"up", "closing"}
  /\ \E s \in Status \ {"absent"} : status' = [status EXCEPT ![t] = s]
  /\ \E a \in Agents \cup {NoAgent}, n \in 0 .. MaxAttempts[t] :
       /\ holder' = [holder EXCEPT ![t] = a]
       /\ attempts' = [attempts EXCEPT ![t] = n]
       /\ spent' = IF clean THEN [spent EXCEPT ![t] = @ + n - attempts[t]] ELSE spent
       /\ receipts' = [receipts EXCEPT ![t] = IF Ends(t) THEN @ + 1 ELSE @]
       /\ Queue!Wait(t) \/ Queue!Lease(t) \/ Queue!End(t) \/ Queue!Forget(t)
  /\ due' = TRUE
  /\ ledgerDue' = IF Ends(t) THEN ledgerDue + 1 ELSE ledgerDue
  /\ UNCHANGED <<phase, draft, file, landed, found, ledgerDraft, ledgerFile,
                 trouble, clean>>
----------------------------------------------------------------------------
(* The journal's chain of writes.                                          *)

WriteStarts ==
  /\ Running
  /\ due /\ draft = <<>>
  /\ due' = FALSE
  /\ draft' = <<Recorded>>
  /\ UNCHANGED <<phase, queueVars, file, landed, found, ledgerVars, troubles>>

\* Slip: the request is noted as done when the write lands, not when it
\* starts, so that a change made in between does not ask for another.
WriteLandsDone ==
  /\ Running
  /\ draft # <<>>
  /\ file' = draft[1]
  /\ draft' = <<>> /\ due' = FALSE
  /\ landed' = TRUE
  /\ UNCHANGED <<phase, queueVars, found, ledgerVars, troubles>>

WriteLands ==
  /\ Running
  /\ draft # <<>>
  /\ file' = draft[1]
  /\ draft' = <<>>
  /\ landed' = TRUE
  /\ UNCHANGED <<phase, queueVars, due, found, ledgerVars, troubles>>

\* Slip: the journal is written in place, so a failed write destroys it.
WriteFailsInPlace ==
  /\ Running
  /\ draft # <<>>
  /\ Mishap
  /\ draft' = <<>>
  /\ landed' = FALSE
  /\ file' = Nothing
  /\ UNCHANGED <<phase, queueVars, due, found, ledgerVars>>

\* A failed write is logged and left to the next change.
WriteFails ==
  /\ Running
  /\ draft # <<>>
  /\ Mishap
  /\ draft' = <<>>
  /\ landed' = FALSE
  /\ UNCHANGED <<phase, queueVars, due, file, found, ledgerVars>>
----------------------------------------------------------------------------
(* The ledger's chain of writes.                                           *)

\* Slip: a save does not wait for the one before it.
LedgerStartsUnchained ==
  /\ Running
  /\ ledgerDue > 0
  /\ ledgerDue' = ledgerDue - 1
  /\ ledgerDraft' = Append(ledgerDraft, receipts)
  /\ UNCHANGED <<phase, queueVars, journalVars, ledgerFile, troubles>>

LedgerStarts ==
  /\ Running
  /\ ledgerDue > 0 /\ ledgerDraft = <<>>
  /\ ledgerDue' = ledgerDue - 1
  /\ ledgerDraft' = <<receipts>>
  /\ UNCHANGED <<phase, queueVars, journalVars, ledgerFile, troubles>>

LedgerLands ==
  /\ Running
  /\ ledgerDraft # <<>>
  /\ ledgerFile' = ledgerDraft[1]
  /\ ledgerDraft' = <<>>
  /\ UNCHANGED <<phase, queueVars, journalVars, ledgerDue, troubles>>

\* What a process that is gone leaves behind: the files.  The queue's last
\* state is kept to compare them with, until the next start replaces it.
Gone ==
  /\ due' = FALSE /\ draft' = <<>>
  /\ ledgerDue' = 0 /\ ledgerDraft' = <<>>
  /\ UNCHANGED <<queueVars, file, landed, found, ledgerFile>>

\* record() does not look at the promise save() returns.  A failure that the
\* next write in the chain does not absorb is an unhandled rejection, which
\* ends the process.
LedgerFails ==
  /\ Running
  /\ ledgerDraft # <<>>
  /\ Mishap
  /\ \/ /\ ledgerDue > 0
        /\ ledgerDraft' = <<>>
        /\ UNCHANGED <<phase, queueVars, journalVars, ledgerDue, ledgerFile>>
     \/ /\ ledgerDue = 0
        /\ phase' = "off"
        /\ Gone
----------------------------------------------------------------------------
(* The process.                                                            *)

\* The process is killed, or takes longer than five seconds to close.
Crash ==
  /\ Running
  /\ Mishap
  /\ phase' = "off"
  /\ Gone

\* close(): stop the queue's timers and polls, wait for the listeners, then
\* for the journal.  Nothing waits for the ledger.
CloseBegins ==
  /\ phase = "up"
  /\ Trouble
  /\ phase' = "closing"
  /\ UNCHANGED <<queueVars, journalVars, ledgerVars, clean, spent>>

ListenersClosed ==
  /\ phase = "closing"
  /\ phase' = "flushing"
  /\ UNCHANGED <<queueVars, journalVars, ledgerVars, troubles>>

\* Slip: the flush waits for the write in flight and not for the one queued
\* behind it.
FlushedEarly ==
  /\ phase = "flushing"
  /\ draft = <<>>
  /\ phase' = "stopped"
  /\ Gone
  /\ UNCHANGED troubles

Flushed ==
  /\ phase = "flushing"
  /\ ~due /\ draft = <<>>
  /\ phase' = "stopped"
  /\ Gone
  /\ UNCHANGED troubles

\* Slip: a lease that the restart ends is refunded, like one handed back.
RestoredRefunded(t, read) ==
  IF read[t].status = "leased"
  THEN [read[t] EXCEPT !.status = "queued", !.holder = NoAgent, !.attempts = @ - 1]
  ELSE read[t]

\* restore, for one record.
Restored(t, read) ==
  IF read[t].status # "leased" THEN read[t]
  ELSE IF read[t].attempts >= MaxAttempts[t]
       THEN [read[t] EXCEPT !.status = "failed"]
       ELSE [read[t] EXCEPT !.status = "queued", !.holder = NoAgent]

\* Slip: the tasks that come back finished are announced like any other.
AnnouncedAgain(read) ==
  {t \in Tasks : Restored(t, read).status \in Terminal}

\* Only a task that the restart itself ends is announced.
AnnouncedBy(read) ==
  {t \in Tasks : /\ Restored(t, read).status \in Terminal
                 /\ read[t].status \notin Terminal}

\* The ledger is loaded, then the journal, then the queue is restored from
\* it, and only then is a request served.  Finished tasks may have outlived
\* their retention meanwhile, and a task that was submitted but has no record
\* is as unknown as a forgotten one.
StartFrom(read) ==
  /\ phase \in {"off", "stopped"}
  /\ phase' = "up"
  /\ \E expired \in SUBSET {t \in Tasks : read[t].status \in Terminal} :
       status' = [t \in Tasks |->
                    IF t \in expired THEN "forgotten"
                    ELSE IF read[t] # NoRecord THEN Restored(t, read).status
                    ELSE IF status[t] # "absent" THEN "forgotten"
                    ELSE "absent"]
  /\ holder' = [t \in Tasks |-> Restored(t, read).holder]
  /\ attempts' = [t \in Tasks |-> Restored(t, read).attempts]
  /\ receipts' = [t \in Tasks |-> IF t \in AnnouncedBy(read)
                                  THEN ledgerFile[t] + 1 ELSE ledgerFile[t]]
  /\ ledgerDue' = Cardinality(AnnouncedBy(read))
  /\ due' = (read # Nothing)
  /\ landed' = TRUE
  /\ UNCHANGED <<draft, ledgerDraft, ledgerFile>>

Start ==
  /\ StartFrom(file)
  /\ found' = "read"
  /\ UNCHANGED <<file, troubles>>

\* The journal cannot be read, and is left alone; or it does not parse, and
\* is moved aside.  Either way the queue starts empty.
StartWithoutJournal ==
  /\ Mishap
  /\ file # Nothing
  /\ StartFrom(Nothing)
  /\ \/ found' = "unreadable" /\ file' = file
     \/ found' = "damaged" /\ file' = Nothing
----------------------------------------------------------------------------
Next ==
  \/ \E t \in Tasks : Turn(t)
  \/ WriteStarts \/ WriteLands \/ WriteFails
  \/ LedgerStarts \/ LedgerLands \/ LedgerFails
  \/ Crash \/ CloseBegins \/ ListenersClosed \/ Flushed
  \/ Start \/ StartWithoutJournal

Spec == Init /\ [][Next]_vars
----------------------------------------------------------------------------
(* Safety.                                                                 *)

\* No change is left unwritten: when the journal's chain of writes comes to
\* rest after a write that landed, the file is the queue.  (schedule: a change
\* during a write must ask for one more, and a burst for no more than one.)
JournalCatchesUp ==
  Running /\ found # "unreadable" /\ landed /\ ~due /\ draft = <<>> => file = Recorded

\* A coordinator that was closed and not killed has written down everything:
\* every request it answered is in the file the next one reads.
ClosedComplete ==
  phase = "stopped" /\ found # "unreadable" /\ landed => file = Recorded

Finished(record) == record.status \in Terminal

\* Seen on disk, a task also follows a life cycle, through crashes at any
\* point of a write: a finished one stays as it ended or goes, and one that
\* is not finished goes only once its end was announced.
DurableLifecycle ==
  [][found' = "read" =>
       \A t \in Tasks :
         /\ Finished(file[t]) => file'[t] \in {file[t], NoRecord}
         /\ file[t] # NoRecord /\ ~Finished(file[t]) /\ file'[t] = NoRecord
              => receipts[t] > 0]_vars

\* Restarts mint no attempts.  Without a mishap, whatever the closings and
\* starts between them, every lease a task was given and did not hand back is
\* still charged to it, the one a close cut short included, and no task,
\* known or forgotten, was given more of them than it may spend.  A crash may
\* go back to an older account; that one too, in memory and on disk, lets what
\* is queued be leased once more and has charged for what is leased.
RestoredBudget ==
  /\ clean => \A t \in Tasks :
       /\ status[t] \notin {"absent", "forgotten"} => attempts[t] = spent[t]
       /\ spent[t] <= MaxAttempts[t]
  /\ \A t \in Tasks :
       /\ status[t] = "queued" => attempts[t] < MaxAttempts[t]
       /\ status[t] = "leased" => attempts[t] \in 1 .. MaxAttempts[t]
       /\ file[t].status = "queued" => file[t].attempts < MaxAttempts[t]
       /\ file[t].status = "leased" => file[t].attempts \in 1 .. MaxAttempts[t]

\* However often the coordinator is closed and started, no task is announced
\* twice, unless a crash or a failed write lost the first announcement.
OneReceiptAcrossRestarts ==
  clean => \A t \in Tasks : receipts[t] <= 1

\* An answer a client has read stands: short of a crash, a closed and
\* restarted coordinator gives the same one, or has forgotten the task.
AnswersStand ==
  [][clean' => \A t \in Tasks \ Secret :
       status[t] \in Terminal => status'[t] \in {status[t], "forgotten"}]_vars

\* "Unreadable is not corrupt: leave the file where it is for a person to
\* look at" (journal.js).
UnreadableKept == [][found = "unreadable" => UNCHANGED file]_vars

\* "Their receipt was written when they finished" (queue.js, restore): with
\* no crash and no failed write, whatever ended is in the ledger.
FinishedHaveReceipts ==
  clean /\ phase = "up" =>
    \A t \in Tasks : status[t] \in Terminal => receipts[t] > 0
=============================================================================
