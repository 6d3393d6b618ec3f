------------------------------ MODULE Messages ------------------------------
(***************************************************************************)
(* The inbox of one person at the coordinator (src/host/messages.js), the  *)
(* routes that write to it (src/host/server.js), and the greeting that the *)
(* coordinator leaves in it while it starts.                               *)
(*                                                                         *)
(* Writing is as for the accounts: an operation changes what is in memory, *)
(* asks for it to be written, and answers when that write has ended.  No   *)
(* request is served before the start is over.                             *)
(***************************************************************************)
EXTENDS SaveChain, FiniteSets, FiniteSetsExt

CONSTANTS
  Callers,       \* requests under way at once
  NumNotes,      \* bound: notes ever written
  MaxUnwritten   \* bound: writes outstanding

ASSUME MessagesAssumption ==
  NumNotes \in Nat /\ MaxUnwritten \in Nat /\ "ready" \notin Callers

Notes == 1 .. NumNotes

VARIABLES
  inbox,     \* #data.messages, of one recipient
  mail,      \* #writeChain and the file
  serving,   \* whether `ready` has resolved
  caller,    \* caller[c]: what c waits for; "ready" is the start itself
  kept       \* the notes whose sender was told that they are in

mailVars == <<inbox, mail, serving, caller, kept>>

Note  == [state : {"absent", "unread", "read"}, greeting : BOOLEAN]
Inbox == [Notes -> Note]
Seats == Callers \cup {"ready"}

\* A caller waits until `left` more writes have ended.
Silent == [did |-> "nothing", note |-> 0, left |-> 0]
Caller == [did : {"nothing", "add", "read"}, note : Notes \cup {0}, left : Nat]

MessagesTypeOK ==
  /\ inbox \in Inbox
  /\ IsChain(mail, Inbox)
  /\ serving \in BOOLEAN
  /\ caller \in [Seats -> Caller]
  /\ kept \subseteq Notes

NoNote    == [state |-> "absent", greeting |-> FALSE]
Empty(d)  == \A n \in Notes : d[n].state = "absent"
Unused(d) == {n \in Notes : d[n].state = "absent"}

\* c has changed the inbox to d and waits for it to be written.
Posts(c, d, did, n) ==
  /\ inbox' = d
  /\ mail' = Asked(mail)
  /\ caller' = [caller EXCEPT ![c] =
                  [did |-> did, note |-> n, left |-> Outstanding(mail')]]

\* Slip: the greeting is left at every start.
SeedsAlways(d) == Unused(d) # {}

\* seedWelcome: only in an inbox with nothing in it.
Seeds(d) == Empty(d) /\ Unused(d) # {}

\* load, and seedWelcome, whose write the start waits for.
Begins(d) ==
  LET n == Min(Unused(d)) IN
  IF Seeds(d)
  THEN /\ inbox' = [d EXCEPT ![n] = [state |-> "unread", greeting |-> TRUE]]
       /\ mail' = Asked(NewChain(d))
       /\ serving' = FALSE
       /\ caller' = [c \in Seats |-> IF c = "ready"
                       THEN [did |-> "add", note |-> n, left |-> 1] ELSE Silent]
  ELSE /\ inbox' = d
       /\ mail' = NewChain(d)
       /\ serving' = TRUE
       /\ caller' = [c \in Seats |-> Silent]

MessagesInit ==
  /\ inbox = [n \in Notes |-> NoNote]
  /\ mail = NewChain(inbox)
  /\ serving = FALSE
  /\ caller = [c \in Seats |-> Silent]
  /\ kept = {}
----------------------------------------------------------------------------
Calling(c) == serving /\ c \in Callers /\ caller[c] = Silent
Room == Outstanding(mail) < MaxUnwritten

Add(c) ==
  /\ Calling(c) /\ Room
  /\ Unused(inbox) # {}
  /\ LET n == Min(Unused(inbox)) IN
       Posts(c, [inbox EXCEPT ![n].state = "unread"], "add", n)
  /\ UNCHANGED <<serving, kept>>

\* One that is read already is answered at once, written or not.
MarkRead(c, n) ==
  /\ Calling(c) /\ Room
  /\ inbox[n].state = "unread"
  /\ Posts(c, [inbox EXCEPT ![n].state = "read"], "read", n)
  /\ UNCHANGED <<serving, kept>>

PostBegins ==
  /\ CanStart(mail)
  /\ mail' = Started(mail, inbox)
  /\ UNCHANGED <<inbox, serving, caller, kept>>

Waited(c) == caller[c].did # "nothing" /\ caller[c].left = 1

\* A write ends and those that waited for it are answered: that it is in, or
\* that it failed.  A start whose greeting could not be written serves nobody.
PostEnds ==
  /\ CanEnd(mail)
  /\ \/ /\ mail' = Written(mail)
        /\ kept' = kept \cup {caller[c].note : c \in
                                {s \in Seats : Waited(s) /\ caller[s].did = "add"}}
        /\ serving' = (serving \/ Waited("ready"))
     \/ mail' = NotWritten(mail) /\ UNCHANGED <<serving, kept>>
  /\ caller' = [c \in Seats |->
       IF caller[c] = Silent \/ Waited(c) THEN Silent
       ELSE [caller[c] EXCEPT !.left = @ - 1]]
  /\ UNCHANGED inbox

\* The coordinator dies, or never started, and starts from the file.
MailRestart == Begins(mail.file) /\ UNCHANGED kept

MessagesNext ==
  \/ \E c \in Callers : Add(c) \/ \E n \in Notes : MarkRead(c, n)
  \/ PostBegins \/ PostEnds \/ MailRestart

MessagesSpec == MessagesInit /\ [][MessagesNext]_mailVars
----------------------------------------------------------------------------
(* Properties.                                                             *)

\* "a note a person has not read yet should survive a host restart": one that
\* its sender was told is in, or the start has waited for, is in the file and
\* in memory whatever fails or restarts after that.
NotesKept ==
  \A n \in kept : mail.file[n].state # "absent" /\ inbox[n].state # "absent"

\* "a restart does not pile up duplicate greetings", even one that comes
\* before the greeting was written or before anyone has read it.
GreetedOnce == Cardinality({n \in Notes : inbox[n].greeting}) <= 1

\* Restarts and failed writes neither lose a note nor add one.
InboxSound == NotesKept /\ GreetedOnce
=============================================================================
