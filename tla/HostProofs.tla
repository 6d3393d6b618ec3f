----------------------------- MODULE HostProofs -----------------------------
(***************************************************************************)
(* What is proved of the stores the coordinator keeps in a file of their   *)
(* own: the inbox (Messages) and the accounts (Accounts).                  *)
(*                                                                         *)
(* Both arguments are the same.  There are three versions of the data: the *)
(* file, the snapshot being written, if any, and what is in memory, and    *)
(* each takes back nothing of the one before it.  Whoever waits for the    *)
(* write in progress to end finds what he did in its snapshot.             *)
(***************************************************************************)
EXTENDS Accounts, Messages, FiniteSums

\* Min of a set of natural numbers is one of them.
LEMMA MinIs ==
  ASSUME NEW S \in SUBSET Nat, S # {}
  PROVE  Min(S) \in S
BY LeastExists, Zenon DEF Min
----------------------------------------------------------------------------
(* The chain of writes, over data of a set D.                              *)

SoundChain(c, D) ==
  /\ c = [waiting |-> c.waiting, draft |-> c.draft, file |-> c.file]
  /\ c.waiting \in Nat
  /\ c.file \in D
  /\ c.draft = <<>> \/ \E d \in D : c.draft = <<d>>

LEMMA SoundChainTypes ==
  ASSUME NEW c, NEW D, SoundChain(c, D)
  PROVE  IsChain(c, D)
<1>1. Len(c.draft) <= 1 /\ \A i \in DOMAIN c.draft : c.draft[i] \in D
  <2>1. CASE c.draft = <<>>
    BY <2>1
  <2>2. ASSUME NEW d \in D, c.draft = <<d>>
        PROVE  Len(c.draft) <= 1 /\ \A i \in DOMAIN c.draft : c.draft[i] \in D
    BY <2>2
  <2> QED BY <2>1, <2>2 DEF SoundChain
<1> QED BY <1>1 DEF SoundChain, IsChain

LEMMA ChainFields ==
  ASSUME NEW D, NEW S, NEW c \in [waiting : Nat, draft : S, file : D], NEW d
  PROVE  /\ Asked(c) = [waiting |-> c.waiting + 1, draft |-> c.draft, file |-> c.file]
         /\ Started(c, d) = [waiting |-> c.waiting - 1, draft |-> <<d>>, file |-> c.file]
         /\ Written(c) = [waiting |-> c.waiting, draft |-> <<>>, file |-> c.draft[1]]
         /\ NotWritten(c) = [waiting |-> c.waiting, draft |-> <<>>, file |-> c.file]
<1>1. Asked(c) = [waiting |-> c.waiting + 1, draft |-> c.draft, file |-> c.file]
  BY DEF Asked
<1>2. Started(c, d) = [waiting |-> c.waiting - 1, draft |-> <<d>>, file |-> c.file]
  <2> DEFINE e == [c EXCEPT !.waiting = @ - 1]
  <2>1. e = [waiting |-> c.waiting - 1, draft |-> c.draft, file |-> c.file]
    OBVIOUS
  <2>2. Started(c, d) = [e EXCEPT !.draft = <<d>>]
    BY Zenon DEF Started
  <2> HIDE DEF e
  <2>3. e \in [waiting : {c.waiting - 1}, draft : {c.draft}, file : D]
    BY <2>1
  <2> QED BY <2>1, <2>2, <2>3
<1>3. NotWritten(c) = [waiting |-> c.waiting, draft |-> <<>>, file |-> c.file]
  BY DEF NotWritten
<1>4. Written(c) = [waiting |-> c.waiting, draft |-> <<>>, file |-> c.draft[1]]
  <2> DEFINE e == NotWritten(c)
  <2>1. Written(c) = [e EXCEPT !.file = c.draft[1]]
    BY Zenon DEF Written, NotWritten
  <2> HIDE DEF e
  <2>2. e = [waiting |-> c.waiting, draft |-> <<>>, file |-> c.file]
    BY <1>3 DEF e
  <2>3. e \in [waiting : Nat, draft : {<<>>}, file : D]
    BY <2>2
  <2> QED BY <2>1, <2>2, <2>3
<1> QED BY <1>1, <1>2, <1>3, <1>4

\* What each step of a chain makes of it.
LEMMA ChainSteps ==
  ASSUME NEW c, NEW D, SoundChain(c, D)
  PROVE  /\ Outstanding(c) = IF c.draft = <<>> THEN c.waiting ELSE c.waiting + 1
         /\ c.draft # <<>> => c.draft[1] \in D
         /\ /\ SoundChain(Asked(c), D)
            /\ Asked(c).draft = c.draft /\ Asked(c).file = c.file
            /\ Asked(c).waiting = c.waiting + 1
            /\ Outstanding(Asked(c)) = Outstanding(c) + 1
         /\ \A d \in D : CanStart(c) =>
              /\ SoundChain(Started(c, d), D)
              /\ Started(c, d).draft # <<>> /\ Started(c, d).draft[1] = d
              /\ Started(c, d).file = c.file
              /\ Outstanding(Started(c, d)) = Outstanding(c)
         /\ CanEnd(c) =>
              /\ SoundChain(Written(c), D) /\ SoundChain(NotWritten(c), D)
              /\ Written(c).draft = <<>> /\ NotWritten(c).draft = <<>>
              /\ Written(c).file = c.draft[1] /\ NotWritten(c).file = c.file
              /\ Outstanding(Written(c)) = Outstanding(c) - 1
              /\ Outstanding(NotWritten(c)) = Outstanding(c) - 1
<1>1. c.waiting \in Nat /\ c.file \in D
  BY DEF SoundChain
<1>2. \/ c.draft = <<>> /\ Len(c.draft) = 0
      \/ c.draft # <<>> /\ c.draft[1] \in D /\ Len(c.draft) = 1
  <2>1. CASE c.draft = <<>>
    BY <2>1
  <2>2. ASSUME NEW d \in D, c.draft = <<d>>
        PROVE  c.draft # <<>> /\ c.draft[1] \in D /\ Len(c.draft) = 1
    BY <2>2
  <2> QED BY <2>1, <2>2 DEF SoundChain
<1>3. Outstanding(c) = IF c.draft = <<>> THEN c.waiting ELSE c.waiting + 1
  <2>1. ASSUME NEW w \in Nat, NEW n \in Nat PROVE w + n \in Nat /\ w + 0 = w
    OBVIOUS
  <2> QED BY <1>1, <1>2, <2>1 DEF Outstanding
<1>4. c \in [waiting : Nat, draft : {c.draft}, file : D]
  BY DEF SoundChain
<1>5. /\ Asked(c) = [waiting |-> c.waiting + 1, draft |-> c.draft, file |-> c.file]
      /\ \A d : Started(c, d) = [waiting |-> c.waiting - 1, draft |-> <<d>>, file |-> c.file]
  <2>1. ASSUME NEW d
        PROVE  /\ Asked(c) = [waiting |-> c.waiting + 1, draft |-> c.draft, file |-> c.file]
               /\ Started(c, d) = [waiting |-> c.waiting - 1, draft |-> <<d>>, file |-> c.file]
    BY <1>4, ChainFields, Zenon
  <2> QED BY <2>1, Zenon
<1>6. /\ Written(c) = [waiting |-> c.waiting, draft |-> <<>>, file |-> c.draft[1]]
      /\ NotWritten(c) = [waiting |-> c.waiting, draft |-> <<>>, file |-> c.file]
  BY <1>4, ChainFields, ZenonT(60)
<1>7. /\ SoundChain(Asked(c), D)
      /\ Asked(c).draft = c.draft /\ Asked(c).file = c.file
      /\ Asked(c).waiting = c.waiting + 1
      /\ Outstanding(Asked(c)) = Outstanding(c) + 1
  BY <1>1, <1>2, <1>3, <1>5 DEF SoundChain, Outstanding
<1>8. ASSUME NEW d \in D, CanStart(c)
      PROVE  /\ SoundChain(Started(c, d), D)
             /\ Started(c, d).draft # <<>> /\ Started(c, d).draft[1] = d
             /\ Started(c, d).file = c.file
             /\ Outstanding(Started(c, d)) = Outstanding(c)
  <2>1. Len(<<d>>) = 1 /\ <<d>>[1] = d /\ <<d>> # <<>>
    OBVIOUS
  <2>2. c.draft = <<>> /\ c.waiting > 0
    BY <1>8 DEF CanStart
  <2>3. c.waiting - 1 \in Nat /\ (c.waiting - 1) + 1 = c.waiting
    BY <1>1, <2>2
  <2>4. /\ Started(c, d) = [waiting |-> c.waiting - 1, draft |-> <<d>>, file |-> c.file]
        /\ Started(c, d).waiting = c.waiting - 1
        /\ Started(c, d).draft = <<d>> /\ Started(c, d).file = c.file
    BY <1>5
  <2>5. SoundChain(Started(c, d), D)
    BY <1>1, <2>3, <2>4 DEF SoundChain
  <2>6. Outstanding(Started(c, d)) = Outstanding(c)
    BY <1>3, <2>1, <2>2, <2>3, <2>4, Zenon DEF Outstanding
  <2> QED BY <2>1, <2>4, <2>5, <2>6, Zenon
<1>9. ASSUME CanEnd(c)
      PROVE  /\ SoundChain(Written(c), D) /\ SoundChain(NotWritten(c), D)
             /\ Written(c).draft = <<>> /\ NotWritten(c).draft = <<>>
             /\ Written(c).file = c.draft[1] /\ NotWritten(c).file = c.file
             /\ Outstanding(Written(c)) = Outstanding(c) - 1
             /\ Outstanding(NotWritten(c)) = Outstanding(c) - 1
  BY <1>1, <1>2, <1>3, <1>6, <1>9 DEF SoundChain, Outstanding, CanEnd
<1> QED BY <1>2, <1>3, <1>7, <1>8, <1>9

LEMMA ChainStarts ==
  ASSUME NEW c, NEW D, SoundChain(c, D), CanStart(c), NEW d \in D
  PROVE  /\ SoundChain(Started(c, d), D)
         /\ Started(c, d).draft # <<>> /\ Started(c, d).draft[1] = d
         /\ Started(c, d).file = c.file
         /\ Outstanding(Started(c, d)) = Outstanding(c)
BY ChainSteps, Zenon

LEMMA OutstandingIs ==
  ASSUME NEW c, NEW D, SoundChain(c, D)
  PROVE  Outstanding(c) \in Nat /\ (c.draft # <<>> => Outstanding(c) # 0)
<1>1. c.waiting \in Nat /\ Outstanding(c) = IF c.draft = <<>> THEN c.waiting ELSE c.waiting + 1
  BY ChainSteps DEF SoundChain
<1> QED BY <1>1

LEMMA NewChainSound ==
  ASSUME NEW D, NEW d \in D
  PROVE  /\ SoundChain(NewChain(d), D)
         /\ NewChain(d).draft = <<>> /\ NewChain(d).file = d
         /\ Outstanding(NewChain(d)) = 0
BY DEF SoundChain, NewChain, Outstanding
----------------------------------------------------------------------------
(* The inbox.                                                              *)

There(d, n) == d[n].state # "absent"

\* e has every note of d, and every greeting of e that d has not is new.
Grows(d, e) ==
  \A n \in Notes :
    /\ There(d, n) => There(e, n)
    /\ d[n].greeting => e[n].greeting

\* One greeting at most, and only on a note that is there.
SoundInbox(d) ==
  /\ d \in Inbox
  /\ \A n \in Notes : d[n].greeting => There(d, n)
  /\ \A m, n \in Notes : d[m].greeting /\ d[n].greeting => m = n

MailTypes ==
  /\ SoundChain(mail, Inbox)
  /\ serving \in BOOLEAN
  /\ caller \in [Seats -> Caller]
  /\ kept \in SUBSET Notes

Versions ==
  /\ SoundInbox(inbox) /\ SoundInbox(mail.file) /\ Grows(mail.file, inbox)
  /\ mail.draft # <<>> => /\ SoundInbox(mail.draft[1])
                          /\ Grows(mail.file, mail.draft[1])
                          /\ Grows(mail.draft[1], inbox)

\* What waits for a write that has not begun is in memory, and what waits for
\* the one in progress is in its snapshot.
Waiting ==
  \A c \in Seats :
    /\ caller[c].did = "nothing" <=> caller[c] = Silent
    /\ caller[c].did # "nothing" => caller[c].left \in 1 .. Outstanding(mail)
    /\ caller[c].did = "add" =>
         /\ caller[c].note \in Notes
         /\ There(inbox, caller[c].note)
         /\ mail.draft # <<>> /\ caller[c].left = 1 =>
              There(mail.draft[1], caller[c].note)

MailInv ==
  MailTypes /\ Versions /\ Waiting /\ \A n \in kept : There(mail.file, n)

LEMMA MailInvTypes == MailInv => MessagesTypeOK
BY SoundChainTypes DEF MailInv, MailTypes, Versions, SoundInbox, MessagesTypeOK

LEMMA MailInvSound ==
  ASSUME MailInv
  PROVE  InboxSound
<1>1. NotesKept
  BY DEF MailInv, MailTypes, Versions, Grows, NotesKept, There
<1>2. GreetedOnce
  <2> DEFINE G == {n \in Notes : inbox[n].greeting}
  <2>1. \A m, n \in G : m = n
    BY DEF MailInv, Versions, SoundInbox
  <2>2. CASE G = {}
    BY <2>2, FS_EmptySet DEF GreetedOnce
  <2>3. ASSUME NEW m \in G PROVE Cardinality(G) = 1
    <3>1. G = {m}
      BY <2>1, <2>3
    <3> HIDE DEF G
    <3> QED BY <3>1, FS_Singleton
  <2> QED BY <2>2, <2>3 DEF GreetedOnce
<1> QED BY <1>1, <1>2 DEF InboxSound

LEMMA SilentIs == Silent \in Caller /\ Silent.did = "nothing"
BY DEF Silent, Caller

LEMMA GrowsItself == \A d : Grows(d, d)
BY DEF Grows

\* What a change of the inbox has to be for the rest to follow.
LEMMA PostsInv ==
  ASSUME MailInv, NEW c \in Seats, NEW d, NEW did \in {"add", "read"},
         NEW n \in Notes, SoundInbox(d), Grows(inbox, d), There(d, n),
         Posts(c, d, did, n), UNCHANGED <<serving, kept>>
  PROVE  MailInv'
<1>1. /\ inbox' = d /\ mail' = Asked(mail)
      /\ caller' = [caller EXCEPT ![c] = [did |-> did, note |-> n, left |-> Outstanding(mail')]]
  BY DEF Posts
<1>2. SoundChain(mail, Inbox) /\ SoundChain(mail', Inbox)
  BY <1>1, ChainSteps DEF MailInv, MailTypes
<1>3. /\ mail'.draft = mail.draft /\ mail'.file = mail.file
      /\ mail'.waiting = mail.waiting + 1 /\ mail.waiting \in Nat
      /\ Outstanding(mail') = Outstanding(mail) + 1
      /\ Outstanding(mail) = IF mail.draft = <<>> THEN mail.waiting ELSE mail.waiting + 1
  BY <1>1, <1>2, ChainSteps DEF SoundChain
<1> DEFINE new == [did |-> did, note |-> n, left |-> Outstanding(mail')]
<1>4. new \in Caller
  BY <1>3 DEF Caller
<1>5. /\ caller' \in [Seats -> Caller]
      /\ caller'[c] = new
      /\ \A s \in Seats \ {c} : caller'[s] = caller[s]
  BY <1>1, <1>4 DEF MailInv, MailTypes
<1>6. MailTypes'
  BY <1>2, <1>5 DEF MailInv, MailTypes
<1>7. Versions'
  <2>1. \A x : Grows(x, inbox) => Grows(x, d)
    BY DEF Grows
  <2> QED BY <1>1, <1>3, <2>1 DEF MailInv, Versions
<1>8. Waiting'
  <2>1. new.did = did /\ new.note = n /\ new.left = Outstanding(mail') /\ new # Silent
    BY DEF Silent
  <2>2. /\ new.left \in 1 .. Outstanding(mail')
        /\ mail.draft # <<>> => new.left # 1
    BY <1>3, <2>1
  <2>3. \A m \in Notes : There(inbox, m) => There(d, m)
    BY DEF Grows
  <2> HIDE DEF new
  <2> QED BY <1>1, <1>3, <1>5, <2>1, <2>2, <2>3 DEF MailInv, Waiting
<1> QED BY <1>3, <1>6, <1>7, <1>8 DEF MailInv

LEMMA BeginsInv ==
  ASSUME NEW d, SoundInbox(d), Begins(d), NEW K \in SUBSET Notes,
         \A n \in K : There(d, n), kept' = K
  PROVE  MailInv'
<1>1. d \in Inbox
  BY DEF SoundInbox
<1>2. /\ SoundChain(NewChain(d), Inbox)
      /\ NewChain(d).draft = <<>> /\ NewChain(d).file = d
      /\ Outstanding(NewChain(d)) = 0
  BY <1>1, NewChainSound
<1>3. CASE Seeds(d)
  <2> DEFINE n == Min(Unused(d))
             e == [d EXCEPT ![n] = [state |-> "unread", greeting |-> TRUE]]
             waits == [did |-> "add", note |-> n, left |-> 1]
  <2>1. n \in Notes
    BY <1>3, MinIs DEF Seeds, Unused, Notes
  <2>2. /\ inbox' = e /\ mail' = Asked(NewChain(d)) /\ serving' = FALSE
        /\ caller' = [c \in Seats |-> IF c = "ready" THEN waits ELSE Silent]
    BY <1>3 DEF Begins
  <2> HIDE DEF n
  <2>3. /\ e \in Inbox /\ e[n] = [state |-> "unread", greeting |-> TRUE]
        /\ \A m \in Notes \ {n} : e[m] = d[m]
    BY <1>1, <2>1 DEF Inbox, Note
  <2>4. \A m \in Notes : ~There(d, m) /\ ~d[m].greeting
    BY <1>3 DEF Seeds, Empty, There, SoundInbox
  <2>5. SoundInbox(e) /\ Grows(d, e) /\ There(e, n)
    BY <2>1, <2>3, <2>4 DEF SoundInbox, Grows, There
  <2>6. /\ SoundChain(mail', Inbox) /\ mail'.draft = <<>> /\ mail'.file = d
        /\ Outstanding(mail') = 1
    BY <1>2, <2>2, ChainSteps
  <2>7. waits \in Caller /\ waits.did = "add" /\ waits.note = n /\ waits.left = 1 /\ waits # Silent
    BY <2>1 DEF Caller, Silent
  <2> HIDE DEF e, waits
  <2>8. MailTypes'
    BY <2>2, <2>6, <2>7, SilentIs DEF MailTypes
  <2>9. Versions'
    BY <2>2, <2>5, <2>6 DEF Versions
  <2>10. Waiting'
    BY <2>1, <2>2, <2>5, <2>6, <2>7, SilentIs DEF Waiting
  <2> QED BY <2>6, <2>8, <2>9, <2>10 DEF MailInv
<1>4. CASE ~Seeds(d)
  <2>1. inbox' = d /\ mail' = NewChain(d) /\ serving' = TRUE /\ caller' = [c \in Seats |-> Silent]
    BY <1>4 DEF Begins
  <2>2. MailTypes'
    BY <1>2, <2>1, SilentIs DEF MailTypes
  <2>3. Versions'
    BY <1>2, <2>1, GrowsItself DEF Versions
  <2>4. Waiting'
    BY <2>1, SilentIs DEF Waiting
  <2> QED BY <1>2, <2>1, <2>2, <2>3, <2>4 DEF MailInv
<1> QED BY <1>3, <1>4

LEMMA InitMailInv == MessagesInit => MailInv
<1> SUFFICES ASSUME MessagesInit PROVE MailInv
  OBVIOUS
<1>1. inbox \in Inbox /\ \A n \in Notes : inbox[n] = NoNote
  BY DEF MessagesInit, Inbox, Note, NoNote
<1>2. SoundInbox(inbox)
  BY <1>1 DEF SoundInbox, NoNote
<1>3. SoundChain(mail, Inbox) /\ mail.draft = <<>> /\ mail.file = inbox
  BY <1>1, NewChainSound DEF MessagesInit
<1>4. MailTypes
  BY <1>3, SilentIs DEF MessagesInit, MailTypes
<1>5. Versions
  BY <1>2, <1>3, GrowsItself DEF Versions
<1>6. Waiting
  BY SilentIs DEF MessagesInit, Waiting
<1> QED BY <1>4, <1>5, <1>6 DEF MessagesInit, MailInv

LEMMA StepMailInv ==
  ASSUME MailInv, [MessagesNext]_mailVars
  PROVE  MailInv'
<1>1. /\ SoundInbox(inbox) /\ SoundChain(mail, Inbox) /\ caller \in [Seats -> Caller]
      /\ Versions /\ Waiting
  BY DEF MailInv, MailTypes, Versions
<1>2. inbox \in Inbox
  BY <1>1 DEF SoundInbox
<1>3. CASE UNCHANGED mailVars
  BY <1>3 DEF mailVars, MailInv, MailTypes, Versions, Waiting, SoundInbox, Grows, There
<1>4. ASSUME NEW c \in Callers, Add(c) PROVE MailInv'
  <2> DEFINE n == Min(Unused(inbox))
             d == [inbox EXCEPT ![n].state = "unread"]
  <2>1. n \in Unused(inbox)
    BY <1>4, MinIs DEF Add, Unused, Notes
  <2>2. n \in Notes
    BY <2>1 DEF Unused
  <2>3. Posts(c, d, "add", n) /\ UNCHANGED <<serving, kept>>
    BY <1>4 DEF Add
  <2> HIDE DEF n
  <2>4. /\ d \in Inbox /\ d[n].state = "unread" /\ d[n].greeting = inbox[n].greeting
        /\ \A m \in Notes \ {n} : d[m] = inbox[m]
    BY <1>2, <2>2 DEF Inbox, Note
  <2> HIDE DEF d
  <2>5. SoundInbox(d) /\ Grows(inbox, d) /\ There(d, n)
    BY <1>1, <2>2, <2>4 DEF SoundInbox, Grows, There
  <2> QED BY <2>2, <2>3, <2>5, PostsInv DEF Seats
<1>5. ASSUME NEW c \in Callers, NEW n \in Notes, MarkRead(c, n) PROVE MailInv'
  <2> DEFINE d == [inbox EXCEPT ![n].state = "read"]
  <2>1. Posts(c, d, "read", n) /\ UNCHANGED <<serving, kept>>
    BY <1>5 DEF MarkRead
  <2>2. /\ d \in Inbox /\ d[n].state = "read" /\ d[n].greeting = inbox[n].greeting
        /\ \A m \in Notes \ {n} : d[m] = inbox[m]
    BY <1>2 DEF Inbox, Note
  <2> HIDE DEF d
  <2>3. SoundInbox(d) /\ Grows(inbox, d) /\ There(d, n)
    BY <1>1, <2>2 DEF SoundInbox, Grows, There
  <2> QED BY <2>1, <2>3, PostsInv DEF Seats
<1>6. ASSUME PostBegins PROVE MailInv'
  <2>1. /\ CanStart(mail) /\ mail' = Started(mail, inbox)
        /\ UNCHANGED <<inbox, serving, caller, kept>>
    BY <1>6 DEF PostBegins
  <2>2. /\ SoundChain(mail', Inbox) /\ mail'.draft # <<>> /\ mail'.draft[1] = inbox
        /\ mail'.file = mail.file /\ Outstanding(mail') = Outstanding(mail)
    BY <1>1, <1>2, <2>1, ChainStarts, Zenon
  <2>3. MailTypes'
    BY <2>1, <2>2 DEF MailInv, MailTypes
  <2>4. Versions'
    BY <1>1, <2>1, <2>2, GrowsItself DEF Versions
  <2>5. Waiting'
    BY <1>1, <2>1, <2>2 DEF Waiting
  <2> QED BY <2>1, <2>2, <2>3, <2>4, <2>5 DEF MailInv
<1>7. ASSUME PostEnds PROVE MailInv'
  <2>1. /\ CanEnd(mail) /\ mail' \in {Written(mail), NotWritten(mail)} /\ inbox' = inbox
        /\ serving' \in BOOLEAN
        /\ caller' = [c \in Seats |->
             IF caller[c] = Silent \/ Waited(c) THEN Silent
             ELSE [caller[c] EXCEPT !.left = @ - 1]]
    BY <1>7 DEF PostEnds, MailInv, MailTypes
  <2>2. /\ SoundChain(mail', Inbox) /\ mail'.draft = <<>> /\ mail.draft # <<>>
        /\ mail'.file \in {mail.draft[1], mail.file}
        /\ Outstanding(mail') = Outstanding(mail) - 1 /\ Outstanding(mail) \in Nat \ {0}
    BY <1>1, <2>1, ChainSteps DEF CanEnd, SoundChain
  <2>3. ASSUME NEW c \in Seats
        PROVE  \/ caller'[c] = Silent
               \/ /\ caller'[c] \in Caller
                  /\ caller[c].did # "nothing" /\ caller[c].left > 1
                  /\ caller'[c].did = caller[c].did /\ caller'[c].note = caller[c].note
                  /\ caller'[c].left = caller[c].left - 1
    <3>1. caller[c] \in Caller /\ (caller[c].did = "nothing" <=> caller[c] = Silent)
      BY <1>1 DEF Waiting
    <3>2. caller[c].did # "nothing" => caller[c].left \in 1 .. Outstanding(mail)
      BY <1>1 DEF Waiting
    <3>3. ASSUME caller[c] # Silent, ~Waited(c)
          PROVE  /\ caller'[c] = [caller[c] EXCEPT !.left = @ - 1]
                 /\ caller[c].left > 1 /\ caller[c].did # "nothing" /\ caller[c].left \in Nat
      BY <2>1, <2>2, <3>1, <3>2, <3>3 DEF Waited
    <3> QED BY <2>1, <3>1, <3>3 DEF Caller
  <2>4. kept' \in SUBSET Notes /\ \A n \in kept' : There(mail'.file, n)
    <3>1. /\ kept \in SUBSET Notes /\ \A n \in kept : There(mail.file, n)
          /\ Grows(mail.file, mail.draft[1])
      BY <1>1, <2>2 DEF MailInv, MailTypes, Versions
    <3>2. CASE mail' = NotWritten(mail) /\ kept' = kept
      BY <1>1, <2>1, <3>1, <3>2, ChainSteps
    <3>3. CASE /\ mail' = Written(mail)
               /\ kept' = kept \cup {caller[c].note : c \in
                            {s \in Seats : Waited(s) /\ caller[s].did = "add"}}
      <4>1. mail'.file = mail.draft[1]
        BY <1>1, <2>1, <3>3, ChainSteps
      <4>2. \A c \in Seats : Waited(c) /\ caller[c].did = "add" =>
              caller[c].note \in Notes /\ There(mail.draft[1], caller[c].note)
        BY <1>1, <2>2 DEF Waited, Waiting
      <4> QED BY <3>1, <3>3, <4>1, <4>2 DEF Grows
    <3> QED BY <1>7, <3>2, <3>3 DEF PostEnds
  <2>5. MailTypes'
    BY <2>1, <2>2, <2>3, <2>4, SilentIs DEF MailTypes
  <2>6. Versions'
    BY <1>1, <2>1, <2>2 DEF Versions
  <2>7. Waiting'
    BY <1>1, <2>1, <2>2, <2>3, SilentIs DEF Waiting, Caller
  <2> QED BY <2>4, <2>5, <2>6, <2>7 DEF MailInv
<1>8. ASSUME MailRestart PROVE MailInv'
  BY <1>8, BeginsInv DEF MailRestart, MailInv, MailTypes, Versions
<1> QED BY <1>3, <1>4, <1>5, <1>6, <1>7, <1>8 DEF MessagesNext

LEMMA MailInductive == MessagesSpec => []MailInv
<1>1. MessagesInit => MailInv
  BY InitMailInv
<1>2. MailInv /\ [MessagesNext]_mailVars => MailInv'
  BY StepMailInv
<1> QED BY <1>1, <1>2, PTL DEF MessagesSpec

\* The inbox keeps its types (messages.js).
THEOREM InboxTypeCorrect == MessagesSpec => []MessagesTypeOK
BY MailInductive, MailInvTypes, PTL

\* Restarts and failed writes neither lose a note whose sender was told it is
\* in nor leave a second greeting (messages.js: add, seedWelcome).
THEOREM NotesAreKept == MessagesSpec => []InboxSound
<1>1. MailInv => InboxSound
  BY MailInvSound
<1> QED BY <1>1, MailInductive, PTL
----------------------------------------------------------------------------
(* The accounts: what the operations make of the data.                     *)

SoundData(d) ==
  /\ d \in Data
  /\ \A i \in Invites :
       d.invites[i].redeemed \/ d.invites[i].revoked => d.invites[i].issued

\* A session that e has and d has not is of an account that is active in d.
FreshSessions(d, e) ==
  \A k \in Keys :
    d.keys[k].state = "absent" /\ e.keys[k].state = "valid"
      /\ e.keys[k].kind = "session"
      => d.users[e.keys[k].owner].status = "active"

Changes(d, e) == SoundData(e) /\ Advances(d, e) /\ FreshSessions(d, e)

LEMMA AdvancesItself == ASSUME NEW d PROVE Advances(d, d)
BY DEF Advances

LEMMA AdvancesOn ==
  ASSUME NEW d, NEW e, NEW f, Advances(d, e), Advances(e, f)
  PROVE  Advances(d, f)
BY DEF Advances

LEMMA NextIds ==
  /\ SomeUser => NextUser \in Users /\ ~HasUser(accounts, NextUser)
  /\ SomeInvite => NextInvite \in Invites /\ ~accounts.invites[NextInvite].issued
  /\ SomeKey => NextKey \in Keys /\ accounts.keys[NextKey].state = "absent"
<1> DEFINE us == {u \in Users : ~HasUser(accounts, u)}
           is == {i \in Invites : ~accounts.invites[i].issued}
           ks == {k \in Keys : accounts.keys[k].state = "absent"}
<1>1. /\ us \in SUBSET Nat /\ is \in SUBSET Nat /\ ks \in SUBSET Nat
      /\ SomeUser => us # {}
      /\ SomeInvite => is # {}
      /\ SomeKey => ks # {}
  BY DEF SomeUser, SomeInvite, SomeKey, Users, Invites, Keys
<1>2. NextUser = Min(us) /\ NextInvite = Min(is) /\ NextKey = Min(ks)
  BY DEF NextUser, NextInvite, NextKey
<1> HIDE DEF us, is, ks
<1>3. /\ SomeUser => NextUser \in us
      /\ SomeInvite => NextInvite \in is
      /\ SomeKey => NextKey \in ks
  BY <1>1, <1>2, MinIs
<1> QED BY <1>3 DEF us, is, ks

LEMMA InviteChanges ==
  ASSUME SoundData(accounts), NEW n \in Invites, ~accounts.invites[n].issued,
         NEW e \in Emails \cup {NoOne}
  PROVE  LET d == [accounts EXCEPT !.invites[n] =
                     [NoInvite EXCEPT !.issued = TRUE, !.email = e]]
         IN  Changes(accounts, d) /\ d.invites[n].issued
<1> DEFINE v == [NoInvite EXCEPT !.issued = TRUE, !.email = e]
           d == [accounts EXCEPT !.invites[n] = v]
<1>1. v \in Invite /\ v.issued /\ ~v.redeemed /\ ~v.revoked
  BY DEF NoInvite, Invite
<1> HIDE DEF v
<1>2. accounts \in Data
  BY DEF SoundData
<1>3. /\ d \in Data /\ d.users = accounts.users /\ d.keys = accounts.keys
      /\ d.invites[n] = v /\ \A i \in Invites \ {n} : d.invites[i] = accounts.invites[i]
  BY <1>1, <1>2 DEF Data
<1> HIDE DEF d
<1>4. Changes(accounts, d)
  BY <1>1, <1>3 DEF Changes, SoundData, Advances, HasUser, FreshSessions
<1> QED BY <1>1, <1>3, <1>4 DEF d, v

LEMMA RevokedInviteChanges ==
  ASSUME SoundData(accounts), NEW n \in Invites, accounts.invites[n].issued
  PROVE  LET d == [accounts EXCEPT !.invites[n].revoked = TRUE]
         IN  Changes(accounts, d) /\ d.invites[n].issued /\ d.invites[n].revoked
<1> DEFINE d == [accounts EXCEPT !.invites[n].revoked = TRUE]
<1>1. accounts \in Data
  BY DEF SoundData
<1>2. /\ d \in Data /\ d.users = accounts.users /\ d.keys = accounts.keys
      /\ \A i \in Invites \ {n} : d.invites[i] = accounts.invites[i]
      /\ d.invites[n].issued = accounts.invites[n].issued
      /\ d.invites[n].redeemed = accounts.invites[n].redeemed
      /\ d.invites[n].revoked
  BY <1>1 DEF Data, Invite
<1> HIDE DEF d
<1>3. Changes(accounts, d)
  BY <1>2 DEF Changes, SoundData, Advances, HasUser, FreshSessions
<1> QED BY <1>2, <1>3 DEF d

LEMMA RedeemedChanges ==
  ASSUME SoundData(accounts), NEW i \in Invites, accounts.invites[i].issued,
         NEW n \in Users, ~HasUser(accounts, n),
         NEW m \in Keys, accounts.keys[m].state = "absent"
  PROVE  LET d == [accounts EXCEPT
                     !.users[n] = [status |-> "active",
                                   email |-> accounts.invites[i].email, invite |-> i],
                     !.keys[m] = [state |-> "valid", kind |-> "key", owner |-> n],
                     !.invites[i].redeemed = TRUE]
         IN  /\ Changes(accounts, d) /\ HasUser(d, n)
             /\ d.invites[i].redeemed /\ d.keys[m].state # "absent"
<1> DEFINE x == [status |-> "active", email |-> accounts.invites[i].email, invite |-> i]
           y == [state |-> "valid", kind |-> "key", owner |-> n]
           a == [accounts EXCEPT !.users[n] = x]
           b == [a EXCEPT !.keys[m] = y]
           d == [b EXCEPT !.invites[i].redeemed = TRUE]
<1>1. accounts \in Data
  BY DEF SoundData
<1>2. /\ x \in User /\ x.status = "active"
      /\ y \in Key /\ y.state = "valid" /\ y.kind = "key"
  BY <1>1 DEF Data, Invite, User, Key
<1>3. [accounts EXCEPT !.users[n] = x, !.keys[m] = y, !.invites[i].redeemed = TRUE] = d
  BY Zenon
<1> HIDE DEF x, y
<1>4. /\ a \in Data /\ a.invites = accounts.invites /\ a.keys = accounts.keys
      /\ a.users[n] = x /\ \A u \in Users \ {n} : a.users[u] = accounts.users[u]
  BY <1>1, <1>2 DEF Data
<1> HIDE DEF a
<1>5. /\ b \in Data /\ b.invites = a.invites /\ b.users = a.users
      /\ b.keys[m] = y /\ \A k \in Keys \ {m} : b.keys[k] = a.keys[k]
  BY <1>2, <1>4 DEF Data
<1> HIDE DEF b
<1>6. /\ d \in Data /\ d.users = b.users /\ d.keys = b.keys
      /\ \A j \in Invites \ {i} : d.invites[j] = b.invites[j]
      /\ d.invites[i].issued = b.invites[i].issued
      /\ d.invites[i].revoked = b.invites[i].revoked
      /\ d.invites[i].redeemed
  <2> DEFINE w == [b.invites EXCEPT ![i].redeemed = TRUE]
  <2>1. /\ w \in [Invites -> Invite] /\ \A j \in Invites \ {i} : w[j] = b.invites[j]
        /\ w[i].issued = b.invites[i].issued /\ w[i].revoked = b.invites[i].revoked
        /\ w[i].redeemed
    <3> DEFINE f == b.invites
    <3>1. f \in [Invites -> Invite]
      BY <1>5 DEF Data
    <3> HIDE DEF f
    <3>2. [f[i] EXCEPT !.redeemed = TRUE] \in Invite
          /\ [f[i] EXCEPT !.redeemed = TRUE].issued = f[i].issued
          /\ [f[i] EXCEPT !.redeemed = TRUE].revoked = f[i].revoked
          /\ [f[i] EXCEPT !.redeemed = TRUE].redeemed
      BY <3>1 DEF Invite
    <3> DEFINE v == [f[i] EXCEPT !.redeemed = TRUE]
    <3>3. w = [f EXCEPT ![i] = v]
      BY Zenon DEF f
    <3>4. v \in Invite /\ v.issued = f[i].issued /\ v.revoked = f[i].revoked /\ v.redeemed
      BY <3>2
    <3> HIDE DEF v, w
    <3>5. /\ w \in [Invites -> Invite] /\ \A j \in Invites \ {i} : w[j] = f[j]
          /\ w[i] = v
      BY <3>1, <3>3, <3>4
    <3> QED BY <3>4, <3>5 DEF f
  <2>2. d = [b EXCEPT !.invites = w]
    BY Zenon
  <2> HIDE DEF w, d
  <2>3. d \in Data /\ d.users = b.users /\ d.keys = b.keys /\ d.invites = w
    BY <1>5, <2>1, <2>2 DEF Data
  <2> QED BY <2>1, <2>3
<1> HIDE DEF d
<1>7. SoundData(d)
  BY <1>4, <1>5, <1>6 DEF SoundData
<1>8. Advances(accounts, d)
  BY <1>2, <1>4, <1>5, <1>6 DEF Advances, HasUser
<1>9. FreshSessions(accounts, d) /\ HasUser(d, n) /\ d.keys[m].state # "absent"
  BY <1>2, <1>4, <1>5, <1>6 DEF FreshSessions, HasUser
<1> QED BY <1>3, <1>6, <1>7, <1>8, <1>9 DEF Changes, x, y

LEMMA SessionChanges ==
  ASSUME SoundData(accounts), NEW expired, expired \subseteq Sessions(accounts, Users),
         NEW m \in Keys, accounts.keys[m].state = "absent",
         NEW u \in Users, accounts.users[u].status = "active"
  PROVE  LET d == [accounts EXCEPT !.keys = [k \in Keys |->
                     IF k \in expired THEN [accounts.keys[k] EXCEPT !.state = "gone"]
                     ELSE IF k = m THEN [state |-> "valid", kind |-> "session", owner |-> u]
                     ELSE accounts.keys[k]]]
         IN  Changes(accounts, d) /\ d.keys[m].state # "absent"
<1> DEFINE f == [k \in Keys |->
                   IF k \in expired THEN [accounts.keys[k] EXCEPT !.state = "gone"]
                   ELSE IF k = m THEN [state |-> "valid", kind |-> "session", owner |-> u]
                   ELSE accounts.keys[k]]
           d == [accounts EXCEPT !.keys = f]
<1>1. accounts \in Data
  BY DEF SoundData
<1>2. \A k \in expired : accounts.keys[k].state \in {"valid", "revoked"} /\ k \in Keys
  BY DEF Sessions
<1>3. /\ f \in [Keys -> Key]
      /\ \A k \in expired : f[k].state = "gone"
      /\ f[m].state = "valid" /\ f[m].owner = u
      /\ \A k \in Keys \ (expired \cup {m}) : f[k] = accounts.keys[k]
  BY <1>1, <1>2 DEF Data, Key
<1> HIDE DEF f
<1>4. d \in Data /\ d.users = accounts.users /\ d.invites = accounts.invites /\ d.keys = f
  BY <1>1, <1>3 DEF Data
<1> HIDE DEF d
<1>5. SoundData(d)
  BY <1>4 DEF SoundData
<1>6. Advances(accounts, d)
  BY <1>2, <1>3, <1>4 DEF Advances, HasUser
<1>7. FreshSessions(accounts, d)
  BY <1>2, <1>3, <1>4 DEF FreshSessions
<1> QED BY <1>3, <1>4, <1>5, <1>6, <1>7 DEF Changes, d, f

LEMMA KeyChanges ==
  ASSUME SoundData(accounts), NEW m \in Keys, accounts.keys[m].state = "absent",
         NEW u \in Users
  PROVE  LET d == [accounts EXCEPT !.keys[m] =
                     [state |-> "valid", kind |-> "key", owner |-> u]]
         IN  Changes(accounts, d) /\ d.keys[m].state # "absent"
<1> DEFINE y == [state |-> "valid", kind |-> "key", owner |-> u]
           d == [accounts EXCEPT !.keys[m] = y]
<1>1. accounts \in Data
  BY DEF SoundData
<1>2. y \in Key /\ y.state = "valid" /\ y.kind = "key"
  BY DEF Key
<1> HIDE DEF y
<1>3. /\ d \in Data /\ d.users = accounts.users /\ d.invites = accounts.invites
      /\ d.keys[m] = y /\ \A k \in Keys \ {m} : d.keys[k] = accounts.keys[k]
  BY <1>1, <1>2 DEF Data
<1> HIDE DEF d
<1>4. Changes(accounts, d)
  BY <1>2, <1>3 DEF Changes, SoundData, Advances, HasUser, FreshSessions
<1> QED BY <1>2, <1>3, <1>4 DEF d, y

LEMMA RevokedKeyChanges ==
  ASSUME SoundData(accounts), NEW m \in Keys, accounts.keys[m].state = "valid"
  PROVE  LET d == [accounts EXCEPT !.keys[m].state = "revoked"]
         IN  Changes(accounts, d) /\ d.keys[m].state = "revoked"
<1> DEFINE d == [accounts EXCEPT !.keys[m].state = "revoked"]
<1>1. accounts \in Data
  BY DEF SoundData
<1>2. /\ d \in Data /\ d.users = accounts.users /\ d.invites = accounts.invites
      /\ d.keys[m].state = "revoked"
      /\ \A k \in Keys \ {m} : d.keys[k] = accounts.keys[k]
  BY <1>1 DEF Data, Key
<1> HIDE DEF d
<1>3. Changes(accounts, d)
  BY <1>2 DEF Changes, SoundData, Advances, HasUser, FreshSessions
<1> QED BY <1>2, <1>3 DEF d

LEMMA UserStatusChanges ==
  ASSUME SoundData(accounts), NEW u \in Users, HasUser(accounts, u),
         NEW s \in {"active", "disabled"}
  PROVE  Changes(accounts, [accounts EXCEPT !.users[u].status = s])
<1> DEFINE d == [accounts EXCEPT !.users[u].status = s]
<1>1. accounts \in Data
  BY DEF SoundData
<1>2. /\ d \in Data /\ d.keys = accounts.keys /\ d.invites = accounts.invites
      /\ d.users[u].status = s /\ d.users[u].email = accounts.users[u].email
      /\ \A v \in Users \ {u} : d.users[v] = accounts.users[v]
  BY <1>1 DEF Data, User
<1> HIDE DEF d
<1>3. Changes(accounts, d)
  BY <1>2 DEF Changes, SoundData, Advances, HasUser, FreshSessions
<1> QED BY <1>3 DEF d

\* Sessions, of whatever users, go from valid or revoked to one of these.
LEMMA EndedSessionsChange ==
  ASSUME NEW x, SoundData(x), NEW us, NEW S, S \subseteq Sessions(x, us),
         NEW s \in {"revoked", "gone"}
  PROVE  Changes(x, [x EXCEPT !.keys = [k \in Keys |->
                       IF k \in S THEN [x.keys[k] EXCEPT !.state = s] ELSE x.keys[k]]])
<1> DEFINE f == [k \in Keys |-> IF k \in S THEN [x.keys[k] EXCEPT !.state = s] ELSE x.keys[k]]
           d == [x EXCEPT !.keys = f]
<1>1. x \in Data
  BY DEF SoundData
<1>2. \A k \in S : x.keys[k].state \in {"valid", "revoked"} /\ k \in Keys
  BY DEF Sessions
<1>3. /\ f \in [Keys -> Key]
      /\ \A k \in S : f[k].state = s
      /\ \A k \in Keys \ S : f[k] = x.keys[k]
  BY <1>1, <1>2 DEF Data, Key
<1> HIDE DEF f
<1>4. d \in Data /\ d.users = x.users /\ d.invites = x.invites /\ d.keys = f
  BY <1>1, <1>3 DEF Data
<1> HIDE DEF d
<1>5. SoundData(d)
  BY <1>4 DEF SoundData
<1>6. Advances(x, d)
  BY <1>2, <1>3, <1>4 DEF Advances, HasUser
<1>7. FreshSessions(x, d)
  BY <1>2, <1>3, <1>4 DEF FreshSessions
<1> QED BY <1>5, <1>6, <1>7 DEF Changes, d, f
----------------------------------------------------------------------------
(* The accounts: who waits for what.                                       *)

\* What a request that is saving has changed is in d, a status apart.
Did(q, d) ==
  /\ q.op \in {"invite", "revokeInvite"} => d.invites[q.invite].issued
  /\ q.op = "revokeInvite" => d.invites[q.invite].revoked
  /\ q.op = "redeem" => HasUser(d, q.user) /\ d.invites[q.invite].redeemed
  /\ q.op \in {"redeem", "login", "createKey"} => d.keys[q.key].state # "absent"
  /\ q.op \in {"revokeKey", "setPassword"} =>
       \A k \in q.ended : d.keys[k].state \in {"revoked", "gone"}

\* It goes by ids that there are.
Shape(q) ==
  /\ q.op \in {"invite", "revokeInvite", "redeem"} => q.invite \in Invites
  /\ q.op = "redeem" => q.user \in Users
  /\ q.op \in {"redeem", "login", "createKey"} => q.key \in Keys
  /\ q.ended \subseteq Keys

\* Of a request q, of the data d in memory and the chain c.
SoundRequest(q, d, c) ==
  /\ q.at = "hashing" =>
       /\ q.op = "redeem" => q.invite \in Invites /\ d.invites[q.invite].issued
       /\ q.op = "login" => q.email \in Emails /\ (q.good => q.user \in Users)
  /\ q.at = "saving" =>
       /\ q.left \in 1 .. Outstanding(c)
       /\ Shape(q) /\ Did(q, d)
       /\ c.draft # <<>> /\ q.left = 1 => Did(q, c.draft[1])

StoreInv ==
  /\ SoundChain(chain, Data)
  /\ SoundData(accounts) /\ SoundData(chain.file) /\ Advances(chain.file, accounts)
  /\ chain.draft # <<>> => /\ SoundData(chain.draft[1])
                           /\ Advances(chain.file, chain.draft[1])
                           /\ Advances(chain.draft[1], accounts)
  /\ request \in [Requests -> Request]
  /\ \A r \in Requests : SoundRequest(request[r], accounts, chain)

LEMMA DidAdvances ==
  ASSUME NEW q, Shape(q), NEW d, NEW e, Did(q, d), Advances(d, e)
  PROVE  Did(q, e)
BY DEF Did, Shape, Advances

LEMMA IdleIs ==
  /\ Idle \in Request /\ Idle.at = "idle"
  /\ \A d, c : SoundRequest(Idle, d, c)
BY DEF Idle, Request, Operation, SoundRequest

\* A write more, or data that have advanced, make no request unsound.
LEMMA OthersSound ==
  ASSUME StoreInv, NEW r \in Requests, NEW d, Advances(accounts, d), NEW c,
         c.draft = chain.draft, Outstanding(c) \in Nat,
         Outstanding(chain) <= Outstanding(c)
  PROVE  SoundRequest(request[r], d, c)
<1>1. SoundRequest(request[r], accounts, chain) /\ Outstanding(chain) \in Nat
  BY OutstandingIs DEF StoreInv
<1>2. \A i \in Invites : accounts.invites[i].issued => d.invites[i].issued
  BY DEF Advances
<1>3. Shape(request[r]) /\ Did(request[r], accounts) => Did(request[r], d)
  BY DidAdvances
<1> QED BY <1>1, <1>2, <1>3 DEF SoundRequest

\* An operation that changes the data and waits for it to be written.
LEMMA MutateInv ==
  ASSUME StoreInv, NEW r \in Requests, NEW d, Changes(accounts, d),
         NEW what \in Request, Shape(what), Did(what, d), Mutate(r, d, what)
  PROVE  StoreInv' /\ request'[r].at = "saving"
         /\ \A s \in Requests \ {r} : request'[s] = request[s]
<1> DEFINE new == [what EXCEPT !.at = "saving", !.left = Outstanding(chain')]
<1>1. /\ accounts' = d /\ chain' = Asked(chain)
      /\ request' = [request EXCEPT ![r] = new]
  BY DEF Mutate
<1>2. SoundData(d) /\ Advances(accounts, d)
  BY DEF Changes
<1>3. /\ SoundChain(chain', Data) /\ chain'.draft = chain.draft /\ chain'.file = chain.file
      /\ Outstanding(chain') = Outstanding(chain) + 1
      /\ Outstanding(chain) \in Nat /\ Outstanding(chain') \in Nat
      /\ chain.draft # <<>> => Outstanding(chain) # 0
  <2>1. SoundChain(chain, Data)
    BY DEF StoreInv
  <2>2. /\ SoundChain(chain', Data) /\ chain'.draft = chain.draft /\ chain'.file = chain.file
        /\ Outstanding(chain') = Outstanding(chain) + 1
    BY <1>1, <2>1, ChainSteps
  <2> QED BY <2>1, <2>2, OutstandingIs
<1>4. /\ new \in Request /\ new.at = "saving" /\ new.left = Outstanding(chain')
      /\ new.op = what.op /\ new.user = what.user /\ new.invite = what.invite
      /\ new.key = what.key /\ new.ended = what.ended
  BY <1>3 DEF Request
<1> HIDE DEF new
<1>5. SoundRequest(new, d, chain')
  BY <1>3, <1>4 DEF SoundRequest, Shape, Did
<1>6. /\ request' \in [Requests -> Request] /\ request'[r] = new
      /\ \A s \in Requests \ {r} : request'[s] = request[s]
  BY <1>1, <1>4 DEF StoreInv
<1>7. \A s \in Requests \ {r} : SoundRequest(request[s], d, chain')
  BY <1>2, <1>3, OthersSound
<1>8. \A s \in Requests : SoundRequest(request'[s], d, chain')
  BY <1>5, <1>6, <1>7
<1>9. \A x : Advances(x, accounts) => Advances(x, d)
  BY <1>2, AdvancesOn
<1> QED BY <1>1, <1>2, <1>3, <1>4, <1>6, <1>8, <1>9 DEF StoreInv

\* One that waits for a password to be hashed, or is refused.
LEMMA WaitInv ==
  ASSUME StoreInv, NEW r \in Requests, NEW new \in Request,
         SoundRequest(new, accounts, chain),
         request' = [request EXCEPT ![r] = new], UNCHANGED <<accounts, chain>>
  PROVE  StoreInv' /\ request'[r] = new
         /\ \A s \in Requests \ {r} : request'[s] = request[s]
<1>1. /\ request' \in [Requests -> Request] /\ request'[r] = new
      /\ \A s \in Requests \ {r} : request'[s] = request[s]
  BY DEF StoreInv
<1>2. \A s \in Requests : SoundRequest(request'[s], accounts, chain)
  BY <1>1 DEF StoreInv
<1> QED BY <1>1, <1>2 DEF StoreInv

LEMMA InitStoreInv == AccountsInit => StoreInv
<1> SUFFICES ASSUME AccountsInit PROVE StoreInv
  OBVIOUS
<1>1. NoUser \in User /\ NoInvite \in Invite /\ NoKey \in Key
  BY DEF NoUser, User, NoInvite, Invite, NoKey, Key
<1>2. SoundData(NoData)
  BY <1>1 DEF SoundData, NoData, Data, NoInvite
<1>3. SoundChain(chain, Data) /\ chain.draft = <<>> /\ chain.file = NoData
  BY <1>2, NewChainSound DEF AccountsInit, SoundData
<1> QED BY <1>2, <1>3, AdvancesItself, IdleIs DEF AccountsInit, StoreInv

\* The operations, as changes of the data that somebody waits for.
LEMMA OperationInv ==
  ASSUME StoreInv, AccountsNext, ~WriteBegins, ~WriteEnds, ~Restart
  PROVE  StoreInv' /\ FreshSessions(accounts, accounts')
<1> DEFINE Goal == StoreInv' /\ FreshSessions(accounts, accounts')
<1>1. SoundData(accounts) /\ request \in [Requests -> Request]
  BY DEF StoreInv
<1>2. \A d : FreshSessions(d, d)
  BY DEF FreshSessions
<1>3. ASSUME NEW r \in Requests, NEW d, Changes(accounts, d), NEW what \in Request,
             Shape(what), Did(what, d), Mutate(r, d, what)
      PROVE  Goal
  BY <1>3, MutateInv DEF Mutate, Changes
<1>4. ASSUME NEW r \in Requests, NEW new \in Request, SoundRequest(new, accounts, chain),
             request' = [request EXCEPT ![r] = new], UNCHANGED <<accounts, chain>>
      PROVE  Goal
  BY <1>2, <1>4, WaitInv
<1> HIDE DEF Goal
<1>5. ASSUME NEW r \in Requests, NEW e \in Emails, CreateInvite(r, e) PROVE Goal
  <2> DEFINE n == NextInvite
             d == [accounts EXCEPT !.invites[n] = [NoInvite EXCEPT !.issued = TRUE, !.email = e]]
             what == [Idle EXCEPT !.op = "invite", !.invite = n]
  <2>1. n \in Invites /\ ~accounts.invites[n].issued /\ Mutate(r, d, what)
    BY <1>5, NextIds DEF CreateInvite
  <2> HIDE DEF n
  <2>2. Changes(accounts, d) /\ d.invites[n].issued
    BY <1>1, <2>1, InviteChanges
  <2> HIDE DEF d
  <2>3. what \in Request /\ what.op = "invite" /\ what.invite = n
        /\ what.ended \subseteq Keys
    BY <2>1 DEF Idle, Request, Operation
  <2> HIDE DEF what
  <2> QED BY <1>3, <2>1, <2>2, <2>3 DEF Shape, Did
<1>6. ASSUME NEW r \in Requests, NEW i \in Invites, RevokeInvite(r, i) PROVE Goal
  <2> DEFINE d == [accounts EXCEPT !.invites[i].revoked = TRUE]
             what == [Idle EXCEPT !.op = "revokeInvite", !.invite = i]
  <2>1. accounts.invites[i].issued /\ Mutate(r, d, what)
    BY <1>6 DEF RevokeInvite, Pending
  <2>2. Changes(accounts, d) /\ d.invites[i].issued /\ d.invites[i].revoked
    BY <1>1, <2>1, RevokedInviteChanges
  <2> HIDE DEF d
  <2>3. what \in Request /\ what.op = "revokeInvite" /\ what.invite = i
        /\ what.ended \subseteq Keys
    BY DEF Idle, Request, Operation
  <2> HIDE DEF what
  <2> QED BY <1>3, <2>1, <2>2, <2>3 DEF Shape, Did
<1>7. ASSUME NEW r \in Requests, NEW i \in Invites, RedeemBegins(r, i) PROVE Goal
  <2> DEFINE what == [Idle EXCEPT !.op = "redeem", !.invite = i]
             new == [what EXCEPT !.at = "hashing"]
  <2>1. /\ accounts.invites[i].issued
        /\ request' = [request EXCEPT ![r] = new] /\ UNCHANGED <<accounts, chain>>
    BY <1>7 DEF RedeemBegins, Pending, Hash
  <2>2. what \in Request /\ what.op = "redeem" /\ what.invite = i
    BY DEF Idle, Request, Operation
  <2> HIDE DEF what
  <2>3. new \in Request /\ new.at = "hashing" /\ new.op = "redeem" /\ new.invite = i
    BY <2>2 DEF Request
  <2> HIDE DEF new
  <2> QED BY <1>4, <2>1, <2>3 DEF SoundRequest
<1>8. ASSUME NEW r \in Requests, NEW e \in Emails, NEW right \in BOOLEAN,
             LoginBegins(r, e, right)
      PROVE  Goal
  <2> DEFINE u == IF WithEmail(e) = {} THEN 0 ELSE Min(WithEmail(e))
             what == [Idle EXCEPT !.op = "login", !.email = e, !.user = u,
                                  !.good = (u # 0 /\ right)]
             new == [what EXCEPT !.at = "hashing"]
  <2>1. request' = [request EXCEPT ![r] = new] /\ UNCHANGED <<accounts, chain>>
    BY <1>8 DEF LoginBegins, Hash
  <2>2. u \in Users \cup {0}
    <3>1. WithEmail(e) \in SUBSET Nat /\ WithEmail(e) \subseteq Users
      BY DEF WithEmail, Users
    <3> QED BY <3>1, MinIs
  <2> HIDE DEF u
  <2>3. /\ what \in Request /\ what.op = "login" /\ what.email = e /\ what.user = u
        /\ what.good = (u # 0 /\ right)
    BY <2>2 DEF Idle, Request, Operation
  <2> HIDE DEF what
  <2>4. /\ new \in Request /\ new.at = "hashing" /\ new.op = "login" /\ new.email = e
        /\ new.user = u /\ (new.good => u # 0)
    BY <2>3 DEF Request
  <2> HIDE DEF new
  <2> QED BY <1>4, <2>1, <2>2, <2>4 DEF SoundRequest
<1>9. ASSUME NEW r \in Requests, RedeemEnds(r) PROVE Goal
  <2> DEFINE i == request[r].invite
             n == NextUser
             m == NextKey
             d == [accounts EXCEPT
                     !.users[n] = [status |-> "active",
                                   email |-> accounts.invites[i].email, invite |-> i],
                     !.keys[m] = [state |-> "valid", kind |-> "key", owner |-> n],
                     !.invites[i].redeemed = TRUE]
             what == [request[r] EXCEPT !.user = n, !.key = m]
  <2>1. /\ n \in Users /\ ~HasUser(accounts, n)
        /\ m \in Keys /\ accounts.keys[m].state = "absent"
        /\ Mutate(r, d, what)
    BY <1>9, NextIds DEF RedeemEnds
  <2>2. /\ i \in Invites /\ accounts.invites[i].issued /\ request[r].op = "redeem"
        /\ request[r] \in Request
    BY <1>1, <1>9 DEF RedeemEnds, Hashed, StoreInv, SoundRequest
  <2> HIDE DEF n, m
  <2>3. /\ what \in Request /\ what.op = "redeem" /\ what.invite = i
        /\ what.user = n /\ what.key = m /\ what.ended \subseteq Keys
    BY <2>1, <2>2 DEF Request
  <2> HIDE DEF what, i
  <2>4. /\ Changes(accounts, d) /\ HasUser(d, n)
        /\ d.invites[i].redeemed /\ d.keys[m].state # "absent"
    BY <1>1, <2>1, <2>2, RedeemedChanges
  <2> HIDE DEF d
  <2> QED BY <1>3, <2>1, <2>2, <2>3, <2>4 DEF Shape, Did
<1>10. ASSUME NEW r \in Requests, LoginRefused(r) PROVE Goal
  BY <1>4, <1>10, IdleIs DEF LoginRefused, Refused
<1>11. ASSUME NEW r \in Requests, PasswordEnds(r) PROVE Goal
  <2> DEFINE S == Sessions(accounts, {request[r].user})
             d == [accounts EXCEPT !.keys = [k \in Keys |->
                     IF k \in S THEN [accounts.keys[k] EXCEPT !.state = "revoked"]
                     ELSE accounts.keys[k]]]
             what == [request[r] EXCEPT !.ended = S]
  <2>1. Mutate(r, d, what) /\ request[r].op = "setPassword" /\ request[r] \in Request
    BY <1>1, <1>11 DEF PasswordEnds, Hashed
  <2>2. S \subseteq Sessions(accounts, {request[r].user}) /\ S \subseteq Keys
    BY DEF Sessions
  <2> HIDE DEF S
  <2>3. what \in Request /\ what.op = "setPassword" /\ what.ended = S
    BY <2>1, <2>2 DEF Request
  <2>4. Changes(accounts, d)
    BY <1>1, <2>2, EndedSessionsChange
  <2>5. \A k \in S : d.keys[k].state = "revoked"
    BY <1>1, <2>2 DEF SoundData, Data, Key
  <2> HIDE DEF d, what
  <2> QED BY <1>3, <2>1, <2>2, <2>3, <2>4, <2>5 DEF Shape, Did
<1>12. ASSUME NEW r \in Requests, NEW expired \in SUBSET Keys, LoginEnds(r, expired)
       PROVE  Goal
  <2> DEFINE m == NextKey
             u == request[r].user
             d == [accounts EXCEPT !.keys = [k \in Keys |->
                     IF k \in expired THEN [accounts.keys[k] EXCEPT !.state = "gone"]
                     ELSE IF k = m
                          THEN [state |-> "valid", kind |-> "session", owner |-> u]
                          ELSE accounts.keys[k]]]
             what == [request[r] EXCEPT !.key = m]
  <2>1. /\ m \in Keys /\ accounts.keys[m].state = "absent"
        /\ expired \subseteq Sessions(accounts, Users)
        /\ accounts.users[u].status = "active" /\ request[r].good
        /\ request[r].op = "login" /\ request[r].at = "hashing"
        /\ Mutate(r, d, what)
    BY <1>12, NextIds DEF LoginEnds, Hashed, MayEnter
  <2>2. request[r] \in Request /\ u \in Users
    BY <1>1, <2>1 DEF StoreInv, SoundRequest
  <2> HIDE DEF m
  <2>3. what \in Request /\ what.op = "login" /\ what.key = m
        /\ what.ended \subseteq Keys
    BY <2>1, <2>2 DEF Request
  <2> HIDE DEF what, u
  <2>4. Changes(accounts, d) /\ d.keys[m].state # "absent"
    BY <1>1, <2>1, <2>2, SessionChanges
  <2> HIDE DEF d
  <2> QED BY <1>3, <2>1, <2>3, <2>4 DEF Shape, Did
<1>13. ASSUME NEW r \in Requests, NEW u \in Users, CreateKey(r, u) PROVE Goal
  <2> DEFINE m == NextKey
             d == [accounts EXCEPT !.keys[m] =
                     [state |-> "valid", kind |-> "key", owner |-> u]]
             what == [Idle EXCEPT !.op = "createKey", !.key = m]
  <2>1. m \in Keys /\ accounts.keys[m].state = "absent" /\ Mutate(r, d, what)
    BY <1>13, NextIds DEF CreateKey
  <2> HIDE DEF m
  <2>2. Changes(accounts, d) /\ d.keys[m].state # "absent"
    BY <1>1, <2>1, KeyChanges
  <2> HIDE DEF d
  <2>3. what \in Request /\ what.op = "createKey" /\ what.key = m
        /\ what.ended \subseteq Keys
    BY <2>1 DEF Idle, Request, Operation
  <2> HIDE DEF what
  <2> QED BY <1>3, <2>1, <2>2, <2>3 DEF Shape, Did
<1>14. ASSUME NEW r \in Requests, NEW k \in Keys, RevokeKey(r, k) PROVE Goal
  <2> DEFINE d == [accounts EXCEPT !.keys[k].state = "revoked"]
             what == [Idle EXCEPT !.op = "revokeKey", !.ended = {k}]
  <2>1. accounts.keys[k].state = "valid" /\ Mutate(r, d, what)
    BY <1>14 DEF RevokeKey
  <2>2. Changes(accounts, d) /\ d.keys[k].state = "revoked"
    BY <1>1, <2>1, RevokedKeyChanges
  <2> HIDE DEF d
  <2>3. what \in Request /\ what.op = "revokeKey" /\ what.ended = {k}
    BY DEF Idle, Request, Operation
  <2> HIDE DEF what
  <2> QED BY <1>3, <2>1, <2>2, <2>3 DEF Shape, Did
<1>15. ASSUME NEW r \in Requests, NEW u \in Users, NEW s \in {"active", "disabled"},
              SetStatus(r, u, s)
       PROVE  Goal
  <2> DEFINE d == [accounts EXCEPT !.users[u].status = s]
             what == [Idle EXCEPT !.op = "setStatus", !.user = u, !.status = s]
  <2>1. HasUser(accounts, u) /\ Mutate(r, d, what)
    BY <1>15 DEF SetStatus
  <2>2. Changes(accounts, d)
    BY <1>1, <2>1, UserStatusChanges
  <2> HIDE DEF d
  <2>3. what \in Request /\ what.op = "setStatus" /\ what.ended \subseteq Keys
    BY DEF Idle, Request, Operation
  <2> HIDE DEF what
  <2> QED BY <1>3, <2>1, <2>2, <2>3 DEF Shape, Did
<1>16. ASSUME NEW r \in Requests, NEW u \in Users, PasswordBegins(r, u) PROVE Goal
  <2> DEFINE what == [Idle EXCEPT !.op = "setPassword", !.user = u]
             new == [what EXCEPT !.at = "hashing"]
  <2>1. request' = [request EXCEPT ![r] = new] /\ UNCHANGED <<accounts, chain>>
    BY <1>16 DEF PasswordBegins, Hash
  <2>2. what \in Request /\ what.op = "setPassword"
    BY DEF Idle, Request, Operation
  <2> HIDE DEF what
  <2>3. new \in Request /\ new.at = "hashing" /\ new.op = "setPassword"
    BY <2>2 DEF Request
  <2> HIDE DEF new
  <2> QED BY <1>4, <2>1, <2>3 DEF SoundRequest
<1>17. ASSUME NEW k \in Keys, TokenUsed(k) PROVE Goal
  <2>1. chain' = Asked(chain) /\ UNCHANGED <<accounts, request>>
    BY <1>17 DEF TokenUsed
  <2>2. SoundChain(chain, Data)
    BY DEF StoreInv
  <2>3. /\ SoundChain(chain', Data) /\ chain'.draft = chain.draft /\ chain'.file = chain.file
        /\ Outstanding(chain') = Outstanding(chain) + 1
    BY <2>1, <2>2, ChainSteps
  <2>4. Outstanding(chain) \in Nat /\ Outstanding(chain') \in Nat
    BY <2>2, <2>3, OutstandingIs
  <2>5. \A r \in Requests : SoundRequest(request[r], accounts, chain')
    BY <2>3, <2>4, AdvancesItself, OthersSound
  <2>6. StoreInv'
    BY <2>1, <2>3, <2>5 DEF StoreInv
  <2> QED BY <1>2, <2>1, <2>6 DEF Goal
<1>18. ASSUME NEW e \in Emails, FailuresForgotten(e) PROVE Goal
  <2>1. UNCHANGED <<accounts, chain, request>>
    BY <1>18 DEF FailuresForgotten
  <2>2. StoreInv'
    BY <2>1 DEF StoreInv
  <2> QED BY <1>2, <2>1, <2>2 DEF Goal
<1> QED BY <1>5, <1>6, <1>7, <1>8, <1>9, <1>10, <1>11, <1>12, <1>13, <1>14, <1>15,
           <1>16, <1>17, <1>18 DEF AccountsNext, PublicRoutes,
           InviteRoutes, UserRoutes, KeyRoutes, AfterHash, Goal

LEMMA WriteBeginsInv ==
  ASSUME StoreInv, WriteBegins
  PROVE  StoreInv' /\ chain'.file = chain.file
<1>1. CanStart(chain) /\ chain' = Started(chain, accounts) /\ UNCHANGED <<accounts, request>>
  BY DEF WriteBegins
<1>2. SoundChain(chain, Data) /\ SoundData(accounts) /\ accounts \in Data
  BY DEF StoreInv, SoundData
<1>3. /\ SoundChain(chain', Data) /\ chain'.draft # <<>> /\ chain'.draft[1] = accounts
      /\ chain'.file = chain.file /\ Outstanding(chain') = Outstanding(chain)
  BY <1>1, <1>2, ChainStarts, Zenon
<1>4. \A r \in Requests : SoundRequest(request[r], accounts, chain')
  BY <1>3 DEF StoreInv, SoundRequest
<1> QED BY <1>1, <1>3, <1>4, AdvancesItself DEF StoreInv

\* A write that ends answers the requests whose change its snapshot has.
LEMMA WriteEndsInv ==
  ASSUME StoreInv, WriteEnds
  PROVE  StoreInv' /\ Advances(chain.file, chain'.file)
<1>1. /\ CanEnd(chain) /\ chain' \in {Written(chain), NotWritten(chain)} /\ Answers
      /\ accounts' = accounts
  BY DEF WriteEnds
<1>2. SoundChain(chain, Data) /\ request \in [Requests -> Request]
  BY DEF StoreInv
<1>3. /\ SoundChain(chain', Data) /\ chain'.draft = <<>> /\ chain.draft # <<>>
      /\ chain'.file \in {chain.draft[1], chain.file}
      /\ Outstanding(chain') = Outstanding(chain) - 1
      /\ Outstanding(chain) \in Nat /\ Outstanding(chain) # 0
  <2>1. chain.draft # <<>>
    BY <1>1 DEF CanEnd
  <2> QED BY <1>1, <1>2, <2>1, ChainSteps, OutstandingIs
<1>4. ASSUME NEW r \in Requests
      PROVE  request'[r] \in Request /\ SoundRequest(request'[r], accounts, chain')
  <2>1. request[r] \in Request /\ SoundRequest(request[r], accounts, chain)
    BY <1>2 DEF StoreInv
  <2>2. CASE Awaited(r)
    BY <1>1, <2>2, IdleIs DEF Answers
  <2>3. CASE ~Awaited(r) /\ request[r].at = "saving"
    <3> DEFINE new == [request[r] EXCEPT !.left = @ - 1]
    <3>1. request'[r] = new
      BY <1>1, <2>3 DEF Answers
    <3>2. request[r].left \in 1 .. Outstanding(chain) /\ request[r].left # 1
      BY <2>1, <2>3 DEF SoundRequest, Awaited
    <3>3. /\ new \in Request /\ new.at = "saving" /\ new.left = request[r].left - 1
          /\ new.op = request[r].op /\ new.user = request[r].user
          /\ new.invite = request[r].invite /\ new.key = request[r].key
          /\ new.ended = request[r].ended
      BY <1>3, <2>1, <2>3, <3>2 DEF Request
    <3>4. new.left \in 1 .. Outstanding(chain')
      BY <1>3, <3>2, <3>3
    <3> HIDE DEF new
    <3> QED BY <1>3, <2>1, <2>3, <3>1, <3>3, <3>4 DEF SoundRequest, Shape, Did
  <2>4. CASE request[r].at # "saving"
    <3>1. request'[r] = request[r]
      BY <1>1, <2>4 DEF Answers, Awaited
    <3> QED BY <2>1, <2>4, <3>1 DEF SoundRequest
  <2> QED BY <2>2, <2>3, <2>4
<1>5. request' \in [Requests -> Request]
  BY <1>1, <1>4 DEF Answers
<1>6. SoundData(chain'.file) /\ Advances(chain.file, chain'.file) /\ Advances(chain'.file, accounts)
  BY <1>3, AdvancesItself DEF StoreInv
<1> QED BY <1>1, <1>3, <1>4, <1>5, <1>6 DEF StoreInv

LEMMA RestartInv ==
  ASSUME StoreInv, Restart
  PROVE  StoreInv' /\ FreshSessions(accounts, accounts') /\ chain'.file = chain.file
<1> DEFINE file == chain.file
<1>1. PICK expired \in SUBSET Sessions(file, Users) :
        /\ accounts' = [file EXCEPT !.keys = [k \in Keys |->
             IF k \in expired THEN [file.keys[k] EXCEPT !.state = "gone"]
             ELSE file.keys[k]]]
        /\ chain' = IF expired = {} THEN NewChain(file) ELSE Asked(NewChain(file))
  BY DEF Restart
<1>2. request' = [r \in Requests |-> Idle]
  BY DEF Restart
<1>3. SoundData(file) /\ file \in Data /\ Advances(file, accounts)
  BY DEF StoreInv, SoundData
<1>4. /\ SoundChain(NewChain(file), Data)
      /\ NewChain(file).draft = <<>> /\ NewChain(file).file = file
  BY <1>3, NewChainSound
<1>5. SoundChain(chain', Data) /\ chain'.draft = <<>> /\ chain'.file = file
  BY <1>1, <1>4, ChainSteps
<1> HIDE DEF file
<1>6. Changes(file, accounts')
  BY <1>1, <1>3, EndedSessionsChange
<1>7. StoreInv'
  BY <1>2, <1>3, <1>5, <1>6, IdleIs DEF StoreInv, Changes
<1>8. FreshSessions(accounts, accounts')
  <2>1. ASSUME NEW k \in Keys, accounts.keys[k].state = "absent"
        PROVE  accounts'.keys[k].state = "absent"
    <3>1. file.keys[k].state = "absent"
      BY <1>3, <2>1 DEF Advances
    <3>2. k \notin expired
      BY <3>1 DEF Sessions
    <3>3. accounts'.keys[k] = file.keys[k]
      BY <1>1, <1>3, <3>2 DEF Data
    <3> QED BY <3>1, <3>3
  <2> QED BY <2>1 DEF FreshSessions
<1> QED BY <1>5, <1>7, <1>8 DEF file

LEMMA StepStoreInv ==
  ASSUME StoreInv, [AccountsNext]_accountsVars
  PROVE  StoreInv'
<1>1. CASE UNCHANGED accountsVars
  BY <1>1 DEF accountsVars, StoreInv
<1> QED BY <1>1, OperationInv, WriteBeginsInv, WriteEndsInv, RestartInv

LEMMA StoreInductive == AccountsSpec => []StoreInv
<1>1. AccountsInit => StoreInv
  BY InitStoreInv
<1>2. StoreInv /\ [AccountsNext]_accountsVars => StoreInv'
  BY StepStoreInv
<1> QED BY <1>1, <1>2, PTL DEF AccountsSpec

(* The accounts: the statuses that are set.                                *)

\* d has the status r set, or one that was set since.
HasStatus(d, r) ==
  \E s \in SetSince(r) : d.users[request[r].user].status = request[s].status

\* It does after the step.
HasStatusOn(d, r) ==
  \E s \in SetSince(r)' : d.users[request'[r].user].status = request'[s].status

Setting(r) == request[r].at = "saving" /\ request[r].op = "setStatus"

StatusInv ==
  \A r \in Requests : Setting(r) =>
    /\ request[r].user \in Users /\ HasUser(accounts, request[r].user)
    /\ HasStatus(accounts, r)
    /\ chain.draft # <<>> /\ request[r].left = 1 => HasStatus(chain.draft[1], r)

\* A step that sets no status, and is of a request that set none.
LEMMA QuietStatus ==
  ASSUME StoreInv, StatusInv, NEW r \in Requests, NEW new,
         request' = [request EXCEPT ![r] = new], ~Setting(r),
         new.at # "saving" \/ new.op # "setStatus",
         chain' \in {chain, Asked(chain)},
         \A u \in Users : HasUser(accounts, u) => accounts'.users[u] = accounts.users[u]
  PROVE  StatusInv'
<1>1. /\ request'[r] = new
      /\ \A s \in Requests \ {r} : request'[s] = request[s]
  BY DEF StoreInv
<1>2. chain'.draft = chain.draft
  BY ChainSteps DEF StoreInv
<1>3. ASSUME NEW s \in Requests, Setting(s)'
      PROVE  Setting(s) /\ SetSince(s) \subseteq SetSince(s)' /\ r \notin SetSince(s)
             /\ request'[s] = request[s]
  BY <1>1, <1>3 DEF Setting, SetSince
<1>4. ASSUME NEW s \in Requests, Setting(s)', NEW d, NEW e, HasStatus(d, s),
             e.users[request[s].user] = d.users[request[s].user]
      PROVE  HasStatusOn(e, s)
  <2>1. PICK t \in SetSince(s) : d.users[request[s].user].status = request[t].status
    BY <1>4 DEF HasStatus
  <2>2. t \in SetSince(s)' /\ request'[t] = request[t] /\ request'[s] = request[s]
    BY <1>1, <1>3, <1>4, <2>1 DEF SetSince
  <2> QED BY <1>4, <2>1, <2>2 DEF HasStatusOn
<1>5. ASSUME NEW s \in Requests, Setting(s)'
      PROVE  /\ request'[s].user \in Users /\ HasUser(accounts', request'[s].user)
             /\ HasStatusOn(accounts', s)
             /\ chain'.draft # <<>> /\ request'[s].left = 1 => HasStatusOn(chain'.draft[1], s)
  <2>1. /\ request[s].user \in Users /\ HasUser(accounts, request[s].user)
        /\ HasStatus(accounts, s) /\ request'[s] = request[s]
        /\ chain.draft # <<>> /\ request[s].left = 1 => HasStatus(chain.draft[1], s)
    BY <1>3, <1>5 DEF StatusInv
  <2>2. accounts'.users[request[s].user] = accounts.users[request[s].user]
    BY <2>1
  <2>3. HasStatusOn(accounts', s)
    BY <1>4, <1>5, <2>1, <2>2
  <2>4. chain'.draft # <<>> /\ request'[s].left = 1 => HasStatusOn(chain'.draft[1], s)
    BY <1>2, <1>4, <1>5, <2>1
  <2> QED BY <2>1, <2>2, <2>3, <2>4 DEF HasUser
<1> QED BY <1>5 DEF StatusInv, HasStatus, HasStatusOn, Setting

\* The last one to set a status is in every SetSince of that user.
LEMMA SetStatusInv ==
  ASSUME StoreInv, StatusInv, NEW r \in Requests, NEW u \in Users,
         NEW x \in {"active", "disabled"}, SetStatus(r, u, x)
  PROVE  StatusInv'
<1> DEFINE d == [accounts EXCEPT !.users[u].status = x]
           what == [Idle EXCEPT !.op = "setStatus", !.user = u, !.status = x]
           new == [what EXCEPT !.at = "saving", !.left = Outstanding(chain')]
<1>1. /\ HasUser(accounts, u) /\ request[r].at = "idle"
      /\ accounts' = d /\ chain' = Asked(chain)
      /\ request' = [request EXCEPT ![r] = new]
  BY DEF SetStatus, Free, Mutate
<1>2. /\ SoundChain(chain, Data) /\ accounts \in Data
      /\ request \in [Requests -> Request]
  BY DEF StoreInv, SoundData
<1>3. /\ chain'.draft = chain.draft /\ Outstanding(chain') = Outstanding(chain) + 1
      /\ Outstanding(chain) \in Nat
  BY <1>1, <1>2, ChainSteps, OutstandingIs
<1>4. /\ d.users[u].status = x
      /\ \A v \in Users \ {u} : d.users[v] = accounts.users[v]
  BY <1>2 DEF Data, User
<1>5. /\ new.at = "saving" /\ new.op = "setStatus" /\ new.user = u /\ new.status = x
      /\ new.left = Outstanding(chain) + 1
  BY <1>3 DEF Idle
<1> HIDE DEF d, new
<1>6. /\ request'[r] = new
      /\ \A s \in Requests \ {r} : request'[s] = request[s]
  BY <1>1, <1>2
<1>7. ASSUME NEW s \in Requests \ {r}, Setting(s)
      PROVE  request[s].left \in 1 .. Outstanding(chain)
  BY <1>7 DEF Setting, StoreInv, SoundRequest
<1>8. ASSUME NEW s \in Requests \ {r}, Setting(s)', NEW e, HasStatus(e, s)
      PROVE  HasStatusOn(e, s)
  <2>1. PICK t \in SetSince(s) : e.users[request[s].user].status = request[t].status
    BY <1>8 DEF HasStatus
  <2>2. t # r /\ t \in Requests
    BY <1>1, <2>1 DEF SetSince
  <2>3. t \in SetSince(s)' /\ request'[t] = request[t] /\ request'[s] = request[s]
    BY <1>6, <2>1, <2>2 DEF SetSince
  <2> QED BY <2>1, <2>3 DEF HasStatusOn
<1>9. ASSUME NEW s \in Requests, Setting(s)'
      PROVE  /\ request'[s].user \in Users /\ HasUser(accounts', request'[s].user)
             /\ HasStatusOn(accounts', s)
             /\ chain'.draft # <<>> /\ request'[s].left = 1 => HasStatusOn(chain'.draft[1], s)
  <2>1. CASE s = r
    <3>1. chain.draft # <<>> => Outstanding(chain) # 0
      BY <1>2, OutstandingIs
    <3>2. r \in SetSince(r)'
      BY <1>3, <1>5, <1>6 DEF SetSince
    <3>3. HasStatusOn(accounts', r)
      BY <1>1, <1>4, <1>5, <1>6, <3>2 DEF HasStatusOn
    <3>4. HasUser(accounts', u)
      BY <1>1, <1>4 DEF HasUser
    <3> QED BY <1>3, <1>5, <1>6, <2>1, <3>1, <3>3, <3>4
  <2>2. CASE s # r
    <3>1. /\ Setting(s) /\ request'[s] = request[s] /\ request[s].user \in Users
          /\ HasUser(accounts, request[s].user) /\ HasStatus(accounts, s)
          /\ chain.draft # <<>> /\ request[s].left = 1 => HasStatus(chain.draft[1], s)
      BY <1>6, <1>9, <2>2 DEF Setting, StatusInv
    <3>2. HasUser(accounts', request[s].user)
      BY <1>1, <1>4, <3>1 DEF HasUser
    <3>3. CASE request[s].user = u
      <4>1. r \in SetSince(s)'
        BY <1>3, <1>5, <1>6, <1>7, <2>2, <3>1, <3>3 DEF SetSince
      <4>2. HasStatusOn(accounts', s)
        BY <1>1, <1>4, <1>5, <1>6, <3>1, <3>3, <4>1 DEF HasStatusOn
      <4> QED BY <1>3, <1>8, <1>9, <2>2, <3>1, <3>2, <4>2
    <3>4. CASE request[s].user # u
      <4>1. HasStatus(d, s)
        BY <1>4, <3>1, <3>4 DEF HasStatus
      <4>2. HasStatusOn(accounts', s)
        BY <1>1, <1>8, <1>9, <2>2, <4>1
      <4> QED BY <1>3, <1>8, <1>9, <2>2, <3>1, <3>2, <4>2
    <3> QED BY <3>3, <3>4
  <2> QED BY <2>1, <2>2
<1> QED BY <1>9 DEF StatusInv, HasStatus, HasStatusOn, Setting

LEMMA InitStatusInv == AccountsInit => StatusInv
BY DEF AccountsInit, StatusInv, Setting, Idle

LEMMA OperationStatusInv ==
  ASSUME StoreInv, StatusInv, AccountsNext, ~WriteBegins, ~WriteEnds, ~Restart
  PROVE  StatusInv'
<1>1. request \in [Requests -> Request] /\ accounts \in Data
  BY DEF StoreInv, SoundData
<1>2. ASSUME NEW r \in Requests, NEW new, request' = [request EXCEPT ![r] = new],
             request[r].at # "saving", new.at # "saving" \/ new.op # "setStatus",
             chain' \in {chain, Asked(chain)},
             \A u \in Users : HasUser(accounts, u) => accounts'.users[u] = accounts.users[u]
      PROVE  StatusInv'
  BY <1>2, QuietStatus DEF Setting
<1>3. ASSUME NEW r \in Requests, NEW d, NEW what \in Request, Mutate(r, d, what),
             request[r].at # "saving", what.op # "setStatus",
             \A u \in Users : HasUser(accounts, u) => d.users[u] = accounts.users[u]
      PROVE  StatusInv'
  <2> DEFINE new == [what EXCEPT !.at = "saving", !.left = Outstanding(chain')]
  <2>1. /\ request' = [request EXCEPT ![r] = new]
        /\ accounts' = d /\ chain' = Asked(chain)
    BY <1>3 DEF Mutate
  <2>2. new.op = what.op
    BY <1>3 DEF Request
  <2> HIDE DEF new
  <2> QED BY <1>2, <1>3, <2>1, <2>2
<1>4. ASSUME NEW r \in Requests, NEW what \in Request, Hash(r, what),
             request[r].at # "saving", what.op # "setStatus"
      PROVE  StatusInv'
  <2> DEFINE new == [what EXCEPT !.at = "hashing"]
  <2>1. request' = [request EXCEPT ![r] = new] /\ UNCHANGED <<accounts, chain>>
    BY <1>4 DEF Hash
  <2>2. new.op = what.op
    BY <1>4 DEF Request
  <2> HIDE DEF new
  <2> QED BY <1>2, <1>4, <2>1, <2>2
<1>5. ASSUME UNCHANGED <<accounts, request>>, chain' \in {chain, Asked(chain)}
      PROVE  StatusInv'
  <2>1. chain'.draft = chain.draft
    BY <1>5, ChainSteps DEF StoreInv
  <2> QED BY <1>5, <2>1 DEF StatusInv, Setting, HasStatus, SetSince
<1>6. ASSUME NEW r \in Requests, NEW e \in Emails, CreateInvite(r, e) PROVE StatusInv'
  <2> DEFINE what == [Idle EXCEPT !.op = "invite", !.invite = NextInvite]
             d == [accounts EXCEPT !.invites[NextInvite] =
                     [NoInvite EXCEPT !.issued = TRUE, !.email = e]]
  <2>1. what \in Request /\ what.op = "invite"
    BY <1>6, NextIds DEF CreateInvite, Idle, Request, Operation
  <2>2. Mutate(r, d, what) /\ request[r].at = "idle"
    BY <1>6 DEF CreateInvite, Free
  <2>3. d.users = accounts.users
    BY <1>1 DEF Data
  <2> HIDE DEF d, what
  <2> QED BY <1>3, <2>1, <2>2, <2>3
<1>7. ASSUME NEW r \in Requests, NEW i \in Invites, RevokeInvite(r, i) PROVE StatusInv'
  <2> DEFINE what == [Idle EXCEPT !.op = "revokeInvite", !.invite = i]
             d == [accounts EXCEPT !.invites[i].revoked = TRUE]
  <2>1. what \in Request /\ what.op = "revokeInvite"
    BY DEF Idle, Request, Operation
  <2>2. Mutate(r, d, what) /\ request[r].at = "idle"
    BY <1>7 DEF RevokeInvite, Free
  <2>3. d.users = accounts.users
    BY <1>1 DEF Data
  <2> HIDE DEF d, what
  <2> QED BY <1>3, <2>1, <2>2, <2>3
<1>8. ASSUME NEW r \in Requests, NEW i \in Invites, RedeemBegins(r, i) PROVE StatusInv'
  <2> DEFINE what == [Idle EXCEPT !.op = "redeem", !.invite = i]
  <2>1. what \in Request /\ what.op = "redeem"
    BY DEF Idle, Request, Operation
  <2>2. Hash(r, what) /\ request[r].at = "idle"
    BY <1>8 DEF RedeemBegins, Free
  <2> HIDE DEF what
  <2> QED BY <1>4, <2>1, <2>2
<1>9. ASSUME NEW r \in Requests, NEW e \in Emails, NEW right \in BOOLEAN,
             LoginBegins(r, e, right)
      PROVE  StatusInv'
  <2> DEFINE u == IF WithEmail(e) = {} THEN 0 ELSE Min(WithEmail(e))
             what == [Idle EXCEPT !.op = "login", !.email = e, !.user = u,
                                  !.good = (u # 0 /\ right)]
  <2>1. Hash(r, what) /\ request[r].at = "idle"
    BY <1>9 DEF LoginBegins, Free
  <2>2. u \in Users \cup {0}
    <3>1. WithEmail(e) \in SUBSET Nat /\ WithEmail(e) \subseteq Users
      BY DEF WithEmail, Users
    <3> QED BY <3>1, MinIs
  <2> HIDE DEF u
  <2>3. what \in Request /\ what.op = "login"
    BY <2>2 DEF Idle, Request, Operation
  <2> HIDE DEF what
  <2> QED BY <1>4, <2>1, <2>3
<1>10. ASSUME NEW r \in Requests, RedeemEnds(r) PROVE StatusInv'
  <2> DEFINE i == request[r].invite
             n == NextUser
             m == NextKey
             d == [accounts EXCEPT
                     !.users[n] = [status |-> "active",
                                   email |-> accounts.invites[i].email, invite |-> i],
                     !.keys[m] = [state |-> "valid", kind |-> "key", owner |-> n],
                     !.invites[i].redeemed = TRUE]
             what == [request[r] EXCEPT !.user = n, !.key = m]
  <2>1. /\ n \in Users /\ ~HasUser(accounts, n) /\ m \in Keys
        /\ Mutate(r, d, what) /\ request[r].at = "hashing" /\ request[r].op = "redeem"
    BY <1>10, NextIds DEF RedeemEnds, Hashed
  <2> HIDE DEF n, m
  <2>2. what \in Request /\ what.op = "redeem"
    BY <1>1, <2>1 DEF Request
  <2>3. \A u \in Users \ {n} : d.users[u] = accounts.users[u]
    BY <1>1 DEF Data
  <2> HIDE DEF d, what, i
  <2> QED BY <1>3, <2>1, <2>2, <2>3
<1>11. ASSUME NEW r \in Requests, LoginRefused(r) PROVE StatusInv'
  <2>1. /\ request' = [request EXCEPT ![r] = Idle] /\ UNCHANGED <<accounts, chain>>
        /\ request[r].at = "hashing"
    BY <1>11 DEF LoginRefused, Refused, Hashed
  <2> QED BY <1>2, <2>1, IdleIs
<1>12. ASSUME NEW r \in Requests, PasswordEnds(r) PROVE StatusInv'
  <2> DEFINE S == Sessions(accounts, {request[r].user})
             d == [accounts EXCEPT !.keys = [k \in Keys |->
                     IF k \in S THEN [accounts.keys[k] EXCEPT !.state = "revoked"]
                     ELSE accounts.keys[k]]]
             what == [request[r] EXCEPT !.ended = S]
  <2>1. /\ Mutate(r, d, what) /\ request[r].at = "hashing"
        /\ request[r].op = "setPassword" /\ S \subseteq Keys
    BY <1>12 DEF PasswordEnds, Hashed, Sessions
  <2> HIDE DEF S
  <2>2. what \in Request /\ what.op = "setPassword" /\ d.users = accounts.users
    BY <1>1, <2>1 DEF Request, Data
  <2> HIDE DEF d, what
  <2> QED BY <1>3, <2>1, <2>2
<1>13. ASSUME NEW r \in Requests, NEW expired \in SUBSET Keys, LoginEnds(r, expired)
       PROVE  StatusInv'
  <2> DEFINE m == NextKey
             what == [request[r] EXCEPT !.key = m]
  <2>1. /\ m \in Keys /\ request[r].at = "hashing" /\ request[r].op = "login"
    BY <1>13, NextIds DEF LoginEnds, Hashed
  <2>2. PICK f : Mutate(r, [accounts EXCEPT !.keys = f], what)
    BY <1>13 DEF LoginEnds
  <2> HIDE DEF m
  <2>3. what \in Request /\ what.op = "login"
    BY <1>1, <2>1 DEF Request
  <2>4. [accounts EXCEPT !.keys = f].users = accounts.users
    BY <1>1 DEF Data
  <2> HIDE DEF what
  <2> QED BY <1>3, <2>1, <2>2, <2>3, <2>4
<1>14. ASSUME NEW r \in Requests, NEW u \in Users, CreateKey(r, u) PROVE StatusInv'
  <2> DEFINE m == NextKey
             what == [Idle EXCEPT !.op = "createKey", !.key = m]
             d == [accounts EXCEPT !.keys[m] =
                     [state |-> "valid", kind |-> "key", owner |-> u]]
  <2>1. m \in Keys /\ Mutate(r, d, what) /\ request[r].at = "idle"
    BY <1>14, NextIds DEF CreateKey, Free
  <2> HIDE DEF m
  <2>2. what \in Request /\ what.op = "createKey" /\ d.users = accounts.users
    BY <1>1, <2>1 DEF Idle, Request, Operation, Data
  <2> HIDE DEF d, what
  <2> QED BY <1>3, <2>1, <2>2
<1>15. ASSUME NEW r \in Requests, NEW u \in Users, PasswordBegins(r, u) PROVE StatusInv'
  <2> DEFINE what == [Idle EXCEPT !.op = "setPassword", !.user = u]
  <2>1. what \in Request /\ what.op = "setPassword"
    BY DEF Idle, Request, Operation
  <2>2. Hash(r, what) /\ request[r].at = "idle"
    BY <1>15 DEF PasswordBegins, Free
  <2> HIDE DEF what
  <2> QED BY <1>4, <2>1, <2>2
<1>16. ASSUME NEW r \in Requests, NEW k \in Keys, RevokeKey(r, k) PROVE StatusInv'
  <2> DEFINE what == [Idle EXCEPT !.op = "revokeKey", !.ended = {k}]
             d == [accounts EXCEPT !.keys[k].state = "revoked"]
  <2>1. Mutate(r, d, what) /\ request[r].at = "idle"
    BY <1>16 DEF RevokeKey, Free
  <2>2. what \in Request /\ what.op = "revokeKey" /\ d.users = accounts.users
    BY <1>1 DEF Idle, Request, Operation, Data
  <2> HIDE DEF d, what
  <2> QED BY <1>3, <2>1, <2>2
<1>17. ASSUME (\E k \in Keys : TokenUsed(k)) \/ (\E e \in Emails : FailuresForgotten(e))
       PROVE  StatusInv'
  BY <1>5, <1>17 DEF TokenUsed, FailuresForgotten
<1> QED BY <1>6, <1>7, <1>8, <1>9, <1>10, <1>11, <1>12, <1>13, <1>14, <1>15, <1>16, <1>17,
           SetStatusInv
       DEF AccountsNext, PublicRoutes, InviteRoutes, UserRoutes, KeyRoutes, AfterHash

\* A request that is answered leaves behind those that set a status since.
LEMMA WriteEndsStatusInv ==
  ASSUME StoreInv, StatusInv, WriteEnds
  PROVE  StatusInv'
<1>1. /\ Answers /\ accounts' = accounts /\ chain' \in {Written(chain), NotWritten(chain)}
      /\ CanEnd(chain)
  BY DEF WriteEnds
<1>2. SoundChain(chain, Data) /\ request \in [Requests -> Request] /\ chain.draft # <<>>
  BY <1>1 DEF StoreInv, CanEnd
<1>3. chain'.draft = <<>>
  BY <1>1, <1>2, ChainSteps
<1>4. ASSUME NEW s \in Requests, Setting(s)'
      PROVE  /\ Setting(s) /\ request[s].left # 1
             /\ request'[s] = [request[s] EXCEPT !.left = @ - 1]
  BY <1>1, <1>2, <1>4, IdleIs DEF Answers, Awaited, Setting, Request
<1>5. ASSUME NEW s \in Requests, Setting(s)
      PROVE  request[s].left \in Nat \ {0} /\ request[s] \in Request
  BY <1>2, <1>5, OutstandingIs DEF StoreInv, SoundRequest, Setting
<1>6. ASSUME NEW s \in Requests, Setting(s), request[s].left # 1
      PROVE  /\ request'[s].at = "saving" /\ request'[s].op = "setStatus"
             /\ request'[s].user = request[s].user /\ request'[s].status = request[s].status
             /\ request'[s].left = request[s].left - 1
  <2>1. request'[s] = [request[s] EXCEPT !.left = @ - 1]
    BY <1>1, <1>6 DEF Answers, Awaited, Setting
  <2> QED BY <1>5, <1>6, <2>1 DEF Setting, Request
<1>7. ASSUME NEW s \in Requests, Setting(s)'
      PROVE  /\ request'[s].user \in Users /\ HasUser(accounts', request'[s].user)
             /\ HasStatusOn(accounts', s)
  <2>1. Setting(s) /\ request[s].left # 1 /\ request[s].left \in Nat
    BY <1>4, <1>5, <1>7
  <2>2. /\ request[s].user \in Users /\ HasUser(accounts, request[s].user)
        /\ HasStatus(accounts, s)
    BY <2>1 DEF StatusInv
  <2>3. PICK t \in SetSince(s) : accounts.users[request[s].user].status = request[t].status
    BY <2>2 DEF HasStatus
  <2>4. /\ t \in Requests /\ Setting(t) /\ request[t].left # 1 /\ request[t].left \in Nat
        /\ request[t].user = request[s].user /\ request[t].left >= request[s].left
    BY <1>5, <2>1, <2>3 DEF SetSince, Setting
  <2>5. t \in SetSince(s)'
    BY <1>6, <2>1, <2>4 DEF SetSince
  <2> QED BY <1>1, <1>6, <2>1, <2>2, <2>3, <2>4, <2>5 DEF HasStatusOn
<1> QED BY <1>3, <1>7 DEF StatusInv, Setting, HasStatus, HasStatusOn

LEMMA StepStatusInv ==
  ASSUME StoreInv, StatusInv, [AccountsNext]_accountsVars
  PROVE  StatusInv'
<1>1. CASE UNCHANGED accountsVars
  BY <1>1 DEF accountsVars, StatusInv, Setting, HasStatus, SetSince
<1>2. CASE WriteBegins
  <2>1. /\ chain' = Started(chain, accounts) /\ CanStart(chain)
        /\ UNCHANGED <<accounts, request>>
    BY <1>2 DEF WriteBegins
  <2>2. SoundChain(chain, Data) /\ accounts \in Data
    BY DEF StoreInv, SoundData
  <2>3. chain'.draft[1] = accounts
    BY <2>1, <2>2, ChainStarts, Zenon
  <2> QED BY <2>1, <2>3 DEF StatusInv, Setting, HasStatus, SetSince
<1>3. CASE Restart
  <2>1. request' = [r \in Requests |-> Idle]
    BY <1>3 DEF Restart
  <2> QED BY <2>1, IdleIs DEF StatusInv, Setting
<1> QED BY <1>1, <1>2, <1>3, OperationStatusInv, WriteEndsStatusInv

SavedInv == StoreInv /\ StatusInv

LEMMA SavedInductive == AccountsSpec => []SavedInv
<1>1. AccountsInit => SavedInv
  BY InitStoreInv, InitStatusInv DEF SavedInv
<1>2. SavedInv /\ [AccountsNext]_accountsVars => SavedInv'
  BY StepStoreInv, StepStatusInv DEF SavedInv
<1> QED BY <1>1, <1>2, PTL DEF AccountsSpec

AnswersSaved ==
  \A r \in Requests :
    Awaited(r) /\ CanEnd(chain) /\ chain' = Written(chain) => Holds(chain'.file, r)

LEMMA StepAnswers ==
  ASSUME SavedInv
  PROVE  AnswersSaved
<1>1. SoundChain(chain, Data) /\ StoreInv
  BY DEF SavedInv, StoreInv
<1>2. ASSUME NEW r \in Requests, Awaited(r), CanEnd(chain), chain' = Written(chain)
      PROVE  Holds(chain'.file, r)
  <2>1. chain'.file = chain.draft[1] /\ chain.draft # <<>>
    BY <1>1, <1>2, ChainSteps DEF CanEnd
  <2>2. Did(request[r], chain.draft[1])
    BY <1>1, <1>2, <2>1 DEF StoreInv, SoundRequest, Awaited
  <2>3. request[r].op = "setStatus" => HasStatus(chain.draft[1], r)
    BY <1>2, <2>1 DEF SavedInv, StatusInv, Setting, Awaited
  <2> QED BY <2>1, <2>2, <2>3 DEF Did, HasStatus, Holds
<1> QED BY <1>2 DEF AnswersSaved

LEMMA StepFile ==
  ASSUME StoreInv, [AccountsNext]_accountsVars
  PROVE  Advances(chain.file, chain'.file)
<1>1. ASSUME chain'.file = chain.file PROVE Advances(chain.file, chain'.file)
  BY <1>1, AdvancesItself
<1>2. CASE AccountsNext /\ ~WriteBegins /\ ~WriteEnds /\ ~Restart
  <2>1. chain' \in {chain, Asked(chain)}
    BY <1>2 DEF AccountsNext, PublicRoutes, InviteRoutes, UserRoutes, KeyRoutes, AfterHash,
                CreateInvite, RevokeInvite, RedeemBegins, RedeemEnds,
                LoginBegins, LoginRefused, LoginEnds, PasswordBegins, PasswordEnds,
                CreateKey, RevokeKey, SetStatus, TokenUsed, FailuresForgotten,
                Mutate, Hash, Refused
  <2> QED BY <1>1, <2>1, ChainSteps DEF StoreInv
<1>3. CASE UNCHANGED accountsVars
  BY <1>1, <1>3 DEF accountsVars
<1> QED BY <1>1, <1>2, <1>3, WriteBeginsInv, WriteEndsInv, RestartInv

\* A request that is told it succeeded finds what it did in the file, and
\* what the file says is never taken back: by writes that overlap, fail or
\* are cut short, or by a restart (auth/store.js: save, mutate).
THEOREM SavedIsKept == AccountsSpec => AccountsKept
<1>1. SavedInv /\ [AccountsNext]_accountsVars => [AnswersSaved]_accountsVars
  BY StepAnswers
<1>2. StoreInv /\ [AccountsNext]_accountsVars
        => [Advances(chain.file, chain'.file)]_accountsVars
  BY StepFile
<1>3. AccountsSpec => [][AnswersSaved]_accountsVars
  BY <1>1, SavedInductive, PTL DEF AccountsSpec
<1>4. AccountsSpec => [][Advances(chain.file, chain'.file)]_accountsVars
  BY <1>2, StoreInductive, PTL DEF AccountsSpec
<1> QED BY <1>3, <1>4 DEF AnswersSaved, AccountsKept, AnswersAreSaved, FileAdvances
----------------------------------------------------------------------------
(* The accounts: the lockout.                                              *)

LogsIn(q, e) == q.at = "hashing" /\ q.op = "login" /\ q.email = e

Trying(e) == {r \in Requests : LogsIn(request[r], e)}

\* The failures on record and those under way that may be recorded yet.
WithinBudget(e) ==
  failures[e] + Cardinality(Trying(e)) <= MaxFailures + Cardinality(Requests) - 1

TriesInv == failures \in [Emails -> Nat] /\ \A e \in Emails : WithinBudget(e)

LEMMA SomeTry ==
  /\ IsFiniteSet(Requests) /\ Cardinality(Requests) \in Nat \ {0}
  /\ \A e : /\ IsFiniteSet(Trying(e)) /\ Cardinality(Trying(e)) \in Nat
            /\ Cardinality(Trying(e)) <= Cardinality(Requests)
  /\ \A e : /\ IsFiniteSet(Trying(e)') /\ Cardinality(Trying(e)') \in Nat
            /\ Cardinality(Trying(e)') <= Cardinality(Requests)
<1>1. /\ IsFiniteSet(Requests) /\ Requests # {}
  BY AccountsAssumption
<1>2. Cardinality(Requests) \in Nat \ {0}
  BY <1>1, FS_CardinalityType, FS_EmptySet
<1>3. ASSUME NEW S \in SUBSET Requests
      PROVE  IsFiniteSet(S) /\ Cardinality(S) \in Nat /\ Cardinality(S) <= Cardinality(Requests)
  BY <1>1, FS_Subset, FS_CardinalityType
<1>4. \A e : Trying(e) \in SUBSET Requests /\ Trying(e)' \in SUBSET Requests
  BY DEF Trying
<1> QED BY <1>1, <1>2, <1>3, <1>4

\* No login begins, and no failure is recorded.
LEMMA NoTryInv ==
  ASSUME TriesInv, failures' \in [Emails -> Nat],
         \A e \in Emails : failures'[e] <= failures[e],
         \A r \in Requests, e \in Emails : LogsIn(request'[r], e) => LogsIn(request[r], e)
  PROVE  TriesInv'
<1>1. ASSUME NEW e \in Emails PROVE WithinBudget(e)'
  <2>1. Trying(e)' \subseteq Trying(e)
    BY <1>1 DEF Trying
  <2>2. Cardinality(Trying(e)') <= Cardinality(Trying(e))
    BY <2>1, SomeTry, FS_Subset
  <2>3. failures[e] \in Nat /\ failures'[e] \in Nat /\ MaxFailures \in Nat
    BY <1>1, AccountsAssumption DEF TriesInv
  <2>4. failures[e] + Cardinality(Trying(e)) <= MaxFailures + Cardinality(Requests) - 1
    BY <1>1 DEF TriesInv, WithinBudget
  <2>5. failures'[e] <= failures[e]
    BY <1>1
  <2>6. /\ Cardinality(Trying(e)) \in Nat /\ Cardinality(Trying(e)') \in Nat
        /\ Cardinality(Requests) \in Nat
    BY SomeTry
  <2>7. failures'[e] + Cardinality(Trying(e)') <= MaxFailures + Cardinality(Requests) - 1
    BY <2>2, <2>3, <2>4, <2>5, <2>6
  <2> QED BY <2>7 DEF WithinBudget
<1> QED BY <1>1 DEF TriesInv

LEMMA BeginTryInv ==
  ASSUME TriesInv, NEW r \in Requests, NEW e \in Emails, failures[e] < MaxFailures,
         failures' = failures, ~ \E x \in Emails : LogsIn(request[r], x),
         \A s \in Requests \ {r} : request'[s] = request[s],
         \A x \in Emails \ {e} : ~LogsIn(request'[r], x)
  PROVE  TriesInv'
<1>1. ASSUME NEW x \in Emails PROVE WithinBudget(x)'
  <2>1. /\ Cardinality(Trying(x)) \in Nat /\ Cardinality(Trying(x)') \in Nat
        /\ Cardinality(Requests) \in Nat /\ Cardinality(Trying(x)') <= Cardinality(Requests)
    BY SomeTry
  <2>2. failures[x] \in Nat /\ failures'[x] = failures[x] /\ MaxFailures \in Nat
    BY <1>1, AccountsAssumption DEF TriesInv
  <2>3. CASE x = e
    <3>1. failures'[x] + Cardinality(Trying(x)') <= MaxFailures + Cardinality(Requests) - 1
      BY <2>1, <2>2, <2>3
    <3> QED BY <3>1 DEF WithinBudget
  <2>4. CASE x # e
    <3>1. Trying(x)' \subseteq Trying(x)
      BY <1>1, <2>4 DEF Trying
    <3>2. Cardinality(Trying(x)') <= Cardinality(Trying(x))
      BY <3>1, SomeTry, FS_Subset
    <3>3. failures[x] + Cardinality(Trying(x)) <= MaxFailures + Cardinality(Requests) - 1
      BY <1>1 DEF TriesInv, WithinBudget
    <3>4. failures'[x] + Cardinality(Trying(x)') <= MaxFailures + Cardinality(Requests) - 1
      BY <2>1, <2>2, <3>2, <3>3
    <3> QED BY <3>4 DEF WithinBudget
  <2> QED BY <2>3, <2>4
<1> QED BY <1>1 DEF TriesInv

LEMMA FailTryInv ==
  ASSUME TriesInv, NEW r \in Requests, NEW e \in Emails, LogsIn(request[r], e),
         failures' = [failures EXCEPT ![e] = @ + 1],
         \A s \in Requests \ {r} : request'[s] = request[s],
         \A x \in Emails : ~LogsIn(request'[r], x)
  PROVE  TriesInv'
<1>1. /\ failures' \in [Emails -> Nat] /\ failures'[e] = failures[e] + 1
      /\ \A x \in Emails \ {e} : failures'[x] = failures[x]
  BY DEF TriesInv
<1>2. ASSUME NEW x \in Emails PROVE WithinBudget(x)'
  <2>1. /\ Cardinality(Trying(x)) \in Nat /\ Cardinality(Trying(x)') \in Nat
        /\ Cardinality(Requests) \in Nat /\ IsFiniteSet(Trying(x))
    BY SomeTry
  <2>2. failures[x] \in Nat /\ failures'[x] \in Nat /\ MaxFailures \in Nat
    BY <1>1, <1>2, AccountsAssumption DEF TriesInv
  <2>3. failures[x] + Cardinality(Trying(x)) <= MaxFailures + Cardinality(Requests) - 1
    BY <1>2 DEF TriesInv, WithinBudget
  <2>4. Trying(x)' \subseteq Trying(x) \ {r}
    BY <1>2 DEF Trying
  <2>5. Cardinality(Trying(x)') <= Cardinality(Trying(x) \ {r})
    BY <2>1, <2>4, FS_RemoveElement, FS_Subset
  <2>6. Cardinality(Trying(x) \ {r}) = IF r \in Trying(x) THEN Cardinality(Trying(x)) - 1
                                                         ELSE Cardinality(Trying(x))
    BY <2>1, FS_RemoveElement
  <2>7. x = e => r \in Trying(x)
    BY DEF Trying
  <2>8. failures'[x] + Cardinality(Trying(x)') <= MaxFailures + Cardinality(Requests) - 1
    BY <1>1, <1>2, <2>1, <2>2, <2>3, <2>5, <2>6, <2>7
  <2> QED BY <2>8 DEF WithinBudget
<1> QED BY <1>1, <1>2 DEF TriesInv

LEMMA InitTriesInv == AccountsInit => TriesInv
<1> SUFFICES ASSUME AccountsInit PROVE TriesInv
  OBVIOUS
<1>1. \A e \in Emails : failures[e] = 0 /\ Trying(e) = {}
  BY DEF AccountsInit, Trying, LogsIn, Idle
<1>2. Cardinality(Requests) \in Nat \ {0} /\ MaxFailures \in Nat
  BY SomeTry, AccountsAssumption
<1>3. \A e \in Emails : WithinBudget(e)
  BY <1>1, <1>2, FS_EmptySet DEF WithinBudget
<1> QED BY <1>3 DEF AccountsInit, TriesInv

LEMMA StepTriesInv ==
  ASSUME StoreInv, TriesInv, [AccountsNext]_accountsVars
  PROVE  TriesInv'
<1>1. request \in [Requests -> Request] /\ failures \in [Emails -> Nat]
  BY DEF StoreInv, TriesInv
<1>2. ASSUME NEW r \in Requests, NEW new, request' = [request EXCEPT ![r] = new]
      PROVE  /\ request'[r] = new
             /\ \A s \in Requests \ {r} : request'[s] = request[s]
  BY <1>1, <1>2
<1>3. ASSUME NEW r \in Requests, NEW new, request' = [request EXCEPT ![r] = new],
             \A e \in Emails : ~LogsIn(new, e),
             UNCHANGED failures \/ \E e \in Emails : failures' = [failures EXCEPT ![e] = 0]
      PROVE  TriesInv'
  <2>1. failures' \in [Emails -> Nat] /\ \A e \in Emails : failures'[e] <= failures[e]
    BY <1>1, <1>3
  <2>2. \A s \in Requests, e \in Emails : LogsIn(request'[s], e) => LogsIn(request[s], e)
    BY <1>2, <1>3
  <2> QED BY <2>1, <2>2, NoTryInv
<1>4. ASSUME NEW r \in Requests, NEW d, NEW what, Mutate(r, d, what), what \in Request,
             UNCHANGED failures \/ \E e \in Emails : failures' = [failures EXCEPT ![e] = 0]
      PROVE  TriesInv'
  <2> DEFINE new == [what EXCEPT !.at = "saving", !.left = Outstanding(chain')]
  <2>1. request' = [request EXCEPT ![r] = new]
    BY <1>4 DEF Mutate
  <2>2. new.at = "saving"
    BY <1>4 DEF Request
  <2> HIDE DEF new
  <2> QED BY <1>3, <1>4, <2>1, <2>2 DEF LogsIn
<1>5. Idle \in Request /\ \A e : ~LogsIn(Idle, e)
  BY IdleIs DEF LogsIn
<1>6. CASE UNCHANGED accountsVars
  BY <1>1, <1>6, NoTryInv DEF accountsVars
<1>7. ASSUME NEW r \in Requests, NEW e \in Emails, CreateInvite(r, e) PROVE TriesInv'
  <2>1. [Idle EXCEPT !.op = "invite", !.invite = NextInvite] \in Request
    BY <1>7, NextIds DEF CreateInvite, Idle, Request, Operation
  <2> QED BY <1>4, <1>7, <2>1 DEF CreateInvite
<1>8. ASSUME NEW r \in Requests, NEW i \in Invites, RevokeInvite(r, i) PROVE TriesInv'
  <2>1. [Idle EXCEPT !.op = "revokeInvite", !.invite = i] \in Request
    BY DEF Idle, Request, Operation
  <2> QED BY <1>4, <1>8, <2>1 DEF RevokeInvite
<1>9. ASSUME NEW r \in Requests, NEW i \in Invites, RedeemBegins(r, i) PROVE TriesInv'
  <2> DEFINE new == [[Idle EXCEPT !.op = "redeem", !.invite = i] EXCEPT !.at = "hashing"]
  <2>1. request' = [request EXCEPT ![r] = new] /\ UNCHANGED failures
    BY <1>9 DEF RedeemBegins, Hash
  <2>2. new.op = "redeem"
    BY DEF Idle
  <2> HIDE DEF new
  <2> QED BY <1>3, <2>1, <2>2 DEF LogsIn
<1>10. ASSUME NEW r \in Requests, NEW u \in Users, PasswordBegins(r, u) PROVE TriesInv'
  <2> DEFINE new == [[Idle EXCEPT !.op = "setPassword", !.user = u] EXCEPT !.at = "hashing"]
  <2>1. request' = [request EXCEPT ![r] = new] /\ UNCHANGED failures
    BY <1>10 DEF PasswordBegins, Hash
  <2>2. new.op = "setPassword"
    BY DEF Idle
  <2> HIDE DEF new
  <2> QED BY <1>3, <2>1, <2>2 DEF LogsIn
<1>11. ASSUME NEW r \in Requests, NEW e \in Emails, NEW right \in BOOLEAN,
              LoginBegins(r, e, right)
       PROVE  TriesInv'
  <2> DEFINE u == IF WithEmail(e) = {} THEN 0 ELSE Min(WithEmail(e))
             new == [[Idle EXCEPT !.op = "login", !.email = e, !.user = u,
                                  !.good = (u # 0 /\ right)] EXCEPT !.at = "hashing"]
  <2>1. request' = [request EXCEPT ![r] = new] /\ UNCHANGED failures
    BY <1>11 DEF LoginBegins, Hash
  <2>2. failures[e] < MaxFailures /\ request[r].at = "idle"
    BY <1>11 DEF LoginBegins, NotLockedOut, Free
  <2> HIDE DEF u
  <2>3. new.email = e
    BY DEF Idle
  <2> HIDE DEF new
  <2>4. request'[r] = new /\ \A s \in Requests \ {r} : request'[s] = request[s]
    BY <1>2, <2>1
  <2>5. ~ \E x \in Emails : LogsIn(request[r], x)
    BY <2>2 DEF LogsIn
  <2>6. \A x \in Emails \ {e} : ~LogsIn(request'[r], x)
    BY <2>3, <2>4 DEF LogsIn
  <2> QED BY <2>1, <2>2, <2>4, <2>5, <2>6, BeginTryInv
<1>12. ASSUME NEW r \in Requests, RedeemEnds(r) PROVE TriesInv'
  <2>1. NextUser \in Users /\ NextKey \in Keys
    BY <1>12, NextIds DEF RedeemEnds
  <2>2. [request[r] EXCEPT !.user = NextUser, !.key = NextKey] \in Request
    BY <1>1, <2>1 DEF Request
  <2> QED BY <1>4, <1>12, <2>2 DEF RedeemEnds
<1>13. ASSUME NEW r \in Requests, LoginRefused(r) PROVE TriesInv'
  <2> DEFINE e == request[r].email
  <2>1. e \in Emails /\ LogsIn(request[r], e)
    BY <1>13 DEF LoginRefused, Hashed, StoreInv, SoundRequest, LogsIn
  <2>2. /\ failures' = [failures EXCEPT ![e] = @ + 1]
        /\ request' = [request EXCEPT ![r] = Idle]
    BY <1>13 DEF LoginRefused, Refused
  <2> HIDE DEF e
  <2>3. request'[r] = Idle /\ \A s \in Requests \ {r} : request'[s] = request[s]
    BY <1>2, <2>2
  <2>4. \A x \in Emails : ~LogsIn(request'[r], x)
    BY <1>5, <2>3
  <2> QED BY <2>1, <2>2, <2>3, <2>4, FailTryInv
<1>14. ASSUME NEW r \in Requests, PasswordEnds(r) PROVE TriesInv'
  <2> DEFINE S == Sessions(accounts, {request[r].user})
  <2>1. PICK d : Mutate(r, d, [request[r] EXCEPT !.ended = S]) /\ UNCHANGED failures
    BY <1>14 DEF PasswordEnds
  <2>2. [request[r] EXCEPT !.ended = S] \in Request
    BY <1>1 DEF Request, Sessions
  <2> QED BY <1>4, <2>1, <2>2
<1>15. ASSUME NEW r \in Requests, NEW expired \in SUBSET Keys, LoginEnds(r, expired)
       PROVE  TriesInv'
  <2>1. NextKey \in Keys
    BY <1>15, NextIds DEF LoginEnds
  <2>2. [request[r] EXCEPT !.key = NextKey] \in Request
    BY <1>1, <2>1 DEF Request
  <2>3. request[r].email \in Emails
    BY <1>15 DEF LoginEnds, Hashed, StoreInv, SoundRequest
  <2>4. failures' = [failures EXCEPT ![request[r].email] = 0]
    BY <1>15 DEF LoginEnds
  <2>5. PICK d : Mutate(r, d, [request[r] EXCEPT !.key = NextKey])
    BY <1>15 DEF LoginEnds
  <2> QED BY <1>4, <2>2, <2>3, <2>4, <2>5
<1>16. ASSUME NEW r \in Requests, NEW u \in Users, CreateKey(r, u) PROVE TriesInv'
  <2>1. NextKey \in Keys
    BY <1>16, NextIds DEF CreateKey
  <2>2. [Idle EXCEPT !.op = "createKey", !.key = NextKey] \in Request
    BY <2>1 DEF Idle, Request, Operation
  <2> QED BY <1>4, <1>16, <2>2 DEF CreateKey
<1>17. ASSUME NEW r \in Requests, NEW u \in Users, NEW s \in {"active", "disabled"},
              SetStatus(r, u, s)
       PROVE  TriesInv'
  <2>1. [Idle EXCEPT !.op = "setStatus", !.user = u, !.status = s] \in Request
    BY DEF Idle, Request, Operation
  <2> QED BY <1>4, <1>17, <2>1 DEF SetStatus
<1>18. ASSUME NEW r \in Requests, NEW k \in Keys, RevokeKey(r, k) PROVE TriesInv'
  <2>1. [Idle EXCEPT !.op = "revokeKey", !.ended = {k}] \in Request
    BY DEF Idle, Request, Operation
  <2> QED BY <1>4, <1>18, <2>1 DEF RevokeKey
<1>19. ASSUME (\E k \in Keys : TokenUsed(k)) \/ WriteBegins PROVE TriesInv'
  BY <1>1, <1>19, NoTryInv DEF TokenUsed, WriteBegins
<1>20. ASSUME NEW e \in Emails, FailuresForgotten(e) PROVE TriesInv'
  <2>1. /\ failures' \in [Emails -> Nat] /\ \A x \in Emails : failures'[x] <= failures[x]
        /\ request' = request
    BY <1>1, <1>20 DEF FailuresForgotten
  <2> QED BY <2>1, NoTryInv
<1>21. ASSUME WriteEnds PROVE TriesInv'
  <2>1. UNCHANGED failures /\ Answers
    BY <1>21 DEF WriteEnds
  <2>2. ASSUME NEW r \in Requests, NEW e \in Emails, LogsIn(request'[r], e)
        PROVE  LogsIn(request[r], e)
    <3>1. CASE request[r].at = "saving"
      <4>1. request'[r].at # "hashing"
        BY <1>1, <1>5, <2>1, <3>1 DEF Answers, Request, Idle
      <4> QED BY <2>2, <4>1 DEF LogsIn
    <3>2. CASE request[r].at # "saving"
      BY <2>1, <2>2, <3>2 DEF Answers, Awaited
    <3> QED BY <3>1, <3>2
  <2> QED BY <1>1, <2>1, <2>2, NoTryInv
<1>22. ASSUME Restart PROVE TriesInv'
  <2>1. request' = [r \in Requests |-> Idle] /\ failures' = [e \in Emails |-> 0]
    BY <1>22 DEF Restart
  <2> QED BY <1>1, <1>5, <2>1, NoTryInv
<1> QED BY <1>6, <1>7, <1>8, <1>9, <1>10, <1>11, <1>12, <1>13, <1>14, <1>15, <1>16,
           <1>17, <1>18, <1>19, <1>20, <1>21, <1>22
       DEF AccountsNext, PublicRoutes, InviteRoutes, UserRoutes, KeyRoutes, AfterHash

AccountsInv == StoreInv /\ TriesInv

LEMMA AccountsInductive == AccountsSpec => []AccountsInv
<1>1. AccountsInit => AccountsInv
  BY InitStoreInv, InitTriesInv DEF AccountsInv
<1>2. AccountsInv /\ [AccountsNext]_accountsVars => AccountsInv'
  BY StepStoreInv, StepTriesInv DEF AccountsInv
<1> QED BY <1>1, <1>2, PTL DEF AccountsSpec

\* The accounts keep their types (auth/service.js, auth/store.js).
THEOREM AccountsTypeCorrect == AccountsSpec => []AccountsTypeOK
<1>1. AccountsInv => AccountsTypeOK
  BY SoundChainTypes DEF AccountsInv, StoreInv, TriesInv, SoundData, AccountsTypeOK
<1> QED BY <1>1, AccountsInductive, PTL

LEMMA StepSessions ==
  ASSUME AccountsInv, [AccountsNext]_accountsVars
  PROVE  FreshSessions(accounts, accounts')
<1>1. CASE UNCHANGED accounts
  BY <1>1 DEF FreshSessions
<1> QED BY <1>1, OperationInv, RestartInv
        DEF AccountsInv, accountsVars, WriteBegins, WriteEnds

\* Of what a login checks before a password is verified: no session is issued
\* for an account that was disabled meanwhile, and the failures on record
\* exceed the limit by no more than the logins under way when it was reached
\* (auth/service.js: login).
THEOREM ChecksHold == AccountsSpec => AccountsGuarded
<1>1. AccountsInv /\ [AccountsNext]_accountsVars
        => [FreshSessions(accounts, accounts')]_accountsVars
  BY StepSessions
<1>2. AccountsInv => FailuresBounded
  <2>1. ASSUME AccountsInv, NEW e \in Emails
        PROVE  failures[e] <= MaxFailures + Cardinality(Requests) - 1
    <3>1. failures[e] + Cardinality(Trying(e)) <= MaxFailures + Cardinality(Requests) - 1
      BY <2>1 DEF AccountsInv, TriesInv, WithinBudget
    <3>2. /\ failures[e] \in Nat /\ Cardinality(Trying(e)) \in Nat
          /\ Cardinality(Requests) \in Nat /\ MaxFailures \in Nat
      BY <2>1, SomeTry, AccountsAssumption DEF AccountsInv, TriesInv
    <3> QED BY <3>1, <3>2
  <2> QED BY <2>1 DEF FailuresBounded
<1>3. AccountsSpec => [][FreshSessions(accounts, accounts')]_accountsVars
  BY <1>1, AccountsInductive, PTL DEF AccountsSpec
<1>4. AccountsSpec => []FailuresBounded
  BY <1>2, AccountsInductive, PTL
<1>5. AccountsSpec => NoSessionForDisabled
  BY <1>3 DEF FreshSessions, NoSessionForDisabled
<1> QED BY <1>4, <1>5 DEF AccountsGuarded
=============================================================================
