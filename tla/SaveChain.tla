----------------------------- MODULE SaveChain -----------------------------
(***************************************************************************)
(* The way the coordinator's stores write themselves (AuthStore.save in    *)
(* src/host/auth/store.js, and the same lines in messages.js): every save  *)
(* is one more write at the end of a chain, a write takes its snapshot     *)
(* when its turn comes, and it is written beside the file and renamed over *)
(* it, so that one cut short leaves the file as it was.  A write that      *)
(* fails does not stop the ones behind it.                                 *)
(*                                                                         *)
(* A chain is a value; the modules that use it keep it in a variable.      *)
(***************************************************************************)
EXTENDS Naturals, Sequences

\* waiting: writes chained behind the one in progress.  draft: its snapshot.
NewChain(d) == [waiting |-> 0, draft |-> <<>>, file |-> d]

IsChain(c, D) ==
  /\ c = [waiting |-> c.waiting, draft |-> c.draft, file |-> c.file]
  /\ c.waiting \in Nat
  /\ c.file \in D
  /\ Len(c.draft) <= 1 /\ \A i \in DOMAIN c.draft : c.draft[i] \in D

\* How many writes end before one that is asked for now has ended.
Outstanding(c) == c.waiting + Len(c.draft)

\* Slip: a save rides on the write in progress instead of chaining another.
AskedOnce(c) == IF Outstanding(c) > 0 THEN c ELSE [c EXCEPT !.waiting = 1]

Asked(c) == [c EXCEPT !.waiting = @ + 1]

CanStart(c) == c.draft = <<>> /\ c.waiting > 0

Started(c, d) == [c EXCEPT !.waiting = @ - 1, !.draft = <<d>>]

CanEnd(c) == c.draft # <<>>

Written(c) == [c EXCEPT !.draft = <<>>, !.file = c.draft[1]]

NotWritten(c) == [c EXCEPT !.draft = <<>>]
=============================================================================
