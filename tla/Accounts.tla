------------------------------ MODULE Accounts ------------------------------
(***************************************************************************)
(* The coordinator's accounts (src/host/auth/service.js) over the file     *)
(* they are kept in (src/host/auth/store.js).                              *)
(*                                                                         *)
(* An operation is a request that checks, then perhaps waits for a         *)
(* password to be hashed, then changes the data and asks for it to be      *)
(* written, and answers when that write has ended.  Anything may happen    *)
(* between these steps.  A password is hashed or verified off the thread,  *)
(* so two requests can be between check and change at the same time.       *)
(*                                                                         *)
(* Clocks are left out: an invite may be found expired at any time, a      *)
(* session may be found expired by any request and pruned by any login,    *)
(* and a lockout may be over.  Scopes are left out: a request here is one  *)
(* that its bearer may make.                                               *)
(***************************************************************************)
EXTENDS SaveChain, FiniteSets, FiniteSetsExt

CONSTANTS
  Requests,       \* requests under way at once
  Emails,
  NumUsers, NumInvites, NumKeys,  \* bounds: ids that are handed out
  NoOne,          \* an email that there is not
  MaxFailures,    \* LOGIN_MAX_FAILURES
  MaxSaves        \* bound: writes outstanding

ASSUME AccountsAssumption ==
  /\ IsFiniteSet(Requests) /\ Requests # {}
  /\ NumUsers \in Nat /\ NumInvites \in Nat /\ NumKeys \in Nat
  /\ NoOne \notin Emails
  /\ MaxFailures \in Nat \ {0}
  /\ MaxSaves \in Nat

Users   == 1 .. NumUsers
Invites == 1 .. NumInvites
Keys    == 1 .. NumKeys

VARIABLES
  accounts,    \* #data: users, invites and keys
  chain,       \* #writeChain and the file
  request,     \* request[r]: where r is and what it has read
  failures     \* failures[e]: failed logins on record for e

accountsVars == <<accounts, chain, request, failures>>

User   == [status : {"absent", "active", "disabled"}, email : Emails \cup {NoOne},
           invite : Invites \cup {0}]
Invite == [issued : BOOLEAN, email : Emails \cup {NoOne}, redeemed : BOOLEAN,
           revoked : BOOLEAN]
\* A session that was pruned is "gone".
Key    == [state : {"absent", "valid", "revoked", "gone"},
           kind : {"session", "key"}, owner : Users \cup {0}]

Data == [users : [Users -> User], invites : [Invites -> Invite],
         keys : [Keys -> Key]]

NoUser   == [status |-> "absent", email |-> NoOne, invite |-> 0]
NoInvite == [issued |-> FALSE, email |-> NoOne, redeemed |-> FALSE, revoked |-> FALSE]
NoKey    == [state |-> "absent", kind |-> "key", owner |-> 0]

NoData == [users |-> [u \in Users |-> NoUser], invites |-> [i \in Invites |-> NoInvite],
           keys |-> [k \in Keys |-> NoKey]]

(***************************************************************************)
(* at: "hashing" between check and change, "saving" until the write that   *)
(* was asked for has ended, which is after `left` more writes end.  What   *)
(* the request goes by, and what it will have changed, is in the rest:     *)
(* `status` the status it sets, `ended` the sessions or the key it ends.   *)
(***************************************************************************)
Idle == [at |-> "idle", op |-> "none", user |-> 0, invite |-> 0, key |-> 0,
         email |-> NoOne, good |-> FALSE, status |-> "absent", ended |-> {},
         left |-> 0]

Operation == {"none", "invite", "redeem", "revokeInvite", "login", "createKey",
              "revokeKey", "setStatus", "setPassword"}

Request == [at : {"idle", "hashing", "saving"}, op : Operation,
            user : Users \cup {0}, invite : Invites \cup {0}, key : Keys \cup {0},
            email : Emails \cup {NoOne}, good : BOOLEAN,
            status : {"absent", "active", "disabled"}, ended : SUBSET Keys,
            left : Nat]

AccountsTypeOK ==
  /\ accounts \in Data
  /\ IsChain(chain, Data)
  /\ request \in [Requests -> Request]
  /\ failures \in [Emails -> Nat]

AccountsInit ==
  /\ accounts = NoData
  /\ chain = NewChain(NoData)
  /\ request = [r \in Requests |-> Idle]
  /\ failures = [e \in Emails |-> 0]
----------------------------------------------------------------------------
HasUser(d, u) == d.users[u].status # "absent"

WithEmail(e) == {u \in Users : HasUser(accounts, u) /\ accounts.users[u].email = e}

\* #resolveInvite, with an invite that has not expired.
Pending(i) ==
  LET invite == accounts.invites[i] IN
    invite.issued /\ ~invite.redeemed /\ ~invite.revoked

\* Ids are random, so which unused one it is does not matter.
NextUser   == Min({u \in Users : ~HasUser(accounts, u)})
NextInvite == Min({i \in Invites : ~accounts.invites[i].issued})
NextKey    == Min({k \in Keys : accounts.keys[k].state = "absent"})

SomeUser   == \E u \in Users : ~HasUser(accounts, u)
SomeInvite == \E i \in Invites : ~accounts.invites[i].issued
SomeKey    == \E k \in Keys : accounts.keys[k].state = "absent"

\* mutate: r has changed the data to d and waits for it to be written.
Mutate(r, d, what) ==
  /\ Outstanding(chain) < MaxSaves
  /\ accounts' = d
  /\ chain' = Asked(chain)
  /\ request' = [request EXCEPT ![r] =
       [what EXCEPT !.at = "saving", !.left = Outstanding(chain')]]

\* r waits for a password to be hashed.
Hash(r, what) ==
  /\ request' = [request EXCEPT ![r] = [what EXCEPT !.at = "hashing"]]
  /\ UNCHANGED <<accounts, chain>>

Refused(r) ==
  /\ request' = [request EXCEPT ![r] = Idle]
  /\ UNCHANGED <<accounts, chain>>

Free(r) == request[r].at = "idle"

Hashed(r, op) == request[r].at = "hashing" /\ request[r].op = op
----------------------------------------------------------------------------
(* Invites.                                                                *)

CreateInvite(r, e) ==
  /\ Free(r) /\ SomeInvite
  /\ WithEmail(e) = {}
  /\ Mutate(r, [accounts EXCEPT !.invites[NextInvite] =
                  [NoInvite EXCEPT !.issued = TRUE, !.email = e]],
            [Idle EXCEPT !.op = "invite", !.invite = NextInvite])
  /\ UNCHANGED failures

RedeemBegins(r, i) ==
  /\ Free(r)
  /\ Pending(i)
  /\ WithEmail(accounts.invites[i].email) = {}
  /\ Hash(r, [Idle EXCEPT !.op = "redeem", !.invite = i])
  /\ UNCHANGED failures

\* What was checked before the wait is not checked again.
RedeemEnds(r) ==
  LET i == request[r].invite IN
  /\ Hashed(r, "redeem") /\ SomeUser /\ SomeKey
  /\ Mutate(r, [accounts EXCEPT
                  !.users[NextUser] =
                    [status |-> "active", email |-> accounts.invites[i].email,
                     invite |-> i],
                  !.keys[NextKey] =
                    [state |-> "valid", kind |-> "key", owner |-> NextUser],
                  !.invites[i].redeemed = TRUE],
            [request[r] EXCEPT !.user = NextUser, !.key = NextKey])
  /\ UNCHANGED failures

\* One that is revoked already is answered at once.
RevokeInvite(r, i) ==
  /\ Free(r)
  /\ Pending(i)
  /\ Mutate(r, [accounts EXCEPT !.invites[i].revoked = TRUE],
            [Idle EXCEPT !.op = "revokeInvite", !.invite = i])
  /\ UNCHANGED failures
----------------------------------------------------------------------------
(* Logging in.                                                             *)

NotLockedOut(e) == failures[e] < MaxFailures

\* A lockout that is over is forgotten by the next login; and a Map of
\* failures that is full forgets others.
FailuresForgotten(e) ==
  /\ failures[e] > 0
  /\ failures' = [failures EXCEPT ![e] = 0]
  /\ UNCHANGED <<accounts, chain, request>>

\* Whether the password given is right is settled by the one that is set now;
\* the account with this email is the first of them if there are several.
LoginBegins(r, e, right) ==
  /\ Free(r)
  /\ NotLockedOut(e)
  /\ LET u == IF WithEmail(e) = {} THEN 0 ELSE Min(WithEmail(e)) IN
       Hash(r, [Idle EXCEPT !.op = "login", !.email = e, !.user = u,
                            !.good = (u # 0 /\ right)])
  /\ UNCHANGED failures

\* Slip: the account is taken to be as it was before the wait.
AdmittedAsRead(r) == request[r].good

\* The password as it was, the status as it is.
MayEnter(r) ==
  request[r].good /\ accounts.users[request[r].user].status = "active"

LoginRefused(r) ==
  /\ Hashed(r, "login")
  /\ ~MayEnter(r)
  /\ failures' = [failures EXCEPT ![request[r].email] = @ + 1]
  /\ Refused(r)

Sessions(d, us) ==
  {k \in Keys : d.keys[k].state \in {"valid", "revoked"} /\ d.keys[k].kind = "session"
                /\ d.keys[k].owner \in us}

\* A session is issued, and those that have expired are dropped.
LoginEnds(r, expired) ==
  /\ Hashed(r, "login")
  /\ MayEnter(r) /\ SomeKey
  /\ expired \subseteq Sessions(accounts, Users)
  /\ failures' = [failures EXCEPT ![request[r].email] = 0]
  /\ Mutate(r, [accounts EXCEPT !.keys = [k \in Keys |->
                  IF k \in expired THEN [@[k] EXCEPT !.state = "gone"]
                  ELSE IF k = NextKey
                       THEN [state |-> "valid", kind |-> "session",
                             owner |-> request[r].user]
                       ELSE @[k]]],
            [request[r] EXCEPT !.key = NextKey])
----------------------------------------------------------------------------
(* Keys and users.                                                         *)

CreateKey(r, u) ==
  /\ Free(r) /\ SomeKey
  /\ HasUser(accounts, u)
  /\ Mutate(r, [accounts EXCEPT !.keys[NextKey] =
                  [state |-> "valid", kind |-> "key", owner |-> u]],
            [Idle EXCEPT !.op = "createKey", !.key = NextKey])
  /\ UNCHANGED failures

\* One that is revoked already is answered at once.
RevokeKey(r, k) ==
  /\ Free(r)
  /\ accounts.keys[k].state = "valid"
  /\ Mutate(r, [accounts EXCEPT !.keys[k].state = "revoked"],
            [Idle EXCEPT !.op = "revokeKey", !.ended = {k}])
  /\ UNCHANGED failures

SetStatus(r, u, status) ==
  /\ Free(r)
  /\ HasUser(accounts, u)
  /\ Mutate(r, [accounts EXCEPT !.users[u].status = status],
            [Idle EXCEPT !.op = "setStatus", !.user = u, !.status = status])
  /\ UNCHANGED failures

\* adminResetPassword, and changePassword given the right current one, which
\* like a login is compared with the one that is set as it begins.  Passwords
\* themselves are left out: a login is told if it was given the right one.
PasswordBegins(r, u) ==
  /\ Free(r)
  /\ HasUser(accounts, u)
  /\ Hash(r, [Idle EXCEPT !.op = "setPassword", !.user = u])
  /\ UNCHANGED failures

\* The sessions there are go with the old password; other keys do not.
PasswordEnds(r) ==
  LET u == request[r].user IN
  /\ Hashed(r, "setPassword")
  /\ Mutate(r, [accounts EXCEPT
                  !.keys = [k \in Keys |->
                    IF k \in Sessions(accounts, {u})
                    THEN [@[k] EXCEPT !.state = "revoked"] ELSE @[k]]],
            [request[r] EXCEPT !.ended = Sessions(accounts, {u})])
  /\ UNCHANGED failures

\* authenticate: the time of use is written down, and nobody waits for it.
TokenUsed(k) ==
  /\ accounts.keys[k].state = "valid"
  /\ accounts.users[accounts.keys[k].owner].status = "active"
  /\ Outstanding(chain) < MaxSaves
  /\ chain' = Asked(chain)
  /\ UNCHANGED <<accounts, request, failures>>
----------------------------------------------------------------------------
(* The file.                                                               *)

WriteBegins ==
  /\ CanStart(chain)
  /\ chain' = Started(chain, accounts)
  /\ UNCHANGED <<accounts, request, failures>>

\* Whoever waits for the write that ends is answered.
Awaited(r) == request[r].at = "saving" /\ request[r].left = 1

Answers ==
  request' = [r \in Requests |->
    IF Awaited(r) THEN Idle
    ELSE IF request[r].at = "saving" THEN [request[r] EXCEPT !.left = @ - 1]
    ELSE request[r]]

WriteEnds ==
  /\ CanEnd(chain)
  /\ chain' \in {Written(chain), NotWritten(chain)}
  /\ Answers
  /\ UNCHANGED <<accounts, failures>>

\* The coordinator dies and is started again from the file, from which
\* sessions that have expired are dropped.
Restart ==
  /\ \E expired \in SUBSET Sessions(chain.file, Users) :
       LET d == [chain.file EXCEPT !.keys = [k \in Keys |->
                   IF k \in expired THEN [@[k] EXCEPT !.state = "gone"] ELSE @[k]]]
       IN /\ accounts' = d
          /\ chain' = IF expired = {} THEN NewChain(chain.file)
                                      ELSE Asked(NewChain(chain.file))
  /\ request' = [r \in Requests |-> Idle]
  /\ failures' = [e \in Emails |-> 0]
----------------------------------------------------------------------------
(* The routes of src/host/server.js that lead to these operations.          *)

\* /invites/redeem and /auth/login, for which no credential is asked.
PublicRoutes ==
  \E r \in Requests :
    \/ \E i \in Invites : RedeemBegins(r, i)
    \/ \E e \in Emails, right \in BOOLEAN : LoginBegins(r, e, right)

InviteRoutes ==
  \E r \in Requests :
    \/ \E e \in Emails : CreateInvite(r, e)
    \/ \E i \in Invites : RevokeInvite(r, i)

\* Of a user's own (/me/password) and of any other's.
UserRoutes ==
  \E r \in Requests, u \in Users :
    \/ \E s \in {"active", "disabled"} : SetStatus(r, u, s)
    \/ PasswordBegins(r, u)

KeyRoutes ==
  \E r \in Requests :
    \/ \E u \in Users : CreateKey(r, u)
    \/ \E k \in Keys : RevokeKey(r, k)

\* A request goes on when its password has been hashed or compared.
AfterHash ==
  \E r \in Requests :
    \/ RedeemEnds(r) \/ LoginRefused(r) \/ PasswordEnds(r)
    \/ \E expired \in SUBSET Keys : LoginEnds(r, expired)

AccountsNext ==
  \/ PublicRoutes \/ InviteRoutes \/ UserRoutes \/ KeyRoutes \/ AfterHash
  \/ \E k \in Keys : TokenUsed(k)
  \/ \E e \in Emails : FailuresForgotten(e)
  \/ WriteBegins \/ WriteEnds \/ Restart

AccountsSpec == AccountsInit /\ [][AccountsNext]_accountsVars
----------------------------------------------------------------------------
(* Properties.                                                             *)

\* Requests to set the status of the same user, r's and those after it, that
\* still wait.  Those asked for later wait for more writes.
SetSince(r) ==
  {s \in Requests : /\ request[s].at = "saving" /\ request[s].op = "setStatus"
                     /\ request[s].user = request[r].user
                     /\ request[s].left >= request[r].left}

\* What r changed is in d: what it made is there, what it ended has ended, and
\* a status is the one r set, or one that a later request has set since.
\* Passwords are not in the data.
Holds(d, r) ==
  LET q == request[r] IN
  /\ q.op \in {"invite", "revokeInvite"} => d.invites[q.invite].issued
  /\ q.op = "revokeInvite" => d.invites[q.invite].revoked
  /\ q.op = "redeem" => HasUser(d, q.user) /\ d.invites[q.invite].redeemed
  /\ q.op \in {"redeem", "login", "createKey"} => d.keys[q.key].state # "absent"
  /\ q.op \in {"revokeKey", "setPassword"} =>
       \A k \in q.ended : d.keys[k].state \in {"revoked", "gone"}
  /\ q.op = "setStatus" =>
       \E s \in SetSince(r) : d.users[q.user].status = request[s].status

\* "Applies a mutation and persists it" (store.js): a request that is told
\* it succeeded finds what it did in the file, however many other writes
\* were waiting, and whichever of them failed.
AnswersAreSaved ==
  [][\A r \in Requests :
       Awaited(r) /\ CanEnd(chain) /\ chain' = Written(chain)
         => Holds(chain'.file, r)]_accountsVars

\* From d to e nothing is taken back: no account, invite or credential
\* disappears, an invite that was redeemed or revoked stays so marked, no
\* revoked credential becomes valid.
Advances(d, e) ==
  /\ \A u \in Users : HasUser(d, u) =>
       HasUser(e, u) /\ e.users[u].email = d.users[u].email
  /\ \A i \in Invites :
       /\ d.invites[i].issued => e.invites[i].issued
       /\ d.invites[i].redeemed => e.invites[i].redeemed
       /\ d.invites[i].revoked => e.invites[i].revoked
  /\ \A k \in Keys :
       /\ d.keys[k].state # "absent" => e.keys[k].state # "absent"
       /\ d.keys[k].state = "revoked" => e.keys[k].state \in {"revoked", "gone"}
       /\ d.keys[k].state = "gone" => e.keys[k].state = "gone"

\* "credentials that vanish lock everyone out and silently un-revoke
\* nothing" (store.js): what the file says is never taken back, by writes
\* that overlap, fail or are cut short, or by a restart.
FileAdvances == [][Advances(chain.file, chain'.file)]_accountsVars

\* A login that was verified before an account was disabled, and ends after,
\* issues no session.
NoSessionForDisabled ==
  [][\A k \in Keys :
       accounts.keys[k].state = "absent" /\ accounts'.keys[k].state = "valid"
         /\ accounts'.keys[k].kind = "session"
         => accounts.users[accounts'.keys[k].owner].status = "active"]_accountsVars

\* The lockout holds up to the attempts that were under way when it began.
FailuresBounded ==
  \A e \in Emails : failures[e] <= MaxFailures + Cardinality(Requests) - 1

\* What was promised is in the file, and stays there.
AccountsKept == AnswersAreSaved /\ FileAdvances

\* Of the checks made before a wait: the status is looked at again, so there
\* is no session for an account that was disabled meanwhile, and the failures
\* that were counted too late are no more than the attempts under way.  What
\* a redemption checked is not looked at again, and may not hold any more.
AccountsGuarded == NoSessionForDisabled /\ []FailuresBounded
=============================================================================
