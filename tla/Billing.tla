------------------------------ MODULE Billing ------------------------------
(***************************************************************************)
(* One account of the music bridge: its free tracks and its subscription   *)
(* (src/bridge/billing.js), the click that spends a track (generate in     *)
(* src/bridge/music.js), and the webhooks that report on the subscription. *)
(*                                                                         *)
(* The accounts file is written in the very turn that changes it, so what  *)
(* a restart loses is what is between turns: a click that has not been     *)
(* answered, and the customer of a checkout whose subscription is being    *)
(* asked for.                                                              *)
(*                                                                         *)
(* Stripe is external.  It keeps the subscriptions, redelivers an event    *)
(* until it is acknowledged, and may deliver out of order.  A new          *)
(* subscription begins only while no other one is live, as a paid account  *)
(* is refused another checkout; two checkouts opened before either was     *)
(* paid are left out.                                                      *)
(***************************************************************************)
EXTENDS Naturals, FiniteSets, Sequences, SequencesExt

CONSTANTS
  Clicks,      \* clicks on "generate" under way at once
  Allowance,   \* freeTracksPerMonth
  NumMonths,   \* bound
  NumSubs,     \* bound: subscriptions ever begun
  MaxEvents    \* bound: events Stripe has not had acknowledged

ASSUME BillingAssumption ==
  Allowance \in Nat /\ NumMonths \in Nat \ {0} /\ NumSubs \in Nat /\ MaxEvents \in Nat

Months == 1 .. NumMonths
Subs   == 1 .. NumSubs

VARIABLES
  month,    \* the month it is
  store,    \* the account in memory
  disk,     \* the account in the file
  click,    \* click[c]: the month a track was charged to
  stripe,   \* stripe[s]: the state of subscription s
  events,   \* unacknowledged events, oldest first
  asking,   \* the checkout whose subscription the bridge is asking about
  free,     \* free[m]: tracks that were charged to m and queued
  wasted,   \* wasted[m]: charged to m by clicks the bridge did not survive
  orderly   \* events have come one at a time and in order so far

billingVars == <<month, store, disk, click, stripe, events, asking, free,
                 wasted, orderly>>

\* A status Stripe keeps access for, one it does not, and the last.
State == {"none", "live", "unpaid", "ended"}

Account == [month : Months, used : Nat, linked : BOOLEAN, sub : Subs \cup {0},
            status : State, lapsed : BOOLEAN]

\* A click is "no", or charged to a month, or to none because it is paid for.
Click == [at : {"idle", "queueing"}, charged : Months \cup {0}]

Event == [kind : {"checkout", "updated", "deleted"}, sub : Subs, status : State]

NotAsking == [sub |-> 0, status |-> "none"]

BillingTypeOK ==
  /\ month \in Months
  /\ store \in Account /\ disk \in Account
  /\ click \in [Clicks -> Click]
  /\ stripe \in [Subs -> State]
  /\ events \in Seq(Event)
  /\ asking \in [sub : Subs \cup {0}, status : State]
  /\ free \in [Months -> Nat] /\ wasted \in [Months -> Nat]
  /\ orderly \in BOOLEAN

NewAccount == [month |-> 1, used |-> 0, linked |-> FALSE, sub |-> 0,
               status |-> "none", lapsed |-> FALSE]

NotClicked == [at |-> "idle", charged |-> 0]

BillingInit ==
  /\ month = 1
  /\ store = NewAccount /\ disk = NewAccount
  /\ click = [c \in Clicks |-> NotClicked]
  /\ stripe = [s \in Subs |-> "none"]
  /\ events = <<>>
  /\ asking = NotAsking
  /\ free = [m \in Months |-> 0] /\ wasted = [m \in Months |-> 0]
  /\ orderly = TRUE

clickVars  == <<click, free, wasted>>
stripeVars == <<stripe, events, asking, orderly>>

\* save: the whole account.
Saves(a) == store' = a /\ disk' = a
----------------------------------------------------------------------------
(* Free tracks.                                                            *)

\* record: a new month starts from nothing.
Rolled == IF store.month = month THEN store
          ELSE [store EXCEPT !.month = month, !.used = 0]

\* isPaid: nor does a cancellation nobody heard of mean free music for ever.
IsPaid(a) == a.status = "live" /\ ~a.lapsed

MonthTurns ==
  /\ month < NumMonths
  /\ month' = month + 1
  /\ UNCHANGED <<store, disk, clickVars, stripeVars>>

\* The period that was paid for is over and nothing was heard of the next.
PeriodLapses ==
  /\ IsPaid(store)
  /\ store' = [store EXCEPT !.lapsed = TRUE]
  /\ disk' = [disk EXCEPT !.lapsed = (store.sub = disk.sub) \/ @]
  /\ UNCHANGED <<month, clickVars, stripeVars>>

\* reserve, then POST /tasks.  A click that is refused changes nothing.
ClickReserves(c) ==
  /\ click[c] = NotClicked
  /\ \/ IsPaid(Rolled) /\ store' = Rolled /\ UNCHANGED disk
     \/ /\ ~IsPaid(Rolled) /\ Rolled.used < Allowance
        /\ Saves([Rolled EXCEPT !.used = @ + 1])
  /\ click' = [click EXCEPT ![c] =
       [at |-> "queueing", charged |-> IF IsPaid(Rolled) THEN 0 ELSE month]]
  /\ UNCHANGED <<month, free, wasted, stripeVars>>

ClickQueued(c) ==
  /\ click[c].at = "queueing"
  /\ click' = [click EXCEPT ![c] = NotClicked]
  /\ free' = [m \in Months |-> free[m] + (IF click[c].charged = m THEN 1 ELSE 0)]
  /\ UNCHANGED <<month, store, disk, wasted, stripeVars>>

\* The refund: not into a month that has begun since.
Refunded(m) ==
  IF m # 0 /\ store.month = m /\ store.used > 0
  THEN Saves([store EXCEPT !.used = @ - 1])
  ELSE UNCHANGED <<store, disk>>

\* The coordinator refuses the task, or was not heard; a task it has taken
\* all the same is one that is not paid for.
ClickFails(c) ==
  /\ click[c].at = "queueing"
  /\ click' = [click EXCEPT ![c] = NotClicked]
  /\ Refunded(click[c].charged)
  /\ UNCHANGED <<month, free, wasted, stripeVars>>

\* The panel asks for the account.
Summary ==
  /\ Rolled # store
  /\ store' = Rolled
  /\ UNCHANGED <<month, disk, clickVars, stripeVars>>
----------------------------------------------------------------------------
(* Stripe.                                                                 *)

Live == {s \in Subs : stripe[s] = "live"}

Reports(es) ==
  /\ Len(events) + Len(es) <= MaxEvents
  /\ events' = events \o es
  /\ UNCHANGED <<month, store, disk, clickVars, asking, orderly>>

Of(kind, s, st) == [kind |-> kind, sub |-> s, status |-> st]

Subscribes(s) ==
  /\ Live = {} /\ stripe[s] = "none"
  /\ stripe' = [stripe EXCEPT ![s] = "live"]
  /\ Reports(<<Of("updated", s, "live"), Of("checkout", s, "live")>>)

StatusChanges(s, st) ==
  /\ \/ stripe[s] = "live" /\ st = "unpaid"
     \/ stripe[s] = "unpaid" /\ st = "live" /\ Live = {}
  /\ stripe' = [stripe EXCEPT ![s] = st]
  /\ Reports(<<Of("updated", s, st)>>)

Cancelled(s) ==
  /\ stripe[s] \in {"live", "unpaid"}
  /\ stripe' = [stripe EXCEPT ![s] = "ended"]
  /\ Reports(<<Of("deleted", s, "ended")>>)

\* Something else happens to it, and Stripe tells its state: a renewal.
Renews(s) ==
  /\ stripe[s] = "live"
  /\ UNCHANGED stripe
  /\ Reports(<<Of("updated", s, "live")>>)
----------------------------------------------------------------------------
(* Webhooks.                                                               *)

\* applySubscription.
Applied(s, st) ==
  [Rolled EXCEPT !.sub = s, !.status = st, !.lapsed = FALSE]

\* Slip: an old subscription that ends is taken for the one that is held.
IgnoresUnlinked(e) == ~store.linked

\* Someone else's customer, one whose checkout has not come yet, or the end
\* of a subscription that is not the one held.
Ignores(e) ==
  \/ ~store.linked
  \/ e.kind = "deleted" /\ store.sub \notin {0, e.sub}

SubscriptionEvent(i) ==
  /\ events[i].kind # "checkout"
  /\ IF Ignores(events[i]) THEN UNCHANGED <<store, disk>>
     ELSE Saves(Applied(events[i].sub, events[i].status))
  /\ events' = RemoveAt(events, i)
  /\ orderly' = (orderly /\ i = 1 /\ asking = NotAsking)
  /\ UNCHANGED <<month, clickVars, stripe, asking>>

\* The session does not say what state the subscription is in: ask.
CheckoutEvent(i) ==
  /\ events[i].kind = "checkout" /\ asking = NotAsking
  /\ store' = [Rolled EXCEPT !.linked = TRUE]
  /\ asking' = [sub |-> events[i].sub, status |-> "none"]
  /\ orderly' = (orderly /\ i = 1)
  /\ UNCHANGED <<month, disk, clickVars, stripe, events>>

StripeAnswers ==
  /\ asking.sub # 0 /\ asking.status = "none"
  /\ asking' = [asking EXCEPT !.status = stripe[asking.sub]]
  /\ UNCHANGED <<month, store, disk, clickVars, stripe, events, orderly>>

\* Stripe cannot be reached, so the event is not acknowledged.
StripeUnanswered ==
  /\ asking # NotAsking
  /\ asking' = NotAsking
  /\ UNCHANGED <<month, store, disk, clickVars, stripe, events, orderly>>

CheckoutEnds(i) ==
  /\ asking.status # "none"
  /\ events[i].kind = "checkout" /\ events[i].sub = asking.sub
  /\ Saves(Applied(asking.sub, asking.status))
  /\ asking' = NotAsking
  /\ events' = RemoveAt(events, i)
  /\ UNCHANGED <<month, clickVars, stripe, orderly>>

\* The bridge is restarted.
BridgeRestarts ==
  /\ store' = disk
  /\ asking' = NotAsking
  /\ click' = [c \in Clicks |-> NotClicked]
  /\ wasted' = [m \in Months |->
       wasted[m] + Cardinality({c \in Clicks : click[c].charged = m})]
  /\ UNCHANGED <<month, disk, free, stripe, events, orderly>>
----------------------------------------------------------------------------
BillingNext ==
  \/ MonthTurns \/ PeriodLapses \/ Summary
  \/ \E c \in Clicks : ClickReserves(c) \/ ClickQueued(c) \/ ClickFails(c)
  \/ \E s \in Subs : Subscribes(s) \/ Cancelled(s) \/ Renews(s)
  \/ \E s \in Subs, st \in {"live", "unpaid"} : StatusChanges(s, st)
  \/ \E i \in DOMAIN events : SubscriptionEvent(i) \/ CheckoutEvent(i) \/ CheckoutEnds(i)
  \/ StripeAnswers \/ StripeUnanswered \/ BridgeRestarts

BillingSpec == BillingInit /\ [][BillingNext]_billingVars
----------------------------------------------------------------------------
(* Properties.                                                             *)

UnderWay(m) == Cardinality({c \in Clicks : click[c].charged = m})

\* "two clicks at once cannot both spend the last free track" and "a refused
\* click costs no free track": what the account has used this month is what
\* was queued for it, what is being queued, and what the bridge did not live
\* to hear about, over refusals, restarts and the turn of the month.
UsedExact ==
  store.month = month =>
    /\ store.used = free[month] + UnderWay(month) + wasted[month]
    /\ store.used <= Allowance

\* "that event fetches the current state itself, so nothing is lost": when
\* the events have come in order and all are in, a subscription that is live
\* is the one the account is held to have, whatever became of earlier ones.
PaidIsServed ==
  orderly /\ events = <<>> =>
    \A s \in Live : store.sub = s /\ store.status = "live"

\* What is counted and who is served agree with the queue and with Stripe.
BillingSound == UsedExact /\ PaidIsServed
=============================================================================
