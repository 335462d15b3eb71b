--------------------------- MODULE SubscriptionSync ---------------------------
(***************************************************************************)
(* How an organisation's paid plan follows Stripe (apps/api, billing):     *)
(* billingService.createCheckout and ensureCustomer open checkout sessions *)
(* for the customer on file, Stripe creates subscriptions and emits one    *)
(* event per change, and processEvent / applySubscription copy each event  *)
(* to the subscription row and organization.planTier.                      *)
(*                                                                         *)
(* One organisation: rows of different organisations never meet.  Stripe   *)
(* may deliver an event late, out of order and more than once, and repeats *)
(* it until a handler answers.  Every await is a step boundary.            *)
(***************************************************************************)
EXTENDS Integers, Sequences, FiniteSets

CONSTANTS
    Admins,         \* concurrent createCheckout requests
    Handlers,       \* concurrent webhook requests
    Subscriptions,  \* subscription ids Stripe hands out
    Customers,      \* customer ids Stripe hands out
    None,           \* null
    PaidTiers,      \* paid tiers with a configured price
    Prices,         \* prices a subscription may carry, configured or not
    SameSecond,     \* whether two events may be created in the same second
    MaxCheckouts,   \* bound: checkouts begun
    MaxEvents,      \* bound: events Stripe emits
    MaxCrashes      \* bound: handlers that die or answer 5xx midway

ASSUME SubscriptionAssumption ==
    /\ None \notin Subscriptions \cup Customers
    /\ PaidTiers \subseteq Prices
    /\ "free" \notin Prices
    /\ SameSecond \in BOOLEAN
    /\ MaxCheckouts \in Nat
    /\ MaxEvents \in Nat
    /\ MaxCrashes \in Nat

Confirmed == {"active", "trialing", "past_due"}             \* PAID_ACTIVE
Ended == {"canceled", "unpaid", "incomplete_expired"}
Statuses == Confirmed \cup Ended \cup {"incomplete"}
EventIds == 1..MaxEvents

VARIABLES
    row,        \* the subscriptions row
    planTier,   \* organization.planTier
    checkout,   \* checkout[a]: the createCheckout request of a
    begun,      \* checkouts begun
    made,       \* customers created at Stripe
    sessions,   \* customers for whom a checkout session is open
    sub,        \* sub[s]: Stripe's subscription s, or None
    events,     \* the events Stripe has emitted, oldest first
    log,        \* log[n]: the stripe_events row of event n
    handler,    \* handler[h]: the event h is applying
    raced,      \* some write followed a read of the row that was no longer current
    crashes

database == <<row, planTier, log>>
checkouts == <<checkout, begun, made, sessions>>
atStripe == <<sub, events>>
syncVars == <<database, checkouts, atStripe, handler, raced, crashes>>

NoRow == [customer |-> None, sub |-> None, status |-> "none", last |-> 0]
IdleCheckout == [pc |-> "idle", customer |-> None]
IdleHandler == [pc |-> "idle"]

Newest == events[Len(events)]

-----------------------------------------------------------------------------
(* Helpers *)

\* planForPriceId: None for a price that is not configured.
PlanForPrice(price) == IF price \in PaidTiers THEN price ELSE None

TierForStatus(status, paid, current) ==
    IF status \in Confirmed THEN paid ELSE IF status \in Ended THEN "free" ELSE current

\* An event older than the last one applied.
NeverOlder(at, last) == FALSE
Older(at, last) == at < last

\* An event whose stripe_events row says it was processed; one that was only stored
\* is processed again.
AnyRowIsDuplicate(n) == log[n] # "none"
Duplicate(n) == log[n] = "processed"

\* insert of the row lost to another admin (P2002): the customer to use.
OwnCustomer(mine, winner) == mine
CustomerAfterConflict(mine, winner) == winner

-----------------------------------------------------------------------------
(* State *)

Handling ==
    {IdleHandler} \cup
    [pc : {"row", "org", "write", "done"}, event : EventIds, last : 0..MaxEvents,
     tier : PaidTiers \cup {"free", None}]

\* The type invariant.
SyncTypeOK ==
    /\ row \in [customer : Customers \cup {None}, sub : Subscriptions \cup {None},
                status : Statuses \cup {"none"}, last : 0..MaxEvents]
    /\ planTier \in PaidTiers \cup {"free"}
    /\ checkout \in [Admins -> [pc : {"idle", "find", "create", "insert", "session"},
                                customer : Customers \cup {None}]]
    /\ begun \in 0..MaxCheckouts
    /\ made \subseteq Customers
    /\ sessions \in [Customers -> Nat]
    /\ sub \in [Subscriptions ->
                   {None} \cup [customer : Customers, status : Statuses, price : Prices]]
    /\ events \in Seq([sub : Subscriptions, customer : Customers, status : Statuses,
                       price : Prices, at : 1..MaxEvents])
    /\ Len(events) <= MaxEvents
    /\ log \in [EventIds -> {"none", "stored", "processed"}]
    /\ handler \in [Handlers -> Handling]
    /\ raced \in BOOLEAN
    /\ crashes \in 0..MaxCrashes

SyncInit ==
    /\ row = NoRow
    /\ planTier = "free"
    /\ checkout = [a \in Admins |-> IdleCheckout]
    /\ begun = 0
    /\ made = {}
    /\ sessions = [c \in Customers |-> 0]
    /\ sub = [s \in Subscriptions |-> None]
    /\ events = <<>>
    /\ log = [n \in EventIds |-> "none"]
    /\ handler = [h \in Handlers |-> IdleHandler]
    /\ raced = FALSE
    /\ crashes = 0

-----------------------------------------------------------------------------
(* createCheckout and ensureCustomer *)

\* The guard of createCheckout: no live subscription on file.
CheckoutBegin(a) ==
    /\ begun < MaxCheckouts
    /\ begun' = begun + 1
    /\ checkout[a] = IdleCheckout
    /\ row.sub = None \/ row.status \notin Confirmed
    /\ checkout' = [checkout EXCEPT ![a].pc = "find"]
    /\ UNCHANGED <<database, made, sessions, atStripe, handler, raced, crashes>>

FindCustomer(a) ==
    /\ checkout[a].pc = "find"
    /\ checkout' = [checkout EXCEPT ![a] =
                        IF row.customer = None
                        THEN [pc |-> "create", customer |-> None]
                        ELSE [pc |-> "session", customer |-> row.customer]]
    /\ UNCHANGED <<database, begun, made, sessions, atStripe, handler, raced, crashes>>

\* customers.create: a new customer every time.
CreateCustomer(a) ==
    /\ checkout[a].pc = "create"
    /\ \E c \in Customers \ made :
          /\ made' = made \cup {c}
          /\ checkout' = [checkout EXCEPT ![a] = [pc |-> "insert", customer |-> c]]
    /\ UNCHANGED <<database, begun, sessions, atStripe, handler, raced, crashes>>

\* The first insert wins; the other admin's request goes on with the winner's customer.
InsertRow(a) ==
    /\ checkout[a].pc = "insert"
    /\ \/ /\ row.customer = None
          /\ row' = [NoRow EXCEPT !.customer = checkout[a].customer]
          /\ checkout' = [checkout EXCEPT ![a].pc = "session"]
       \/ /\ row.customer # None
          /\ checkout' = [checkout EXCEPT ![a] =
                 [pc |-> "session", customer |-> CustomerAfterConflict(@.customer, row.customer)]]
          /\ UNCHANGED row
    /\ UNCHANGED <<planTier, log, begun, made, sessions, atStripe, handler, raced, crashes>>

OpenSession(a) ==
    /\ checkout[a].pc = "session"
    /\ sessions' = [sessions EXCEPT ![checkout[a].customer] = @ + 1]
    /\ checkout' = [checkout EXCEPT ![a] = IdleCheckout]
    /\ UNCHANGED <<database, begun, made, atStripe, handler, raced, crashes>>

-----------------------------------------------------------------------------
(* Stripe *)

\* The life of a subscription at Stripe; a plan change in the portal keeps it active.
Moves == {<<"incomplete", "active">>, <<"incomplete", "incomplete_expired">>,
          <<"active", "active">>, <<"active", "past_due">>, <<"active", "canceled">>,
          <<"past_due", "active">>, <<"past_due", "unpaid">>, <<"past_due", "canceled">>,
          <<"unpaid", "active">>, <<"unpaid", "canceled">>}

\* Subscription s becomes new: one event is emitted.
Emit(s, new) ==
    /\ Len(events) < MaxEvents
    /\ sub' = [sub EXCEPT ![s] = new]
    /\ \E at \in 1..MaxEvents :
          /\ CASE events = <<>> -> at = 1
               [] events # <<>> /\ SameSecond -> at \in {Newest.at, Newest.at + 1}
               [] events # <<>> /\ ~SameSecond -> at = Newest.at + 1
          /\ events' = Append(events, [sub |-> s, customer |-> new.customer,
                                       status |-> new.status, price |-> new.price, at |-> at])
    /\ UNCHANGED <<database, checkout, begun, made, handler, raced, crashes>>

\* The customer completes an open session.
Subscribe(c) ==
    /\ sessions[c] > 0
    /\ sessions' = [sessions EXCEPT ![c] = @ - 1]
    /\ \E s \in Subscriptions, status \in {"incomplete", "active"}, price \in Prices :
          sub[s] = None /\ Emit(s, [customer |-> c, status |-> status, price |-> price])

ChangeSubscription(s) ==
    /\ sub[s] # None
    /\ \E status \in Statuses, price \in Prices :
          /\ <<sub[s].status, status>> \in Moves
          /\ (price # sub[s].price) <=> (<<sub[s].status, status>> = <<"active", "active">>)
          /\ Emit(s, [sub[s] EXCEPT !.status = status, !.price = price])
    /\ UNCHANGED sessions

-----------------------------------------------------------------------------
(* processEvent and applySubscription *)

\* The stripe_events row is created, or was there already.
Receive(h, n) ==
    /\ n <= Len(events)
    /\ handler[h] = IdleHandler
    /\ ~Duplicate(n)
    /\ log' = [log EXCEPT ![n] = "stored"]
    /\ handler' = [handler EXCEPT ![h] = [pc |-> "row", event |-> n, last |-> 0, tier |-> None]]
    /\ UNCHANGED <<row, planTier, checkouts, atStripe, raced, crashes>>

\* The row is found by customer; an older event and an unconfigured price are ignored.
ReadRow(h) ==
    LET e == events[handler[h].event]
        paid == PlanForPrice(e.price) IN
    /\ handler[h].pc = "row"
    /\ handler' = [handler EXCEPT ![h] =
           IF row.customer # e.customer \/ Older(e.at, row.last) \/ paid = None
           THEN [@ EXCEPT !.pc = "done"]
           ELSE [@ EXCEPT !.pc = "org", !.last = row.last]]
    /\ UNCHANGED <<database, checkouts, atStripe, raced, crashes>>

ReadOrg(h) ==
    LET e == events[handler[h].event] IN
    /\ handler[h].pc = "org"
    /\ handler' = [handler EXCEPT ![h].pc = "write",
                       ![h].tier = TierForStatus(e.status, PlanForPrice(e.price), planTier)]
    /\ UNCHANGED <<database, checkouts, atStripe, raced, crashes>>

\* One transaction writes the row and the organisation.
Write(h) ==
    LET e == events[handler[h].event]
        tier == handler[h].tier
        ended == tier = "free" /\ e.status \notin Confirmed IN
    /\ handler[h].pc = "write"
    /\ row' = [row EXCEPT !.sub = IF ended THEN None ELSE e.sub,
                          !.status = e.status, !.last = e.at]
    /\ planTier' = tier
    /\ raced' = (raced \/ row.last # handler[h].last)
    /\ handler' = [handler EXCEPT ![h].pc = "done"]
    /\ UNCHANGED <<log, checkouts, atStripe, crashes>>

\* processedAt is set and Stripe gets its 200.
Finish(h) ==
    /\ handler[h].pc = "done"
    /\ log' = [log EXCEPT ![handler[h].event] = "processed"]
    /\ handler' = [handler EXCEPT ![h] = IdleHandler]
    /\ UNCHANGED <<row, planTier, checkouts, atStripe, raced, crashes>>

\* The process dies or a query throws: Stripe will deliver the event again.
BreakOff(h) ==
    /\ crashes < MaxCrashes
    /\ handler[h] # IdleHandler
    /\ crashes' = crashes + 1
    /\ handler' = [handler EXCEPT ![h] = IdleHandler]
    /\ UNCHANGED <<database, checkouts, atStripe, raced>>

-----------------------------------------------------------------------------

Checkout(a) ==
    CheckoutBegin(a) \/ FindCustomer(a) \/ CreateCustomer(a) \/ InsertRow(a) \/ OpenSession(a)

Handle(h) == ReadRow(h) \/ ReadOrg(h) \/ Write(h) \/ Finish(h)

SyncNext ==
    \/ \E a \in Admins : Checkout(a)
    \/ \E c \in Customers : Subscribe(c)
    \/ \E s \in Subscriptions : ChangeSubscription(s)
    \/ \E h \in Handlers : Handle(h) \/ BreakOff(h) \/ \E n \in EventIds : Receive(h, n)

SyncSpec == SyncInit /\ [][SyncNext]_syncVars

\* Stripe repeats an event until it is answered, and a handler that began goes on.
SyncFairness ==
    /\ \A n \in EventIds : WF_syncVars(\E h \in Handlers : Receive(h, n))
    /\ \A h \in Handlers : WF_syncVars(Handle(h))

FairSyncSpec == SyncSpec /\ SyncFairness

-----------------------------------------------------------------------------
(* Properties *)

\* A paid plan was paid for: some event confirmed a subscription to that tier
\* ("An unconfirmed payment never grants a plan", docs/PRODUCTION.md).
PlanWasPaidFor ==
    planTier # "free" =>
        \E n \in 1..Len(events) :
            events[n].status \in Confirmed /\ PlanForPrice(events[n].price) = planTier

\* Two admins racing to upgrade end up on one customer: a session, and so every
\* subscription, belongs to the customer on file (ensureCustomer).
SessionsForTheCustomerOnFile ==
    /\ \A c \in Customers : sessions[c] > 0 => row.customer = c
    /\ \A s \in Subscriptions : sub[s] # None => sub[s].customer = row.customer

\* The plan was paid for, and by the customer on file.
PaidByTheCustomerOnFile == PlanWasPaidFor /\ SessionsForTheCustomerOnFile

\* The row and the plan show what event e says.
Shows(e) ==
    /\ row.status = e.status
    /\ row.sub = IF e.status \in Ended THEN None ELSE e.sub
    /\ planTier = TierForStatus(e.status, PlanForPrice(e.price), planTier)

AllProcessed == \A n \in 1..Len(events) : log[n] = "processed"
DistinctSeconds == \A m, n \in 1..Len(events) : events[m].at = events[n].at => m = n

\* Whatever the order, repetition and crashes of deliveries, once every event is
\* processed the plan is the one of the newest event, provided no two handlers
\* overlapped and no two events share a second (billing.service.ts:284).
NewestEventWins ==
    events # <<>> /\ AllProcessed /\ ~raced /\ DistinctSeconds
    /\ Newest.status # "incomplete" /\ PlanForPrice(Newest.price) # None
        => Shows(Newest)

\* Every event Stripe emits is processed in the end, in spite of crashes ("A row
\* without processedAt means the earlier attempt failed midway").
EventuallyProcessed ==
    \A n \in EventIds : (Len(events) >= n) ~> (log[n] = "processed")

\* "an older event arriving late never overwrites newer state"
\* (docs/PRODUCTION.md): the last event applied only moves forward.
OlderNeverOverwritesNewer == [][row'.last >= row.last]_row

\* "`active`, `trialing` and `past_due` keep the paid plan" (docs/PRODUCTION.md): while
\* the subscription on file is live at Stripe, no event about another one ends the plan.
LiveSubscriptionKeepsThePlan ==
    [][row.sub # None /\ sub[row.sub].status \in Confirmed
       /\ planTier # "free" /\ planTier' = "free"
           => \E h \in Handlers : handler[h].pc = "write"
                                 /\ events[handler[h].event].sub = row.sub]_planTier

=============================================================================
