---------------------------- MODULE UsageMetering ----------------------------
(***************************************************************************)
(* The monthly AI-reply allowance and the pay-per-use replies after it:    *)
(* entitlementsService.consumeAiReply, usageService.consume and            *)
(* overageService (apps/api/src/modules/billing).                          *)
(*                                                                         *)
(* A request reads the plan, takes one unit of the allowance, and when the *)
(* allowance is used up checks that pay-per-use is available and takes one *)
(* overage unit; it then flushes in the background.  A sweep retries the   *)
(* flush for this month and last.  Every await is a step boundary: other   *)
(* requests, sweeps, plan changes, the end of the month and a process      *)
(* crash may come in between.                                              *)
(***************************************************************************)
EXTENDS Integers, FiniteSets, FiniteSetsExt

CONSTANTS
    Orgs,           \* organisations
    Requests,       \* concurrent requests that need an AI reply
    Sweepers,       \* API replicas, each running one background sweep
    Tiers,          \* plan tiers
    OverageTiers,   \* tiers whose plan has an overage price
    Allowance,      \* Allowance[t]: plan.limits.aiRepliesPerMonth
    BatchSize,      \* MAX_EVENTS_PER_FLUSH
    SweepLimit,     \* LIMIT of the sweep's query
    MaxPeriod,      \* bound: months 1 .. MaxPeriod
    MaxUnits,       \* bound: replies handed out, all organisations and months together
    MaxFaults       \* bound: failed meter events and process deaths together

Periods == 1..MaxPeriod

ASSUME UsageAssumption ==
    /\ Requests \cap Sweepers = {}
    /\ OverageTiers \subseteq Tiers
    /\ Allowance \in [Tiers -> Nat \ {0}]
    /\ BatchSize \in Nat \ {0}
    /\ SweepLimit \in Nat \ {0}
    /\ MaxPeriod \in Nat \ {0}
    /\ MaxUnits \in Nat
    /\ MaxFaults \in Nat

Workers == Requests \cup Sweepers

VARIABLES
    period,     \* currentPeriod()
    tier,       \* organization.planTier
    subscription,  \* its row: overageEnabled, and whether it is paid and BILLABLE
    enabling,   \* setOverage(true) calls that have passed the availability check
    replies,    \* usage_counters, metric ai_replies
    overage,    \* usage_counters, metric ai_overage
    reported,   \* usage_counters, metric ai_overage_reported
    seen,       \* identifiers Stripe has accepted
    charges,    \* charges[o][p]: units of month p Stripe has added up
    req,        \* req[r]: the request in progress
    flush,      \* flush[w]: the flush worker w is running
    rows,       \* rows[s]: rows of the sweep s still to flush
    faults      \* faults so far

stripe == <<seen, charges>>
counters == <<replies, overage, reported>>
account == <<tier, subscription, enabling>>
vars == <<period, account, counters, stripe, req, flush, rows, faults>>

IdleRequest == [pc |-> "idle"]
IdleFlush == [pc |-> "idle"]

\* A monthly counter of one organisation, one unit more or set to n.
SetCount(counter, o, p, n) == [counter EXCEPT ![o][p] = n]
OneMore(counter, o, p) == SetCount(counter, o, p, counter[o][p] + 1)

Minimum(a, b) == IF a <= b THEN a ELSE b

-----------------------------------------------------------------------------
(* Helpers *)

\* The conditional upsert of usageService.consume: one statement checks and adds.
TakesUnit(count, cap) == count + 1 <= cap

\* The meter event's idempotency key.
IdentifierWithoutMonth(o, p, u) == <<o, u>>
Identifier(o, p, u) == <<o, p, u>>

\* GREATEST(count, sent): the high-water mark.
LastWriterWins(old, sent) == sent
HighWater(old, sent) == IF old >= sent THEN old ELSE sent

\* The last unit one flush may send.
FlushUptoBatch(counted, mark) == mark + BatchSize
FlushUpto(counted, mark) == Minimum(counted, mark + BatchSize)

\* Rows the sweep selects from: counted above reported, this month or last.
PendingThisMonth ==
    {x \in Orgs \X Periods : x[2] >= period /\ overage[x[1]][x[2]] > reported[x[1]][x[2]]}
Pending ==
    {x \in Orgs \X Periods :
        x[2] >= period - 1 /\ overage[x[1]][x[2]] > reported[x[1]][x[2]]}

\* overageService.availability for an org on tier t.
Available(o, t) == t \in OverageTiers /\ subscription[o].billable

\* Stripe's side of meterEvents.create: an identifier it knows adds nothing.
MeterAccepts(o, p, u) ==
    /\ seen' = seen \cup {Identifier(o, p, u)}
    /\ charges' = IF Identifier(o, p, u) \in seen
                  THEN charges
                  ELSE OneMore(charges, o, p)

-----------------------------------------------------------------------------
(* State *)

Request ==
    {IdleRequest} \cup
    [pc : {"consume", "check", "overage", "flush"}, org : Orgs, tier : Tiers]

Sending == [pc : {"send", "save"}, org : Orgs, period : Periods,
            mark : Nat, sent : Nat, upto : Nat]

Flush == {IdleFlush} \cup [pc : {"read"}, org : Orgs, period : Periods] \cup Sending

\* The type invariant.
TypeOK ==
    /\ period \in Periods
    /\ tier \in [Orgs -> Tiers]
    /\ subscription \in [Orgs -> [enabled : BOOLEAN, billable : BOOLEAN]]
    /\ enabling \in [Orgs -> BOOLEAN]
    /\ replies \in [Orgs -> [Periods -> Nat]]
    /\ overage \in [Orgs -> [Periods -> Nat]]
    /\ reported \in [Orgs -> [Periods -> Nat]]
    /\ seen \subseteq Orgs \X Periods \X Nat
    /\ charges \in [Orgs -> [Periods -> Nat]]
    /\ req \in [Requests -> Request]
    /\ flush \in [Workers -> Flush]
    /\ rows \in [Sweepers -> SUBSET (Orgs \X Periods)]
    /\ faults \in 0..MaxFaults

NoUnits == [o \in Orgs |-> [p \in Periods |-> 0]]

Init ==
    /\ period = 1
    /\ tier \in [Orgs -> Tiers]
    /\ subscription = [o \in Orgs |-> [enabled |-> FALSE, billable |-> TRUE]]
    /\ enabling = [o \in Orgs |-> FALSE]
    /\ replies = NoUnits
    /\ overage = NoUnits
    /\ reported = NoUnits
    /\ seen = {}
    /\ charges = NoUnits
    /\ req = [r \in Requests |-> IdleRequest]
    /\ flush = [w \in Workers |-> IdleFlush]
    /\ rows = [s \in Sweepers |-> {}]
    /\ faults = 0

-----------------------------------------------------------------------------
(* One AI reply: consumeAiReply *)

UnitsHandedOut ==
    MapThenSumSet(LAMBDA x : replies[x[1]][x[2]] + overage[x[1]][x[2]], Orgs \X Periods)

\* limitsFor: the plan is read once; a later plan change is not seen.
BeginReply(r, o) ==
    /\ UnitsHandedOut < MaxUnits
    /\ req[r] = IdleRequest
    /\ flush[r] = IdleFlush
    /\ req' = [req EXCEPT ![r] = [pc |-> "consume", org |-> o, tier |-> tier[o]]]
    /\ UNCHANGED <<period, account, counters, stripe, flush, rows, faults>>

\* consume(ai_replies): allowed, or on to pay-per-use.
ConsumeAllowance(r) ==
    LET o == req[r].org IN
    /\ req[r].pc = "consume"
    /\ \/ /\ TakesUnit(replies[o][period], Allowance[req[r].tier])
          /\ replies' = OneMore(replies, o, period)
          /\ req' = [req EXCEPT ![r] = IdleRequest]
       \/ /\ ~TakesUnit(replies[o][period], Allowance[req[r].tier])
          /\ req' = [req EXCEPT ![r].pc = "check"]
          /\ UNCHANGED replies
    /\ UNCHANGED <<period, account, overage, reported, stripe, flush, rows, faults>>

\* tryConsume: available and switched on, or the reply is refused.
CheckOverage(r) ==
    LET o == req[r].org IN
    /\ req[r].pc = "check"
    /\ req' = [req EXCEPT ![r] =
                   IF Available(o, @.tier) /\ subscription[o].enabled
                   THEN [@ EXCEPT !.pc = "overage"]
                   ELSE IdleRequest]
    /\ UNCHANGED <<period, account, counters, stripe, flush, rows, faults>>

\* consume(ai_overage), capped at one extra allowance.
ConsumeOverage(r) ==
    LET o == req[r].org IN
    /\ req[r].pc = "overage"
    /\ \/ /\ TakesUnit(overage[o][period], Allowance[req[r].tier])
          /\ overage' = OneMore(overage, o, period)
          /\ req' = [req EXCEPT ![r].pc = "flush"]
       \/ /\ ~TakesUnit(overage[o][period], Allowance[req[r].tier])
          /\ req' = [req EXCEPT ![r] = IdleRequest]
          /\ UNCHANGED overage
    /\ UNCHANGED <<period, account, replies, reported, stripe, flush, rows, faults>>

\* The reply goes ahead and its flush, which nobody awaits, starts for the month
\* it is now.  A request slot runs one flush at a time.
StartFlush(r) ==
    /\ req[r].pc = "flush"
    /\ flush' = [flush EXCEPT ![r] = [pc |-> "read", org |-> req[r].org, period |-> period]]
    /\ req' = [req EXCEPT ![r] = IdleRequest]
    /\ UNCHANGED <<period, account, counters, stripe, rows, faults>>

-----------------------------------------------------------------------------
(* overageService.flush *)

\* Both counters are read in one query.  The subscription row exists: a unit was
\* counted under it and it is never deleted.
FlushRead(w) ==
    LET o == flush[w].org
        p == flush[w].period
        mark == reported[o][p] IN
    /\ flush[w].pc = "read"
    /\ flush' = [flush EXCEPT ![w] =
                     IF overage[o][p] <= mark
                     THEN IdleFlush
                     ELSE [pc |-> "send", org |-> o, period |-> p,
                           mark |-> mark, sent |-> mark,
                           upto |-> FlushUpto(overage[o][p], mark)]]
    /\ UNCHANGED <<period, account, counters, stripe, req, rows, faults>>

\* The loop is over: the mark is saved when something was sent.
AfterLoop(f) == IF f.sent > f.mark THEN [f EXCEPT !.pc = "save"] ELSE IdleFlush

\* meterEvents.create returned: on to the next unit.
SendUnit(w) ==
    LET f == flush[w]
        g == [f EXCEPT !.sent = @ + 1] IN
    /\ f.pc = "send"
    /\ MeterAccepts(f.org, f.period, f.sent + 1)
    /\ flush' = [flush EXCEPT ![w] = IF g.sent = g.upto THEN AfterLoop(g) ELSE g]
    /\ UNCHANGED <<period, account, counters, req, rows, faults>>

\* meterEvents.create threw, before Stripe recorded the event or after: stop.
SendFails(w) ==
    LET f == flush[w] IN
    /\ f.pc = "send"
    /\ faults < MaxFaults
    /\ faults' = faults + 1
    /\ MeterAccepts(f.org, f.period, f.sent + 1) \/ UNCHANGED stripe
    /\ flush' = [flush EXCEPT ![w] = AfterLoop(f)]
    /\ UNCHANGED <<period, account, counters, req, rows>>

SaveReported(w) ==
    LET f == flush[w] IN
    /\ f.pc = "save"
    /\ reported' = SetCount(reported, f.org, f.period, HighWater(reported[f.org][f.period], f.sent))
    /\ flush' = [flush EXCEPT ![w] = IdleFlush]
    /\ UNCHANGED <<period, account, replies, overage, stripe, req, rows, faults>>

-----------------------------------------------------------------------------
(* The sweep: flushPending, on every replica *)

\* The query has a LIMIT and no ORDER BY: any rows up to the limit.
SweepBegin(s) ==
    /\ rows[s] = {}
    /\ flush[s] = IdleFlush
    /\ \E chosen \in SUBSET Pending :
          /\ Cardinality(chosen) = Minimum(SweepLimit, Cardinality(Pending))
          /\ chosen # {}
          /\ rows' = [rows EXCEPT ![s] = chosen]
    /\ UNCHANGED <<period, account, counters, stripe, req, flush, faults>>

SweepNext(s) ==
    /\ flush[s] = IdleFlush
    /\ \E x \in rows[s] :
          /\ rows' = [rows EXCEPT ![s] = @ \ {x}]
          /\ flush' = [flush EXCEPT ![s] = [pc |-> "read", org |-> x[1], period |-> x[2]]]
    /\ UNCHANGED <<period, account, counters, stripe, req, faults>>

-----------------------------------------------------------------------------
(* The rest of the world *)

NextMonth ==
    /\ period < MaxPeriod
    /\ period' = period + 1
    /\ UNCHANGED <<account, counters, stripe, req, flush, rows, faults>>

\* Stripe webhooks move the plan (SubscriptionSync models how).
ChangePlan(o, t) ==
    /\ tier' = [tier EXCEPT ![o] = t]
    /\ UNCHANGED <<period, subscription, enabling, counters, stripe, req, flush, rows, faults>>

ChangeStatus(o) ==
    /\ \E b \in BOOLEAN : subscription' = [subscription EXCEPT ![o].billable = b]
    /\ UNCHANGED <<period, tier, enabling, counters, stripe, req, flush, rows, faults>>

\* setOverage(true): the availability check, then the update.
CheckEnable(o) ==
    /\ Available(o, tier[o])
    /\ enabling' = [enabling EXCEPT ![o] = TRUE]
    /\ UNCHANGED <<period, tier, subscription, counters, stripe, req, flush, rows, faults>>

EnableOverage(o) ==
    /\ enabling[o]
    /\ enabling' = [enabling EXCEPT ![o] = FALSE]
    /\ subscription' = [subscription EXCEPT ![o].enabled = TRUE]
    /\ UNCHANGED <<period, tier, counters, stripe, req, flush, rows, faults>>

DisableOverage(o) ==
    /\ subscription' = [subscription EXCEPT ![o].enabled = FALSE]
    /\ UNCHANGED <<period, tier, enabling, counters, stripe, req, flush, rows, faults>>

\* The process running w dies: its request, flush or sweep is forgotten.
Crash(w) ==
    /\ faults < MaxFaults
    /\ \/ flush[w] # IdleFlush
       \/ w \in Requests /\ req[w] # IdleRequest
       \/ w \in Sweepers /\ rows[w] # {}
    /\ faults' = faults + 1
    /\ flush' = [flush EXCEPT ![w] = IdleFlush]
    /\ req' = [r \in Requests |-> IF r = w THEN IdleRequest ELSE req[r]]
    /\ rows' = [s \in Sweepers |-> IF s = w THEN {} ELSE rows[s]]
    /\ UNCHANGED <<period, account, counters, stripe>>

-----------------------------------------------------------------------------

Reply(r) ==
    \/ \E o \in Orgs : BeginReply(r, o)
    \/ ConsumeAllowance(r)
    \/ CheckOverage(r)
    \/ ConsumeOverage(r)
    \/ StartFlush(r)

FlushStep(w) == FlushRead(w) \/ SendUnit(w) \/ SendFails(w) \/ SaveReported(w)

SweepStep(s) == SweepBegin(s) \/ SweepNext(s)

Administration(o) ==
    \/ \E t \in Tiers : ChangePlan(o, t)
    \/ ChangeStatus(o)
    \/ CheckEnable(o)
    \/ EnableOverage(o)
    \/ DisableOverage(o)

Next ==
    \/ \E r \in Requests : Reply(r)
    \/ \E w \in Workers : FlushStep(w) \/ Crash(w)
    \/ \E s \in Sweepers : SweepStep(s)
    \/ \E o \in Orgs : Administration(o)
    \/ NextMonth

Spec == Init /\ [][Next]_vars

\* The sweep runs on a timer and its steps complete: setInterval calls tick again
\* whatever became of the last one, and outages and deaths are finitely many.
Fairness ==
    \A s \in Sweepers :
        /\ WF_vars(FlushRead(s))
        /\ WF_vars(SaveReported(s))
        /\ WF_vars(SendUnit(s))
        /\ WF_vars(SweepBegin(s))
        /\ WF_vars(SweepNext(s))

FairSpec == Spec /\ Fairness

-----------------------------------------------------------------------------
(* Properties *)

\* Every unit up to the reported mark has been added up by Stripe: no unit is
\* skipped by racing flushes, failed sends or crashes (overage.service.ts, flush).
ReportedWereBilled ==
    \A o \in Orgs, p \in Periods : reported[o][p] <= charges[o][p]

\* "High-water mark only ever moves forward, even when two flushes race."
MarkOnlyAdvances ==
    [][\A o \in Orgs, p \in Periods : reported'[o][p] >= reported[o][p]]_reported

\* Counting and billing behave as MeteredBilling: counted up to some plan's cap,
\* and Stripe bills each counted reply at most once, in spite of retries, double
\* flushes and crashes (overage.service.ts:18-20).
Billing == INSTANCE MeteredBilling WITH
    counted <- overage, billed <- charges, Caps <- {Allowance[t] : t \in Tiers}

BillsLikeMeteredBilling == Billing!Spec

\* A counted unit reaches Stripe before the sweep stops looking at its month
\* (flushPending: "this month and last").
CountedIsEventuallyBilled ==
    \A o \in Orgs, p \in Periods, t \in Tiers :
        \A u \in 1..Allowance[t] :
            (overage[o][p] >= u) ~> (charges[o][p] >= u \/ period > p + 1)

=============================================================================
