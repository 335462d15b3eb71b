---------------------------- MODULE Billing_proofs ----------------------------
(***************************************************************************)
(* Proofs about the two halves of billing: UsageMetering for any           *)
(* organisations, requests, sweeps, plans, batch size and number of months *)
(* and faults; and SubscriptionSync for any admins, webhook handlers,      *)
(* customers, subscriptions, prices, and number of events and crashes.     *)
(***************************************************************************)
EXTENDS UsageMetering, SubscriptionSync, TLAPS

-----------------------------------------------------------------------------
(* Usage metering: the inductive invariant *)

\* Stripe knows exactly the first charges[o][p] units of a month: units are sent
\* oldest first and a failed send ends the loop.
SeenIsPrefix ==
    \A o \in Orgs, p \in Periods, u \in Nat :
        <<o, p, u>> \in seen <=> u \in 1..charges[o][p]

\* What a running flush believes: everything up to `sent` has reached Stripe, and
\* it sends counted units only.
Sound(w) ==
    LET f == flush[w] IN
    f.pc \in {"send", "save"} =>
        /\ f.mark <= f.sent
        /\ f.sent <= charges[f.org][f.period]
        /\ f.pc = "send" => f.sent < f.upto /\ f.upto <= overage[f.org][f.period]

FlushSound == \A w \in Workers : Sound(w)

BilledWithinCounted ==
    \A o \in Orgs, p \in Periods : charges[o][p] <= overage[o][p]

MeterInv ==
    /\ TypeOK
    /\ SeenIsPrefix
    /\ FlushSound
    /\ ReportedWereBilled
    /\ BilledWithinCounted

-----------------------------------------------------------------------------
(* Usage metering: type correctness *)

\* A flush that is sending carries its month and its marks.
LEMMA SendingFields ==
    ASSUME NEW f \in Flush, f.pc \in {"send", "save"}
    PROVE  /\ f \in Sending
           /\ f.org \in Orgs
           /\ f.period \in Periods
           /\ f.mark \in Nat
           /\ f.sent \in Nat
           /\ f.upto \in Nat
  <1>1. f \in Sending
    BY DEF Flush, Sending, IdleFlush
  <1>2. QED
    BY <1>1 DEF Sending

\* A flush that is sending stays well typed when it moves on to the next unit or leaves the loop.
LEMMA SendingType ==
    ASSUME NEW f \in Flush, f.pc \in {"send", "save"}
    PROVE  /\ [f EXCEPT !.sent = @ + 1] \in Flush
           /\ AfterLoop(f) \in Flush
           /\ AfterLoop([f EXCEPT !.sent = @ + 1]) \in Flush
  <1>1. f \in Sending
    BY SendingFields
  <1>2. [f EXCEPT !.sent = @ + 1] \in Sending
    BY <1>1 DEF Sending
  <1>3. ASSUME NEW g \in Sending
        PROVE  AfterLoop(g) \in Flush
    <2>1. [g EXCEPT !.pc = "save"] \in Sending
      BY DEF Sending
    <2>2. QED
      BY <2>1 DEF AfterLoop, Flush
  <1>4. QED
    BY <1>1, <1>2, <1>3 DEF Sending, Flush

\* Writing one month's counter of one organisation leaves the others alone.
LEMMA CounterUpdate ==
    ASSUME NEW f \in [Orgs -> [Periods -> Nat]],
           NEW o \in Orgs, NEW p \in Periods, NEW n \in Nat
    PROVE  /\ SetCount(f, o, p, n) \in [Orgs -> [Periods -> Nat]]
           /\ SetCount(f, o, p, n)[o][p] = n
           /\ \A a \in Orgs, b \in Periods :
                ~(a = o /\ b = p) => SetCount(f, o, p, n)[a][b] = f[a][b]
  <1> DEFINE counts == [f[o] EXCEPT ![p] = n]
  <1>1. counts \in [Periods -> Nat] /\ counts[p] = n /\ \A b \in Periods : b # p => counts[b] = f[o][b]
    OBVIOUS
  <1>2. SetCount(f, o, p, n) = [f EXCEPT ![o] = counts]
    BY DEF SetCount
  <1> HIDE DEF counts
  <1>3. [f EXCEPT ![o] = counts] \in [Orgs -> [Periods -> Nat]]
    BY <1>1
  <1>4. QED
    BY <1>1, <1>2, <1>3

\* Adding one unit to a period's counter keeps counters natural numbers and changes no other.
LEMMA CounterIncrement ==
    ASSUME NEW f \in [Orgs -> [Periods -> Nat]], NEW o \in Orgs, NEW p \in Periods
    PROVE  /\ OneMore(f, o, p) \in [Orgs -> [Periods -> Nat]]
           /\ OneMore(f, o, p)[o][p] = f[o][p] + 1
           /\ \A a \in Orgs, b \in Periods :
                ~(a = o /\ b = p) => OneMore(f, o, p)[a][b] = f[a][b]
  <1>1. f[o][p] + 1 \in Nat
    OBVIOUS
  <1>2. QED
    BY <1>1, CounterUpdate DEF OneMore

\* Stripe's answer to one meter event keeps its state well typed.
LEMMA MeterType ==
    ASSUME TypeOK, NEW o \in Orgs, NEW p \in Periods, NEW u \in Nat,
           MeterAccepts(o, p, u)
    PROVE  /\ seen' \subseteq Orgs \X Periods \X Nat
           /\ charges' \in [Orgs -> [Periods -> Nat]]
  <1>1. seen' \subseteq Orgs \X Periods \X Nat
    BY DEF MeterAccepts, Identifier, TypeOK
  <1>2. OneMore(charges, o, p) \in [Orgs -> [Periods -> Nat]]
    BY CounterIncrement DEF TypeOK
  <1>3. charges' = OneMore(charges, o, p) \/ charges' = charges
    BY DEF MeterAccepts
  <1>4. QED
    BY <1>1, <1>2, <1>3 DEF TypeOK

\* The initial state is well typed.
LEMMA InitTypeOK == Init => TypeOK
  BY UsageAssumption DEF Init, TypeOK, NoUnits, Periods, Request, Flush, IdleRequest, IdleFlush

\* Every action keeps the types.
LEMMA NextTypeOK == TypeOK /\ [Next]_vars => TypeOK'
  <1> SUFFICES ASSUME TypeOK, [Next]_vars PROVE TypeOK'
    OBVIOUS
  <1> USE UsageAssumption DEF TypeOK, account, counters, stripe, Workers
  <1>1. ASSUME NEW r \in Requests, Reply(r) PROVE TypeOK'
    <2>1. ASSUME NEW o \in Orgs, BeginReply(r, o) PROVE TypeOK'
      BY <2>1 DEF BeginReply, Request
    <2>2. CASE ConsumeAllowance(r)
      <3>1. req[r] \in [pc : {"consume", "check", "overage", "flush"}, org : Orgs, tier : Tiers]
        BY <2>2 DEF ConsumeAllowance, Request, IdleRequest
      <3>2. [req[r] EXCEPT !.pc = "check"] \in Request
        BY <3>1 DEF Request
      <3>3. req' \in [Requests -> Request]
        BY <2>2, <3>2 DEF ConsumeAllowance, Request
      <3>4. replies' \in [Orgs -> [Periods -> Nat]]
        <4>1. req[r].org \in Orgs
          BY <3>1
        <4>2. OneMore(replies, req[r].org, period) \in [Orgs -> [Periods -> Nat]]
          BY <4>1, CounterIncrement
        <4>3. replies' = OneMore(replies, req[r].org, period) \/ replies' = replies
          BY <2>2 DEF ConsumeAllowance
        <4>4. QED
          BY <4>2, <4>3
      <3>5. QED
        BY <2>2, <3>3, <3>4 DEF ConsumeAllowance
    <2>3. CASE CheckOverage(r)
      <3>1. req[r] \in [pc : {"consume", "check", "overage", "flush"}, org : Orgs, tier : Tiers]
        BY <2>3 DEF CheckOverage, Request, IdleRequest
      <3>2. [req[r] EXCEPT !.pc = "overage"] \in Request
        BY <3>1 DEF Request
      <3>3. req' \in [Requests -> Request]
        BY <2>3, <3>2 DEF CheckOverage, Request
      <3>4. QED
        BY <2>3, <3>3 DEF CheckOverage
    <2>4. CASE ConsumeOverage(r)
      <3>1. req[r] \in [pc : {"consume", "check", "overage", "flush"}, org : Orgs, tier : Tiers]
        BY <2>4 DEF ConsumeOverage, Request, IdleRequest
      <3>2. [req[r] EXCEPT !.pc = "flush"] \in Request
        BY <3>1 DEF Request
      <3>3. req' \in [Requests -> Request]
        BY <2>4, <3>2 DEF ConsumeOverage, Request
      <3>4. overage' \in [Orgs -> [Periods -> Nat]]
        <4>1. req[r].org \in Orgs
          BY <3>1
        <4>2. OneMore(overage, req[r].org, period) \in [Orgs -> [Periods -> Nat]]
          BY <4>1, CounterIncrement
        <4>3. overage' = OneMore(overage, req[r].org, period) \/ overage' = overage
          BY <2>4 DEF ConsumeOverage
        <4>4. QED
          BY <4>2, <4>3
      <3>5. QED
        BY <2>4, <3>3, <3>4 DEF ConsumeOverage
    <2>5. CASE StartFlush(r)
      <3>1. req[r].org \in Orgs
        BY <2>5 DEF StartFlush, Request, IdleRequest
      <3>2. [pc |-> "read", org |-> req[r].org, period |-> period] \in Flush
        BY <3>1 DEF Flush
      <3>3. QED
        BY <2>5, <3>2 DEF StartFlush, Request
    <2>6. QED
      BY <1>1, <2>1, <2>2, <2>3, <2>4, <2>5 DEF Reply
  <1>2. ASSUME NEW w \in Workers, FlushStep(w) PROVE TypeOK'
    <2>1. CASE FlushRead(w)
      <3> DEFINE o == flush[w].org  p == flush[w].period
      <3>1. o \in Orgs /\ p \in Periods
        BY <2>1 DEF FlushRead, Flush, Sending, IdleFlush
      <3>2. reported[o][p] \in Nat /\ overage[o][p] \in Nat
        BY <3>1
      <3>3. FlushUpto(overage[o][p], reported[o][p]) \in Nat
        BY <3>2 DEF FlushUpto, Minimum
      <3>4. flush' \in [Workers -> Flush]
        BY <2>1, <3>1, <3>2, <3>3 DEF FlushRead, Flush, Sending
      <3>5. QED
        BY <2>1, <3>4 DEF FlushRead
    <2>2. CASE SendUnit(w)
      <3>1. flush' \in [Workers -> Flush]
        BY <2>2, SendingType DEF SendUnit
      <3>2. seen' \subseteq Orgs \X Periods \X Nat /\ charges' \in [Orgs -> [Periods -> Nat]]
        <4>1. MeterAccepts(flush[w].org, flush[w].period, flush[w].sent + 1)
          BY <2>2 DEF SendUnit
        <4>2. flush[w].org \in Orgs /\ flush[w].period \in Periods /\ flush[w].sent + 1 \in Nat
          BY <2>2, SendingFields DEF SendUnit
        <4>3. QED
          BY <4>1, <4>2, MeterType
      <3>3. QED
        BY <2>2, <3>1, <3>2 DEF SendUnit
    <2>3. CASE SendFails(w)
      <3>1. flush' \in [Workers -> Flush]
        BY <2>3, SendingType DEF SendFails
      <3>2. seen' \subseteq Orgs \X Periods \X Nat /\ charges' \in [Orgs -> [Periods -> Nat]]
        <4>1. MeterAccepts(flush[w].org, flush[w].period, flush[w].sent + 1) \/ UNCHANGED stripe
          BY <2>3 DEF SendFails
        <4>2. flush[w].org \in Orgs /\ flush[w].period \in Periods /\ flush[w].sent + 1 \in Nat
          BY <2>3, SendingFields DEF SendFails
        <4>3. QED
          BY <4>1, <4>2, MeterType
      <3>3. QED
        BY <2>3, <3>1, <3>2 DEF SendFails
    <2>4. CASE SaveReported(w)
      <3>1. reported' \in [Orgs -> [Periods -> Nat]]
        <4> DEFINE o == flush[w].org  p == flush[w].period
        <4>1. o \in Orgs /\ p \in Periods /\ flush[w].sent \in Nat
          BY <2>4, SendingFields DEF SaveReported
        <4>2. HighWater(reported[o][p], flush[w].sent) \in Nat
          BY <4>1 DEF HighWater
        <4>3. reported' = SetCount(reported, o, p, HighWater(reported[o][p], flush[w].sent))
          BY <2>4 DEF SaveReported
        <4> HIDE DEF o, p
        <4>4. QED
          BY <4>1, <4>2, <4>3, CounterUpdate
      <3>2. QED
        BY <2>4, <3>1 DEF SaveReported, Flush
    <2>5. QED
      BY <1>2, <2>1, <2>2, <2>3, <2>4 DEF FlushStep
  <1>3. ASSUME NEW w \in Workers, Crash(w) PROVE TypeOK'
    BY <1>3 DEF Crash, Request, Flush
  <1>4. ASSUME NEW s \in Sweepers, SweepStep(s) PROVE TypeOK'
    <2>1. CASE SweepBegin(s)
      BY <2>1 DEF SweepBegin, Pending
    <2>2. CASE SweepNext(s)
      BY <2>2 DEF SweepNext, Flush
    <2>3. QED
      BY <1>4, <2>1, <2>2 DEF SweepStep
  <1>5. ASSUME NEW o \in Orgs, Administration(o) PROVE TypeOK'
    <2>1. ASSUME NEW t \in Tiers, ChangePlan(o, t) PROVE TypeOK'
      BY <2>1 DEF ChangePlan
    <2>3. CASE ChangeStatus(o)
      <3>1. PICK b \in BOOLEAN : subscription' = [subscription EXCEPT ![o].billable = b]
        BY <2>3 DEF ChangeStatus
      <3>2. subscription' \in [Orgs -> [enabled : BOOLEAN, billable : BOOLEAN]]
        BY <3>1, ZenonT(60)
      <3>3. QED
        BY <2>3, <3>2 DEF ChangeStatus
    <2>4. CASE CheckEnable(o)
      BY <2>4 DEF CheckEnable
    <2>5. CASE EnableOverage(o)
      BY <2>5, ZenonT(60) DEF EnableOverage
    <2>6. CASE DisableOverage(o)
      BY <2>6 DEF DisableOverage
    <2>7. QED
      BY <1>5, <2>1, <2>3, <2>4, <2>5, <2>6 DEF Administration
  <1>6. CASE NextMonth
    <2>1. period' \in Periods
      BY <1>6 DEF NextMonth, Periods
    <2>2. QED
      BY <1>6, <2>1 DEF NextMonth
  <1>7. CASE UNCHANGED vars
    BY <1>7 DEF vars
  <1>8. QED
    BY <1>1, <1>2, <1>3, <1>4, <1>5, <1>6, <1>7 DEF Next

\* Every reachable state is well typed.
THEOREM TypeCorrect == Spec => []TypeOK
  BY InitTypeOK, NextTypeOK, PTL DEF Spec

-----------------------------------------------------------------------------
(* Usage metering: the marks *)

\* The initial state satisfies the invariant of the meter.
LEMMA InitMeterInv == Init => MeterInv
  <1> SUFFICES ASSUME Init PROVE MeterInv
    OBVIOUS
  <1>1. TypeOK
    BY InitTypeOK
  <1>2. SeenIsPrefix
    BY DEF Init, SeenIsPrefix, NoUnits
  <1>3. FlushSound
    BY DEF Init, FlushSound, Sound, IdleFlush
  <1>4. ReportedWereBilled /\ BilledWithinCounted
    BY DEF Init, ReportedWereBilled, BilledWithinCounted, NoUnits
  <1>5. QED
    BY <1>1, <1>2, <1>3, <1>4 DEF MeterInv

\* One meter event for the next unit of a sound flush: Stripe's prefix grows by that
\* unit or stays, and it never passes the counted units.
LEMMA MeterStep ==
    ASSUME MeterInv, NEW w \in Workers, flush[w].pc = "send",
           MeterAccepts(flush[w].org, flush[w].period, flush[w].sent + 1)
    PROVE  /\ SeenIsPrefix'
           /\ \A o \in Orgs, p \in Periods :
                /\ charges[o][p] <= charges'[o][p]
                /\ charges'[o][p] <= overage[o][p]
           /\ flush[w].sent + 1 <= charges'[flush[w].org][flush[w].period]
  <1> DEFINE o == flush[w].org  p == flush[w].period  u == flush[w].sent + 1
  <1>1. TypeOK
    BY DEF MeterInv
  <1>2. /\ o \in Orgs /\ p \in Periods /\ u \in Nat \ {0} /\ flush[w].sent \in Nat
        /\ flush[w].upto \in Nat
    BY <1>1, SendingFields DEF TypeOK
  <1>3. u <= charges[o][p] + 1 /\ u <= overage[o][p]
    BY <1>1, <1>2 DEF MeterInv, FlushSound, Sound, TypeOK
  <1>4. charges[o][p] \in Nat /\ overage[o][p] \in Nat
    BY <1>1, <1>2 DEF TypeOK
  <1>5. seen' = seen \cup {<<o, p, u>>}
    BY DEF MeterAccepts, Identifier
  <1>6. <<o, p, u>> \in seen <=> u \in 1..charges[o][p]
    BY <1>2 DEF MeterInv, SeenIsPrefix
  <1> HIDE DEF o, p, u
  <1>7. CASE <<o, p, u>> \in seen
    <2>1. UNCHANGED <<seen, charges>>
      BY <1>5, <1>7 DEF MeterAccepts, Identifier, o, p, u
    <2>2. u <= charges[o][p]
      BY <1>2, <1>4, <1>6, <1>7
    <2>3. \A a \in Orgs, b \in Periods : charges[a][b] \in Nat /\ charges[a][b] <= overage[a][b]
      BY <1>1 DEF MeterInv, BilledWithinCounted, TypeOK
    <2>4. QED
      BY <2>1, <2>2, <2>3 DEF MeterInv, SeenIsPrefix, o, p, u
  <1>8. CASE <<o, p, u>> \notin seen
    <2>1. u = charges[o][p] + 1
      BY <1>2, <1>3, <1>4, <1>6, <1>8
    <2>2. charges' = OneMore(charges, o, p)
      BY <1>8 DEF MeterAccepts, Identifier, o, p, u
    <2>3. \A a \in Orgs, b \in Periods :
              /\ charges'[o][p] = charges[o][p] + 1
              /\ ~(a = o /\ b = p) => charges'[a][b] = charges[a][b]
      <3>1. charges \in [Orgs -> [Periods -> Nat]]
        BY <1>1 DEF TypeOK
      <3>2. QED
        BY <1>2, <2>2, <3>1, CounterIncrement
    <2>4. \A a \in Orgs, b \in Periods :
              charges[a][b] \in Nat /\ overage[a][b] \in Nat /\ charges[a][b] <= overage[a][b]
      BY <1>1 DEF MeterInv, BilledWithinCounted, TypeOK
    <2>5. ASSUME NEW a \in Orgs, NEW b \in Periods, NEW v \in Nat
          PROVE  <<a, b, v>> \in seen' <=> v \in 1..charges'[a][b]
      <3>1. <<a, b, v>> \in seen <=> v \in 1..charges[a][b]
        BY DEF MeterInv, SeenIsPrefix
      <3>2. CASE a = o /\ b = p
        BY <1>2, <1>4, <1>5, <2>1, <2>3, <3>1, <3>2
      <3>3. CASE ~(a = o /\ b = p)
        BY <1>5, <2>3, <3>1, <3>3
      <3>4. QED
        BY <3>2, <3>3
    <2>6. SeenIsPrefix'
      BY <2>5 DEF SeenIsPrefix
    <2>7. ASSUME NEW a \in Orgs, NEW b \in Periods
          PROVE  charges[a][b] <= charges'[a][b] /\ charges'[a][b] <= overage[a][b]
      BY <1>2, <1>3, <2>1, <2>3, <2>4
    <2>8. u <= charges'[o][p]
      BY <1>2, <1>4, <2>1, <2>3
    <2>9. QED
      BY <2>6, <2>7, <2>8 DEF o, p, u
  <1>9. QED
    BY <1>7, <1>8

\* A flush that a step does not touch stays sound while the meter and the counted
\* units only grow.
LEMMA SoundIsStable ==
    ASSUME NEW w \in Workers, Sound(w), TypeOK, TypeOK', flush'[w] = flush[w],
           \A o \in Orgs, p \in Periods :
               charges[o][p] <= charges'[o][p] /\ overage[o][p] <= overage'[o][p]
    PROVE  Sound(w)'
  <1> DEFINE f == flush[w]
  <1> SUFFICES ASSUME f.pc \in {"send", "save"} PROVE Sound(w)'
    BY DEF Sound
  <1>1. f.org \in Orgs /\ f.period \in Periods /\ f.mark \in Nat /\ f.sent \in Nat /\ f.upto \in Nat
    BY SendingFields DEF TypeOK
  <1>2. /\ charges[f.org][f.period] \in Nat /\ overage[f.org][f.period] \in Nat
        /\ charges'[f.org][f.period] \in Nat /\ overage'[f.org][f.period] \in Nat
    BY <1>1 DEF TypeOK
  <1>3. QED
    BY <1>1, <1>2 DEF Sound

\* A step that leaves Stripe and the marks alone, lets the counted units only grow, and
\* leaves every flush as it was, ends it or starts it.
LEMMA QuietStep ==
    ASSUME MeterInv, TypeOK', UNCHANGED <<seen, charges, reported>>,
           \A o \in Orgs, p \in Periods : overage[o][p] <= overage'[o][p],
           \A w \in Workers : flush'[w] = flush[w] \/ flush'[w].pc \in {"idle", "read"}
    PROVE  MeterInv'
  <1>1. TypeOK
    BY DEF MeterInv
  <1>2. \A o \in Orgs, p \in Periods : charges[o][p] <= charges'[o][p]
    BY <1>1 DEF TypeOK
  <1>3. ASSUME NEW w \in Workers PROVE Sound(w)'
    <2>1. CASE flush'[w] = flush[w]
      BY <1>1, <1>2, <2>1, SoundIsStable DEF MeterInv, FlushSound
    <2>2. CASE flush'[w].pc \in {"idle", "read"}
      BY <2>2 DEF Sound
    <2>3. QED
      BY <2>1, <2>2
  <1>4. SeenIsPrefix' /\ ReportedWereBilled'
    BY DEF MeterInv, SeenIsPrefix, ReportedWereBilled
  <1>5. BilledWithinCounted'
    <2> SUFFICES ASSUME NEW o \in Orgs, NEW p \in Periods
                 PROVE  charges[o][p] <= overage'[o][p]
      BY DEF BilledWithinCounted
    <2>1. charges[o][p] \in Nat /\ overage[o][p] \in Nat /\ overage'[o][p] \in Nat
      BY <1>1 DEF TypeOK
    <2>2. QED
      BY <2>1 DEF MeterInv, BilledWithinCounted
  <1>6. FlushSound'
    BY <1>3 DEF FlushSound, Workers
  <1>7. QED
    BY <1>4, <1>5, <1>6 DEF MeterInv

\* The loop's end: what an AfterLoop record claims was already claimed.
LEMMA AfterLoopSound ==
    ASSUME NEW w \in Workers, NEW g \in Sending, TypeOK', flush'[w] = AfterLoop(g),
           g.mark <= g.sent, g.sent <= charges'[g.org][g.period]
    PROVE  Sound(w)'
  <1>1. CASE g.sent > g.mark
    <2>1. flush'[w] = [g EXCEPT !.pc = "save"]
      BY <1>1 DEF AfterLoop
    <2>2. /\ flush'[w].pc = "save" /\ flush'[w].org = g.org /\ flush'[w].period = g.period
          /\ flush'[w].mark = g.mark /\ flush'[w].sent = g.sent
      BY <2>1 DEF Sending
    <2>3. QED
      BY <2>2 DEF Sound
  <1>2. CASE ~(g.sent > g.mark)
    BY <1>2 DEF AfterLoop, IdleFlush, Sound
  <1>3. QED
    BY <1>1, <1>2

\* Every step keeps the invariant.
LEMMA NextMeterInv == MeterInv /\ [Next]_vars => MeterInv'
  <1> SUFFICES ASSUME MeterInv, [Next]_vars PROVE MeterInv'
    OBVIOUS
  <1>1. TypeOK /\ TypeOK'
    BY NextTypeOK DEF MeterInv
  <1>2. ASSUME UNCHANGED <<seen, charges, reported, overage, flush>> PROVE MeterInv'
    <2>1. \A o \in Orgs, p \in Periods : overage[o][p] <= overage'[o][p]
      BY <1>1, <1>2 DEF TypeOK
    <2>2. \A w \in Workers : flush'[w] = flush[w]
      BY <1>2
    <2>3. QED
      BY <1>1, <1>2, <2>1, <2>2, QuietStep
  <1>3. ASSUME UNCHANGED <<seen, charges, reported, overage>>,
               \A w \in Workers : flush'[w] = flush[w] \/ flush'[w].pc \in {"idle", "read"}
        PROVE  MeterInv'
    <2>1. \A o \in Orgs, p \in Periods : overage[o][p] <= overage'[o][p]
      BY <1>1, <1>3 DEF TypeOK
    <2>2. QED
      BY <1>1, <1>3, <2>1, QuietStep
  <1>4. ASSUME NEW r \in Requests, Reply(r) PROVE MeterInv'
    <2>1. ASSUME NEW o \in Orgs, BeginReply(r, o) PROVE MeterInv'
      BY <1>2, <2>1 DEF BeginReply, counters, stripe
    <2>2. CASE ConsumeAllowance(r)
      BY <1>2, <2>2 DEF ConsumeAllowance, stripe
    <2>3. CASE CheckOverage(r)
      BY <1>2, <2>3 DEF CheckOverage, counters, stripe
    <2>4. CASE ConsumeOverage(r)
      <3> DEFINE o == req[r].org
      <3>1. o \in Orgs /\ period \in Periods
        BY <1>1, <2>4 DEF ConsumeOverage, TypeOK, Request, IdleRequest
      <3>2. overage \in [Orgs -> [Periods -> Nat]]
        BY <1>1 DEF TypeOK
      <3>3. overage' = OneMore(overage, o, period) \/ overage' = overage
        BY <2>4 DEF ConsumeOverage
      <3> HIDE DEF o
      <3>4. \A a \in Orgs, b \in Periods : overage[a][b] <= overage'[a][b]
        <4>1. CASE overage' = overage
          BY <3>2, <4>1
        <4>2. CASE overage' = OneMore(overage, o, period)
          <5>1. \A a \in Orgs, b \in Periods :
                    /\ overage'[o][period] = overage[o][period] + 1
                    /\ ~(a = o /\ b = period) => overage'[a][b] = overage[a][b]
            BY <3>1, <3>2, <4>2, CounterIncrement
          <5>2. QED
            BY <3>2, <5>1
        <4>3. QED
          BY <3>3, <4>1, <4>2
      <3>5. UNCHANGED <<seen, charges, reported, flush>>
        BY <2>4 DEF ConsumeOverage, stripe
      <3>6. \A w \in Workers : flush'[w] = flush[w]
        BY <3>5
      <3>7. QED
        BY <1>1, <3>4, <3>5, <3>6, QuietStep
    <2>5. CASE StartFlush(r)
      <3>1. \A w \in Workers : flush'[w] = flush[w] \/ flush'[w].pc \in {"idle", "read"}
        BY <1>1, <2>5 DEF StartFlush, TypeOK
      <3>2. QED
        BY <1>3, <2>5, <3>1 DEF StartFlush, counters, stripe
    <2>6. QED
      BY <1>4, <2>1, <2>2, <2>3, <2>4, <2>5 DEF Reply
  <1>5. ASSUME NEW w \in Workers, FlushStep(w) PROVE MeterInv'
    <2> DEFINE f == flush[w]  o == flush[w].org  p == flush[w].period
    <2>1. CASE FlushRead(w)
      <3>1. UNCHANGED <<seen, charges, reported, overage>>
        BY <2>1 DEF FlushRead, stripe, counters
      <3>2. \A v \in Workers \ {w} : flush'[v] = flush[v]
        BY <1>1, <2>1 DEF FlushRead, TypeOK
      <3>3. CASE overage[o][p] <= reported[o][p]
        <4>1. flush'[w] = IdleFlush
          BY <1>1, <2>1, <3>3 DEF FlushRead, TypeOK
        <4>2. QED
          BY <1>3, <3>1, <3>2, <4>1 DEF IdleFlush
      <3>4. CASE ~(overage[o][p] <= reported[o][p])
        <4>1. flush'[w] = [pc |-> "send", org |-> o, period |-> p,
                           mark |-> reported[o][p], sent |-> reported[o][p],
                           upto |-> FlushUpto(overage[o][p], reported[o][p])]
          BY <1>1, <2>1, <3>4 DEF FlushRead, TypeOK
        <4>2. o \in Orgs /\ p \in Periods
          <5>1. flush[w] \in Flush /\ flush[w].pc = "read"
            BY <1>1, <2>1 DEF FlushRead, TypeOK
          <5>2. flush[w] # IdleFlush /\ flush[w] \notin Sending
            BY <5>1 DEF IdleFlush, Sending
          <5>3. flush[w] \in [pc : {"read"}, org : Orgs, period : Periods]
            BY <5>1, <5>2 DEF Flush
          <5>4. QED
            BY <5>3
        <4>3. /\ reported[o][p] \in Nat /\ overage[o][p] \in Nat /\ charges[o][p] \in Nat
              /\ reported[o][p] <= charges[o][p]
          BY <1>1, <4>2 DEF TypeOK, MeterInv, ReportedWereBilled
        <4>4. /\ FlushUpto(overage[o][p], reported[o][p]) <= overage[o][p]
              /\ reported[o][p] < FlushUpto(overage[o][p], reported[o][p])
          BY <3>4, <4>3, UsageAssumption DEF FlushUpto, Minimum
        <4> HIDE DEF o, p
        <4>5. Sound(w)'
          BY <3>1, <4>1, <4>3, <4>4 DEF Sound
        <4>6. \A a \in Orgs, b \in Periods :
                  charges[a][b] <= charges'[a][b] /\ overage[a][b] <= overage'[a][b]
          BY <1>1, <3>1 DEF TypeOK
        <4>7. \A v \in Workers : Sound(v)'
          BY <1>1, <3>2, <4>5, <4>6, SoundIsStable DEF MeterInv, FlushSound
        <4>8. FlushSound'
          BY <4>7 DEF FlushSound, Workers
        <4>9. SeenIsPrefix' /\ ReportedWereBilled' /\ BilledWithinCounted'
          BY <3>1 DEF MeterInv, SeenIsPrefix, ReportedWereBilled, BilledWithinCounted
        <4>10. QED
          BY <1>1, <4>8, <4>9 DEF MeterInv
      <3>5. QED
        BY <3>3, <3>4
    <2>2. CASE SendUnit(w) \/ SendFails(w)
      <3>1. f.pc = "send" /\ f \in Flush
        BY <1>1, <2>2 DEF SendUnit, SendFails, TypeOK
      <3>2. /\ o \in Orgs /\ p \in Periods /\ f.mark \in Nat /\ f.sent \in Nat /\ f.upto \in Nat
            /\ f \in Sending
        BY <3>1, SendingFields
      <3>3. UNCHANGED <<reported, overage>>
        BY <2>2 DEF SendUnit, SendFails, counters
      <3>4. \A v \in Workers \ {w} : flush'[v] = flush[v]
        BY <1>1, <2>2 DEF SendUnit, SendFails, TypeOK
      <3>5. /\ f.mark <= f.sent /\ f.sent <= charges[o][p] /\ f.sent < f.upto
            /\ f.upto <= overage[o][p]
        BY <3>1 DEF MeterInv, FlushSound, Sound
      <3>6. /\ SeenIsPrefix'
            /\ \A a \in Orgs, b \in Periods :
                  charges[a][b] <= charges'[a][b] /\ charges'[a][b] <= overage[a][b]
        <4>1. CASE MeterAccepts(o, p, f.sent + 1)
          BY <3>1, <4>1, MeterStep
        <4>2. CASE UNCHANGED stripe
          BY <1>1, <4>2 DEF MeterInv, SeenIsPrefix, BilledWithinCounted, TypeOK, stripe
        <4>3. QED
          BY <2>2, <4>1, <4>2 DEF SendUnit, SendFails
      <3>7. charges[o][p] \in Nat /\ charges'[o][p] \in Nat /\ overage[o][p] \in Nat
        BY <1>1, <3>2 DEF TypeOK
      <3>8. Sound(w)'
        <4>1. CASE SendFails(w)
          <5>1. flush'[w] = AfterLoop(f)
            BY <1>1, <4>1 DEF SendFails, TypeOK
          <5>2. f.sent <= charges'[o][p]
            BY <3>2, <3>5, <3>6, <3>7
          <5>3. QED
            BY <1>1, <3>2, <3>5, <5>1, <5>2, AfterLoopSound
        <4>2. CASE SendUnit(w)
          <5> DEFINE g == [f EXCEPT !.sent = @ + 1]
          <5>1. /\ g \in Sending /\ g.pc = "send" /\ g.org = o /\ g.period = p
                /\ g.mark = f.mark /\ g.sent = f.sent + 1 /\ g.upto = f.upto
            BY <3>1, <3>2 DEF Sending
          <5>2. g.sent <= charges'[o][p]
            BY <3>1, <4>2, <5>1, MeterStep DEF SendUnit
          <5>3. flush'[w] = IF g.sent = g.upto THEN AfterLoop(g) ELSE g
            BY <1>1, <4>2 DEF SendUnit, TypeOK
          <5> HIDE DEF g
          <5>4. CASE g.sent = g.upto
            <6>1. g.mark <= g.sent
              BY <3>2, <3>5, <5>1
            <6>2. QED
              BY <1>1, <5>1, <5>2, <5>3, <5>4, <6>1, AfterLoopSound
          <5>5. CASE g.sent # g.upto
            <6>1. g.mark <= g.sent /\ g.sent < g.upto
              BY <3>2, <3>5, <5>1, <5>5
            <6>2. flush'[w] = g
              BY <5>3, <5>5
            <6>3. g.upto <= overage'[o][p]
              BY <3>3, <3>5, <5>1
            <6>4. QED
              BY <5>1, <5>2, <6>1, <6>2, <6>3 DEF Sound
          <5>6. QED
            BY <5>4, <5>5
        <4>3. QED
          BY <2>2, <4>1, <4>2
      <3>9. \A a \in Orgs, b \in Periods :
                charges[a][b] <= charges'[a][b] /\ overage[a][b] <= overage'[a][b]
        BY <1>1, <3>3, <3>6 DEF TypeOK
      <3>10. \A v \in Workers : Sound(v)'
        BY <1>1, <3>4, <3>8, <3>9, SoundIsStable DEF MeterInv, FlushSound
      <3>11. FlushSound'
        BY <3>10 DEF FlushSound, Workers
      <3>12. BilledWithinCounted'
        BY <3>3, <3>6 DEF BilledWithinCounted
      <3>13. ReportedWereBilled'
        <4> SUFFICES ASSUME NEW a \in Orgs, NEW b \in Periods
                     PROVE  reported[a][b] <= charges'[a][b]
          BY <3>3 DEF ReportedWereBilled
        <4>1. reported[a][b] <= charges[a][b]
          BY DEF MeterInv, ReportedWereBilled
        <4>2. reported[a][b] \in Nat /\ charges[a][b] \in Nat /\ charges'[a][b] \in Nat
          BY <1>1 DEF TypeOK
        <4>3. QED
          BY <3>6, <4>1, <4>2
      <3>14. QED
        BY <1>1, <3>6, <3>11, <3>12, <3>13 DEF MeterInv
    <2>3. CASE SaveReported(w)
      <3>1. f.pc = "save" /\ f \in Flush
        BY <1>1, <2>3 DEF SaveReported, TypeOK
      <3>2. o \in Orgs /\ p \in Periods /\ f.sent \in Nat
        BY <3>1, SendingFields
      <3>3. f.sent <= charges[o][p]
        BY <3>1 DEF MeterInv, FlushSound, Sound
      <3>4. UNCHANGED <<seen, charges, overage>>
        BY <2>3 DEF SaveReported, stripe
      <3>5. \A a \in Orgs, b \in Periods :
                /\ reported[a][b] \in Nat /\ charges[a][b] \in Nat
                /\ reported[a][b] <= charges[a][b]
        BY <1>1 DEF TypeOK, MeterInv, ReportedWereBilled
      <3> DEFINE h == HighWater(reported[o][p], f.sent)
      <3>6. h \in Nat /\ h <= charges[o][p]
        BY <3>2, <3>3, <3>5 DEF HighWater
      <3>7. reported' = SetCount(reported, o, p, h)
        BY <2>3 DEF SaveReported
      <3>8. reported \in [Orgs -> [Periods -> Nat]]
        BY <1>1 DEF TypeOK
      <3>9. \A v \in Workers : flush'[v] = flush[v] \/ flush'[v].pc \in {"idle", "read"}
        BY <1>1, <2>3 DEF SaveReported, TypeOK, IdleFlush
      <3> HIDE DEF h, o, p
      <3>10. \A a \in Orgs, b \in Periods :
                 /\ reported'[o][p] = h
                 /\ ~(a = o /\ b = p) => reported'[a][b] = reported[a][b]
        <4>1. o \in Orgs /\ p \in Periods /\ h \in Nat
          BY <3>2, <3>6
        <4>2. QED
          BY <4>1, <3>7, <3>8, CounterUpdate
      <3>11. ReportedWereBilled'
        BY <3>4, <3>5, <3>6, <3>10 DEF ReportedWereBilled
      <3>12. \A a \in Orgs, b \in Periods :
                 charges[a][b] <= charges'[a][b] /\ overage[a][b] <= overage'[a][b]
        BY <1>1, <3>4 DEF TypeOK
      <3>13. ASSUME NEW v \in Workers PROVE Sound(v)'
        <4>1. CASE flush'[v] = flush[v]
          BY <1>1, <3>12, <4>1, SoundIsStable DEF MeterInv, FlushSound
        <4>2. CASE flush'[v].pc \in {"idle", "read"}
          BY <4>2 DEF Sound
        <4>3. QED
          BY <3>9, <4>1, <4>2
      <3>14. FlushSound'
        BY <3>13 DEF FlushSound, Workers
      <3>15. SeenIsPrefix' /\ BilledWithinCounted'
        BY <3>4 DEF MeterInv, SeenIsPrefix, BilledWithinCounted
      <3>16. QED
        BY <1>1, <3>11, <3>14, <3>15 DEF MeterInv
    <2>4. QED
      BY <1>5, <2>1, <2>2, <2>3 DEF FlushStep
  <1>6. ASSUME NEW w \in Workers, Crash(w) PROVE MeterInv'
    <2>1. \A v \in Workers : flush'[v] = flush[v] \/ flush'[v].pc \in {"idle", "read"}
      BY <1>1, <1>6 DEF Crash, TypeOK, IdleFlush
    <2>2. QED
      BY <1>3, <1>6, <2>1 DEF Crash, counters, stripe
  <1>7. ASSUME NEW s \in Sweepers, SweepStep(s) PROVE MeterInv'
    <2>1. CASE SweepBegin(s)
      BY <1>2, <2>1 DEF SweepBegin, counters, stripe
    <2>2. CASE SweepNext(s)
      <3>1. \A w \in Workers : flush'[w] = flush[w] \/ flush'[w].pc \in {"idle", "read"}
        BY <1>1, <2>2 DEF SweepNext, TypeOK
      <3>2. QED
        BY <1>3, <2>2, <3>1 DEF SweepNext, counters, stripe
    <2>3. QED
      BY <1>7, <2>1, <2>2 DEF SweepStep
  <1>8. ASSUME NEW o \in Orgs, Administration(o) PROVE MeterInv'
    BY <1>2, <1>8 DEF Administration, ChangePlan, ChangeStatus, CheckEnable, EnableOverage,
       DisableOverage, counters, stripe
  <1>9. CASE NextMonth
    BY <1>2, <1>9 DEF NextMonth, counters, stripe
  <1>10. CASE UNCHANGED vars
    BY <1>2, <1>10 DEF vars, counters, stripe
  <1>11. QED
    BY <1>4, <1>5, <1>6, <1>7, <1>8, <1>9, <1>10 DEF Next

\* In every reachable state of any instance the invariant holds.
THEOREM MeterInvariant == Spec => []MeterInv
  BY InitMeterInv, NextMeterInv, PTL DEF Spec

\* No unit below the reported mark is missing from Stripe's total: racing flushes,
\* failed or half-failed meter events and crashes never skip one.
THEOREM ReportedAreBilled == Spec => []ReportedWereBilled
  <1>1. MeterInv => ReportedWereBilled
    BY DEF MeterInv
  <1>2. QED
    BY <1>1, MeterInvariant, PTL

\* The reported mark never moves back, whichever of two racing flushes saves last.
THEOREM MarkAdvances == Spec => MarkOnlyAdvances
  <1> DEFINE Advances == \A o \in Orgs, p \in Periods : reported'[o][p] >= reported[o][p]
  <1>1. TypeOK /\ [Next]_vars => [Advances]_reported
    <2> SUFFICES ASSUME TypeOK, [Next]_vars, reported' # reported PROVE Advances
      OBVIOUS
    <2>1. PICK w \in Workers : SaveReported(w)
      BY DEF Next, vars, counters, Reply, BeginReply, ConsumeAllowance, CheckOverage, ConsumeOverage,
         StartFlush, FlushStep, FlushRead, SendUnit, SendFails, Crash, SweepStep, SweepBegin,
         SweepNext, Administration, ChangePlan, ChangeStatus, CheckEnable, EnableOverage,
         DisableOverage, NextMonth
    <2> DEFINE o == flush[w].org  p == flush[w].period
               h == HighWater(reported[o][p], flush[w].sent)
    <2>2. o \in Orgs /\ p \in Periods /\ flush[w].sent \in Nat
      BY <2>1, SendingFields DEF SaveReported, TypeOK
    <2>3. reported \in [Orgs -> [Periods -> Nat]]
      BY DEF TypeOK
    <2>4. h \in Nat /\ h >= reported[o][p]
      BY <2>2, <2>3 DEF HighWater
    <2>5. reported' = SetCount(reported, o, p, h)
      BY <2>1 DEF SaveReported
    <2> HIDE DEF h, o, p
    <2>6. \A a \in Orgs, b \in Periods :
              /\ reported'[o][p] = h
              /\ ~(a = o /\ b = p) => reported'[a][b] = reported[a][b]
      BY <2>2, <2>3, <2>4, <2>5, CounterUpdate
    <2>7. QED
      BY <2>3, <2>4, <2>6
  <1>2. QED
    BY <1>1, TypeCorrect, PTL DEF Spec, MarkOnlyAdvances

-----------------------------------------------------------------------------
(* Usage metering: it implements MeteredBilling *)

\* The initial states are initial states of the metered billing specification.
LEMMA BillingInit == Init => Billing!Init
  BY DEF Init, Billing!Init, NoUnits

\* A counted unit: below the cap of the plan the request read.
LEMMA CountStep ==
    ASSUME TypeOK, NEW r \in Requests, ConsumeOverage(r)
    PROVE  [Billing!Next]_(Billing!vars)
  <1> DEFINE o == req[r].org
  <1>1. o \in Orgs /\ period \in Periods /\ req[r].tier \in Tiers
    BY DEF ConsumeOverage, TypeOK, Request, IdleRequest
  <1>2. UNCHANGED charges
    BY DEF ConsumeOverage, stripe
  <1>3. CASE overage' = overage
    BY <1>2, <1>3 DEF Billing!vars
  <1>4. CASE overage' # overage
    <2>1. /\ TakesUnit(overage[o][period], Allowance[req[r].tier])
          /\ overage' = OneMore(overage, o, period)
      BY <1>4 DEF ConsumeOverage
    <2>2. overage[o][period] \in Nat /\ Allowance[req[r].tier] \in Nat
      BY <1>1, UsageAssumption DEF TypeOK
    <2>3. overage[o][period] < Allowance[req[r].tier]
      BY <2>1, <2>2 DEF TakesUnit
    <2>4. overage' = [overage EXCEPT ![o][period] = @ + 1]
      BY <2>1 DEF OneMore, SetCount
    <2>5. Billing!Count(o, period)
      BY <1>1, <1>2, <2>3, <2>4 DEF Billing!Count
    <2>6. QED
      BY <1>1, <2>5 DEF Billing!Next
  <1>5. QED
    BY <1>3, <1>4

\* A meter event Stripe accepts: the next unbilled unit, and a counted one.
LEMMA BillStep ==
    ASSUME MeterInv, NEW w \in Workers, flush[w].pc = "send",
           MeterAccepts(flush[w].org, flush[w].period, flush[w].sent + 1), UNCHANGED overage
    PROVE  [Billing!Next]_(Billing!vars)
  <1> DEFINE o == flush[w].org  p == flush[w].period
  <1>1. TypeOK
    BY DEF MeterInv
  <1>2. o \in Orgs /\ p \in Periods
    BY <1>1, SendingFields DEF TypeOK
  <1>3. CASE charges' = charges
    BY <1>3 DEF Billing!vars
  <1>4. CASE charges' # charges
    <2>1. charges' = OneMore(charges, o, p)
      BY <1>4 DEF MeterAccepts
    <2>2. charges'[o][p] = charges[o][p] + 1
      <3>1. charges \in [Orgs -> [Periods -> Nat]]
        BY <1>1 DEF TypeOK
      <3>2. QED
        BY <1>2, <2>1, <3>1, CounterIncrement
    <2>3. charges'[o][p] <= overage[o][p]
      BY <1>2, MeterStep
    <2>4. charges[o][p] \in Nat /\ overage[o][p] \in Nat
      BY <1>1, <1>2 DEF TypeOK
    <2>5. charges' = [charges EXCEPT ![o][p] = @ + 1]
      BY <2>1 DEF OneMore, SetCount
    <2>6. Billing!Bill(o, p)
      BY <2>2, <2>3, <2>4, <2>5 DEF Billing!Bill
    <2>7. QED
      BY <1>2, <2>6 DEF Billing!Next
  <1>5. QED
    BY <1>3, <1>4

\* The metering code implements MeteredBilling: whatever the interleaving, a month's
\* charges are counted replies, each billed once, and the count respects a plan's cap.
THEOREM ImplementsMeteredBilling == Spec => BillsLikeMeteredBilling
  <1>1. MeterInv /\ [Next]_vars => [Billing!Next]_(Billing!vars)
    <2> SUFFICES ASSUME MeterInv, [Next]_vars PROVE [Billing!Next]_(Billing!vars)
      OBVIOUS
    <2>1. ASSUME UNCHANGED <<overage, charges>> PROVE [Billing!Next]_(Billing!vars)
      BY <2>1 DEF Billing!vars
    <2>2. CASE \E r \in Requests : ConsumeOverage(r)
      BY <2>2, CountStep DEF MeterInv
    <2>3. CASE \E w \in Workers : SendUnit(w) \/ SendFails(w)
      <3>1. PICK w \in Workers : SendUnit(w) \/ SendFails(w)
        BY <2>3
      <3>2. flush[w].pc = "send" /\ UNCHANGED overage
        BY <3>1 DEF SendUnit, SendFails, counters
      <3>3. CASE MeterAccepts(flush[w].org, flush[w].period, flush[w].sent + 1)
        BY <3>2, <3>3, BillStep
      <3>4. CASE UNCHANGED stripe
        BY <2>1, <3>2, <3>4 DEF stripe
      <3>5. QED
        BY <3>1, <3>3, <3>4 DEF SendUnit, SendFails
    <2>4. QED
      <3> SUFFICES ASSUME ~\E r \in Requests : ConsumeOverage(r),
                          ~\E w \in Workers : SendUnit(w) \/ SendFails(w)
                   PROVE  UNCHANGED <<overage, charges>>
        BY <2>1, <2>2, <2>3
      <3>1. QED
        BY DEF Next, vars, counters, stripe, Reply, BeginReply, ConsumeAllowance, CheckOverage,
           StartFlush, FlushStep, FlushRead, SaveReported, Crash, SweepStep, SweepBegin, SweepNext,
           Administration, ChangePlan, ChangeStatus, CheckEnable, EnableOverage, DisableOverage,
           NextMonth
  <1>2. QED
    BY BillingInit, <1>1, MeterInvariant, PTL DEF Spec, Billing!Spec, BillsLikeMeteredBilling

-----------------------------------------------------------------------------
(* Subscription sync: the inductive invariant *)

Emitted == 1..Len(events)

PaidFor(t) ==
    \E n \in Emitted : events[n].status \in Confirmed /\ PlanForPrice(events[n].price) = t

\* What a handler has read of the row and the organisation.
HandlerSound(h) ==
    LET e == events[handler[h].event] IN
    /\ handler[h].pc # "idle" => handler[h].event \in Emitted
    /\ handler[h].pc \in {"org", "write"} =>
          handler[h].last <= e.at /\ PlanForPrice(e.price) # None
    /\ handler[h].pc = "write" =>
          /\ handler[h].tier \in PaidTiers \cup {"free"}
          /\ handler[h].tier # "free" => PaidFor(handler[h].tier)
          /\ e.status \in Confirmed => handler[h].tier = PlanForPrice(e.price)
          /\ e.status \in Ended => handler[h].tier = "free"

HandlersSound == \A h \in Handlers : HandlerSound(h)

\* A checkout past ensureCustomer goes on with the customer on file.
CheckoutsSound ==
    \A a \in Admins :
        /\ checkout[a].pc \in {"insert", "session"} => checkout[a].customer \in Customers
        /\ checkout[a].pc = "session" => checkout[a].customer = row.customer

EventsOfTheCustomer == \A n \in Emitted : events[n].customer = row.customer

EventsInOrder == \A m, n \in Emitted : m <= n => events[m].at <= events[n].at

\* The row and the plan are written together, from one event.
RowShowsAnEvent ==
    row.last # 0 =>
        \E n \in Emitted : /\ events[n].at = row.last
                           /\ events[n].status # "incomplete" => Shows(events[n])

\* Unless two handlers overlapped, the row is at least as new as every event that was dealt with.
Covered(n) == PlanForPrice(events[n].price) # None => events[n].at <= row.last

DealtWithIsCovered ==
    ~raced =>
        /\ \A n \in Emitted : log[n] = "processed" => Covered(n)
        /\ \A h \in Handlers : handler[h].pc = "done" => Covered(handler[h].event)

LoggedWereEmitted == \A n \in EventIds : log[n] # "none" => n \in Emitted

SyncInv ==
    /\ SyncTypeOK
    /\ LoggedWereEmitted
    /\ HandlersSound
    /\ CheckoutsSound
    /\ SessionsForTheCustomerOnFile
    /\ EventsOfTheCustomer
    /\ EventsInOrder
    /\ PlanWasPaidFor
    /\ RowShowsAnEvent
    /\ DealtWithIsCovered

-----------------------------------------------------------------------------
(* Subscription sync: lemmas *)

\* A configured price gives a plan an organisation can hold.
LEMMA TierType ==
    ASSUME SyncTypeOK, NEW status \in Statuses, NEW price \in Prices
    PROVE  /\ PlanForPrice(price) \in PaidTiers \cup {None}
           /\ PlanForPrice(price) # None =>
                 TierForStatus(status, PlanForPrice(price), planTier) \in PaidTiers \cup {"free"}
  BY DEF SyncTypeOK, PlanForPrice, TierForStatus

\* What Stripe has emitted is an event with all its fields.
LEMMA EventType ==
    ASSUME SyncTypeOK, NEW n \in Emitted
    PROVE  /\ n \in EventIds
           /\ events[n] \in [sub : Subscriptions, customer : Customers, status : Statuses,
                             price : Prices, at : 1..MaxEvents]
  <1>1. n \in 1..Len(events) /\ Len(events) \in Nat
    BY DEF Emitted, SyncTypeOK
  <1>2. n \in EventIds
    BY <1>1, SubscriptionAssumption DEF SyncTypeOK, EventIds
  <1> DEFINE Event == [sub : Subscriptions, customer : Customers, status : Statuses,
                       price : Prices, at : 1..MaxEvents]
  <1>3. events \in Seq(Event)
    BY DEF SyncTypeOK
  <1> HIDE DEF Event
  <1>4. events[n] \in Event
    BY <1>1, <1>3
  <1>5. QED
    BY <1>2, <1>4 DEF Event

\* A handler that holds an event carries all its fields.
LEMMA HandlerType ==
    ASSUME SyncTypeOK, NEW h \in Handlers, handler[h].pc # "idle"
    PROVE  handler[h] \in [pc : {"row", "org", "write", "done"}, event : EventIds,
                           last : 0..MaxEvents, tier : PaidTiers \cup {"free", None}]
  BY DEF SyncTypeOK, Handling, IdleHandler

\* Stripe's emission appends one event, no older than those before it.
LEMMA EmitAppends ==
    ASSUME SyncTypeOK, EventsInOrder, NEW s \in Subscriptions,
           NEW new \in [customer : Customers, status : Statuses, price : Prices],
           Emit(s, new)
    PROVE  /\ events' \in Seq([sub : Subscriptions, customer : Customers, status : Statuses,
                               price : Prices, at : 1..MaxEvents])
           /\ Len(events') = Len(events) + 1 /\ Len(events') <= MaxEvents
           /\ \A n \in Emitted : n \in Emitted' /\ events'[n] = events[n]
           /\ \A n \in Emitted' : n \in Emitted \/ n = Len(events')
           /\ events'[Len(events')].customer = new.customer
           /\ EventsInOrder'
  <1> DEFINE Event == [sub : Subscriptions, customer : Customers, status : Statuses,
                       price : Prices, at : 1..MaxEvents]
  <1>1. PICK at \in 1..MaxEvents :
          /\ events # <<>> => at >= Newest.at
          /\ events' = Append(events, [sub |-> s, customer |-> new.customer,
                                       status |-> new.status, price |-> new.price, at |-> at])
    <2>1. PICK at \in 1..MaxEvents :
            /\ CASE events = <<>> -> at = 1
                 [] events # <<>> /\ SameSecond -> at \in {Newest.at, Newest.at + 1}
                 [] events # <<>> /\ ~SameSecond -> at = Newest.at + 1
            /\ events' = Append(events, [sub |-> s, customer |-> new.customer,
                                         status |-> new.status, price |-> new.price, at |-> at])
      BY DEF Emit
    <2>2. ASSUME events # <<>> PROVE at >= Newest.at
      <3>1. Len(events) \in Emitted
        BY <2>2 DEF SyncTypeOK, Emitted
      <3>2. Newest.at \in Nat
        BY <3>1, EventType DEF Newest
      <3>3. at = Newest.at \/ at = Newest.at + 1
        BY <2>1, <2>2, SubscriptionAssumption
      <3>4. QED
        BY <3>2, <3>3
    <2>3. QED
      BY <2>1, <2>2
  <1> DEFINE e == [sub |-> s, customer |-> new.customer, status |-> new.status,
                   price |-> new.price, at |-> at]
  <1>2. e \in Event /\ e.customer = new.customer /\ e.at = at
    BY <1>1
  <1>3. events \in Seq(Event) /\ events' = Append(events, e)
    BY <1>1 DEF SyncTypeOK
  <1> HIDE DEF e, Event
  <1>4. /\ events' \in Seq(Event)
        /\ Len(events') = Len(events) + 1
        /\ Len(events) \in Nat
        /\ \A n \in 1..Len(events) : events'[n] = events[n]
        /\ events'[Len(events) + 1] = e
    BY <1>2, <1>3
  <1>5. Len(events') <= MaxEvents
    BY <1>4, SubscriptionAssumption DEF Emit, SyncTypeOK
  <1>6. /\ \A n \in Emitted : n \in Emitted' /\ events'[n] = events[n]
        /\ \A n \in Emitted' : n \in Emitted \/ n = Len(events')
    BY <1>4 DEF Emitted
  <1>7. EventsInOrder'
    <2> SUFFICES ASSUME NEW m \in Emitted', NEW n \in Emitted', m <= n
                 PROVE  events'[m].at <= events'[n].at
      BY DEF EventsInOrder
    <2>1. CASE n \in Emitted
      <3>1. m \in Emitted
        BY <2>1, <1>4 DEF Emitted
      <3>2. QED
        BY <2>1, <3>1, <1>6 DEF EventsInOrder
    <2>2. CASE n = Len(events') /\ m = n
      BY <2>2, <1>1, <1>2, <1>4
    <2>3. CASE n = Len(events') /\ m \in Emitted
      <3>1. Len(events) \in Emitted /\ m <= Len(events) /\ events # <<>>
        BY <2>3, <1>4 DEF Emitted
      <3>2. events[m].at <= Newest.at
        BY <3>1, <2>3 DEF EventsInOrder, Newest
      <3>3. events'[m].at = events[m].at /\ events'[n].at = at
        BY <2>3, <1>2, <1>4, <1>6
      <3>4. Newest.at \in Nat /\ events[m].at \in Nat
        BY <2>3, <3>1, EventType DEF Newest
      <3>5. QED
        BY <3>1, <3>2, <3>3, <3>4, <1>1
    <2>4. QED
      BY <2>1, <2>2, <2>3, <1>6
  <1>8. QED
    BY <1>2, <1>4, <1>5, <1>6, <1>7 DEF Event

\* Before the customer is on file, Stripe has emitted nothing for the organisation.
LEMMA NoCustomerNoEvents ==
    ASSUME SyncTypeOK, EventsOfTheCustomer, row.customer = None
    PROVE  Emitted = {}
  <1>1. ASSUME NEW n \in Emitted PROVE FALSE
    BY <1>1, EventType, SubscriptionAssumption DEF EventsOfTheCustomer
  <1>2. QED
    BY <1>1

-----------------------------------------------------------------------------
(* Subscription sync: the initial state *)

\* An organisation without a subscription satisfies the invariant.
LEMMA InitInv == SyncInit => SyncInv
  <1> SUFFICES ASSUME SyncInit PROVE SyncInv
    OBVIOUS
  <1> USE SubscriptionAssumption DEF SyncInit
  <1>1. SyncTypeOK
    <2>1. row \in [customer : Customers \cup {None}, sub : Subscriptions \cup {None},
                   status : Statuses \cup {"none"}, last : 0..MaxEvents]
      BY DEF NoRow
    <2>2. checkout \in [Admins -> [pc : {"idle", "find", "create", "insert", "session"},
                                   customer : Customers \cup {None}]]
      BY DEF IdleCheckout
    <2>3. events \in Seq([sub : Subscriptions, customer : Customers, status : Statuses,
                          price : Prices, at : 1..MaxEvents])
      OBVIOUS
    <2>4. handler \in [Handlers -> Handling]
      BY DEF Handling
    <2>5. Len(events) <= MaxEvents /\ begun \in 0..MaxCheckouts /\ crashes \in 0..MaxCrashes
      OBVIOUS
    <2>6. QED
      BY <2>1, <2>2, <2>3, <2>4, <2>5 DEF SyncTypeOK
  <1>2. Emitted = {}
    BY DEF Emitted
  <1>3. HandlersSound /\ CheckoutsSound
    <2>1. \A h \in Handlers : handler[h].pc = "idle"
      <3>1. \A h \in Handlers : handler[h] = IdleHandler
        OBVIOUS
      <3>2. QED
        BY <3>1 DEF IdleHandler
    <2>2. \A a \in Admins : checkout[a].pc = "idle"
      BY DEF IdleCheckout
    <2>3. QED
      BY <2>1, <2>2, Zenon DEF HandlersSound, HandlerSound, CheckoutsSound
  <1>4. SessionsForTheCustomerOnFile /\ PlanWasPaidFor
    BY DEF SessionsForTheCustomerOnFile, PlanWasPaidFor
  <1>5. EventsOfTheCustomer /\ EventsInOrder /\ RowShowsAnEvent /\ DealtWithIsCovered
    <2>1. EventsOfTheCustomer /\ EventsInOrder
      BY <1>2 DEF EventsOfTheCustomer, EventsInOrder
    <2>2. RowShowsAnEvent
      BY DEF RowShowsAnEvent, NoRow
    <2>3. DealtWithIsCovered
      BY <1>2 DEF DealtWithIsCovered, IdleHandler
    <2>4. QED
      BY <2>1, <2>2, <2>3
  <1>6. LoggedWereEmitted
    BY DEF LoggedWereEmitted
  <1>7. QED
    BY <1>1, <1>3, <1>4, <1>5, <1>6 DEF SyncInv

-----------------------------------------------------------------------------
(* Subscription sync: every step keeps the invariant *)

\* What a step that leaves the row, the plan and the events alone keeps.
LEMMA RowFrame ==
    ASSUME SyncInv, UNCHANGED <<row, planTier, events>>
    PROVE  EventsOfTheCustomer' /\ EventsInOrder' /\ PlanWasPaidFor' /\ RowShowsAnEvent'
  <1>1. EventsOfTheCustomer' /\ EventsInOrder'
    BY DEF SyncInv, EventsOfTheCustomer, EventsInOrder, Emitted
  <1>2. PlanWasPaidFor'
    BY DEF SyncInv, PlanWasPaidFor
  <1>3. RowShowsAnEvent'
    BY DEF SyncInv, RowShowsAnEvent, Shows, Emitted
  <1>4. QED
    BY <1>1, <1>2, <1>3

\* What a step that leaves the webhook handlers and the events alone keeps.
LEMMA HandlerFrame ==
    ASSUME SyncInv, UNCHANGED <<handler, events>>
    PROVE  HandlersSound'
  BY DEF SyncInv, HandlersSound, HandlerSound, PaidFor, Emitted

\* What a step that leaves stripe_events and the events alone keeps.
LEMMA LogFrame ==
    ASSUME SyncInv, UNCHANGED <<log, events>>
    PROVE  LoggedWereEmitted'
  BY DEF SyncInv, LoggedWereEmitted, Emitted

\* What a step that leaves the row, stripe_events, the events and the handlers alone keeps.
LEMMA CoverFrame ==
    ASSUME SyncInv, UNCHANGED <<row, log, handler, events, raced>>
    PROVE  DealtWithIsCovered'
  BY DEF SyncInv, DealtWithIsCovered, Covered, Emitted

\* What a step that leaves the row and the checkouts alone keeps.
LEMMA CheckoutFrame ==
    ASSUME SyncInv, UNCHANGED <<row, checkout>>
    PROVE  CheckoutsSound'
  BY DEF SyncInv, CheckoutsSound

\* What a step that leaves Stripe and the customer on file alone keeps.
LEMMA SessionFrame ==
    ASSUME SyncInv, row'.customer = row.customer, UNCHANGED <<sessions, sub>>
    PROVE  SessionsForTheCustomerOnFile'
  BY DEF SyncInv, SessionsForTheCustomerOnFile

\* createCheckout and ensureCustomer.
LEMMA CheckoutStep ==
    ASSUME SyncInv, NEW a \in Admins, Checkout(a)
    PROVE  SyncInv'
  <1> USE SubscriptionAssumption DEF database, atStripe
  <1>0. SyncTypeOK /\ CheckoutsSound /\ SessionsForTheCustomerOnFile
    BY DEF SyncInv
  <1>1. CASE CheckoutBegin(a)
    <2> USE <1>1 DEF CheckoutBegin
    <2>1. SyncTypeOK'
      <3>1. begun' \in 0..MaxCheckouts
        BY <1>0 DEF SyncTypeOK
      <3>2. checkout' \in [Admins -> [pc : {"idle", "find", "create", "insert", "session"},
                                      customer : Customers \cup {None}]]
        BY <1>0, SMTT(30) DEF SyncTypeOK
      <3>3. QED
        BY <1>0, <3>1, <3>2 DEF SyncTypeOK
    <2>2. CheckoutsSound'
      BY <1>0 DEF SyncTypeOK, CheckoutsSound
    <2>3. QED
      BY <2>1, <2>2, RowFrame, HandlerFrame, LogFrame, CoverFrame, SessionFrame DEF SyncInv
  <1>2. CASE FindCustomer(a)
    <2> USE <1>2 DEF FindCustomer
    <2>1. SyncTypeOK'
      BY <1>0 DEF SyncTypeOK
    <2>2. CheckoutsSound'
      BY <1>0 DEF SyncTypeOK, CheckoutsSound
    <2>3. QED
      BY <2>1, <2>2, RowFrame, HandlerFrame, LogFrame, CoverFrame, SessionFrame DEF SyncInv
  <1>3. CASE CreateCustomer(a)
    <2> USE <1>3 DEF CreateCustomer
    <2>1. SyncTypeOK'
      BY <1>0 DEF SyncTypeOK
    <2>2. CheckoutsSound'
      BY <1>0 DEF SyncTypeOK, CheckoutsSound
    <2>3. QED
      BY <2>1, <2>2, RowFrame, HandlerFrame, LogFrame, CoverFrame, SessionFrame DEF SyncInv
  <1>4. CASE InsertRow(a)
    <2>1. CASE row.customer = None
      <3>1. /\ checkout[a].pc = "insert"
            /\ row' = [NoRow EXCEPT !.customer = checkout[a].customer]
            /\ checkout' = [checkout EXCEPT ![a].pc = "session"]
            /\ UNCHANGED <<planTier, log, begun, made, sessions, atStripe, handler, raced, crashes>>
        BY <1>4, <2>1 DEF InsertRow
      <3>2. Emitted = {} /\ UNCHANGED Emitted
        BY <2>1, <3>1, NoCustomerNoEvents DEF SyncInv, Emitted
      <3>3. \A h \in Handlers : handler[h].pc = "idle"
        BY <3>2 DEF SyncInv, HandlersSound, HandlerSound
      <3>4. checkout[a].customer \in Customers
        BY <1>0, <3>1 DEF CheckoutsSound
      <3>5. SyncTypeOK'
        BY <1>0, <3>1, <3>4, SMTT(30) DEF SyncTypeOK, NoRow
      <3>6. CheckoutsSound'
        BY <1>0, <2>1, <3>1, <3>4 DEF SyncTypeOK, CheckoutsSound, NoRow
      <3>7. SessionsForTheCustomerOnFile'
        <4>1. \A c \in Customers : ~(sessions[c] > 0)
          BY <1>0, <2>1 DEF SessionsForTheCustomerOnFile
        <4>2. \A s \in Subscriptions : sub[s] = None
          BY <1>0, <2>1 DEF SessionsForTheCustomerOnFile, SyncTypeOK
        <4>3. QED
          BY <3>1, <4>1, <4>2 DEF SessionsForTheCustomerOnFile
      <3>8. EventsOfTheCustomer' /\ EventsInOrder'
        BY <3>2 DEF EventsOfTheCustomer, EventsInOrder
      <3>9. PlanWasPaidFor'
        BY <3>1 DEF SyncInv, PlanWasPaidFor
      <3>10. RowShowsAnEvent'
        BY <3>1 DEF RowShowsAnEvent, NoRow
      <3>11. DealtWithIsCovered'
        BY <3>1, <3>2, <3>3 DEF DealtWithIsCovered
      <3>12. HandlersSound'
        BY <3>1, HandlerFrame
      <3>13. LoggedWereEmitted'
        BY <3>1, LogFrame
      <3>14. QED
        BY <3>13, <3>5, <3>6, <3>7, <3>8, <3>9, <3>10, <3>11, <3>12 DEF SyncInv
    <2>2. CASE row.customer # None
      <3>1. /\ checkout[a].pc = "insert"
            /\ checkout' = [checkout EXCEPT ![a] = [pc |-> "session", customer |-> row.customer]]
            /\ UNCHANGED row
            /\ UNCHANGED <<planTier, log, begun, made, sessions, atStripe, handler, raced, crashes>>
        BY <1>4, <2>2 DEF InsertRow, CustomerAfterConflict
      <3>2. SyncTypeOK'
        BY <1>0, <3>1 DEF SyncTypeOK
      <3>3. CheckoutsSound'
        BY <1>0, <2>2, <3>1 DEF SyncTypeOK, CheckoutsSound
      <3>4. QED
        BY <3>1, <3>2, <3>3, RowFrame, HandlerFrame, LogFrame, CoverFrame, SessionFrame DEF SyncInv
    <2>3. QED
      BY <2>1, <2>2
  <1>5. CASE OpenSession(a)
    <2> USE <1>5 DEF OpenSession
    <2>1. checkout[a].customer \in Customers /\ checkout[a].customer = row.customer
      BY <1>0 DEF CheckoutsSound
    <2>2. SyncTypeOK'
      BY <1>0, <2>1 DEF SyncTypeOK, IdleCheckout
    <2>3. CheckoutsSound'
      BY <1>0 DEF SyncTypeOK, CheckoutsSound, IdleCheckout
    <2>4. SessionsForTheCustomerOnFile'
      BY <1>0, <2>1 DEF SyncTypeOK, SessionsForTheCustomerOnFile
    <2>5. QED
      BY <2>2, <2>3, <2>4, RowFrame, HandlerFrame, LogFrame, CoverFrame DEF SyncInv
  <1>6. QED
    BY <1>1, <1>2, <1>3, <1>4, <1>5 DEF Checkout

\* A subscription that becomes one of the customer on file.
LEMMA EmitStep ==
    ASSUME SyncInv, NEW s \in Subscriptions,
           NEW new \in [customer : Customers, status : Statuses, price : Prices],
           Emit(s, new), new.customer = row.customer,
           sessions' \in [Customers -> Nat],
           \A c \in Customers : sessions'[c] > 0 => row.customer = c
    PROVE  SyncInv'
  <1> DEFINE Event == [sub : Subscriptions, customer : Customers, status : Statuses,
                       price : Prices, at : 1..MaxEvents]
  <1>1. /\ events' \in Seq(Event)
        /\ Len(events') = Len(events) + 1 /\ Len(events') <= MaxEvents
        /\ \A n \in Emitted : n \in Emitted' /\ events'[n] = events[n]
        /\ \A n \in Emitted' : n \in Emitted \/ n = Len(events')
        /\ events'[Len(events')].customer = new.customer
        /\ EventsInOrder'
    BY EmitAppends DEF SyncInv
  <1>2. /\ sub' = [sub EXCEPT ![s] = new]
        /\ UNCHANGED <<row, planTier, log, checkout, begun, made, handler, raced, crashes>>
    BY DEF Emit, database
  <1>3. SyncTypeOK'
    <2>1. sub' \in [Subscriptions ->
                      {None} \cup [customer : Customers, status : Statuses, price : Prices]]
      BY <1>2 DEF SyncInv, SyncTypeOK
    <2>2. QED
      BY <1>1, <1>2, <2>1 DEF SyncInv, SyncTypeOK
  <1> HIDE DEF Event
  <1>4. \A t : PaidFor(t) => PaidFor(t)'
    BY <1>1 DEF PaidFor
  <1>5. HandlersSound'
    <2> SUFFICES ASSUME NEW h \in Handlers PROVE HandlerSound(h)'
      BY DEF HandlersSound
    <2>1. HandlerSound(h)
      BY DEF SyncInv, HandlersSound
    <2>2. handler[h].pc # "idle" =>
            handler[h].event \in Emitted /\ events'[handler[h].event] = events[handler[h].event]
      BY <1>1, <2>1 DEF HandlerSound
    <2>3. QED
      BY <1>1, <1>2, <1>4, <2>1, <2>2 DEF HandlerSound
  <1>6. CheckoutsSound'
    BY <1>2, CheckoutFrame
  <1>7. SessionsForTheCustomerOnFile'
    BY <1>2 DEF SyncInv, SyncTypeOK, SessionsForTheCustomerOnFile
  <1>8. EventsOfTheCustomer'
    BY <1>1, <1>2 DEF SyncInv, EventsOfTheCustomer
  <1>9. PlanWasPaidFor'
    <2>1. planTier # "free" => PaidFor(planTier)
      BY DEF SyncInv, PlanWasPaidFor, PaidFor, Emitted
    <2>2. planTier' # "free" => PaidFor(planTier)'
      BY <1>2, <1>4, <2>1
    <2>3. QED
      BY <1>2, <2>2 DEF PlanWasPaidFor, PaidFor, Emitted
  <1>10. RowShowsAnEvent'
    BY <1>1, <1>2 DEF SyncInv, RowShowsAnEvent, Shows
  <1>11. DealtWithIsCovered'
    <2> SUFFICES ASSUME ~raced'
                 PROVE  /\ \A n \in Emitted' : log'[n] = "processed" => Covered(n)'
                        /\ \A h \in Handlers : handler'[h].pc = "done" => Covered(handler[h].event)'
      BY DEF DealtWithIsCovered
    <2>1. \A n \in Emitted : Covered(n) => Covered(n)'
      BY <1>1, <1>2 DEF Covered
    <2>2. ASSUME NEW n \in Emitted', log'[n] = "processed" PROVE Covered(n)'
      <3>1. CASE n \in Emitted
        BY <1>2, <2>1, <2>2, <3>1 DEF SyncInv, DealtWithIsCovered
      <3>2. CASE n \notin Emitted
        <4>1. n \in EventIds
          BY <1>1, SubscriptionAssumption DEF Emitted, EventIds
        <4>2. QED
          BY <1>2, <2>2, <3>2, <4>1 DEF SyncInv, LoggedWereEmitted
      <3>3. QED
        BY <3>1, <3>2
    <2>3. ASSUME NEW h \in Handlers, handler'[h].pc = "done" PROVE Covered(handler[h].event)'
      <3>1. handler[h].event \in Emitted
        BY <1>2, <2>3 DEF SyncInv, HandlersSound, HandlerSound
      <3>2. QED
        BY <1>2, <2>1, <2>3, <3>1 DEF SyncInv, DealtWithIsCovered
    <2>4. QED
      BY <2>2, <2>3
  <1>12. LoggedWereEmitted'
    BY <1>1, <1>2 DEF SyncInv, LoggedWereEmitted
  <1>13. QED
    BY <1>12, <1>1, <1>3, <1>5, <1>6, <1>7, <1>8, <1>9, <1>10, <1>11 DEF SyncInv

\* Stripe.
LEMMA StripeStep ==
    ASSUME SyncInv,
           \/ \E c \in Customers : Subscribe(c)
           \/ \E s \in Subscriptions : ChangeSubscription(s)
    PROVE  SyncInv'
  <1>0. SyncTypeOK /\ SessionsForTheCustomerOnFile
    BY DEF SyncInv
  <1>1. ASSUME NEW c \in Customers, Subscribe(c) PROVE SyncInv'
    <2>1. PICK s \in Subscriptions, status \in {"incomplete", "active"}, price \in Prices :
            Emit(s, [customer |-> c, status |-> status, price |-> price])
      BY <1>1 DEF Subscribe
    <2> DEFINE new == [customer |-> c, status |-> status, price |-> price]
    <2>2. /\ new \in [customer : Customers, status : Statuses, price : Prices]
          /\ new.customer = row.customer
      BY <1>0, <1>1 DEF Subscribe, SessionsForTheCustomerOnFile, Statuses, Confirmed
    <2>3. /\ sessions' \in [Customers -> Nat]
          /\ \A d \in Customers : sessions'[d] > 0 => row.customer = d
      BY <1>0, <1>1 DEF Subscribe, SyncTypeOK, SessionsForTheCustomerOnFile
    <2>4. Emit(s, new)
      BY <2>1
    <2> HIDE DEF new
    <2>5. QED
      BY <2>2, <2>3, <2>4, EmitStep
  <1>2. ASSUME NEW s \in Subscriptions, ChangeSubscription(s) PROVE SyncInv'
    <2>1. PICK status \in Statuses, price \in Prices :
            Emit(s, [sub[s] EXCEPT !.status = status, !.price = price])
      BY <1>2 DEF ChangeSubscription
    <2> DEFINE new == [sub[s] EXCEPT !.status = status, !.price = price]
    <2>2. /\ new \in [customer : Customers, status : Statuses, price : Prices]
          /\ new.customer = row.customer
      <3>1. sub[s] \in [customer : Customers, status : Statuses, price : Prices]
        BY <1>0, <1>2 DEF ChangeSubscription, SyncTypeOK
      <3>2. sub[s].customer = row.customer
        BY <1>0, <1>2 DEF ChangeSubscription, SessionsForTheCustomerOnFile
      <3>3. QED
        BY <3>1, <3>2
    <2>3. /\ sessions' \in [Customers -> Nat]
          /\ \A d \in Customers : sessions'[d] > 0 => row.customer = d
      BY <1>0, <1>2 DEF ChangeSubscription, SyncTypeOK, SessionsForTheCustomerOnFile
    <2>4. Emit(s, new)
      BY <2>1
    <2> HIDE DEF new
    <2>5. QED
      BY <2>2, <2>3, <2>4, EmitStep
  <1>3. QED
    BY <1>1, <1>2

\* processEvent and applySubscription up to the write, and their end.
LEMMA HandlerStep ==
    ASSUME SyncInv, NEW h \in Handlers, NEW n \in EventIds,
           Receive(h, n) \/ ReadRow(h) \/ ReadOrg(h) \/ Finish(h) \/ BreakOff(h)
    PROVE  SyncInv'
  <1> USE DEF database, checkouts, atStripe
  <1>0. SyncTypeOK /\ HandlersSound /\ HandlerSound(h)
    BY DEF SyncInv, HandlersSound
  <1>1. UNCHANGED <<row, planTier, checkout, begun, made, sessions, sub, events, raced>>
    BY DEF Receive, ReadRow, ReadOrg, Finish, BreakOff
  <1>2. EventsOfTheCustomer' /\ EventsInOrder' /\ PlanWasPaidFor' /\ RowShowsAnEvent'
        /\ CheckoutsSound' /\ SessionsForTheCustomerOnFile'
    BY <1>1, RowFrame, CheckoutFrame, SessionFrame
  <1>3. ASSUME handler' \in [Handlers -> Handling], log' \in [EventIds -> {"none", "stored", "processed"}],
               crashes' \in 0..MaxCrashes
        PROVE  SyncTypeOK'
    BY <1>0, <1>1, <1>3 DEF SyncTypeOK
  <1>4. ASSUME HandlerSound(h)', \A g \in Handlers \ {h} : handler'[g] = handler[g]
        PROVE  HandlersSound'
    BY <1>0, <1>1, <1>4 DEF HandlersSound, HandlerSound, PaidFor, Emitted
  <1>5. ASSUME \A g \in Handlers \ {h} : handler'[g] = handler[g],
               ~raced /\ handler'[h].pc = "done" => Covered(handler'[h].event),
               ~raced => \A m \in Emitted : log'[m] = "processed" => log[m] = "processed" \/ Covered(m)
        PROVE  DealtWithIsCovered'
    BY <1>1, <1>5 DEF SyncInv, DealtWithIsCovered, Covered, Emitted
  <1>6. CASE Receive(h, n)
    <2>1. /\ n \in Emitted
          /\ log[n] # "processed"
          /\ log' = [log EXCEPT ![n] = "stored"]
          /\ handler' = [handler EXCEPT ![h] = [pc |-> "row", event |-> n, last |-> 0, tier |-> None]]
          /\ UNCHANGED crashes
      BY <1>6 DEF Receive, Duplicate, Emitted, EventIds
    <2>2. [pc |-> "row", event |-> n, last |-> 0, tier |-> None] \in Handling
      BY SubscriptionAssumption DEF Handling
    <2>3. SyncTypeOK'
      BY <2>1, <2>2, <1>0, <1>3 DEF SyncTypeOK
    <2>4. handler'[h] = [pc |-> "row", event |-> n, last |-> 0, tier |-> None]
          /\ \A g \in Handlers \ {h} : handler'[g] = handler[g]
      BY <2>1, <1>0 DEF SyncTypeOK
    <2>5. HandlersSound'
      BY <2>1, <2>4, <1>1, <1>4 DEF HandlerSound, Emitted
    <2>6. DealtWithIsCovered'
      BY <2>1, <2>4, <1>0, <1>5 DEF SyncTypeOK
    <2>7. LoggedWereEmitted'
      BY <2>1, <1>0, <1>1 DEF SyncInv, LoggedWereEmitted, SyncTypeOK, Emitted
    <2>8. QED
      BY <2>3, <2>5, <2>6, <2>7, <1>2 DEF SyncInv
  <1>7. CASE ReadRow(h)
    <2> DEFINE e == events[handler[h].event]
               skip == \/ row.customer # e.customer
                       \/ Older(e.at, row.last)
                       \/ PlanForPrice(e.price) = None
    <2>1. /\ handler[h].pc = "row"
          /\ handler' = [handler EXCEPT ![h] = IF skip THEN [@ EXCEPT !.pc = "done"]
                                               ELSE [@ EXCEPT !.pc = "org", !.last = row.last]]
          /\ UNCHANGED <<log, crashes>>
      BY <1>7 DEF ReadRow
    <2>2. /\ handler[h] \in [pc : {"row", "org", "write", "done"}, event : EventIds,
                             last : 0..MaxEvents, tier : PaidTiers \cup {"free", None}]
          /\ row.last \in 0..MaxEvents
      BY <2>1, <1>0, HandlerType DEF SyncTypeOK
    <2>3. handler[h].event \in Emitted
      BY <2>1, <1>0 DEF HandlerSound
    <2>4. /\ e.customer = row.customer
          /\ e.at \in 1..MaxEvents
      BY <2>3, <1>0, EventType DEF SyncInv, EventsOfTheCustomer
    <2> HIDE DEF e, skip
    <2>5. /\ handler'[h] = IF skip THEN [handler[h] EXCEPT !.pc = "done"]
                           ELSE [handler[h] EXCEPT !.pc = "org", !.last = row.last]
          /\ \A g \in Handlers \ {h} : handler'[g] = handler[g]
      <3>1. handler \in [Handlers -> Handling]
        BY <1>0 DEF SyncTypeOK
      <3>2. QED
        BY <2>1, <3>1, Zenon
    <2>6. CASE skip
      <3>1. /\ handler'[h] \in Handling /\ handler'[h].pc = "done"
            /\ handler'[h].event = handler[h].event
        BY <2>2, <2>5, <2>6 DEF Handling
      <3>2. SyncTypeOK'
        BY <2>1, <2>5, <3>1, <1>0, <1>3 DEF SyncTypeOK
      <3>3. HandlersSound'
        BY <2>3, <2>5, <3>1, <1>1, <1>4 DEF HandlerSound, Emitted
      <3>4. Covered(handler[h].event)
        BY <2>2, <2>4, <2>6, SubscriptionAssumption DEF Covered, Older, e, skip
      <3>5. DealtWithIsCovered'
        BY <2>1, <2>5, <3>1, <3>4, <1>5
      <3>6. QED
        BY <2>1, <3>2, <3>3, <3>5, <1>1, <1>2, LogFrame DEF SyncInv
    <2>7. CASE ~skip
      <3>1. /\ handler'[h] \in Handling /\ handler'[h].pc = "org"
            /\ handler'[h].event = handler[h].event /\ handler'[h].last = row.last
        BY <2>2, <2>5, <2>7 DEF Handling
      <3>2. SyncTypeOK'
        BY <2>1, <2>5, <3>1, <1>0, <1>3 DEF SyncTypeOK
      <3>3. row.last <= e.at /\ PlanForPrice(e.price) # None
        BY <2>2, <2>4, <2>7, SubscriptionAssumption DEF Older, skip
      <3>4. HandlersSound'
        BY <2>3, <2>5, <3>1, <3>3, <1>1, <1>4 DEF HandlerSound, Emitted, e
      <3>5. DealtWithIsCovered'
        BY <2>1, <2>5, <3>1, <1>5
      <3>6. QED
        BY <2>1, <3>2, <3>4, <3>5, <1>1, <1>2, LogFrame DEF SyncInv
    <2>8. QED
      BY <2>6, <2>7
  <1>8. CASE ReadOrg(h)
    <2> DEFINE e == events[handler[h].event]
               plan == TierForStatus(e.status, PlanForPrice(e.price), planTier)
    <2>1. /\ handler[h].pc = "org"
          /\ handler' = [handler EXCEPT ![h].pc = "write", ![h].tier = plan]
          /\ UNCHANGED <<log, crashes>>
      BY <1>8 DEF ReadOrg
    <2>2. handler[h] \in [pc : {"row", "org", "write", "done"}, event : EventIds,
                          last : 0..MaxEvents, tier : PaidTiers \cup {"free", None}]
      BY <2>1, <1>0, HandlerType
    <2>3. /\ handler[h].event \in Emitted
          /\ handler[h].last <= e.at
          /\ PlanForPrice(e.price) # None
      BY <2>1, <1>0 DEF HandlerSound
    <2>4. e.status \in Statuses /\ e.price \in Prices
      BY <2>3, <1>0, EventType
    <2>5. plan \in PaidTiers \cup {"free"}
      BY <2>3, <2>4, <1>0, TierType
    <2>6. /\ plan # "free" => PaidFor(plan)
          /\ e.status \in Confirmed => plan = PlanForPrice(e.price)
          /\ e.status \in Ended => plan = "free"
      <3>1. planTier # "free" => PaidFor(planTier)
        BY DEF SyncInv, PlanWasPaidFor, PaidFor, Emitted
      <3>2. e.status \in Confirmed => PaidFor(PlanForPrice(e.price))
        BY <2>3 DEF PaidFor
      <3>3. QED
        BY <3>1, <3>2 DEF TierForStatus, Confirmed, Ended
    <2> HIDE DEF e, plan
    <2>8. /\ handler'[h] = [handler[h] EXCEPT !.pc = "write", !.tier = plan]
          /\ \A g \in Handlers \ {h} : handler'[g] = handler[g]
      BY <2>1, <1>0 DEF SyncTypeOK
    <2>9. /\ handler'[h] \in Handling /\ handler'[h].pc = "write" /\ handler'[h].tier = plan
          /\ handler'[h].event = handler[h].event /\ handler'[h].last = handler[h].last
      BY <2>2, <2>5, <2>8 DEF Handling
    <2>10. SyncTypeOK'
      BY <2>1, <2>8, <2>9, <1>0, <1>3 DEF SyncTypeOK
    <2>11. HandlersSound'
      BY <2>3, <2>5, <2>6, <2>8, <2>9, <1>1, <1>4 DEF HandlerSound, PaidFor, Emitted, e
    <2>12. DealtWithIsCovered'
      BY <2>1, <2>8, <2>9, <1>5
    <2>13. QED
      BY <2>1, <2>10, <2>11, <2>12, <1>1, <1>2, LogFrame DEF SyncInv
  <1>9. CASE Finish(h)
    <2>1. /\ handler[h].pc = "done"
          /\ log' = [log EXCEPT ![handler[h].event] = "processed"]
          /\ handler' = [handler EXCEPT ![h] = IdleHandler]
          /\ UNCHANGED crashes
      BY <1>9 DEF Finish
    <2>2. handler[h].event \in Emitted
      BY <2>1, <1>0 DEF HandlerSound
    <2>3. /\ handler'[h] = IdleHandler
          /\ \A g \in Handlers \ {h} : handler'[g] = handler[g]
      BY <2>1, <1>0 DEF SyncTypeOK
    <2>4. SyncTypeOK'
      BY <2>1, <1>0, <1>3 DEF SyncTypeOK, Handling
    <2>5. HandlersSound'
      BY <2>3, <1>4 DEF HandlerSound, IdleHandler
    <2>6. ~raced => Covered(handler[h].event)
      BY <2>1 DEF SyncInv, DealtWithIsCovered
    <2>7. \A m \in Emitted : log'[m] = "processed" => log[m] = "processed" \/ m = handler[h].event
      BY <2>1, <1>0, EventType DEF SyncTypeOK
    <2>8. DealtWithIsCovered'
      BY <2>3, <2>6, <2>7, <1>5 DEF IdleHandler
    <2>9. LoggedWereEmitted'
      BY <2>1, <2>2, <1>0, <1>1 DEF SyncInv, LoggedWereEmitted, SyncTypeOK, Emitted
    <2>10. QED
      BY <2>4, <2>5, <2>8, <2>9, <1>2 DEF SyncInv
  <1>10. CASE BreakOff(h)
    <2>1. /\ crashes < MaxCrashes
          /\ crashes' = crashes + 1
          /\ handler' = [handler EXCEPT ![h] = IdleHandler]
          /\ UNCHANGED log
      BY <1>10 DEF BreakOff
    <2>2. /\ handler'[h] = IdleHandler
          /\ \A g \in Handlers \ {h} : handler'[g] = handler[g]
      BY <2>1, <1>0 DEF SyncTypeOK
    <2>3. crashes' \in 0..MaxCrashes
      BY <2>1, <1>0, SubscriptionAssumption DEF SyncTypeOK
    <2>4. SyncTypeOK'
      BY <2>1, <2>3, <1>0, <1>3 DEF SyncTypeOK, Handling
    <2>5. HandlersSound'
      BY <2>2, <1>4 DEF HandlerSound, IdleHandler
    <2>6. DealtWithIsCovered'
      BY <2>1, <2>2, <1>5 DEF IdleHandler
    <2>7. QED
      BY <2>1, <2>4, <2>5, <2>6, <1>1, <1>2, LogFrame DEF SyncInv
  <1>11. QED
    BY <1>6, <1>7, <1>8, <1>9, <1>10

\* The transaction that writes the row and the organisation.
LEMMA WriteStep ==
    ASSUME SyncInv, NEW h \in Handlers, Write(h)
    PROVE  SyncInv'
  <1> DEFINE e == events[handler[h].event]
             plan == handler[h].tier
  <1>0. SyncTypeOK /\ HandlersSound /\ HandlerSound(h)
    BY DEF SyncInv, HandlersSound
  <1>1. /\ handler[h].pc = "write"
        /\ row' = [row EXCEPT !.sub = IF plan = "free" /\ e.status \notin Confirmed
                                      THEN None ELSE e.sub,
                              !.status = e.status, !.last = e.at]
        /\ planTier' = plan
        /\ raced' = (raced \/ row.last # handler[h].last)
        /\ handler' = [handler EXCEPT ![h].pc = "done"]
        /\ UNCHANGED <<log, checkout, begun, made, sessions, sub, events, crashes>>
    BY DEF Write, checkouts, atStripe
  <1>2. handler[h] \in [pc : {"row", "org", "write", "done"}, event : EventIds,
                        last : 0..MaxEvents, tier : PaidTiers \cup {"free", None}]
    BY <1>0, <1>1, HandlerType
  <1>3. /\ handler[h].event \in Emitted
        /\ handler[h].last <= e.at
        /\ PlanForPrice(e.price) # None
        /\ plan \in PaidTiers \cup {"free"}
        /\ plan # "free" => PaidFor(plan)
        /\ e.status \in Confirmed => plan = PlanForPrice(e.price)
        /\ e.status \in Ended => plan = "free"
    BY <1>0, <1>1 DEF HandlerSound
  <1>4. e \in [sub : Subscriptions, customer : Customers, status : Statuses,
               price : Prices, at : 1..MaxEvents]
    BY <1>0, <1>3, EventType
  <1> HIDE DEF e, plan
  <1>5. /\ row' \in [customer : Customers \cup {None}, sub : Subscriptions \cup {None},
                     status : Statuses \cup {"none"}, last : 0..MaxEvents]
        /\ row'.customer = row.customer
        /\ row'.sub = IF plan = "free" /\ e.status \notin Confirmed THEN None ELSE e.sub
        /\ row'.status = e.status
        /\ row'.last = e.at
    <2>1. row \in [customer : Customers \cup {None}, sub : Subscriptions \cup {None},
                   status : Statuses \cup {"none"}, last : 0..MaxEvents]
      BY <1>0 DEF SyncTypeOK
    <2> DEFINE held == IF plan = "free" /\ e.status \notin Confirmed THEN None ELSE e.sub
    <2>2. /\ held \in Subscriptions \cup {None}
          /\ e.status \in Statuses \cup {"none"}
          /\ e.at \in 0..MaxEvents
      BY <1>4, SubscriptionAssumption
    <2>3. row' = [row EXCEPT !.sub = held, !.status = e.status, !.last = e.at]
      BY <1>1
    <2> HIDE DEF held
    <2>4. QED
      BY <2>1, <2>2, <2>3 DEF held
  <1>6. plan \in PaidTiers \cup {"free"}
    BY <1>3
  <1>7. /\ handler'[h] = [handler[h] EXCEPT !.pc = "done"]
        /\ \A g \in Handlers \ {h} : handler'[g] = handler[g]
    BY <1>0, <1>1 DEF SyncTypeOK
  <1>8. handler'[h] \in Handling /\ handler'[h].pc = "done" /\ handler'[h].event = handler[h].event
    BY <1>2, <1>7 DEF Handling
  <1>9. SyncTypeOK'
    <2>1. handler' \in [Handlers -> Handling]
      BY <1>0, <1>1, <1>8, <1>7 DEF SyncTypeOK
    <2>2. raced' \in BOOLEAN
      BY <1>1
    <2>3. QED
      BY <1>0, <1>1, <1>5, <1>6, <2>1, <2>2 DEF SyncTypeOK
  <1>10. HandlersSound'
    <2> SUFFICES ASSUME NEW g \in Handlers PROVE HandlerSound(g)'
      BY DEF HandlersSound
    <2>1. CASE g = h
      BY <2>1, <1>1, <1>3, <1>8 DEF HandlerSound, Emitted
    <2>2. CASE g # h
      BY <2>2, <1>0, <1>1, <1>7 DEF HandlersSound, HandlerSound, PaidFor, Emitted
    <2>3. QED
      BY <2>1, <2>2
  <1>11. CheckoutsSound'
    BY <1>1, <1>5 DEF SyncInv, CheckoutsSound
  <1>12. SessionsForTheCustomerOnFile'
    BY <1>1, <1>5, SessionFrame
  <1>13. EventsOfTheCustomer' /\ EventsInOrder'
    BY <1>1, <1>5 DEF SyncInv, EventsOfTheCustomer, EventsInOrder, Emitted
  <1>14. PlanWasPaidFor'
    BY <1>1, <1>3 DEF PlanWasPaidFor, PaidFor, Emitted
  <1>15. RowShowsAnEvent'
    <2>1. ASSUME e.status # "incomplete" PROVE Shows(e)'
      <3>1. e.status \in Confirmed \/ e.status \in Ended
        BY <2>1, <1>4 DEF Statuses
      <3>2. PlanForPrice(e.price) \in PaidTiers
        BY <1>3 DEF PlanForPrice
      <3>3. e' = e
        BY <1>1, <1>8 DEF e
      <3>4. row'.sub = IF e.status \in Ended THEN None ELSE e.sub
        BY <3>1, <1>3, <1>5 DEF Confirmed, Ended
      <3>5. planTier' = TierForStatus(e.status, PlanForPrice(e.price), planTier')
        BY <3>1, <1>1, <1>3 DEF TierForStatus, Confirmed, Ended
      <3>6. QED
        BY <3>3, <3>4, <3>5, <1>5 DEF Shows
    <2>2. e' = e /\ e' = events'[handler[h].event]
      BY <1>1, <1>8 DEF e
    <2>3. QED
      BY <2>1, <2>2, <1>1, <1>3, <1>5, ZenonT(60) DEF RowShowsAnEvent, Shows, Emitted
  <1>16. DealtWithIsCovered'
    <2> SUFFICES ASSUME ~raced'
                 PROVE  /\ \A n \in Emitted : log[n] = "processed" => Covered(n)'
                        /\ \A g \in Handlers : handler'[g].pc = "done" => Covered(handler[g].event)'
      BY <1>1 DEF DealtWithIsCovered, Emitted, Covered
    <2>1. ~raced /\ row.last = handler[h].last
      BY <1>0, <1>1 DEF SyncTypeOK
    <2>2. row.last <= row'.last
      BY <2>1, <1>3, <1>5
    <2>3. row.last \in Nat /\ row'.last \in Nat
      BY <1>0, <1>5 DEF SyncTypeOK
    <2>4. \A n \in Emitted : Covered(n) => Covered(n)'
      <3> SUFFICES ASSUME NEW n \in Emitted, events[n].at <= row.last
                   PROVE  events[n].at <= row'.last
        BY <1>1 DEF Covered
      <3>1. events[n].at \in Nat
        BY <1>0, EventType
      <3>2. QED
        BY <3>1, <2>2, <2>3
    <2>5. Covered(handler[h].event)'
      <3>1. events'[handler'[h].event] = e
        BY <1>1, <1>8 DEF e
      <3>2. e.at <= row'.last
        BY <2>3, <1>5
      <3>3. events'[handler'[h].event].at <= row'.last
        BY <3>1, <3>2
      <3>4. QED
        BY <3>3 DEF Covered
    <2>6. \A n \in Emitted : log[n] = "processed" => Covered(n)'
      BY <2>1, <2>4 DEF SyncInv, DealtWithIsCovered
    <2>7. ASSUME NEW g \in Handlers, handler'[g].pc = "done" PROVE Covered(handler[g].event)'
      <3>1. CASE g = h
        BY <3>1, <2>5, <1>1, <1>8 DEF Covered
      <3>2. CASE g # h
        <4>1. handler'[g] = handler[g]
          BY <3>2, <1>7
        <4>2. handler[g].event \in Emitted /\ Covered(handler[g].event)
          BY <4>1, <2>1, <2>7 DEF SyncInv, HandlersSound, HandlerSound, DealtWithIsCovered
        <4>3. Covered(handler[g].event)'
          BY <4>2, <2>4, <4>1 DEF Covered
        <4>4. QED
          BY <4>1, <4>3 DEF Covered
      <3>3. QED
        BY <3>1, <3>2
    <2>8. QED
      BY <2>6, <2>7
  <1>17. QED
    BY <1>9, <1>10, <1>11, <1>12, <1>13, <1>14, <1>15, <1>16, <1>1, LogFrame DEF SyncInv

\* Every step of every actor keeps the invariant.
LEMMA NextInv == SyncInv /\ [SyncNext]_syncVars => SyncInv'
  <1> SUFFICES ASSUME SyncInv, [SyncNext]_syncVars PROVE SyncInv'
    OBVIOUS
  <1>1. ASSUME NEW a \in Admins, Checkout(a) PROVE SyncInv'
    BY <1>1, CheckoutStep
  <1>2. CASE (\E c \in Customers : Subscribe(c)) \/ (\E s \in Subscriptions : ChangeSubscription(s))
    BY <1>2, StripeStep
  <1>3. ASSUME NEW h \in Handlers, Handle(h) \/ BreakOff(h) PROVE SyncInv'
    <2>1. CASE Write(h)
      BY <2>1, WriteStep
    <2>2. CASE ReadRow(h) \/ ReadOrg(h) \/ Finish(h) \/ BreakOff(h)
      <3>1. PICK n \in EventIds : TRUE
        <4>1. handler[h].pc # "idle"
          BY <2>2 DEF ReadRow, ReadOrg, Finish, BreakOff, SyncInv, SyncTypeOK, Handling
        <4>2. QED
          BY <4>1, HandlerType DEF SyncInv
      <3>2. QED
        BY <2>2, <3>1, HandlerStep
    <2>3. QED
      BY <1>3, <2>1, <2>2 DEF Handle
  <1>4. ASSUME NEW h \in Handlers, NEW n \in EventIds, Receive(h, n) PROVE SyncInv'
    BY <1>4, HandlerStep
  <1>5. CASE UNCHANGED syncVars
    <2>1. UNCHANGED <<row, planTier, log, checkout, begun, made, sessions, sub, events, handler,
                      raced, crashes>>
      BY <1>5 DEF syncVars, database, checkouts, atStripe
    <2>2. SyncTypeOK'
      BY <2>1 DEF SyncInv, SyncTypeOK
    <2>3. QED
      BY <2>1, <2>2, RowFrame, HandlerFrame, LogFrame, CoverFrame, CheckoutFrame, SessionFrame
         DEF SyncInv
  <1>6. QED
    BY <1>1, <1>2, <1>3, <1>4, <1>5 DEF SyncNext

-----------------------------------------------------------------------------
(* Subscription sync: theorems *)

\* The inductive invariant holds in every reachable state.
THEOREM InvariantHolds == SyncSpec => []SyncInv
  BY InitInv, NextInv, PTL DEF SyncSpec

\* Every variable keeps its type; the handlers' fields need the rest of the invariant.
THEOREM SyncTypeCorrect == SyncSpec => []SyncTypeOK
  <1>1. SyncInv => SyncTypeOK
    BY DEF SyncInv
  <1>2. QED
    BY InvariantHolds, <1>1, PTL

\* A paid plan was confirmed by an event about it, and the admins who raced to upgrade
\* ended up with one customer: billing.service.ts, ensureCustomer and applySubscription.
THEOREM PlansArePaidFor == SyncSpec => []PaidByTheCustomerOnFile
  <1>1. SyncInv => PaidByTheCustomerOnFile
    BY DEF SyncInv, PaidByTheCustomerOnFile
  <1>2. QED
    BY InvariantHolds, <1>1, PTL

\* Once every event is processed, the row and the plan are those of the newest event,
\* whatever order, repetition and crashes the deliveries went through.
THEOREM NewestIsShown == SyncSpec => []NewestEventWins
  <1>1. SyncInv => NewestEventWins
    <2> SUFFICES ASSUME SyncInv, events # <<>>, AllProcessed, ~raced, DistinctSeconds,
                        Newest.status # "incomplete", PlanForPrice(Newest.price) # None
                 PROVE  Shows(Newest)
      BY DEF NewestEventWins
    <2>1. Len(events) \in Emitted
      BY DEF SyncInv, SyncTypeOK, Emitted
    <2>2. Newest.at <= row.last
      BY <2>1 DEF AllProcessed, SyncInv, DealtWithIsCovered, Covered, Newest, Emitted
    <2>3. Newest.at \in 1..MaxEvents /\ row.last \in Nat
      BY <2>1, EventType DEF SyncInv, Newest, SyncTypeOK
    <2>4. PICK n \in Emitted : /\ events[n].at = row.last
                               /\ events[n].status # "incomplete" => Shows(events[n])
      BY <2>2, <2>3 DEF SyncInv, RowShowsAnEvent
    <2>5. n <= Len(events)
      BY <2>4 DEF Emitted
    <2>6. events[n].at <= Newest.at
      BY <2>1, <2>4, <2>5 DEF SyncInv, EventsInOrder, Newest
    <2>7. events[n].at = Newest.at
      BY <2>2, <2>3, <2>4, <2>6
    <2>8. n = Len(events)
      BY <2>1, <2>4, <2>7 DEF DistinctSeconds, Newest, Emitted
    <2>9. QED
      BY <2>4, <2>8 DEF Newest
  <1>2. QED
    BY InvariantHolds, <1>1, PTL

\* Only two overlapping handlers can move the row back to an older event: the action
\* property behind "an older event arriving late never overwrites newer state".
THEOREM OnlyARaceMovesTheRowBack == SyncSpec => [][raced' \/ row'.last >= row.last]_row
  <1>1. SyncInv /\ [SyncNext]_syncVars => [raced' \/ row'.last >= row.last]_row
    <2> SUFFICES ASSUME SyncInv, SyncNext, ~raced', row' # row PROVE row'.last >= row.last
      BY DEF syncVars, database
    <2>1. row.last \in Nat
      BY DEF SyncInv, SyncTypeOK
    <2>2. (\E h \in Handlers : Write(h)) \/ (\E a \in Admins : InsertRow(a))
      BY ZenonT(60) DEF SyncNext, Checkout, CheckoutBegin, FindCustomer, CreateCustomer, OpenSession, Subscribe,
             ChangeSubscription, Emit, Handle, ReadRow, ReadOrg, Finish, BreakOff, Receive, database
    <2>3. ASSUME NEW a \in Admins, InsertRow(a) PROVE row'.last >= row.last
      <3>1. Emitted = {}
        BY <2>3, NoCustomerNoEvents DEF InsertRow, SyncInv
      <3>2. row.last = 0
        BY <3>1 DEF SyncInv, RowShowsAnEvent
      <3>3. row'.last = 0
        BY <2>3 DEF InsertRow, NoRow
      <3>4. QED
        BY <3>2, <3>3
    <2>4. ASSUME NEW h \in Handlers, Write(h) PROVE row'.last >= row.last
      <3>1. row'.last = events[handler[h].event].at /\ row.last = handler[h].last
        BY <2>4 DEF Write, SyncInv, SyncTypeOK
      <3>2. handler[h].last <= events[handler[h].event].at
        BY <2>4 DEF Write, SyncInv, HandlersSound, HandlerSound
      <3>3. QED
        BY <3>1, <3>2
    <2>5. QED
      BY <2>2, <2>3, <2>4
  <1>2. QED
    BY InvariantHolds, <1>1, PTL DEF SyncSpec
=============================================================================
