--------------------------- MODULE WebhookDelivery ---------------------------
(***************************************************************************)
(* Outgoing webhooks (apps/api): webhooksService queues one row per event  *)
(* and endpoint, the worker of every API replica polls the table, claims a *)
(* row with a conditional update that hides it for a lease, POSTs it and   *)
(* records the outcome.  Managers retry, test, disable and remove.         *)
(*                                                                         *)
(* A nextAttemptAt is a stamp: two writes never give the same instant.     *)
(* `due` says whether that instant has passed.                             *)
(***************************************************************************)
EXTENDS Integers, FiniteSets

CONSTANTS
    Replicas,       \* API replicas, each running one worker
    Api,            \* the request handlers: they send the test events
    Endpoints,
    Events,         \* internal events handed to dispatchFromEvent
    TestEvent,      \* webhook.test
    MaxAttempts,    \* MAX_DELIVERY_ATTEMPTS
    SlowReceivers,  \* whether a response may take longer than the lease
    MaxQueued,      \* bound: events and tests queued
    MaxRetries,     \* bound: manual retries of a delivery
    MaxCrashes      \* bound: process deaths

ASSUME WebhookAssumption ==
    /\ IsFiniteSet(Replicas)
    /\ Api \notin Replicas
    /\ TestEvent \notin Events
    /\ MaxAttempts \in Nat \ {0}
    /\ SlowReceivers \in BOOLEAN
    /\ MaxQueued \in Nat
    /\ MaxRetries \in Nat
    /\ MaxCrashes \in Nat

Senders == Replicas \cup {Api}
Deliveries == Endpoints \X (Events \cup {TestEvent})

VARIABLES
    endpoint,   \* endpoint[e]: "on" or "off" (isActive), "removed"
    row,        \* row[d]: the webhook_deliveries row, or NoRow
    attempt,    \* attempt[w][d]: what sender w is doing with d
    dispatch,   \* dispatch[v]: the endpoints dispatchFromEvent read for event v
    tested,     \* endpoints that were sent a test event (bound: one each)
    retrying,   \* deliveries whose retryDelivery has passed its check
    stamps,     \* stamps handed out
    retried,    \* retried[d]: manual retries applied so far
    sends,      \* sends[d]: POSTs made
    accepted,   \* deliveries some POST of which got a 2xx answer
    crashes

managers == <<retrying, retried>>
receiver == <<sends, accepted>>
queue == <<dispatch, tested>>
vars == <<endpoint, row, attempt, queue, managers, stamps, receiver, crashes>>

NoRow == [status |-> "none"]
NoAttempt == [pc |-> "none"]
NotDispatched == [pc |-> "new"]

HasRow(d) == row[d] # NoRow

\* Claimed or handed to attemptDelivery, outcome not recorded.
InFlight(w, d) == attempt[w][d].pc \in {"send", "record"}

\* Its POST has been made and w waits for the end of the response.
Posted(w, d) == attempt[w][d].pc = "record"

-----------------------------------------------------------------------------
(* State *)

Row == {NoRow} \cup
       [status : {"pending", "delivered", "dead"}, attempts : 0..MaxAttempts,
        next : Nat, due : BOOLEAN]

Attempt == {NoAttempt} \cup
           [pc : {"claim", "send", "record"}, attempts : 0..MaxAttempts, next : Nat,
            on : BOOLEAN, answer : {"none", "2xx", "410", "error"}]

\* The type invariant; attempts never exceed MAX_DELIVERY_ATTEMPTS.
TypeOK ==
    /\ endpoint \in [Endpoints -> {"on", "off", "removed"}]
    /\ row \in [Deliveries -> Row]
    /\ attempt \in [Senders -> [Deliveries -> Attempt]]
    /\ dispatch \in [Events -> {NotDispatched} \cup
                               [pc : {"read", "done"}, to : SUBSET Endpoints]]
    /\ tested \subseteq Endpoints
    /\ retrying \subseteq Deliveries
    /\ stamps \in Nat
    /\ retried \in [Deliveries -> 0..MaxRetries]
    /\ sends \in [Deliveries -> Nat]
    /\ accepted \subseteq Deliveries
    /\ crashes \in 0..MaxCrashes

Init ==
    /\ endpoint = [e \in Endpoints |-> "on"]
    /\ row = [d \in Deliveries |-> NoRow]
    /\ attempt = [w \in Senders |-> [d \in Deliveries |-> NoAttempt]]
    /\ dispatch = [v \in Events |-> NotDispatched]
    /\ tested = {}
    /\ retrying = {}
    /\ stamps = 0
    /\ retried = [d \in Deliveries |-> 0]
    /\ sends = [d \in Deliveries |-> 0]
    /\ accepted = {}
    /\ crashes = 0

Queued == Cardinality({v \in Events : dispatch[v] # NotDispatched}) + Cardinality(tested)

-----------------------------------------------------------------------------
(* Queueing: dispatchFromEvent and sendTest *)

\* The active endpoints are read ...
DispatchRead(v) ==
    /\ dispatch[v] = NotDispatched /\ Queued < MaxQueued
    /\ dispatch' = [dispatch EXCEPT ![v] =
                        [pc |-> "read", to |-> {e \in Endpoints : endpoint[e] = "on"}]]
    /\ UNCHANGED <<endpoint, row, attempt, tested, managers, stamps, receiver, crashes>>

\* ... and the rows are created in one createMany.  An endpoint removed in between
\* breaks the foreign key of the whole statement: no row is created.
DispatchCreate(v) ==
    LET to == dispatch[v].to IN
    /\ dispatch[v].pc = "read"
    /\ dispatch' = [dispatch EXCEPT ![v].pc = "done"]
    /\ IF \E e \in to : endpoint[e] = "removed"
       THEN UNCHANGED row
       ELSE row' = [d \in Deliveries |->
                        IF d[2] = v /\ d[1] \in to /\ ~HasRow(d)
                        THEN [status |-> "pending", attempts |-> 0, next |-> 0, due |-> TRUE]
                        ELSE row[d]]
    /\ UNCHANGED <<endpoint, attempt, tested, managers, stamps, receiver, crashes>>

\* sendTest creates a row that is not due for five minutes and attempts it at once.
SendTest(e) ==
    LET d == <<e, TestEvent>> IN
    /\ endpoint[e] # "removed"
    /\ e \notin tested /\ Queued < MaxQueued
    /\ tested' = tested \cup {e}
    /\ row' = [row EXCEPT ![d] = [status |-> "pending", attempts |-> 0, next |-> 0, due |-> FALSE]]
    /\ attempt' = [attempt EXCEPT ![Api][d] =
                       [pc |-> "send", attempts |-> 0, next |-> 0,
                        on |-> endpoint[e] = "on", answer |-> "none"]]
    /\ UNCHANGED <<endpoint, dispatch, managers, stamps, receiver, crashes>>

-----------------------------------------------------------------------------
(* The worker *)

\* The poll's WHERE clause.
IsDueBelowLimit(r) == r.status = "pending" /\ r.due /\ r.attempts + 1 < MaxAttempts
IsDue(r) == r.status = "pending" /\ r.due

\* processDueDeliveries: one query reads the due rows with their endpoints (no more than
\* BATCH_SIZE, which the instances never reach).  tick does not run again before
\* everything it read has settled.
Poll(w) ==
    LET Due == {d \in Deliveries : HasRow(d) /\ IsDue(row[d])} IN
    /\ \A d \in Deliveries : attempt[w][d] = NoAttempt
    /\ Due # {}
    /\ attempt' = [attempt EXCEPT ![w] =
                       [d \in Deliveries |->
                           IF d \in Due
                           THEN [pc |-> "claim", attempts |-> row[d].attempts,
                                 next |-> row[d].next, on |-> endpoint[d[1]] = "on",
                                 answer |-> "none"]
                           ELSE NoAttempt]]
    /\ UNCHANGED <<endpoint, row, queue, managers, stamps, receiver, crashes>>

\* The claim's WHERE clause.
ClaimAnyPending(r, a) == r.status = "pending"
ClaimMatches(r, a) == r.status = "pending" /\ r.attempts = a.attempts /\ r.next = a.next

Claim(w, d) ==
    LET a == attempt[w][d] IN
    /\ a.pc = "claim"
    /\ \/ /\ HasRow(d) /\ ClaimMatches(row[d], a)
          /\ stamps' = stamps + 1
          /\ row' = [row EXCEPT ![d].next = stamps', ![d].due = FALSE]
          /\ attempt' = [attempt EXCEPT ![w][d].pc = "send", ![w][d].next = stamps']
       \/ /\ ~(HasRow(d) /\ ClaimMatches(row[d], a))
          /\ attempt' = [attempt EXCEPT ![w][d] = NoAttempt]
          /\ UNCHANGED <<row, stamps>>
    /\ UNCHANGED <<endpoint, queue, managers, receiver, crashes>>

\* A nextAttemptAt passes.  Unless receivers may answer slowly, an attempt is over
\* before the lease it holds is: the lease is 2 minutes (5 for a test), the socket
\* timeout 8 seconds.
TimePasses(d) ==
    /\ HasRow(d) /\ row[d].status = "pending" /\ ~row[d].due
    /\ SlowReceivers \/ \A w \in Senders :
                            ~(InFlight(w, d) /\ attempt[w][d].next = row[d].next)
    /\ row' = [row EXCEPT ![d].due = TRUE]
    /\ UNCHANGED <<endpoint, attempt, queue, managers, stamps, receiver, crashes>>

-----------------------------------------------------------------------------
(* attemptDelivery *)

AttemptNumber(a) == a.attempts + 1

ExhaustedTooLate(d, n) == n > MaxAttempts \/ d[2] = TestEvent
Exhausted(d, n) == n >= MaxAttempts \/ d[2] = TestEvent

\* The row was deleted meanwhile: the update throws and nothing is written.
RowWritten(w, d, newRow) ==
    row' = IF HasRow(d) THEN [row EXCEPT ![d] = newRow] ELSE row

EndAttempt(w, d) == attempt' = [attempt EXCEPT ![w][d] = NoAttempt]

\* The endpoint was disabled when the row was read: dead without a POST.
SkipDisabled(w, d) ==
    LET a == attempt[w][d] IN
    /\ a.pc = "send" /\ ~a.on
    /\ RowWritten(w, d, [row[d] EXCEPT !.status = "dead", !.attempts = AttemptNumber(a)])
    /\ EndAttempt(w, d)
    /\ UNCHANGED <<endpoint, queue, managers, stamps, receiver, crashes>>

\* The POST: the receiver sees it whatever comes back.
Post(w, d) ==
    /\ attempt[w][d].pc = "send" /\ attempt[w][d].on
    /\ sends' = [sends EXCEPT ![d] = @ + 1]
    /\ \E answer \in {"2xx", "410", "error"} :
          /\ accepted' = IF answer = "2xx" THEN accepted \cup {d} ELSE accepted
          /\ attempt' = [attempt EXCEPT ![w][d].pc = "record", ![w][d].answer = answer]
    /\ UNCHANGED <<endpoint, row, queue, managers, stamps, crashes>>

RecordDelivered(w, d) ==
    LET a == attempt[w][d] IN
    /\ a.pc = "record" /\ a.answer = "2xx"
    /\ RowWritten(w, d, [row[d] EXCEPT !.status = "delivered", !.attempts = AttemptNumber(a)])
    /\ EndAttempt(w, d)
    /\ UNCHANGED <<endpoint, queue, managers, stamps, receiver, crashes>>

\* 410 Gone: one transaction kills the delivery and switches the endpoint off.
RecordGone(w, d) ==
    LET a == attempt[w][d] IN
    /\ a.pc = "record" /\ a.answer = "410"
    /\ RowWritten(w, d, [row[d] EXCEPT !.status = "dead", !.attempts = AttemptNumber(a)])
    /\ endpoint' = IF HasRow(d) THEN [endpoint EXCEPT ![d[1]] = "off"] ELSE endpoint
    /\ EndAttempt(w, d)
    /\ UNCHANGED <<queue, managers, stamps, receiver, crashes>>

RecordFailure(w, d) ==
    LET a == attempt[w][d]
        n == AttemptNumber(a) IN
    /\ a.pc = "record" /\ a.answer = "error"
    /\ \/ /\ Exhausted(d, n)
          /\ RowWritten(w, d, [row[d] EXCEPT !.status = "dead", !.attempts = n])
          /\ UNCHANGED stamps
       \/ /\ ~Exhausted(d, n)
          /\ stamps' = stamps + 1
          /\ RowWritten(w, d, [status |-> "pending", attempts |-> n, next |-> stamps', due |-> FALSE])
    /\ EndAttempt(w, d)
    /\ UNCHANGED <<endpoint, queue, managers, receiver, crashes>>

-----------------------------------------------------------------------------
(* Managers, retention and crashes *)

\* retryDelivery reads the row and refuses a delivered one ...
RetryCheck(d) ==
    /\ retried[d] < MaxRetries
    /\ HasRow(d) /\ row[d].status # "delivered"
    /\ retrying' = retrying \cup {d}
    /\ UNCHANGED <<endpoint, row, attempt, queue, stamps, retried, receiver, crashes>>

\* ... then resets it by id, whatever it has become.
RetryApply(d) ==
    /\ d \in retrying
    /\ retrying' = retrying \ {d}
    /\ IF HasRow(d)
       THEN /\ stamps' = stamps + 1
            /\ row' = [row EXCEPT ![d] =
                           [status |-> "pending", attempts |-> 0, next |-> stamps', due |-> TRUE]]
            /\ retried' = [retried EXCEPT ![d] = @ + 1]
       ELSE UNCHANGED <<row, stamps, retried>>
    /\ UNCHANGED <<endpoint, attempt, queue, receiver, crashes>>

\* update: isActive switched either way.
SwitchEndpoint(e) ==
    /\ endpoint[e] # "removed"
    /\ endpoint' = [endpoint EXCEPT ![e] = IF @ = "on" THEN "off" ELSE "on"]
    /\ UNCHANGED <<row, attempt, queue, managers, stamps, receiver, crashes>>

\* remove: the rows go with the endpoint (onDelete: Cascade).
RemoveEndpoint(e) ==
    /\ endpoint[e] # "removed"
    /\ endpoint' = [endpoint EXCEPT ![e] = "removed"]
    /\ row' = [d \in Deliveries |-> IF d[1] = e THEN NoRow ELSE row[d]]
    /\ UNCHANGED <<attempt, queue, managers, stamps, receiver, crashes>>

\* cleanupOldDeliveries: rows of the past 30 days stay, pending ones always.
Cleanup(d) ==
    /\ HasRow(d) /\ row[d].status \in {"delivered", "dead"}
    /\ row' = [row EXCEPT ![d] = NoRow]
    /\ UNCHANGED <<endpoint, attempt, queue, managers, stamps, receiver, crashes>>

Crash(w) ==
    /\ crashes < MaxCrashes
    /\ \E d \in Deliveries : attempt[w][d] # NoAttempt
    /\ crashes' = crashes + 1
    /\ attempt' = [attempt EXCEPT ![w] = [d \in Deliveries |-> NoAttempt]]
    /\ UNCHANGED <<endpoint, row, queue, managers, stamps, receiver>>

-----------------------------------------------------------------------------

AttemptStep(w, d) ==
    \/ SkipDisabled(w, d)
    \/ Post(w, d)
    \/ RecordDelivered(w, d)
    \/ RecordGone(w, d)
    \/ RecordFailure(w, d)

Next ==
    \/ \E v \in Events : DispatchRead(v) \/ DispatchCreate(v)
    \/ \E e \in Endpoints : SendTest(e) \/ SwitchEndpoint(e) \/ RemoveEndpoint(e)
    \/ \E w \in Replicas : Poll(w) \/ \E d \in Deliveries : Claim(w, d)
    \/ \E w \in Senders : Crash(w) \/ \E d \in Deliveries : AttemptStep(w, d)
    \/ \E d \in Deliveries : TimePasses(d) \/ RetryCheck(d) \/ RetryApply(d) \/ Cleanup(d)

Spec == Init /\ [][Next]_vars

\* Workers poll on an interval, a claimed attempt goes on to its outcome, time passes.
Fairness ==
    /\ \A w \in Replicas : WF_vars(Poll(w)) /\ \A d \in Deliveries : WF_vars(Claim(w, d))
    /\ \A w \in Senders, d \in Deliveries : WF_vars(AttemptStep(w, d))
    /\ \A d \in Deliveries : WF_vars(TimePasses(d))

FairSpec == Spec /\ Fairness

-----------------------------------------------------------------------------
(* Properties *)

\* "two API replicas polling the same table never send the same delivery twice"
\* (webhook-delivery.worker.ts:17-21): as long as attempts end within their lease,
\* only a manual retry can put a second attempt in flight beside the first.
OneAttemptInFlight ==
    \A d \in Deliveries :
        Cardinality({w \in Senders : InFlight(w, d)}) <= 1 + retried[d]

\* The receiver sees a delivery at most MAX_DELIVERY_ATTEMPTS times (once for a test)
\* per attempt budget, plus once per crash: a retry loop never hammers an endpoint
\* ("8 attempts, then marked dead", docs/INTEGRATIONS.md:23).
Budget(d) == IF d[2] = TestEvent THEN 1 ELSE MaxAttempts

SendsWithinBudget ==
    \A d \in Deliveries : sends[d] <= Budget(d) * (1 + retried[d]) + crashes

\* A delivery the receiver accepted is not reported dead, unless a manual retry or a
\* crash made the worker send it again.
DeadWasNotAccepted ==
    \A d \in Deliveries :
        row[d].status = "dead" /\ d \in accepted => retried[d] > 0 \/ crashes > 0

\* What is recorded of a delivery agrees with what the receiver saw of it.
RecordAgrees == SendsWithinBudget /\ DeadWasNotAccepted

\* Every queued delivery ends up delivered or dead, or its row is removed.
EventuallySettled ==
    \A d \in Deliveries : (row[d].status = "pending") ~> (row[d].status # "pending")

\* The same comment, of the workers alone and however long a receiver takes: two
\* replicas never have the same delivery posted at once while nobody retried it by hand.
NeverSentTwiceAtOnce ==
    \A d \in Deliveries :
        retried[d] = 0 => Cardinality({w \in Replicas : Posted(w, d)}) <= 1

=============================================================================
