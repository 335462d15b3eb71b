# Loop: a TLA+ verification project

Loop is a multi-tenant customer-support SaaS. Its API (`apps/api`, Express and
Prisma over PostgreSQL and Redis) may run as several replicas, each with its own
background workers; a Java service (`apps/semantic-cache`) caches AI answers; a Python
service (`apps/ai-service`) writes them and keeps the vector index; a Next.js client
(`apps/web`) shows it all, and a script (`public/widget/widget.js`) puts a chat on the
customers' own sites. Stripe, Gmail, Kafka, Shopify and the receivers of webhooks are
outside.

The modules here are written from the source under `apps/`. What they look at is what
the unit tests of the repository hardly reach: replicas that work on the same table,
awaits between a check and its write, crashes between an external effect and its
record, late and repeated deliveries, timeouts that race answers, answers that arrive in
another order than their requests.

## 1. Inventory

| Component | State it keeps | Operations | Hard behaviour | What makes it correct | Modelled in |
|---|---|---|---|---|---|
| Usage metering (`modules/billing/{overage,usage,entitlements}.service.ts`) | `usage_counters` (replies, overage, reported), `subscription.overageEnabled` | `consumeAiReply`, `tryConsume`, `flush`, `flushPending`, `setOverage` | racing flushes, failed meter events, crashes, end of month | no unit billed twice, skipped or above the cap; every counted unit billed | `UsageMetering`, `MeteredBilling` |
| Subscription sync (`billing.service.ts`, `plans.ts`) | `subscriptions`, `stripe_events`, `organization.planTier` | `createCheckout`, `ensureCustomer`, `processEvent`, `applySubscription` | late, repeated, reordered events; overlapping handlers; two admins | plan was paid for; newest state wins; one customer | `SubscriptionSync` |
| Outgoing webhooks (`modules/webhooks`, `webhook-delivery.worker.ts`) | `webhook_endpoints`, `webhook_deliveries` | `dispatchFromEvent`, poll, claim, `attemptDelivery`, `sendTest`, `retryDelivery`, `update`, `remove`, clean-up | replicas, leases, retries, crashes, removal meanwhile | one attempt at a time, bounded attempts, everything settles | `WebhookDelivery` |
| Status e-mails (`email-outbox.worker.ts`) | `email_outbox_events` | `pollOutbox`, `processEvent` | replicas without a claim, crashes, stale reads | given up only after all attempts; copies explained; rows decided | `StatusEmails` |
| Miss admission (`RequestCoalescer`, `LlmRequestScheduler`, `SemanticCacheService.onMiss`) | leases, futures, slots, queue | `begin`, `complete`, `fail`, `clear`, `acquire`, `release`, `ageWaiters` | threads, timers and callbacks in any order | slots conserved, one owner per key, nobody parked for ever | `MissAdmission` |
| Semantic cache and knowledge base (`SemanticCacheService`, `LruCache`, `LshIndex`, `BloomFilter`, `RedisCacheStore`, `KbVersionRegistry`; `knowledge.service.ts`; `vector_store.py`, `indexing.py`) | L1, LSH buckets, the organisation's keys, Redis, `kbVersion`; articles and their chunks | `lookup`, `store`, `invalidateOrg`, sweep, eviction, `clearAll`; create, update, delete, index | store against invalidate, sweep against promote, edit against answer, outages of Redis | no answer of an old knowledge base; a purge finds every entry; the index follows the rows | `KnowledgeCache` |
| AI replies (`widget/ai-reply.service.ts`, `escalations`) | messages, `ticket.tags`, `ticket_escalations` | `run`, `escalate`, `markHandoff`, `requestHuman`, tag rules | retried messages, overlapping runs, tags written from stale reads | one reply per message, serious matters escalated, the hand-over mark survives | `AiReply`, `Desk` |
| Accounts (`auth.service.ts`, `invitations`, `users`, `api-keys`) | users, refresh tokens, sessions, codes, links, devices, invitations, keys | register, login, verify, resend, refresh, logout, logoutAll, revoke, verify e-mail, forgot, reset; invite, accept, revoke; role, activation; create and revoke a key | rotation races, several codes at once, sign-in under way during a reset, count-then-add | a secret works once, signing out reaches every session, seats and owners within the rules | `Accounts` |
| Tickets, customers, macros, teams, call requests (`tickets.service.ts` and others) | tickets, messages, outbox and audit rows, customers, call requests | create, update, reply, macro, merge, delete, assign, bulk change, track, rate, call | whole lists written from stale reads, reads outside the transaction, merge against create | what is told of a change is a change; nothing goes to a customer who is gone | `Tickets`, `Desk` |
| SLA and automations (`sla`, `automations`, `sla-automation.worker.ts`) | SLA flags, run logs | `automationEngine.run`, `sweepBreachesAndEscalations`, `tick` | rules judged by an old row, sweep against agents, a tick that ends halfway | each due ticket gets its rules once, no other does | `Automations` |
| Gmail (`email-integrations`, `gmail-sync.worker.ts`) | connections with tokens and checkpoint, inbound messages, reply tokens, threads | connect, disconnect, settings, sync, poll, ingest, reply | overlapping syncs, lost history, refresh against disconnect, two mails at once | each mail becomes one ticket or message, none is passed over, answers find their ticket | `Inbox` |
| Chat widget (`widget.js`, `widget.service.ts`, `chat-attachments`) | the widget's token and conversation; messages, attachments, stored files | open, begin, send, retry, upload, link, `sweepOrphans` | retries after lost answers, sweep against link | a message arrives once, with its files | `Conversations` |
| Forms, public API, imports, sample data, evaluations, CSAT, Shopify | forms, leads, tickets, in-process sets | see the module | count-then-add, repeated requests, sets in one process's memory | one ticket per request or row; limits hold | `Intake` |
| Web client (`apps/web/src`) | React Query cache, requests, typed text | every query and mutation of every screen | stale refetches, lost answers, missed pushes, double presses | people see their own changes, keep what they typed, send it once | `Screens`, `Client` |
| Canned responses, analytics, AI traces, organisation profile, ticket tracking | rows | one-row writes and reports | the last write wins | - | not modelled |
| Event bus and sockets | - | best-effort fan-out | news that is missed | - | its two legs: `WebhookDelivery`, `Client` |
| Infrastructure, schema, shared types | - | - | - | - | not modelled |

How they interact. A customer's message (Conversations, Inbox, Intake, Tickets) makes the API
ask for an AI reply (AiReply): `consumeAiReply` takes a unit (UsageMetering), the Python service
asks the cache (KnowledgeCache; for a miss MissAdmission: the first miss of a question owns it,
the others wait), the answer is stored and the lease released. The plan that sets the allowance
follows Stripe (SubscriptionSync; UsageMetering takes plan and status changes as arbitrary
steps, so it holds whatever SubscriptionSync does). Ticket changes run automation rules
(Automations), publish events that become webhook deliveries (WebhookDelivery) and pushes
(Client), and, for a status, leave an outbox row (StatusEmails).

The composed modules are `Desk` (which extends `Automations`, which extends `Tickets`: one
Next for agents, rules, sweeps and customers on the same rows) and `Intake` (which extends
`Conversations`, which extends `Inbox`: the channels from outside, with one pool of requests).
The rest share the database and nothing else, and no lock or transaction spans two of them.

## 2. Modules and the code

All modules follow the same reading of the code. An `await`, a thread switch or a
callback is a step boundary; a statement of SQL, a Prisma transaction, a map operation
and what runs under a lock are one step. Two reads, or a read and a write, are folded into one
step only where no step of another process changes what they look at. A process that is between
two awaits has a record with its `pc` and what it has read, so a value read before an await is
the old one after it. A crash forgets that record and nothing else. A throw goes where the code's
`catch` goes. Counters and sets that only the properties need (`met`, `raced`, `put`, ...) are
said to be so where they are declared.

In the newer modules (`Accounts` onwards below) every request, whatever it asks for, is a number
`r`; `job[r]` says what it asks for, and a row that it creates bears its number. `met` holds the
pairs of requests that were in flight at the same time, so that a property can say "unless these
two overlapped". `Areas` is a set of sets of jobs: a behaviour takes its requests from one of
them. It bounds which kinds of requests happen together, never how they interleave.

* `MeteredBilling` is the abstract specification: extra replies are counted one at a
  time below some plan's cap, and counted replies are billed, each once.
* `UsageMetering`: `req[r]` is a request inside `consumeAiReply`, `flush[w]` a call of
  `overageService.flush` by a request or a sweep, `rows[s]` the rest of a sweep's query.
  `seen` and `charges` are Stripe: it adds up an event unless it knows its identifier.
  That deduplication is external, and the model takes it to hold for ever.
* `WebhookDelivery`: `row[d]` is a row of `webhook_deliveries`, `attempt[w][d]` what a
  replica, or the request that sends a test, is doing with it. `nextAttemptAt` is a
  stamp, new at every write, with a flag that says whether it has passed: the claim
  compares stamps. With `SlowReceivers = FALSE` an attempt ends before its lease (2
  minutes against a socket timeout of 8 seconds); with `TRUE` it need not.
* `SubscriptionSync`: one organisation, `row` its `subscriptions` row; `events` what
  Stripe emitted, of which any may be delivered at any time, again and again, until
  its `log` entry says processed; `handler[h]` a webhook request inside `applySubscription`.
* `MissAdmission`: a lease bears the name of the request that owns it. `byKey`, `byLease`
  and `future` are the coalescer; `active`, `queue`, `admitted` the scheduler; `holds` is
  `leaseHoldsSlot`. The queue is a set of waiters, each with the instant at which it came
  (`enqueuedAt`): the order is that of the code's comparator, priority first. The callbacks on a lease's future (`Cleanup`, `ReleaseSlot`) and on a
  waiter's (`Publish`) are steps of their own: the code promises no order between them.
* `StatusEmails`: `update[a]` is a ticket update between its read and its transaction,
  `worker[w]` a replica with the rest of its batch, of which the first created comes next.
* `AiReply`: one conversation. `log` holds what the visitor and agents wrote, `replies[m]`
  the row stored under `ai:<m>`. `run[r]` is the request that posts a message and the AI
  run it starts, with what that run has read (`tags`, `closed`, the first `seen` messages);
  `was` is what `escalate` has read for itself. `rule[r]` is an automation rule that adds a tag,
  `press[h]` a press of "Talk to a human". Every one of them writes `tags` whole, from its
  own read. A message is a member of `Kinds`: what the keyword rules find in it. The call
  to the AI service is folded into the step that takes the allowance, and the start of a
  run into the insert of its message: nothing another process sees lies between. The
  severity is that of all texts read, of which the code takes the last six; no instance has
  more. `Abort` is both a query that throws and a process that dies.
* `Accounts`: `live` and `holder` are the `refresh_token:` keys of Redis, `row` the session
  rows beside them: the code writes and removes the two one after the other. `code` holds the
  sign-in challenges, `link` the verification and reset links, `inv`, `key`, `device` their
  tables. A password is the name of the request that set it.
* `KnowledgeCache`: a text is named by the edit that wrote it and an answer by the request that
  generated it, with the chunks it rests on in `answer`. `l1`, `recency`, `lsh`, `keysByOrg`,
  `bloom`, `local` are one process of the cache, `redis`, `orgIndex`, `version` the store it
  shares, `index` the vector store. A key is a question with a version.
* `Tickets`, `Automations`, `Desk`: `ticket`, `msg`, `ev`, `cust`, `call`, `esc`, `rate` are the
  tables. `Tickets` has the handlers of a ticket, `Automations` the engine that runs the rules of
  a trigger and the tick of the SLA worker, `Desk` customers, calls, escalations, ratings and
  staff, and the composition. `now` counts periods, in which the deadlines of the SLA are given.
* `Inbox`: a mail has a thread, a header, a token and a number, each present or not: the
  four signals by which `gmail-thread.service.ts` looks for its ticket. `conn[a]` is the connection
  of a Google account, `mem[r].conn` the copy that a sync works with, `kept` how far back Google's history
  goes, `cut` the mails that a sync's list (the most recent ones, or one page of the history) left out.
* `Conversations`: `w` is the widget's own memory (token, conversation, files), `chat` the
  messages, `frow` the rows and `stored` the bytes of files.
* `Intake`: `form`, `person`, `got` (tickets), `said` (messages), `busy` (`importsInFlight` and
  `runningOrgs`, by API process), `cases`, `shop`, `rating`. Its Next is that of all channels.
* `Screens` is a table: for each hook the key of its query or what its mutation writes and which
  keys it tells are out of date, for each screen the hooks it uses and the way its controls
  are guarded. `Client` gives behaviour to one area of it, a screen, a query and some controls (`Areas`): the query's
  cache, the requests of its controls, a text field, and the pushes. `MCClient` makes the areas out of the
  table; those that differ in names only are run once (`Shape`).
* `AiReply_proofs`, `Accounts_proofs`, `Intake_proofs`, `Client_proofs`: the theorems about the module of that name
  (section 5). `Billing_proofs` has those of `UsageMetering`
  and `SubscriptionSync`, the two halves of billing; the latter has a specification of its own, `SyncSpec`.
  `Outgoing_proofs` has those of `WebhookDelivery` and `StatusEmails` (`EmailSpec`), what the platform sends on its own.
  `SemanticCache_proofs` has those of `MissAdmission` and `KnowledgeCache`, the two halves of the cache, in the same way (`CacheSpec`).
  `Channels_proofs` goes on from `Intake_proofs` with those of `Inbox` and `Conversations`: neither has a Next of its own, both run in that of `Intake`.
* The `MC...` modules give the constants values for TLC and say which requests come together.

## 3. Runs

| Run | Instance | What it shows |
|---|---|---|
| `usage` | one organisation, one request slot, one sweep, caps 1 and 2, batch 2, 3 months, 4 units, 2 faults | `UsageMetering` implements `MeteredBilling`; `ReportedWereBilled`, `MarkOnlyAdvances`; counted units are billed before the sweep stops looking at their month |
| `webhooks` | two replicas and the test sender, one endpoint, one event or test, 2 attempts, 1 manual retry, 1 crash | one attempt in flight; POSTs stay within the budget and an accepted delivery is not reported dead (`RecordAgrees`); all settle |
| `subscriptions` | two admins, two handlers, one subscription, two customers, one configured and one unconfigured price, 2 events, 1 crash | the plan was paid for and one customer is kept (`PaidByTheCustomerOnFile`), the newest event wins when handlers do not overlap, all events are processed |
| `subscriptions_live` | one admin, one handler, two subscriptions, 4 events | **violation**: a live subscription loses its plan to the end of another |
| `admission` | three requests on two keys, one slot, one place in the queue, one `clearAll` | slots are conserved and none idles beside a waiter (`SlotsAreUsed`), one owner per key and nothing left behind (`LeasesHold`), nobody waits on what cannot move (`NobodyIsStranded`) |
| `emails` | one agent, two replicas, 2 rows, 2 attempts, 1 fault | rows are given up only after all attempts and copies are explained (`OutboxHolds`); rows are decided unless a fault strands them |
| `ai_reply` | two requests over two messages (so a retry, or two messages), three kinds, one press, one tag rule, allowance 1, one act of the staff or fault | a message is answered and charged once and nothing after an agent's reply (`AnswersAreDue`), serious matters are escalated, and a promised hand-over leaves its mark |
| `accounts` | up to three requests of one of 7 areas, two owners, one row of each kind, one fault, one expiry | codes, links and tokens work once, signing out everywhere reaches every session, seats and owners stay within the rules, but for overlaps that are named |
| `knowledge` | up to three requests of one of 6 areas on one article and two questions, an L1 of one entry, mishaps in some areas | an answer from before an edit or a purge is not given after it; the index follows the articles |
| `desk` | up to three requests or sweeps of one of 12 areas on one ticket, 8 rules, 2 periods, faults in some areas | the first response, escalations, calls and contacts are noted once; each due ticket gets its rules; tags, events and customers survive |
| `channels` | up to three processes of one of 24 areas, two mails, faults in some areas | a mail, a chat message, a form, an API call or an imported row becomes one ticket or message, with its files; connections, limits and evaluations hold |
| `client` | every screen, one of its queries and one or two of its controls, 2 changes, 2 calls, 2 openings | people see their own changes, keep what they typed and send it once |

Several properties have a name of their own in their module and are conjuncts of the one a run
lists: each states what one actor may rely on (`MailsHold` is `MailBecomesOneTicket` and
`CheckpointHidesNothing`, and so on), and the comment above each part names the code it is about.

Bounds. They are chosen so that the races the properties are about happen. Two replicas
are enough to race for a row, as all replicas run the same code and meet only in the
table; a third adds a second loser. Two attempts show the first retry and the last;
the real limits (8 and 5) only repeat the step between. In `usage` one request slot
and the sweep give two flushes at once; three months let a month leave the sweep's
window; a cap of 2 with batch 2 lets a flush fail before, between and after its
events. One place in the queue of `admission` never asks for its order; nothing there depends on it,
and the theorems hold for any queue. Crashes and faults are counted because each only resets a record: with one, or
two, every step can be hit. In `webhooks` the event and the test are alternatives
(`MaxQueued = 1`), since rows meet only through their endpoint's switch.

In `accounts`, `knowledge`, `desk` and `channels` three requests (`MaxReq`) let two overlap with
a third before or after both, or all three overlap: the shape of every anomaly we know of in
this code is two requests and an observer. Requests of different areas never write what
the other reads, which is how the areas were cut: the refresh tokens and the invitations of an
account, say, share no row. Where a pair of kinds does meet they are together in an area. Faults
come in areas of their own, with two requests where three would be too many states. `MaxMail = 2`
gives two mails of one thread in either order, and with `Page = 1` and `Recent = 1` either list of a sync leaves out one of two, `MaxTries = 2` a retry and its failure,
`Limit = 2` with one form there at the start lets one addition pass and two race,
`MaxPending = 1` and `Capacity = 1` put the limits within reach, and `Seats = 3` is the number
of members and invitations there are at the start, so that any addition is one too many unless
a seat is given back. A rule list of eight has one rule for each trigger and each kind of action that
the model distinguishes.

In `ai_reply` two runs show every stale write of one over the other, since each writes the tags
twice at most; requests, messages and presses are interchangeable and the run uses their
symmetry (it checks no liveness). `MaxReplies = 1` makes the rate guard possible, and as any
reply may be older than ten minutes it is never certain. One rule is followed per behaviour.

`SameSecond = TRUE` lets Stripe emit two events in one second. The configuration sets it
to `FALSE` because `NewestEventWins` leaves such events out anyway; the larger instance was
checked as well.

Deadlock checking is off everywhere: with the bounds used up and all work done these
systems stop.

Fairness. It is only asked of what a timer or an outside party repeats or of a call that
has begun: a sweep or a poll is on `setInterval`, which calls again whatever
became of the last tick; a function between two awaits goes on (its query or its HTTP
call ends, with an answer, an error or the socket's timeout); Stripe repeats an event
until it gets a 2xx. New requests, users, plan changes, months, crashes and faults are not
fair. For `usage` this assumes that the tick of the SLA worker reaches `flushPending`
(`sla-automation.worker.ts:58`), which is the last but one call of a `try` block: listed
as a hazard. `MissAdmission` needs no fairness: its steps, ageing apart, are all for
good, so that being parked for ever means being parked where nothing moves, which the invariant
`NobodyIsStranded` rules out for each request: it can move, or the owner or timer of the lease it waits on can. What
can move is said by the guards of those steps (`CanMove`), which are the actions' own definitions. `Accounts`, `KnowledgeCache`, `Desk`, `Intake` and
`Client` are checked for safety only: their promises are about what a request, once it has ended,
has done, and nothing in the code retries a request that has not.

## 4. What the code does otherwise than its comments say

One run expects a violation. `subscriptions_live`: two checkout sessions opened before either is
completed lead to two subscriptions of one customer. `applySubscription` looks only at the
customer, so the cancellation of one of them sets the organisation to Free while the other is
paid for.

The other statements are definitions of their modules that no run lists. Put into the module's
configuration in place of the properties, each is refuted by TLC; the passing property beside it
says how far the promise holds.

| Statement | What happens | Beside it |
|---|---|---|
| `WebhookDelivery!NeverSentTwiceAtOnce` (with `SlowReceivers = TRUE`) | The 8 s timeout (`webhook-delivery.service.ts:51`) is the socket's *idle* timeout. A receiver that sends a byte now and then outlives the lease, and a second replica posts the delivery too | `OneAttemptInFlight` |
| `SubscriptionSync!OlderNeverOverwritesNewer` | `lastEventAt` is compared before two awaits (`billing.service.ts:284`) and written unconditionally after them | `NewestEventWins` |
| `MissAdmission!EveryGrantIsReleased` | `clearAll` ends the lease between `acquire` and `leaseHoldsSlot.put` (`SemanticCacheService.java:232`); the slot stays in use until a restart | `SlotsAreUsed` |
| `StatusEmails!EveryEmailTellsAChange` (two agents) | The ticket is read outside the transaction (`tickets.service.ts:259`); two agents who solve it at once send two e-mails | `EventsTellChanges` |
| `AiReply!EscalatedIsTagged` | No race is needed: `run` reads the tags, `escalate` adds `escalated`, and `markHandoff` (`ai-reply.service.ts:228`) writes the tags read first with its own | `HandoffMarkSurvives` |
| `Accounts!LogoutIsEverywhere` | A sign-in puts its refresh token into Redis, then writes its session row. If `logoutAll` lists the sessions before that row is there (`auth.service.ts:726`) and marks rows after (`:742`), the row is revoked and the token still works, and no later "logout everywhere" (`:89`) or reset ("All existing sessions are revoked", `:1106`) finds it, since both list live rows only | `SignedOutEverywhere` |
| `Accounts!EveryOrgHasAnOwner` | The other owners are counted before an await (`users.service.ts:63`): an owner steps down while the other is deactivated | `TeamHolds` |
| `KnowledgeCache!NeverStale` | The version is read again when an answer is stored (`CacheIdentityFactory.java:46`): an answer from the old text is stored under the new version | `RetiredStaysRetired` |
| `KnowledgeCache!ArchivedIsNotRetrievable` | "Drafts/archived articles shouldn't be retrievable by the AI" (`knowledge.service.ts:15`): the removal is best effort, and the row then says `vectorIndexed: false` whether it succeeded or not, so that no later update tries again | `IndexFollowsRows` |
| `Desk!InactiveOncePerStretch` | "Don't re-fire for the same stretch of inactivity" (`sla-automation.worker.ts:26`) compares the rule's last log with `updatedAt`. A run that writes the ticket and fails before its log leaves no trace of itself; and with a second `ticket_inactive` rule (give `MCRules` one) no failure is needed: each rule's write is activity to the other | `SweepActs` |
| `Inbox!ThreadsStayTogether` (`MaxMail = 3`, one area: two syncs, mails `new`, `answer` and `same`) | The ticket takes the thread of its latest mail, and a further mail of the former thread without another signal opens a ticket (`gmail-thread.service.ts:43`) | `RepliesFindTheirTicket` |
| `Inbox!NewMessagesAreWalked` | The sync "walks new messages since the last checkpoint" (`gmail-sync.service.ts:75`), but `users.history.list` is called once, without `nextPageToken` (`:44`), and the checkpoint then goes to the mailbox's head (`:141`): mail beyond the first page of the history is never fetched, by this sync or a later one | `MailsHold` |
| `Conversations!NoHalfSentMessage` | The files are checked before the message is stored and linked after it (`widget.service.ts:108`, `123`): a file that is taken in between leaves the message without it | `ChatsHold` |
| `Intake!OneEvaluationAtATime` | `runningOrgs` is tested at `eval.service.ts:89` and added to after an await at 94: "double-clicks must not double the bill" (17) | `GuardsHold` |

Some behaviours are in the models and break no property, because the properties allow for them by
name: the month that turns in the middle of `consumeAiReply`; a fault between a stored AI reply
and the mark of the hand-over, whose visitor was told of a person that no one is told of; a mail that
fails during ingestion, which is marked `failed` and never tried again
(`email-ticket-ingestion.service.ts:88`), or stays `processing` if the process dies; mail that
arrives while a sync is under way (`gmail-sync.service.ts:141`), or lies beyond the page of the history or the
bounded list that the sync reads; a widget that begins a new
conversation when a request of its fails for whatever reason (`widget.js:484`); a ticket
whose customer was created and whose own creation failed (`new-ticket-dialog.tsx`); a first
answer to a query that is under way when it is invalidated and passes for fresh.

Others were seen while reading and are outside the models: `register` does not lower the case
of an e-mail address while the sign-in form does; reactivating a member checks no seats; the
client never refreshes an access token that has expired; registering, accepting an invitation and logging
out leave the query cache as it is (`use-auth.ts`, `use-invitations.ts`), so that for up to five minutes `["auth", "me"]` may
still be who was signed in before (the screens of signing in do not show it, and the areas of `Client` do not go from one
account to the next); a socket that reconnects does not join its ticket's room again.

In `AiReply` the mark `human-handoff` is exposed to the same stale writes as `escalated`, and still
survives: a run that overwrites it in `escalate` has found a serious matter, which the AI
never closes alone, so the same run sets the mark again. `HandoffMarkSurvives` names the
exceptions: a run that stops for another reason (mode, agent, closed, rate guard), and a tag rule.

## 5. Proofs

Eight modules `..._proofs` (section 2) prove theorems about twelve modules, for every value of the constants
that meets its assumption: any replicas, requests, agents, messages, plans, limits and bounds on
faults, where a run has two or three of each. Each has an inductive invariant (`MeterInv`, `SyncInv`,
`WebhookInv`, `AdmissionInv`, `OutboxInv`, `AiReplyInv`, `AccountsInv`, `CacheInv`, `ClientInv`, and `IntakeInv`, `MailInv` and `ChatInv` for the channels), lemmas that say what each action writes, a proof that each action keeps
each part of the invariant, and the temporal theorems on top. Each invariant was checked by TLC on
the module's run before it was proved. `TypeCorrect` (`Spec => []TypeOK`; `SyncTypeCorrect` of the
subscriptions, `EmailTypesHold` of the e-mails) is proved of all but the channels and `KnowledgeCache`; there the types that matter are parts of the invariants.

| Theorem | States | Assumed |
|---|---|---|
| `Billing_proofs!ReportedAreBilled`, `MarkAdvances` | `ReportedWereBilled`, `MarkOnlyAdvances` | `UsageAssumption` |
| `Billing_proofs!ImplementsMeteredBilling` | `BillsLikeMeteredBilling`: `Spec => Billing!Spec` | the same |
| `Billing_proofs!PlansArePaidFor`, `NewestIsShown` | `PaidByTheCustomerOnFile`, `NewestEventWins` | `SubscriptionAssumption` |
| `Billing_proofs!OnlyARaceMovesTheRowBack` | no step writes an older event over a newer one, unless two handlers overlapped | the same |
| `Outgoing_proofs!NeverInFlightTwice`, `RecordsAgree`, `FastReceiversSeeOneAtOnce` | `OneAttemptInFlight`, `RecordAgrees`, `NeverSentTwiceAtOnce` | `WebhookAssumption` and `~SlowReceivers` |
| `SemanticCache_proofs!EverySlotIsUsed`, `LeasesAreKept`, `NobodyWaitsForever` | `SlotsAreUsed`, `LeasesHold`, `NobodyIsStranded` | `AdmissionAssumption` |
| `SemanticCache_proofs!RetiredStays`, `PurgesAlwaysHold`, `IndexAlwaysFollows` | `RetiredStaysRetired`, `PurgesHold`, `IndexFollowsRows` | `KnowledgeCacheAssumption` |
| `Outgoing_proofs!OutboxIsKept` | `OutboxHolds` | `EmailAssumption` |
| `AiReply_proofs!AnswersWereDue`, `SeriousWasEscalated`, `HandoffMarkIsKept` | `AnswersAreDue`, `SeriousIsEscalated`, `HandoffMarkSurvives` | `AiReplyAssumption` |
| `Accounts_proofs!SecretsWorkOnce`, `RotationIsKept`, `SignOutReachesAll`, `TeamIsKept` | `SecretsHold`, `RotationHolds`, `SignedOutEverywhere`, `TeamHolds` | `AccountsAssumption` |
| `Intake_proofs!GuardsAreKept`, `ImportsComeOnce`, `SubmissionsAreKept` | `GuardsHold`, `ImportedOnce`, `SubmissionsHold` | `IntakeAssumption`, `InboxAssumption` |
| `Channels_proofs!MailsComeOnce`, `ConnectionsAreKept`, `RepliesComeBack` | `MailsHold`, `ConnectionHolds`, `RepliesFindTheirTicket` | the same |
| `Channels_proofs!MessagesArrive` | `ChatsHold` | the same, `ConversationsAssumption` |
| `Client_proofs!FormsAreKept`, `ChangesAreShown` | `FormsHold`, `OwnChangesHold` | `AreasAssumption` |

Assumptions. They say of the constants what their declarations say (naturals, subsets, `None` is no
member). Seven deserve a word. `WebhookAssumption` takes `Replicas` to be finite, because the theorems count attempts in
flight. `~SlowReceivers`, needed by the webhook theorems other than `TypeCorrect`, is the case in which an answer
comes within the lease of two minutes; the code bounds only the silence of a receiver (section 4), and without
the hypothesis TLC refutes `NeverSentTwiceAtOnce`. `AccountsAssumption` ties a request to what it may name (an
address for a sign-in, an existing kind of row for the rest) and says that what is there at the start fits: two members and one
open invitation in the plan's seats, one key under the cap. `IntakeAssumption` numbers the rows of an import from 1 to
`Items` (the parser gives the valid rows of a file), so that 0 stands for a ticket of no row; beyond that
nothing is assumed of `Areas`, that is, of which processes come together. `KnowledgeCacheAssumption` says what a request of each kind
brings (a question that is asked, an article and its state, of which a draft and an archived one are the same to the
index), that there is a question at all and room for an entry. `InboxAssumption` says that the consent
screen is answered with one of the two accounts there are, that an agent replies on the first ticket or on one that a
request made, and that the names `None` and `First` are no tickets that a mail makes; for the numbers of requests,
mails, faults and the lengths of a sync's two lists it has naturals. `AreasAssumption` asks of each area what `AreaHolds` says of its
table: a change that writes what the query reads tells the query's key, a change that sends a whole value is alone in its control, and
a form that is emptied shares no hook with a button. That is a fact about the hooks and screens of the repository, and a screen that
breaks it is a mistake: `MCClient` has TLC evaluate it for every area of `Screens` (`EveryAreaHolds`).

Why the invariants are what they are.

* `MeterInv`. Saving a mark is safe only because of what the flush that saves it has done, so it adds (1) `SeenIsPrefix`: Stripe knows exactly the first
  `charges[o][p]` units of a month; (2) `FlushSound`: everything a running flush believes sent has
  been charged, and it sends only units that are counted; (3) `BilledWithinCounted`. The
  first holds because a flush sends units in order and stops at the first failure, the second because
  counters never fall. Given `MeterInv`, one meter event either repeats a known unit, which changes
  nothing, or is exactly the next one and is counted: that is the step `Bill` of the abstract specification.
* `SyncInv`. The plan a handler is about to write was computed from a row it read before
  (`HandlerSound`), and what the row lacks of the processed events is in the hands of no one
  (`DealtWithIsCovered`), unless two handlers were open at once. That one customer remains rests on the
  unique row: the admin who loses the insert goes on with the winner's (`CheckoutsSound`).
* `WebhookInv`. A claim compares the stamp it read, so at most one attempt in flight has the stamp of the
  row (`ClaimsAreStale`), and a retry by hand, which writes a new stamp whatever is under way, leaves at most
  one behind (`FlightsAreExplained`). `SendsAreExplained` is an account: the POSTs made, those that
  attempts in flight may still make, and those the row still stands for stay within the budget; a
  crash adds one. The proof is mostly about how these sets change when one sender moves.
* `AdmissionInv`. The slots in use are exactly those of leases that were granted and not yet
  published, or are held by an owner (`Using`). A waiter that gave up keeps its place
  in the queue until it is dispatched to, which must not lose the slot (`QueueIsWaiters`). A lease
  in the maps is registered and not cleaned up, which makes `complete`, `fail`, `clear` and the callbacks commute.
  Whoever is parked is parked on a lease that was begun and has a future, never on itself (`ParkedOnOwners`): an owner is never parked, so that waits are one step deep.
* `OutboxInv`. Rows are not claimed: what a batch holds of a row is old, and its number of attempts can
  only be too small (`ItemHolds`). The copies accepted, those that workers may still send and one more if
  the row waits never exceed one, plus the rows taken when they were not pending any more, plus faults.
* `AiReplyInv`. Every writer puts back tags that it read before, so the invariant names who may still put back
  tags without the mark: a run that saw none and was serious, which sets it again later
  (`Accounts`), a press before its mark, and a rule that wrote (`MarkLost`). That a run may see the mark only if it leaves
  a trace (`SeenMarkLeavesATrace`) is why an overwritten mark comes back. For the answers, each reply of the allowance is spent
  for a message whose run has decided (`SpentOnce`), and one run is about a message at a time.
* `AccountsInv`. The properties say "unless they overlapped", so the invariant first says that two requests
  that are not in `met` were one after the other (`Sequential`), and where in its handler each kind of request may be (`Edge`, `Steps`).
  Then, part by part: a consumed code has one consumer (`CodeInv`); the open links of an account come from
  overlapping requests (`LinkInv`); a token that was taken out of Redis stays out (`TakenForGood`), and so a second
  exchange that began after the first had ended finds nothing (`RefreshedOnce`); while a sign-out runs, the older tokens
  are first in its list, then out of Redis, then revoked (`SignOutInv`); an account exists only once its request created it (`Made`), so
  that no request can deactivate an account that comes into being later (`ActiveInv`). For the team (`TeamInv`), a request that has
  counted still has the room it counted as long as nobody else adds (`SeatInv`, `KeyInv`, `OwnerInv`); accepting needs none, because
  the member takes the seat of an invitation that is still open, which in turn needs that no resend of a sign-in code
  gives an invitation new time (`RenewsCodes`) and that an accepted invitation is never open again (`InviteInv`).
* `CacheInv`. `RouteInv` and `ArriveInv` say where each kind of request may be, and that two requests not in `met` were one after the
  other. (1) `VersionInv`, `AskInv`, `PlaceInv`: wherever an answer is kept, in L1, in Redis or in a promotion between the two, its
  key has a version below that of every later edit (`Valid`), while a question looks with a version no older than the edits before it; the two
  together are `ServedInv`, whose exception is a version that was raised in one process only (`Excused`). `WaitInv` is
  for those who wait for an answer instead of finding it. (2) `TrackInv`, `EvictInv`, `IndexInv`: an entry is in the LSH
  index and the organisation's keys, or somebody is about to note it, and the keys that are about to be forgotten belong to entries that are gone; where requests
  overlapped (`Blurred`) this is lost, and for Redis also where a call failed. So a lone purge finds everything, and what it has dropped, step by step, stays away
  (`DropInv`). (3) `RowInv`: an article nobody edits has the chunks its row calls for, and an edit under way has brought them as far as `EditOK`
  says for each of its steps.
* `IntakeInv`. Its Next is that of all channels, so the first part (`CoreInv`) shows that every step of the inbox
  and the chat, whatever it does to its own rows, leaves the processes of `Intake` where they are (`Elsewhere`), and
  that a process that is lost or comes is `Aside`. For the limits, one addition that was let through still has its room while no two have
  met (`LimitInv`). For the sets in memory, an entry is that of a process at a step between entering and
  leaving, and who is there without one was admitted beside another (`BusyInv`). For imports (`ImportInv`), what a load has still to do
  (`ToCome`) has no ticket yet, unless of a load beside it, and together with the tickets that are there it is the whole
  file: an import reads what exists before it starts and never again, so the first half needs that within
  an API process only one import runs. It also needs that a ticket keeps the tag of its kind unless the staff takes it
  (`LeadType`). For submissions (`SubmissionInv`), a process that has a ticket is past the step that makes one, which a second
  attempt, after a failure, undoes.
* `MailInv`. A process of the inbox goes the way of its handler (`RouteInv`). (1) `ConnInv`: who may still write the
  tokens it read works on the only active account, or has met the disconnection; that is `ConnectionHolds`. (2) `OnceInv`: from its record on a mail is in the hands of
  one process, which is the one that files it. (3) `ThreadInv`: two tickets with mails of one thread have one of the two excuses
  (`Astray`), and so has a process that is about to add to that pair. (4) `TokenInv`: a token is made once, by the process it names
  (`Spent`), the tokens of tickets and of mails sent are those tickets' own (`Owns`), and a message is where the signals of its mail point,
  unless an earlier one of its thread led it elsewhere (`Belongs`). (5) `PassInv`: what a sync's list leaves out
  lies behind the checkpoint, was seen, or is one of the excuses of `MailsHold`. Most of the work is in the steps of a sync, which hold
  copies of the connection, the checkpoint and the list, each as old as the step that read it.
* `ChatInv`. A process of the chat goes the way of its handler (`ChatRoutes`), and nobody else touches its rows. (1) `OpenInv`, `RowInv`: who is
  about to open a conversation for a visitor found none, so that a message under way is for the conversation
  the widget has, and a retry finds the row of the attempt before it; both unless two beginnings met, which is
  the excuse `TwoBegan`. (2) `RunInv`, `LinkInv`: between storing and the end of linking no run has been started
  for the row, and an attempt that left its row behind has a file that cannot be claimed any more, which is why no
  retry reaches the row without its files. (3) `SweepInv`, `SweptInv`: a sweep works from a list it read when it began, so who still
  holds a file that is linked by now has met the message; a row without bytes has a sweep at the step in between,
  or one that was cut off there. (4) `RoomInv`: who was let through the limit of pending files still has its room while no two uploads met.
* `ClientInv`. (1) `ChangesInv`: what was accepted is on the server, unless it was undone or passed over for a reason that is named
  (`MineKept`); whoever still has to tell the cache about it has it (`DoneIsServed`); an answer that was read has it (`AnswerIsFresh`), and so
  have the data, unless they are known to be stale (`DataIsFresh`), or even then where changes are answered with new data (`PutsHere`). A whole value
  sent from a settled screen has it as well, as long as nothing is sent after it (`WholeIsFresh`). (2) `SendsInv`: of the requests that may still land a text there
  is one, and it did not land before (`LandsOnce`). That needs a reason why a text in the field is not sent again: while its request is
  under way the mutation's observer follows it, under the hook of each of its changes in turn (`Shown`, `Watched`), and so the form is disabled (`FieldIsSent`); once
  it has landed, the request that landed it is about to empty the field (`FieldIsDone`).

What the proofs changed in the models. `NobodyIsStranded` was stated with `ENABLED`, of states where nothing at all moves; stated with
the guards, of each request by itself, it is stronger and can be proved. An attempt to prove `NewestLinkOnly` showed that it was weaker
than meant: any overlap of two requests for links excused any two open links. It now names the pair. In `Accounts` only somebody who was
answered with a refresh token can send it: a token of a request that is still under way is in nobody's hands. Typing forced two
choices without effect on behaviour: the scheduler's queue is a set of waiters with their `enqueuedAt` (the order is the code's
comparator), and a poll's batch is a set whose next member is the code's (`Turn`).
The proofs of the inbox showed that two properties held only because the run has two mails. The answer to an agent's
reply may be filed elsewhere when its thread is another ticket's by then, and a thread may be split by an overlap
that a third mail of it had; both are named now, and TLC shows the first on an instance with three events. One property
was weaker than meant: `ConnectionHolds` excused a sign-in that came together with the disconnection, which needs no
excuse. Another rested on a model that was too kind: a sync listed all mail after the checkpoint, where the code reads one page of
the history. `LeftOut` is what a list does not have, and `CheckpointHidesNothing` names it. And `ReplyRead` took a step for a ticket that is gone, where the code returns.
Two properties of `KnowledgeCache` turned out to hold only because the run has three requests; TLC finds both with four.
An edit that cannot reach Redis raises the version in one process only
(`KbVersionRegistry.java:52`), and Redis hands the same number out again for the next edit, so that an answer stored in
between carries a version that is current once more: `RetiredStaysRetired` now names such a failure. And an eviction listener that comes late
untracks the key of an entry that another question has promoted again, which needs no overlap with the request
that stored it: `PurgeDrops` now asks which questions overlapped anything since (`Mixed`).
`OwnChangesHold`, too, held in one case only because the run has two requests: with three, a form that sends a whole value can be saved again
while its first request is under way (`FormCard`), which puts back a change that another control's answer has undone, and the screen then shows
less than the server has. That change is in `forgiven`, which the second part of the property now names like the first. And the areas were part of
`Client`; they are a constant now, so that the theorems are about any screen.

What stays with TLC, and why. Liveness (`CountedIsEventuallyBilled`, `EventuallySettled`,
`EventuallyProcessed`, `EventuallyDecided`) is out of the
prover's reach. So are the sequence `recency` of `KnowledgeCache` and its type invariant, `CacheTypeOK`, which needs induction over it; the theorems
do without, since they hold whichever entry gives way. The properties of `Desk`
are model-checked only: no obstacle of principle stands in the way of their invariants, each of which needs a proof of
the size of those above.

## 6. Not modelled

The table of section 1 names the parts left out. Inside the modelled parts:

* Everywhere: the wording of messages, signatures, validation of bodies, URL guards and payloads,
  logging, audit rows that nothing reads (those of tickets are in `Tickets`), roles and
  permissions, rate limiters. Time is never measured: a timeout may happen whenever its timer is
  set, with two exceptions that come from the configuration: an attempt ends within its lease
  (unless `SlowReceivers`), and a lease outlives its owner's wait for a slot (45 s against 5 s).
  `Desk` counts periods, and the deadlines are whole numbers of them: business hours are left out.
* `WebhookDelivery`, `MissAdmission`: the size limits of batches where no instance reaches them
  (`BATCH_SIZE`, `CONCURRENCY`); wait statistics.
* `Accounts`: a change of plan that leaves more members than seats, the gate for unverified addresses, the log of sign-ins, authentication by API key.
  A session row and its Redis key are separate; the JWT that goes with them is not a state.
* `KnowledgeCache`: two questions are paraphrases of each other or the same, and a paraphrase
  is always similar enough; the judge (off by default) and answers too large to store; the plan's
  limit of articles (the same check as the seats in `Accounts`). The LSH bucket and the
  organisation's set lose a key in one step, and Bloom filter and Redis gain one in one step: no
  reader looks at one without the other in a way that tells.
* `Tickets`, `Desk`: the SLA worker runs in one process (the flag `running` is that process's); the columns for summaries and sentiment, the actions `assign_team` and
  `send_email`, the dry run of rules, matching of words in a message, updates and exports of
  customers, the token of the tracking link, the manager of a team. What the code starts without
  awaiting it goes on in the same process after its answer; two such pieces of one request are
  taken in the order in which they were started.
* `Inbox`, `Conversations`, `Intake`: parsing of MIME and CSV (a mail has the signals the threading
  looks at, a file the set of its valid rows); what Google does happens just before somebody asks
  for it, which no one can tell from its happening earlier; rendering and polling in the widget;
  uploads by agents, which are those of visitors; order lookups and the AI's draft note.
  `findOrCreateByEmail` is one step, as the unique address makes the loser of a race read the
  winner's row. A click on "retry" gives one more attempt, `MaxTries` in all.
* `Screens`, `Client`: layout, validation, charts, uploads of files in the composer, and effects that
  write no server data (theme, shortcuts). One query and two controls are followed at a time: the
  cache holds each query by itself, and a mutation meets others only through it and through the
  text field.

Tag lists that agents type in replace the tags on purpose: `TagsSurvive` names them.

Left out as a whole, with the reason: canned responses, analytics, AI traces, the organisation's
profile and ticket tracking are writes of one row, in which the last write wins and nothing else
depends on the order, or reports that write nothing. Prompting and retrieval in the AI service
are stateless. Presence and typing on the sockets are shown for seconds and lost with the
process. Deployment files, the schema and shared types have no behaviour of their own; the
constraints of the schema (unique indexes, cascades) are in the actions that meet them.

## 7. Plan

Modelled by now is every component whose operations can disturb one another. What is left:

1. Proofs about `Desk`, part by part (the tags, the events, the customers).
2. An abstract outbox that delivers at least once and at most once per claim, implemented by both
   `WebhookDelivery` and `StatusEmails`.
3. Business hours and SLA policies as a pure function against a reference definition.
4. The sockets: presence, rooms and the repetition of news after a reconnect, beside `Client`.
