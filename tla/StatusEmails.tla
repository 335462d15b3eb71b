----------------------------- MODULE StatusEmails -----------------------------
(***************************************************************************)
(* Ticket status e-mails (apps/api): ticketsService.update changes the     *)
(* status and queues an outbox row in one transaction; the outbox worker   *)
(* of every API replica polls pending rows, marks each "processing", sends *)
(* the e-mail through Gmail and records the outcome.                       *)
(*                                                                         *)
(* One ticket.  Every await is a step boundary.                            *)
(***************************************************************************)
EXTENDS Integers, Sequences, FiniteSets

CONSTANTS
    Agents,         \* concurrent ticket updates
    Pollers,        \* API replicas, each polling the outbox
    Statuses,       \* ticket statuses
    FirstStatus,    \* the status the ticket starts with
    MaxSends,       \* MAX_ATTEMPTS
    BatchSize,      \* take: 20
    MaxEmails,      \* bound: rows queued
    MaxFaults       \* bound: crashes, failed queries and answers lost, together

ASSUME EmailAssumption ==
    /\ FirstStatus \in Statuses
    /\ MaxSends \in Nat \ {0}
    /\ BatchSize \in Nat \ {0}
    /\ MaxEmails \in Nat
    /\ MaxFaults \in Nat

VARIABLES
    status,     \* ticket.status
    update,     \* update[a]: the update agent a has under way
    outbox,     \* email_outbox_events, oldest first
    worker,     \* worker[w]: the poll replica w has under way
    mailed,     \* mailed[e]: times Gmail accepted the e-mail of row e
    refused,    \* refused[e]: sends of row e that threw
    retaken,    \* retaken[e]: times e was taken when it was no longer pending
    faults

history == <<mailed, refused, retaken>>
emailVars == <<status, update, outbox, worker, history, faults>>

Rows == 1..MaxEmails
NoUpdate == [pc |-> "idle"]
Item == [row : Rows, attempts : 0..MaxSends]
IdleWorker == [pc |-> "idle"]

-----------------------------------------------------------------------------
(* Helpers *)

\* The row a failed send leaves: pending again, or failed after the last attempt.
LeftProcessing(row, attempts) ==
    [row EXCEPT !.attempts = attempts + 1,
                !.status = IF attempts + 1 >= MaxSends THEN "failed" ELSE "processing"]
AfterFailure(row, attempts) ==
    [row EXCEPT !.attempts = attempts + 1,
                !.status = IF attempts + 1 >= MaxSends THEN "failed" ELSE "pending"]

\* A row that is being sent is hidden from other polls.
NotMarked(row) == row
Marked(row) == [row EXCEPT !.status = "processing"]

Polled(e) == outbox[e].status = "pending"

-----------------------------------------------------------------------------
(* State *)

\* The type invariant.
EmailTypeOK ==
    /\ status \in Statuses
    /\ update \in [Agents -> {NoUpdate} \cup [pc : {"write"}, seen : Statuses, to : Statuses]]
    /\ outbox \in Seq([status : {"pending", "processing", "sent", "failed"},
                       attempts : 0..MaxSends, to : Statuses, was : Statuses])
    /\ Len(outbox) <= MaxEmails
    /\ worker \in [Pollers -> {IdleWorker} \cup
                               [pc : {"take", "send", "sent", "failed"}, row : Rows,
                                attempts : 0..MaxSends, rest : SUBSET Item]]
    /\ mailed \in [Rows -> Nat]
    /\ refused \in [Rows -> Nat]
    /\ retaken \in [Rows -> Nat]
    /\ faults \in 0..MaxFaults

EmailInit ==
    /\ status = FirstStatus
    /\ update = [a \in Agents |-> NoUpdate]
    /\ outbox = <<>>
    /\ worker = [w \in Pollers |-> IdleWorker]
    /\ mailed = [e \in Rows |-> 0]
    /\ refused = [e \in Rows |-> 0]
    /\ retaken = [e \in Rows |-> 0]
    /\ faults = 0

-----------------------------------------------------------------------------
(* ticketsService.update *)

\* The ticket is read outside the transaction.
ReadTicket(a) ==
    /\ update[a] = NoUpdate
    /\ Len(outbox) + Cardinality({b \in Agents : update[b] # NoUpdate}) < MaxEmails
    /\ \E to \in Statuses :
          update' = [update EXCEPT ![a] = [pc |-> "write", seen |-> status, to |-> to]]
    /\ UNCHANGED <<status, outbox, worker, history, faults>>

\* The transaction: the status, and a row when it differs from what was read.  `was` keeps
\* the status the transaction replaced.
WriteTicket(a) ==
    LET u == update[a] IN
    /\ u.pc = "write"
    /\ status' = u.to
    /\ outbox' = IF u.to # u.seen
                 THEN Append(outbox, [status |-> "pending", attempts |-> 0,
                                      to |-> u.to, was |-> status])
                 ELSE outbox
    /\ update' = [update EXCEPT ![a] = NoUpdate]
    /\ UNCHANGED <<worker, history, faults>>

-----------------------------------------------------------------------------
(* The outbox worker *)

\* Rows are read together with their attempts, and sent one after the other, oldest first:
\* the next of those that are left, or the poll is over.
Turn(w, batch) ==
    \/ /\ batch = {}
       /\ worker' = [worker EXCEPT ![w] = IdleWorker]
    \/ \E next \in batch :
          /\ \A item \in batch : next.row <= item.row
          /\ worker' = [worker EXCEPT ![w] =
                            [pc |-> "take", row |-> next.row, attempts |-> next.attempts,
                             rest |-> batch \ {next}]]

\* The oldest pending rows.
PollOutbox(w) ==
    LET pending == {e \in 1..Len(outbox) : Polled(e)} IN
    /\ worker[w] = IdleWorker
    /\ pending # {}
    /\ \E taken \in SUBSET pending :
          /\ Cardinality(taken) = IF Cardinality(pending) < BatchSize
                                  THEN Cardinality(pending) ELSE BatchSize
          /\ \A e \in taken, f \in pending \ taken : e < f
          /\ Turn(w, {[row |-> e, attempts |-> outbox[e].attempts] : e \in taken})
    /\ UNCHANGED <<status, update, outbox, history, faults>>

\* The row becomes "processing", whatever it has become since the poll.
Take(w) ==
    LET e == worker[w].row IN
    /\ worker[w].pc = "take"
    /\ outbox' = [outbox EXCEPT ![e] = Marked(@)]
    /\ retaken' = IF outbox[e].status = "pending" THEN retaken ELSE [retaken EXCEPT ![e] = @ + 1]
    /\ worker' = [worker EXCEPT ![w].pc = "send"]
    /\ UNCHANGED <<status, update, mailed, refused, faults>>

\* Gmail takes the e-mail.
SendSucceeds(w) ==
    /\ worker[w].pc = "send"
    /\ mailed' = [mailed EXCEPT ![worker[w].row] = @ + 1]
    /\ worker' = [worker EXCEPT ![w].pc = "sent"]
    /\ UNCHANGED <<status, update, outbox, refused, retaken, faults>>

\* No connection on file, no address, or Gmail refuses; or the answer to a send that
\* succeeded is lost, which is a fault.
SendThrows(w) ==
    LET e == worker[w].row IN
    /\ worker[w].pc = "send"
    /\ refused' = [refused EXCEPT ![e] = @ + 1]
    /\ \/ UNCHANGED <<mailed, faults>>
       \/ /\ faults < MaxFaults
          /\ faults' = faults + 1
          /\ mailed' = [mailed EXCEPT ![e] = @ + 1]
    /\ worker' = [worker EXCEPT ![w].pc = "failed"]
    /\ UNCHANGED <<status, update, outbox, retaken>>

MarkSent(w) ==
    /\ worker[w].pc = "sent"
    /\ outbox' = [outbox EXCEPT ![worker[w].row].status = "sent"]
    /\ Turn(w, worker[w].rest)
    /\ UNCHANGED <<status, update, history, faults>>

\* The attempts written are those read by the poll, plus one.
MarkFailed(w) ==
    LET e == worker[w].row IN
    /\ worker[w].pc = "failed"
    /\ outbox' = [outbox EXCEPT ![e] = AfterFailure(@, worker[w].attempts)]
    /\ Turn(w, worker[w].rest)
    /\ UNCHANGED <<status, update, history, faults>>

\* A query fails.  Marking "sent" sits in the try block, so its failure counts as a failed
\* send; the others end the poll and the row stays as it is.
QueryFails(w) ==
    /\ faults < MaxFaults
    /\ faults' = faults + 1
    /\ \/ /\ worker[w].pc = "sent"
          /\ worker' = [worker EXCEPT ![w].pc = "failed"]
          /\ refused' = [refused EXCEPT ![worker[w].row] = @ + 1]
       \/ /\ worker[w].pc \in {"take", "failed"}
          /\ worker' = [worker EXCEPT ![w] = IdleWorker]
          /\ UNCHANGED refused
    /\ UNCHANGED <<status, update, outbox, mailed, retaken>>

\* The process dies.
WorkerDies(w) ==
    /\ faults < MaxFaults
    /\ worker[w] # IdleWorker
    /\ faults' = faults + 1
    /\ worker' = [worker EXCEPT ![w] = IdleWorker]
    /\ UNCHANGED <<status, update, outbox, history>>

-----------------------------------------------------------------------------

Process(w) == Take(w) \/ SendSucceeds(w) \/ SendThrows(w) \/ MarkSent(w) \/ MarkFailed(w)

EmailNext ==
    \/ \E a \in Agents : ReadTicket(a) \/ WriteTicket(a)
    \/ \E w \in Pollers : PollOutbox(w) \/ Process(w) \/ QueryFails(w) \/ WorkerDies(w)

EmailSpec == EmailInit /\ [][EmailNext]_emailVars

\* The poll runs on an interval and a batch goes on to its end.
EmailFairness == \A w \in Pollers : WF_emailVars(PollOutbox(w)) /\ WF_emailVars(Process(w))

FairEmailSpec == EmailSpec /\ EmailFairness

-----------------------------------------------------------------------------
(* Properties *)

QueuedRows == 1..Len(outbox)

\* A row is given up only after MAX_ATTEMPTS sends of it threw, however the replicas
\* overwrite each other's attempts.
FailedWasTriedOut ==
    \A e \in QueuedRows : outbox[e].status = "failed" => refused[e] >= MaxSends

\* Every copy of an e-mail beyond the first is explained by a replica taking a row that
\* was no longer pending, or by a fault: the retries alone never send one twice.
ExtraCopiesAreExplained ==
    \A e \in Rows : mailed[e] <= 1 + retaken[e] + faults

\* What replicas do to each other's rows neither repeats nor gives up an e-mail by itself.
OutboxHolds == ExtraCopiesAreExplained /\ FailedWasTriedOut

\* A row nobody works on any more and no poll will find.
Stranded(e) ==
    /\ outbox[e].status = "processing"
    /\ \A w \in Pollers : worker[w] = IdleWorker \/ worker[w].row # e

\* Every queued row is sent, failed, or stranded by a fault.
EventuallyDecided ==
    \A e \in Rows :
        (e \in QueuedRows /\ outbox[e].status = "pending")
            ~> (e \in QueuedRows
                /\ (outbox[e].status \in {"sent", "failed"} \/ (Stranded(e) /\ faults > 0)))

\* "never on a no-op update (e.g. re-saving the same status ...)"
\* (tickets.service.ts:268): each row tells of a change.
EveryEmailTellsAChange == \A e \in QueuedRows : outbox[e].to # outbox[e].was

=============================================================================
