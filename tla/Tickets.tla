------------------------------- MODULE Tickets --------------------------------
(***************************************************************************)
(* Tickets of the API (apps/api): creation, updates with their outbox      *)
(* events and audit rows, agents' replies and the first-response stamp,    *)
(* macros, and what customers send from a tracking link.                   *)
(*                                                                         *)
(* Every request is a process walking through its handler, and a sweep of  *)
(* the SLA worker (module Automations) is one too; a step ends where the   *)
(* handler awaits the database and others may write.  What a handler read  *)
(* and still uses is mem[r].  A row that request r creates has r as its id.*)
(* Work the code starts without awaiting it (automation runs, the first-   *)
(* response stamp) goes on in the same process after the answer.           *)
(***************************************************************************)
EXTENDS Naturals, FiniteSets, Sequences

CONSTANTS
    First,          \* the ticket there is at the start, open and unassigned
    Alice, Bob,     \* customers; First is Alice's
    Agent, Lead,    \* members of staff; Lead manages
    Team,           \* the one team
    None,
    Areas,          \* records [jobs, reqs, faults]: the requests [kind, on, opt] that arrive are at
                    \* most reqs jobs of one of them, and at most `faults` awaits of theirs throw
    Rules,          \* active automation rules by position: [trigger, when, acts, wait]
    MaxReq,         \* bound: requests and sweeps
    MaxTime,        \* bound: periods of time
    ResponseDue, ResolutionDue, EscalateAfter, Window   \* SLA policy, in periods

ASSUME TicketsAssumption ==
    /\ MaxReq \in Nat /\ MaxTime \in Nat
    /\ \A area \in Areas : area.reqs <= MaxReq /\ area.faults \in Nat
    /\ ResponseDue \in Nat /\ ResolutionDue \in Nat /\ EscalateAfter \in Nat /\ Window \in Nat
    /\ \A k \in DOMAIN Rules : Len(Rules[k].acts) > 0

VARIABLES
    job, pc, mem,   \* each request, where its handler is, and what it holds
    ticket,         \* Ticket rows
    msg,            \* TicketMessage rows: [by, on, of], by the request that wrote it
    ev,             \* EmailOutboxEvent and AuditLog rows of updates
    cust, call, esc, rate,  \* Customer, CallRequest, TicketEscalation, CsatResponse rows
    staff,          \* active users, the team and its members
    now,            \* periods since First was created
    fresh,          \* fresh[k]: tickets whose last run of rule k is newer than their updatedAt
    met,            \* history: pairs of requests that were in flight together
    put,            \* history: tags added, [t, tag]
    fired,          \* history: triggers run by sweeps, [trigger, rule, t, by]
    faults

history == <<met, put, fired>>
desk == <<cust, call, esc, rate, staff>>
vars == <<job, pc, mem, ticket, msg, ev, desk, now, fresh, history, faults>>

Req == 1..MaxReq
Jobs == UNION {area.jobs : area \in Areas}
Tid == {First} \cup Req
Customer == {Alice, Bob} \cup Req
Ended == {"free", "done", "rejected", "failed", "lost"}
InFlight == {r \in Req : pc[r] \notin Ended}
Kind(r) == job[r].kind
On(r) == job[r].on
Opt(r) == job[r].opt
At(r, kind, step) == pc[r] = step /\ Kind(r) = kind
Current == {area \in Areas : /\ \A r \in Req : pc[r] # "free" => r <= area.reqs /\ job[r] \in area.jobs
                             /\ faults <= area.faults}
MayFail == \E area \in Current : faults < area.faults

Resolved == {"solved", "closed"}
Live(t) == ticket[t].status # "none"
Open(t) == ticket[t].status \notin Resolved \cup {"none"}

NoPatch == [status |-> None, prio |-> None, who |-> None, tags |-> None]
NoRow == [status |-> "none", prio |-> 0, tags |-> {}, owner |-> None, who |-> None, resolved |-> FALSE,
          first |-> None, breached |-> FALSE, escalated |-> FALSE, notified |-> FALSE, born |-> 0, moved |-> 0]
NewRow(c) == [NoRow EXCEPT !.status = "open", !.owner = c, !.born = now, !.moved = now]
NoMem == [t |-> None, row |-> NoRow, patch |-> NoPatch, trigger |-> "none", k |-> 0, a |-> 0,
          list |-> {}, rows |-> <<>>, at |-> 0, old |-> FALSE]

TypeOK ==
    /\ \A r \in Req : pc[r] # "free" => job[r] \in Jobs
    /\ \A t \in Tid :
        /\ ticket[t].status \in {"none", "open", "pending", "solved", "closed"}
        /\ ticket[t].prio \in 0..2 /\ ticket[t].owner \in Customer \cup {None}
        /\ ticket[t].who \in {Agent, Lead, None} /\ ticket[t].first \in Req \cup {None}
        /\ ticket[t].moved \in 0..MaxTime /\ (ticket[t].notified => Live(t))
        /\ Open(t) \/ ticket[t].resolved \/ ~Live(t)
    /\ \A m \in msg : m.on \in Tid /\ Live(m.on) /\ m.of \in Req
    /\ \A c \in Customer : cust[c].state = "merged" => cust[c].into \in Customer
    /\ \A t \in Tid : esc[t].level # "none" => Live(t) /\ esc[t].since \in Req
    /\ now \in 0..MaxTime /\ faults \in Nat

Init ==
    /\ job = [r \in Req |-> [kind |-> "none", on |-> None, opt |-> None]]
    /\ pc = [r \in Req |-> "free"] /\ mem = [r \in Req |-> NoMem]
    /\ now = 0
    /\ ticket = [t \in Tid |-> IF t = First THEN NewRow(Alice) ELSE NoRow]
    /\ msg = {} /\ ev = {}
    /\ cust = [c \in Customer |-> [state |-> IF c \in {Alice, Bob} THEN "live" ELSE "none",
                                   into |-> None, email |-> IF c \in {Alice, Bob} THEN c ELSE None]]
    /\ call = [c \in Req |-> [on |-> None, status |-> "none"]]
    /\ esc = [t \in Tid |-> [level |-> "none", since |-> None, contacts |-> {}]]
    /\ rate = [t \in Tid |-> None]
    /\ staff = [active |-> {Agent, Lead}, team |-> TRUE, members |-> {Agent}]
    /\ fresh = [k \in DOMAIN Rules |-> {}]
    /\ met = {} /\ put = {} /\ fired = {} /\ faults = 0

-----------------------------------------------------------------------------
(* Requests *)

Go(r, step) == pc' = [pc EXCEPT ![r] = step]
Hold(r, m) == mem' = [mem EXCEPT ![r] = m]

\* The handler has read, and goes on with m in hand.
Read(r, step, m) ==
    /\ Go(r, step) /\ Hold(r, m)
    /\ UNCHANGED <<job, ticket, msg, ev, desk, now, fresh, history, faults>>
Reject(r) == Read(r, "rejected", NoMem)
Skip(r, step) == Read(r, step, mem[r])

\* Ticket t is written: Prisma moves its updatedAt.
Write(t, row) ==
    /\ ticket' = [ticket EXCEPT ![t] = [row EXCEPT !.moved = now]]
    /\ fresh' = [k \in DOMAIN Rules |-> fresh[k] \ {t}]
    /\ put' = put \cup [t : {t}, tag : row.tags \ ticket[t].tags]

\* A request arrives, or the sweep's interval fires.
Submit(r) ==
    /\ pc[r] = "free" /\ \A q \in Req : q < r => pc[q] # "free"
    /\ \E j \in UNION {area.jobs : area \in {a \in Current : r <= a.reqs}} : job' = [job EXCEPT ![r] = j]
    /\ Go(r, "start")
    /\ met' = met \cup {{r, q} : q \in InFlight}
    /\ UNCHANGED <<mem, ticket, msg, ev, desk, now, fresh, put, fired, faults>>

\* An await throws.  Nothing catches what a request started without awaiting it: the process dies
\* of it and every handler with it.
Fail(r) ==
    /\ r \in InFlight /\ pc[r] \notin {"act", "tag"} /\ MayFail /\ faults' = faults + 1
    /\ pc' = IF pc[r] \in {"rules", "log", "first", "stamp"} /\ Kind(r) # "sweep"
             THEN [q \in Req |-> IF q \in InFlight THEN "lost" ELSE pc[q]]
             ELSE [pc EXCEPT ![r] = "failed"]
    /\ UNCHANGED <<job, mem, ticket, msg, ev, desk, now, fresh, history>>

Pass ==
    /\ now < MaxTime /\ \E r \in Req : Kind(r) = "sweep"
    /\ now' = now + 1
    /\ UNCHANGED <<job, pc, mem, ticket, msg, ev, desk, fresh, history, faults>>

-----------------------------------------------------------------------------
(* Creating and updating *)

\* The automation rules of a trigger, on the row as written.
RunOn(r, t, row, trigger) == Hold(r, [mem[r] EXCEPT !.t = t, !.row = row, !.trigger = trigger, !.k = 0])

CreateRead(r) ==
    /\ At(r, "create", "start")
    /\ IF cust[On(r)].state = "live" THEN Skip(r, "insert") ELSE Reject(r)

CreateInsert(r) ==
    /\ At(r, "create", "insert")
    /\ ticket' = [ticket EXCEPT ![r] = NewRow(On(r))]
    /\ msg' = msg \cup {[by |-> "customer", on |-> r, of |-> r]}
    /\ Go(r, "rules") /\ RunOn(r, r, NewRow(On(r)), "ticket_created")
    /\ UNCHANGED <<job, ev, desk, now, fresh, history, faults>>

Assignable(p) == p.who \in staff.active \cup {None}

\* What update reads first: the row it compares with, and whether the assignee is active.
UpdateRead(r) ==
    /\ pc[r] = "update" \/ At(r, "update", "start")
    /\ LET t == On(r)
           p == IF Kind(r) = "update" THEN Opt(r) ELSE mem[r].patch IN
       IF Live(t) /\ Assignable(p) THEN Read(r, "apply", [mem[r] EXCEPT !.t = t, !.row = ticket[t], !.patch = p])
       ELSE Reject(r)

Patched(row, p) ==
    [row EXCEPT !.status = IF p.status = None THEN @ ELSE p.status,
                !.prio = IF p.prio = None THEN @ ELSE p.prio,
                !.who = IF p.who = None THEN @ ELSE p.who,
                !.tags = IF p.tags = None THEN @ ELSE p.tags,
                !.resolved = @ \/ p.status \in Resolved]

AlwaysMails(r) == mem[r].patch.status # None
StatusChanges(r) == mem[r].patch.status # None /\ mem[r].patch.status # mem[r].row.status
Audited(r) ==
    \/ StatusChanges(r)
    \/ mem[r].patch.prio # None /\ mem[r].patch.prio # mem[r].row.prio
    \/ mem[r].patch.who # None /\ mem[r].patch.who # mem[r].row.who

\* One transaction: the row, the outbox event and the audit row, which go by the row read before.
UpdateApply(r) ==
    LET t == mem[r].t
        p == mem[r].patch
        row == Patched(ticket[t], p) IN
    /\ pc[r] = "apply"
    /\ Write(t, row)
    /\ ev' = ev \cup {[of |-> r, on |-> t, was |-> ticket[t].status, said |-> mem[r].row.status,
                       to |-> row.status, mailed |-> StatusChanges(r), audited |-> Audited(r)]}
    /\ IF StatusChanges(r)
       THEN /\ Go(r, "rules")
            /\ RunOn(r, t, [row EXCEPT !.moved = now],
                     IF mem[r].row.status \in Resolved /\ row.status \notin Resolved
                     THEN "ticket_reopened" ELSE "status_changed")
       ELSE Go(r, IF Kind(r) = "escalate" /\ ~mem[r].old THEN "notice" ELSE "done") /\ UNCHANGED mem
    /\ UNCHANGED <<job, msg, desk, now, met, fired, faults>>

-----------------------------------------------------------------------------
(* Replies and macros *)

\* An agent's reply; a macro with one sends it before it changes the ticket.
AddMessage(r) ==
    /\ At(r, "reply", "start") \/ At(r, "macro", "reply")
    /\ IF ~Live(On(r)) THEN Reject(r)
       ELSE /\ msg' = msg \cup {[by |-> "agent", on |-> On(r), of |-> r]}
            /\ Go(r, "first")
            /\ UNCHANGED <<job, mem, ticket, ev, desk, now, fresh, history, faults>>

AfterReply(r) == IF Kind(r) = "macro" /\ mem[r].patch # NoPatch THEN "update" ELSE "done"

FirstRead(r) ==
    /\ pc[r] = "first"
    /\ Skip(r, IF ticket[On(r)].first = None THEN "stamp" ELSE AfterReply(r))

FirstStamp(r) ==
    /\ pc[r] = "stamp"
    /\ Write(On(r), [ticket[On(r)] EXCEPT !.first = r])
    /\ Go(r, AfterReply(r))
    /\ UNCHANGED <<job, mem, msg, ev, desk, now, met, fired, faults>>

\* apply and planMacro: the tags are merged with those of the row read here.
PlanReplacing(set, cur) == [set EXCEPT !.tags = IF @ = None \/ @ \subseteq cur THEN None ELSE @]
Plan(set, cur) == [set EXCEPT !.tags = IF @ = None \/ @ \subseteq cur THEN None ELSE cur \cup @]
MacroRead(r) ==
    /\ At(r, "macro", "start")
    /\ LET p == Plan(Opt(r).set, ticket[On(r)].tags) IN
       IF ~Live(On(r)) THEN Reject(r)
       ELSE Read(r, IF Opt(r).reply THEN "reply" ELSE IF p = NoPatch THEN "done" ELSE "update",
                 [mem[r] EXCEPT !.patch = p])

-----------------------------------------------------------------------------
(* The tracking link *)

TrackReply(r) ==
    /\ At(r, "track", "start")
    /\ msg' = msg \cup {[by |-> "customer", on |-> On(r), of |-> r]}
    /\ Go(r, "touch")
    /\ UNCHANGED <<job, mem, ticket, ev, desk, now, fresh, history, faults>>

TrackTouch(r) ==
    /\ At(r, "track", "touch")
    /\ Write(On(r), ticket[On(r)])
    /\ Go(r, "rules") /\ RunOn(r, On(r), ticket'[On(r)], "customer_replied")
    /\ UNCHANGED <<job, msg, ev, desk, now, met, fired, faults>>

RateRead(r) ==
    /\ At(r, "rate", "start")
    /\ IF ticket[On(r)].status \in Resolved THEN Skip(r, "submit") ELSE Reject(r)

RateSubmit(r) ==
    /\ At(r, "rate", "submit")
    /\ rate' = [rate EXCEPT ![On(r)] = r]
    /\ Go(r, "done")
    /\ UNCHANGED <<job, mem, ticket, msg, ev, cust, call, esc, staff, now, fresh, history, faults>>

TicketStep(r) ==
    \/ CreateRead(r) \/ CreateInsert(r) \/ UpdateRead(r) \/ UpdateApply(r)
    \/ AddMessage(r) \/ FirstRead(r) \/ FirstStamp(r) \/ MacroRead(r)
    \/ TrackReply(r) \/ TrackTouch(r) \/ RateRead(r) \/ RateSubmit(r)

=============================================================================
