--------------------------------- MODULE Desk ---------------------------------
(***************************************************************************)
(* The help desk: tickets and automations with what staff and visitors do  *)
(* around them.  Customers are created, found by e-mail, merged and        *)
(* deleted; calls are asked for and followed up; tickets are escalated and *)
(* the contact is logged; the team changes.                                *)
(***************************************************************************)
EXTENDS Automations

-----------------------------------------------------------------------------
(* Customers *)

WithEmail(e) == {c \in Customer : cust[c].email = e}
NewCustomer(r) == cust' = [cust EXCEPT ![r] = [state |-> "live", into |-> None, email |-> On(r)]]
DeskSame == UNCHANGED <<job, mem, ticket, msg, ev, call, esc, rate, staff, now, fresh, history, faults>>

\* create: the unique e-mail decides.
CustomerCreate(r) ==
    /\ At(r, "customer", "start")
    /\ IF WithEmail(On(r)) # {} THEN Reject(r) ELSE NewCustomer(r) /\ Go(r, "done") /\ DeskSame

\* findOrCreateByEmail, for a mail or chat of this sender: the loser of a race takes the winner.
FindCustomer(r) ==
    /\ At(r, "sender", "start")
    /\ Skip(r, IF WithEmail(On(r)) # {} THEN "done" ELSE "insert")

FindOrCreate(r) ==
    /\ At(r, "sender", "insert")
    /\ IF WithEmail(On(r)) # {} THEN Skip(r, "done") ELSE NewCustomer(r) /\ Go(r, "done") /\ DeskSame

\* merge and requestDeletion read first, and write by id whatever happened since.
CustomerRead(r) ==
    /\ pc[r] = "start" /\ Kind(r) \in {"merge", "delete"}
    /\ IF \A c \in {On(r)} \cup (IF Kind(r) = "merge" THEN {Opt(r)} ELSE {}) : cust[c].state = "live"
       THEN Skip(r, "write") ELSE Reject(r)

MovesOpenOnes(r) ==
    [t \in Tid |-> IF ticket[t].owner = On(r) /\ Open(t)
                   THEN [ticket[t] EXCEPT !.owner = Opt(r), !.moved = now] ELSE ticket[t]]
Moved(r) == [t \in Tid |-> IF ticket[t].owner = On(r) THEN [ticket[t] EXCEPT !.owner = Opt(r), !.moved = now]
                           ELSE ticket[t]]

Merge(r) ==
    /\ At(r, "merge", "write")
    /\ ticket' = Moved(r)
    /\ fresh' = [k \in DOMAIN Rules |-> {t \in fresh[k] : ticket'[t] = ticket[t]}]
    /\ cust' = [cust EXCEPT ![On(r)] = [state |-> "merged", into |-> Opt(r), email |-> None]]
    /\ Go(r, "done")
    /\ UNCHANGED <<job, mem, msg, ev, call, esc, rate, staff, now, history, faults>>

Delete(r) ==
    /\ At(r, "delete", "write")
    /\ cust' = [cust EXCEPT ![On(r)] = [state |-> "deleted", into |-> None, email |-> None]]
    /\ Go(r, "done") /\ DeskSame

-----------------------------------------------------------------------------
(* Call requests *)

OpenCalls(t) == {c \in Req : call[c].on = t /\ call[c].status \in {"requested", "scheduled"}}

\* createFromCustomer: the tags are read with the conversation, the open request a step later.
CallRead(r) ==
    /\ At(r, "call", "start")
    /\ IF ~Live(On(r)) THEN Reject(r) ELSE Read(r, "open", [mem[r] EXCEPT !.patch.tags = ticket[On(r)].tags])

CallOpen(r) == At(r, "call", "open") /\ Skip(r, IF OpenCalls(On(r)) # {} THEN "done" ELSE "create")

CallCreate(r) ==
    /\ At(r, "call", "create")
    /\ call' = [call EXCEPT ![r] = [on |-> On(r), status |-> "requested"]]
    /\ Go(r, "mark2")
    /\ UNCHANGED <<job, mem, ticket, msg, ev, cust, esc, rate, staff, now, fresh, history, faults>>

CallTag(r) ==
    /\ At(r, "call", "mark2")
    /\ Write(On(r), [ticket[On(r)] EXCEPT !.tags = mem[r].patch.tags \cup {"call-request"}])
    /\ msg' = msg \cup {[by |-> "system", on |-> On(r), of |-> r]}
    /\ Go(r, "done")
    /\ UNCHANGED <<job, mem, ev, desk, now, met, fired, faults>>

\* Any status may follow any other.
CallUpdate(r) ==
    /\ At(r, "callUpdate", "start")
    /\ IF call[On(r)].status = "none" THEN Reject(r)
       ELSE /\ call' = [call EXCEPT ![On(r)].status = Opt(r)]
            /\ Go(r, "done")
            /\ UNCHANGED <<job, mem, ticket, msg, ev, cust, esc, rate, staff, now, fresh, history, faults>>

-----------------------------------------------------------------------------
(* Escalations and the contact they ask for *)

Rank == [none |-> 0, high |-> 1, critical |-> 2]
Worse(a, b) == IF Rank[a] >= Rank[b] THEN a ELSE b

EscalateRead(r) ==
    /\ At(r, "escalate", "start")
    /\ LET t == On(r)
           level == Worse(esc[t].level, Opt(r)) IN
       IF ~Live(t) THEN Reject(r)
       ELSE Read(r, "upsert",
                 [mem[r] EXCEPT
                    !.trigger = level, !.old = esc[t].level # "none",
                    !.patch = [NoPatch EXCEPT
                                 !.prio = IF Rank[level] > ticket[t].prio THEN Rank[level] ELSE None,
                                 !.tags = IF "escalated" \in ticket[t].tags THEN None
                                          ELSE ticket[t].tags \cup {"escalated"}]])

\* An escalation there is keeps its deadline; its level is the one worked out from the row read.
TakesNewLevel(r) ==
    /\ At(r, "escalate", "upsert")
    /\ esc' = [esc EXCEPT ![On(r)] = [@ EXCEPT !.level = Opt(r), !.since = IF @ = None THEN r ELSE @]]
    /\ Go(r, IF mem[r].patch # NoPatch THEN "update" ELSE IF mem[r].old THEN "done" ELSE "notice")
    /\ UNCHANGED <<job, mem, ticket, msg, ev, cust, call, rate, staff, now, fresh, history, faults>>
EscalateUpsert(r) ==
    /\ At(r, "escalate", "upsert")
    /\ esc' = [esc EXCEPT ![On(r)] = [@ EXCEPT !.level = mem[r].trigger, !.since = IF @ = None THEN r ELSE @]]
    /\ Go(r, IF mem[r].patch # NoPatch THEN "update" ELSE IF mem[r].old THEN "done" ELSE "notice")
    /\ UNCHANGED <<job, mem, ticket, msg, ev, cust, call, rate, staff, now, fresh, history, faults>>

EscalateNotice(r) ==
    /\ At(r, "escalate", "notice")
    /\ msg' = msg \cup {[by |-> "system", on |-> On(r), of |-> r]}
    /\ Go(r, "done")
    /\ UNCHANGED <<job, mem, ticket, ev, desk, now, fresh, history, faults>>

ContactRead(r) ==
    /\ At(r, "contact", "start")
    /\ IF esc[On(r)].level = "none" \/ esc[On(r)].contacts # {} THEN Reject(r) ELSE Skip(r, "write")

ContactWrite(r) ==
    /\ At(r, "contact", "write")
    /\ esc' = [esc EXCEPT ![On(r)].contacts = @ \cup {r}]
    /\ Go(r, "notice2")
    /\ UNCHANGED <<job, mem, ticket, msg, ev, cust, call, rate, staff, now, fresh, history, faults>>

ContactNotice(r) ==
    /\ At(r, "contact", "notice2")
    /\ msg' = msg \cup {[by |-> "system", on |-> On(r), of |-> r]}
    /\ Go(r, "done")
    /\ UNCHANGED <<job, mem, ticket, ev, desk, now, fresh, history, faults>>

-----------------------------------------------------------------------------
(* The team *)

StaffChange(r) ==
    /\ pc[r] = "start"
    /\ staff' = CASE Kind(r) = "deactivate"   -> [staff EXCEPT !.active = @ \ {On(r)}]
                  [] Kind(r) = "addMember"    -> [staff EXCEPT !.members = @ \cup {u \in {On(r)} : staff.team}]
                  [] Kind(r) = "removeMember" -> [staff EXCEPT !.members = @ \ {On(r)}]
                  [] Kind(r) = "deleteTeam"   -> [staff EXCEPT !.team = FALSE, !.members = {}]
    /\ Go(r, "done")
    /\ UNCHANGED <<job, mem, ticket, msg, ev, cust, call, esc, rate, now, fresh, history, faults>>
Staffing(r) == Kind(r) \in {"deactivate", "addMember", "removeMember", "deleteTeam"} /\ StaffChange(r)

-----------------------------------------------------------------------------
(* Specification *)

Customers(r) ==
    CustomerCreate(r) \/ FindCustomer(r) \/ FindOrCreate(r) \/ CustomerRead(r) \/ Merge(r) \/ Delete(r)
Calls(r) == CallRead(r) \/ CallOpen(r) \/ CallCreate(r) \/ CallTag(r) \/ CallUpdate(r)
Escalations(r) ==
    \/ EscalateRead(r) \/ EscalateUpsert(r) \/ EscalateNotice(r)
    \/ ContactRead(r) \/ ContactWrite(r) \/ ContactNotice(r)

Next ==
    \/ \E r \in Req :
        \/ TicketStep(r) \/ EngineStep(r) \/ SweepStep(r)
        \/ Customers(r) \/ Calls(r) \/ Escalations(r) \/ Staffing(r)
        \/ Fail(r) \/ Submit(r)
    \/ Pass

Spec == Init /\ [][Next]_vars

-----------------------------------------------------------------------------
(* Properties *)

Ran(r) == pc[r] = "done"
Earlier(q, r) == q < r /\ {q, r} \notin met     \* q had ended before r began
Broken(r) == pc[r] \in {"failed", "lost"}

\* Two handlers that write tags from a row read before.
TagWriter(r) == Kind(r) \in {"macro", "call", "escalate", "create", "update", "track", "sweep"}
Untagged(tag) == \E f \in fired : f.rule # 0 /\ \E a \in DOMAIN Rules[f.rule].acts :
                    Rules[f.rule].acts[a] = [type |-> "remove_tag", value |-> tag]

\* A tag somebody put on a ticket is lost only to an overlapping writer of its tags, or removed by
\* a rule: macros, calls, escalations and rules "merge tags, never replace them" (macros.service.ts).
TagsSurvive ==
    \A p \in put : p.tag \notin ticket[p.t].tags =>
        Untagged(p.tag) \/ \E q, r \in Req : {q, r} \in met /\ q # r /\ TagWriter(q) /\ TagWriter(r)

\* "Only enqueue a status email when the status actually changes" (tickets.service.ts): an update
\* has an outbox event exactly when it changed the status, and the event names the status there
\* was, unless another change of the ticket overlapped it.
EventsTellChanges ==
    \A e \in ev :
        \/ e.mailed = (e.was # e.to) /\ (e.mailed => e.said = e.was)
        \/ \E q \in Req : {q, e.of} \in met /\ q # e.of

\* The first-response stamp is of the first reply: no reply that had ended before the stamped one
\* began was skipped, and it never moves except between overlapping replies.
FirstIsFirst ==
    \A t \in Tid : ticket[t].first # None =>
        \A q \in Req : ~( /\ Ran(q) /\ Earlier(q, ticket[t].first)
                          /\ [by |-> "agent", on |-> t, of |-> q] \in msg)

\* A customer who was merged away or deleted has no tickets opened by a request that came after,
\* and a merge leaves none behind, open or resolved, but those that overlapped it; of two customers
\* merged one remains unless their merges overlapped or the other was deleted; and an e-mail address
\* is one customer's, however many mails from it arrive at once.
CustomersHold ==
    /\ \A r \in Req, t \in Tid :
        /\ Ran(r) /\ ticket[t].owner = On(r)
        => /\ Kind(r) = "delete" => t = First \/ ~Earlier(r, t) \/ \E q \in Req : Kind(q) = "merge"
           /\ Kind(r) = "merge" =>
                \E q \in Req : {q, r} \in met /\ q # r /\ Kind(q) \in {"create", "merge"}
    /\ \A r \in Req : Ran(r) /\ Kind(r) = "merge" /\ cust[Opt(r)].state # "live" =>
        \E q \in Req : q # r /\ Kind(q) \in {"merge", "delete"} /\ On(q) = Opt(r)
                       /\ ({q, r} \in met \/ Earlier(r, q))
    /\ \A c, d \in Customer : c # d /\ cust[c].email = cust[d].email => cust[c].email = None

\* Escalations do not slip back and calls do not pile up: a level that a request raised to critical
\* stays so, the 24 hours count from the first flag, the contact is logged once and a conversation
\* has one open call ("asking again returns the existing one"), but for overlapping requests.
Overlap(kind, t) == \E q, r \in Req : {q, r} \in met /\ q # r /\ Kind(q) = kind /\ Kind(r) = kind /\ On(q) = t
FollowUpsHold ==
    \A t \in Tid :
        /\ \A r \in Req : Ran(r) /\ Kind(r) = "escalate" /\ On(r) = t =>
            /\ esc[t].since = r \/ ~Earlier(r, esc[t].since)
            /\ Opt(r) = "critical" => esc[t].level = "critical" \/ Overlap("escalate", t)
        /\ Cardinality(esc[t].contacts) > 1 => Overlap("contact", t)
        /\ Cardinality(OpenCalls(t)) > 1 =>
            Overlap("call", t) \/ \E r \in Req : Kind(r) = "callUpdate" /\ Opt(r) \in {"requested", "scheduled"}

\* What a customer is owed is noted once and kept: the first response, escalation, contact and call.
PromisesHold == FirstIsFirst /\ FollowUpsHold

\* A ticket marked breached had the rules of sla_breached run for it by the sweep that marked it,
\* and only then, and those of sla_approaching run once, unless a sweep broke off.
Runs(trigger, t) == {f \in fired : f.trigger = trigger /\ f.rule = 0 /\ f.t = t}
SweepsHold ==
    (\A r \in Req : Kind(r) = "sweep" => ~Broken(r)) =>
        \A t \in Tid :
            /\ Cardinality(Runs("sla_breached", t)) <= 1 /\ Cardinality(Runs("sla_approaching", t)) <= 1
            /\ ticket[t].breached /\ (\A r \in InFlight : Kind(r) # "sweep") => Runs("sla_breached", t) # {}

\* A sweep leaves alone a ticket that was resolved before it began, unless somebody reopened it.
ResolvedIsLeftAlone ==
    \A f \in fired, e \in ev :
        ~ /\ f.rule = 0 /\ Kind(f.by) = "sweep" /\ e.on = f.t /\ e.to \in Resolved /\ Earlier(e.of, f.by)
          /\ \A d \in ev : d.on = f.t /\ d.to \notin Resolved => Earlier(d.of, e.of)
          /\ \A g \in fired : g.rule = 0 \/ Kind(g.by) = "sweep"

\* The sweep of the SLA worker acts on each ticket that is due, once, and on no other.
SweepActs == SweepsHold /\ ResolvedIsLeftAlone

\* "Don't re-fire for the same stretch of inactivity - only trigger again once the ticket has seen
\* activity" (sla-automation.worker.ts): two runs of a ticket_inactive rule have a request between.
InactiveOncePerStretch ==
    \A f, g \in fired :
        /\ f.trigger = "ticket_inactive" /\ g.trigger = "ticket_inactive"
        /\ f.rule # 0 /\ f.rule = g.rule /\ f.t = g.t /\ f.by < g.by
        => \E r \in Req : Kind(r) # "sweep" /\ On(r) = f.t /\ ~Earlier(r, f.by)

=============================================================================
