----------------------------- MODULE Automations ------------------------------
(***************************************************************************)
(* The automation engine and the SLA sweep: a run walks the rules of its   *)
(* trigger in their order, judging all of them by the row it was given,    *)
(* and the sweep marks breaches, escalates, and runs the triggers of time. *)
(***************************************************************************)
EXTENDS Tickets

Active(u) == u \in staff.active

-----------------------------------------------------------------------------
(* The engine *)

\* actual is a set: a scalar is the set of itself, a list of tags the set of them.
ApplyOperator(actual, op, v) ==
    \/ op \in {"equals", "contains"} /\ v \in actual
    \/ op \in {"not_equals", "not_contains"} /\ v \notin actual
    \/ op = "in" /\ actual \cap v # {}
    \/ op = "gt" /\ \E n \in actual : n > v
    \/ op = "lt" /\ \E n \in actual : n < v

Actual(field, row) ==
    CASE field = "status"   -> {row.status}
      [] field = "priority" -> {row.prio}
      [] field = "assignee" -> {IF row.who = None THEN "unassigned" ELSE "assigned"}
      [] field = "ticket_age_hours" -> {now - row.born}

Matches(k, r) ==
    /\ Rules[k].trigger = mem[r].trigger
    /\ \A c \in Rules[k].when : ApplyOperator(Actual(c.field, mem[r].row), c.op, c.value)

AfterRun(r) ==
    CASE mem[r].trigger = "sla_breached" -> "breached"
      [] mem[r].trigger = "sla_approaching" -> "notify"
      [] mem[r].trigger = "ticket_inactive" -> "inactive"
      [] OTHER -> "done"

RunRules(r) ==
    /\ pc[r] = "rules"
    /\ LET next == {k \in DOMAIN Rules : k > mem[r].k /\ Matches(k, r)} IN
       \/ next = {} /\ Skip(r, AfterRun(r))
       \/ \E k \in next :
            /\ \A l \in next : k <= l
            /\ Go(r, "act") /\ Hold(r, [mem[r] EXCEPT !.k = k, !.a = 1])
            /\ fired' = fired \cup {[trigger |-> mem[r].trigger, rule |-> k, t |-> mem[r].t, by |-> r]}
            /\ UNCHANGED <<job, ticket, msg, ev, desk, now, fresh, met, put, faults>>

Action(r) == Rules[mem[r].k].acts[mem[r].a]
NextAction(r) ==
    IF mem[r].a < Len(Rules[mem[r].k].acts)
    THEN Go(r, "act") /\ Hold(r, [mem[r] EXCEPT !.a = @ + 1])
    ELSE Go(r, "log") /\ UNCHANGED mem

NoAction(r) == NextAction(r) /\ UNCHANGED <<job, ticket, msg, ev, desk, now, fresh, history, faults>>
ActOn(r, row) ==
    /\ Write(mem[r].t, row)
    /\ NextAction(r)
    /\ UNCHANGED <<job, msg, ev, desk, now, met, fired, faults>>

Load(u) == Cardinality({t \in Tid : ticket[t].who = u /\ Open(t)})

\* An agent of the team, or anybody when it has no members.
Eligible ==
    {u \in staff.active : u = Agent /\ (staff.team /\ staff.members # {} => u \in staff.members)}

Assign(r) ==
    /\ Action(r).type = "assign_agent"
    /\ LET can == IF Action(r).value # "least_loaded" THEN {Action(r).value} \cap staff.active
                  ELSE {u \in Eligible : \A v \in Eligible : Load(u) <= Load(v)} IN
       \/ can = {} /\ NoAction(r)
       \/ \E u \in can : IF u = mem[r].row.who THEN NoAction(r)
                         ELSE ActOn(r, [ticket[mem[r].t] EXCEPT !.who = u])

\* One action of the rule; what throws is noted in the log and the next one is taken.
Act(r) ==
    LET t == mem[r].t
        v == Action(r).value IN
    /\ pc[r] = "act"
    /\ \/ Action(r).type = "set_priority" /\ ActOn(r, [ticket[t] EXCEPT !.prio = v])
       \/ Action(r).type = "set_status" /\ ActOn(r, [ticket[t] EXCEPT !.status = v, !.resolved = v \in Resolved])
       \/ Assign(r)
       \/ Action(r).type = "add_internal_note" /\ NextAction(r)
          /\ msg' = msg \cup {[by |-> "system", on |-> t, of |-> r]}
          /\ UNCHANGED <<job, ticket, ev, desk, now, fresh, history, faults>>
       \/ Action(r).type = "stop_processing" /\ NoAction(r)
       \/ Action(r).type \in {"add_tag", "remove_tag"}
          /\ IF (v \in ticket[t].tags) = (Action(r).type = "add_tag") THEN NoAction(r)
             ELSE Read(r, "tag", [mem[r] EXCEPT !.patch.tags = ticket[t].tags])

\* The tags read a step earlier, with one more or one less.
TagWrite(r) ==
    LET t == mem[r].t
        adds == Action(r).type = "add_tag"
        tags == IF adds THEN mem[r].patch.tags \cup {Action(r).value}
                ELSE mem[r].patch.tags \ {Action(r).value} IN
    /\ pc[r] = "tag"
    /\ Write(t, [ticket[t] EXCEPT !.tags = tags])
    /\ NextAction(r)
    /\ UNCHANGED <<job, msg, ev, desk, now, met, fired, faults>>

ActFails(r) ==
    /\ pc[r] \in {"act", "tag"} /\ MayFail
    /\ faults' = faults + 1
    /\ NextAction(r)
    /\ UNCHANGED <<job, ticket, msg, ev, desk, now, fresh, history>>

Stops(k) == \E a \in DOMAIN Rules[k].acts : Rules[k].acts[a].type = "stop_processing"

LogRun(r) ==
    /\ pc[r] = "log"
    /\ fresh' = [fresh EXCEPT ![mem[r].k] = @ \cup {mem[r].t}]
    /\ Go(r, IF Stops(mem[r].k) THEN AfterRun(r) ELSE "rules")
    /\ UNCHANGED <<job, mem, ticket, msg, ev, desk, now, history, faults>>

-----------------------------------------------------------------------------
(* The sweep *)

Unanswered(t) == ticket[t].first = None
OverdueOfAnyStatus ==
    {t \in Tid : /\ Live(t) /\ ~ticket[t].breached
                 /\ \/ Unanswered(t) /\ now > ticket[t].born + ResponseDue
                    \/ now > ticket[t].born + ResolutionDue}
Overdue ==
    {t \in Tid : /\ Open(t) /\ ~ticket[t].breached
                 /\ \/ Unanswered(t) /\ now > ticket[t].born + ResponseDue
                    \/ now > ticket[t].born + ResolutionDue}

Near(due) == due >= now /\ due <= now + Window
Approaching ==
    {t \in Tid : /\ Open(t) /\ ~ticket[t].breached /\ ~ticket[t].notified
                 /\ \/ Unanswered(t) /\ Near(ticket[t].born + ResponseDue)
                    \/ Near(ticket[t].born + ResolutionDue)}

RowsOf(ts) == [t \in ts |-> ticket[t]]
Without(rows, t) == [u \in DOMAIN rows \ {t} |-> rows[u]]

\* One sweep at a time: the flag `running`.
SweepStart(r) ==
    /\ At(r, "sweep", "start")
    /\ IF \E q \in InFlight \ {r} : Kind(q) = "sweep" /\ pc[q] # "start" THEN Reject(r)
       ELSE Read(r, "mark", [NoMem EXCEPT !.list = Overdue, !.rows = RowsOf(Overdue), !.at = now])

SweepMark(r) ==
    /\ pc[r] = "mark"
    /\ \/ /\ mem[r].list = {}
          /\ Read(r, "late", [mem[r] EXCEPT !.list = {t \in Tid : Open(t) /\ ticket[t].breached
                                                                  /\ ~ticket[t].escalated}])
       \/ \E t \in mem[r].list :
            /\ Write(t, [ticket[t] EXCEPT !.breached = TRUE])
            /\ Hold(r, [mem[r] EXCEPT !.list = @ \ {t}])
            /\ UNCHANGED <<job, pc, msg, ev, desk, now, met, fired, faults>>

\* Late by the resolution deadline: its lead gets the ticket, active or not.
SweepEscalate(r) ==
    /\ pc[r] = "late"
    /\ \/ mem[r].list = {} /\ Skip(r, "breached")
       \/ \E t \in mem[r].list :
            IF mem[r].at < ticket[t].born + ResolutionDue + EscalateAfter
            THEN Read(r, "late", [mem[r] EXCEPT !.list = @ \ {t}])
            ELSE /\ Write(t, [ticket[t] EXCEPT !.escalated = TRUE, !.who = Lead])
                 /\ Hold(r, [mem[r] EXCEPT !.list = @ \ {t}])
                 /\ UNCHANGED <<job, pc, msg, ev, desk, now, met, fired, faults>>

\* A run of the engine on the next ticket of the list, with the row given.
SweepRun(r, t, row, trigger) ==
    /\ Go(r, "rules")
    /\ Hold(r, [mem[r] EXCEPT !.t = t, !.row = row, !.trigger = trigger, !.k = 0, !.rows = Without(@, t)])
    /\ fired' = fired \cup {[trigger |-> trigger, rule |-> 0, t |-> t, by |-> r]}
    /\ UNCHANGED <<job, ticket, msg, ev, desk, now, fresh, met, put, faults>>

SweepBreached(r) ==
    /\ pc[r] = "breached"
    /\ \/ DOMAIN mem[r].rows = {} /\ Read(r, "approaching", [mem[r] EXCEPT !.rows = RowsOf(Approaching)])
       \/ \E t \in DOMAIN mem[r].rows : SweepRun(r, t, ticket[t], "sla_breached")

SweepApproaching(r) ==
    /\ pc[r] = "approaching"
    /\ \/ DOMAIN mem[r].rows = {} /\ Read(r, "inactive", [mem[r] EXCEPT !.at = 0])
       \/ \E t \in DOMAIN mem[r].rows : SweepRun(r, t, mem[r].rows[t], "sla_approaching")

SweepNotify(r) ==
    /\ pc[r] = "notify"
    /\ Write(mem[r].t, [ticket[mem[r].t] EXCEPT !.notified = TRUE])
    /\ Go(r, "approaching")
    /\ UNCHANGED <<job, mem, msg, ev, desk, now, met, fired, faults>>

\* Rule after rule (mem.at is the last): the tickets nobody wrote for the time it waits, and that
\* it has not run for since; the engine then runs every rule of the trigger on them.
Idle(k) == {t \in Tid : Open(t) /\ now > ticket[t].moved + Rules[k].wait /\ t \notin fresh[k]}
SweepInactive(r) ==
    LET next == {k \in DOMAIN Rules : k > mem[r].at /\ Rules[k].trigger = "ticket_inactive"} IN
    /\ pc[r] = "inactive"
    /\ \/ \E t \in DOMAIN mem[r].rows : SweepRun(r, t, mem[r].rows[t], "ticket_inactive")
       \/ /\ DOMAIN mem[r].rows = {} /\ next # {}
          /\ \E k \in next : /\ \A l \in next : k <= l
                             /\ Read(r, "inactive", [mem[r] EXCEPT !.at = k, !.rows = RowsOf(Idle(k))])
       \/ DOMAIN mem[r].rows = {} /\ next = {} /\ Skip(r, "flush")

\* The billing flush and the sweep of orphaned files end the tick.
SweepFlush(r) == pc[r] = "flush" /\ Skip(r, "done")

EngineStep(r) == RunRules(r) \/ Act(r) \/ TagWrite(r) \/ ActFails(r) \/ LogRun(r)
SweepStep(r) ==
    \/ SweepStart(r) \/ SweepMark(r) \/ SweepEscalate(r) \/ SweepBreached(r) \/ SweepApproaching(r)
    \/ SweepNotify(r) \/ SweepInactive(r) \/ SweepFlush(r)

=============================================================================
