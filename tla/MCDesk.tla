-------------------------------- MODULE MCDesk --------------------------------
(* One ticket of Alice and up to three requests or sweeps of any of these areas. *)
EXTENDS Desk

J(kind, on, opt) == [kind |-> kind, on |-> on, opt |-> opt]
Rule(trigger, when, acts, wait) == [trigger |-> trigger, when |-> when, acts |-> acts, wait |-> wait]
Do(type, value) == [type |-> type, value |-> value]
If(field, op, value) == [field |-> field, op |-> op, value |-> value]

MCRules == <<
    Rule("ticket_created", {If("assignee", "equals", "unassigned")},
         <<Do("assign_agent", "least_loaded"), Do("add_tag", "new")>>, 0),
    Rule("ticket_created", {If("priority", "lt", 2)}, <<Do("set_priority", 1), Do("stop_processing", None)>>, 0),
    Rule("ticket_created", {}, <<Do("set_priority", 2)>>, 0),
    Rule("customer_replied", {If("status", "in", {"pending", "solved"})}, <<Do("set_status", "open")>>, 0),
    Rule("status_changed", {If("status", "equals", "solved")}, <<Do("remove_tag", "vip")>>, 0),
    Rule("sla_breached", {If("status", "not_equals", "closed")}, <<Do("add_tag", "late")>>, 0),
    Rule("sla_approaching", {If("ticket_age_hours", "gt", 0)}, <<Do("add_internal_note", None)>>, 0),
    Rule("ticket_inactive", {}, <<Do("assign_agent", Lead)>>, 0)>>

Set(field, value) == [NoPatch EXCEPT ![field] = value]
Macro(reply, patch) == [reply |-> reply, set |-> patch]
Solve == J("update", First, Set("status", "solved"))

Replies ==
    {J("reply", First, None), J("macro", First, Macro(TRUE, Set("status", "solved"))),
     J("track", First, None), Solve, J("update", First, Set("status", "open"))}
Ratings == {J("rate", First, None), Solve, J("update", First, Set("status", "open"))}
Tags ==
    {J("macro", First, Macro(FALSE, Set("tags", {"vip"}))), J("call", First, None),
     J("escalate", First, "high"), Solve}
Escalation ==
    {J("escalate", First, "high"), J("escalate", First, "critical"), J("contact", First, None),
     J("update", First, Set("prio", 0))}
Calling == {J("call", First, None), J("callUpdate", 1, "completed"), J("callUpdate", 1, "scheduled")}
People ==
    {J("create", Alice, None), J("merge", Alice, Bob), J("merge", Bob, Alice), J("delete", Alice, None),
     J("customer", Alice, None), J("sender", Alice, None)}
Staff ==
    {J("create", Alice, None), J("update", First, Set("who", Agent)), J("deactivate", Agent, None),
     J("addMember", Lead, None), J("removeMember", Agent, None), J("deleteTeam", Team, None)}
Sweeps == {J("sweep", None, None), Solve}
Area(jobs, reqs, throws) == [jobs |-> jobs, reqs |-> reqs, faults |-> throws]
MCAreas ==
    {Area(Replies, 3, 0), Area(Ratings, 3, 0), Area(Replies, 2, 1), Area(Tags, 3, 0), Area(Escalation, 3, 0), Area(Escalation, 2, 1),
     Area(Calling, 3, 1), Area(People, 3, 0), Area({J("merge", Alice, Bob), Solve}, 2, 1),
     Area(Staff, 3, 0),
     Area(Sweeps, 2, 0), Area(Sweeps \cup {J("reply", First, None)}, 2, 1)}
=============================================================================
