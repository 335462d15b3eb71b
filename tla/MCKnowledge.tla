---------------------------- MODULE MCKnowledge ----------------------------
(* One question cached, and three requests of any kinds around it. *)
EXTENDS KnowledgeCache

CONSTANTS q1, q2

J(kind, on, opt) == [kind |-> kind, on |-> on, opt |-> opt]

Asks(q) == J("ask", q, "none")
Edited == J("update", 0, "published")
Archived == J("update", 0, "archived")
Deleted == J("delete", 0, "none")
Purge == J("purge", 0, "none")
Sweeps == J("sweep", 0, "none")
Cleared == J("clear", 0, "none")
Area(jobs, reqs, mishaps) == [jobs |-> jobs, reqs |-> reqs, mishaps |-> mishaps]
MCAreas ==
    {Area({Asks(q1), Edited}, 3, 0),
     Area({Asks(q1), Asks(q2), Edited}, 2, 1),
     Area({Asks(q1), Purge, Sweeps}, 3, 0),
     Area({Asks(q1), Purge, Sweeps, Cleared}, 2, 1),
     Area({Edited, Archived, Deleted}, 2, 1),
     Area({J("create", 0, "published"), J("create", 0, "archived"), Asks(q1)}, 2, 0)}
=============================================================================
