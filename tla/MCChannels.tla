------------------------------ MODULE MCChannels ------------------------------
(* Up to three processes of any one area, and what Google does beside them. *)
EXTENDS Intake

J(kind, on, opt) == [kind |-> kind, on |-> on, opt |-> opt]
Do(kind) == J(kind, None, None)
Area(jobs, events, reqs, throws) == [jobs |-> jobs, events |-> events, reqs |-> reqs, faults |-> throws]

Syncs2 == {Do("sync"), Do("poll")}
Replies == {J("reply", First, None)}
Settings == {J("settings", None, [field |-> f, value |-> FALSE]) : f \in {"sync", "create"}}
Callbacks == {J("callback", Main, Main), J("callback", Main, Other), J("callback", Other, Other)}
Is(kind, what) == J(kind, None, [is |-> what])
Sent == {Is("answer", "serious"), Is("answer", "bot"), Do("api"), Do("say")}
Import(process, rows, dry) == J("import", process, [rows |-> rows, dry |-> dry])
Imports == {Import(p, {1, 2}, FALSE) : p \in {Main, Other}} \cup {Import(Main, {1}, FALSE), Import(Main, {1, 2}, TRUE)}
Evaluations == {J("eval", p, None) : p \in {Main, Other}} \cup {Do("newCase"), Do("dropCase")}
IntakeAreas ==
    {Area({Do("newForm"), Do("newCase"), Do("dropForm")}, {}, 3, 0),
     Area({Is("switch", "on"), Is("switch", "off"), Do("dropForm"), Is("answer", "plain")}, {}, 3, 0),
     Area(Sent \cup {Do("block")}, {}, 3, 1), Area(Imports \cup {Do("untag")}, {}, 3, 0), Area(Imports, {}, 2, 1),
     Area({Do("seed"), Do("clear"), Do("untag")}, {}, 3, 1), Area(Evaluations, {}, 3, 1),
     Area({Do("connectShop"), Do("disconnectShop")}, {}, 3, 1), Area({Do("rate"), Do("reopen")}, {}, 3, 1)}
MCAreas == IntakeAreas \cup
    {Area(Syncs2, {"new", "same"}, 2, 0), Area({Do("sync")}, {"new", "auto", "blocked"}, 1, 1),
     Area(Syncs2, {"new", "forget"}, 2, 0), Area({Do("sync")} \cup Replies, {"new", "answer"}, 2, 0),
     Area(Replies, {}, 3, 0), Area({Do("sync"), Do("disconnect")} \cup Replies, {"expire"}, 2, 1),
     Area({Do("disconnect")} \cup Callbacks, {}, 3, 0), Area({Do("sync")} \cup Settings, {"new"}, 2, 0),
     Area({Do("open"), Do("close"), Do("submit")}, {}, 3, 0),
     Area({Do("open"), Do("close"), Do("submit")}, {}, 2, 1), Area({Do("submit"), Do("solve")}, {}, 3, 0),
     Area({Do("submit")}, {}, 2, 2), Area({Do("upload"), Do("submit"), Do("sweep")}, {}, 3, 0),
     Area({Do("upload"), Do("sweep")}, {}, 2, 1), Area({Do("upload"), Do("submit")}, {}, 2, 1)}
=============================================================================
