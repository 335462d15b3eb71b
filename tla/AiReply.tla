-------------------------------- MODULE AiReply --------------------------------
(***************************************************************************)
(* One widget conversation (apps/api): the visitor's messages, each        *)
(* answered in the background by aiReplyService.run, the escalation it     *)
(* starts for serious matters, the hand-over to a person, and the button   *)
(* "Talk to a human".  Runs of different messages overlap, tag rules run   *)
(* beside them, and each writes ticket.tags from what it read before.      *)
(*                                                                         *)
(* One ticket.  Every await is a step boundary.                            *)
(***************************************************************************)
EXTENDS Integers, Sequences, FiniteSets, SequencesExt, FiniteSetsExt

CONSTANTS
    Requests,       \* HTTP requests that post a message
    Messages,       \* clientMessageIds: a retry repeats one
    Presses,        \* HTTP requests of "Talk to a human"
    Kinds,          \* kinds of message, among AllKinds
    Modes,          \* values aiReplyMode takes
    AllowanceLimit, \* AI replies the plan has left this month
    MaxReplies,     \* MAX_AI_REPLIES_PER_10_MIN
    RuleKinds,      \* kinds of message that a customer_replied rule answers with a tag
    None,
    MaxRuleRuns,    \* bound: messages whose rule is followed
    MaxEvents       \* bound: what the staff does and requests that throw or die, together

AllKinds == {"general", "damaged", "refund", "urgent", "defect", "file"}
Levels == {"none", "high", "critical"}
Tags == {"human-handoff", "escalated", "rule"}

ASSUME AiReplyAssumption ==
    /\ Kinds \subseteq AllKinds
    /\ "autopilot" \in Modes /\ Modes \subseteq {"off", "copilot", "autopilot"}
    /\ AllowanceLimit \in Nat
    /\ MaxReplies \in Nat
    /\ RuleKinds \subseteq AllKinds
    /\ None \notin Messages
    /\ MaxRuleRuns \in Nat /\ MaxEvents \in Nat

VARIABLES
    mode,       \* organization.aiReplyMode
    closed,     \* ticket.status is solved or closed
    tags,       \* ticket.tags
    escalation, \* the ticket's row of ticket_escalations, or NoEscalation
    log,        \* messages of the visitor and of agents in the order of createdAt
    replies,    \* replies[m]: the AI's reply to m, stored under "ai:<m>"
    requested,  \* the message "human-request" is stored
    used,       \* AI replies consumed of the allowance
    run,        \* run[r]: request r and the AI run it starts
    rule,       \* rule[r]: the tag rule request r sets off
    press,      \* press[h]: a press of "Talk to a human"
    acts,       \* replies and changes by the staff
    faults      \* requests that threw or died

ticket == <<closed, tags>>
bounds == <<acts, faults>>
stored == <<log, replies, requested>>
vars == <<mode, ticket, escalation, stored, used, run, rule, press, bounds>>

-----------------------------------------------------------------------------
(* Helpers *)

NoRun == [pc |-> "idle", msg |-> None, mode |-> "off", tags |-> {}, closed |-> FALSE,
          seen |-> 0, ai |-> 0, level |-> "none", was |-> None, handoff |-> FALSE, outcome |-> "none"]
NoEscalation == [level |-> "none", since |-> 0]
NoRule == [pc |-> "off", tags |-> {}]
NoPress == [pc |-> "idle", tags |-> {}]
PressEnded == [pc |-> "ended", tags |-> {}]

Weight(kind) == CASE kind \in {"general", "file"} -> 0
                  [] kind \in {"damaged", "refund"} -> 1
                  [] kind = "urgent" -> 2
                  [] kind = "defect" -> 5
HumanOnly(kind) == kind = "refund"

\* The visitor's message posted under client id m.
Posts(m) == {i \in DOMAIN log : log[i].by = "customer" /\ log[i].msg = m}
Stored(m) == Posts(m) # {}
KindOf(m) == log[Min(Posts(m))].kind
Answered(m) == replies[m] # "none"
Entry(by, m, kind) == [by |-> by, msg |-> m, kind |-> kind]

\* assessSeverity over the visitor's texts: a rule that matches twice counts once.
Severity(upto) ==
    LET kinds == {log[i].kind : i \in {j \in 1..upto : log[j].by = "customer"}}
        score == MapThenSumSet(Weight, kinds)
    IN  IF score >= 5 THEN "critical" ELSE IF score >= 2 THEN "high" ELSE "none"

\* A retry finds the message it stored before and starts nothing.
Duplicate(m) == Stored(m)

\* Only a ticket the run saw as handed over, answered by an agent or closed is left alone.
LastIsAgent(seen) == seen > 0 /\ log[seen].by = "agent"
AgentReplied(seen) == \E i \in 1..seen : log[i].by = "agent"

\* What the run does after its reads: a serious matter is escalated first, in every mode.
EscalateInAutopilot(md, level) == IF md = "autopilot" /\ level # "none" THEN "escalate" ELSE "guards"
AfterReads(md, level) == IF level # "none" THEN "escalate" ELSE "guards"

\* decideReply: only a matter that is not serious is answered without a person.
AnswersHighMatters(level) == level # "critical"
MayAnswer(level) == level = "none"

\* The row the upsert leaves: the deadline is counted from the first flag.
LevelOf(was, level) == IF was = "critical" \/ level = "critical" THEN "critical" ELSE "high"
Upserted(row, level, now) ==
    [level |-> level, since |-> IF row = NoEscalation THEN now ELSE row.since]

\* consumeAiReply's conditional increment.
Allows(n) == n < AllowanceLimit

Ended(x, outcome) ==
    [NoRun EXCEPT !.pc = "ended", !.msg = x.msg, !.level = x.level, !.outcome = outcome]
Go(r, pc) == run' = [run EXCEPT ![r].pc = pc]
EndEscalation(r) == run' = [run EXCEPT ![r].pc = "guards", ![r].was = None]
\* The reply is ready to be stored; of the reads only the tags are used again.
Compose(r, handoff) ==
    run' = [run EXCEPT ![r] = [NoRun EXCEPT !.pc = "store", !.msg = run[r].msg,
                !.tags = run[r].tags, !.level = run[r].level, !.handoff = handoff]]
End(r, outcome) == run' = [run EXCEPT ![r] = Ended(run[r], outcome)]

-----------------------------------------------------------------------------
(* State *)

Outcomes == {"none", "duplicate", "file", "mode", "taken_over", "agent", "closed", "rate",
             "replied", "handoff", "error"}
RunState ==
    [pc : {"idle", "begun", "ticket", "escalate", "upsert", "tag", "guards", "store", "mark", "ended"},
     msg : Messages \cup {None}, mode : {"off", "copilot", "autopilot"}, tags : SUBSET Tags,
     closed : BOOLEAN, seen : Nat, ai : Nat, level : Levels,
     was : {None} \cup [tags : SUBSET Tags, level : Levels], handoff : BOOLEAN,
     outcome : Outcomes]

\* The type invariant.
TypeOK ==
    /\ mode \in Modes
    /\ closed \in BOOLEAN
    /\ tags \subseteq Tags
    /\ escalation = NoEscalation \/ escalation \in [level : Levels \ {"none"}, since : 0..Len(log)]
    /\ log \in Seq([by : {"customer", "agent"}, msg : Messages \cup {None}, kind : AllKinds])
    /\ replies \in [Messages -> {"none", "answer", "handoff"}]
    /\ requested \in BOOLEAN
    /\ used \in 0..AllowanceLimit
    /\ run \in [Requests -> RunState]
    /\ \A r \in Requests : run[r].seen <= Len(log)
    /\ rule \in [Requests -> [pc : {"off", "read", "write", "kept", "wrote"}, tags : SUBSET Tags]]
    /\ press \in [Presses -> [pc : {"idle", "store", "mark", "ended"}, tags : SUBSET Tags]]
    /\ acts \in Nat /\ faults \in Nat
    /\ acts + faults <= MaxEvents

Init ==
    /\ mode \in Modes
    /\ closed = FALSE
    /\ tags = {}
    /\ escalation = NoEscalation
    /\ log = <<>>
    /\ replies = [m \in Messages |-> "none"]
    /\ requested = FALSE
    /\ used = 0
    /\ run = [r \in Requests |-> NoRun]
    /\ rule = [r \in Requests |-> NoRule]
    /\ press = [h \in Presses |-> NoPress]
    /\ acts = 0
    /\ faults = 0

-----------------------------------------------------------------------------
(* widgetController.addMessage and widgetService.addCustomerMessage *)

RulesRun == Cardinality({r \in Requests : rule[r].pc # "off"})

\* The insert, unique on (ticketId, clientMessageId), sets off the rules and the AI run; a
\* message that is only a file has no text to answer.  A request that dies before either
\* begins is one whose run aborts at once and whose rule never reads.
AddMessage(r, m) ==
    /\ run[r].pc = "idle"
    /\ IF Duplicate(m)
       THEN /\ run' = [run EXCEPT ![r] = Ended([NoRun EXCEPT !.msg = m], "duplicate")]
            /\ UNCHANGED <<log, rule>>
       ELSE \E kind \in Kinds :
            /\ log' = Append(log, Entry("customer", m, kind))
            /\ rule' = IF kind \in RuleKinds /\ RulesRun < MaxRuleRuns
                       THEN [rule EXCEPT ![r].pc = "read"] ELSE rule
            /\ run' = [run EXCEPT ![r] = IF kind = "file"
                                         THEN Ended([NoRun EXCEPT !.msg = m], "file")
                                         ELSE [NoRun EXCEPT !.pc = "begun", !.msg = m]]
    /\ UNCHANGED <<mode, ticket, escalation, replies, requested, used, press, bounds>>

-----------------------------------------------------------------------------
(* aiReplyService.run *)

\* The mode and the ticket; a change of mode between the two reads commutes with the second.
ReadTicket(r) ==
    /\ run[r].pc = "begun"
    /\ run' = [run EXCEPT ![r].pc = "ticket", ![r].mode = mode,
                          ![r].tags = tags, ![r].closed = closed]
    /\ UNCHANGED <<mode, ticket, escalation, stored, used, rule, press, bounds>>

\* The public messages; the visitor's part of them decides the severity.
ReadMessages(r) ==
    LET level == Severity(Len(log)) IN
    /\ run[r].pc = "ticket"
    /\ run' = [run EXCEPT ![r].pc = AfterReads(run[r].mode, level),
                          ![r].seen = Len(log), ![r].level = level,
                          ![r].ai = Cardinality({m \in Messages : Answered(m)})]
    /\ UNCHANGED <<mode, ticket, escalation, stored, used, rule, press, bounds>>

\* escalationsService.escalate: the ticket and its escalation are read again...
EscalateRead(r) ==
    /\ run[r].pc = "escalate"
    /\ run' = [run EXCEPT ![r].pc = "upsert",
                  ![r].was = [tags |-> tags, level |-> escalation.level]]
    /\ UNCHANGED <<mode, ticket, escalation, stored, used, rule, press, bounds>>

\* ...the row is written with the higher of the two levels...
EscalateUpsert(r) ==
    LET x == run[r] IN
    /\ x.pc = "upsert"
    /\ escalation' = Upserted(escalation, LevelOf(x.was.level, x.level), Len(log))
    /\ IF "escalated" \in x.was.tags THEN EndEscalation(r) ELSE Go(r, "tag")
    /\ UNCHANGED <<mode, ticket, stored, used, rule, press, bounds>>

\* ...and the tags are the ones read, with "escalated".
EscalateTag(r) ==
    /\ run[r].pc = "tag"
    /\ tags' = run[r].was.tags \cup {"escalated"}
    /\ EndEscalation(r)
    /\ UNCHANGED <<mode, closed, escalation, stored, used, rule, press, bounds>>

\* evaluate swallows whatever its steps throw.
EscalateFails(r) ==
    /\ run[r].pc \in {"escalate", "upsert", "tag"}
    /\ acts + faults < MaxEvents
    /\ faults' = faults + 1
    /\ EndEscalation(r)
    /\ UNCHANGED <<mode, ticket, escalation, stored, used, rule, press, acts>>

\* Every early return, in order.
Skip(r) ==
    LET x == run[r] IN
    CASE x.mode # "autopilot"            -> "mode"
      [] "human-handoff" \in x.tags      -> "taken_over"
      [] AgentReplied(x.seen)            -> "agent"
      [] x.closed                        -> "closed"
      [] OTHER                           -> "none"

\* Replies older than ten minutes do not count for the rate guard: any of them may be.
MayBeLimited(ai) == ai >= MaxReplies

StopEarly(r) ==
    LET x == run[r] IN
    /\ x.pc = "guards"
    /\ \/ Skip(r) # "none" /\ End(r, Skip(r))
       \/ Skip(r) = "none" /\ MayBeLimited(x.ai) /\ End(r, "rate")
    /\ UNCHANGED <<mode, ticket, escalation, stored, used, rule, press, bounds>>

\* Human-only intents and critical matters are handed over without spending a reply.
HandOver(r) ==
    LET x == run[r] IN
    /\ x.pc = "guards" /\ Skip(r) = "none"
    /\ HumanOnly(KindOf(x.msg)) \/ x.level = "critical"
    /\ Compose(r, TRUE)
    /\ UNCHANGED <<mode, ticket, escalation, stored, used, rule, press, bounds>>

\* consumeAiReply, and the AI service's answer, which may be unsure or not come; without
\* allowance a person takes over.  The call to the AI touches nothing of the conversation.
AskAi(r) ==
    LET x == run[r] IN
    /\ x.pc = "guards" /\ Skip(r) = "none"
    /\ ~HumanOnly(KindOf(x.msg)) /\ x.level # "critical"
    /\ used' = IF Allows(used) THEN used + 1 ELSE used
    /\ \E sure \in BOOLEAN : Compose(r, ~(Allows(used) /\ sure /\ MayAnswer(x.level)))
    /\ UNCHANGED <<mode, ticket, escalation, stored, rule, press, bounds>>

\* The reply is stored under "ai:<message>", unique on the ticket.
StoreReply(r) ==
    LET x == run[r] IN
    /\ x.pc = "store"
    /\ IF Answered(x.msg)
       THEN End(r, "duplicate") /\ UNCHANGED replies
       ELSE /\ replies' = [replies EXCEPT ![x.msg] = IF x.handoff THEN "handoff" ELSE "answer"]
            /\ IF x.handoff THEN Go(r, "mark") ELSE End(r, "replied")
    /\ UNCHANGED <<mode, ticket, escalation, log, requested, used, rule, press, bounds>>

\* markHandoff writes the tags the run read at its start, with the mark.
MarkHandoff(r) ==
    /\ run[r].pc = "mark"
    /\ tags' = run[r].tags \cup {"human-handoff"}
    /\ End(r, "handoff")
    /\ UNCHANGED <<mode, closed, escalation, stored, used, rule, press, bounds>>

\* The request dies, or an await throws: what is stored stays, and nothing runs again.
Abort(r) ==
    /\ run[r].pc \notin {"idle", "ended"}
    /\ acts + faults < MaxEvents
    /\ faults' = faults + 1
    /\ End(r, "error")
    /\ UNCHANGED <<mode, ticket, escalation, stored, used, rule, press, acts>>

-----------------------------------------------------------------------------
(* automationEngine.run with a rule that adds a tag *)

RuleRead(r) ==
    /\ rule[r].pc = "read"
    /\ rule' = [rule EXCEPT ![r] = IF "rule" \in tags THEN [NoRule EXCEPT !.pc = "kept"]
                                  ELSE [pc |-> "write", tags |-> tags]]
    /\ UNCHANGED <<mode, ticket, escalation, stored, used, run, press, bounds>>

RuleWrite(r) ==
    /\ rule[r].pc = "write"
    /\ tags' = rule[r].tags \cup {"rule"}
    /\ rule' = [rule EXCEPT ![r] = [pc |-> "wrote", tags |-> @.tags \cap {"human-handoff"}]]
    /\ UNCHANGED <<mode, closed, escalation, stored, used, run, press, bounds>>

-----------------------------------------------------------------------------
(* aiReplyService.requestHuman *)

PressHuman(h) ==
    /\ press[h].pc = "idle"
    /\ press' = [press EXCEPT ![h] = IF "human-handoff" \in tags THEN PressEnded
                                    ELSE [pc |-> "store", tags |-> tags]]
    /\ UNCHANGED <<mode, ticket, escalation, stored, used, run, rule, bounds>>

\* The confirmation is stored under "human-request": a second one is a duplicate.
StoreRequest(h) ==
    /\ press[h].pc = "store"
    /\ requested' = TRUE
    /\ press' = [press EXCEPT ![h] = IF requested THEN PressEnded ELSE [@ EXCEPT !.pc = "mark"]]
    /\ UNCHANGED <<mode, ticket, escalation, log, replies, used, run, rule, bounds>>

MarkRequest(h) ==
    /\ press[h].pc = "mark"
    /\ tags' = press[h].tags \cup {"human-handoff"}
    /\ press' = [press EXCEPT ![h] = PressEnded]
    /\ UNCHANGED <<mode, closed, escalation, stored, used, run, rule, bounds>>

PressFails(h) ==
    /\ press[h].pc \in {"store", "mark"}
    /\ acts + faults < MaxEvents
    /\ faults' = faults + 1
    /\ press' = [press EXCEPT ![h] = PressEnded]
    /\ UNCHANGED <<mode, ticket, escalation, stored, used, run, rule, acts>>

-----------------------------------------------------------------------------
(* The staff *)

AgentReplies ==
    /\ acts + faults < MaxEvents
    /\ acts' = acts + 1
    /\ log' = Append(log, Entry("agent", None, "general"))
    /\ UNCHANGED <<mode, ticket, escalation, replies, requested, used, run, rule, press, faults>>

ChangeStatus ==
    /\ acts + faults < MaxEvents
    /\ acts' = acts + 1
    /\ closed' = ~closed
    /\ UNCHANGED <<mode, tags, escalation, stored, used, run, rule, press, faults>>

ChangeMode ==
    /\ acts + faults < MaxEvents
    /\ acts' = acts + 1
    /\ mode' \in Modes \ {mode}
    /\ UNCHANGED <<ticket, escalation, stored, used, run, rule, press, faults>>

-----------------------------------------------------------------------------
Escalate(r) == EscalateRead(r) \/ EscalateUpsert(r) \/ EscalateTag(r) \/ EscalateFails(r)
Reply(r) ==
    \/ ReadTicket(r) \/ ReadMessages(r) \/ StopEarly(r) \/ HandOver(r) \/ AskAi(r)
    \/ StoreReply(r) \/ MarkHandoff(r) \/ Abort(r)
TagRule(r) == RuleRead(r) \/ RuleWrite(r)
RequestHuman(h) == PressHuman(h) \/ StoreRequest(h) \/ MarkRequest(h) \/ PressFails(h)
Staff == AgentReplies \/ ChangeStatus \/ ChangeMode

Next ==
    \/ \E r \in Requests, m \in Messages : AddMessage(r, m)
    \/ \E r \in Requests : Escalate(r) \/ Reply(r) \/ TagRule(r)
    \/ \E h \in Presses : RequestHuman(h)
    \/ Staff

Spec == Init /\ [][Next]_vars

-----------------------------------------------------------------------------
(* Properties *)

\* However often the visitor's client repeats a message it is stored once and spends at most
\* one reply of the allowance, and the AI answers nothing it did not spend one for.
OneReplyPerMessage ==
    /\ \A m \in Messages : Cardinality(Posts(m)) <= 1
    /\ used <= Cardinality({m \in Messages : Stored(m)})
    /\ Cardinality({m \in Messages : replies[m] = "answer"}) <= used

\* The AI never replies to a message that came after an agent's reply, whatever came in
\* between (the guard "agent_replied").
NoAnswerAfterAnAgent ==
    \A m \in Messages : \A i \in Posts(m) :
        (\E k \in 1..i : log[k].by = "agent") => ~Answered(m)

\* The AI answers what it may, and each message once (ai-reply.service run).
AnswersAreDue == OneReplyPerMessage /\ NoAnswerAfterAnAgent

\* A run that found a serious matter and ended leaves the ticket with an escalation, unless
\* a fault came in its way: the clock starts in every mode, handed over or not.
SeriousIsEscalated ==
    \A r \in Requests :
        run[r].pc = "ended" /\ run[r].level # "none" /\ faults = 0 => escalation # NoEscalation

\* At rest and without faults, a visitor who was told that a person takes over has the
\* ticket marked for one.  escalate may overwrite the mark with tags it read before; the run
\* it belongs to then sets the mark again, unless it stops for another reason, and a tag
\* rule never does.
Quiet ==
    /\ \A r \in Requests : run[r].pc \in {"idle", "ended"} /\ rule[r].pc \notin {"read", "write"}
    /\ \A h \in Presses : press[h].pc \in {"idle", "ended"}
ToldOfAPerson == requested \/ \E m \in Messages : replies[m] = "handoff"
MayLoseTheMark(r) ==
    \/ run[r].level # "none" /\ run[r].outcome \in {"mode", "agent", "closed", "rate"}
    \/ rule[r].pc = "wrote" /\ "human-handoff" \notin rule[r].tags
HandoffMarkSurvives ==
    Quiet /\ faults = 0 /\ ToldOfAPerson
        => "human-handoff" \in tags \/ \E r \in Requests : MayLoseTheMark(r)

\* A flagged ticket gets the tag "escalated" (docs/INTEGRATIONS.md:98): at rest and without
\* faults, an escalated ticket carries it.
EscalatedIsTagged ==
    Quiet /\ faults = 0 /\ escalation # NoEscalation => "escalated" \in tags

=============================================================================
