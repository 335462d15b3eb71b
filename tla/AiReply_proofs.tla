----------------------------- MODULE AiReply_proofs -----------------------------
(***************************************************************************)
(* Proofs about AiReply for any requests, messages, presses and kinds of   *)
(* message, any allowance and any numbers of events and of rules followed. *)
(***************************************************************************)
EXTENDS AiReply, FiniteSetTheorems, SequenceTheorems, TLAPS

-----------------------------------------------------------------------------
(* The inductive invariant *)

\* A run that has not yet answered its message, and one that has still to decide to.
Undecided == {"begun", "ticket", "escalate", "upsert", "tag", "guards"}
Active == Undecided \cup {"store"}

StoredMessages == {m \in Messages : Stored(m)}

\* A message is stored once, and one run at a time is about it: the one that stored it.
OneRunPerMessage ==
    /\ \A m \in Messages : \A i, j \in Posts(m) : i = j
    /\ \A r \in Requests : run[r].pc \in Active \cup {"mark"} => run[r].msg \in StoredMessages
    /\ \A r \in Requests : run[r].pc \in Active => ~Answered(run[r].msg)
    /\ \A r, q \in Requests :
          run[r].pc \in Active /\ run[q].pc \in Active /\ run[r].msg = run[q].msg => r = q

\* Messages whose run has decided, and messages answered or about to be.
Settled == {m \in StoredMessages :
               \A r \in Requests : run[r].pc \in Undecided => run[r].msg # m}
Answers == {m \in Messages :
               \/ replies[m] = "answer"
               \/ \E r \in Requests : run[r].pc = "store" /\ run[r].msg = m /\ ~run[r].handoff}

\* A reply of the allowance is spent for a message that is settled, and every answer was.
SpentOnce ==
    /\ IsFiniteSet(StoredMessages)
    /\ used <= Cardinality(Settled)
    /\ Cardinality(Answers) <= used
    /\ \A m \in Messages : Answered(m) => m \in StoredMessages

\* No agent had replied when the message came.
BeforeAgents(m) == \A i \in Posts(m) : \A k \in 1..i : log[k].by # "agent"

\* A run has seen its message when it has read the messages, and stores no reply to one
\* that an agent's came before.
AnswersInTime ==
    /\ \A r \in Requests : run[r].pc \in {"escalate", "upsert", "tag", "guards"} =>
          \A i \in Posts(run[r].msg) : i <= run[r].seen
    /\ \A r \in Requests : run[r].pc = "store" => BeforeAgents(run[r].msg)
    /\ \A m \in Messages : Answered(m) => BeforeAgents(m)

\* Only a run that has read the messages knows a level, and without faults it has escalated
\* when it decides.
Escalates ==
    \A r \in Requests :
        /\ run[r].pc \in {"begun", "ticket"} => run[r].level = "none"
        /\ run[r].pc \in {"escalate", "upsert", "tag"} => run[r].level # "none"
        /\ run[r].pc \in {"upsert", "tag"} => run[r].was \in [tags : SUBSET Tags, level : Levels]
        /\ run[r].pc = "tag" => "escalated" \notin run[r].was.tags /\ escalation # NoEscalation
        /\ run[r].pc \in {"guards", "store", "mark", "ended"} /\ run[r].level # "none" /\ faults = 0
              => escalation # NoEscalation

\* A rule wrote tags without the mark.
RuleLost(r) == rule[r].pc = "wrote" /\ "human-handoff" \notin rule[r].tags
MarkLost == \E r \in Requests : RuleLost(r)

\* Once it was seen the mark is there, or an escalation has overwritten it with its own.
Flagged(t) == "human-handoff" \in t \/ "escalated" \in t
SeenMarkLeavesATrace ==
    \A r \in Requests : "human-handoff" \in run[r].tags =>
        \/ MarkLost
        \/ /\ Flagged(tags)
           /\ run[r].pc \in {"upsert", "tag"} => Flagged(run[r].was.tags)

\* A run that is to set the mark, as a serious one does that saw none, or one that was
\* serious and stopped for a reason of its own.
Accounts(x) ==
    \/ x.pc = "mark"
    \/ /\ x.level # "none" /\ "human-handoff" \notin x.tags
       /\ x.pc = "guards" \/ (x.pc = "store" /\ x.handoff)
    \/ x.level # "none" /\ x.outcome \in {"mode", "agent", "closed", "rate"}
ToldIsMarked ==
    ToldOfAPerson /\ faults = 0 =>
        \/ "human-handoff" \in tags
        \/ MarkLost
        \/ \E r \in Requests : Accounts(run[r])
        \/ \E h \in Presses : press[h].pc = "mark"

\* Nothing has come of a request that has not posted, and no outcome before a run's end.
NothingBeforehand ==
    \A r \in Requests :
        /\ run[r].pc = "idle" => run[r].level = "none" /\ rule[r].pc = "off"
        /\ run[r].outcome # "none" => run[r].pc = "ended"

AiReplyInv ==
    TypeOK /\ OneRunPerMessage /\ SpentOnce /\ AnswersInTime /\ Escalates
        /\ SeenMarkLeavesATrace /\ ToldIsMarked /\ NothingBeforehand

-----------------------------------------------------------------------------
(* The steps of a run *)

Stages == {"idle", "begun", "ticket", "escalate", "upsert", "tag", "guards", "store", "mark", "ended"}

\* Run r becomes x.
Moves(r, x) == x \in RunState /\ run' = [run EXCEPT ![r] = x]

\* The fields a run keeps on its way, its stage and what escalate read apart.
Keeps(x, y) ==
    /\ x.msg = y.msg /\ x.mode = y.mode /\ x.tags = y.tags /\ x.closed = y.closed /\ x.seen = y.seen
    /\ x.level = y.level /\ x.handoff = y.handoff /\ x.outcome = y.outcome

\* Only run r moves.
LEMMA MovesOne ==
    ASSUME TypeOK, NEW r \in Requests, NEW x, Moves(r, x)
    PROVE  /\ run' \in [Requests -> RunState] /\ run'[r] = x
           /\ \A q \in Requests \ {r} : run'[q] = run[q]
  BY DEF TypeOK, Moves

\* A run that goes on to a stage.
LEMMA GoMoves ==
    ASSUME TypeOK, NEW r \in Requests, NEW pc \in Stages, Go(r, pc)
    PROVE  \E x : Moves(r, x) /\ x.pc = pc /\ Keeps(x, run[r]) /\ x.was = run[r].was
  <1>1. run \in [Requests -> RunState] /\ run[r] \in RunState
    BY DEF TypeOK
  <1> DEFINE x == [run[r] EXCEPT !.pc = pc]
  <1>2. x \in RunState /\ x.pc = pc /\ Keeps(x, run[r]) /\ x.was = run[r].was
    BY <1>1 DEF RunState, Stages, Keeps
  <1>3. run' = [run EXCEPT ![r] = x]
    BY <1>1 DEF Go
  <1> HIDE DEF x
  <1>4. QED
    BY <1>2, <1>3 DEF Moves

\* A run that is through with escalate.
LEMMA EndEscalationMoves ==
    ASSUME TypeOK, NEW r \in Requests, EndEscalation(r)
    PROVE  \E x : Moves(r, x) /\ x.pc = "guards" /\ Keeps(x, run[r])
  <1>1. run \in [Requests -> RunState] /\ run[r] \in RunState
    BY DEF TypeOK
  <1> DEFINE x == [run[r] EXCEPT !.pc = "guards", !.was = None]
  <1>2. x \in RunState /\ x.pc = "guards" /\ Keeps(x, run[r])
    BY <1>1 DEF RunState, Keeps
  <1>3. run' = [run EXCEPT ![r] = x]
    BY <1>1 DEF EndEscalation
  <1> HIDE DEF x
  <1>4. QED
    BY <1>2, <1>3 DEF Moves

\* A run that ends.
LEMMA EndMoves ==
    ASSUME TypeOK, NEW r \in Requests, NEW outcome \in Outcomes, End(r, outcome)
    PROVE  \E x : /\ Moves(r, x) /\ x.pc = "ended" /\ x.outcome = outcome /\ x.msg = run[r].msg
                  /\ x.level = run[r].level /\ x.tags = {} /\ x.seen = 0
  <1>1. run[r] \in RunState
    BY DEF TypeOK
  <1> DEFINE x == Ended(run[r], outcome)
  <1>2. /\ x \in RunState /\ x.pc = "ended" /\ x.outcome = outcome /\ x.msg = run[r].msg
        /\ x.level = run[r].level /\ x.tags = {} /\ x.seen = 0
    BY <1>1 DEF RunState, Ended, NoRun
  <1>3. run' = [run EXCEPT ![r] = x]
    BY DEF End
  <1> HIDE DEF x
  <1>4. QED
    BY <1>2, <1>3 DEF Moves

\* A run that has its reply ready.
LEMMA ComposeMoves ==
    ASSUME TypeOK, NEW r \in Requests, NEW handoff \in BOOLEAN, Compose(r, handoff)
    PROVE  \E x : /\ Moves(r, x) /\ x.pc = "store" /\ x.handoff = handoff /\ x.msg = run[r].msg
                  /\ x.level = run[r].level /\ x.tags = run[r].tags /\ x.seen = 0
                  /\ x.outcome = "none"
  <1> DEFINE msg == run[r].msg
             seen == run[r].tags
             level == run[r].level
             x == [NoRun EXCEPT !.pc = "store", !.msg = msg, !.tags = seen, !.level = level,
                                !.handoff = handoff]
  <1>1. msg \in Messages \cup {None} /\ seen \in SUBSET Tags /\ level \in Levels
    BY DEF TypeOK, RunState
  <1>2. run' = [run EXCEPT ![r] = x]
    BY DEF Compose
  <1> HIDE DEF msg, seen, level
  <1>3. /\ x \in RunState /\ x.pc = "store" /\ x.handoff = handoff /\ x.msg = msg
        /\ x.level = level /\ x.tags = seen /\ x.seen = 0 /\ x.outcome = "none"
    BY <1>1 DEF RunState, NoRun, Outcomes
  <1> HIDE DEF x
  <1>4. QED
    BY <1>2, <1>3 DEF Moves, msg, seen, level

\* A run that reads the ticket.
LEMMA ReadTicketMoves ==
    ASSUME TypeOK, NEW r \in Requests, ReadTicket(r)
    PROVE  \E x : /\ Moves(r, x) /\ x.pc = "ticket" /\ x.tags = tags /\ x.msg = run[r].msg
                  /\ x.level = run[r].level /\ x.seen = run[r].seen /\ x.outcome = run[r].outcome
  <1>1. run \in [Requests -> RunState] /\ run[r] \in RunState
    BY DEF TypeOK
  <1>2. mode \in {"off", "copilot", "autopilot"} /\ tags \subseteq Tags /\ closed \in BOOLEAN
    BY AiReplyAssumption DEF TypeOK
  <1> DEFINE x == [run[r] EXCEPT !.pc = "ticket", !.mode = mode, !.tags = tags, !.closed = closed]
  <1>3. /\ x \in RunState /\ x.pc = "ticket" /\ x.tags = tags /\ x.msg = run[r].msg
        /\ x.level = run[r].level /\ x.seen = run[r].seen /\ x.outcome = run[r].outcome
    BY <1>1, <1>2 DEF RunState
  <1>4. run' = [run EXCEPT ![r] = x]
    BY <1>1 DEF ReadTicket
  <1> HIDE DEF x
  <1>5. QED
    BY <1>3, <1>4 DEF Moves

\* The severity is one of the levels, whatever the visitor wrote.
LEMMA SeverityIsALevel == \A n : Severity(n) \in Levels
  BY DEF Severity, Levels

\* A run that reads the messages.
LEMMA ReadMessagesMoves ==
    ASSUME TypeOK, Cardinality({m \in Messages : Answered(m)}) \in Nat,
           NEW r \in Requests, ReadMessages(r)
    PROVE  \E x : /\ Moves(r, x) /\ x.pc = (IF x.level # "none" THEN "escalate" ELSE "guards")
                  /\ x.seen = Len(log) /\ x.tags = run[r].tags /\ x.msg = run[r].msg
                  /\ x.outcome = run[r].outcome
  <1>1. run \in [Requests -> RunState] /\ run[r] \in RunState /\ Len(log) \in Nat
    BY DEF TypeOK
  <1> DEFINE level == Severity(Len(log))
             ai == Cardinality({m \in Messages : Answered(m)})
             pc == AfterReads(run[r].mode, level)
             n == Len(log)
             x == [run[r] EXCEPT !.pc = pc, !.seen = n, !.level = level, !.ai = ai]
  <1>2. level \in Levels /\ ai \in Nat
    BY SeverityIsALevel
  <1>3. run' = [run EXCEPT ![r] = x]
    BY <1>1 DEF ReadMessages
  <1>4. pc = (IF level # "none" THEN "escalate" ELSE "guards")
    BY DEF AfterReads
  <1> HIDE DEF level, ai, pc
  <1>5. /\ x \in RunState /\ x.pc = pc /\ x.level = level /\ x.seen = n
        /\ x.tags = run[r].tags /\ x.msg = run[r].msg /\ x.outcome = run[r].outcome
    BY <1>1, <1>2, <1>4 DEF RunState
  <1> HIDE DEF x
  <1>6. QED
    BY <1>3, <1>4, <1>5 DEF Moves

\* A run that reads for its escalation.
LEMMA EscalateReadMoves ==
    ASSUME TypeOK, NEW r \in Requests, EscalateRead(r)
    PROVE  \E x : /\ Moves(r, x) /\ x.pc = "upsert" /\ Keeps(x, run[r])
                  /\ x.was \in [tags : SUBSET Tags, level : Levels] /\ x.was.tags = tags
  <1>1. run \in [Requests -> RunState] /\ run[r] \in RunState /\ tags \subseteq Tags
    BY DEF TypeOK
  <1> DEFINE was == [tags |-> tags, level |-> escalation.level]
             x == [run[r] EXCEPT !.pc = "upsert", !.was = was]
  <1>2. was \in [tags : SUBSET Tags, level : Levels] /\ was.tags = tags
    BY <1>1 DEF TypeOK, Levels, NoEscalation
  <1>3. run' = [run EXCEPT ![r] = x]
    BY <1>1 DEF EscalateRead
  <1> HIDE DEF was
  <1>4. x \in RunState /\ x.pc = "upsert" /\ Keeps(x, run[r]) /\ x.was = was
    BY <1>1, <1>2 DEF RunState, Keeps
  <1> HIDE DEF x
  <1>5. QED
    BY <1>2, <1>3, <1>4 DEF Moves

-----------------------------------------------------------------------------
(* Type correctness *)

\* The answered messages are finitely many.
LEMMA AnsweredIsFinite ==
    ASSUME SpentOnce
    PROVE  Cardinality({m \in Messages : Answered(m)}) \in Nat
  <1>1. IsFiniteSet(StoredMessages) /\ {m \in Messages : Answered(m)} \in SUBSET StoredMessages
    BY DEF SpentOnce
  <1>2. QED
    BY <1>1, FS_Subset, FS_CardinalityType

\* A step of a run that leaves the log, the rules, the presses and the staff's part alone
\* is well typed when what it writes is.
LEMMA RunStepType ==
    ASSUME TypeOK, NEW r \in Requests, NEW x, Moves(r, x), x.seen <= Len(log),
           UNCHANGED <<mode, closed, log, requested, rule, press, acts>>,
           tags' \subseteq Tags, faults' \in {faults, faults + 1}, acts + faults' <= MaxEvents,
           escalation' = NoEscalation \/ escalation' \in [level : Levels \ {"none"}, since : 0..Len(log)],
           replies' \in [Messages -> {"none", "answer", "handoff"}], used' \in 0..AllowanceLimit
    PROVE  TypeOK'
  <1>1. /\ run' \in [Requests -> RunState] /\ run'[r] = x
        /\ \A q \in Requests \ {r} : run'[q] = run[q]
    BY MovesOne
  <1>2. \A q \in Requests : run'[q].seen <= Len(log)
    BY <1>1 DEF TypeOK
  <1>3. faults' \in Nat
    BY DEF TypeOK
  <1>4. QED
    BY <1>1, <1>2, <1>3 DEF TypeOK

\* The entries of the log that a step adds.
LEMMA LogGrows ==
    ASSUME TypeOK, NEW by \in {"customer", "agent"}, NEW m \in Messages \cup {None},
           NEW kind \in AllKinds, log' = Append(log, Entry(by, m, kind))
    PROVE  /\ log' \in Seq([by : {"customer", "agent"}, msg : Messages \cup {None}, kind : AllKinds])
           /\ Len(log) \in Nat /\ Len(log') = Len(log) + 1
           /\ \A i \in 1..Len(log) : log'[i] = log[i]
           /\ log'[Len(log) + 1] = Entry(by, m, kind)
  <1> DEFINE S == [by : {"customer", "agent"}, msg : Messages \cup {None}, kind : AllKinds]
             e == Entry(by, m, kind)
  <1>1. log \in Seq(S) /\ e \in S
    BY DEF TypeOK, Entry
  <1> HIDE DEF S, e
  <1>2. /\ Append(log, e) \in Seq(S) /\ Len(Append(log, e)) = Len(log) + 1
        /\ \A i \in 1..Len(log) : Append(log, e)[i] = log[i]
        /\ Append(log, e)[Len(log) + 1] = e
    BY <1>1, AppendProperties
  <1>3. Len(log) \in Nat
    BY <1>1
  <1>4. QED
    BY <1>2, <1>3 DEF S, e

\* A step that only adds to the log and moves runs and rules is well typed.
LEMMA LogStepType ==
    ASSUME TypeOK, UNCHANGED <<mode, ticket, escalation, replies, requested, used, press, faults>>,
           log' \in Seq([by : {"customer", "agent"}, msg : Messages \cup {None}, kind : AllKinds]),
           Len(log') \in {Len(log), Len(log) + 1},
           run' \in [Requests -> RunState], \A r \in Requests : run'[r].seen \in {0, run[r].seen},
           rule' \in [Requests -> [pc : {"off", "read", "write", "kept", "wrote"}, tags : SUBSET Tags]],
           acts' \in Nat, acts' + faults <= MaxEvents
    PROVE  TypeOK'
  <1>1. Len(log) \in Nat /\ Len(log') \in Nat /\ Len(log) <= Len(log')
    BY DEF TypeOK
  <1>2. \A r \in Requests : run'[r].seen <= Len(log')
    <2> TAKE r \in Requests
    <2>1. run[r].seen \in Nat /\ run[r].seen <= Len(log)
      BY DEF TypeOK, RunState
    <2>2. \A a, b, c \in Int : a <= b /\ b <= c => a <= c
      OBVIOUS
    <2>3. run[r].seen <= Len(log')
      BY <1>1, <2>1, <2>2
    <2>4. QED
      BY <1>1, <2>3
  <1>3. escalation = NoEscalation \/ escalation \in [level : Levels \ {"none"}, since : 0..Len(log')]
    BY <1>1 DEF TypeOK
  <1>4. QED
    BY <1>2, <1>3 DEF TypeOK, ticket

\* What a post does to its run: it is ended, or begun without having read anything.
LEMMA AddMessageMoves ==
    ASSUME TypeOK, NEW r \in Requests, NEW m \in Messages, AddMessage(r, m)
    PROVE  \E x : /\ Moves(r, x) /\ x.msg = m /\ x.level = "none" /\ x.tags = {} /\ x.seen = 0
                  /\ x.outcome # "none" => x.pc = "ended"
                  /\ \/ x.pc = "ended" /\ Stored(m) /\ UNCHANGED <<log, rule>>
                     \/ /\ x.pc \in {"begun", "ended"} /\ ~Stored(m)
                        /\ \E kind \in AllKinds : log' = Append(log, Entry("customer", m, kind))
                        /\ rule' = rule \/ rule' = [rule EXCEPT ![r].pc = "read"]
  <1> DEFINE E(outcome) == Ended([NoRun EXCEPT !.msg = m], outcome)
             b == [NoRun EXCEPT !.pc = "begun", !.msg = m]
  <1>1. \A outcome \in {"duplicate", "file"} :
           /\ E(outcome) \in RunState /\ E(outcome).msg = m /\ E(outcome).level = "none"
           /\ E(outcome).tags = {} /\ E(outcome).seen = 0 /\ E(outcome).pc = "ended"
    BY ZenonT(60) DEF Ended, NoRun, RunState, Levels, Outcomes
  <1>2. /\ b \in RunState /\ b.msg = m /\ b.level = "none" /\ b.tags = {} /\ b.seen = 0
        /\ b.pc = "begun" /\ b.outcome = "none"
    BY DEF NoRun, RunState, Levels, Outcomes
  <1> HIDE DEF E, b
  <1>3. CASE /\ Stored(m) /\ run' = [run EXCEPT ![r] = E("duplicate")]
             /\ UNCHANGED <<log, rule>>
    BY <1>1, <1>3 DEF Moves
  <1>4. ASSUME NEW kind \in Kinds, ~Stored(m),
               log' = Append(log, Entry("customer", m, kind)),
               rule' = rule \/ rule' = [rule EXCEPT ![r].pc = "read"],
               run' = [run EXCEPT ![r] = E("file")] \/ run' = [run EXCEPT ![r] = b]
        PROVE  \E x : /\ Moves(r, x) /\ x.msg = m /\ x.level = "none" /\ x.tags = {} /\ x.seen = 0
                      /\ x.pc \in {"begun", "ended"} /\ (x.outcome # "none" => x.pc = "ended")
    BY <1>1, <1>2, <1>4 DEF Moves
  <1>5. \A kind \in Kinds : kind \in AllKinds
    BY AiReplyAssumption
  <1>6. CASE Stored(m)
    BY <1>3, <1>6 DEF AddMessage, Duplicate, E
  <1>7. CASE ~Stored(m)
    <2>1. PICK kind \in Kinds :
             /\ log' = Append(log, Entry("customer", m, kind))
             /\ rule' = rule \/ rule' = [rule EXCEPT ![r].pc = "read"]
             /\ run' = [run EXCEPT ![r] = E("file")] \/ run' = [run EXCEPT ![r] = b]
      BY <1>7 DEF AddMessage, Duplicate, E, b
    <2>2. PICK x : /\ Moves(r, x) /\ x.msg = m /\ x.level = "none" /\ x.tags = {} /\ x.seen = 0
                   /\ x.pc \in {"begun", "ended"} /\ (x.outcome # "none" => x.pc = "ended")
      BY <1>4, <1>7, <2>1
    <2>3. QED
      BY <1>5, <1>7, <2>1, <2>2
  <1>8. QED
    BY <1>6, <1>7

\* A step of a run that writes neither the escalation, nor a reply, nor the allowance.
LEMMA QuietRunStepType ==
    ASSUME TypeOK, NEW r \in Requests, NEW x, Moves(r, x), x.seen <= Len(log),
           UNCHANGED <<mode, closed, log, requested, rule, press, acts>>,
           UNCHANGED <<escalation, replies, used>>,
           tags' \subseteq Tags,
           \/ faults' = faults
           \/ faults' = faults + 1 /\ acts + faults < MaxEvents
    PROVE  TypeOK'
  <1>1. faults' \in {faults, faults + 1} /\ acts + faults' <= MaxEvents
    BY AiReplyAssumption DEF TypeOK
  <1>2. /\ escalation' = NoEscalation \/ escalation' \in [level : Levels \ {"none"}, since : 0..Len(log)]
        /\ replies' \in [Messages -> {"none", "answer", "handoff"}] /\ used' \in 0..AllowanceLimit
    BY DEF TypeOK
  <1>3. QED
    BY <1>1, <1>2, RunStepType

\* A run's sight of the log, and its types, for the steps below.
LEMMA RunTypes ==
    ASSUME TypeOK, NEW r \in Requests
    PROVE  /\ run[r] \in RunState /\ run[r].tags \subseteq Tags /\ run[r].seen <= Len(log)
           /\ run[r].level \in Levels /\ Len(log) \in Nat /\ 0 <= Len(log) /\ tags \subseteq Tags
  BY DEF TypeOK, RunState

\* The escalation of a run is well typed.
LEMMA EscalateType ==
    ASSUME AiReplyInv, NEW r \in Requests, Escalate(r)
    PROVE  TypeOK'
  <1>1. TypeOK /\ Escalates
    BY DEF AiReplyInv
  <1>2. ASSUME EscalateRead(r)
        PROVE  TypeOK'
    <2>1. PICK x : Moves(r, x) /\ Keeps(x, run[r])
      BY <1>1, <1>2, EscalateReadMoves
    <2>2. QED
      BY <1>1, <1>2, <2>1, RunTypes, QuietRunStepType
         DEF EscalateRead, Keeps, ticket, stored, bounds
  <1>3. ASSUME EscalateUpsert(r)
        PROVE  TypeOK'
    <2>1. PICK x : Moves(r, x) /\ Keeps(x, run[r])
      BY <1>1, <1>3, EndEscalationMoves, GoMoves DEF EscalateUpsert, Stages
    <2>2. escalation' \in [level : Levels \ {"none"}, since : 0..Len(log)]
      <3> DEFINE l == LevelOf(run[r].was.level, run[r].level)
                 s == IF escalation = NoEscalation THEN Len(log) ELSE escalation.since
      <3>1. l \in Levels \ {"none"}
        BY DEF LevelOf, Levels
      <3>2. s \in 0..Len(log)
        BY <1>1, RunTypes DEF TypeOK
      <3>3. escalation' = [level |-> l, since |-> s]
        BY <1>3 DEF EscalateUpsert, Upserted
      <3> HIDE DEF l, s
      <3>4. QED
        BY <3>1, <3>2, <3>3
    <2>3. /\ x.seen <= Len(log) /\ tags' \subseteq Tags /\ acts + faults' <= MaxEvents
          /\ faults' = faults
          /\ replies' \in [Messages -> {"none", "answer", "handoff"}] /\ used' \in 0..AllowanceLimit
      BY <1>1, <1>3, <2>1 DEF EscalateUpsert, Keeps, TypeOK, ticket, stored, bounds
    <2>4. UNCHANGED <<mode, closed, log, requested, rule, press, acts>>
      BY <1>3 DEF EscalateUpsert, ticket, stored, bounds
    <2>5. QED
      BY <1>1, <2>1, <2>2, <2>3, <2>4, RunStepType
  <1>4. ASSUME EscalateTag(r)
        PROVE  TypeOK'
    <2>1. PICK x : Moves(r, x) /\ Keeps(x, run[r])
      BY <1>1, <1>4, EndEscalationMoves DEF EscalateTag
    <2>2. tags' \subseteq Tags
      BY <1>1, <1>4 DEF EscalateTag, Escalates, Tags
    <2>3. QED
      BY <1>1, <1>4, <2>1, <2>2, RunTypes, QuietRunStepType
         DEF EscalateTag, Keeps, ticket, stored, bounds
  <1>5. ASSUME EscalateFails(r)
        PROVE  TypeOK'
    <2>1. PICK x : Moves(r, x) /\ Keeps(x, run[r])
      BY <1>1, <1>5, EndEscalationMoves DEF EscalateFails
    <2>2. QED
      BY <1>1, <1>5, <2>1, RunTypes, QuietRunStepType
         DEF EscalateFails, Keeps, ticket, stored, bounds
  <1>6. QED
    BY <1>2, <1>3, <1>4, <1>5 DEF Escalate

\* So is what a run does otherwise.
LEMMA ReplyType ==
    ASSUME AiReplyInv, NEW r \in Requests, Reply(r)
    PROVE  TypeOK'
  <1>1. TypeOK /\ Cardinality({m \in Messages : Answered(m)}) \in Nat
    BY AnsweredIsFinite DEF AiReplyInv
  <1>2. ASSUME ReadTicket(r)
        PROVE  TypeOK'
    <2>1. PICK x : Moves(r, x) /\ x.seen = run[r].seen
      BY <1>1, <1>2, ReadTicketMoves
    <2>2. QED
      BY <1>1, <1>2, <2>1, RunTypes, QuietRunStepType DEF ReadTicket, ticket, stored, bounds
  <1>3. ASSUME ReadMessages(r)
        PROVE  TypeOK'
    <2>1. PICK x : Moves(r, x) /\ x.seen = Len(log)
      BY <1>1, <1>3, ReadMessagesMoves
    <2>2. QED
      BY <1>1, <1>3, <2>1, RunTypes, QuietRunStepType DEF ReadMessages, ticket, stored, bounds
  <1>4. ASSUME StopEarly(r) \/ MarkHandoff(r) \/ Abort(r)
        PROVE  TypeOK'
    <2>1. PICK x : Moves(r, x) /\ x.seen = 0
      <3>1. Skip(r) \in Outcomes
        BY DEF Skip, Outcomes
      <3>2. End(r, Skip(r)) \/ End(r, "rate") \/ End(r, "handoff") \/ End(r, "error")
        BY <1>4 DEF StopEarly, MarkHandoff, Abort
      <3>3. QED
        BY <1>1, <3>1, <3>2, EndMoves DEF Outcomes
    <2>2. tags' \subseteq Tags
      BY <1>1, <1>4, RunTypes DEF StopEarly, MarkHandoff, Abort, ticket, Tags
    <2>3. /\ \/ faults' = faults
             \/ faults' = faults + 1 /\ acts + faults < MaxEvents
          /\ UNCHANGED <<mode, closed, log, requested, rule, press, acts>>
          /\ UNCHANGED <<escalation, replies, used>>
      BY <1>4 DEF StopEarly, MarkHandoff, Abort, ticket, stored, bounds
    <2>4. QED
      BY <1>1, <2>1, <2>2, <2>3, RunTypes, QuietRunStepType
  <1>5. ASSUME HandOver(r)
        PROVE  TypeOK'
    <2>1. PICK x : Moves(r, x) /\ x.seen = 0
      BY <1>1, <1>5, ComposeMoves DEF HandOver
    <2>2. QED
      BY <1>1, <1>5, <2>1, RunTypes, QuietRunStepType DEF HandOver, ticket, stored, bounds
  <1>6. ASSUME AskAi(r)
        PROVE  TypeOK'
    <2>1. PICK x : Moves(r, x) /\ x.seen = 0
      BY <1>1, <1>6, ComposeMoves DEF AskAi
    <2>2. used' \in 0..AllowanceLimit
      BY <1>1, <1>6, AiReplyAssumption DEF AskAi, Allows, TypeOK
    <2>3. /\ tags' \subseteq Tags /\ acts + faults' <= MaxEvents /\ faults' = faults
          /\ escalation' = NoEscalation \/ escalation' \in [level : Levels \ {"none"}, since : 0..Len(log)]
          /\ replies' \in [Messages -> {"none", "answer", "handoff"}]
          /\ UNCHANGED <<mode, closed, log, requested, rule, press, acts>>
      BY <1>1, <1>6 DEF AskAi, TypeOK, ticket, stored, bounds
    <2>4. QED
      BY <1>1, <2>1, <2>2, <2>3, RunTypes, RunStepType
  <1>7. ASSUME StoreReply(r)
        PROVE  TypeOK'
    <2>1. PICK x : Moves(r, x) /\ x.seen <= Len(log)
      BY <1>1, <1>7, EndMoves, GoMoves, RunTypes DEF StoreReply, Outcomes, Stages, Keeps
    <2>2. replies' \in [Messages -> {"none", "answer", "handoff"}]
      <3>1. replies \in [Messages -> {"none", "answer", "handoff"}]
        BY <1>1 DEF TypeOK
      <3>2. \/ replies' = replies
            \/ \E v \in {"answer", "handoff"} : replies' = [replies EXCEPT ![run[r].msg] = v]
        BY <1>7 DEF StoreReply
      <3>3. QED
        BY <3>1, <3>2
    <2>3. /\ tags' \subseteq Tags /\ acts + faults' <= MaxEvents /\ faults' = faults
          /\ escalation' = NoEscalation \/ escalation' \in [level : Levels \ {"none"}, since : 0..Len(log)]
          /\ used' \in 0..AllowanceLimit
          /\ UNCHANGED <<mode, closed, log, requested, rule, press, acts>>
      BY <1>1, <1>7 DEF StoreReply, TypeOK, ticket, stored, bounds
    <2>4. QED
      BY <1>1, <2>1, <2>2, <2>3, RunStepType
  <1>8. QED
    BY <1>2, <1>3, <1>4, <1>5, <1>6, <1>7 DEF Reply

\* Posts, tag rules, presses of the button and the staff are well typed too.
LEMMA OthersType ==
    ASSUME AiReplyInv,
           \/ \E r \in Requests, m \in Messages : AddMessage(r, m)
           \/ \E r \in Requests : TagRule(r)
           \/ \E h \in Presses : RequestHuman(h)
           \/ Staff
    PROVE  TypeOK'
  <1>1. TypeOK
    BY DEF AiReplyInv
  <1>2. ASSUME NEW r \in Requests, NEW m \in Messages, AddMessage(r, m)
        PROVE  TypeOK'
    <2>1. PICK x : /\ Moves(r, x) /\ x.seen = 0
                   /\ \/ UNCHANGED <<log, rule>>
                      \/ /\ \E kind \in AllKinds : log' = Append(log, Entry("customer", m, kind))
                         /\ rule' = rule \/ rule' = [rule EXCEPT ![r].pc = "read"]
      BY <1>1, <1>2, AddMessageMoves
    <2>2. /\ log' \in Seq([by : {"customer", "agent"}, msg : Messages \cup {None}, kind : AllKinds])
          /\ Len(log') \in {Len(log), Len(log) + 1}
      BY <1>1, <2>1, LogGrows DEF TypeOK
    <2>3. run' \in [Requests -> RunState] /\ \A q \in Requests : run'[q].seen \in {0, run[q].seen}
      BY <1>1, <2>1, MovesOne
    <2>4. rule' \in [Requests -> [pc : {"off", "read", "write", "kept", "wrote"}, tags : SUBSET Tags]]
      <3>1. rule \in [Requests -> [pc : {"off", "read", "write", "kept", "wrote"}, tags : SUBSET Tags]]
        BY <1>1 DEF TypeOK
      <3>2. QED
        BY <2>1, <3>1
    <2>5. acts' \in Nat /\ acts' + faults <= MaxEvents
      BY <1>1, <1>2 DEF AddMessage, bounds, TypeOK
    <2>6. UNCHANGED <<mode, ticket, escalation, replies, requested, used, press, faults>>
      BY <1>2 DEF AddMessage, bounds
    <2>7. QED
      BY <1>1, <2>2, <2>3, <2>4, <2>5, <2>6, LogStepType
  <1>3. ASSUME NEW r \in Requests, TagRule(r)
        PROVE  TypeOK'
    <2> DEFINE RuleState == [pc : {"off", "read", "write", "kept", "wrote"}, tags : SUBSET Tags]
    <2>1. rule \in [Requests -> RuleState] /\ rule[r].tags \subseteq Tags /\ tags \subseteq Tags
      BY <1>1 DEF TypeOK
    <2>2. \E y \in RuleState : rule' = [rule EXCEPT ![r] = y]
      BY <1>3, <2>1 DEF TagRule, RuleRead, RuleWrite, NoRule
    <2>3. rule' \in [Requests -> RuleState]
      BY <2>1, <2>2
    <2>4. tags' \subseteq Tags
      BY <1>3, <2>1 DEF TagRule, RuleRead, RuleWrite, ticket, Tags
    <2>5. UNCHANGED <<mode, closed, escalation, stored, used, run, press, bounds>>
      BY <1>3 DEF TagRule, RuleRead, RuleWrite, ticket
    <2>6. QED
      BY <1>1, <2>3, <2>4, <2>5 DEF TypeOK, stored, bounds
  <1>4. ASSUME NEW h \in Presses, RequestHuman(h)
        PROVE  TypeOK'
    <2> DEFINE PressState == [pc : {"idle", "store", "mark", "ended"}, tags : SUBSET Tags]
    <2>1. press \in [Presses -> PressState] /\ press[h].tags \subseteq Tags /\ tags \subseteq Tags
      BY <1>1 DEF TypeOK
    <2>2. \E y \in PressState : press' = [press EXCEPT ![h] = y]
      BY <1>4, <2>1 DEF RequestHuman, PressHuman, StoreRequest, MarkRequest, PressFails, PressEnded
    <2>3. press' \in [Presses -> PressState]
      BY <2>1, <2>2
    <2>4. tags' \subseteq Tags /\ requested' \in BOOLEAN
      BY <1>1, <1>4, <2>1
         DEF RequestHuman, PressHuman, StoreRequest, MarkRequest, PressFails, ticket, stored, Tags, TypeOK
    <2>5. /\ acts \in Nat /\ faults' \in Nat /\ acts + faults' <= MaxEvents
      BY <1>1, <1>4, AiReplyAssumption
         DEF RequestHuman, PressHuman, StoreRequest, MarkRequest, PressFails, bounds, TypeOK
    <2>6. UNCHANGED <<mode, closed, escalation, log, replies, used, run, rule, acts>>
      BY <1>4
         DEF RequestHuman, PressHuman, StoreRequest, MarkRequest, PressFails, ticket, stored, bounds
    <2>7. QED
      BY <1>1, <2>3, <2>4, <2>5, <2>6 DEF TypeOK
  <1>5. ASSUME AgentReplies
        PROVE  TypeOK'
    <2>1. log' = Append(log, Entry("agent", None, "general")) /\ "general" \in AllKinds
      BY <1>5 DEF AgentReplies, AllKinds
    <2>2. /\ log' \in Seq([by : {"customer", "agent"}, msg : Messages \cup {None}, kind : AllKinds])
          /\ Len(log') \in {Len(log), Len(log) + 1}
      BY <1>1, <2>1, LogGrows
    <2>3. acts' \in Nat /\ acts' + faults <= MaxEvents
      BY <1>1, <1>5, AiReplyAssumption DEF AgentReplies, TypeOK
    <2>4. /\ UNCHANGED <<mode, ticket, escalation, replies, requested, used, press, faults>>
          /\ UNCHANGED <<run, rule>>
      BY <1>5 DEF AgentReplies
    <2>5. QED
      <3>1. /\ run' \in [Requests -> RunState] /\ \A r \in Requests : run'[r].seen \in {0, run[r].seen}
            /\ rule' \in [Requests -> [pc : {"off", "read", "write", "kept", "wrote"},
                                       tags : SUBSET Tags]]
        BY <1>1, <2>4 DEF TypeOK
      <3>2. QED
        BY <1>1, <2>2, <2>3, <2>4, <3>1, LogStepType
  <1>6. ASSUME ChangeStatus \/ ChangeMode
        PROVE  TypeOK'
    <2>1. closed' \in BOOLEAN /\ mode' \in Modes
      BY <1>1, <1>6 DEF ChangeStatus, ChangeMode, TypeOK, ticket
    <2>2. acts' = acts + 1 /\ acts + faults < MaxEvents
      BY <1>6 DEF ChangeStatus, ChangeMode
    <2>3. acts' \in Nat /\ acts' + faults <= MaxEvents
      BY <1>1, <2>2, AiReplyAssumption DEF TypeOK
    <2>4. UNCHANGED <<tags, escalation, stored, used, run, rule, press, faults>>
      BY <1>6 DEF ChangeStatus, ChangeMode, ticket
    <2>5. QED
      BY <1>1, <2>1, <2>3, <2>4 DEF TypeOK, stored
  <1>7. QED
    BY <1>2, <1>3, <1>4, <1>5, <1>6 DEF Staff

-----------------------------------------------------------------------------
(* Messages, replies and the allowance *)

MessageInv == OneRunPerMessage /\ SpentOnce /\ AnswersInTime

\* What the log tells of the messages stays when the log does.
LEMMA SameLog ==
    ASSUME UNCHANGED log
    PROVE  /\ StoredMessages' = StoredMessages
           /\ \A m : Posts(m)' = Posts(m) /\ (BeforeAgents(m)' <=> BeforeAgents(m))
  <1>1. \A m : Posts(m)' = Posts(m)
    BY DEF Posts
  <1>2. QED
    BY <1>1 DEF StoredMessages, Stored, BeforeAgents

\* A set that only loses members, or only gains them, and what it counts.
LEMMA CountsStay ==
    ASSUME NEW S, NEW T, IsFiniteSet(T), S \subseteq T, NEW n \in Nat
    PROVE  /\ IsFiniteSet(S) /\ Cardinality(S) \in Nat /\ Cardinality(T) \in Nat
           /\ n <= Cardinality(S) => n <= Cardinality(T)
           /\ Cardinality(T) <= n => Cardinality(S) <= n
  <1>1. IsFiniteSet(S) /\ Cardinality(S) <= Cardinality(T)
    BY FS_Subset
  <1>2. Cardinality(S) \in Nat /\ Cardinality(T) \in Nat
    BY <1>1, FS_CardinalityType
  <1>3. QED
    BY <1>1, <1>2

\* A set gains one member.
LEMMA AddOne ==
    ASSUME NEW S, IsFiniteSet(S), NEW x, NEW n \in Nat, Cardinality(S) <= n
    PROVE  IsFiniteSet(S \cup {x}) /\ Cardinality(S \cup {x}) <= n + 1
  <1>1. Cardinality(S) \in Nat
    BY FS_CardinalityType
  <1>2. /\ IsFiniteSet(S \cup {x})
        /\ \/ Cardinality(S \cup {x}) = Cardinality(S)
           \/ Cardinality(S \cup {x}) = Cardinality(S) + 1
    BY FS_AddElement
  <1>3. QED
    BY <1>1, <1>2

\* What is counted of messages is among those stored.
LEMMA CountedAreStored ==
    ASSUME OneRunPerMessage, SpentOnce
    PROVE  /\ Settled \subseteq StoredMessages /\ Answers \subseteq StoredMessages
           /\ IsFiniteSet(Settled) /\ IsFiniteSet(Answers)
  <1>1. Settled \subseteq StoredMessages /\ Answers \subseteq StoredMessages
    BY DEF Settled, Answers, OneRunPerMessage, SpentOnce, Answered, Active
  <1>2. QED
    BY <1>1, FS_Subset DEF SpentOnce

\* A run on its way to its decision, or one that gives up.
LEMMA UndecidedMessages ==
    ASSUME TypeOK, MessageInv, NEW r \in Requests, NEW x, Moves(r, x), UNCHANGED <<log, replies, used>>,
           x.msg = run[r].msg, x.pc \in Undecided \cup {"ended"},
           x.pc \in Undecided => run[r].pc \in Undecided,
           x.pc \in {"escalate", "upsert", "tag", "guards"} =>
              \/ x.seen = Len(log)
              \/ run[r].pc \in {"escalate", "upsert", "tag", "guards"} /\ x.seen = run[r].seen
    PROVE  MessageInv'
  <1>1. /\ run' \in [Requests -> RunState] /\ run'[r] = x
        /\ \A q \in Requests \ {r} : run'[q] = run[q]
    BY MovesOne
  <1>2. /\ StoredMessages' = StoredMessages
        /\ \A m : Posts(m)' = Posts(m) /\ (BeforeAgents(m)' <=> BeforeAgents(m))
        /\ \A m : Answered(m)' <=> Answered(m)
    BY SameLog DEF Answered
  <1>3. /\ \A q \in Requests : run'[q].msg = run[q].msg
        /\ \A q \in Requests : run'[q].pc \in Undecided => run[q].pc \in Undecided
        /\ \A q \in Requests : run'[q].pc \in {"store", "mark"} => run'[q] = run[q]
    BY <1>1 DEF Undecided
  <1>4. OneRunPerMessage'
    BY <1>2, <1>3 DEF MessageInv, OneRunPerMessage, Active
  <1>5. SpentOnce'
    <2>1. Settled \subseteq Settled'
      BY <1>2, <1>3 DEF Settled
    <2>2. Settled' \subseteq StoredMessages /\ IsFiniteSet(StoredMessages)
      BY <1>2 DEF Settled, MessageInv, SpentOnce
    <2>3. Answers' \subseteq Answers
      BY <1>3 DEF Answers
    <2>4. used \in Nat
      BY AiReplyAssumption DEF TypeOK
    <2>5. used <= Cardinality(Settled')
      BY <2>1, <2>2, <2>4, CountsStay DEF MessageInv, SpentOnce
    <2>6. Cardinality(Answers') <= used
      BY <2>3, <2>4, CountedAreStored, CountsStay DEF MessageInv, SpentOnce
    <2>7. QED
      BY <1>2, <2>5, <2>6 DEF MessageInv, SpentOnce
  <1>6. AnswersInTime'
    <2>1. ASSUME NEW q \in Requests, run'[q].pc \in {"escalate", "upsert", "tag", "guards"},
                 NEW i \in Posts(run[q].msg)
          PROVE  i <= run'[q].seen
      <3>1. i \in 1..Len(log)
        BY DEF Posts, TypeOK
      <3>2. QED
        BY <1>1, <2>1, <3>1 DEF MessageInv, AnswersInTime
    <2>2. QED
      BY <1>2, <1>3, <2>1 DEF MessageInv, AnswersInTime
  <1>7. QED
    BY <1>4, <1>5, <1>6 DEF MessageInv

\* A run decides: it may answer only when it spends a reply of the allowance, and only when
\* it saw no agent's reply.
LEMMA DecidedMessages ==
    ASSUME TypeOK, MessageInv, NEW r \in Requests, NEW x, Moves(r, x), UNCHANGED <<log, replies>>,
           run[r].pc = "guards", x.pc = "store", x.msg = run[r].msg,
           ~AgentReplied(run[r].seen),
           used' \in {used, used + 1}, ~x.handoff => used' = used + 1
    PROVE  MessageInv'
  <1> PICK m : m = run[r].msg
    OBVIOUS
  <1>1. /\ run' \in [Requests -> RunState] /\ run'[r] = x
        /\ \A q \in Requests \ {r} : run'[q] = run[q]
    BY MovesOne
  <1>2. /\ StoredMessages' = StoredMessages
        /\ \A n : Posts(n)' = Posts(n) /\ (BeforeAgents(n)' <=> BeforeAgents(n))
        /\ \A n : Answered(n)' <=> Answered(n)
    BY SameLog DEF Answered
  <1>3. m \in StoredMessages /\ ~Answered(m)
        /\ \A q \in Requests : run[q].pc \in Active /\ run[q].msg = m => q = r
    BY DEF MessageInv, OneRunPerMessage, Active, Undecided
  <1>4. OneRunPerMessage'
    BY <1>1, <1>2, <1>3 DEF MessageInv, OneRunPerMessage, Active, Undecided
  <1>5. used \in Nat /\ used' \in Nat
    BY AiReplyAssumption DEF TypeOK
  <1>6. used' <= Cardinality(Settled')
    <2>1. Settled \cup {m} \subseteq Settled'
      BY <1>1, <1>2, <1>3 DEF Settled, Active, Undecided
    <2>2. m \notin Settled
      BY DEF Settled, Undecided
    <2>3. IsFiniteSet(Settled) /\ Cardinality(Settled) \in Nat /\ used <= Cardinality(Settled)
      BY CountedAreStored, FS_CardinalityType DEF MessageInv, SpentOnce
    <2>4. Cardinality(Settled \cup {m}) = Cardinality(Settled) + 1
      BY <2>2, <2>3, FS_AddElement
    <2>5. used' <= Cardinality(Settled \cup {m})
      BY <1>5, <2>3, <2>4
    <2>6. IsFiniteSet(Settled')
      BY <1>2, FS_Subset DEF Settled, MessageInv, SpentOnce
    <2>7. QED
      BY <1>5, <2>1, <2>5, <2>6, CountsStay
  <1>7. Cardinality(Answers') <= used'
    <2>1. IsFiniteSet(Answers) /\ Cardinality(Answers) \in Nat /\ Cardinality(Answers) <= used
      BY CountedAreStored, FS_CardinalityType DEF MessageInv, SpentOnce
    <2>2. CASE x.handoff
      <3>1. Answers' \subseteq Answers
        BY <1>1, <2>2 DEF Answers
      <3>2. Cardinality(Answers') <= used
        BY <1>5, <2>1, <3>1, CountsStay
      <3>3. IsFiniteSet(Answers') /\ Cardinality(Answers') \in Nat
        BY <1>5, <2>1, <3>1, CountsStay
      <3>4. QED
        BY <1>5, <3>2, <3>3
    <2>3. CASE ~x.handoff
      <3>1. Answers' \subseteq Answers \cup {m}
        BY <1>1 DEF Answers
      <3>2. IsFiniteSet(Answers \cup {m}) /\ Cardinality(Answers \cup {m}) <= used + 1
        BY <1>5, <2>1, AddOne
      <3>3. used' = used + 1
        BY <2>3
      <3>4. QED
        BY <1>5, <3>1, <3>2, <3>3, CountsStay
    <2>4. QED
      BY <2>2, <2>3
  <1>8. SpentOnce'
    BY <1>2, <1>6, <1>7 DEF MessageInv, SpentOnce
  <1>9. AnswersInTime'
    <2>1. BeforeAgents(m)
      <3>1. ASSUME NEW i \in Posts(m), NEW k \in 1..i
            PROVE  log[k].by # "agent"
        <4>1. i <= run[r].seen /\ i \in 1..Len(log) /\ run[r].seen \in Nat
          BY DEF MessageInv, AnswersInTime, Posts, TypeOK, RunState
        <4>2. k \in 1..run[r].seen
          BY <3>1, <4>1
        <4>3. QED
          BY <4>2 DEF AgentReplied
      <3>2. QED
        BY <3>1 DEF BeforeAgents
    <2>2. QED
      BY <1>1, <1>2, <2>1 DEF MessageInv, AnswersInTime
  <1>10. QED
    BY <1>4, <1>8, <1>9 DEF MessageInv

\* A reply is stored.
LEMMA StoreReplyMessages ==
    ASSUME TypeOK, MessageInv, NEW r \in Requests, StoreReply(r)
    PROVE  MessageInv'
  <1> PICK m : m = run[r].msg
    OBVIOUS
  <1>1. /\ run[r].pc = "store" /\ m \in Messages /\ m \in StoredMessages /\ ~Answered(m)
        /\ BeforeAgents(m)
    BY DEF StoreReply, MessageInv, OneRunPerMessage, AnswersInTime, Active, StoredMessages
  <1>2. /\ replies' = [replies EXCEPT ![m] = IF run[r].handoff THEN "handoff" ELSE "answer"]
        /\ UNCHANGED <<log, used>>
    BY <1>1 DEF StoreReply, stored
  <1>3. PICK x : Moves(r, x) /\ x.pc \in {"mark", "ended"} /\ x.msg = m
    BY <1>1, EndMoves, GoMoves DEF StoreReply, Keeps, Outcomes, Stages
  <1>4. /\ run' \in [Requests -> RunState] /\ run'[r] = x
        /\ \A q \in Requests \ {r} : run'[q] = run[q]
    BY <1>3, MovesOne
  <1>5. /\ StoredMessages' = StoredMessages
        /\ \A n : Posts(n)' = Posts(n) /\ (BeforeAgents(n)' <=> BeforeAgents(n))
    BY <1>2, SameLog
  <1>6. replies \in [Messages -> {"none", "answer", "handoff"}]
    BY DEF TypeOK
  <1>7. /\ \A n \in Messages \ {m} : replies'[n] = replies[n]
        /\ replies'[m] = "answer" => ~run[r].handoff
    <2> DEFINE v == IF run[r].handoff THEN "handoff" ELSE "answer"
    <2>1. v = "answer" => ~run[r].handoff
      OBVIOUS
    <2>2. replies' = [replies EXCEPT ![m] = v]
      BY <1>2
    <2> HIDE DEF v
    <2>3. QED
      BY <1>1, <1>6, <2>1, <2>2
  <1>8. OneRunPerMessage'
    <2>1. ASSUME NEW q \in Requests, run'[q].pc \in Active
          PROVE  ~Answered(run[q].msg)'
      <3>1. q # r /\ run'[q] = run[q]
        BY <1>3, <1>4, <2>1 DEF Active, Undecided
      <3>2. run[q].msg # m /\ ~Answered(run[q].msg) /\ run[q].msg \in Messages
        BY <1>1, <2>1, <3>1 DEF MessageInv, OneRunPerMessage, Active, StoredMessages
      <3>3. QED
        BY <1>7, <3>1, <3>2 DEF Answered
    <2>2. QED
      BY <1>1, <1>3, <1>4, <1>5, <2>1 DEF MessageInv, OneRunPerMessage, Active, Undecided
  <1>9. SpentOnce'
    <2>1. Settled' = Settled
      BY <1>1, <1>3, <1>4, <1>5 DEF Settled, Undecided
    <2>2. Answers' \subseteq Answers
      BY <1>1, <1>3, <1>4, <1>7 DEF Answers
    <2>3. Cardinality(Answers') <= used
      <3>1. used \in Nat /\ IsFiniteSet(Answers) /\ Cardinality(Answers) <= used
        BY AiReplyAssumption, CountedAreStored DEF MessageInv, SpentOnce, TypeOK
      <3>2. QED
        BY <2>2, <3>1, CountsStay
    <2>4. \A n \in Messages : Answered(n)' => n \in StoredMessages
      BY <1>1, <1>7 DEF Answered, MessageInv, SpentOnce
    <2>5. QED
      BY <1>2, <1>5, <2>1, <2>3, <2>4 DEF MessageInv, SpentOnce
  <1>10. AnswersInTime'
    BY <1>1, <1>3, <1>4, <1>5, <1>7 DEF MessageInv, AnswersInTime, Answered
  <1>11. QED
    BY <1>8, <1>9, <1>10 DEF MessageInv

\* A message is posted: it is new, and its run the only one about it.
LEMMA AddMessageMessages ==
    ASSUME TypeOK, MessageInv, NEW r \in Requests, NEW m \in Messages, AddMessage(r, m)
    PROVE  MessageInv'
  <1>1. run[r].pc = "idle" /\ UNCHANGED <<replies, used>>
    BY DEF AddMessage
  <1>2. PICK x : /\ Moves(r, x) /\ x.msg = m
                 /\ \/ x.pc = "ended" /\ Stored(m) /\ UNCHANGED log
                    \/ /\ x.pc \in {"begun", "ended"} /\ ~Stored(m)
                       /\ \E kind \in AllKinds : log' = Append(log, Entry("customer", m, kind))
    BY AddMessageMoves
  <1>3. /\ run' \in [Requests -> RunState] /\ run'[r] = x
        /\ \A q \in Requests \ {r} : run'[q] = run[q]
    BY <1>2, MovesOne
  <1>4. used \in Nat
    BY AiReplyAssumption DEF TypeOK
  <1>5. \A n : Answered(n)' <=> Answered(n)
    BY <1>1 DEF Answered
  <1>6. CASE x.pc = "ended" /\ Stored(m) /\ UNCHANGED log
    <2>1. /\ StoredMessages' = StoredMessages
          /\ \A n : Posts(n)' = Posts(n) /\ (BeforeAgents(n)' <=> BeforeAgents(n))
      BY <1>6, SameLog
    <2>2. OneRunPerMessage'
      BY <1>3, <1>5, <1>6, <2>1 DEF MessageInv, OneRunPerMessage, Active, Undecided
    <2>3. Settled' = Settled /\ Answers' = Answers
      BY <1>1, <1>3, <1>6, <2>1 DEF Settled, Answers, Undecided
    <2>4. SpentOnce'
      BY <1>1, <1>5, <2>1, <2>3 DEF MessageInv, SpentOnce
    <2>5. AnswersInTime'
      BY <1>3, <1>5, <1>6, <2>1 DEF MessageInv, AnswersInTime
    <2>6. QED
      BY <2>2, <2>4, <2>5 DEF MessageInv
  <1>7. CASE /\ x.pc \in {"begun", "ended"} /\ ~Stored(m)
             /\ \E kind \in AllKinds : log' = Append(log, Entry("customer", m, kind))
    <2>1. PICK kind \in AllKinds : log' = Append(log, Entry("customer", m, kind))
      BY <1>7
    <2>2. /\ DOMAIN log = 1..Len(log) /\ DOMAIN log' = 1..(Len(log) + 1) /\ Len(log) \in Nat
          /\ \A i \in 1..Len(log) : log'[i] = log[i]
          /\ log'[Len(log) + 1] = Entry("customer", m, kind)
      <3>1. /\ log' \in Seq([by : {"customer", "agent"}, msg : Messages \cup {None}, kind : AllKinds])
            /\ Len(log) \in Nat /\ Len(log') = Len(log) + 1
            /\ \A i \in 1..Len(log) : log'[i] = log[i]
            /\ log'[Len(log) + 1] = Entry("customer", m, kind)
        BY <2>1, LogGrows
      <3>2. DOMAIN log = 1..Len(log) /\ DOMAIN log' = 1..Len(log')
        BY <3>1 DEF TypeOK
      <3>3. QED
        BY <3>1, <3>2
    <2>3. /\ Posts(m)' = {Len(log) + 1} /\ m \notin StoredMessages
          /\ \A n \in Messages \ {m} : Posts(n)' = Posts(n)
      BY <1>7, <2>2 DEF Posts, Stored, StoredMessages, Entry
    <2>4. StoredMessages' = StoredMessages \cup {m}
      BY <2>3 DEF StoredMessages, Stored
    <2>5. \A n \in StoredMessages : BeforeAgents(n)' <=> BeforeAgents(n)
      <3> TAKE n \in StoredMessages
      <3>1. Posts(n)' = Posts(n)
        BY <2>3 DEF StoredMessages
      <3>2. \A i \in Posts(n) : \A k \in 1..i : log'[k] = log[k]
        BY <2>2 DEF Posts
      <3>3. QED
        BY <3>1, <3>2 DEF BeforeAgents
    <2>6. \A q \in Requests : run[q].pc \in Active \cup {"mark"} => run[q].msg \in StoredMessages \ {m}
      BY <2>3 DEF MessageInv, OneRunPerMessage
    <2>7. ~Answered(m)
      BY <2>3 DEF MessageInv, SpentOnce
    <2>8. OneRunPerMessage'
      <3>1. \A n \in Messages : \A i, j \in Posts(n)' : i = j
        BY <2>3 DEF MessageInv, OneRunPerMessage
      <3>2. \A q \in Requests : run'[q].pc \in Active \cup {"mark"} => run'[q].msg \in StoredMessages'
        BY <1>2, <1>3, <2>4, <2>6
      <3>3. \A q \in Requests : run'[q].pc \in Active => ~(replies'[run'[q].msg] # "none")
        BY <1>1, <1>2, <1>3, <2>7 DEF MessageInv, OneRunPerMessage, Answered
      <3>4. \A q, p \in Requests :
               run'[q].pc \in Active /\ run'[p].pc \in Active /\ run'[q].msg = run'[p].msg => q = p
        BY <1>2, <1>3, <2>6 DEF MessageInv, OneRunPerMessage
      <3>5. QED
        BY <3>1, <3>2, <3>3, <3>4 DEF OneRunPerMessage, Answered
    <2>9. SpentOnce'
      <3>1. Settled \subseteq Settled' /\ Settled' \subseteq StoredMessages'
        BY <1>2, <1>3, <2>3, <2>4 DEF Settled
      <3>2. IsFiniteSet(StoredMessages')
        BY <2>4, FS_AddElement DEF MessageInv, SpentOnce
      <3>3. IsFiniteSet(Settled')
        BY <3>1, <3>2, FS_Subset
      <3>4. used <= Cardinality(Settled')
        BY <1>4, <3>1, <3>3, CountsStay DEF MessageInv, SpentOnce
      <3>5. Answers' = Answers
        BY <1>1, <1>3, <1>7 DEF Answers
      <3>6. QED
        BY <1>1, <1>5, <2>4, <3>2, <3>4, <3>5 DEF MessageInv, SpentOnce
    <2>10. AnswersInTime'
      <3>1. ASSUME NEW q \in Requests, run'[q].pc \in {"escalate", "upsert", "tag", "guards"}
            PROVE  \A i \in Posts(run[q].msg)' : i <= run'[q].seen
        <4>1. q # r /\ run'[q] = run[q]
          BY <1>3, <1>7, <3>1
        <4>2. run[q].msg \in StoredMessages \ {m}
          BY <2>6, <3>1, <4>1 DEF Active, Undecided
        <4>3. Posts(run[q].msg)' = Posts(run[q].msg)
          <5> PICK n : n = run[q].msg
            OBVIOUS
          <5>1. Posts(n)' = Posts(n)
            BY <2>3, <4>2 DEF StoredMessages
          <5>2. n = run'[q].msg
            BY <4>1
          <5>3. QED
            BY <5>1, <5>2
        <4>4. QED
          BY <3>1, <4>1, <4>3 DEF MessageInv, AnswersInTime
      <3>2. ASSUME NEW q \in Requests, run'[q].pc = "store"
            PROVE  BeforeAgents(run[q].msg)'
        <4> PICK n : n = run[q].msg
          OBVIOUS
        <4>1. q # r /\ run'[q] = run[q]
          BY <1>3, <1>7, <3>2
        <4>2. n \in StoredMessages /\ BeforeAgents(n)
          BY <2>6, <3>2, <4>1 DEF Active, Undecided, MessageInv, AnswersInTime
        <4>3. BeforeAgents(n)'
          BY <2>5, <4>2
        <4>4. QED
          BY <4>1, <4>3
      <3>3. ASSUME NEW n \in Messages, Answered(n)
            PROVE  BeforeAgents(n)'
        BY <2>5, <3>3 DEF MessageInv, SpentOnce, AnswersInTime
      <3>4. QED
        BY <1>5, <3>1, <3>2, <3>3 DEF AnswersInTime
    <2>11. QED
      BY <2>8, <2>9, <2>10 DEF MessageInv
  <1>8. QED
    BY <1>2, <1>6, <1>7

\* An agent replies: messages that came before stay before it.
LEMMA AgentRepliesMessages ==
    ASSUME TypeOK, MessageInv, AgentReplies
    PROVE  MessageInv'
  <1>1. log' = Append(log, Entry("agent", None, "general")) /\ UNCHANGED <<replies, used, run>>
    BY DEF AgentReplies
  <1>2. /\ Len(log) \in Nat /\ Len(log') = Len(log) + 1
        /\ log' \in Seq([by : {"customer", "agent"}, msg : Messages \cup {None}, kind : AllKinds])
        /\ \A i \in 1..Len(log) : log'[i] = log[i]
        /\ log'[Len(log) + 1] = Entry("agent", None, "general")
    BY <1>1, LogGrows DEF AllKinds
  <1>3. DOMAIN log = 1..Len(log) /\ DOMAIN log' = 1..(Len(log) + 1)
    BY <1>2 DEF TypeOK
  <1>4. \A n : Posts(n)' = Posts(n)
    BY <1>2, <1>3 DEF Posts, Entry
  <1>5. StoredMessages' = StoredMessages /\ \A n : BeforeAgents(n)' <=> BeforeAgents(n)
    <2>1. \A n : \A i \in Posts(n) : \A k \in 1..i : log'[k] = log[k]
      BY <1>2, <1>3 DEF Posts
    <2>2. QED
      BY <1>4, <2>1 DEF StoredMessages, Stored, BeforeAgents
  <1>6. \A n : Answered(n)' <=> Answered(n)
    BY <1>1 DEF Answered
  <1>7. OneRunPerMessage'
    BY <1>1, <1>4, <1>5, <1>6 DEF MessageInv, OneRunPerMessage
  <1>8. SpentOnce'
    BY <1>1, <1>5, <1>6 DEF MessageInv, SpentOnce, Settled, Answers
  <1>9. AnswersInTime'
    BY <1>1, <1>4, <1>5, <1>6 DEF MessageInv, AnswersInTime
  <1>10. QED
    BY <1>7, <1>8, <1>9 DEF MessageInv

\* Nothing else is about messages.
LEMMA OtherMessages ==
    ASSUME MessageInv, UNCHANGED <<log, replies, used, run>>
    PROVE  MessageInv'
  <1>1. /\ StoredMessages' = StoredMessages
        /\ \A m : Posts(m)' = Posts(m) /\ (BeforeAgents(m)' <=> BeforeAgents(m))
        /\ \A m : Answered(m)' <=> Answered(m)
    BY SameLog DEF Answered
  <1>2. OneRunPerMessage'
    BY <1>1 DEF MessageInv, OneRunPerMessage
  <1>3. SpentOnce'
    BY <1>1 DEF MessageInv, SpentOnce, Settled, Answers
  <1>4. AnswersInTime'
    BY <1>1 DEF MessageInv, AnswersInTime
  <1>5. QED
    BY <1>2, <1>3, <1>4 DEF MessageInv

\* Every step keeps what is said of the messages.
LEMMA MessagesKept == ASSUME AiReplyInv, Next PROVE MessageInv'
  <1>1. TypeOK /\ MessageInv
    BY DEF AiReplyInv, MessageInv
  <1>2. ASSUME NEW r \in Requests, Escalate(r) \/ Reply(r)
        PROVE  MessageInv'
    <2>1. ASSUME EscalateRead(r)
          PROVE  MessageInv'
      <3>1. PICK x : Moves(r, x) /\ x.pc = "upsert" /\ Keeps(x, run[r])
        BY <1>1, <2>1, EscalateReadMoves
      <3>2. run[r].pc = "escalate" /\ UNCHANGED <<log, replies, used>>
        BY <2>1 DEF EscalateRead, stored
      <3>3. QED
        BY <1>1, <3>1, <3>2, UndecidedMessages DEF Keeps, Undecided
    <2>2. ASSUME EscalateUpsert(r) \/ EscalateTag(r) \/ EscalateFails(r)
          PROVE  MessageInv'
      <3>1. run[r].pc \in {"escalate", "upsert", "tag"} /\ UNCHANGED <<log, replies, used>>
        BY <2>2 DEF EscalateUpsert, EscalateTag, EscalateFails, stored
      <3>2. PICK x : Moves(r, x) /\ x.pc \in {"tag", "guards"} /\ Keeps(x, run[r])
        BY <1>1, <2>2, EndEscalationMoves, GoMoves
           DEF EscalateUpsert, EscalateTag, EscalateFails, Stages
      <3>3. QED
        BY <1>1, <3>1, <3>2, UndecidedMessages DEF Keeps, Undecided
    <2>3. ASSUME ReadTicket(r)
          PROVE  MessageInv'
      <3>1. PICK x : Moves(r, x) /\ x.pc = "ticket" /\ x.msg = run[r].msg
        BY <1>1, <2>3, ReadTicketMoves
      <3>2. run[r].pc = "begun" /\ UNCHANGED <<log, replies, used>>
        BY <2>3 DEF ReadTicket, stored
      <3>3. QED
        BY <1>1, <3>1, <3>2, UndecidedMessages DEF Undecided
    <2>4. ASSUME ReadMessages(r)
          PROVE  MessageInv'
      <3>1. PICK x : /\ Moves(r, x) /\ x.pc \in {"escalate", "guards"} /\ x.msg = run[r].msg
                     /\ x.seen = Len(log)
        BY <1>1, <2>4, ReadMessagesMoves, AnsweredIsFinite DEF MessageInv
      <3>2. run[r].pc = "ticket" /\ UNCHANGED <<log, replies, used>>
        BY <2>4 DEF ReadMessages, stored
      <3>3. QED
        BY <1>1, <3>1, <3>2, UndecidedMessages DEF Undecided
    <2>5. ASSUME StopEarly(r) \/ MarkHandoff(r) \/ Abort(r)
          PROVE  MessageInv'
      <3>1. Skip(r) \in Outcomes
        BY DEF Skip, Outcomes
      <3>2. End(r, Skip(r)) \/ End(r, "rate") \/ End(r, "handoff") \/ End(r, "error")
        BY <2>5 DEF StopEarly, MarkHandoff, Abort
      <3>3. PICK x : Moves(r, x) /\ x.pc = "ended" /\ x.msg = run[r].msg
        BY <1>1, <3>1, <3>2, EndMoves DEF Outcomes
      <3>4. UNCHANGED <<log, replies, used>>
        BY <2>5 DEF StopEarly, MarkHandoff, Abort, stored
      <3>5. QED
        BY <1>1, <3>3, <3>4, UndecidedMessages DEF Undecided
    <2>6. ASSUME HandOver(r) \/ AskAi(r)
          PROVE  MessageInv'
      <3>1. /\ run[r].pc = "guards" /\ Skip(r) = "none" /\ UNCHANGED <<log, replies>>
        BY <2>6 DEF HandOver, AskAi, stored
      <3>2. ~AgentReplied(run[r].seen)
        BY <3>1 DEF Skip
      <3>3. PICK handoff \in BOOLEAN : /\ Compose(r, handoff)
                                       /\ ~handoff => Allows(used) /\ used' = used + 1
                                       /\ used' \in {used, used + 1}
        BY <2>6 DEF HandOver, AskAi
      <3>4. PICK x : Moves(r, x) /\ x.pc = "store" /\ x.handoff = handoff /\ x.msg = run[r].msg
        BY <1>1, <3>3, ComposeMoves
      <3>5. QED
        BY <1>1, <3>1, <3>2, <3>3, <3>4, DecidedMessages
    <2>7. QED
      BY <1>1, <1>2, <2>1, <2>2, <2>3, <2>4, <2>5, <2>6, StoreReplyMessages DEF Escalate, Reply
  <1>3. ASSUME \/ \E r \in Requests : TagRule(r)
               \/ \E h \in Presses : RequestHuman(h)
               \/ ChangeStatus \/ ChangeMode
        PROVE  MessageInv'
    BY <1>1, <1>3, OtherMessages
       DEF TagRule, RuleRead, RuleWrite, RequestHuman, PressHuman, StoreRequest, MarkRequest,
           PressFails, ChangeStatus, ChangeMode, stored
  <1>4. QED
    BY <1>1, <1>2, <1>3, AddMessageMessages, AgentRepliesMessages DEF Next, Staff

-----------------------------------------------------------------------------
(* Escalations *)

\* An escalation stays, and so do the runs that did not move.
LEMMA OneEscalates ==
    ASSUME TypeOK, Escalates, NEW r \in Requests, NEW x, Moves(r, x),
           escalation # NoEscalation => escalation' # NoEscalation,
           faults' = 0 => faults = 0,
           x.pc \in {"begun", "ticket"} => x.level = "none",
           x.pc \in {"escalate", "upsert", "tag"} => x.level # "none",
           x.pc \in {"upsert", "tag"} => x.was \in [tags : SUBSET Tags, level : Levels],
           x.pc = "tag" => "escalated" \notin x.was.tags /\ escalation' # NoEscalation,
           x.pc \in {"guards", "store", "mark", "ended"} /\ x.level # "none" /\ faults' = 0
              => escalation' # NoEscalation
    PROVE  Escalates'
  <1>1. run'[r] = x /\ \A q \in Requests \ {r} : run'[q] = run[q]
    BY MovesOne
  <1>2. ASSUME NEW q \in Requests
        PROVE  /\ run'[q].pc \in {"begun", "ticket"} => run'[q].level = "none"
               /\ run'[q].pc \in {"escalate", "upsert", "tag"} => run'[q].level # "none"
               /\ run'[q].pc \in {"upsert", "tag"} =>
                     run'[q].was \in [tags : SUBSET Tags, level : Levels]
               /\ run'[q].pc = "tag" => "escalated" \notin run'[q].was.tags /\ escalation' # NoEscalation
               /\ run'[q].pc \in {"guards", "store", "mark", "ended"} /\ run'[q].level # "none"
                     /\ faults' = 0 => escalation' # NoEscalation
    <2>1. CASE q = r
      BY <1>1, <2>1
    <2>2. CASE q # r
      BY <1>1, <2>2 DEF Escalates
    <2>3. QED
      BY <2>1, <2>2
  <1>3. QED
    BY <1>2 DEF Escalates

\* Every step keeps what is said of the escalations.
LEMMA EscalationsKept == ASSUME AiReplyInv, Next PROVE Escalates'
  <1>1. TypeOK /\ Escalates /\ SpentOnce
    BY DEF AiReplyInv
  <1>2. ASSUME NEW r \in Requests, EscalateRead(r)
        PROVE  Escalates'
    <2>1. PICK x : /\ Moves(r, x) /\ x.pc = "upsert" /\ Keeps(x, run[r])
                   /\ x.was \in [tags : SUBSET Tags, level : Levels]
      BY <1>1, <1>2, EscalateReadMoves
    <2>2. run[r].pc = "escalate" /\ UNCHANGED <<escalation, faults>>
      BY <1>2 DEF EscalateRead, bounds
    <2>3. QED
      BY <1>1, <2>1, <2>2, OneEscalates DEF Keeps, Escalates
  <1>3. ASSUME NEW r \in Requests, EscalateUpsert(r)
        PROVE  Escalates'
    <2>1. run[r].pc = "upsert" /\ UNCHANGED faults /\ escalation' # NoEscalation
      <3>1. escalation' = Upserted(escalation, LevelOf(run[r].was.level, run[r].level), Len(log))
        BY <1>3 DEF EscalateUpsert
      <3>2. escalation' # NoEscalation
        BY <3>1 DEF Upserted, LevelOf, NoEscalation
      <3>3. QED
        BY <1>3, <3>2 DEF EscalateUpsert, bounds
    <2>2. PICK x : /\ Moves(r, x) /\ Keeps(x, run[r])
                   /\ \/ x.pc = "guards"
                      \/ x.pc = "tag" /\ x.was = run[r].was /\ "escalated" \notin run[r].was.tags
      BY <1>1, <1>3, EndEscalationMoves, GoMoves DEF EscalateUpsert, Stages
    <2>3. QED
      BY <1>1, <2>1, <2>2, OneEscalates DEF Keeps, Escalates
  <1>4. ASSUME NEW r \in Requests, EscalateTag(r) \/ EscalateFails(r)
        PROVE  Escalates'
    <2>1. PICK x : Moves(r, x) /\ Keeps(x, run[r]) /\ x.pc = "guards"
      BY <1>1, <1>4, EndEscalationMoves DEF EscalateTag, EscalateFails
    <2>2. /\ escalation' = escalation
          /\ \/ run[r].pc = "tag" /\ faults' = faults
             \/ faults' = faults + 1
      BY <1>4 DEF EscalateTag, EscalateFails, bounds
    <2>3. faults \in Nat
      BY <1>1 DEF TypeOK
    <2>4. QED
      BY <1>1, <2>1, <2>2, <2>3, OneEscalates DEF Escalates
  <1>5. ASSUME NEW r \in Requests, ReadTicket(r)
        PROVE  Escalates'
    <2>1. PICK x : Moves(r, x) /\ x.pc = "ticket" /\ x.level = run[r].level
      BY <1>1, <1>5, ReadTicketMoves
    <2>2. run[r].pc = "begun" /\ UNCHANGED <<escalation, faults>>
      BY <1>5 DEF ReadTicket, bounds
    <2>3. QED
      BY <1>1, <2>1, <2>2, OneEscalates DEF Escalates
  <1>6. ASSUME NEW r \in Requests, ReadMessages(r)
        PROVE  Escalates'
    <2>1. PICK x : Moves(r, x) /\ x.pc = (IF x.level # "none" THEN "escalate" ELSE "guards")
      BY <1>1, <1>6, ReadMessagesMoves, AnsweredIsFinite
    <2>2. UNCHANGED <<escalation, faults>>
      BY <1>6 DEF ReadMessages, bounds
    <2>3. QED
      BY <1>1, <2>1, <2>2, OneEscalates
  <1>7. ASSUME NEW r \in Requests, StopEarly(r) \/ MarkHandoff(r) \/ Abort(r)
        PROVE  Escalates'
    <2>1. Skip(r) \in Outcomes
      BY DEF Skip, Outcomes
    <2>2. End(r, Skip(r)) \/ End(r, "rate") \/ End(r, "handoff") \/ End(r, "error")
      BY <1>7 DEF StopEarly, MarkHandoff, Abort
    <2>3. PICK x : Moves(r, x) /\ x.pc = "ended" /\ x.level = run[r].level
      BY <1>1, <2>1, <2>2, EndMoves DEF Outcomes
    <2>4. /\ escalation' = escalation
          /\ \/ run[r].pc \in {"guards", "mark"} /\ faults' = faults
             \/ faults' = faults + 1
      BY <1>7 DEF StopEarly, MarkHandoff, Abort, bounds
    <2>5. faults \in Nat
      BY <1>1 DEF TypeOK
    <2>6. QED
      BY <1>1, <2>3, <2>4, <2>5, OneEscalates DEF Escalates
  <1>8. ASSUME NEW r \in Requests, HandOver(r) \/ AskAi(r)
        PROVE  Escalates'
    <2>1. PICK x : Moves(r, x) /\ x.pc = "store" /\ x.level = run[r].level
      BY <1>1, <1>8, ComposeMoves, ZenonT(60) DEF HandOver, AskAi
    <2>2. run[r].pc = "guards" /\ UNCHANGED <<escalation, faults>>
      BY <1>8 DEF HandOver, AskAi, bounds
    <2>3. QED
      BY <1>1, <2>1, <2>2, OneEscalates DEF Escalates
  <1>9. ASSUME NEW r \in Requests, StoreReply(r)
        PROVE  Escalates'
    <2>1. PICK x : Moves(r, x) /\ x.pc \in {"mark", "ended"} /\ x.level = run[r].level
      BY <1>1, <1>9, EndMoves, GoMoves DEF StoreReply, Keeps, Outcomes, Stages
    <2>2. run[r].pc = "store" /\ UNCHANGED <<escalation, faults>>
      BY <1>9 DEF StoreReply, bounds
    <2>3. QED
      BY <1>1, <2>1, <2>2, OneEscalates DEF Escalates
  <1>10. ASSUME NEW r \in Requests, NEW m \in Messages, AddMessage(r, m)
         PROVE  Escalates'
    <2>1. PICK x : Moves(r, x) /\ x.pc \in {"begun", "ended"} /\ x.level = "none"
      BY <1>1, <1>10, AddMessageMoves
    <2>2. UNCHANGED <<escalation, faults>>
      BY <1>10 DEF AddMessage, bounds
    <2>3. QED
      BY <1>1, <2>1, <2>2, OneEscalates
  <1>11. ASSUME \/ \E r \in Requests : TagRule(r)
                \/ \E h \in Presses : RequestHuman(h)
                \/ Staff
         PROVE  Escalates'
    <2>1. UNCHANGED <<run, escalation>> /\ faults' \in {faults, faults + 1}
      BY <1>11
         DEF TagRule, RuleRead, RuleWrite, RequestHuman, PressHuman, StoreRequest, MarkRequest,
             PressFails, Staff, AgentReplies, ChangeStatus, ChangeMode, bounds
    <2>2. faults' = 0 => faults = 0
      BY <1>1, <2>1 DEF TypeOK
    <2>3. QED
      BY <1>1, <2>1, <2>2 DEF Escalates
  <1>12. QED
    BY <1>2, <1>3, <1>4, <1>5, <1>6, <1>7, <1>8, <1>9, <1>10, <1>11 DEF Next, Escalate, Reply

-----------------------------------------------------------------------------
(* The mark *)

MarkInv == SeenMarkLeavesATrace /\ ToldIsMarked /\ NothingBeforehand

\* A run moves, no rule and no press does: the mark it has seen leaves a trace still, and
\* somebody still accounts for the mark.
LEMMA RunMark ==
    ASSUME TypeOK, MarkInv, NEW r \in Requests, NEW x, Moves(r, x),
           UNCHANGED <<rule, press, requested>>,
           tags' = tags \/ Flagged(tags'),
           x.pc # "idle", x.outcome # "none" => x.pc = "ended",
           "human-handoff" \in x.tags =>
              \/ x.tags = tags /\ x.pc \notin {"upsert", "tag"}
              \/ /\ "human-handoff" \in run[r].tags
                 /\ x.pc \in {"upsert", "tag"} =>
                       \/ x.was.tags = tags
                       \/ run[r].pc \in {"upsert", "tag"} /\ x.was = run[r].was,
           faults' = 0 =>
              /\ faults = 0
              /\ ToldOfAPerson' => ToldOfAPerson \/ Accounts(x)
              /\ Accounts(run[r]) => Accounts(x) \/ "human-handoff" \in tags'
              /\ "human-handoff" \in tags => Accounts(x) \/ MarkLost \/ "human-handoff" \in tags'
    PROVE  MarkInv'
  <1>1. run'[r] = x /\ \A q \in Requests \ {r} : run'[q] = run[q]
    BY MovesOne
  <1>2. MarkLost' <=> MarkLost
    BY DEF MarkLost, RuleLost
  <1>3. SeenMarkLeavesATrace'
    <2> SUFFICES ASSUME NEW q \in Requests, "human-handoff" \in run'[q].tags, ~MarkLost
                 PROVE  Flagged(tags') /\ (run'[q].pc \in {"upsert", "tag"} => Flagged(run'[q].was.tags))
      BY <1>2 DEF SeenMarkLeavesATrace, Flagged
    <2>1. CASE q = r
      BY <1>1, <2>1 DEF MarkInv, SeenMarkLeavesATrace, Flagged
    <2>2. CASE q # r
      BY <1>1, <2>2 DEF MarkInv, SeenMarkLeavesATrace
    <2>3. QED
      BY <2>1, <2>2
  <1>4. ToldIsMarked'
    <2> SUFFICES ASSUME ToldOfAPerson', faults' = 0, "human-handoff" \notin tags', ~MarkLost
                 PROVE  \/ \E q \in Requests : Accounts(run'[q])
                        \/ \E h \in Presses : press'[h].pc = "mark"
      BY <1>2 DEF ToldIsMarked, Accounts
    <2>1. CASE Accounts(x)
      BY <1>1, <2>1
    <2>2. CASE ~Accounts(x)
      <3>1. faults = 0 /\ ToldOfAPerson /\ ~Accounts(run[r]) /\ "human-handoff" \notin tags
        BY <2>2
      <3>2. \/ \E q \in Requests : Accounts(run[q])
            \/ \E h \in Presses : press[h].pc = "mark"
        BY <3>1 DEF MarkInv, ToldIsMarked
      <3>3. QED
        BY <1>1, <3>1, <3>2
    <2>3. QED
      BY <2>1, <2>2
  <1>5. NothingBeforehand'
    BY <1>1 DEF MarkInv, NothingBeforehand
  <1>6. QED
    BY <1>3, <1>4, <1>5 DEF MarkInv

\* An unfinished run that is not deciding accounts for nothing.
LEMMA NotYetAccounts ==
    ASSUME NothingBeforehand, NEW r \in Requests,
           run[r].pc \in {"begun", "ticket", "escalate", "upsert", "tag"}
    PROVE  ~Accounts(run[r])
  BY DEF NothingBeforehand, Accounts

\* An escalation keeps the account of the mark: when it overwrites one, its run saw none at
\* its beginning and sets it again.
LEMMA EscalateMark == ASSUME AiReplyInv, NEW r \in Requests, Escalate(r) PROVE MarkInv'
  <1>1. TypeOK /\ MarkInv /\ Escalates /\ NothingBeforehand
    BY DEF AiReplyInv, MarkInv
  <1>2. faults \in Nat
    BY <1>1 DEF TypeOK
  <1>3. run[r].pc \in {"escalate", "upsert", "tag"} /\ ~Accounts(run[r]) /\ run[r].outcome = "none"
    <2>1. run[r].pc \in {"escalate", "upsert", "tag"}
      BY DEF Escalate, EscalateRead, EscalateUpsert, EscalateTag, EscalateFails
    <2>2. QED
      BY <1>1, <2>1, NotYetAccounts DEF NothingBeforehand
  <1>4. UNCHANGED <<rule, press, requested>> /\ (ToldOfAPerson' <=> ToldOfAPerson)
    BY DEF Escalate, EscalateRead, EscalateUpsert, EscalateTag, EscalateFails, stored, ToldOfAPerson
  <1>5. ASSUME EscalateRead(r)
        PROVE  MarkInv'
    <2>1. PICK x : Moves(r, x) /\ x.pc = "upsert" /\ Keeps(x, run[r]) /\ x.was.tags = tags
      BY <1>1, <1>5, EscalateReadMoves
    <2>2. UNCHANGED <<tags, faults>>
      BY <1>5 DEF EscalateRead, ticket, bounds
    <2>3. QED
      BY <1>1, <1>3, <1>4, <2>1, <2>2, RunMark DEF Keeps
  <1>6. ASSUME EscalateUpsert(r)
        PROVE  MarkInv'
    <2>1. PICK x : /\ Moves(r, x) /\ Keeps(x, run[r])
                   /\ x.pc = "guards" \/ (x.pc = "tag" /\ x.was = run[r].was)
      BY <1>1, <1>6, EndEscalationMoves, GoMoves DEF EscalateUpsert, Stages
    <2>2. UNCHANGED <<tags, faults>> /\ run[r].pc = "upsert"
      BY <1>6 DEF EscalateUpsert, ticket, bounds
    <2>3. QED
      BY <1>1, <1>3, <1>4, <2>1, <2>2, RunMark DEF Keeps
  <1>7. ASSUME EscalateTag(r)
        PROVE  MarkInv'
    <2>1. PICK x : Moves(r, x) /\ Keeps(x, run[r]) /\ x.pc = "guards"
      BY <1>1, <1>7, EndEscalationMoves DEF EscalateTag
    <2>2. tags' = run[r].was.tags \cup {"escalated"} /\ UNCHANGED faults /\ run[r].pc = "tag"
      BY <1>7 DEF EscalateTag, bounds
    <2>3. "escalated" \notin run[r].was.tags /\ run[r].level # "none"
      BY <1>1, <2>2 DEF Escalates
    <2>4. "human-handoff" \in tags => Accounts(x) \/ MarkLost \/ "human-handoff" \in tags'
      BY <1>1, <2>1, <2>2, <2>3 DEF MarkInv, SeenMarkLeavesATrace, Flagged, Accounts, Keeps
    <2>5. Flagged(tags')
      BY <2>2 DEF Flagged
    <2>6. QED
      BY <1>1, <1>3, <1>4, <2>1, <2>2, <2>4, <2>5, RunMark DEF Keeps
  <1>8. ASSUME EscalateFails(r)
        PROVE  MarkInv'
    <2>1. PICK x : Moves(r, x) /\ Keeps(x, run[r]) /\ x.pc = "guards"
      BY <1>1, <1>8, EndEscalationMoves DEF EscalateFails
    <2>2. faults' # 0 /\ tags' = tags
      BY <1>2, <1>8 DEF EscalateFails, ticket
    <2>3. QED
      BY <1>1, <1>3, <1>4, <2>1, <2>2, RunMark DEF Keeps
  <1>9. QED
    BY <1>5, <1>6, <1>7, <1>8 DEF Escalate

\* So does what a run does otherwise: a serious one that saw no mark hands over and marks,
\* or stops for a reason of its own.
LEMMA ReplyMark == ASSUME AiReplyInv, NEW r \in Requests, Reply(r) PROVE MarkInv'
  <1>1. TypeOK /\ MarkInv /\ NothingBeforehand /\ OneRunPerMessage /\ SpentOnce
    BY DEF AiReplyInv, MarkInv
  <1>2. faults \in Nat
    BY <1>1 DEF TypeOK
  <1>3. UNCHANGED <<rule, press, requested>>
    BY DEF Reply, ReadTicket, ReadMessages, StopEarly, HandOver, AskAi, StoreReply, MarkHandoff,
           Abort, stored
  <1>4. ASSUME ReadTicket(r)
        PROVE  MarkInv'
    <2>1. PICK x : Moves(r, x) /\ x.pc = "ticket" /\ x.tags = tags /\ x.outcome = run[r].outcome
      BY <1>1, <1>4, ReadTicketMoves
    <2>2. UNCHANGED <<tags, faults>> /\ run[r].pc = "begun" /\ (ToldOfAPerson' <=> ToldOfAPerson)
      BY <1>4 DEF ReadTicket, ticket, bounds, stored, ToldOfAPerson
    <2>3. ~Accounts(run[r]) /\ run[r].outcome = "none"
      BY <1>1, <2>2, NotYetAccounts DEF NothingBeforehand
    <2>4. QED
      BY <1>1, <1>3, <2>1, <2>2, <2>3, RunMark
  <1>5. ASSUME ReadMessages(r)
        PROVE  MarkInv'
    <2>1. PICK x : Moves(r, x) /\ x.pc \in {"escalate", "guards"} /\ x.tags = run[r].tags
                   /\ x.outcome = run[r].outcome
      BY <1>1, <1>5, ReadMessagesMoves, AnsweredIsFinite
    <2>2. UNCHANGED <<tags, faults>> /\ run[r].pc = "ticket" /\ (ToldOfAPerson' <=> ToldOfAPerson)
      BY <1>5 DEF ReadMessages, ticket, bounds, stored, ToldOfAPerson
    <2>3. ~Accounts(run[r]) /\ run[r].outcome = "none"
      BY <1>1, <2>2, NotYetAccounts DEF NothingBeforehand
    <2>4. QED
      BY <1>1, <1>3, <2>1, <2>2, <2>3, RunMark
  <1>6. ASSUME StopEarly(r)
        PROVE  MarkInv'
    <2>1. /\ UNCHANGED <<tags, faults>> /\ run[r].pc = "guards"
          /\ ToldOfAPerson' <=> ToldOfAPerson
      BY <1>6 DEF StopEarly, ticket, bounds, stored, ToldOfAPerson
    <2>2. PICK outcome \in Outcomes :
             /\ End(r, outcome)
             /\ outcome \in {"mode", "agent", "closed", "rate"} \/ "human-handoff" \in run[r].tags
      BY <1>6 DEF StopEarly, Skip, Outcomes
    <2>3. PICK x : /\ Moves(r, x) /\ x.pc = "ended" /\ x.outcome = outcome
                   /\ x.level = run[r].level /\ x.tags = {}
      BY <1>1, <2>2, EndMoves
    <2>4. run[r].outcome = "none"
      BY <1>1, <2>1 DEF NothingBeforehand
    <2>5. Accounts(run[r]) => Accounts(x)
      BY <2>1, <2>2, <2>3, <2>4 DEF Accounts
    <2>6. QED
      BY <1>1, <1>3, <2>1, <2>3, <2>5, RunMark
  <1>7. ASSUME HandOver(r) \/ AskAi(r)
        PROVE  MarkInv'
    <2>1. PICK handoff \in BOOLEAN : Compose(r, handoff) /\ (run[r].level # "none" => handoff)
      BY <1>7 DEF HandOver, AskAi, MayAnswer
    <2>2. PICK x : /\ Moves(r, x) /\ x.pc = "store" /\ x.handoff = handoff
                   /\ x.level = run[r].level /\ x.tags = run[r].tags /\ x.outcome = "none"
      BY <1>1, <2>1, ComposeMoves
    <2>3. /\ UNCHANGED <<tags, faults>> /\ run[r].pc = "guards"
          /\ ToldOfAPerson' <=> ToldOfAPerson
      <3>1. /\ UNCHANGED <<tags, faults>> /\ run[r].pc = "guards"
            /\ requested' = requested /\ replies' = replies
        <4>1. CASE HandOver(r)
          BY <4>1 DEF HandOver, ticket, bounds, stored
        <4>2. CASE AskAi(r)
          BY <4>2 DEF AskAi, ticket, bounds, stored
        <4>3. QED
          BY <1>7, <4>1, <4>2
      <3>2. QED
        BY <3>1 DEF ToldOfAPerson
    <2>4. run[r].outcome = "none"
      BY <1>1, <2>3 DEF NothingBeforehand
    <2>5. Accounts(run[r]) => Accounts(x)
      BY <2>1, <2>2, <2>3, <2>4 DEF Accounts
    <2>6. QED
      BY <1>1, <1>3, <2>2, <2>3, <2>5, RunMark
  <1>8. ASSUME StoreReply(r)
        PROVE  MarkInv'
    <2>1. /\ run[r].pc = "store" /\ run[r].msg \in Messages /\ ~Answered(run[r].msg)
          /\ run[r].outcome = "none"
      BY <1>1, <1>8 DEF StoreReply, OneRunPerMessage, Active, StoredMessages, NothingBeforehand
    <2>2. UNCHANGED <<tags, faults>>
      BY <1>8 DEF StoreReply, ticket, bounds
    <2>3. CASE run[r].handoff
      <3>1. PICK x : Moves(r, x) /\ x.pc = "mark" /\ Keeps(x, run[r])
        BY <1>1, <1>8, <2>1, <2>3, GoMoves DEF StoreReply, Stages
      <3>2. Accounts(x)
        BY <3>1 DEF Accounts
      <3>3. QED
        BY <1>1, <1>3, <2>1, <2>2, <3>1, <3>2, RunMark DEF Keeps
    <2>4. CASE ~run[r].handoff
      <3>1. PICK x : Moves(r, x) /\ x.pc = "ended" /\ x.tags = {}
        BY <1>1, <1>8, <2>1, <2>4, EndMoves DEF StoreReply, Outcomes
      <3>2. ~Accounts(run[r])
        BY <2>1, <2>4 DEF Accounts
      <3>3. ToldOfAPerson' => ToldOfAPerson
        <4>1. replies' = [replies EXCEPT ![run[r].msg] = "answer"]
          BY <1>8, <2>1, <2>4 DEF StoreReply
        <4>2. \A m \in Messages : replies'[m] = "handoff" => replies[m] = "handoff"
          BY <1>1, <4>1 DEF TypeOK
        <4>3. QED
          BY <1>3, <4>2 DEF ToldOfAPerson
      <3>4. QED
        BY <1>1, <1>3, <2>1, <2>2, <3>1, <3>2, <3>3, RunMark
    <2>5. QED
      BY <2>3, <2>4
  <1>9. ASSUME MarkHandoff(r)
        PROVE  MarkInv'
    <2>1. PICK x : Moves(r, x) /\ x.pc = "ended" /\ x.tags = {}
      BY <1>1, <1>9, EndMoves DEF MarkHandoff, Outcomes
    <2>2. "human-handoff" \in tags' /\ UNCHANGED faults /\ (ToldOfAPerson' <=> ToldOfAPerson)
      BY <1>9 DEF MarkHandoff, bounds, stored, ToldOfAPerson
    <2>3. Flagged(tags')
      BY <2>2 DEF Flagged
    <2>4. QED
      BY <1>1, <1>3, <2>1, <2>2, <2>3, RunMark
  <1>10. ASSUME Abort(r)
         PROVE  MarkInv'
    <2>1. PICK x : Moves(r, x) /\ x.pc = "ended" /\ x.tags = {}
      BY <1>1, <1>10, EndMoves DEF Abort, Outcomes
    <2>2. faults' # 0 /\ tags' = tags
      BY <1>2, <1>10 DEF Abort, ticket
    <2>3. QED
      BY <1>1, <1>3, <2>1, <2>2, RunMark
  <1>11. QED
    BY <1>4, <1>5, <1>6, <1>7, <1>8, <1>9, <1>10 DEF Reply

\* A post accounts for nothing, and loses no trace of a rule.
LEMMA AddMessageMark ==
    ASSUME AiReplyInv, NEW r \in Requests, NEW m \in Messages, AddMessage(r, m)
    PROVE  MarkInv'
  <1>1. TypeOK /\ MarkInv /\ NothingBeforehand
    BY DEF AiReplyInv, MarkInv
  <1>2. PICK x : /\ Moves(r, x) /\ x.level = "none" /\ x.tags = {} /\ x.pc \in {"begun", "ended"}
                 /\ x.outcome # "none" => x.pc = "ended"
                 /\ rule' = rule \/ rule' = [rule EXCEPT ![r].pc = "read"]
    BY <1>1, AddMessageMoves
  <1>3. run'[r] = x /\ \A q \in Requests \ {r} : run'[q] = run[q]
    BY <1>1, <1>2, MovesOne
  <1>4. run[r].pc = "idle" /\ UNCHANGED <<tags, press, faults>> /\ (ToldOfAPerson' <=> ToldOfAPerson)
    BY DEF AddMessage, ticket, bounds, ToldOfAPerson
  <1>5. run[r].level = "none" /\ rule[r].pc = "off"
    BY <1>1, <1>4 DEF NothingBeforehand
  <1>6. \A q \in Requests \ {r} : rule'[q] = rule[q]
    BY <1>1, <1>2 DEF TypeOK
  <1>7. MarkLost => MarkLost'
    BY <1>5, <1>6 DEF MarkLost, RuleLost
  <1>8. SeenMarkLeavesATrace'
    BY <1>1, <1>2, <1>3, <1>4, <1>7 DEF MarkInv, SeenMarkLeavesATrace, Flagged
  <1>9. ToldIsMarked'
    <2>1. ~Accounts(run[r])
      BY <1>4, <1>5 DEF Accounts
    <2>2. (\E q \in Requests : Accounts(run[q])) => \E q \in Requests : Accounts(run'[q])
      BY <1>3, <2>1
    <2>3. QED
      BY <1>1, <1>4, <1>7, <2>2 DEF MarkInv, ToldIsMarked, Accounts
  <1>10. NothingBeforehand'
    BY <1>1, <1>2, <1>3, <1>6 DEF NothingBeforehand
  <1>11. QED
    BY <1>8, <1>9, <1>10 DEF MarkInv

\* A rule that overwrites the mark is the one that lost it.
LEMMA TagRuleMark == ASSUME AiReplyInv, NEW r \in Requests, TagRule(r) PROVE MarkInv'
  <1>1. TypeOK /\ MarkInv /\ NothingBeforehand
    BY DEF AiReplyInv, MarkInv
  <1>2. UNCHANGED <<run, press, faults>> /\ (ToldOfAPerson' <=> ToldOfAPerson)
    BY DEF TagRule, RuleRead, RuleWrite, bounds, stored, ToldOfAPerson
  <1>3. rule[r].pc \in {"read", "write"} /\ (\A q \in Requests \ {r} : rule'[q] = rule[q])
    BY <1>1 DEF TagRule, RuleRead, RuleWrite, TypeOK
  <1>4. MarkLost => MarkLost'
    BY <1>3 DEF MarkLost, RuleLost
  <1>5. NothingBeforehand'
    BY <1>1, <1>2, <1>3 DEF NothingBeforehand
  <1>6. MarkLost' \/ tags' = tags \/ "human-handoff" \in tags'
    <2>1. CASE RuleRead(r)
      BY <2>1 DEF RuleRead, ticket
    <2>2. CASE RuleWrite(r)
      <3> DEFINE y == [pc |-> "wrote", tags |-> rule[r].tags \cap {"human-handoff"}]
      <3>1. rule' = [rule EXCEPT ![r] = y]
        BY <2>2 DEF RuleWrite
      <3>2. y.pc = "wrote" /\ ("human-handoff" \in y.tags <=> "human-handoff" \in rule[r].tags)
        OBVIOUS
      <3> HIDE DEF y
      <3>3. rule'[r] = y
        BY <1>1, <3>1 DEF TypeOK
      <3>4. tags' = rule[r].tags \cup {"rule"}
        BY <2>2 DEF RuleWrite
      <3>5. QED
        BY <3>2, <3>3, <3>4 DEF MarkLost, RuleLost
    <2>3. QED
      BY <2>1, <2>2 DEF TagRule
  <1>7. SeenMarkLeavesATrace'
    BY <1>1, <1>2, <1>4, <1>6 DEF MarkInv, SeenMarkLeavesATrace, Flagged
  <1>8. ToldIsMarked'
    <2>1. (\E q \in Requests : Accounts(run[q])) => \E q \in Requests : Accounts(run'[q])
      BY <1>2
    <2>2. QED
      BY <1>1, <1>2, <1>4, <1>6, <2>1 DEF MarkInv, ToldIsMarked, Accounts
  <1>9. QED
    BY <1>5, <1>7, <1>8 DEF MarkInv

\* A press of the button tells the visitor and sets the mark.
LEMMA RequestHumanMark == ASSUME AiReplyInv, NEW h \in Presses, RequestHuman(h) PROVE MarkInv'
  <1>1. TypeOK /\ MarkInv
    BY DEF AiReplyInv, MarkInv
  <1>2. UNCHANGED <<run, rule>> /\ (MarkLost' <=> MarkLost)
    BY DEF RequestHuman, PressHuman, StoreRequest, MarkRequest, PressFails, MarkLost, RuleLost
  <1>3. tags' = tags \/ "human-handoff" \in tags'
    BY DEF RequestHuman, PressHuman, StoreRequest, MarkRequest, PressFails, ticket
  <1>4. SeenMarkLeavesATrace' /\ NothingBeforehand'
    BY <1>1, <1>2, <1>3 DEF MarkInv, SeenMarkLeavesATrace, NothingBeforehand, Flagged
  <1>5. (\E q \in Requests : Accounts(run[q])) => \E q \in Requests : Accounts(run'[q])
    BY <1>2
  <1>6. \A g \in Presses \ {h} : press'[g] = press[g]
    BY <1>1 DEF RequestHuman, PressHuman, StoreRequest, MarkRequest, PressFails, TypeOK
  <1>7. ToldIsMarked'
    <2>1. CASE PressHuman(h)
      <3>1. press[h].pc = "idle" /\ UNCHANGED <<tags, faults>> /\ (ToldOfAPerson' <=> ToldOfAPerson)
        BY <2>1 DEF PressHuman, ticket, bounds, stored, ToldOfAPerson
      <3>2. QED
        BY <1>1, <1>2, <1>5, <1>6, <3>1 DEF MarkInv, ToldIsMarked, Accounts
    <2>2. CASE StoreRequest(h)
      <3>1. press[h].pc = "store" /\ UNCHANGED <<tags, faults, replies>>
        BY <2>2 DEF StoreRequest, ticket, bounds
      <3>2. CASE requested
        <4>1. ToldOfAPerson' => ToldOfAPerson
          BY <3>2 DEF ToldOfAPerson
        <4>2. QED
          BY <1>1, <1>2, <1>5, <1>6, <3>1, <4>1 DEF MarkInv, ToldIsMarked, Accounts
      <3>3. CASE ~requested
        <4>1. press'[h].pc = "mark"
          BY <1>1, <2>2, <3>3 DEF StoreRequest, TypeOK
        <4>2. QED
          BY <4>1 DEF ToldIsMarked
      <3>4. QED
        BY <3>2, <3>3
    <2>3. CASE MarkRequest(h)
      BY <2>3 DEF MarkRequest, ToldIsMarked
    <2>4. CASE PressFails(h)
      <3>1. faults' # 0
        BY <1>1, <2>4 DEF PressFails, TypeOK
      <3>2. QED
        BY <3>1 DEF ToldIsMarked
    <2>5. QED
      BY <2>1, <2>2, <2>3, <2>4 DEF RequestHuman
  <1>8. QED
    BY <1>4, <1>7 DEF MarkInv

\* The staff touches no tags, runs, rules or presses.
LEMMA OtherMark ==
    ASSUME MarkInv, UNCHANGED <<tags, requested, replies, run, rule, press, faults>>
    PROVE  MarkInv'
  <1>1. (MarkLost' <=> MarkLost) /\ (ToldOfAPerson' <=> ToldOfAPerson)
    BY DEF MarkLost, RuleLost, ToldOfAPerson
  <1>2. SeenMarkLeavesATrace' /\ NothingBeforehand'
    BY <1>1 DEF MarkInv, SeenMarkLeavesATrace, NothingBeforehand, Flagged
  <1>3. ToldIsMarked'
    BY <1>1 DEF MarkInv, ToldIsMarked, Accounts
  <1>4. QED
    BY <1>2, <1>3 DEF MarkInv

-----------------------------------------------------------------------------
(* The theorems *)

\* The initial states satisfy the invariant.
LEMMA InitAiReplyInv == Init => AiReplyInv
  <1> SUFFICES ASSUME Init PROVE AiReplyInv
    OBVIOUS
  <1>1. log = <<>> /\ Len(log) = 0 /\ DOMAIN log = {}
        /\ log \in Seq([by : {"customer", "agent"}, msg : Messages \cup {None}, kind : AllKinds])
    BY EmptySeq DEF Init
  <1>2. NoRun \in RunState /\ NoRun.seen = 0 /\ NoRun.pc = "idle" /\ NoRun.level = "none"
        /\ NoRun.outcome = "none" /\ NoRun.tags = {}
    BY DEF NoRun, RunState, Tags, Levels, Outcomes
  <1>3. \A r \in Requests : run[r] = NoRun
    BY DEF Init
  <1>4. StoredMessages = {} /\ (\A m : Posts(m) = {}) /\ \A m \in Messages : ~Answered(m)
    BY <1>1 DEF StoredMessages, Stored, Posts, Init, Answered
  <1>5. TypeOK
    <2>1. /\ mode \in Modes /\ closed \in BOOLEAN /\ tags \subseteq Tags /\ escalation = NoEscalation
          /\ requested \in BOOLEAN /\ replies \in [Messages -> {"none", "answer", "handoff"}]
      BY DEF Init
    <2>2. used \in 0..AllowanceLimit /\ acts \in Nat /\ faults \in Nat /\ acts + faults <= MaxEvents
      BY AiReplyAssumption DEF Init
    <2>3. run \in [Requests -> RunState]
      BY <1>2 DEF Init
    <2>4. \A r \in Requests : run[r].seen <= Len(log)
      BY <1>1, <1>2, <1>3
    <2>5. /\ rule \in [Requests -> [pc : {"off", "read", "write", "kept", "wrote"}, tags : SUBSET Tags]]
          /\ press \in [Presses -> [pc : {"idle", "store", "mark", "ended"}, tags : SUBSET Tags]]
      BY DEF Init, NoRule, NoPress, Tags
    <2>6. QED
      BY <1>1, <2>1, <2>2, <2>3, <2>4, <2>5 DEF TypeOK
  <1>6. OneRunPerMessage
    BY <1>2, <1>3, <1>4 DEF OneRunPerMessage, Active, Undecided
  <1>7. SpentOnce
    <2>1. Settled = {} /\ Answers = {}
      BY <1>2, <1>3, <1>4 DEF Settled, Answers, Init
    <2>2. QED
      BY <1>4, <2>1, FS_EmptySet DEF SpentOnce, Init
  <1>8. AnswersInTime
    BY <1>2, <1>3, <1>4 DEF AnswersInTime
  <1>9. Escalates
    BY <1>2, <1>3 DEF Escalates
  <1>10. SeenMarkLeavesATrace /\ NothingBeforehand
    BY <1>2, <1>3 DEF SeenMarkLeavesATrace, NothingBeforehand, Init, NoRule
  <1>11. ToldIsMarked
    BY DEF Init, ToldIsMarked, ToldOfAPerson
  <1>12. QED
    BY <1>5, <1>6, <1>7, <1>8, <1>9, <1>10, <1>11 DEF AiReplyInv

\* Every step keeps it.
LEMMA NextAiReplyInv == AiReplyInv /\ [Next]_vars => AiReplyInv'
  <1> SUFFICES ASSUME AiReplyInv, [Next]_vars PROVE AiReplyInv'
    OBVIOUS
  <1>1. TypeOK /\ MessageInv /\ MarkInv /\ Escalates
    BY DEF AiReplyInv, MessageInv, MarkInv
  <1>2. ASSUME Next
        PROVE  TypeOK' /\ MessageInv' /\ MarkInv' /\ Escalates'
    <2>1. TypeOK'
      BY <1>2, EscalateType, ReplyType, OthersType DEF Next
    <2>2. MarkInv'
      <3>1. ASSUME Staff
            PROVE  MarkInv'
        <4>1. UNCHANGED <<tags, requested, replies, run, rule, press, faults>>
          BY <3>1 DEF Staff, AgentReplies, ChangeStatus, ChangeMode, ticket, stored
        <4>2. QED
          BY <1>1, <4>1, OtherMark
      <3>2. QED
        BY <1>2, <3>1, EscalateMark, ReplyMark, AddMessageMark, TagRuleMark, RequestHumanMark DEF Next
    <2>3. QED
      BY <1>2, <2>1, <2>2, MessagesKept, EscalationsKept
  <1>3. CASE UNCHANGED vars
    <2>1. /\ UNCHANGED <<mode, closed, tags, escalation, log, replies, requested, used, run, rule>>
          /\ UNCHANGED <<press, acts, faults>>
      BY <1>3 DEF vars, ticket, stored, bounds
    <2>2. TypeOK'
      BY <1>1, <2>1 DEF TypeOK
    <2>3. MessageInv' /\ MarkInv'
      BY <1>1, <2>1, OtherMessages, OtherMark
    <2>4. Escalates'
      BY <1>1, <2>1 DEF Escalates
    <2>5. QED
      BY <2>2, <2>3, <2>4 DEF AiReplyInv, MessageInv, MarkInv
  <1>4. QED
    BY <1>2, <1>3 DEF AiReplyInv, MessageInv, MarkInv

\* The invariant of the conversation holds in every reachable state.
THEOREM InvariantHolds == Spec => []AiReplyInv
  BY InitAiReplyInv, NextAiReplyInv, PTL DEF Spec

\* Every reachable state is well typed.
THEOREM TypeCorrect == Spec => []TypeOK
  <1>1. AiReplyInv => TypeOK
    BY DEF AiReplyInv
  <1>2. QED
    BY <1>1, InvariantHolds, PTL

\* However often a message is repeated and runs overlap, it is stored once, spends at most
\* one reply and is not answered by the AI without one, and never after an agent's reply.
THEOREM AnswersWereDue == Spec => []AnswersAreDue
  <1>1. AiReplyInv => AnswersAreDue
    <2> SUFFICES ASSUME AiReplyInv PROVE AnswersAreDue
      OBVIOUS
    <2>1. TypeOK /\ OneRunPerMessage /\ SpentOnce /\ AnswersInTime
      BY DEF AiReplyInv
    <2>2. used \in Nat
      BY <2>1, AiReplyAssumption DEF TypeOK
    <2>3. ASSUME NEW m \in Messages
          PROVE  Cardinality(Posts(m)) <= 1
      <3>1. CASE Posts(m) = {}
        BY <3>1, FS_EmptySet
      <3>2. ASSUME NEW i \in Posts(m)
            PROVE  Cardinality(Posts(m)) <= 1
        <4>1. Posts(m) = {} \cup {i}
          BY <2>1 DEF OneRunPerMessage
        <4>2. IsFiniteSet({}) /\ Cardinality({}) = 0
          BY FS_EmptySet
        <4>3. QED
          BY <4>1, <4>2, FS_AddElement
      <3>3. QED
        BY <3>1, <3>2
    <2>4. used <= Cardinality({m \in Messages : Stored(m)})
      <3>1. Settled \subseteq StoredMessages /\ used <= Cardinality(Settled)
            /\ IsFiniteSet(StoredMessages)
        BY <2>1, CountedAreStored DEF SpentOnce
      <3>2. QED
        BY <2>2, <3>1, CountsStay DEF StoredMessages
    <2>5. Cardinality({m \in Messages : replies[m] = "answer"}) <= used
      <3>1. {m \in Messages : replies[m] = "answer"} \subseteq Answers /\ IsFiniteSet(Answers)
        BY <2>1, CountedAreStored DEF Answers
      <3>2. QED
        BY <2>1, <2>2, <3>1, CountsStay DEF SpentOnce
    <2>6. NoAnswerAfterAnAgent
      BY <2>1 DEF NoAnswerAfterAnAgent, AnswersInTime, BeforeAgents
    <2>7. QED
      BY <2>3, <2>4, <2>5, <2>6 DEF AnswersAreDue, OneReplyPerMessage
  <1>2. QED
    BY <1>1, InvariantHolds, PTL

\* A run that found a serious matter and ended has left an escalation, unless a fault came
\* in its way, in whatever mode and whoever else wrote the ticket.
THEOREM SeriousWasEscalated == Spec => []SeriousIsEscalated
  <1>1. AiReplyInv => SeriousIsEscalated
    BY DEF AiReplyInv, Escalates, SeriousIsEscalated
  <1>2. QED
    BY <1>1, InvariantHolds, PTL

\* At rest and without faults a visitor who was told that a person takes over has the mark
\* on the ticket, unless a tag rule wrote over it or a serious run stopped without setting
\* it again: these are the only writers that lose it.
THEOREM HandoffMarkIsKept == Spec => []HandoffMarkSurvives
  <1>1. AiReplyInv => HandoffMarkSurvives
    <2> SUFFICES ASSUME AiReplyInv, Quiet, faults = 0, ToldOfAPerson,
                        "human-handoff" \notin tags
                 PROVE  \E r \in Requests : MayLoseTheMark(r)
      BY DEF HandoffMarkSurvives
    <2>1. MarkLost \/ \E r \in Requests : Accounts(run[r])
      BY DEF AiReplyInv, ToldIsMarked, Quiet
    <2>2. QED
      BY <2>1 DEF MarkLost, RuleLost, MayLoseTheMark, Accounts, Quiet
  <1>2. QED
    BY <1>1, InvariantHolds, PTL
=============================================================================
