----------------------------- MODULE Intake_proofs -----------------------------
(***************************************************************************)
(* Theorems about Intake: forms, cases, evaluations, ratings and the shop  *)
(* are guarded, imports and samples come once, and what others send        *)
(* becomes one ticket or message. They hold for any number of processes of *)
(* any areas, rows, limits and faults, with whatever the inbox and the     *)
(* chat do beside them.                                                    *)
(***************************************************************************)
EXTENDS Intake, FiniteSetTheorems, WellFoundedInduction, TLAPS

-----------------------------------------------------------------------------
(* The inductive invariant *)

\* The steps of the handlers of module Intake: what kind of process goes through them.
Handled ==
    {<<"newForm", "addForm">>, <<"newCase", "addCase">>, <<"switch", "switchForm">>,
     <<"answer", "person">>, <<"answer", "ticket">>, <<"answer", "judge">>, <<"answer", "reply">>,
     <<"api", "person">>, <<"api", "ticket">>, <<"api", "reply">>, <<"say", "reply">>,
     <<"import", "known">>, <<"import", "nextRow">>, <<"import", "importRow">>, <<"import", "imported">>,
     <<"seed", "sample">>, <<"seed", "sampleTicket">>, <<"eval", "cases">>, <<"eval", "asking">>,
     <<"connectShop", "storeShop">>, <<"rate", "rating">>}
IntakeSteps == {"addForm", "addCase", "switchForm", "person", "ticket", "judge", "reply", "known", "nextRow",
                "importRow", "imported", "sample", "sampleTicket", "cases", "asking", "storeShop", "rating"}
IntakeKinds == {"newForm", "newCase", "switch", "dropForm", "answer", "api", "block", "say", "import", "seed",
                "clear", "untag", "dropCase", "eval", "connectShop", "disconnectShop", "rate", "reopen"}

\* A process of this module is at a step of its own handler, and no other process is at one of them.
OnItsWay ==
    \A r \in Req :
        \/ pc[r] \in Ended \cup {"start"}
        \/ <<Kind(r), pc[r]>> \in Handled
        \/ Kind(r) \notin IntakeKinds /\ pc[r] \notin IntakeSteps

\* Processes come in the order of their numbers, and the earlier one of two that are not noted as
\* together had ended before the later one came.
Sequential ==
    \A q, r \in Req : q < r /\ pc[r] # "free" => pc[q] # "free" /\ ({q, r} \in met \/ pc[q] \in Ended)

\* What a process may hold as where it goes next, and what one of this module holds.
Nexts == {"none", "done", "post", "count", "send", "list"}
Holds(m) == m.ids \subseteq Samples /\ m.m \in {0} \cup Samples /\ m.tries \in Nat

\* What every process is and holds.
ProcessType ==
    /\ area \in Areas /\ faults \in Nat
    /\ DOMAIN job = Req /\ DOMAIN pc = Req /\ DOMAIN mem = Req
    /\ \A r \in Req :
        /\ job[r].kind = "none" \/ \E a \in Areas : job[r] \in a.jobs
        /\ pc[r] = "free" => mem[r] = NoMem /\ Kind(r) = "none"
        /\ DOMAIN mem[r] = DOMAIN NoMem
        /\ mem[r].next \in Nexts
        /\ Kind(r) \in IntakeKinds => Holds(mem[r])

CoreInv == ProcessType /\ OnItsWay /\ Sequential

-----------------------------------------------------------------------------
(* The steps of the other channels *)

\* A step of process r, whose handler it is, and of nobody else.
Walks(r) ==
    /\ pc[r] \notin Ended /\ pc'[r] # "free"
    /\ DOMAIN pc' = Req /\ DOMAIN mem' = Req /\ DOMAIN mem'[r] = DOMAIN NoMem /\ mem'[r].next \in Nexts
    /\ \A q \in Req \ {r} : pc'[q] = pc[q] /\ mem'[q] = mem[q]
    /\ faults' \in Nat /\ faults' >= faults
    /\ UNCHANGED <<area, job, met>>

\* A step of the inbox or the chat leaves this module's processes and rows as they are.
Elsewhere(r) == Walks(r) /\ Kind(r) \notin IntakeKinds /\ pc'[r] \notin IntakeSteps

\* What a process holds at the start has these fields, and goes nowhere next.
LEMMA NoMemFields ==
    /\ {"acc", "conn", "left", "ids", "m", "t", "token", "thread", "next", "head", "tries", "files", "conv"}
          \subseteq DOMAIN NoMem
    /\ NoMem.next = "none"
  BY DEF NoMem

\* The steps of the inbox.
LEMMA InboxStepsElsewhere ==
    ASSUME CoreInv, NEW r \in Req, InboxStep(r)
    PROVE  Elsewhere(r)
  <1>1. /\ DOMAIN mem[r] = DOMAIN NoMem /\ mem[r].next \in Nexts /\ faults \in Nat
        /\ DOMAIN pc = Req /\ DOMAIN mem = Req
    BY DEF CoreInv, ProcessType
  <1>2. \/ pc[r] \in Ended \cup {"start"} \/ <<Kind(r), pc[r]>> \in Handled
        \/ Kind(r) \notin IntakeKinds /\ pc[r] \notin IntakeSteps
    BY DEF CoreInv, OnItsWay
  <1>3. CASE StateGet(r) \/ StateDel(r) \/ Exchange(r) \/ Check(r) \/ Upsert(r)
    <2>1. pc[r] \notin Ended /\ Kind(r) \notin IntakeKinds
      BY <1>2, <1>3 DEF StateGet, StateDel, Exchange, Check, Upsert, At, Ended, IntakeKinds, Handled
    <2>2. /\ DOMAIN pc' = Req /\ \A q \in Req \ {r} : pc'[q] = pc[q]
          /\ pc'[r] \notin IntakeSteps \cup {"free"}
      BY <1>1, <1>3 DEF StateGet, StateDel, Exchange, Check, Upsert, Skip, Reject, Read, Go, IntakeSteps, Nexts
    <2>3. faults' \in {faults, faults + 1} /\ UNCHANGED <<area, job, met>>
      BY <1>1, <1>3 DEF StateGet, StateDel, Exchange, Check, Upsert, Skip, Reject, Read, Same
    <2>4. /\ DOMAIN mem' = Req /\ \A q \in Req \ {r} : mem'[q] = mem[q]
          /\ DOMAIN mem'[r] = DOMAIN NoMem /\ mem'[r].next \in Nexts
      BY <1>1, <1>3, NoMemFields DEF StateGet, StateDel, Exchange, Check, Upsert, Skip, Reject, Read, Hold, Nexts
    <2>5. QED
      BY <1>1, <2>1, <2>2, <2>3, <2>4 DEF Elsewhere, Walks
  <1>4. CASE FindActive(r) \/ Revoke(r) \/ Disconnect(r) \/ UpdateSettings(r)
    <2>1. pc[r] \notin Ended /\ Kind(r) \notin IntakeKinds
      BY <1>2, <1>4, Zenon DEF FindActive, Revoke, Disconnect, UpdateSettings, At, Ended, IntakeKinds, Handled
    <2>2. /\ DOMAIN pc' = Req /\ \A q \in Req \ {r} : pc'[q] = pc[q]
          /\ pc'[r] \notin IntakeSteps \cup {"free"}
      BY <1>1, <1>4, Zenon DEF FindActive, Revoke, Disconnect, UpdateSettings, Skip, Reject, Read, Go, IntakeSteps, Nexts
    <2>3. faults' \in {faults, faults + 1} /\ UNCHANGED <<area, job, met>>
      BY <1>1, <1>4, Zenon DEF FindActive, Revoke, Disconnect, UpdateSettings, Skip, Reject, Read, Same
    <2>4. /\ DOMAIN mem' = Req /\ \A q \in Req \ {r} : mem'[q] = mem[q]
          /\ DOMAIN mem'[r] = DOMAIN NoMem /\ mem'[r].next \in Nexts
      BY <1>1, <1>4, NoMemFields, Zenon DEF FindActive, Revoke, Disconnect, UpdateSettings, Skip, Reject, Read, Hold,
         Nexts
    <2>5. QED
      BY <1>1, <2>1, <2>2, <2>3, <2>4 DEF Elsewhere, Walks
  <1>5. CASE Refresh(r) \/ KeepToken(r)
    <2>1. pc[r] \notin Ended /\ Kind(r) \notin IntakeKinds
      BY <1>2, <1>5 DEF Refresh, KeepToken, At, Ended, IntakeKinds, Handled
    <2>2. /\ DOMAIN pc' = Req /\ \A q \in Req \ {r} : pc'[q] = pc[q]
          /\ pc'[r] \notin IntakeSteps \cup {"free"}
      BY <1>1, <1>5 DEF Refresh, KeepToken, Skip, Read, AfterSend, SyncEnd, Go, IntakeSteps, Nexts
    <2>3. faults' \in {faults, faults + 1} /\ UNCHANGED <<area, job, met>>
      BY <1>1, <1>5 DEF Refresh, KeepToken, Skip, Read, AfterSend, SyncEnd, Same
    <2>4. /\ DOMAIN mem' = Req /\ \A q \in Req \ {r} : mem'[q] = mem[q]
          /\ DOMAIN mem'[r] = DOMAIN NoMem /\ mem'[r].next \in Nexts
      BY <1>1, <1>5, NoMemFields DEF Refresh, KeepToken, Skip, Read, AfterSend, SyncEnd, Hold, Nexts
    <2>5. QED
      BY <1>1, <2>1, <2>2, <2>3, <2>4 DEF Elsewhere, Walks
  <1>6. CASE SyncStart(r) \/ PollStart(r) \/ PollNext(r) \/ Mark(r)
    <2>1. pc[r] \notin Ended /\ Kind(r) \notin IntakeKinds
      BY <1>2, <1>6, Zenon DEF SyncStart, PollStart, PollNext, Mark, At, Ended, IntakeKinds, Handled
    <2>2. /\ DOMAIN pc' = Req /\ \A q \in Req \ {r} : pc'[q] = pc[q]
          /\ pc'[r] \notin IntakeSteps \cup {"free"}
      BY <1>1, <1>6, Zenon DEF SyncStart, PollStart, PollNext, Mark, Skip, Reject, Read, Go, IntakeSteps, Nexts
    <2>3. faults' \in {faults, faults + 1} /\ UNCHANGED <<area, job, met>>
      BY <1>1, <1>6, Zenon DEF SyncStart, PollStart, PollNext, Mark, Skip, Reject, Read, Same
    <2>4. /\ DOMAIN mem' = Req /\ \A q \in Req \ {r} : mem'[q] = mem[q]
          /\ DOMAIN mem'[r] = DOMAIN NoMem /\ mem'[r].next \in Nexts
      BY <1>1, <1>6, NoMemFields, ZenonT(60) DEF SyncStart, PollStart, PollNext, Mark, Skip, Reject, Read, Hold, Nexts
    <2>5. QED
      BY <1>1, <2>1, <2>2, <2>3, <2>4 DEF Elsewhere, Walks
  <1>7. CASE ListNew(r) \/ NextMail(r) \/ Record(r) \/ Profile(r) \/ Checkpoint(r)
    <2>1. pc[r] \notin Ended /\ Kind(r) \notin IntakeKinds
      BY <1>2, <1>7, Zenon DEF ListNew, NextMail, Record, Profile, Checkpoint, At, Ended, IntakeKinds, Handled
    <2>2. /\ DOMAIN pc' = Req /\ \A q \in Req \ {r} : pc'[q] = pc[q]
          /\ pc'[r] \notin IntakeSteps \cup {"free"}
      BY <1>1, <1>7, Zenon DEF ListNew, NextMail, Record, Profile, Checkpoint, Skip, Read, Go, IntakeSteps, Nexts
    <2>3. faults' \in {faults, faults + 1} /\ UNCHANGED <<area, job, met>>
      BY <1>1, <1>7, Zenon DEF ListNew, NextMail, Record, Profile, Checkpoint, Skip, Read, Same
    <2>4. /\ DOMAIN mem' = Req /\ \A q \in Req \ {r} : mem'[q] = mem[q]
          /\ DOMAIN mem'[r] = DOMAIN NoMem /\ mem'[r].next \in Nexts
      BY <1>1, <1>7, NoMemFields, Zenon DEF ListNew, NextMail, Record, Profile, Checkpoint, Skip, Read, Hold, Nexts
    <2>5. QED
      BY <1>1, <2>1, <2>2, <2>3, <2>4 DEF Elsewhere, Walks
  <1>8. CASE Match(r) \/ Append(r) \/ Sender(r) \/ OpenTicket(r) \/ FilesOf(r)
    <2>1. pc[r] \notin Ended /\ Kind(r) \notin IntakeKinds
      BY <1>2, <1>8 DEF Match, Append, Sender, OpenTicket, FilesOf, At, Ended, IntakeKinds, Handled
    <2>2. /\ DOMAIN pc' = Req /\ \A q \in Req \ {r} : pc'[q] = pc[q]
          /\ pc'[r] \notin IntakeSteps \cup {"free"}
      BY <1>1, <1>8 DEF Match, Append, Sender, OpenTicket, FilesOf, Skip, Read, Go, IntakeSteps, Nexts
    <2>3. faults' \in {faults, faults + 1} /\ UNCHANGED <<area, job, met>>
      BY <1>1, <1>8 DEF Match, Append, Sender, OpenTicket, FilesOf, Skip, Read, Same
    <2>4. /\ DOMAIN mem' = Req /\ \A q \in Req \ {r} : mem'[q] = mem[q]
          /\ DOMAIN mem'[r] = DOMAIN NoMem /\ mem'[r].next \in Nexts
      BY <1>1, <1>8, NoMemFields DEF Match, Append, Sender, OpenTicket, FilesOf, Skip, Read, Hold, Nexts
    <2>5. QED
      BY <1>1, <2>1, <2>2, <2>3, <2>4 DEF Elsewhere, Walks
  <1>9. CASE ReplyRead(r) \/ NewToken(r)
    <2>1. pc[r] \notin Ended /\ Kind(r) \notin IntakeKinds
      BY <1>2, <1>9, Zenon DEF ReplyRead, NewToken, At, Ended, IntakeKinds, Handled
    <2>2. /\ DOMAIN pc' = Req /\ \A q \in Req \ {r} : pc'[q] = pc[q]
          /\ pc'[r] \notin IntakeSteps \cup {"free"}
      BY <1>1, <1>9, Zenon DEF ReplyRead, NewToken, Skip, Read, Go, IntakeSteps, Nexts
    <2>3. faults' \in {faults, faults + 1} /\ UNCHANGED <<area, job, met>>
      BY <1>1, <1>9, Zenon DEF ReplyRead, NewToken, Skip, Read, Same
    <2>4. /\ DOMAIN mem' = Req /\ \A q \in Req \ {r} : mem'[q] = mem[q]
          /\ DOMAIN mem'[r] = DOMAIN NoMem /\ mem'[r].next \in Nexts
      BY <1>1, <1>9, NoMemFields, Zenon DEF ReplyRead, NewToken, Skip, Read, Hold, Nexts
    <2>5. QED
      BY <1>1, <2>1, <2>2, <2>3, <2>4 DEF Elsewhere, Walks
  <1>10. CASE Ensure(r)
    <2>1. pc[r] \notin Ended /\ Kind(r) \notin IntakeKinds
      BY <1>2, <1>10 DEF Ensure, At, Ended, IntakeKinds, Handled
    <2>2. /\ DOMAIN pc' = Req /\ \A q \in Req \ {r} : pc'[q] = pc[q]
          /\ pc'[r] \notin IntakeSteps \cup {"free"}
      BY <1>1, <1>10 DEF Ensure, Fresh, Skip, Read, Go, Go, IntakeSteps, Nexts
    <2>3. faults' \in {faults, faults + 1} /\ UNCHANGED <<area, job, met>>
      BY <1>1, <1>10 DEF Ensure, Fresh, Skip, Read, Go, Same
    <2>4. /\ DOMAIN mem' = Req /\ \A q \in Req \ {r} : mem'[q] = mem[q]
          /\ DOMAIN mem'[r] = DOMAIN NoMem /\ mem'[r].next \in Nexts
      BY <1>1, <1>10, NoMemFields DEF Ensure, Fresh, Skip, Read, Go, Hold, Nexts
    <2>5. QED
      BY <1>1, <2>1, <2>2, <2>3, <2>4 DEF Elsewhere, Walks
  <1>11. CASE SendReply(r) \/ Adopt(r)
    <2>1. pc[r] \notin Ended /\ Kind(r) \notin IntakeKinds
      BY <1>2, <1>11 DEF SendReply, Adopt, At, Ended, IntakeKinds, Handled
    <2>2. /\ DOMAIN pc' = Req /\ \A q \in Req \ {r} : pc'[q] = pc[q]
          /\ pc'[r] \notin IntakeSteps \cup {"free"}
      BY <1>1, <1>11 DEF SendReply, Adopt, AfterSend, Read, Go, IntakeSteps, Nexts
    <2>3. faults' \in {faults, faults + 1} /\ UNCHANGED <<area, job, met>>
      BY <1>1, <1>11 DEF SendReply, Adopt, AfterSend, Read, Same
    <2>4. /\ DOMAIN mem' = Req /\ \A q \in Req \ {r} : mem'[q] = mem[q]
          /\ DOMAIN mem'[r] = DOMAIN NoMem /\ mem'[r].next \in Nexts
      BY <1>1, <1>11, NoMemFields DEF SendReply, Adopt, AfterSend, Read, Hold, Nexts
    <2>5. QED
      BY <1>1, <2>1, <2>2, <2>3, <2>4 DEF Elsewhere, Walks
  <1>12. QED
    BY <1>3, <1>4, <1>5, <1>6, <1>7, <1>8, <1>9, <1>10, <1>11 DEF InboxStep

\* The steps of the chat.
LEMMA TalkStepsElsewhere ==
    ASSUME CoreInv, NEW r \in Req, TalkStep(r)
    PROVE  Elsewhere(r)
  <1>1. /\ DOMAIN mem[r] = DOMAIN NoMem /\ mem[r].next \in Nexts /\ faults \in Nat
        /\ DOMAIN pc = Req /\ DOMAIN mem = Req
    BY DEF CoreInv, ProcessType
  <1>2. \/ pc[r] \in Ended \cup {"start"} \/ <<Kind(r), pc[r]>> \in Handled
        \/ Kind(r) \notin IntakeKinds /\ pc[r] \notin IntakeSteps
    BY DEF CoreInv, OnItsWay
  <1>3. CASE OpenPanel(r) \/ ClosePanel(r) \/ GetConversation(r)
    <2>1. pc[r] \notin Ended /\ Kind(r) \notin IntakeKinds
      BY <1>2, <1>3 DEF OpenPanel, ClosePanel, GetConversation, At, Ended, IntakeKinds, Handled
    <2>2. /\ DOMAIN pc' = Req /\ \A q \in Req \ {r} : pc'[q] = pc[q]
          /\ pc'[r] \notin IntakeSteps \cup {"free"}
      BY <1>1, <1>3 DEF OpenPanel, ClosePanel, GetConversation, Move, Step, Go, IntakeSteps, Nexts
    <2>3. faults' \in {faults, faults + 1} /\ UNCHANGED <<area, job, met>>
      BY <1>1, <1>3 DEF OpenPanel, ClosePanel, GetConversation, Move, Step, Same
    <2>4. /\ DOMAIN mem' = Req /\ \A q \in Req \ {r} : mem'[q] = mem[q]
          /\ DOMAIN mem'[r] = DOMAIN NoMem /\ mem'[r].next \in Nexts
      BY <1>1, <1>3, NoMemFields DEF OpenPanel, ClosePanel, GetConversation, Move, Step, Hold, Nexts
    <2>5. QED
      BY <1>1, <2>1, <2>2, <2>3, <2>4 DEF Elsewhere, Walks
  <1>4. CASE StartFresh(r) \/ Begin(r) \/ FindConversation(r) \/ InsertConversation(r) \/ Begun(r)
    <2>1. pc[r] \notin Ended /\ Kind(r) \notin IntakeKinds
      BY <1>2, <1>4 DEF StartFresh, Begin, FindConversation, InsertConversation, Begun, At, Ended, IntakeKinds,
         Handled
    <2>2. /\ DOMAIN pc' = Req /\ \A q \in Req \ {r} : pc'[q] = pc[q]
          /\ pc'[r] \notin IntakeSteps \cup {"free"}
      BY <1>1, <1>4 DEF StartFresh, Begin, FindConversation, InsertConversation, Begun, Move, Step, Go,
         IntakeSteps, Nexts
    <2>3. faults' \in {faults, faults + 1} /\ UNCHANGED <<area, job, met>>
      BY <1>1, <1>4 DEF StartFresh, Begin, FindConversation, InsertConversation, Begun, Move, Step, Same
    <2>4. /\ DOMAIN mem' = Req /\ \A q \in Req \ {r} : mem'[q] = mem[q]
          /\ DOMAIN mem'[r] = DOMAIN NoMem /\ mem'[r].next \in Nexts
      BY <1>1, <1>4, NoMemFields DEF StartFresh, Begin, FindConversation, InsertConversation, Begun, Move, Step,
         Hold, Nexts
    <2>5. QED
      BY <1>1, <2>1, <2>2, <2>3, <2>4 DEF Elsewhere, Walks
  <1>5. CASE SubmitForm(r) \/ Deliver(r) \/ StoreMessage(r)
    <2>1. pc[r] \notin Ended /\ Kind(r) \notin IntakeKinds
      BY <1>2, <1>5 DEF SubmitForm, Deliver, StoreMessage, At, Ended, IntakeKinds, Handled
    <2>2. /\ DOMAIN pc' = Req /\ \A q \in Req \ {r} : pc'[q] = pc[q]
          /\ pc'[r] \notin IntakeSteps \cup {"free"}
      BY <1>1, <1>5 DEF SubmitForm, Deliver, StoreMessage, Move, Step, Go, IntakeSteps, Nexts
    <2>3. faults' \in {faults, faults + 1} /\ UNCHANGED <<area, job, met>>
      BY <1>1, <1>5 DEF SubmitForm, Deliver, StoreMessage, Move, Step, Same
    <2>4. /\ DOMAIN mem' = Req /\ \A q \in Req \ {r} : mem'[q] = mem[q]
          /\ DOMAIN mem'[r] = DOMAIN NoMem /\ mem'[r].next \in Nexts
      BY <1>1, <1>5, NoMemFields, ZenonT(60) DEF SubmitForm, Deliver, StoreMessage, Move, Step, Hold, Nexts
    <2>5. QED
      BY <1>1, <2>1, <2>2, <2>3, <2>4 DEF Elsewhere, Walks
  <1>6. CASE Link(r) \/ Announce(r) \/ Answered(r)
    <2>1. pc[r] \notin Ended /\ Kind(r) \notin IntakeKinds
      BY <1>2, <1>6, Zenon DEF Link, Announce, Answered, At, Ended, IntakeKinds, Handled
    <2>2. /\ DOMAIN pc' = Req /\ \A q \in Req \ {r} : pc'[q] = pc[q]
          /\ pc'[r] \notin IntakeSteps \cup {"free"}
      BY <1>1, <1>6, Zenon DEF Link, Announce, Answered, Move, Step, Go, IntakeSteps, Nexts
    <2>3. faults' \in {faults, faults + 1} /\ UNCHANGED <<area, job, met>>
      BY <1>1, <1>6, Zenon DEF Link, Announce, Answered, Move, Step, Same
    <2>4. /\ DOMAIN mem' = Req /\ \A q \in Req \ {r} : mem'[q] = mem[q]
          /\ DOMAIN mem'[r] = DOMAIN NoMem /\ mem'[r].next \in Nexts
      BY <1>1, <1>6, NoMemFields, Zenon DEF Link, Announce, Answered, Move, Step, Hold, Nexts
    <2>5. QED
      BY <1>1, <2>1, <2>2, <2>3, <2>4 DEF Elsewhere, Walks
  <1>7. CASE Retry(r) \/ ClickRetry(r) \/ Solve(r)
    <2>1. pc[r] \notin Ended /\ Kind(r) \notin IntakeKinds
      BY <1>2, <1>7 DEF Retry, ClickRetry, Solve, At, Ended, IntakeKinds, Handled
    <2>2. /\ DOMAIN pc' = Req /\ \A q \in Req \ {r} : pc'[q] = pc[q]
          /\ pc'[r] \notin IntakeSteps \cup {"free"}
      BY <1>1, <1>7 DEF Retry, ClickRetry, Solve, Move, Step, Go, IntakeSteps, Nexts
    <2>3. faults' \in {faults, faults + 1} /\ UNCHANGED <<area, job, met>>
      BY <1>1, <1>7 DEF Retry, ClickRetry, Solve, Move, Step, Same
    <2>4. /\ DOMAIN mem' = Req /\ \A q \in Req \ {r} : mem'[q] = mem[q]
          /\ DOMAIN mem'[r] = DOMAIN NoMem /\ mem'[r].next \in Nexts
      BY <1>1, <1>7, NoMemFields DEF Retry, ClickRetry, Solve, Move, Step, Hold, Nexts
    <2>5. QED
      BY <1>1, <2>1, <2>2, <2>3, <2>4 DEF Elsewhere, Walks
  <1>8. CASE UploadFile(r) \/ Count(r) \/ PutFile(r)
    <2>1. pc[r] \notin Ended /\ Kind(r) \notin IntakeKinds
      BY <1>2, <1>8 DEF UploadFile, Count, PutFile, At, Ended, IntakeKinds, Handled
    <2>2. /\ DOMAIN pc' = Req /\ \A q \in Req \ {r} : pc'[q] = pc[q]
          /\ pc'[r] \notin IntakeSteps \cup {"free"}
      BY <1>1, <1>8 DEF UploadFile, Count, PutFile, Move, Step, Go, IntakeSteps, Nexts
    <2>3. faults' \in {faults, faults + 1} /\ UNCHANGED <<area, job, met>>
      BY <1>1, <1>8 DEF UploadFile, Count, PutFile, Move, Step, Same
    <2>4. /\ DOMAIN mem' = Req /\ \A q \in Req \ {r} : mem'[q] = mem[q]
          /\ DOMAIN mem'[r] = DOMAIN NoMem /\ mem'[r].next \in Nexts
      BY <1>1, <1>8, NoMemFields DEF UploadFile, Count, PutFile, Move, Step, Hold, Nexts
    <2>5. QED
      BY <1>1, <2>1, <2>2, <2>3, <2>4 DEF Elsewhere, Walks
  <1>9. CASE FileRow(r) \/ FileView(r) \/ RemoveFile(r)
    <2>1. pc[r] \notin Ended /\ Kind(r) \notin IntakeKinds
      BY <1>2, <1>9 DEF FileRow, FileView, RemoveFile, At, Ended, IntakeKinds, Handled
    <2>2. /\ DOMAIN pc' = Req /\ \A q \in Req \ {r} : pc'[q] = pc[q]
          /\ pc'[r] \notin IntakeSteps \cup {"free"}
      BY <1>1, <1>9 DEF FileRow, FileView, RemoveFile, Move, Step, Go, IntakeSteps, Nexts
    <2>3. faults' \in {faults, faults + 1} /\ UNCHANGED <<area, job, met>>
      BY <1>1, <1>9 DEF FileRow, FileView, RemoveFile, Move, Step, Same
    <2>4. /\ DOMAIN mem' = Req /\ \A q \in Req \ {r} : mem'[q] = mem[q]
          /\ DOMAIN mem'[r] = DOMAIN NoMem /\ mem'[r].next \in Nexts
      BY <1>1, <1>9, NoMemFields DEF FileRow, FileView, RemoveFile, Move, Step, Hold, Nexts
    <2>5. QED
      BY <1>1, <2>1, <2>2, <2>3, <2>4 DEF Elsewhere, Walks
  <1>10. CASE SweepStart(r) \/ Unstore(r) \/ Unrow(r) \/ NextFile(r)
    <2>1. pc[r] \notin Ended /\ Kind(r) \notin IntakeKinds
      BY <1>2, <1>10, Zenon DEF SweepStart, Unstore, Unrow, NextFile, At, Ended, IntakeKinds, Handled
    <2>2. /\ DOMAIN pc' = Req /\ \A q \in Req \ {r} : pc'[q] = pc[q]
          /\ pc'[r] \notin IntakeSteps \cup {"free"}
      BY <1>1, <1>10, Zenon DEF SweepStart, Unstore, Unrow, NextFile, Move, Step, Go, IntakeSteps, Nexts
    <2>3. faults' \in {faults, faults + 1} /\ UNCHANGED <<area, job, met>>
      BY <1>1, <1>10, Zenon DEF SweepStart, Unstore, Unrow, NextFile, Move, Step, Same
    <2>4. /\ DOMAIN mem' = Req /\ \A q \in Req \ {r} : mem'[q] = mem[q]
          /\ DOMAIN mem'[r] = DOMAIN NoMem /\ mem'[r].next \in Nexts
      BY <1>1, <1>10, NoMemFields, Zenon DEF SweepStart, Unstore, Unrow, NextFile, Move, Step, Hold, Nexts
    <2>5. QED
      BY <1>1, <2>1, <2>2, <2>3, <2>4 DEF Elsewhere, Walks
  <1>11. QED
    BY <1>3, <1>4, <1>5, <1>6, <1>7, <1>8, <1>9, <1>10 DEF TalkStep

\* A set of numbers has a least one.
LEMMA LeastIsThere ==
    ASSUME NEW S, S \subseteq Nat, S # {}
    PROVE  (CHOOSE x \in S : \A y \in S : x <= y) \in S
  <1>1. \E x \in S : \A y \in S : ~ (<<y, x>> \in OpToRel(<, Nat))
    BY WFMin, NatLessThanWellFounded, Zenon
  <1>2. \E x \in S : \A y \in S : ~ (y < x)
    BY <1>1, Zenon DEF OpToRel
  <1>3. \E x \in S : \A y \in S : x <= y
    BY <1>2
  <1>4. QED
    BY <1>3

\* A step of this module's own handlers.
Here(r) ==
    /\ Walks(r) /\ Kind(r) \in IntakeKinds
    /\ pc'[r] \in Ended \cup {"start"} \/ <<Kind(r), pc'[r]>> \in Handled
    /\ Holds(mem'[r])

\* The steps of this module.
LEMMA IntakeStepsHere ==
    ASSUME CoreInv, NEW r \in Req, IntakeStep(r)
    PROVE  Here(r)
  <1>1. /\ DOMAIN mem[r] = DOMAIN NoMem /\ mem[r].next \in Nexts /\ faults \in Nat
        /\ DOMAIN pc = Req /\ DOMAIN mem = Req
        /\ Kind(r) \in IntakeKinds => Holds(mem[r])
        /\ Kind(r) = "import" => Opt(r).rows \subseteq Samples
    <2>1. Kind(r) = "import" => Opt(r).rows \subseteq Samples
      <3>1. SUFFICES ASSUME Kind(r) = "import" PROVE \E a \in Areas : job[r] \in a.jobs
        BY IntakeAssumption DEF Samples, Kind, Opt
      <3>2. QED
        BY <3>1 DEF CoreInv, ProcessType, Kind
    <2>2. QED
      BY <2>1 DEF CoreInv, ProcessType, Nexts, Holds
  <1>2. \/ pc[r] \in Ended \cup {"start"} \/ <<Kind(r), pc[r]>> \in Handled
        \/ Kind(r) \notin IntakeKinds /\ pc[r] \notin IntakeSteps
    BY DEF CoreInv, OnItsWay
  <1>3. CASE BelowLimit(r) \/ CreateForm(r) \/ FindForm(r) \/ UpdateForm(r) \/ RemoveForm(r)
    <2>1. pc[r] \notin Ended /\ Kind(r) \in IntakeKinds
      BY <1>2, <1>3 DEF BelowLimit, CreateForm, FindForm, UpdateForm, RemoveForm, Does, At, Ended, IntakeKinds,
         Handled, IntakeSteps, Answers
    <2>2. DOMAIN pc' = Req /\ \A q \in Req \ {r} : pc'[q] = pc[q]
      BY <1>1, <1>3 DEF BelowLimit, CreateForm, FindForm, UpdateForm, RemoveForm, Does, Move, Step, Go
    <2>3. /\ pc'[r] # "free"
          /\ pc'[r] \in Ended \cup {"start"} \/ <<Kind(r), pc'[r]>> \in Handled
      BY <1>1, <1>2, <1>3 DEF BelowLimit, CreateForm, FindForm, UpdateForm, RemoveForm, Does, Move, Step, At,
         Go, Ended, Handled, IntakeSteps, Answers
    <2>4. faults' \in {faults, faults + 1} /\ UNCHANGED <<area, job, met>>
      BY <1>1, <1>3 DEF BelowLimit, CreateForm, FindForm, UpdateForm, RemoveForm, Does, Move, Step, Same
    <2>5. /\ DOMAIN mem' = Req /\ \A q \in Req \ {r} : mem'[q] = mem[q]
          /\ DOMAIN mem'[r] = DOMAIN NoMem /\ mem'[r].next \in Nexts
      BY <1>1, <1>3, NoMemFields DEF BelowLimit, CreateForm, FindForm, UpdateForm, RemoveForm, Does, Move, Step,
         Hold
    <2>6. Holds(mem'[r])
      BY <1>1, <2>1, <1>3, NoMemFields DEF BelowLimit, CreateForm, FindForm, UpdateForm, RemoveForm, Does, Move,
         Step, Hold, Holds
    <2>7. QED
      BY <1>1, <2>1, <2>2, <2>3, <2>4, <2>5, <2>6 DEF Here, Walks
  <1>4. CASE ReadForm(r) \/ ReadApiCall(r) \/ KnowPerson(r) \/ Block(r) \/ TicketFor(r)
    <2>1. pc[r] \notin Ended /\ Kind(r) \in IntakeKinds
      BY <1>2, <1>4 DEF ReadForm, ReadApiCall, KnowPerson, Block, TicketFor, Does, At, Ended, IntakeKinds,
         Handled, IntakeSteps, Answers
    <2>2. DOMAIN pc' = Req /\ \A q \in Req \ {r} : pc'[q] = pc[q]
      BY <1>1, <1>4 DEF ReadForm, ReadApiCall, KnowPerson, Block, TicketFor, Does, Move, Step, Go
    <2>3. /\ pc'[r] # "free"
          /\ pc'[r] \in Ended \cup {"start"} \/ <<Kind(r), pc'[r]>> \in Handled
      BY <1>1, <1>2, <1>4 DEF ReadForm, ReadApiCall, KnowPerson, Block, TicketFor, Does, Move, Step, At, Go,
         Ended, Handled, IntakeSteps, Answers
    <2>4. faults' \in {faults, faults + 1} /\ UNCHANGED <<area, job, met>>
      BY <1>1, <1>4 DEF ReadForm, ReadApiCall, KnowPerson, Block, TicketFor, Does, Move, Step, Same
    <2>5. /\ DOMAIN mem' = Req /\ \A q \in Req \ {r} : mem'[q] = mem[q]
          /\ DOMAIN mem'[r] = DOMAIN NoMem /\ mem'[r].next \in Nexts
      BY <1>1, <1>4, NoMemFields DEF ReadForm, ReadApiCall, KnowPerson, Block, TicketFor, Does, Move, Step, Hold
    <2>6. Holds(mem'[r])
      BY <1>1, <2>1, <1>4, NoMemFields DEF ReadForm, ReadApiCall, KnowPerson, Block, TicketFor, Does, Move,
         Step, Hold, Holds
    <2>7. QED
      BY <1>1, <2>1, <2>2, <2>3, <2>4, <2>5, <2>6 DEF Here, Walks
  <1>5. CASE Judge(r) \/ JudgeFails(r) \/ SayMessage(r) \/ Replied(r) \/ SendAgain(r)
    <2>1. pc[r] \notin Ended /\ Kind(r) \in IntakeKinds
      BY <1>2, <1>5 DEF Judge, JudgeFails, SayMessage, Replied, SendAgain, Does, At, Ended, IntakeKinds,
         Handled, IntakeSteps, Answers
    <2>2. DOMAIN pc' = Req /\ \A q \in Req \ {r} : pc'[q] = pc[q]
      BY <1>1, <1>5 DEF Judge, JudgeFails, SayMessage, Replied, SendAgain, Does, Move, Step, Go
    <2>3. /\ pc'[r] # "free"
          /\ pc'[r] \in Ended \cup {"start"} \/ <<Kind(r), pc'[r]>> \in Handled
      BY <1>1, <1>2, <1>5 DEF Judge, JudgeFails, SayMessage, Replied, SendAgain, Does, Move, Step, At, Go,
         Ended, Handled, IntakeSteps, Answers
    <2>4. faults' \in {faults, faults + 1} /\ UNCHANGED <<area, job, met>>
      BY <1>1, <1>5 DEF Judge, JudgeFails, SayMessage, Replied, SendAgain, Does, Move, Step, Same
    <2>5. /\ DOMAIN mem' = Req /\ \A q \in Req \ {r} : mem'[q] = mem[q]
          /\ DOMAIN mem'[r] = DOMAIN NoMem /\ mem'[r].next \in Nexts
      BY <1>1, <1>5, NoMemFields DEF Judge, JudgeFails, SayMessage, Replied, SendAgain, Does, Move, Step, Hold
    <2>6. Holds(mem'[r])
      BY <1>1, <2>1, <1>5, NoMemFields DEF Judge, JudgeFails, SayMessage, Replied, SendAgain, Does, Move, Step,
         Hold, Holds
    <2>7. QED
      BY <1>1, <2>1, <2>2, <2>3, <2>4, <2>5, <2>6 DEF Here, Walks
  <1>6. CASE ImportStart(r)
    <2>1. pc[r] \notin Ended /\ Kind(r) \in IntakeKinds
      BY <1>2, <1>6 DEF ImportStart, Does, At, Ended, IntakeKinds, Handled, IntakeSteps, Answers
    <2>2. DOMAIN pc' = Req /\ \A q \in Req \ {r} : pc'[q] = pc[q]
      BY <1>1, <1>6 DEF ImportStart, Does, Move, Step, Go
    <2>3. /\ pc'[r] # "free"
          /\ pc'[r] \in Ended \cup {"start"} \/ <<Kind(r), pc'[r]>> \in Handled
      BY <1>1, <1>2, <1>6 DEF ImportStart, Does, Move, Step, At, Go, Ended, Handled, IntakeSteps, Answers
    <2>4. faults' \in {faults, faults + 1} /\ UNCHANGED <<area, job, met>>
      BY <1>1, <1>6 DEF ImportStart, Does, Move, Step, Same
    <2>5. /\ DOMAIN mem' = Req /\ \A q \in Req \ {r} : mem'[q] = mem[q]
          /\ DOMAIN mem'[r] = DOMAIN NoMem /\ mem'[r].next \in Nexts
      BY <1>1, <1>6, NoMemFields DEF ImportStart, Does, Move, Step, Hold
    <2>6. Holds(mem'[r])
      BY <1>1, <2>1, <1>6, NoMemFields DEF ImportStart, Does, Move, Step, Hold, Holds
    <2>7. QED
      BY <1>1, <2>1, <2>2, <2>3, <2>4, <2>5, <2>6 DEF Here, Walks
  <1>7. CASE FindExisting(r)
    <2>1. pc[r] \notin Ended /\ Kind(r) \in IntakeKinds
      BY <1>2, <1>7 DEF FindExisting, Does, At, Ended, IntakeKinds, Handled, IntakeSteps, Answers
    <2>2. DOMAIN pc' = Req /\ \A q \in Req \ {r} : pc'[q] = pc[q]
      BY <1>1, <1>7 DEF FindExisting, Does, Move, Step, Go
    <2>3. /\ pc'[r] # "free"
          /\ pc'[r] \in Ended \cup {"start"} \/ <<Kind(r), pc'[r]>> \in Handled
      BY <1>1, <1>2, <1>7 DEF FindExisting, Does, Move, Step, At, Go, Ended, Handled, IntakeSteps, Answers
    <2>4. faults' \in {faults, faults + 1} /\ UNCHANGED <<area, job, met>>
      BY <1>1, <1>7 DEF FindExisting, Does, Move, Step, Same
    <2>5. /\ DOMAIN mem' = Req /\ \A q \in Req \ {r} : mem'[q] = mem[q]
          /\ DOMAIN mem'[r] = DOMAIN NoMem /\ mem'[r].next \in Nexts
      BY <1>1, <1>7, NoMemFields DEF FindExisting, Does, Move, Step, Hold
    <2>6. Holds(mem'[r])
      BY <1>1, <1>2, <2>1, <1>7, NoMemFields DEF FindExisting, Does, Move, Step, At, Ended, Handled, Hold, Holds
    <2>7. QED
      BY <1>1, <2>1, <2>2, <2>3, <2>4, <2>5, <2>6 DEF Here, Walks
  <1>8. CASE NextRow(r)
    <2>1. pc[r] \notin Ended /\ Kind(r) \in IntakeKinds
      BY <1>2, <1>8, Zenon DEF NextRow, Does, At, Ended, IntakeKinds, Handled, IntakeSteps, Answers
    <2>2. DOMAIN pc' = Req /\ \A q \in Req \ {r} : pc'[q] = pc[q]
      BY <1>1, <1>8, Zenon DEF NextRow, Does, Move, Step, Go
    <2>3. /\ pc'[r] # "free"
          /\ pc'[r] \in Ended \cup {"start"} \/ <<Kind(r), pc'[r]>> \in Handled
      BY <1>1, <1>2, <1>8, Zenon DEF NextRow, Does, Move, Step, At, Go, Ended, Handled, IntakeSteps, Answers
    <2>4. faults' \in {faults, faults + 1} /\ UNCHANGED <<area, job, met>>
      BY <1>1, <1>8, Zenon DEF NextRow, Does, Move, Step, Same
    <2>5. /\ DOMAIN mem' = Req /\ \A q \in Req \ {r} : mem'[q] = mem[q]
          /\ DOMAIN mem'[r] = DOMAIN NoMem /\ mem'[r].next \in Nexts
      BY <1>1, <1>8, NoMemFields, Zenon DEF NextRow, Does, Move, Step, Hold
    <2>6. Holds(mem'[r])
      <3>1. \/ /\ mem[r].ids # {}
               /\ \E i \in mem[r].ids : mem' = [mem EXCEPT ![r] = [mem[r] EXCEPT !.ids = @ \ {i}, !.m = i]]
            \/ mem' = [mem EXCEPT ![r] = mem[r]]
        BY <1>8, Zenon DEF NextRow, Move, Step, Hold
      <3>2. QED
        BY <3>1, <1>1, <2>1, NoMemFields, ZenonT(60) DEF Holds
    <2>7. QED
      BY <1>1, <2>1, <2>2, <2>3, <2>4, <2>5, <2>6 DEF Here, Walks
  <1>9. CASE ImportRow(r) \/ ImportEnd(r) \/ ImportFails(r)
    <2>1. pc[r] \notin Ended /\ Kind(r) \in IntakeKinds
      BY <1>2, <1>9 DEF ImportRow, ImportEnd, ImportFails, Does, At, Ended, IntakeKinds, Handled, IntakeSteps,
         Answers
    <2>2. DOMAIN pc' = Req /\ \A q \in Req \ {r} : pc'[q] = pc[q]
      BY <1>1, <1>9 DEF ImportRow, ImportEnd, ImportFails, Does, Move, Step, Go
    <2>3. /\ pc'[r] # "free"
          /\ pc'[r] \in Ended \cup {"start"} \/ <<Kind(r), pc'[r]>> \in Handled
      BY <1>1, <1>2, <1>9 DEF ImportRow, ImportEnd, ImportFails, Does, Move, Step, At, Go, Ended, Handled,
         IntakeSteps, Answers
    <2>4. faults' \in {faults, faults + 1} /\ UNCHANGED <<area, job, met>>
      BY <1>1, <1>9 DEF ImportRow, ImportEnd, ImportFails, Does, Move, Step, Same
    <2>5. /\ DOMAIN mem' = Req /\ \A q \in Req \ {r} : mem'[q] = mem[q]
          /\ DOMAIN mem'[r] = DOMAIN NoMem /\ mem'[r].next \in Nexts
      BY <1>1, <1>9, NoMemFields DEF ImportRow, ImportEnd, ImportFails, Does, Move, Step, Hold
    <2>6. Holds(mem'[r])
      BY <1>1, <2>1, <1>9, NoMemFields DEF ImportRow, ImportEnd, ImportFails, Does, Move, Step, Hold, Holds
    <2>7. QED
      BY <1>1, <2>1, <2>2, <2>3, <2>4, <2>5, <2>6 DEF Here, Walks
  <1>10. CASE SeedStatus(r) \/ SeedTicket(r)
    <2>1. pc[r] \notin Ended /\ Kind(r) \in IntakeKinds
      BY <1>2, <1>10 DEF SeedStatus, SeedTicket, Does, At, Ended, IntakeKinds, Handled, IntakeSteps, Answers
    <2>2. DOMAIN pc' = Req /\ \A q \in Req \ {r} : pc'[q] = pc[q]
      BY <1>1, <1>10 DEF SeedStatus, SeedTicket, Does, Move, Step, Go
    <2>3. /\ pc'[r] # "free"
          /\ pc'[r] \in Ended \cup {"start"} \/ <<Kind(r), pc'[r]>> \in Handled
      BY <1>1, <1>2, <1>10 DEF SeedStatus, SeedTicket, Does, Move, Step, At, Go, Ended, Handled, IntakeSteps,
         Answers
    <2>4. faults' \in {faults, faults + 1} /\ UNCHANGED <<area, job, met>>
      BY <1>1, <1>10 DEF SeedStatus, SeedTicket, Does, Move, Step, Same
    <2>5. /\ DOMAIN mem' = Req /\ \A q \in Req \ {r} : mem'[q] = mem[q]
          /\ DOMAIN mem'[r] = DOMAIN NoMem /\ mem'[r].next \in Nexts
      BY <1>1, <1>10, NoMemFields DEF SeedStatus, SeedTicket, Does, Move, Step, Hold
    <2>6. Holds(mem'[r])
      BY <1>1, <2>1, <1>10, NoMemFields DEF SeedStatus, SeedTicket, Does, Move, Step, Hold, Holds
    <2>7. QED
      BY <1>1, <2>1, <2>2, <2>3, <2>4, <2>5, <2>6 DEF Here, Walks
  <1>11. CASE SeedCustomer(r)
    <2>1. pc[r] \notin Ended /\ Kind(r) \in IntakeKinds
      BY <1>2, <1>11 DEF SeedCustomer, Does, At, Ended, IntakeKinds, Handled, IntakeSteps, Answers
    <2>2. DOMAIN pc' = Req /\ \A q \in Req \ {r} : pc'[q] = pc[q]
      BY <1>1, <1>11 DEF SeedCustomer, Does, Move, Step, Go
    <2>3. /\ pc'[r] # "free"
          /\ pc'[r] \in Ended \cup {"start"} \/ <<Kind(r), pc'[r]>> \in Handled
      BY <1>1, <1>2, <1>11 DEF SeedCustomer, Does, Move, Step, At, Go, Ended, Handled, IntakeSteps, Answers
    <2>4. faults' \in {faults, faults + 1} /\ UNCHANGED <<area, job, met>>
      BY <1>1, <1>11 DEF SeedCustomer, Does, Move, Step, Same
    <2>5. /\ DOMAIN mem' = Req /\ \A q \in Req \ {r} : mem'[q] = mem[q]
          /\ DOMAIN mem'[r] = DOMAIN NoMem /\ mem'[r].next \in Nexts
      BY <1>1, <1>11, NoMemFields, ZenonT(60) DEF SeedCustomer, Does, Move, Step, Hold
    <2>6. Holds(mem'[r])
      <3>1. SeedCustomer(r) /\ mem[r].ids # {}
              => (CHOOSE x \in mem[r].ids : \A y \in mem[r].ids : x <= y) \in mem[r].ids
        BY <1>1, <2>1, LeastIsThere, IntakeAssumption DEF Holds, Samples
      <3>2. \/ UNCHANGED mem
            \/ /\ mem[r].ids # {}
               /\ \E i \in mem[r].ids : mem' = [mem EXCEPT ![r] = [mem[r] EXCEPT !.ids = @ \ {i}, !.m = i]]
            \/ mem' = [mem EXCEPT ![r] = mem[r]]
        BY <3>1, <1>11, Zenon DEF SeedCustomer, Does, Move, Step, Hold
      <3>3. QED
        BY <3>2, <1>1, <2>1, NoMemFields, ZenonT(60) DEF Holds
    <2>7. QED
      BY <1>1, <2>1, <2>2, <2>3, <2>4, <2>5, <2>6 DEF Here, Walks
  <1>12. CASE Clear(r) \/ Untag(r)
    <2>1. pc[r] \notin Ended /\ Kind(r) \in IntakeKinds
      BY <1>2, <1>12 DEF Clear, Untag, Does, At, Ended, IntakeKinds, Handled, IntakeSteps, Answers
    <2>2. DOMAIN pc' = Req /\ \A q \in Req \ {r} : pc'[q] = pc[q]
      BY <1>1, <1>12 DEF Clear, Untag, Does, Move, Step, Go
    <2>3. /\ pc'[r] # "free"
          /\ pc'[r] \in Ended \cup {"start"} \/ <<Kind(r), pc'[r]>> \in Handled
      BY <1>1, <1>2, <1>12 DEF Clear, Untag, Does, Move, Step, At, Go, Ended, Handled, IntakeSteps, Answers
    <2>4. faults' \in {faults, faults + 1} /\ UNCHANGED <<area, job, met>>
      BY <1>1, <1>12 DEF Clear, Untag, Does, Move, Step, Same
    <2>5. /\ DOMAIN mem' = Req /\ \A q \in Req \ {r} : mem'[q] = mem[q]
          /\ DOMAIN mem'[r] = DOMAIN NoMem /\ mem'[r].next \in Nexts
      BY <1>1, <1>12, NoMemFields DEF Clear, Untag, Does, Move, Step, Hold
    <2>6. Holds(mem'[r])
      BY <1>1, <2>1, <1>12, NoMemFields DEF Clear, Untag, Does, Move, Step, Hold, Holds
    <2>7. QED
      BY <1>1, <2>1, <2>2, <2>3, <2>4, <2>5, <2>6 DEF Here, Walks
  <1>13. CASE CreateCase(r) \/ DeleteCase(r) \/ EvalStart(r) \/ EvalCases(r) \/ EvalEnd(r)
    <2>1. pc[r] \notin Ended /\ Kind(r) \in IntakeKinds
      BY <1>2, <1>13 DEF CreateCase, DeleteCase, EvalStart, EvalCases, EvalEnd, Does, At, Ended, IntakeKinds,
         Handled, IntakeSteps, Answers
    <2>2. DOMAIN pc' = Req /\ \A q \in Req \ {r} : pc'[q] = pc[q]
      BY <1>1, <1>13 DEF CreateCase, DeleteCase, EvalStart, EvalCases, EvalEnd, Does, Move, Step, Go
    <2>3. /\ pc'[r] # "free"
          /\ pc'[r] \in Ended \cup {"start"} \/ <<Kind(r), pc'[r]>> \in Handled
      BY <1>1, <1>2, <1>13 DEF CreateCase, DeleteCase, EvalStart, EvalCases, EvalEnd, Does, Move, Step, At, Go,
         Ended, Handled, IntakeSteps, Answers
    <2>4. faults' \in {faults, faults + 1} /\ UNCHANGED <<area, job, met>>
      BY <1>1, <1>13 DEF CreateCase, DeleteCase, EvalStart, EvalCases, EvalEnd, Does, Move, Step, Same
    <2>5. /\ DOMAIN mem' = Req /\ \A q \in Req \ {r} : mem'[q] = mem[q]
          /\ DOMAIN mem'[r] = DOMAIN NoMem /\ mem'[r].next \in Nexts
      BY <1>1, <1>13, NoMemFields DEF CreateCase, DeleteCase, EvalStart, EvalCases, EvalEnd, Does, Move, Step, Hold
    <2>6. Holds(mem'[r])
      BY <1>1, <2>1, <1>13, NoMemFields DEF CreateCase, DeleteCase, EvalStart, EvalCases, EvalEnd, Does, Move,
         Step, Hold, Holds
    <2>7. QED
      BY <1>1, <2>1, <2>2, <2>3, <2>4, <2>5, <2>6 DEF Here, Walks
  <1>14. CASE ShopProve(r) \/ ShopUpsert(r) \/ ShopDisconnect(r)
    <2>1. pc[r] \notin Ended /\ Kind(r) \in IntakeKinds
      BY <1>2, <1>14 DEF ShopProve, ShopUpsert, ShopDisconnect, Does, At, Ended, IntakeKinds, Handled,
         IntakeSteps, Answers
    <2>2. DOMAIN pc' = Req /\ \A q \in Req \ {r} : pc'[q] = pc[q]
      BY <1>1, <1>14 DEF ShopProve, ShopUpsert, ShopDisconnect, Does, Move, Step, Go
    <2>3. /\ pc'[r] # "free"
          /\ pc'[r] \in Ended \cup {"start"} \/ <<Kind(r), pc'[r]>> \in Handled
      BY <1>1, <1>2, <1>14 DEF ShopProve, ShopUpsert, ShopDisconnect, Does, Move, Step, At, Go, Ended, Handled,
         IntakeSteps, Answers
    <2>4. faults' \in {faults, faults + 1} /\ UNCHANGED <<area, job, met>>
      BY <1>1, <1>14 DEF ShopProve, ShopUpsert, ShopDisconnect, Does, Move, Step, Same
    <2>5. /\ DOMAIN mem' = Req /\ \A q \in Req \ {r} : mem'[q] = mem[q]
          /\ DOMAIN mem'[r] = DOMAIN NoMem /\ mem'[r].next \in Nexts
      BY <1>1, <1>14, NoMemFields DEF ShopProve, ShopUpsert, ShopDisconnect, Does, Move, Step, Hold
    <2>6. Holds(mem'[r])
      BY <1>1, <2>1, <1>14, NoMemFields DEF ShopProve, ShopUpsert, ShopDisconnect, Does, Move, Step, Hold, Holds
    <2>7. QED
      BY <1>1, <2>1, <2>2, <2>3, <2>4, <2>5, <2>6 DEF Here, Walks
  <1>15. CASE RateRead(r) \/ RateUpsert(r) \/ Reopen(r) \/ Throws(r)
    <2>1. pc[r] \notin Ended /\ Kind(r) \in IntakeKinds
      BY <1>2, <1>15 DEF RateRead, RateUpsert, Reopen, Throws, Does, At, Ended, IntakeKinds, Handled,
         IntakeSteps, Answers
    <2>2. DOMAIN pc' = Req /\ \A q \in Req \ {r} : pc'[q] = pc[q]
      BY <1>1, <1>15 DEF RateRead, RateUpsert, Reopen, Throws, Does, Move, Step, Go
    <2>3. /\ pc'[r] # "free"
          /\ pc'[r] \in Ended \cup {"start"} \/ <<Kind(r), pc'[r]>> \in Handled
      BY <1>1, <1>2, <1>15 DEF RateRead, RateUpsert, Reopen, Throws, Does, Move, Step, At, Go, Ended, Handled,
         IntakeSteps, Answers
    <2>4. faults' \in {faults, faults + 1} /\ UNCHANGED <<area, job, met>>
      BY <1>1, <1>15 DEF RateRead, RateUpsert, Reopen, Throws, Does, Move, Step, Same
    <2>5. /\ DOMAIN mem' = Req /\ \A q \in Req \ {r} : mem'[q] = mem[q]
          /\ DOMAIN mem'[r] = DOMAIN NoMem /\ mem'[r].next \in Nexts
      BY <1>1, <1>15, NoMemFields DEF RateRead, RateUpsert, Reopen, Throws, Does, Move, Step, Hold
    <2>6. Holds(mem'[r])
      BY <1>1, <2>1, <1>15, NoMemFields DEF RateRead, RateUpsert, Reopen, Throws, Does, Move, Step, Hold, Holds
    <2>7. QED
      BY <1>1, <2>1, <2>2, <2>3, <2>4, <2>5, <2>6 DEF Here, Walks
  <1>16. QED
    BY <1>3, <1>4, <1>5, <1>6, <1>7, <1>8, <1>9, <1>10, <1>11, <1>12, <1>13, <1>14, <1>15 DEF IntakeStep

\* A call fails, or a process of the inbox, an upload or a sweep dies.
LEMMA FailuresElsewhere ==
    ASSUME CoreInv, NEW r \in Req, Kind(r) \in Mailing \cup {"upload", "sweep"}, InboxFail(r) \/ Die(r)
    PROVE  Elsewhere(r)
  <1>1. /\ DOMAIN mem[r] = DOMAIN NoMem /\ mem[r].next \in Nexts /\ faults \in Nat
        /\ DOMAIN pc = Req /\ DOMAIN mem = Req
    BY DEF CoreInv, ProcessType
  <1>2. pc[r] \notin Ended /\ Kind(r) \notin IntakeKinds
    BY DEF InboxFail, Die, InFlight, Mailing, IntakeKinds
  <1>3. DOMAIN pc' = Req /\ \A q \in Req \ {r} : pc'[q] = pc[q]
    BY <1>1 DEF InboxFail, Die, Go
  <1>4. pc'[r] \notin IntakeSteps \cup {"free"}
    BY <1>1 DEF InboxFail, Die, Go, AfterSend, SyncEnd, IntakeSteps
  <1>5. faults' = faults + 1 /\ UNCHANGED <<area, job, mem, met>>
    BY DEF InboxFail, Die, history
  <1>6. QED
    BY <1>1, <1>2, <1>3, <1>4, <1>5 DEF Elsewhere, Walks

\* Nobody takes a step.
Still == UNCHANGED <<area, job, pc, mem, met, faults>>

\* What a step of the system is: of the inbox or the chat, a process that comes, of Google or the
\* clock, of this module, or the end of an API process.
LEMMA StepsOf ==
    ASSUME CoreInv, Next
    PROVE  \/ UNCHANGED intake /\ \E r \in Req : Elsewhere(r)
           \/ UNCHANGED intake /\ \E r \in Req : \E j \in area.jobs : Submit(r, j)
           \/ UNCHANGED intake /\ Still
           \/ \E r \in Req : IntakeStep(r) /\ Here(r)
           \/ \E p \in {Main, Other} : Restart(p)
  <1>1. CASE \E r \in Req : IntakeStep(r)
    BY <1>1, IntakeStepsHere
  <1>2. CASE \E p \in {Main, Other} : Restart(p)
    BY <1>2
  <1>3. CASE ChannelsNext /\ UNCHANGED intake
    <2>1. CASE \E r \in Req : InboxStep(r)
      BY <1>3, <2>1, InboxStepsElsewhere
    <2>2. CASE \E r \in Req : Kind(r) \in Mailing /\ InboxFail(r)
      <3>1. PICK r \in Req : Kind(r) \in Mailing /\ InboxFail(r)
        BY <2>2
      <3>2. QED
        BY <1>3, <3>1, FailuresElsewhere
    <2>3. CASE \E r \in Req : Kind(r) \in Mailing \cup {"upload", "sweep"} /\ Die(r)
      <3>1. PICK r \in Req : Kind(r) \in Mailing \cup {"upload", "sweep"} /\ Die(r)
        BY <2>3
      <3>2. QED
        BY <1>3, <3>1, FailuresElsewhere
    <2>4. CASE \E r \in Req : TalkStep(r)
      BY <1>3, <2>4, TalkStepsElsewhere
    <2>5. CASE \E r \in Req : \E j \in area.jobs : Submit(r, j)
      BY <1>3, <2>5
    <2>6. CASE Google
      BY <1>3, <2>6 DEF Google, Arrive, GrowOld, Same, Still
    <2>7. CASE Age
      BY <1>3, <2>7 DEF Age, Same, Still
    <2>8. QED
      BY <1>3, <2>1, <2>2, <2>3, <2>4, <2>5, <2>6, <2>7 DEF ChannelsNext
  <1>4. QED
    BY <1>1, <1>2, <1>3 DEF Next

-----------------------------------------------------------------------------
(* The invariant of the processes *)

\* The invariant of the processes holds at the start.
LEMMA CoreInit == Init => CoreInv
  <1>1. SUFFICES ASSUME Init PROVE CoreInv
    OBVIOUS
  <1>2. ProcessType
    <2>1. /\ area \in Areas /\ faults = 0
          /\ job = [r \in Req |-> [kind |-> "none", on |-> None, opt |-> None]]
          /\ pc = [r \in Req |-> "free"] /\ mem = [r \in Req |-> NoMem]
      BY <1>1 DEF Init, InboxInit
    <2>2. NoMem.next \in Nexts
      BY DEF NoMem, Nexts
    <2>3. "none" \notin IntakeKinds
      BY DEF IntakeKinds
    <2>4. QED
      BY <2>1, <2>2, <2>3 DEF ProcessType, Kind
  <1>3. OnItsWay
    BY <1>1 DEF Init, InboxInit, OnItsWay, Ended
  <1>4. Sequential
    BY <1>1 DEF Init, InboxInit, Sequential
  <1>5. QED
    BY <1>2, <1>3, <1>4 DEF CoreInv

\* Every step keeps the invariant of the processes.
LEMMA CoreStep == CoreInv /\ [Next]_vars => CoreInv'
  <1>1. SUFFICES ASSUME CoreInv, [Next]_vars PROVE CoreInv'
    OBVIOUS
  <1>2. ProcessType /\ OnItsWay /\ Sequential
    BY <1>1 DEF CoreInv
  <1>3. ASSUME NEW r \in Req, Walks(r), OnItsWay',
               Kind(r) \in IntakeKinds => Holds(mem'[r])
        PROVE  CoreInv'
    <2>1. ProcessType'
      BY <1>2, <1>3 DEF ProcessType, Walks, Kind, Ended
    <2>2. Sequential'
      BY <1>2, <1>3 DEF Sequential, Walks, Ended
    <2>3. QED
      BY <1>3, <2>1, <2>2 DEF CoreInv
  <1>4. CASE \E r \in Req : Elsewhere(r)
    <2>1. PICK r \in Req : Elsewhere(r)
      BY <1>4
    <2>2. OnItsWay'
      BY <1>2, <2>1 DEF OnItsWay, Elsewhere, Walks, Kind
    <2>3. QED
      BY <1>3, <2>1, <2>2 DEF Elsewhere
  <1>5. CASE \E r \in Req : IntakeStep(r) /\ Here(r)
    <2>1. PICK r \in Req : Here(r)
      BY <1>5
    <2>2. OnItsWay'
      BY <1>2, <2>1 DEF OnItsWay, Here, Walks, Kind
    <2>3. QED
      BY <1>3, <2>1, <2>2 DEF Here
  <1>6. CASE \E r \in Req : \E j \in area.jobs : Submit(r, j)
    <2>1. PICK r \in Req, j \in area.jobs : Submit(r, j)
      BY <1>6
    <2>2. /\ pc[r] = "free" /\ \A q \in Req : q < r => pc[q] # "free"
          /\ job' = [job EXCEPT ![r] = j] /\ pc' = [pc EXCEPT ![r] = "start"]
          /\ met' = met \cup {{r, q} : q \in InFlight} /\ UNCHANGED <<area, mem, faults>>
      BY <2>1 DEF Submit, Go
    <2>3. ProcessType'
      BY <1>2, <2>2 DEF ProcessType, Kind, Holds, NoMem
    <2>4. OnItsWay'
      BY <1>2, <2>2 DEF OnItsWay, ProcessType, Kind
    <2>5. Sequential'
      BY <1>2, <2>2, SMTT(60) DEF Sequential, ProcessType, InFlight, Ended
    <2>6. QED
      BY <2>3, <2>4, <2>5 DEF CoreInv
  <1>7. CASE \E p \in {Main, Other} : Restart(p)
    <2>1. PICK p \in {Main, Other} : Restart(p)
      BY <1>7
    <2>2. /\ DOMAIN pc' = Req
          /\ \A r \in Req : pc'[r] = pc[r] \/ (pc[r] \notin Ended /\ pc'[r] = "lost")
          /\ faults' = faults + 1 /\ UNCHANGED <<area, job, mem, met>>
      BY <2>1, <1>2 DEF Restart, InFlight, ProcessType
    <2>3. ProcessType'
      BY <1>2, <2>2 DEF ProcessType, Kind
    <2>4. OnItsWay'
      BY <1>2, <2>2 DEF OnItsWay, Kind, Ended
    <2>5. Sequential'
      BY <1>2, <2>2 DEF Sequential, Ended
    <2>6. QED
      BY <2>3, <2>4, <2>5 DEF CoreInv
  <1>8. CASE Still
    BY <1>8, <1>2 DEF CoreInv, ProcessType, OnItsWay, Sequential, Still, Kind
  <1>9. CASE UNCHANGED vars
    BY <1>8, <1>9 DEF vars, channels, Still
  <1>10. QED
    BY <1>1, <1>4, <1>5, <1>6, <1>7, <1>8, <1>9, StepsOf

\* A step of somebody else, a process that comes, or the end of an API process: what this module's
\* processes hold and what their rows are stays.
Aside ==
    /\ UNCHANGED <<leads, cases, twins, rest>>
    /\ met \subseteq met' /\ faults' \in Nat /\ faults' >= faults
    /\ \A r \in Req :
        \/ pc'[r] = pc[r] /\ mem'[r] = mem[r] /\ job'[r] = job[r]
        \/ pc[r] = "free" /\ pc'[r] = "start" /\ mem'[r] = mem[r]
        \/ pc[r] \notin Ended /\ Kind(r) \in {"import", "eval"} /\ pc'[r] = "lost" /\ faults' > 0 /\ job'[r] = job[r]
        \/ pc[r] \notin Ended /\ Kind(r) \notin IntakeKinds /\ pc'[r] \notin IntakeSteps \cup {"free"} /\ job'[r] = job[r]

\* A step is one of this module, or aside.
LEMMA HereOrAside ==
    ASSUME CoreInv, [Next]_vars
    PROVE  \/ \E r \in Req : IntakeStep(r) /\ Here(r)
           \/ Aside /\ UNCHANGED busy /\ \A r \in Req : Kind(r) \in IntakeKinds => pc'[r] = pc[r]
           \/ Aside /\ \E p \in {Main, Other} : Restart(p)
  <1>1. DOMAIN pc = Req /\ DOMAIN job = Req /\ faults \in Nat
    BY DEF CoreInv, ProcessType
  <1>2. CASE UNCHANGED intake /\ \E r \in Req : Elsewhere(r)
    <2>1. PICK r \in Req : Elsewhere(r)
      BY <1>2
    <2>2. Aside
      BY <1>1, <1>2, <2>1 DEF Elsewhere, Walks, Aside, intake, leads, trials, rest
    <2>3. QED
      BY <1>2, <2>1, <2>2 DEF intake, trials, Elsewhere, Walks
  <1>3. CASE UNCHANGED intake /\ \E r \in Req : \E j \in area.jobs : Submit(r, j)
    <2>1. PICK r \in Req, j \in area.jobs : Submit(r, j)
      BY <1>3
    <2>2. /\ pc[r] = "free" /\ job' = [job EXCEPT ![r] = j] /\ pc' = [pc EXCEPT ![r] = "start"]
          /\ met \subseteq met' /\ UNCHANGED <<mem, faults>>
      BY <2>1 DEF Submit, Go
    <2>3. Aside
      BY <1>1, <1>3, <2>2 DEF Aside, intake, leads, trials, rest
    <2>4. Kind(r) \notin IntakeKinds
      BY <2>2 DEF CoreInv, ProcessType, IntakeKinds
    <2>5. QED
      BY <1>1, <1>3, <2>2, <2>3, <2>4 DEF intake, trials
  <1>4. CASE UNCHANGED intake /\ Still
    BY <1>1, <1>4 DEF Still, Aside, intake, leads, trials, rest
  <1>5. CASE \E p \in {Main, Other} : Restart(p)
    BY <1>1, <1>5 DEF Restart, InFlight, Aside, leads, trials, rest
  <1>6. CASE UNCHANGED vars
    BY <1>4, <1>6 DEF vars, channels, Still
  <1>7. QED
    BY <1>2, <1>3, <1>4, <1>5, <1>6, StepsOf

\* A process at a step of this module is of the kind that goes there.
LEMMA OwnSteps ==
    ASSUME CoreInv, NEW r \in Req, pc[r] \in IntakeSteps
    PROVE  <<Kind(r), pc[r]>> \in Handled /\ Kind(r) \in IntakeKinds /\ pc[r] \notin Ended
  BY DEF CoreInv, OnItsWay, IntakeSteps, Ended, Handled, IntakeKinds

-----------------------------------------------------------------------------
(* What the steps of this module write, and where they lead *)

\* The steps of this module, by what they write and where they lead.
LEMMA Effects ==
    ASSUME CoreInv, NEW r \in Req
    PROVE  /\ BelowLimit(r) => /\ pc[r] \in {"start"} /\ Kind(r) \in {"newForm", "newCase"}
               /\ pc'[r] \in {"addForm", "addCase", "rejected"}
               /\ UNCHANGED <<form, person, got, said, untagged, busy, cases, twins, shop, solved, rating>>
           /\ CreateForm(r) => /\ pc[r] \in {"addForm"} /\ Kind(r) \in {"newForm"}
               /\ pc'[r] \in {"done"}
               /\ UNCHANGED <<person, got, said, untagged, busy, cases, twins, shop, solved, rating>>
           /\ FindForm(r) => /\ pc[r] \in {"start"} /\ Kind(r) \in {"switch"}
               /\ pc'[r] \in {"switchForm", "rejected"}
               /\ UNCHANGED <<form, person, got, said, untagged, busy, cases, twins, shop, solved, rating>>
           /\ UpdateForm(r) => /\ pc[r] \in {"switchForm"} /\ Kind(r) \in {"switch"}
               /\ pc'[r] \in {"done", "failed"}
               /\ UNCHANGED <<person, got, said, untagged, busy, cases, twins, shop, solved, rating>>
           /\ RemoveForm(r) => /\ pc[r] \in {"start"} /\ Kind(r) \in {"dropForm"}
               /\ pc'[r] \in {"done", "rejected"}
               /\ UNCHANGED <<person, got, said, untagged, busy, cases, twins, shop, solved, rating>>
           /\ ReadForm(r) => /\ pc[r] \in {"start"} /\ Kind(r) \in {"answer"}
               /\ pc'[r] \in {"rejected", "done", "person"}
               /\ UNCHANGED <<form, person, got, said, untagged, busy, cases, twins, shop, solved, rating>>
           /\ ReadApiCall(r) => /\ pc[r] \in {"start"} /\ Kind(r) \in {"api"}
               /\ pc'[r] \in {"person"}
               /\ UNCHANGED <<form, person, got, said, untagged, busy, cases, twins, shop, solved, rating>>
           /\ KnowPerson(r) => /\ pc[r] \in {"person"} /\ Kind(r) \in {"answer", "api"}
               /\ pc'[r] \in {"rejected", "ticket"}
               /\ UNCHANGED <<form, got, said, untagged, busy, cases, twins, shop, solved, rating>>
           /\ Block(r) => /\ pc[r] \in {"start"} /\ Kind(r) \in {"block"}
               /\ pc'[r] \in {"done"}
               /\ UNCHANGED <<form, got, said, untagged, busy, cases, twins, shop, solved, rating>>
           /\ TicketFor(r) => /\ pc[r] \in {"ticket"} /\ Kind(r) \in {"answer", "api"}
               /\ pc'[r] \in {"judge", "reply"}
               /\ UNCHANGED <<form, person, said, untagged, busy, cases, twins, shop, solved, rating>>
           /\ Judge(r) => /\ pc[r] \in {"judge"} /\ Kind(r) \in {"answer"}
               /\ pc'[r] \in {"reply"}
               /\ UNCHANGED <<form, person, said, untagged, busy, cases, twins, shop, solved, rating>>
           /\ JudgeFails(r) => /\ pc[r] \in {"judge"} /\ Kind(r) \in {"answer"}
               /\ pc'[r] \in {"reply"}
               /\ UNCHANGED <<form, person, got, said, untagged, busy, cases, twins, shop, solved, rating>>
           /\ SayMessage(r) => /\ pc[r] \in {"start"} /\ Kind(r) \in {"say"}
               /\ pc'[r] \in {"reply"}
               /\ UNCHANGED <<form, person, got, untagged, busy, cases, twins, shop, solved, rating>>
           /\ Replied(r) => /\ pc[r] \in {"reply"} /\ Kind(r) \in {"answer", "api", "say"}
               /\ pc'[r] \in {"done"}
               /\ UNCHANGED <<form, person, got, said, untagged, busy, cases, twins, shop, solved, rating>>
           /\ SendAgain(r) => /\ pc[r] \in {"person", "ticket", "reply"} /\ Kind(r) \in {"answer", "api", "say"}
               /\ pc'[r] \in {"start"}
               /\ UNCHANGED <<form, person, got, said, untagged, busy, cases, twins, shop, solved, rating>>
           /\ ImportStart(r) => /\ pc[r] \in {"start"} /\ Kind(r) \in {"import"}
               /\ pc'[r] \in {"rejected", "known"}
               /\ UNCHANGED <<form, person, got, said, untagged, cases, twins, shop, solved, rating>>
           /\ FindExisting(r) => /\ pc[r] \in {"known"} /\ Kind(r) \in {"import"}
               /\ pc'[r] \in {"nextRow"}
               /\ UNCHANGED <<form, person, got, said, untagged, busy, cases, twins, shop, solved, rating>>
           /\ NextRow(r) => /\ pc[r] \in {"nextRow"} /\ Kind(r) \in {"import"}
               /\ pc'[r] \in {"imported", "importRow"}
               /\ UNCHANGED <<form, got, said, untagged, busy, cases, twins, shop, solved, rating>>
           /\ ImportRow(r) => /\ pc[r] \in {"importRow"} /\ Kind(r) \in {"import"}
               /\ pc'[r] \in {"nextRow"}
               /\ UNCHANGED <<form, person, said, untagged, busy, cases, twins, shop, solved, rating>>
           /\ ImportEnd(r) => /\ pc[r] \in {"imported"} /\ Kind(r) \in {"import"}
               /\ pc'[r] \in {"done"}
               /\ UNCHANGED <<form, person, got, said, untagged, cases, twins, shop, solved, rating>>
           /\ ImportFails(r) => /\ pc[r] \in {"known", "importRow", "imported"} /\ Kind(r) \in {"import"}
               /\ pc'[r] \in {"nextRow", "failed"}
               /\ UNCHANGED <<form, person, got, said, untagged, cases, twins, shop, solved, rating>>
           /\ SeedStatus(r) => /\ pc[r] \in {"start"} /\ Kind(r) \in {"seed"}
               /\ pc'[r] \in {"rejected", "sample"}
               /\ UNCHANGED <<form, person, got, said, untagged, busy, cases, twins, shop, solved, rating>>
           /\ SeedCustomer(r) => /\ pc[r] \in {"sample"} /\ Kind(r) \in {"seed"}
               /\ pc'[r] \in {"done", "sampleTicket"}
               /\ UNCHANGED <<form, got, said, untagged, busy, cases, twins, shop, solved, rating>>
           /\ SeedTicket(r) => /\ pc[r] \in {"sampleTicket"} /\ Kind(r) \in {"seed"}
               /\ pc'[r] \in {"failed", "sample"}
               /\ UNCHANGED <<form, person, said, untagged, busy, cases, twins, shop, solved, rating>>
           /\ Clear(r) => /\ pc[r] \in {"start"} /\ Kind(r) \in {"clear"}
               /\ pc'[r] \in {"done"}
               /\ UNCHANGED <<form, said, untagged, busy, cases, twins, shop, solved, rating>>
           /\ Untag(r) => /\ pc[r] \in {"start"} /\ Kind(r) \in {"untag"}
               /\ pc'[r] \in {"done"}
               /\ UNCHANGED <<form, person, said, busy, cases, twins, shop, solved, rating>>
           /\ CreateCase(r) => /\ pc[r] \in {"addCase"} /\ Kind(r) \in {"newCase"}
               /\ pc'[r] \in {"done"}
               /\ UNCHANGED <<form, person, got, said, untagged, busy, twins, shop, solved, rating>>
           /\ DeleteCase(r) => /\ pc[r] \in {"start"} /\ Kind(r) \in {"dropCase"}
               /\ pc'[r] \in {"rejected", "done"}
               /\ UNCHANGED <<form, person, got, said, untagged, busy, twins, shop, solved, rating>>
           /\ EvalStart(r) => /\ pc[r] \in {"start"} /\ Kind(r) \in {"eval"}
               /\ pc'[r] \in {"rejected", "cases"}
               /\ UNCHANGED <<form, person, got, said, untagged, busy, cases, shop, solved, rating>>
           /\ EvalCases(r) => /\ pc[r] \in {"cases"} /\ Kind(r) \in {"eval"}
               /\ pc'[r] \in {"rejected", "asking"}
               /\ UNCHANGED <<form, person, got, said, untagged, cases, twins, shop, solved, rating>>
           /\ EvalEnd(r) => /\ pc[r] \in {"asking"} /\ Kind(r) \in {"eval"}
               /\ pc'[r] \in {"done"}
               /\ UNCHANGED <<form, person, got, said, untagged, cases, twins, shop, solved, rating>>
           /\ ShopProve(r) => /\ pc[r] \in {"start"} /\ Kind(r) \in {"connectShop"}
               /\ pc'[r] \in {"storeShop", "rejected"}
               /\ UNCHANGED <<form, person, got, said, untagged, busy, cases, twins, shop, solved, rating>>
           /\ ShopUpsert(r) => /\ pc[r] \in {"storeShop"} /\ Kind(r) \in {"connectShop"}
               /\ pc'[r] \in {"done"}
               /\ UNCHANGED <<form, person, got, said, untagged, busy, cases, twins, solved, rating>>
           /\ ShopDisconnect(r) => /\ pc[r] \in {"start"} /\ Kind(r) \in {"disconnectShop"}
               /\ pc'[r] \in {"rejected", "done"}
               /\ UNCHANGED <<form, person, got, said, untagged, busy, cases, twins, solved, rating>>
           /\ RateRead(r) => /\ pc[r] \in {"start"} /\ Kind(r) \in {"rate"}
               /\ pc'[r] \in {"rating", "rejected"}
               /\ UNCHANGED <<form, person, got, said, untagged, busy, cases, twins, shop, solved, rating>>
           /\ RateUpsert(r) => /\ pc[r] \in {"rating"} /\ Kind(r) \in {"rate"}
               /\ pc'[r] \in {"done"}
               /\ UNCHANGED <<form, person, got, said, untagged, busy, cases, twins, shop, solved>>
           /\ Reopen(r) => /\ pc[r] \in {"start"} /\ Kind(r) \in {"reopen"}
               /\ pc'[r] \in {"done"}
               /\ UNCHANGED <<form, person, got, said, untagged, busy, cases, twins, shop, rating>>
           /\ Throws(r) => /\ pc[r] \in {"addForm", "switchForm", "addCase", "sample", "sampleTicket", "storeShop",
                                          "rating", "cases"}
               /\ Kind(r) \in {"newForm", "switch", "newCase", "seed", "connectShop", "rate", "eval"}
               /\ pc'[r] \in {"failed"}
               /\ UNCHANGED <<form, person, got, said, untagged, busy, cases, twins, shop, solved, rating>>

  <1>1. DOMAIN pc = Req /\ (pc[r] \in IntakeSteps => <<Kind(r), pc[r]>> \in Handled)
    BY OwnSteps DEF CoreInv, ProcessType
  <1>2. BelowLimit(r) => /\ pc[r] \in {"start"} /\ Kind(r) \in {"newForm", "newCase"}
             /\ pc'[r] \in {"addForm", "addCase", "rejected"}
             /\ UNCHANGED <<form, person, got, said, untagged, busy, cases, twins, shop, solved, rating>>
    BY <1>1 DEF BelowLimit, At, IntakeSteps, Handled, Answers, Does, Move, Step, Go, intake, leads, trials, rest
  <1>3. CreateForm(r) => /\ pc[r] \in {"addForm"} /\ Kind(r) \in {"newForm"}
             /\ pc'[r] \in {"done"}
             /\ UNCHANGED <<person, got, said, untagged, busy, cases, twins, shop, solved, rating>>
    BY <1>1 DEF CreateForm, At, IntakeSteps, Handled, Answers, Does, Move, Step, Go, intake, leads, trials, rest
  <1>4. FindForm(r) => /\ pc[r] \in {"start"} /\ Kind(r) \in {"switch"}
             /\ pc'[r] \in {"switchForm", "rejected"}
             /\ UNCHANGED <<form, person, got, said, untagged, busy, cases, twins, shop, solved, rating>>
    BY <1>1 DEF FindForm, At, IntakeSteps, Handled, Answers, Does, Move, Step, Go, intake, leads, trials, rest
  <1>5. UpdateForm(r) => /\ pc[r] \in {"switchForm"} /\ Kind(r) \in {"switch"}
             /\ pc'[r] \in {"done", "failed"}
             /\ UNCHANGED <<person, got, said, untagged, busy, cases, twins, shop, solved, rating>>
    BY <1>1 DEF UpdateForm, At, IntakeSteps, Handled, Answers, Does, Move, Step, Go, intake, leads, trials, rest
  <1>6. RemoveForm(r) => /\ pc[r] \in {"start"} /\ Kind(r) \in {"dropForm"}
             /\ pc'[r] \in {"done", "rejected"}
             /\ UNCHANGED <<person, got, said, untagged, busy, cases, twins, shop, solved, rating>>
    BY <1>1 DEF RemoveForm, At, IntakeSteps, Handled, Answers, Does, Move, Step, Go, intake, leads, trials, rest
  <1>7. ReadForm(r) => /\ pc[r] \in {"start"} /\ Kind(r) \in {"answer"}
             /\ pc'[r] \in {"rejected", "done", "person"}
             /\ UNCHANGED <<form, person, got, said, untagged, busy, cases, twins, shop, solved, rating>>
    BY <1>1 DEF ReadForm, At, IntakeSteps, Handled, Answers, Does, Move, Step, Go, intake, leads, trials, rest
  <1>8. ReadApiCall(r) => /\ pc[r] \in {"start"} /\ Kind(r) \in {"api"}
             /\ pc'[r] \in {"person"}
             /\ UNCHANGED <<form, person, got, said, untagged, busy, cases, twins, shop, solved, rating>>
    BY <1>1 DEF ReadApiCall, At, IntakeSteps, Handled, Answers, Does, Move, Step, Go, intake, leads, trials, rest
  <1>9. KnowPerson(r) => /\ pc[r] \in {"person"} /\ Kind(r) \in {"answer", "api"}
             /\ pc'[r] \in {"rejected", "ticket"}
             /\ UNCHANGED <<form, got, said, untagged, busy, cases, twins, shop, solved, rating>>
    BY <1>1 DEF KnowPerson, At, IntakeSteps, Handled, Answers, Does, Move, Step, Go, intake, leads, trials, rest
  <1>10. Block(r) => /\ pc[r] \in {"start"} /\ Kind(r) \in {"block"}
             /\ pc'[r] \in {"done"}
             /\ UNCHANGED <<form, got, said, untagged, busy, cases, twins, shop, solved, rating>>
    BY <1>1 DEF Block, At, IntakeSteps, Handled, Answers, Does, Move, Step, Go, intake, leads, trials, rest
  <1>11. TicketFor(r) => /\ pc[r] \in {"ticket"} /\ Kind(r) \in {"answer", "api"}
             /\ pc'[r] \in {"judge", "reply"}
             /\ UNCHANGED <<form, person, said, untagged, busy, cases, twins, shop, solved, rating>>
    BY <1>1 DEF TicketFor, At, IntakeSteps, Handled, Answers, Does, Move, Step, Go, intake, leads, trials, rest
  <1>12. Judge(r) => /\ pc[r] \in {"judge"} /\ Kind(r) \in {"answer"}
             /\ pc'[r] \in {"reply"}
             /\ UNCHANGED <<form, person, said, untagged, busy, cases, twins, shop, solved, rating>>
    BY <1>1 DEF Judge, At, IntakeSteps, Handled, Answers, Does, Move, Step, Go, intake, leads, trials, rest
  <1>13. JudgeFails(r) => /\ pc[r] \in {"judge"} /\ Kind(r) \in {"answer"}
             /\ pc'[r] \in {"reply"}
             /\ UNCHANGED <<form, person, got, said, untagged, busy, cases, twins, shop, solved, rating>>
    BY <1>1 DEF JudgeFails, At, IntakeSteps, Handled, Answers, Does, Move, Step, Go, intake, leads, trials, rest
  <1>14. SayMessage(r) => /\ pc[r] \in {"start"} /\ Kind(r) \in {"say"}
             /\ pc'[r] \in {"reply"}
             /\ UNCHANGED <<form, person, got, untagged, busy, cases, twins, shop, solved, rating>>
    BY <1>1 DEF SayMessage, At, IntakeSteps, Handled, Answers, Does, Move, Step, Go, intake, leads, trials, rest
  <1>15. Replied(r) => /\ pc[r] \in {"reply"} /\ Kind(r) \in {"answer", "api", "say"}
             /\ pc'[r] \in {"done"}
             /\ UNCHANGED <<form, person, got, said, untagged, busy, cases, twins, shop, solved, rating>>
    BY <1>1 DEF Replied, At, IntakeSteps, Handled, Answers, Does, Move, Step, Go, intake, leads, trials, rest
  <1>16. SendAgain(r) => /\ pc[r] \in {"person", "ticket", "reply"} /\ Kind(r) \in {"answer", "api", "say"}
             /\ pc'[r] \in {"start"}
             /\ UNCHANGED <<form, person, got, said, untagged, busy, cases, twins, shop, solved, rating>>
    BY <1>1 DEF SendAgain, At, IntakeSteps, Handled, Answers, Does, Move, Step, Go, intake, leads, trials, rest
  <1>17. ImportStart(r) => /\ pc[r] \in {"start"} /\ Kind(r) \in {"import"}
             /\ pc'[r] \in {"rejected", "known"}
             /\ UNCHANGED <<form, person, got, said, untagged, cases, twins, shop, solved, rating>>
    BY <1>1 DEF ImportStart, At, IntakeSteps, Handled, Answers, Does, Move, Step, Go, intake, leads, trials, rest
  <1>18. FindExisting(r) => /\ pc[r] \in {"known"} /\ Kind(r) \in {"import"}
             /\ pc'[r] \in {"nextRow"}
             /\ UNCHANGED <<form, person, got, said, untagged, busy, cases, twins, shop, solved, rating>>
    BY <1>1 DEF FindExisting, At, IntakeSteps, Handled, Answers, Does, Move, Step, Go, intake, leads, trials, rest
  <1>19. NextRow(r) => /\ pc[r] \in {"nextRow"} /\ Kind(r) \in {"import"}
             /\ pc'[r] \in {"imported", "importRow"}
             /\ UNCHANGED <<form, got, said, untagged, busy, cases, twins, shop, solved, rating>>
    BY <1>1, Zenon DEF NextRow, At, IntakeSteps, Handled, Answers, Does, Move, Step, Go, intake, leads, trials, rest
  <1>20. ImportRow(r) => /\ pc[r] \in {"importRow"} /\ Kind(r) \in {"import"}
             /\ pc'[r] \in {"nextRow"}
             /\ UNCHANGED <<form, person, said, untagged, busy, cases, twins, shop, solved, rating>>
    BY <1>1 DEF ImportRow, At, IntakeSteps, Handled, Answers, Does, Move, Step, Go, intake, leads, trials, rest
  <1>21. ImportEnd(r) => /\ pc[r] \in {"imported"} /\ Kind(r) \in {"import"}
             /\ pc'[r] \in {"done"}
             /\ UNCHANGED <<form, person, got, said, untagged, cases, twins, shop, solved, rating>>
    BY <1>1 DEF ImportEnd, At, IntakeSteps, Handled, Answers, Does, Move, Step, Go, intake, leads, trials, rest
  <1>22. ImportFails(r) => /\ pc[r] \in {"known", "importRow", "imported"} /\ Kind(r) \in {"import"}
             /\ pc'[r] \in {"nextRow", "failed"}
             /\ UNCHANGED <<form, person, got, said, untagged, cases, twins, shop, solved, rating>>
    BY <1>1 DEF ImportFails, At, IntakeSteps, Handled, Answers, Does, Move, Step, Go, intake, leads, trials, rest
  <1>23. SeedStatus(r) => /\ pc[r] \in {"start"} /\ Kind(r) \in {"seed"}
             /\ pc'[r] \in {"rejected", "sample"}
             /\ UNCHANGED <<form, person, got, said, untagged, busy, cases, twins, shop, solved, rating>>
    BY <1>1 DEF SeedStatus, At, IntakeSteps, Handled, Answers, Does, Move, Step, Go, intake, leads, trials, rest
  <1>24. SeedCustomer(r) => /\ pc[r] \in {"sample"} /\ Kind(r) \in {"seed"}
             /\ pc'[r] \in {"done", "sampleTicket"}
             /\ UNCHANGED <<form, got, said, untagged, busy, cases, twins, shop, solved, rating>>
    BY <1>1 DEF SeedCustomer, At, IntakeSteps, Handled, Answers, Does, Move, Step, Go, intake, leads, trials, rest
  <1>25. SeedTicket(r) => /\ pc[r] \in {"sampleTicket"} /\ Kind(r) \in {"seed"}
             /\ pc'[r] \in {"failed", "sample"}
             /\ UNCHANGED <<form, person, said, untagged, busy, cases, twins, shop, solved, rating>>
    BY <1>1 DEF SeedTicket, At, IntakeSteps, Handled, Answers, Does, Move, Step, Go, intake, leads, trials, rest
  <1>26. Clear(r) => /\ pc[r] \in {"start"} /\ Kind(r) \in {"clear"}
             /\ pc'[r] \in {"done"}
             /\ UNCHANGED <<form, said, untagged, busy, cases, twins, shop, solved, rating>>
    BY <1>1 DEF Clear, At, IntakeSteps, Handled, Answers, Does, Move, Step, Go, intake, leads, trials, rest
  <1>27. Untag(r) => /\ pc[r] \in {"start"} /\ Kind(r) \in {"untag"}
             /\ pc'[r] \in {"done"}
             /\ UNCHANGED <<form, person, said, busy, cases, twins, shop, solved, rating>>
    BY <1>1 DEF Untag, At, IntakeSteps, Handled, Answers, Does, Move, Step, Go, intake, leads, trials, rest
  <1>28. CreateCase(r) => /\ pc[r] \in {"addCase"} /\ Kind(r) \in {"newCase"}
             /\ pc'[r] \in {"done"}
             /\ UNCHANGED <<form, person, got, said, untagged, busy, twins, shop, solved, rating>>
    BY <1>1 DEF CreateCase, At, IntakeSteps, Handled, Answers, Does, Move, Step, Go, intake, leads, trials, rest
  <1>29. DeleteCase(r) => /\ pc[r] \in {"start"} /\ Kind(r) \in {"dropCase"}
             /\ pc'[r] \in {"rejected", "done"}
             /\ UNCHANGED <<form, person, got, said, untagged, busy, twins, shop, solved, rating>>
    BY <1>1 DEF DeleteCase, At, IntakeSteps, Handled, Answers, Does, Move, Step, Go, intake, leads, trials, rest
  <1>30. EvalStart(r) => /\ pc[r] \in {"start"} /\ Kind(r) \in {"eval"}
             /\ pc'[r] \in {"rejected", "cases"}
             /\ UNCHANGED <<form, person, got, said, untagged, busy, cases, shop, solved, rating>>
    BY <1>1 DEF EvalStart, At, IntakeSteps, Handled, Answers, Does, Move, Step, Go, intake, leads, trials, rest
  <1>31. EvalCases(r) => /\ pc[r] \in {"cases"} /\ Kind(r) \in {"eval"}
             /\ pc'[r] \in {"rejected", "asking"}
             /\ UNCHANGED <<form, person, got, said, untagged, cases, twins, shop, solved, rating>>
    BY <1>1 DEF EvalCases, At, IntakeSteps, Handled, Answers, Does, Move, Step, Go, intake, leads, trials, rest
  <1>32. EvalEnd(r) => /\ pc[r] \in {"asking"} /\ Kind(r) \in {"eval"}
             /\ pc'[r] \in {"done"}
             /\ UNCHANGED <<form, person, got, said, untagged, cases, twins, shop, solved, rating>>
    BY <1>1 DEF EvalEnd, At, IntakeSteps, Handled, Answers, Does, Move, Step, Go, intake, leads, trials, rest
  <1>33. ShopProve(r) => /\ pc[r] \in {"start"} /\ Kind(r) \in {"connectShop"}
             /\ pc'[r] \in {"storeShop", "rejected"}
             /\ UNCHANGED <<form, person, got, said, untagged, busy, cases, twins, shop, solved, rating>>
    BY <1>1 DEF ShopProve, At, IntakeSteps, Handled, Answers, Does, Move, Step, Go, intake, leads, trials, rest
  <1>34. ShopUpsert(r) => /\ pc[r] \in {"storeShop"} /\ Kind(r) \in {"connectShop"}
             /\ pc'[r] \in {"done"}
             /\ UNCHANGED <<form, person, got, said, untagged, busy, cases, twins, solved, rating>>
    BY <1>1 DEF ShopUpsert, At, IntakeSteps, Handled, Answers, Does, Move, Step, Go, intake, leads, trials, rest
  <1>35. ShopDisconnect(r) => /\ pc[r] \in {"start"} /\ Kind(r) \in {"disconnectShop"}
             /\ pc'[r] \in {"rejected", "done"}
             /\ UNCHANGED <<form, person, got, said, untagged, busy, cases, twins, solved, rating>>
    BY <1>1 DEF ShopDisconnect, At, IntakeSteps, Handled, Answers, Does, Move, Step, Go, intake, leads, trials,
       rest
  <1>36. RateRead(r) => /\ pc[r] \in {"start"} /\ Kind(r) \in {"rate"}
             /\ pc'[r] \in {"rating", "rejected"}
             /\ UNCHANGED <<form, person, got, said, untagged, busy, cases, twins, shop, solved, rating>>
    BY <1>1 DEF RateRead, At, IntakeSteps, Handled, Answers, Does, Move, Step, Go, intake, leads, trials, rest
  <1>37. RateUpsert(r) => /\ pc[r] \in {"rating"} /\ Kind(r) \in {"rate"}
             /\ pc'[r] \in {"done"}
             /\ UNCHANGED <<form, person, got, said, untagged, busy, cases, twins, shop, solved>>
    BY <1>1 DEF RateUpsert, At, IntakeSteps, Handled, Answers, Does, Move, Step, Go, intake, leads, trials, rest
  <1>38. Reopen(r) => /\ pc[r] \in {"start"} /\ Kind(r) \in {"reopen"}
             /\ pc'[r] \in {"done"}
             /\ UNCHANGED <<form, person, got, said, untagged, busy, cases, twins, shop, rating>>
    BY <1>1 DEF Reopen, At, IntakeSteps, Handled, Answers, Does, Move, Step, Go, intake, leads, trials, rest
  <1>39. Throws(r) => /\ pc[r] \in {"addForm", "switchForm", "addCase", "sample", "sampleTicket", "storeShop",
                                          "rating", "cases"}
               /\ Kind(r) \in {"newForm", "switch", "newCase", "seed", "connectShop", "rate", "eval"}
             /\ pc'[r] \in {"failed"}
             /\ UNCHANGED <<form, person, got, said, untagged, busy, cases, twins, shop, solved, rating>>
    BY <1>1 DEF Throws, At, IntakeSteps, Handled, Answers, Does, Move, Step, Go, intake, leads, trials, rest
  <1>40. QED
    BY <1>2, <1>3, <1>4, <1>5, <1>6, <1>7, <1>8, <1>9, <1>10, <1>11, <1>12, <1>13, <1>14, <1>15, <1>16, <1>17,
       <1>18, <1>19, <1>20, <1>21, <1>22, <1>23, <1>24, <1>25, <1>26, <1>27, <1>28, <1>29, <1>30, <1>31, <1>32,
       <1>33, <1>34, <1>35, <1>36, <1>37, <1>38, <1>39

\* Which steps write what.
LEMMA Writers ==
    ASSUME CoreInv, NEW r \in Req, IntakeStep(r)
    PROVE  /\ form' = form \/ CreateForm(r) \/ UpdateForm(r) \/ RemoveForm(r)
           /\ person' = person \/ KnowPerson(r) \/ Block(r) \/ NextRow(r) \/ SeedCustomer(r) \/ Clear(r)
           /\ got' = got \/ TicketFor(r) \/ Judge(r) \/ ImportRow(r) \/ SeedTicket(r) \/ Clear(r) \/ Untag(r)
           /\ said' = said \/ SayMessage(r)
           /\ untagged' = untagged \/ Untag(r)
           /\ busy' = busy \/ ImportStart(r) \/ ImportEnd(r) \/ ImportFails(r) \/ EvalCases(r) \/ EvalEnd(r)
           /\ cases' = cases \/ CreateCase(r) \/ DeleteCase(r)
           /\ twins' = twins \/ EvalStart(r)
           /\ shop' = shop \/ ShopUpsert(r) \/ ShopDisconnect(r)
           /\ solved' = solved \/ Reopen(r)
           /\ rating' = rating \/ RateUpsert(r)
  BY Effects DEF IntakeStep

\* Which steps lead where.
LEMMA Leads ==
    ASSUME CoreInv, NEW r \in Req, IntakeStep(r)
    PROVE  /\ pc'[r] = "addForm" => BelowLimit(r)
           /\ pc'[r] = "addCase" => BelowLimit(r)
           /\ pc'[r] = "switchForm" => FindForm(r)
           /\ pc'[r] = "person" => ReadForm(r) \/ ReadApiCall(r)
           /\ pc'[r] = "ticket" => KnowPerson(r)
           /\ pc'[r] = "judge" => TicketFor(r)
           /\ pc'[r] = "reply" => TicketFor(r) \/ Judge(r) \/ JudgeFails(r) \/ SayMessage(r)
           /\ pc'[r] = "known" => ImportStart(r)
           /\ pc'[r] = "nextRow" => FindExisting(r) \/ ImportRow(r) \/ ImportFails(r)
           /\ pc'[r] = "importRow" => NextRow(r)
           /\ pc'[r] = "imported" => NextRow(r)
           /\ pc'[r] = "sample" => SeedStatus(r) \/ SeedTicket(r)
           /\ pc'[r] = "sampleTicket" => SeedCustomer(r)
           /\ pc'[r] = "cases" => EvalStart(r)
           /\ pc'[r] = "asking" => EvalCases(r)
           /\ pc'[r] = "storeShop" => ShopProve(r)
           /\ pc'[r] = "rating" => RateRead(r)
           /\ pc'[r] = "start" => SendAgain(r)
  BY Effects DEF IntakeStep

\* Which steps each kind of process takes.
LEMMA Handlers ==
    ASSUME CoreInv, NEW r \in Req, IntakeStep(r)
    PROVE  /\ Kind(r) = "newForm" => BelowLimit(r) \/ CreateForm(r) \/ Throws(r)
           /\ Kind(r) = "newCase" => BelowLimit(r) \/ CreateCase(r) \/ Throws(r)
           /\ Kind(r) = "switch" => FindForm(r) \/ UpdateForm(r) \/ Throws(r)
           /\ Kind(r) = "answer" => \/ ReadForm(r) \/ KnowPerson(r) \/ TicketFor(r) \/ Judge(r) \/ JudgeFails(r)
                                     \/ Replied(r) \/ SendAgain(r)
           /\ Kind(r) = "import" => \/ ImportStart(r) \/ FindExisting(r) \/ NextRow(r)
                                     \/ ImportRow(r) \/ ImportEnd(r) \/ ImportFails(r)
           /\ Kind(r) = "seed" => SeedStatus(r) \/ SeedCustomer(r) \/ SeedTicket(r) \/ Throws(r)
           /\ Kind(r) = "eval" => EvalStart(r) \/ EvalCases(r) \/ EvalEnd(r) \/ Throws(r)
           /\ Kind(r) = "connectShop" => ShopProve(r) \/ ShopUpsert(r) \/ Throws(r)
           /\ Kind(r) = "disconnectShop" => ShopDisconnect(r)
           /\ Kind(r) = "rate" => RateRead(r) \/ RateUpsert(r) \/ Throws(r)
           /\ Kind(r) = "block" => Block(r)
  BY Effects DEF IntakeStep

-----------------------------------------------------------------------------
(* Guards *)

\* Two processes of a kind were in flight together.
Twice(kind) == \E q, r \in Req : q # r /\ {q, r} \in met /\ Kind(q) = kind /\ Kind(r) = kind

\* While no two additions have overlapped there is room for the one that was let through.
LimitInv ==
    /\ form \in [Fid -> [live : BOOLEAN, active : BOOLEAN]] /\ cases \subseteq Req
    /\ ~Twice("newForm") =>
        /\ Cardinality(LiveForms) <= Limit
        /\ \A r \in Req : pc[r] = "addForm" => Cardinality(LiveForms) < Limit
    /\ ~Twice("newCase") =>
        /\ Cardinality(cases) <= Limit
        /\ \A r \in Req : pc[r] = "addCase" => Cardinality(cases) < Limit

\* The entry of a process in the memory of its API process, and where it has one.
Claim(r) == [set |-> Kind(r), by |-> On(r), of |-> r]
Importing == {"known", "nextRow", "importRow", "imported"}
Paired(p) == \E pair \in twins : \A x \in pair : On(x) = p

\* Who is noted is running, and who runs is noted, but for evaluations that were admitted together.
BusyInv ==
    /\ \A u \in busy : \E r \in Req : u = Claim(r) /\ pc[r] \in Importing \cup {"asking"}
    /\ \A r \in Req : pc[r] \in Importing => Claim(r) \in busy
    /\ \A q, r \in Req : pc[q] \in Importing /\ pc[r] \in Importing /\ On(q) = On(r) => q = r
    /\ \A pair \in twins : \A x \in pair : x \in Req /\ pc[x] # "free"
    /\ \A q, r \in Req :
        q # r /\ {pc[q], pc[r]} \subseteq {"cases", "asking"} /\ On(q) = On(r) => Paired(On(r))
    /\ \A r \in Req : pc[r] = "asking" => Claim(r) \in busy \/ Paired(On(r))

\* A connection to the shop that a finished disconnect left was stored beside it.
ShopInv ==
    /\ shop \in Req \cup {None}
    /\ \A r \in Req : Kind(r) = "disconnectShop" /\ pc[r] = "done" /\ shop # None /\ shop < r => {shop, r} \in met

\* A ticket that is about to be rated, or was, was solved or has been opened again meanwhile.
Reopened(r) == \E q \in Req : Kind(q) = "reopen" /\ {q, r} \in met
RatingInv ==
    /\ solved \in BOOLEAN /\ rating \in [of : Req, solved : BOOLEAN] \cup {None}
    /\ \A r \in Req : pc[r] = "rating" /\ ~solved => Reopened(r)
    /\ rating # None /\ ~rating.solved => Reopened(rating.of)

GuardInv == LimitInv /\ BusyInv /\ ShopInv /\ RatingInv

-----------------------------------------------------------------------------
(* Tickets and customers *)

\* What a ticket is, and from what kind of process.
Tags == {"none", "form", "zd", "demo"}
Ticket == [of : Req, item : {0} \cup Samples, try : Nat, tag : Tags, due : BOOLEAN]

\* A ticket tells by its item and tag what kind of process it came from, unless the staff took the tag.
LeadType ==
    /\ person \in [{First} \cup Samples -> {"none", "active", "blocked"}]
    /\ got \subseteq Ticket
    /\ untagged \subseteq Samples /\ said \subseteq Req \X Nat
    /\ \A t \in got :
        /\ pc[t.of] # "free" /\ Kind(t.of) \in {"answer", "api", "import", "seed"}
        /\ t.item = 0 <=> Kind(t.of) \in {"answer", "api"}
        /\ t.tag = "zd" => Kind(t.of) = "import"
        /\ t.tag = "demo" => Kind(t.of) = "seed"
        /\ Kind(t.of) = "import" /\ t.item \notin untagged => t.tag = "zd"
        /\ Kind(t.of) = "seed" /\ t.item \notin untagged => t.tag = "demo"
    /\ \A s \in said : pc[s[1]] # "free" /\ Kind(s[1]) = "say"

\* What process r will still make tickets of.
Loading == {"nextRow", "importRow", "sample", "sampleTicket"}
ToCome(r, i) ==
    /\ pc[r] \in Loading
    /\ i \in mem[r].ids \/ (pc[r] \in {"importRow", "sampleTicket"} /\ i = mem[r].m)

\* Two processes that may both make a ticket of an item.
Beside(q, r) == {q, r} \in met /\ (Kind(q) = "import" => On(q) # On(r))

\* What is still to come is not there yet, unless from a process beside; and nothing is left out.
ImportInv ==
    /\ \A r \in Req : pc[r] \in {"importRow", "sampleTicket"} => mem[r].m \in Samples \ mem[r].ids
    /\ \A r \in Req : \A t \in got :
        ToCome(r, t.item) /\ Kind(t.of) = Kind(r) /\ t.item \notin untagged => t.of # r /\ Beside(t.of, r)
    /\ \A t, u \in got :
        t.item = u.item /\ t.item # 0 /\ Kind(t.of) = Kind(u.of) /\ t # u /\ t.item \notin untagged
        => Beside(t.of, u.of)
    /\ faults = 0 => \A r \in Req :
        Kind(r) = "import" /\ pc[r] \in {"nextRow", "importRow", "imported", "done"} /\ ~Opt(r).dry
        => \A i \in Opt(r).rows : ToCome(r, i) \/ \E t \in got : t.item = i /\ Kind(t.of) = "import"
    /\ \A t \in got : Kind(t.of) = "seed" => person[t.item] # "none"

\* The ticket of a submission, with the deadline of a serious one.
Ticketed(r) == \E t \in got : t.of = r /\ (Opt(r).is = "serious" /\ faults = 0 => t.due)
Blocks(q) == Kind(q) = "block" /\ pc[q] = "done"

\* A submission makes its ticket when it gets to it, and anew only after a failure.
SubmissionInv ==
    /\ faults = 0 =>
        /\ \A t \in got : t.item = 0 => pc[t.of] \notin {"start", "person", "ticket"}
        /\ \A t, u \in got : t.of = u.of /\ t.item = 0 => t = u
        /\ \A s \in said : pc[s[1]] # "start"
        /\ \A s, u \in said : s[1] = u[1] => s = u
    /\ \A r \in Req : Kind(r) = "answer" =>
        /\ pc[r] \in {"person", "ticket", "judge", "reply"} => Opt(r).is # "bot"
        /\ pc[r] = "judge" => \E t \in got : t.of = r /\ t.try = mem[r].tries
        /\ pc[r] = "reply" \/ (pc[r] = "done" /\ Opt(r).is # "bot") => Ticketed(r)
        /\ \A t \in got : t.of = r => Opt(r).is # "bot"
        /\ pc[r] = "ticket" \/ (\E t \in got : t.of = r) => \A q \in Req : Blocks(q) /\ q < r => {q, r} \in met
    /\ \A q \in Req : Blocks(q) => person[First] = "blocked"

IntakeInv == CoreInv /\ GuardInv /\ LeadType /\ ImportInv /\ SubmissionInv

-----------------------------------------------------------------------------
(* Guards are kept *)

\* What was noted stays so, and a process keeps its job.
LEMMA Lasting ==
    ASSUME CoreInv, [Next]_vars
    PROVE  /\ met \subseteq met' /\ faults \in Nat /\ faults' \in Nat /\ faults' >= faults
           /\ \A r \in Req : pc[r] # "free" => pc'[r] # "free" /\ job'[r] = job[r]
           /\ \A r \in Req : Kind(r) \in IntakeKinds => pc[r] # "free"
  <1>1. faults \in Nat /\ \A r \in Req : Kind(r) \in IntakeKinds => pc[r] # "free"
    BY DEF CoreInv, ProcessType, IntakeKinds
  <1>2. CASE \E r \in Req : IntakeStep(r) /\ Here(r)
    BY <1>1, <1>2 DEF Here, Walks
  <1>3. CASE Aside
    BY <1>1, <1>3 DEF Aside, Ended
  <1>4. QED
    BY <1>1, <1>2, <1>3, HereOrAside

\* Two processes in flight are noted as together.
LEMMA Meeting ==
    ASSUME CoreInv, NEW q \in Req, NEW r \in Req, q # r, pc[q] \notin Ended, pc[r] \notin Ended
    PROVE  {q, r} \in met
  <1>1. Req \subseteq Nat
    BY InboxAssumption DEF Req
  <1>2. q < r \/ r < q
    BY <1>1
  <1>3. {q, r} = {r, q}
    OBVIOUS
  <1>4. QED
    BY <1>2, <1>3 DEF CoreInv, Sequential, Ended

\* Two of a kind together stay so.
LEMMA TwiceLasts ==
    ASSUME CoreInv, [Next]_vars, NEW kind \in IntakeKinds, Twice(kind)
    PROVE  Twice(kind)'
  BY Lasting DEF Twice, Kind

\* Forms and cases can be counted.
LEMMA Countable ==
    /\ IsFiniteSet(LiveForms) /\ Cardinality(LiveForms) \in Nat
    /\ cases \subseteq Req => IsFiniteSet(cases) /\ Cardinality(cases) \in Nat
  <1>1. IsFiniteSet(Req)
    BY FS_Interval, InboxAssumption DEF Req
  <1>2. IsFiniteSet(Fid)
    BY <1>1, FS_AddElement DEF Fid
  <1>3. LiveForms \subseteq Fid
    BY DEF LiveForms
  <1>4. QED
    BY <1>1, <1>2, <1>3, FS_Subset, FS_CardinalityType

\* Every step keeps the limits.
LEMMA LimitStep ==
    ASSUME CoreInv, LimitInv, [Next]_vars
    PROVE  LimitInv'
  <1>1. /\ form \in [Fid -> [live : BOOLEAN, active : BOOLEAN]] /\ cases \subseteq Req
        /\ DOMAIN pc = Req /\ Req \subseteq Fid
    BY DEF LimitInv, CoreInv, ProcessType, Fid
  <1>2. CASE Aside
    <2>1. UNCHANGED <<form, cases>> /\ LiveForms' = LiveForms
      BY <1>2 DEF Aside, leads, LiveForms
    <2>2. \A r \in Req : pc'[r] \in {"addForm", "addCase"} => pc[r] = pc'[r]
      BY <1>2 DEF Aside, IntakeSteps
    <2>3. QED
      BY <1>1, <2>1, <2>2, TwiceLasts DEF LimitInv, IntakeKinds
  <1>3. CASE \E r \in Req : IntakeStep(r) /\ Here(r)
    <2>1. PICK r \in Req : IntakeStep(r) /\ Here(r)
      BY <1>3
    <2>2. \A q \in Req \ {r} : pc'[q] = pc[q]
      BY <2>1 DEF Here, Walks
    <2>3. pc[r] \notin Ended
      BY <2>1 DEF Here, Walks
    <2>4. ASSUME ~Twice("newForm")'
          PROVE  /\ Cardinality(LiveForms)' <= Limit
                 /\ \A q \in Req : pc'[q] = "addForm" => Cardinality(LiveForms)' < Limit
      <3>1. ~Twice("newForm")
        BY <2>4, TwiceLasts DEF IntakeKinds
      <3>2. /\ Cardinality(LiveForms) <= Limit
            /\ \A q \in Req : pc[q] = "addForm" => Cardinality(LiveForms) < Limit
        BY <3>1 DEF LimitInv
      <3>3. CASE CreateForm(r)
        <4>1. pc[r] = "addForm" /\ pc'[r] = "done" /\ LiveForms' = LiveForms \cup {r}
          BY <1>1, <3>3 DEF CreateForm, At, Move, Step, Go, LiveForms
        <4>2. Cardinality(LiveForms \cup {r}) \in {Cardinality(LiveForms), Cardinality(LiveForms) + 1}
              /\ Cardinality(LiveForms) \in Nat
          BY Countable, FS_AddElement
        <4>3. \A q \in Req \ {r} : pc[q] # "addForm"
          <5>1. SUFFICES ASSUME NEW q \in Req \ {r}, pc[q] = "addForm" PROVE FALSE
            OBVIOUS
          <5>2. Kind(q) = "newForm" /\ Kind(r) = "newForm" /\ pc[q] \notin Ended
            BY <4>1, <5>1, OwnSteps DEF IntakeSteps, Handled
          <5>3. {q, r} \in met
            BY <2>3, <5>2, Meeting
          <5>4. QED
            BY <3>1, <5>2, <5>3 DEF Twice
        <4>4. Cardinality(LiveForms)' = Cardinality(LiveForms \cup {r})
          BY <4>1
        <4>5. QED
          BY <2>2, <3>2, <4>1, <4>2, <4>3, <4>4, IntakeAssumption
      <3>4. CASE ~CreateForm(r)
        <4>1. LiveForms' \subseteq LiveForms
          BY <1>1, <2>1, <3>4, Writers DEF UpdateForm, RemoveForm, LiveForms
        <4>2. /\ Cardinality(LiveForms)' <= Cardinality(LiveForms)
             /\ Cardinality(LiveForms)' \in Nat /\ Cardinality(LiveForms) \in Nat
          BY <4>1, Countable, FS_Subset, FS_CardinalityType
        <4>3. pc'[r] = "addForm" => Cardinality(LiveForms) < Limit
          <5>1. SUFFICES ASSUME pc'[r] = "addForm" PROVE Cardinality(LiveForms) < Limit
            OBVIOUS
          <5>2. BelowLimit(r)
            BY <2>1, <5>1, Leads
          <5>3. ~(Cardinality(LiveForms) >= Limit)
            BY <1>1, <5>1, <5>2 DEF BelowLimit, Move, Step, Go
          <5>4. QED
            BY <5>3, <4>2, IntakeAssumption
        <4>4. QED
          BY <2>2, <3>2, <4>2, <4>3, IntakeAssumption
      <3>5. QED
        BY <3>3, <3>4
    <2>5. ASSUME ~Twice("newCase")'
          PROVE  /\ Cardinality(cases)' <= Limit
                 /\ \A q \in Req : pc'[q] = "addCase" => Cardinality(cases)' < Limit
      <3>1. ~Twice("newCase")
        BY <2>5, TwiceLasts DEF IntakeKinds
      <3>2. /\ Cardinality(cases) <= Limit
            /\ \A q \in Req : pc[q] = "addCase" => Cardinality(cases) < Limit
        BY <3>1 DEF LimitInv
      <3>3. CASE CreateCase(r)
        <4>1. pc[r] = "addCase" /\ pc'[r] = "done" /\ cases' = cases \cup {r}
          BY <1>1, <3>3 DEF CreateCase, At, Move, Step, Go
        <4>2. Cardinality(cases \cup {r}) \in {Cardinality(cases), Cardinality(cases) + 1} /\ Cardinality(cases) \in Nat
          BY <1>1, Countable, FS_AddElement
        <4>3. \A q \in Req \ {r} : pc[q] # "addCase"
          <5>1. SUFFICES ASSUME NEW q \in Req \ {r}, pc[q] = "addCase" PROVE FALSE
            OBVIOUS
          <5>2. Kind(q) = "newCase" /\ Kind(r) = "newCase" /\ pc[q] \notin Ended
            BY <4>1, <5>1, OwnSteps DEF IntakeSteps, Handled
          <5>3. {q, r} \in met
            BY <2>3, <5>2, Meeting
          <5>4. QED
            BY <3>1, <5>2, <5>3 DEF Twice
        <4>4. Cardinality(cases)' = Cardinality(cases \cup {r})
          BY <4>1
        <4>5. QED
          BY <2>2, <3>2, <4>1, <4>2, <4>3, <4>4, IntakeAssumption
      <3>4. CASE ~CreateCase(r)
        <4>1. cases' \subseteq cases
          BY <2>1, <3>4, Writers DEF DeleteCase
        <4>2. /\ Cardinality(cases)' <= Cardinality(cases)
             /\ Cardinality(cases)' \in Nat /\ Cardinality(cases) \in Nat
          BY <1>1, <4>1, Countable, FS_Subset, FS_CardinalityType
        <4>3. pc'[r] = "addCase" => Cardinality(cases) < Limit
          <5>1. SUFFICES ASSUME pc'[r] = "addCase" PROVE Cardinality(cases) < Limit
            OBVIOUS
          <5>2. BelowLimit(r)
            BY <2>1, <5>1, Leads
          <5>3. ~(Cardinality(cases) >= Limit)
            BY <1>1, <5>1, <5>2 DEF BelowLimit, Move, Step, Go
          <5>4. QED
            BY <5>3, <4>2, IntakeAssumption
        <4>4. QED
          BY <2>2, <3>2, <4>2, <4>3, IntakeAssumption
      <3>5. QED
        BY <3>3, <3>4
    <2>6. form' \in [Fid -> [live : BOOLEAN, active : BOOLEAN]]
      <3>1. CASE CreateForm(r)
        BY <1>1, <3>1 DEF CreateForm
      <3>2. CASE UpdateForm(r)
        <4>1. form' = form \/ \E b \in BOOLEAN : form' = [form EXCEPT ![First].active = b]
          BY <3>2, Zenon DEF UpdateForm
        <4>2. QED
          BY <1>1, <4>1 DEF Fid
      <3>3. CASE RemoveForm(r)
        BY <1>1, <3>3, ZenonT(60) DEF RemoveForm, Fid
      <3>4. QED
        BY <1>1, <2>1, <3>1, <3>2, <3>3, Writers
    <2>7. cases' \subseteq Req
      BY <1>1, <2>1, Writers DEF CreateCase, DeleteCase
    <2>8. QED
      BY <2>4, <2>5, <2>6, <2>7 DEF LimitInv
  <1>4. QED
    BY <1>2, <1>3, HereOrAside

\* Every step keeps who is noted as running.
LEMMA BusyStep ==
    ASSUME CoreInv, BusyInv, [Next]_vars
    PROVE  BusyInv'
  <1>1. DOMAIN pc = Req /\ DOMAIN job = Req
    BY DEF CoreInv, ProcessType
  <1>2. \A q \in Req : pc[q] \in Importing \cup {"cases", "asking"} =>
           /\ pc[q] \notin Ended /\ Kind(q) \in IntakeKinds
           /\ Kind(q) = IF pc[q] \in Importing THEN "import" ELSE "eval"
    BY OwnSteps DEF IntakeSteps, Handled, Importing
  <1>3. CASE Aside /\ UNCHANGED busy /\ \A r \in Req : Kind(r) \in IntakeKinds => pc'[r] = pc[r]
    <2>1. \A q \in Req : pc'[q] \in Importing \cup {"cases", "asking"} => pc[q] = pc'[q] /\ job'[q] = job[q]
      BY <1>3 DEF Aside, Importing, IntakeSteps
    <2>2. \A q \in Req : pc[q] # "free" => pc'[q] # "free" /\ job'[q] = job[q]
      BY Lasting
    <2>3. \A q \in Req : pc[q] \in Importing \cup {"cases", "asking"} => pc'[q] = pc[q] /\ job'[q] = job[q]
      BY <1>2, <1>3, <2>2 DEF Ended
    <2>4. \A p : Paired(p) => Paired(p)'
      BY <1>3, <2>2 DEF Paired, Aside, On, BusyInv
    <2>5. twins' = twins /\ busy' = busy
      BY <1>3 DEF Aside
    <2>6. \A q \in Req : pc'[q] \in Importing \cup {"cases", "asking"} => On(q)' = On(q) /\ Kind(q)' = Kind(q) /\ Claim(q)' = Claim(q)
      BY <2>1 DEF On, Kind, Claim
    <2>7. \A u \in busy' : \E r \in Req : u = Claim(r)' /\ pc'[r] \in Importing \cup {"asking"}
      BY <2>3, <2>5, <2>6 DEF BusyInv
    <2>8. \A pair \in twins' : \A x \in pair : x \in Req /\ pc'[x] # "free"
      BY <2>2, <2>5 DEF BusyInv
    <2>9. QED
      BY <2>1, <2>4, <2>5, <2>6, <2>7, <2>8 DEF BusyInv
  <1>4. CASE Aside /\ \E p \in {Main, Other} : Restart(p)
    <2>1. PICK p \in {Main, Other} : Restart(p)
      BY <1>4
    <2>2. /\ job' = job /\ twins' = twins /\ busy' = {u \in busy : u.by # p}
          /\ \A q \in Req : IF pc[q] \notin Ended /\ Kind(q) \in {"import", "eval"} /\ On(q) = p
                            THEN pc'[q] = "lost" ELSE pc'[q] = pc[q]
      BY <1>1, <2>1 DEF Restart, InFlight
    <2>3. \A q \in Req : On(q)' = On(q) /\ Claim(q)' = Claim(q) /\ Claim(q).by = On(q)
      BY <2>2 DEF On, Kind, Claim
    <2>4. \A q \in Req : pc'[q] \in Importing \cup {"cases", "asking"} => pc'[q] = pc[q] /\ On(q) # p
      BY <1>2, <2>2 DEF Importing
    <2>5. \A q \in Req : pc[q] \in Importing \cup {"cases", "asking"} /\ On(q) # p => pc'[q] = pc[q]
      BY <2>2
    <2>6. \A x : Paired(x)' <=> Paired(x)
      BY <2>2 DEF Paired, On
    <2>7. \A u \in busy' : \E r \in Req : u = Claim(r)' /\ pc'[r] \in Importing \cup {"asking"}
      BY <2>2, <2>3, <2>5 DEF BusyInv
    <2>8. \A q \in Req : pc'[q] \in Importing => Claim(q)' \in busy'
      BY <2>2, <2>3, <2>4 DEF BusyInv
    <2>9. \A q, r \in Req : pc'[q] \in Importing /\ pc'[r] \in Importing /\ On(q)' = On(r)' => q = r
      BY <2>3, <2>4 DEF BusyInv
    <2>10. \A pair \in twins' : \A x \in pair : x \in Req /\ pc'[x] # "free"
      BY <2>2 DEF BusyInv
    <2>11. \A q, r \in Req :
             q # r /\ {pc'[q], pc'[r]} \subseteq {"cases", "asking"} /\ On(q)' = On(r)' => Paired(On(r))'
      BY <2>3, <2>4, <2>6 DEF BusyInv
    <2>12. \A q \in Req : pc'[q] = "asking" => Claim(q)' \in busy' \/ Paired(On(q))'
      BY <2>2, <2>3, <2>4, <2>6 DEF BusyInv
    <2>13. QED
      BY <2>7, <2>8, <2>9, <2>10, <2>11, <2>12 DEF BusyInv
  <1>5. CASE \E r \in Req : IntakeStep(r) /\ Here(r)
    <2>1. PICK r \in Req : IntakeStep(r) /\ Here(r)
      BY <1>5
    <2>2. /\ pc[r] \notin Ended /\ job' = job /\ \A q \in Req \ {r} : pc'[q] = pc[q]
          /\ pc'[r] \in Ended \cup {"start"} \/ <<Kind(r), pc'[r]>> \in Handled
      BY <2>1 DEF Here, Walks
    <2>3. \A q \in Req : On(q)' = On(q) /\ Claim(q)' = Claim(q)
      BY <2>2 DEF On, Kind, Claim
    <2>4. \A q, s \in Req : Claim(q) = Claim(s) => q = s
      BY DEF Claim
    <2>5. \A q \in Req : Claim(q).by = On(q) /\ Claim(q).set = Kind(q)
      BY DEF Claim
    <2>6. \A x : Paired(x) => Paired(x)'
      BY <2>1, <2>2, Writers DEF EvalStart, Paired, On
    <2>7. \A q \in Req : pc[q] \in Importing => Claim(q).set = "import"
      BY <1>2, <2>5
    <2>8. CASE busy' = busy /\ twins' = twins
               /\ (pc[r] \in Importing <=> pc'[r] \in Importing)
               /\ pc[r] \notin {"cases", "asking"} /\ pc'[r] \notin {"cases", "asking"}
      <3>1. \A q \in Req : (pc'[q] \in Importing <=> pc[q] \in Importing)
                            /\ (pc'[q] # pc[q] => pc[q] # "asking" /\ pc'[q] \notin {"cases", "asking"})
        BY <2>2, <2>8
      <3>2. \A u \in busy' : \E q \in Req : u = Claim(q)' /\ pc'[q] \in Importing \cup {"asking"}
        BY <2>3, <2>8, <3>1 DEF BusyInv
      <3>3. \A q \in Req : pc[q] # "free" => pc'[q] # "free"
        BY Lasting
      <3>4. \A pair \in twins' : \A x \in pair : x \in Req /\ pc'[x] # "free"
        BY <2>8, <3>3 DEF BusyInv
      <3>5. QED
        BY <2>3, <2>6, <2>8, <3>1, <3>2, <3>4 DEF BusyInv
    <2>9. CASE ImportStart(r) /\ pc'[r] = "known"
      <3>1. /\ busy' = busy \cup {Claim(r)} /\ twins' = twins /\ pc[r] = "start" /\ Kind(r) = "import"
            /\ ~\E u \in busy : u.set = "import" /\ u.by = On(r)
        BY <1>1, <2>9 DEF ImportStart, Move, Step, Go, Busy, Enter, Claim, Does, At
      <3>2. \A q \in Req : pc[q] \in Importing => On(q) # On(r)
        BY <2>5, <2>7, <3>1 DEF BusyInv
      <3>3. QED
        BY <2>2, <2>3, <2>6, <2>9, <3>1, <3>2 DEF BusyInv, Importing
    <2>10. CASE (ImportEnd(r) \/ ImportFails(r)) /\ pc'[r] # "nextRow"
      <3>1. /\ busy' = {u \in busy : u.set # "import" \/ u.by # On(r)} /\ twins' = twins
            /\ pc[r] \in Importing /\ pc'[r] \in {"done", "failed"} /\ Kind(r) = "import"
        BY <1>1, <2>10, Effects DEF ImportEnd, ImportFails, Move, Step, Go, Leave, Importing, Kind
      <3>2. \A q \in Req \ {r} : pc[q] \in Importing => On(q) # On(r)
        BY <3>1 DEF BusyInv
      <3>3. \A u \in busy' : \E q \in Req : u = Claim(q)' /\ pc'[q] \in Importing \cup {"asking"}
        BY <2>2, <2>3, <2>5, <3>1 DEF BusyInv
      <3>4. \A q \in Req : pc'[q] \in Importing => Claim(q)' \in busy'
        BY <2>2, <2>3, <2>5, <3>1, <3>2 DEF BusyInv, Importing
      <3>5. \A q \in Req : pc'[q] = "asking" => Claim(q)' \in busy' \/ Paired(On(q))'
        BY <1>2, <2>2, <2>3, <2>5, <2>6, <3>1 DEF BusyInv, Importing
      <3>6. QED
        BY <2>2, <2>3, <2>6, <3>1, <3>3, <3>4, <3>5 DEF BusyInv, Importing
    <2>11. CASE EvalStart(r) /\ pc'[r] = "cases"
      <3>1. /\ busy' = busy /\ pc[r] = "start" /\ Kind(r) = "eval"
            /\ twins' = twins \cup {{r, q} : q \in {x \in Req : At(x, "cases") /\ On(x) = On(r)}}
            /\ ~\E u \in busy : u.set = "eval" /\ u.by = On(r)
        BY <1>1, <2>11 DEF EvalStart, Move, Step, Go, Busy, Does, At
      <3>2. \A q \in Req : pc[q] = "cases" /\ On(q) = On(r) => Paired(On(r))'
        <4>1. SUFFICES ASSUME NEW q \in Req, pc[q] = "cases", On(q) = On(r) PROVE Paired(On(r))'
          OBVIOUS
        <4>2. {r, q} \in twins'
          BY <3>1, <4>1 DEF At
        <4>3. \A x \in {r, q} : On(x)' = On(r)'
          BY <2>3, <4>1
        <4>4. QED
          BY <4>2, <4>3 DEF Paired
      <3>3. \A q \in Req : pc[q] = "asking" /\ On(q) = On(r) => Paired(On(r))
        BY <1>2, <2>5, <3>1 DEF BusyInv, Importing
      <3>4. \A pair \in twins' : \A x \in pair : x \in Req /\ pc'[x] # "free"
        BY <2>2, <2>11, <3>1 DEF BusyInv, At
      <3>5. QED
        BY <2>2, <2>3, <2>6, <2>11, <3>1, <3>2, <3>3, <3>4 DEF BusyInv, Importing
    <2>12. CASE EvalCases(r) /\ pc'[r] = "asking"
      <3>1. busy' = busy \cup {Claim(r)} /\ twins' = twins /\ pc[r] = "cases" /\ Kind(r) = "eval"
        BY <1>1, <2>12, Effects DEF EvalCases, Move, Step, Go, Enter, Claim
      <3>2. QED
        BY <2>2, <2>3, <2>6, <2>12, <3>1 DEF BusyInv, Importing
    <2>13. CASE EvalEnd(r)
      <3>1. /\ busy' = {u \in busy : u.set # "eval" \/ u.by # On(r)} /\ twins' = twins
            /\ pc[r] = "asking" /\ pc'[r] = "done" /\ Kind(r) = "eval"
        <4>1. pc[r] = "asking" /\ pc'[r] = "done" /\ Kind(r) = "eval" /\ twins' = twins
          BY <2>13, Effects
        <4>2. QED
          BY <2>13, <4>1 DEF EvalEnd, Leave, Kind
      <3>2. \A q \in Req \ {r} : pc[q] = "asking" /\ On(q) = On(r) => Paired(On(q))
        BY <3>1 DEF BusyInv
      <3>3. \A u \in busy' : \E q \in Req : u = Claim(q)' /\ pc'[q] \in Importing \cup {"asking"}
        BY <2>2, <2>3, <2>5, <3>1 DEF BusyInv
      <3>4. \A q \in Req : pc'[q] \in Importing => Claim(q)' \in busy'
        BY <2>2, <2>3, <2>7, <3>1 DEF BusyInv, Importing
      <3>5. \A q \in Req : pc'[q] = "asking" => Claim(q)' \in busy' \/ Paired(On(q))'
        BY <2>2, <2>3, <2>5, <2>6, <3>1, <3>2 DEF BusyInv
      <3>6. QED
        BY <2>2, <2>3, <2>6, <3>1, <3>3, <3>4, <3>5 DEF BusyInv, Importing
    <2>14. CASE pc[r] = "cases" /\ pc'[r] \in {"rejected", "failed"} /\ busy' = busy /\ twins' = twins
      BY <2>2, <2>3, <2>6, <2>14 DEF BusyInv, Importing
    <2>15. CASE Kind(r) = "import"
      BY <1>1, <2>1, <2>8, <2>9, <2>10, <2>15, Handlers, Effects DEF Importing, ImportStart, ImportFails, Move,
         Step, Go
    <2>16. CASE Kind(r) = "eval"
      <3>1. EvalStart(r) /\ pc'[r] # "cases" => pc'[r] = "rejected" /\ UNCHANGED <<busy, twins>>
        BY <1>1, Effects DEF EvalStart, Move, Step, Go
      <3>2. EvalCases(r) /\ pc'[r] # "asking" => pc[r] = "cases" /\ pc'[r] = "rejected" /\ UNCHANGED <<busy, twins>>
        BY <1>1, Effects DEF EvalCases, Move, Step, Go
      <3>3. Throws(r) => pc'[r] = "failed" /\ pc[r] = "cases" /\ UNCHANGED <<busy, twins>>
        BY <1>2, <2>16, Effects, OwnSteps DEF Handled, IntakeSteps
      <3>4. EvalStart(r) => pc[r] = "start"
        BY Effects
      <3>5. QED
        BY <2>1, <2>8, <2>11, <2>12, <2>13, <2>14, <2>16, <3>1, <3>2, <3>3, <3>4, Handlers DEF Importing
    <2>17. CASE Kind(r) \notin {"import", "eval"}
      <3>1. pc[r] \notin Importing \cup {"cases", "asking"} /\ pc'[r] \notin Importing \cup {"cases", "asking"}
        BY <1>2, <2>2, <2>17 DEF Handled, Ended, Importing
      <3>2. busy' = busy /\ twins' = twins
        BY <2>1, <2>17, Writers, Effects
      <3>3. QED
        BY <2>8, <3>1, <3>2
    <2>18. QED
      BY <2>15, <2>16, <2>17
  <1>6. QED
    BY <1>3, <1>4, <1>5, HereOrAside

\* Every step keeps what is said of the shop.
LEMMA ShopStep ==
    ASSUME CoreInv, ShopInv, [Next]_vars
    PROVE  ShopInv'
  <1>1. CASE Aside
    <2>1. shop' = shop
      BY <1>1 DEF Aside, rest
    <2>2. \A r \in Req : Kind(r)' = "disconnectShop" /\ pc'[r] = "done" => Kind(r) = "disconnectShop" /\ pc[r] = "done"
      BY <1>1 DEF Aside, Kind, IntakeKinds
    <2>3. QED
      BY <2>1, <2>2, Lasting DEF ShopInv
  <1>2. CASE \E r \in Req : IntakeStep(r) /\ Here(r)
    <2>1. PICK r \in Req : IntakeStep(r) /\ Here(r)
      BY <1>2
    <2>2. /\ pc[r] \notin Ended /\ job' = job /\ met' = met
          /\ \A q \in Req \ {r} : pc'[q] = pc[q]
          /\ \A q \in Req : Kind(q)' = Kind(q)
      BY <2>1 DEF Here, Walks, Kind
    <2>3. CASE ShopUpsert(r)
      <3>1. shop' = r /\ Kind(r) = "connectShop"
        BY <2>3, Effects DEF ShopUpsert
      <3>2. \A q \in Req : Kind(q) = "disconnectShop" /\ pc'[q] = "done" /\ r < q => {r, q} \in met
        BY <2>2, <3>1 DEF CoreInv, Sequential, Ended
      <3>3. QED
        BY <2>2, <3>1, <3>2 DEF ShopInv
    <2>4. CASE ShopDisconnect(r)
      BY <2>4 DEF ShopDisconnect, ShopInv
    <2>5. CASE ~ShopUpsert(r) /\ ~ShopDisconnect(r)
      <3>1. shop' = shop /\ Kind(r) # "disconnectShop"
        BY <2>1, <2>5, Writers, Handlers
      <3>2. QED
        BY <2>2, <3>1 DEF ShopInv
    <2>6. QED
      BY <2>3, <2>4, <2>5
  <1>3. QED
    BY <1>1, <1>2, HereOrAside

\* Every step keeps what is said of ratings.
LEMMA RatingStep ==
    ASSUME CoreInv, RatingInv, [Next]_vars
    PROVE  RatingInv'
  <1>1. \A q \in Req : Reopened(q) => Reopened(q)'
    BY Lasting DEF Reopened, Kind, IntakeKinds
  <1>2. CASE Aside
    <2>1. UNCHANGED <<solved, rating>> /\ \A r \in Req : pc'[r] = "rating" => pc[r] = "rating"
      BY <1>2 DEF Aside, rest, IntakeSteps
    <2>2. QED
      BY <1>1, <2>1 DEF RatingInv
  <1>3. CASE \E r \in Req : IntakeStep(r) /\ Here(r)
    <2>1. PICK r \in Req : IntakeStep(r) /\ Here(r)
      BY <1>3
    <2>2. /\ pc[r] \notin Ended /\ \A q \in Req \ {r} : pc'[q] = pc[q]
          /\ job' = job /\ met' = met /\ \A q \in Req : Reopened(q)' <=> Reopened(q)
      BY <2>1 DEF Here, Walks, Kind, Reopened
    <2>3. DOMAIN pc = Req
      BY DEF CoreInv, ProcessType
    <2>4. CASE Reopen(r)
      <3>1. solved' = ~solved /\ rating' = rating /\ pc'[r] = "done" /\ Kind(r) = "reopen"
        BY <2>4, Effects DEF Reopen
      <3>2. ASSUME NEW q \in Req, pc'[q] = "rating" PROVE Reopened(q)
        <4>1. q # r /\ pc[q] = "rating"
          BY <2>2, <3>1, <3>2
        <4>2. {r, q} \in met
          BY <2>2, <4>1, Meeting DEF Ended
        <4>3. QED
          BY <3>1, <4>2 DEF Reopened
      <3>3. solved' \in BOOLEAN
        BY <3>1
      <3>4. QED
        BY <2>2, <3>1, <3>2, <3>3 DEF RatingInv
    <2>5. CASE RateUpsert(r)
      <3>1. rating' = [of |-> r, solved |-> solved] /\ solved' = solved /\ pc[r] = "rating" /\ pc'[r] = "done"
        BY <2>5, Effects DEF RateUpsert
      <3>2. \A q \in Req : pc'[q] = "rating" => pc[q] = "rating"
        BY <2>2, <3>1
      <3>3. QED
        BY <2>2, <3>1, <3>2 DEF RatingInv
    <2>6. CASE ~Reopen(r) /\ ~RateUpsert(r)
      <3>1. UNCHANGED <<solved, rating>>
        BY <2>1, <2>6, Writers
      <3>2. pc'[r] = "rating" => solved
        <4>1. SUFFICES ASSUME pc'[r] = "rating" PROVE solved
          OBVIOUS
        <4>2. RateRead(r)
          BY <2>1, <4>1, Leads
        <4>3. QED
          BY <2>3, <4>1, <4>2 DEF RateRead, Move, Step, Go
      <3>3. QED
        BY <2>2, <3>1, <3>2 DEF RatingInv
    <2>7. QED
      BY <2>4, <2>5, <2>6
  <1>4. QED
    BY <1>2, <1>3, HereOrAside

-----------------------------------------------------------------------------
(* Tickets and customers are kept *)

\* Where a new ticket comes from.
LEMMA NewTickets ==
    ASSUME CoreInv, NEW r \in Req, IntakeStep(r), NEW t \in got', t \notin got
    PROVE  \/ TicketFor(r) /\ t = Lead(r, 0, IF Kind(r) = "answer" THEN "form" ELSE "none")
           \/ ImportRow(r) /\ t = Lead(r, mem[r].m, "zd")
           \/ SeedTicket(r) /\ t = Lead(r, mem[r].m, "demo") /\ person[mem[r].m] # "none"
           \/ Judge(r) /\ \E u \in got : u.of = r /\ u.try = mem[r].tries /\ t = [u EXCEPT !.due = TRUE]
           \/ Untag(r) /\ \E u \in got : /\ t = [u EXCEPT !.tag = "none"] /\ got' = (got \ {u}) \cup {t}
                                         /\ untagged' = untagged \cup ({u.item} \cap Samples)
  <1>1. TicketFor(r) => t = Lead(r, 0, IF Kind(r) = "answer" THEN "form" ELSE "none")
    BY DEF TicketFor
  <1>2. ImportRow(r) => t = Lead(r, mem[r].m, "zd")
    BY DEF ImportRow
  <1>3. SeedTicket(r) => t = Lead(r, mem[r].m, "demo") /\ person[mem[r].m] # "none"
    BY DEF SeedTicket
  <1>4. Judge(r) => \E u \in got : u.of = r /\ u.try = mem[r].tries /\ t = [u EXCEPT !.due = TRUE]
    BY DEF Judge
  <1>5. Untag(r) => \E u \in got : /\ t = [u EXCEPT !.tag = "none"] /\ got' = (got \ {u}) \cup {t}
                                   /\ untagged' = untagged \cup ({u.item} \cap Samples)
    <2>1. SUFFICES ASSUME Untag(r)
                   PROVE \E u \in got : /\ t = [u EXCEPT !.tag = "none"] /\ got' = (got \ {u}) \cup {t}
                                        /\ untagged' = untagged \cup ({u.item} \cap Samples)
      OBVIOUS
    <2>2. PICK u \in got : /\ got' = (got \ {u}) \cup {[u EXCEPT !.tag = "none"]}
                           /\ untagged' = untagged \cup ({u.item} \cap Samples)
      BY <2>1 DEF Untag
    <2>3. t = [u EXCEPT !.tag = "none"]
      BY <2>2
    <2>4. QED
      BY <2>2, <2>3
  <1>6. ~Clear(r)
    BY DEF Clear
  <1>7. QED
    BY <1>1, <1>2, <1>3, <1>4, <1>5, <1>6, Writers

\* A ticket is a record.
LEMMA TicketFields ==
    ASSUME LeadType, NEW t \in got
    PROVE  /\ t.of \in Req /\ t.item \in {0} \cup Samples /\ t.try \in Nat /\ t.due \in BOOLEAN
           /\ LET u == [t EXCEPT !.due = TRUE] IN u.of = t.of /\ u.item = t.item /\ u.try = t.try /\ u.tag = t.tag /\ u.due
           /\ LET u == [t EXCEPT !.tag = "none"] IN u.of = t.of /\ u.item = t.item /\ u.try = t.try /\ u.due = t.due /\ u.tag = "none"
  <1>1. t \in Ticket
    BY DEF LeadType
  <1>2. QED
    BY <1>1 DEF Ticket

\* A ticket of no sample stays, but for its tag and a deadline that it gets.
LEMMA TicketsStay ==
    ASSUME CoreInv, LeadType, NEW r \in Req, IntakeStep(r), NEW t \in got, Kind(t.of) # "seed"
    PROVE  \E u \in got' : u.of = t.of /\ u.item = t.item /\ u.try = t.try /\ (t.due => u.due)
  <1>1. CASE got \subseteq got'
    BY <1>1
  <1>2. CASE Judge(r)
    <2>1. CASE Opt(r).is = "serious" /\ t.of = r /\ t.try = mem[r].tries
      <3>1. [t EXCEPT !.due = TRUE] \in got'
        BY <1>2, <2>1 DEF Judge
      <3>2. QED
        BY <3>1, TicketFields
    <2>2. CASE ~(Opt(r).is = "serious" /\ t.of = r /\ t.try = mem[r].tries)
      <3>1. t \in got'
        BY <1>2, <2>2 DEF Judge
      <3>2. QED
        BY <3>1
    <2>3. QED
      BY <2>1, <2>2
  <1>3. CASE Clear(r)
    <2>1. t.tag # "demo"
      BY DEF LeadType
    <2>2. t \in got'
      BY <1>3, <2>1 DEF Clear, Demo
    <2>3. QED
      BY <2>2
  <1>4. CASE Untag(r)
    <2>1. PICK u \in got : got' = (got \ {u}) \cup {[u EXCEPT !.tag = "none"]}
      BY <1>4 DEF Untag
    <2>2. CASE t = u
      <3>1. [t EXCEPT !.tag = "none"] \in got'
        BY <2>1, <2>2
      <3>2. QED
        BY <3>1, TicketFields, ZenonT(60)
    <2>3. CASE t # u
      <3>1. t \in got'
        BY <2>1, <2>3
      <3>2. QED
        BY <3>1
    <2>4. QED
      BY <2>2, <2>3
  <1>5. QED
    BY <1>1, <1>2, <1>3, <1>4, Writers DEF TicketFor, ImportRow, SeedTicket

\* What a process takes next is one of what it has left.
LEMMA Takes ==
    ASSUME CoreInv, NEW r \in Req, IntakeStep(r), pc'[r] \in {"importRow", "sampleTicket"}
    PROVE  /\ pc[r] \in {"nextRow", "sample"}
           /\ mem'[r].m \in mem[r].ids /\ mem'[r].ids = mem[r].ids \ {mem'[r].m}
  <1>1. DOMAIN pc = Req /\ DOMAIN mem = Req /\ DOMAIN mem[r] = DOMAIN NoMem
    BY DEF CoreInv, ProcessType
  <1>2. NextRow(r) \/ SeedCustomer(r)
    BY Leads
  <1>3. CASE NextRow(r)
    <2>1. PICK i \in mem[r].ids : mem' = [mem EXCEPT ![r] = [mem[r] EXCEPT !.ids = @ \ {i}, !.m = i]]
      BY <1>1, <1>3, Zenon DEF NextRow, Move, Step, Go, Hold
    <2>2. QED
      BY <1>1, <1>3, <2>1, NoMemFields, Zenon DEF NextRow, At
  <1>4. CASE SeedCustomer(r)
    <2>1. pc[r] = "sample" /\ Kind(r) = "seed" /\ mem[r].ids # {}
      BY <1>1, <1>4, Effects, Zenon DEF SeedCustomer, Move, Step, Go
    <2>2. PICK i : /\ i = CHOOSE x \in mem[r].ids : \A y \in mem[r].ids : x <= y
                   /\ mem' = [mem EXCEPT ![r] = [mem[r] EXCEPT !.ids = @ \ {i}, !.m = i]]
      BY <1>4, <2>1, Zenon DEF SeedCustomer, Step, Hold
    <2>3. mem[r].ids \subseteq Nat
      BY <2>1 DEF CoreInv, ProcessType, Holds, IntakeKinds, Samples
    <2>4. i \in mem[r].ids
      BY <2>1, <2>2, <2>3, LeastIsThere
    <2>5. QED
      BY <1>1, <2>1, <2>2, <2>4, NoMemFields
  <1>5. QED
    BY <1>2, <1>3, <1>4

\* Every step keeps what customers, tickets and messages are.
LEMMA LeadStep ==
    ASSUME CoreInv, LeadType, ImportInv, [Next]_vars
    PROVE  LeadType'
  <1>1. \A r \in Req : pc[r] # "free" => pc'[r] # "free" /\ Kind(r)' = Kind(r)
    BY Lasting DEF Kind
  <1>2. CASE Aside
    <2>1. UNCHANGED leads
      BY <1>2 DEF Aside
    <2>2. \A t \in got : t.of \in Req
      BY TicketFields
    <2>3. \A s \in said : s[1] \in Req
      BY DEF LeadType
    <2>4. QED
      BY <1>1, <2>1, <2>2, <2>3 DEF LeadType, leads
  <1>3. CASE \E r \in Req : IntakeStep(r) /\ Here(r)
    <2>1. PICK r \in Req : IntakeStep(r) /\ Here(r)
      BY <1>3
    <2>2. /\ pc[r] \notin Ended /\ pc[r] # "free" /\ DOMAIN pc = Req
          /\ untagged \subseteq untagged' /\ Kind(r) \in IntakeKinds /\ mem[r].tries \in Nat
      <3>1. untagged \subseteq untagged'
        BY <2>1, Writers DEF Untag
      <3>2. QED
        BY <2>1, <3>1 DEF Here, Walks, Ended, CoreInv, ProcessType, Holds
    <2>3. person' \in [{First} \cup Samples -> {"none", "active", "blocked"}]
      <3>1. CASE KnowPerson(r) \/ Block(r)
        BY <3>1 DEF KnowPerson, Block, LeadType
      <3>2. CASE NextRow(r)
        BY <3>2, Zenon DEF NextRow, LeadType
      <3>3. CASE SeedCustomer(r)
        <4>1. person' = person \/ \E i : person' = [person EXCEPT ![i] = "active"]
          BY <3>3, Zenon DEF SeedCustomer
        <4>2. QED
          BY <4>1 DEF LeadType
      <3>4. CASE Clear(r)
        BY <3>4 DEF Clear, LeadType
      <3>5. QED
        BY <2>1, <3>1, <3>2, <3>3, <3>4, Writers DEF LeadType
    <2>4. untagged' \subseteq Samples
      BY <2>1, Writers DEF Untag, LeadType
    <2>5. said' \subseteq Req \X Nat /\ \A s \in said' : pc'[s[1]] # "free" /\ Kind(s[1])' = "say"
      <3>1. said' = said \/ (said' = said \cup {<<r, mem[r].tries>>} /\ Kind(r) = "say")
        BY <2>1, Writers, Effects DEF SayMessage
      <3>2. QED
        BY <1>1, <2>2, <3>1 DEF LeadType
    <2>6. ASSUME NEW t \in got'
          PROVE  /\ t \in Ticket
                 /\ pc'[t.of] # "free" /\ Kind(t.of)' \in {"answer", "api", "import", "seed"}
                 /\ t.item = 0 <=> Kind(t.of)' \in {"answer", "api"}
                 /\ t.tag = "zd" => Kind(t.of)' = "import"
                 /\ t.tag = "demo" => Kind(t.of)' = "seed"
                 /\ Kind(t.of)' = "import" /\ t.item \notin untagged' => t.tag = "zd"
                 /\ Kind(t.of)' = "seed" /\ t.item \notin untagged' => t.tag = "demo"
      <3>1. CASE t \in got
        <4>1. t.of \in Req
          BY <3>1, TicketFields
        <4>2. QED
          BY <1>1, <2>2, <3>1, <4>1 DEF LeadType
      <3>2. CASE TicketFor(r) /\ t = Lead(r, 0, IF Kind(r) = "answer" THEN "form" ELSE "none")
        <4>1. Kind(r) \in {"answer", "api"}
          BY <3>2, Effects
        <4>2. QED
          BY <1>1, <2>2, <3>2, <4>1 DEF Lead, Ticket, Tags
      <3>3. CASE ImportRow(r) /\ t = Lead(r, mem[r].m, "zd")
        <4>1. Kind(r) = "import" /\ pc[r] = "importRow" /\ mem[r].m \in Samples
          BY <3>3, Effects DEF ImportInv
        <4>2. mem[r].m # 0
          BY <4>1 DEF Samples
        <4>3. QED
          BY <1>1, <2>2, <3>3, <4>1, <4>2 DEF Lead, Ticket, Tags
      <3>4. CASE SeedTicket(r) /\ t = Lead(r, mem[r].m, "demo")
        <4>1. Kind(r) = "seed" /\ pc[r] = "sampleTicket" /\ mem[r].m \in Samples
          BY <3>4, Effects DEF ImportInv
        <4>2. mem[r].m # 0
          BY <4>1 DEF Samples
        <4>3. QED
          BY <1>1, <2>2, <3>4, <4>1, <4>2 DEF Lead, Ticket, Tags
      <3>5. CASE Judge(r) /\ \E u \in got : u.of = r /\ t = [u EXCEPT !.due = TRUE]
        <4>1. PICK u \in got : t = [u EXCEPT !.due = TRUE]
          BY <3>5
        <4>2. t.of = u.of /\ t.item = u.item /\ t.tag = u.tag /\ u.of \in Req
          BY <4>1, TicketFields
        <4>3. t \in Ticket
          BY <4>1 DEF LeadType, Ticket, Tags
        <4>4. QED
          BY <1>1, <2>2, <4>2, <4>3 DEF LeadType
      <3>6. CASE Untag(r) /\ \E u \in got : /\ t = [u EXCEPT !.tag = "none"]
                                            /\ untagged' = untagged \cup ({u.item} \cap Samples)
        <4>1. PICK u \in got : t = [u EXCEPT !.tag = "none"] /\ untagged' = untagged \cup ({u.item} \cap Samples)
          BY <3>6
        <4>2. t.of = u.of /\ t.item = u.item /\ t.tag = "none" /\ u.of \in Req /\ u.item \in {0} \cup Samples
          BY <4>1, TicketFields
        <4>3. t \in Ticket
          BY <4>1 DEF LeadType, Ticket, Tags
        <4>4. Kind(u.of) \in {"import", "seed"} => u.item \in untagged'
          BY <4>1, <4>2 DEF LeadType
        <4>5. QED
          BY <1>1, <2>2, <4>2, <4>3, <4>4 DEF LeadType
      <3>7. QED
        BY <2>1, <3>1, <3>2, <3>3, <3>4, <3>5, <3>6, NewTickets
    <2>7. QED
      BY <2>3, <2>4, <2>5, <2>6 DEF LeadType
  <1>4. QED
    BY <1>2, <1>3, HereOrAside

\* A row or a sample becomes a ticket in one way.
LEMMA ItemsCome ==
    ASSUME CoreInv, LeadType, ImportInv, NEW r \in Req, IntakeStep(r),
           NEW t \in got', t \notin got, t.item # 0, t.item \notin untagged'
    PROVE  /\ t = Lead(r, mem[r].m, IF Kind(r) = "import" THEN "zd" ELSE "demo")
           /\ t.of = r /\ t.item = mem[r].m /\ t.item \in Samples
           /\ \/ ImportRow(r) /\ pc[r] = "importRow" /\ Kind(r) = "import"
              \/ SeedTicket(r) /\ pc[r] = "sampleTicket" /\ Kind(r) = "seed" /\ person[mem[r].m] # "none"
  <1>1. ~TicketFor(r) \/ t # Lead(r, 0, IF Kind(r) = "answer" THEN "form" ELSE "none")
    BY DEF Lead
  <1>2. ~(Judge(r) /\ \E u \in got : u.of = r /\ t = [u EXCEPT !.due = TRUE])
    <2>1. SUFFICES ASSUME Judge(r), NEW u \in got, u.of = r, t = [u EXCEPT !.due = TRUE] PROVE FALSE
      OBVIOUS
    <2>2. u.item = t.item
      BY <2>1, TicketFields
    <2>3. Kind(r) = "answer"
      BY <2>1, Effects
    <2>4. QED
      BY <2>1, <2>2, <2>3 DEF LeadType
  <1>3. ~(Untag(r) /\ \E u \in got : /\ t = [u EXCEPT !.tag = "none"]
                                     /\ untagged' = untagged \cup ({u.item} \cap Samples))
    <2>1. SUFFICES ASSUME NEW u \in got, t = [u EXCEPT !.tag = "none"], untagged' = untagged \cup ({u.item} \cap Samples)
                   PROVE FALSE
      OBVIOUS
    <2>2. u.item = t.item /\ u.item \in {0} \cup Samples
      BY <2>1, TicketFields
    <2>3. QED
      BY <2>1, <2>2
  <1>4. \/ ImportRow(r) /\ t = Lead(r, mem[r].m, "zd")
        \/ SeedTicket(r) /\ t = Lead(r, mem[r].m, "demo") /\ person[mem[r].m] # "none"
    BY <1>1, <1>2, <1>3, NewTickets
  <1>5. ImportRow(r) => pc[r] = "importRow" /\ Kind(r) = "import"
    BY Effects
  <1>6. SeedTicket(r) => pc[r] = "sampleTicket" /\ Kind(r) = "seed"
    BY Effects
  <1>7. mem[r].m \in Samples
    BY <1>4, <1>5, <1>6 DEF ImportInv
  <1>8. t = Lead(r, mem[r].m, IF Kind(r) = "import" THEN "zd" ELSE "demo")
    BY <1>4, <1>5, <1>6
  <1>9. t.of = r /\ t.item = mem[r].m
    BY <1>8 DEF Lead
  <1>10. QED
    BY <1>4, <1>5, <1>6, <1>7, <1>8, <1>9

\* What is still to come after a step was so before, but for what a process begins with.
LEMMA StillToCome ==
    ASSUME CoreInv, ImportInv, NEW r \in Req, IntakeStep(r), NEW i, ToCome(r, i)'
    PROVE  \/ ToCome(r, i) /\ (pc[r] \in {"importRow", "sampleTicket"} /\ i = mem[r].m => ImportFails(r))
           \/ /\ FindExisting(r) /\ Kind(r) = "import" /\ i \in Opt(r).rows
              /\ \A t \in got : t.tag = "zd" => t.item # i
           \/ SeedStatus(r) /\ Kind(r) = "seed" /\ \A t \in got : t.tag # "demo"
  <1>1. DOMAIN pc = Req /\ DOMAIN mem = Req /\ DOMAIN mem[r] = DOMAIN NoMem
    BY DEF CoreInv, ProcessType
  <1>2. CASE pc'[r] \in {"importRow", "sampleTicket"}
    BY <1>2, Takes DEF ToCome, Loading
  <1>3. CASE FindExisting(r)
    <2>1. mem'[r].ids = IF Opt(r).dry THEN {} ELSE Opt(r).rows \ {t.item : t \in {x \in got : x.tag = "zd"}}
      BY <1>1, <1>3, NoMemFields DEF FindExisting, Step, Hold
    <2>2. Kind(r) = "import" /\ pc'[r] = "nextRow"
      BY <1>3, Effects
    <2>3. i \in mem'[r].ids
      BY <2>2 DEF ToCome
    <2>4. QED
      BY <1>3, <2>1, <2>2, <2>3
  <1>4. CASE SeedStatus(r)
    <2>1. Kind(r) = "seed" /\ pc'[r] # "rejected"
      BY <1>4, Effects DEF ToCome, Loading
    <2>2. Demo = {}
      BY <1>1, <1>4, <2>1 DEF SeedStatus, Move, Step, Go
    <2>3. QED
      BY <1>4, <2>1, <2>2 DEF Demo
  <1>5. CASE pc'[r] \in {"nextRow", "sample"} /\ (ImportRow(r) \/ ImportFails(r) \/ SeedTicket(r))
    <2>1. pc[r] \in {"importRow", "sampleTicket"}
      BY <1>1, <1>5, Effects DEF ImportFails, Go
    <2>2. mem'[r].ids = mem[r].ids
      BY <1>1, <1>5 DEF ImportRow, ImportFails, SeedTicket, Move, Step, Hold
    <2>3. i \in mem[r].ids
      BY <1>5, <2>2 DEF ToCome
    <2>4. mem[r].m \notin mem[r].ids
      BY <2>1 DEF ImportInv
    <2>5. QED
      BY <2>1, <2>3, <2>4 DEF ToCome, Loading
  <1>6. QED
    BY <1>2, <1>3, <1>4, <1>5, Leads DEF ToCome, Loading

\* A process goes on with what it has left, but for the row that it saves or that cannot be saved.
LEMMA GoesOn ==
    ASSUME CoreInv, NEW r \in Req, IntakeStep(r), Kind(r) = "import", faults' = 0, NEW i, ToCome(r, i)
    PROVE  ToCome(r, i)' \/ (ImportRow(r) /\ i = mem[r].m)
  <1>1. DOMAIN pc = Req /\ DOMAIN mem = Req /\ DOMAIN mem[r] = DOMAIN NoMem /\ faults \in Nat
    BY DEF CoreInv, ProcessType
  <1>2. ~ImportFails(r)
    BY <1>1 DEF ImportFails
  <1>3. CASE ImportRow(r)
    <2>1. pc'[r] = "nextRow" /\ mem'[r] = mem[r]
      BY <1>1, <1>3 DEF ImportRow, Move, Step, Go, Hold
    <2>2. QED
      BY <1>3, <2>1 DEF ToCome, Loading
  <1>4. CASE NextRow(r)
    <2>1. pc[r] = "nextRow" /\ i \in mem[r].ids
      BY <1>4, Effects DEF ToCome
    <2>2. PICK j \in mem[r].ids : /\ mem' = [mem EXCEPT ![r] = [mem[r] EXCEPT !.ids = @ \ {j}, !.m = j]]
                                  /\ pc' = [pc EXCEPT ![r] = "importRow"]
      BY <1>4, <2>1, Zenon DEF NextRow, Step, Go, Hold
    <2>3. pc'[r] = "importRow" /\ mem'[r].ids = mem[r].ids \ {j} /\ mem'[r].m = j
      BY <1>1, <2>2, NoMemFields
    <2>4. QED
      BY <2>1, <2>3 DEF ToCome, Loading
  <1>5. pc[r] \in {"nextRow", "importRow", "sample", "sampleTicket"}
    BY DEF ToCome, Loading
  <1>6. NextRow(r) \/ ImportRow(r)
    BY <1>2, <1>5, Handlers, Effects
  <1>7. QED
    BY <1>3, <1>4, <1>6

\* Every step keeps what is said of imports and samples.
LEMMA ImportStep ==
    ASSUME CoreInv, BusyInv, LeadType, ImportInv, [Next]_vars
    PROVE  ImportInv'
  <1>1. /\ \A r \in Req : pc[r] # "free" => pc'[r] # "free" /\ Kind(r)' = Kind(r) /\ On(r)' = On(r) /\ Opt(r)' = Opt(r)
        /\ met \subseteq met' /\ faults \in Nat /\ faults' \in Nat /\ (faults' = 0 => faults = 0)
    BY Lasting DEF Kind, On, Opt
  <1>2. \A q, r \in Req : pc[q] # "free" /\ pc[r] # "free" /\ Beside(q, r) => Beside(q, r)'
    BY <1>1 DEF Beside
  <1>3. \A t \in got : t.of \in Req /\ pc[t.of] # "free"
    BY TicketFields DEF LeadType
  <1>4. CASE Aside
    <2>1. got' = got /\ untagged' = untagged /\ person' = person
      BY <1>4 DEF Aside, leads
    <2>2. \A r \in Req : pc'[r] \in Loading \cup {"imported"} => pc[r] = pc'[r] /\ mem'[r] = mem[r] /\ pc[r] # "free"
      BY <1>4 DEF Aside, Loading, IntakeSteps
    <2>3. \A r \in Req : \A i : ToCome(r, i)' => ToCome(r, i) /\ pc[r] # "free"
      BY <2>2 DEF ToCome, Loading
    <2>4. \A r \in Req : pc'[r] \in {"importRow", "sampleTicket"} => mem'[r].m \in Samples \ mem'[r].ids
      BY <2>2 DEF ImportInv, Loading
    <2>5. \A r \in Req : \A t \in got' :
            ToCome(r, t.item)' /\ Kind(t.of)' = Kind(r)' /\ t.item \notin untagged' => t.of # r /\ Beside(t.of, r)'
      BY <1>1, <1>2, <1>3, <2>1, <2>3 DEF ImportInv
    <2>6. \A t, u \in got' :
            t.item = u.item /\ t.item # 0 /\ Kind(t.of)' = Kind(u.of)' /\ t # u /\ t.item \notin untagged'
            => Beside(t.of, u.of)'
      BY <1>1, <1>2, <1>3, <2>1 DEF ImportInv
    <2>7. ASSUME faults' = 0, NEW r \in Req, Kind(r)' = "import", ~Opt(r)'.dry,
                 pc'[r] \in {"nextRow", "importRow", "imported", "done"}, NEW i \in Opt(r)'.rows
          PROVE  ToCome(r, i)' \/ \E t \in got' : t.item = i /\ Kind(t.of)' = "import"
      <3>1. pc'[r] = pc[r] /\ mem'[r] = mem[r] /\ job'[r] = job[r]
        BY <1>4, <2>7 DEF Aside, Kind, IntakeKinds
      <3>2. Kind(r) = "import" /\ Opt(r)' = Opt(r)
        BY <2>7, <3>1 DEF Kind, Opt
      <3>3. ToCome(r, i) \/ \E t \in got : t.item = i /\ Kind(t.of) = "import"
        BY <1>1, <2>7, <3>1, <3>2 DEF ImportInv
      <3>4. ToCome(r, i)' <=> ToCome(r, i)
        BY <3>1 DEF ToCome
      <3>5. QED
        BY <1>1, <1>3, <2>1, <3>3, <3>4
    <2>8. \A t \in got' : Kind(t.of)' = "seed" => person'[t.item] # "none"
      BY <1>1, <1>3, <2>1 DEF ImportInv
    <2>9. QED
      BY <2>4, <2>5, <2>6, <2>7, <2>8 DEF ImportInv
  <1>5. CASE \E r \in Req : IntakeStep(r) /\ Here(r)
    <2>1. PICK r \in Req : IntakeStep(r) /\ Here(r)
      BY <1>5
    <2>2. /\ pc[r] \notin Ended /\ pc[r] # "free" /\ DOMAIN pc = Req /\ Holds(mem'[r]) /\ Kind(r) \in IntakeKinds
          /\ \A q \in Req \ {r} : pc'[q] = pc[q] /\ mem'[q] = mem[q]
          /\ untagged \subseteq untagged'
      <3>1. untagged \subseteq untagged'
        BY <2>1, Writers DEF Untag
      <3>2. QED
        BY <2>1, <3>1 DEF Here, Walks, Ended, CoreInv, ProcessType
    <2>3. \A q \in Req \ {r} : \A i : ToCome(q, i)' <=> ToCome(q, i)
      BY <2>2 DEF ToCome
    <2>4. \A q \in Req : pc'[q] \in {"importRow", "sampleTicket"} => mem'[q].m \in Samples \ mem'[q].ids
      <3>1. SUFFICES ASSUME pc'[r] \in {"importRow", "sampleTicket"} PROVE mem'[r].m \in Samples \ mem'[r].ids
        BY <2>2 DEF ImportInv
      <3>2. mem'[r].m \in mem[r].ids /\ mem'[r].ids = mem[r].ids \ {mem'[r].m}
        BY <2>1, <3>1, Takes
      <3>3. mem[r].ids \subseteq Samples
        BY <2>2 DEF CoreInv, ProcessType, Holds
      <3>4. QED
        BY <3>2, <3>3
    <2>5. \A q \in Req : \A i : ToCome(q, i)' => i # 0 /\ pc'[q] \in Loading
      <3>1. SUFFICES ASSUME NEW q \in Req, NEW i, ToCome(q, i)' PROVE i # 0
        BY DEF ToCome
      <3>2. CASE pc'[q] \in {"importRow", "sampleTicket"} /\ i = mem'[q].m
        BY <2>4, <3>2 DEF Samples
      <3>3. CASE i \in mem'[q].ids
        <4>1. CASE q = r
          BY <2>2, <3>3, <4>1 DEF Holds, Samples
        <4>2. CASE q # r
          <5>1. pc[q] \in Loading /\ mem'[q] = mem[q]
            BY <2>2, <3>1, <4>2 DEF ToCome
          <5>2. Kind(q) \in IntakeKinds
            BY <5>1, OwnSteps DEF Loading, IntakeSteps
          <5>3. QED
            BY <3>3, <5>1, <5>2 DEF CoreInv, ProcessType, Holds, Samples
        <4>3. QED
          BY <4>1, <4>2
      <3>4. QED
        BY <3>1, <3>2, <3>3 DEF ToCome
    <2>6. ASSUME NEW q \in Req, pc[q] \in Loading
          PROVE  /\ pc[q] \notin Ended /\ pc[q] # "free" /\ Kind(q) \in {"import", "seed"}
                 /\ Kind(q) = "import" => pc[q] \in Importing
      BY <2>6, OwnSteps DEF Loading, IntakeSteps, Handled, Importing, Ended
    <2>7. ASSUME NEW q \in Req, NEW t \in got', ToCome(q, t.item)', Kind(t.of)' = Kind(q)', t.item \notin untagged'
          PROVE  t.of # q /\ Beside(t.of, q)'
      <3>1. t.item # 0 /\ pc'[q] \in Loading
        BY <2>5, <2>7
      <3>2. CASE t \in got
        <4>1. t.of \in Req /\ pc[t.of] # "free" /\ t.item \notin untagged
          BY <1>3, <2>2, <2>7, <3>2
        <4>2. CASE ToCome(q, t.item)
          <5>1. pc[q] # "free"
            BY <2>6, <4>2 DEF ToCome
          <5>2. Kind(t.of) = Kind(q)
            BY <1>1, <2>7, <4>1, <5>1
          <5>3. t.of # q /\ Beside(t.of, q)
            BY <3>2, <4>1, <4>2, <5>2 DEF ImportInv
          <5>4. QED
            BY <1>2, <4>1, <5>1, <5>3
        <4>3. CASE ~ToCome(q, t.item)
          <5>1. q = r
            BY <2>3, <2>7, <4>3
          <5>2. Kind(t.of) = Kind(r)
            BY <1>1, <2>2, <2>7, <4>1, <5>1
          <5>3. CASE Kind(r) = "import" /\ \A x \in got : x.tag = "zd" => x.item # t.item
            BY <3>2, <4>1, <5>2, <5>3 DEF LeadType
          <5>4. CASE Kind(r) = "seed" /\ \A x \in got : x.tag # "demo"
            BY <3>2, <4>1, <5>2, <5>4 DEF LeadType
          <5>5. QED
            BY <2>1, <2>7, <4>3, <5>1, <5>3, <5>4, StillToCome
        <4>4. QED
          BY <4>2, <4>3
      <3>3. CASE t \notin got
        <4>1. /\ t.of = r /\ t.item = mem[r].m
              /\ \/ ImportRow(r) /\ pc[r] = "importRow" /\ Kind(r) = "import"
                 \/ SeedTicket(r) /\ pc[r] = "sampleTicket" /\ Kind(r) = "seed"
          BY <2>1, <2>7, <3>1, <3>3, ItemsCome
        <4>2. q # r
          <5>1. SUFFICES ASSUME q = r PROVE FALSE
            OBVIOUS
          <5>2. ~ImportFails(r)
            BY <2>1, <4>1 DEF ImportFails, ImportRow, SeedTicket, Move, Step, Same, CoreInv, ProcessType
          <5>3. ~FindExisting(r) /\ ~SeedStatus(r)
            BY <4>1, Effects
          <5>4. QED
            BY <2>1, <2>7, <4>1, <5>1, <5>2, <5>3, StillToCome
        <4>3. pc[q] \in Loading
          BY <2>2, <3>1, <4>2
        <4>4. pc[q] \notin Ended /\ pc[q] # "free" /\ (Kind(q) = "import" => pc[q] \in Importing)
          BY <2>6, <4>3
        <4>5. Kind(q) = Kind(r)
          BY <1>1, <2>2, <2>7, <4>1, <4>4
        <4>6. {r, q} \in met
          BY <2>2, <4>2, <4>4, Meeting
        <4>7. Kind(r) = "import" => On(r) # On(q)
          BY <4>1, <4>2, <4>4, <4>5 DEF BusyInv, Importing
        <4>8. QED
          BY <1>2, <2>2, <4>1, <4>2, <4>4, <4>6, <4>7 DEF Beside
      <3>4. QED
        BY <3>2, <3>3
    <2>8. ASSUME NEW t \in got', NEW u \in got', t.item = u.item, t.item # 0, Kind(t.of)' = Kind(u.of)',
                 t # u, t.item \notin untagged'
          PROVE  Beside(t.of, u.of)'
      <3>1. ASSUME NEW x \in got', NEW y \in got, y \in got', x \notin got, x.item = y.item, x.item # 0,
                   Kind(x.of)' = Kind(y.of)', x.item \notin untagged'
            PROVE  Beside(x.of, y.of)' /\ Beside(y.of, x.of)'
        <4>1. /\ x.of = r /\ x.item = mem[r].m
              /\ pc[r] = "importRow" \/ pc[r] = "sampleTicket"
          BY <2>1, <3>1, ItemsCome
        <4>2. ToCome(r, y.item) /\ y.item \notin untagged /\ y.of \in Req /\ pc[y.of] # "free"
          BY <1>3, <2>2, <3>1, <4>1 DEF ToCome, Loading
        <4>3. Kind(y.of) = Kind(r)
          BY <1>1, <2>2, <3>1, <4>1, <4>2
        <4>4. Beside(y.of, r)
          BY <3>1, <4>2, <4>3 DEF ImportInv
        <4>5. Beside(r, y.of)
          <5>1. {r, y.of} = {y.of, r}
            OBVIOUS
          <5>2. QED
            BY <4>3, <4>4, <5>1 DEF Beside
        <4>6. QED
          BY <1>2, <2>2, <4>1, <4>2, <4>4, <4>5
      <3>2. CASE t \in got /\ u \in got
        <4>1. /\ t.of \in Req /\ pc[t.of] # "free" /\ u.of \in Req /\ pc[u.of] # "free" /\ t.item \notin untagged
          BY <1>3, <2>2, <2>8, <3>2
        <4>2. Beside(t.of, u.of)
          BY <1>1, <2>8, <3>2, <4>1 DEF ImportInv
        <4>3. QED
          BY <1>2, <4>1, <4>2
      <3>3. CASE t \notin got /\ u \notin got
        BY <2>1, <2>8, <3>3, ItemsCome
      <3>4. QED
        BY <2>8, <3>1, <3>2, <3>3
    <2>9. ASSUME faults' = 0, NEW q \in Req, Kind(q)' = "import", ~Opt(q)'.dry,
                 pc'[q] \in {"nextRow", "importRow", "imported", "done"}, NEW i \in Opt(q)'.rows
          PROVE  ToCome(q, i)' \/ \E t \in got' : t.item = i /\ Kind(t.of)' = "import"
      <3>1. pc[q] # "free"
        BY <2>2, <2>9
      <3>2. Kind(q) = "import" /\ Opt(q)' = Opt(q) /\ faults = 0
        BY <1>1, <2>9, <3>1
      <3>3. ASSUME NEW t \in got, t.item = i, Kind(t.of) = "import"
            PROVE  \E u \in got' : u.item = i /\ Kind(u.of)' = "import"
        <4>1. PICK u \in got' : u.of = t.of /\ u.item = t.item
          BY <2>1, <3>3, TicketsStay
        <4>2. Kind(u.of)' = "import"
          BY <1>1, <1>3, <3>3, <4>1
        <4>3. QED
          BY <3>3, <4>1, <4>2
      <3>4. CASE q # r
        <4>1. ToCome(q, i) \/ \E t \in got : t.item = i /\ Kind(t.of) = "import"
          BY <2>2, <2>9, <3>2, <3>4 DEF ImportInv
        <4>2. QED
          BY <2>3, <3>3, <3>4, <4>1
      <3>5. CASE q = r /\ pc[r] \in {"nextRow", "importRow", "imported"}
        <4>1. ToCome(r, i) \/ \E t \in got : t.item = i /\ Kind(t.of) = "import"
          BY <2>9, <3>2, <3>5 DEF ImportInv
        <4>2. CASE ToCome(r, i)
          <5>1. CASE ToCome(r, i)'
            BY <3>5, <5>1
          <5>2. CASE ImportRow(r) /\ i = mem[r].m
            <6>1. Lead(r, i, "zd") \in got'
              BY <5>2 DEF ImportRow
            <6>2. Lead(r, i, "zd").item = i /\ Lead(r, i, "zd").of = r
              BY DEF Lead
            <6>3. QED
              BY <2>9, <3>5, <6>1, <6>2
          <5>3. QED
            BY <2>1, <2>9, <3>2, <3>5, <4>2, <5>1, <5>2, GoesOn
        <4>3. QED
          BY <3>3, <4>1, <4>2
      <3>6. CASE q = r /\ pc[r] \notin {"nextRow", "importRow", "imported"}
        <4>1. FindExisting(r)
          <5>1. ~ImportFails(r)
            BY <1>1, <2>9 DEF ImportFails
          <5>2. QED
            BY <2>1, <2>9, <3>2, <3>6, <5>1, Handlers, Effects
        <4>2. DOMAIN mem = Req /\ DOMAIN mem[r] = DOMAIN NoMem /\ pc'[r] = "nextRow"
          BY <4>1, Effects DEF CoreInv, ProcessType
        <4>3. mem'[r].ids = Opt(r).rows \ {t.item : t \in {x \in got : x.tag = "zd"}}
          BY <2>9, <3>2, <3>6, <4>1, <4>2, NoMemFields DEF FindExisting, Step, Hold
        <4>4. CASE i \in mem'[r].ids
          BY <3>6, <4>2, <4>4 DEF ToCome, Loading
        <4>5. CASE i \notin mem'[r].ids
          <5>1. PICK t \in got : t.tag = "zd" /\ t.item = i
            BY <2>9, <3>2, <3>6, <4>3, <4>5
          <5>2. Kind(t.of) = "import"
            BY <5>1 DEF LeadType
          <5>3. QED
            BY <3>3, <5>1, <5>2
        <4>6. QED
          BY <4>4, <4>5
      <3>7. QED
        BY <3>4, <3>5, <3>6
    <2>10. ASSUME NEW t \in got', Kind(t.of)' = "seed" PROVE person'[t.item] # "none"
      <3>1. \A p \in {First} \cup Samples : person'[p] = "none" => person[p] = "none" \/ Clear(r)
        BY <2>1, Writers, Zenon DEF KnowPerson, Block, NextRow, SeedCustomer, LeadType
      <3>2. CASE Clear(r)
        <4>1. t \in got
          BY <3>2 DEF Clear
        <4>2. t.item \in {0} \cup Samples /\ t.of \in Req /\ pc[t.of] # "free"
          BY <1>3, <4>1, TicketFields
        <4>3. Kind(t.of) = "seed" /\ t.item \in Samples
          BY <1>1, <2>10, <4>1, <4>2 DEF LeadType
        <4>4. person'[t.item] = person[t.item]
          BY <3>2, <4>3 DEF Clear, LeadType
        <4>5. QED
          BY <4>1, <4>3, <4>4 DEF ImportInv
      <3>3. ASSUME ~Clear(r), NEW u \in got, u.of = t.of, u.item = t.item PROVE person'[t.item] # "none"
        <4>1. u.item \in {0} \cup Samples /\ u.of \in Req /\ pc[u.of] # "free"
          BY <1>3, TicketFields
        <4>2. Kind(u.of) = "seed" /\ u.item \in Samples
          BY <1>1, <2>10, <3>3, <4>1 DEF LeadType
        <4>3. QED
          BY <3>1, <3>3, <4>2 DEF ImportInv
      <3>4. CASE t \notin got /\ SeedTicket(r) /\ t = Lead(r, mem[r].m, "demo")
        <4>1. person[mem[r].m] # "none" /\ t.item = mem[r].m /\ person' = person
          BY <3>4, Effects DEF SeedTicket, Lead
        <4>2. QED
          BY <4>1
      <3>5. CASE t \notin got /\ (TicketFor(r) \/ ImportRow(r)) /\ t.of = r
        BY <1>1, <2>2, <2>10, <3>5, Effects
      <3>6. CASE t \notin got
        <4>1. (\E u \in got : t = [u EXCEPT !.due = TRUE] \/ t = [u EXCEPT !.tag = "none"])
                 => \E u \in got : u.of = t.of /\ u.item = t.item
          <5>1. SUFFICES ASSUME NEW u \in got, t = [u EXCEPT !.due = TRUE] \/ t = [u EXCEPT !.tag = "none"]
                         PROVE u.of = t.of /\ u.item = t.item
            OBVIOUS
          <5>2. CASE t = [u EXCEPT !.due = TRUE]
            BY <5>2, TicketFields
          <5>3. CASE t = [u EXCEPT !.tag = "none"]
            BY <5>3, TicketFields
          <5>4. QED
            BY <5>1, <5>2, <5>3
        <4>2. TicketFor(r) \/ ImportRow(r) => \A item, tag : Lead(r, item, tag).of = r
          BY DEF Lead
        <4>3. ~Clear(r)
          BY <3>6 DEF Clear
        <4>4. \/ TicketFor(r) /\ t.of = r
              \/ ImportRow(r) /\ t.of = r
              \/ SeedTicket(r) /\ t = Lead(r, mem[r].m, "demo")
              \/ \E u \in got : u.of = t.of /\ u.item = t.item
          BY <2>1, <3>6, <4>1, <4>2, NewTickets
        <4>5. QED
          BY <3>3, <3>4, <3>5, <3>6, <4>3, <4>4
      <3>7. QED
        BY <3>2, <3>3, <3>6
    <2>11. QED
      BY <2>4, <2>7, <2>8, <2>9, <2>10 DEF ImportInv
  <1>6. QED
    BY <1>4, <1>5, HereOrAside

-----------------------------------------------------------------------------
(* Submissions are kept *)

\* A step of somebody else keeps what is said of submissions.
LEMMA SubmissionAside ==
    ASSUME CoreInv, LeadType, SubmissionInv, [Next]_vars, Aside
    PROVE  SubmissionInv'
  <1>1. /\ \A r \in Req : pc[r] # "free" => pc'[r] # "free" /\ job'[r] = job[r]
        /\ met \subseteq met' /\ faults \in Nat /\ faults' \in Nat /\ (faults' = 0 => faults = 0)
    BY Lasting
  <1>2. got' = got /\ said' = said /\ person' = person
    BY DEF Aside, leads
  <1>3. /\ \A t \in got : t.of \in Req /\ pc[t.of] # "free" /\ (t.item = 0 => Kind(t.of) \in {"answer", "api"})
        /\ \A s \in said : s[1] \in Req /\ pc[s[1]] # "free" /\ Kind(s[1]) = "say"
    BY TicketFields DEF LeadType
  <1>4. \A r \in Req : pc[r] # "free" /\ Kind(r) \in {"answer", "api", "say"} => pc'[r] = pc[r] /\ mem'[r] = mem[r]
    BY DEF Aside, IntakeKinds
  <1>5. \A r \in Req : Kind(r)' = "answer" => \/ pc[r] = "free" /\ pc'[r] = "start"
                                              \/ Kind(r) = "answer" /\ pc[r] # "free"
    BY <1>1 DEF Aside, Kind, CoreInv, ProcessType
  <1>6. \A q \in Req : Blocks(q)' => Blocks(q) /\ pc[q] # "free"
    BY DEF Aside, Blocks, Kind, IntakeKinds
  <1>7. ASSUME faults' = 0
        PROVE  /\ \A t \in got' : t.item = 0 => pc'[t.of] \notin {"start", "person", "ticket"}
               /\ \A t, u \in got' : t.of = u.of /\ t.item = 0 => t = u
               /\ \A s \in said' : pc'[s[1]] # "start"
               /\ \A s, u \in said' : s[1] = u[1] => s = u
    BY <1>1, <1>2, <1>3, <1>4, <1>7 DEF SubmissionInv
  <1>8. ASSUME NEW r \in Req, Kind(r)' = "answer"
        PROVE  /\ pc'[r] \in {"person", "ticket", "judge", "reply"} => Opt(r)'.is # "bot"
               /\ pc'[r] = "judge" => \E t \in got' : t.of = r /\ t.try = mem'[r].tries
               /\ pc'[r] = "reply" \/ (pc'[r] = "done" /\ Opt(r)'.is # "bot") => Ticketed(r)'
               /\ \A t \in got' : t.of = r => Opt(r)'.is # "bot"
               /\ pc'[r] = "ticket" \/ (\E t \in got' : t.of = r) => \A q \in Req : Blocks(q)' /\ q < r => {q, r} \in met'
    <2>1. CASE pc[r] = "free" /\ pc'[r] = "start"
      BY <1>2, <1>3, <2>1
    <2>2. CASE Kind(r) = "answer" /\ pc[r] # "free"
      <3>1. pc'[r] = pc[r] /\ mem'[r] = mem[r] /\ Opt(r)' = Opt(r)
        BY <1>1, <1>4, <2>2 DEF Opt
      <3>2. Ticketed(r) => Ticketed(r)'
        BY <1>1, <1>2, <3>1 DEF Ticketed
      <3>3. QED
        BY <1>1, <1>2, <1>6, <2>2, <3>1, <3>2 DEF SubmissionInv
    <2>3. QED
      BY <1>5, <1>8, <2>1, <2>2
  <1>9. \A q \in Req : Blocks(q)' => person'[First] = "blocked"
    BY <1>2, <1>6 DEF SubmissionInv
  <1>10. QED
    BY <1>7, <1>8, <1>9 DEF SubmissionInv

\* While nothing has failed no step sends anything twice.
LEMMA OnceStep ==
    ASSUME CoreInv, LeadType, ImportInv, SubmissionInv, [Next]_vars,
           NEW r \in Req, IntakeStep(r), Here(r), faults' = 0
    PROVE  /\ \A t \in got' : t.item = 0 => pc'[t.of] \notin {"start", "person", "ticket"}
           /\ \A t, u \in got' : t.of = u.of /\ t.item = 0 => t = u
           /\ \A s \in said' : pc'[s[1]] # "start"
           /\ \A s, u \in said' : s[1] = u[1] => s = u
  <1>1. faults = 0 /\ pc[r] \notin Ended /\ \A q \in Req \ {r} : pc'[q] = pc[q]
    BY Lasting DEF Here, Walks
  <1>2. ~SendAgain(r)
    BY <1>1 DEF SendAgain
  <1>3. pc'[r] # "start"
    BY <1>2, Leads
  <1>4. pc'[r] = "person" => pc[r] = "start"
    BY Leads, Effects
  <1>5. pc'[r] = "ticket" => pc[r] = "person"
    BY Leads, Effects
  <1>6. \A t \in got : t.of \in Req
    BY TicketFields
  <1>7. \A s \in said : s[1] \in Req
    BY DEF LeadType
  <1>8. /\ \A t \in got : t.item = 0 => pc[t.of] \notin {"start", "person", "ticket"}
        /\ \A t, u \in got : t.of = u.of /\ t.item = 0 => t = u
        /\ \A s \in said : pc[s[1]] # "start"
        /\ \A s, u \in said : s[1] = u[1] => s = u
    BY <1>1 DEF SubmissionInv
  <1>9. ASSUME NEW t \in got', t.item = 0
        PROVE  \/ \E u \in got : u.of = t.of /\ u.item = t.item
               \/ t.of = r /\ TicketFor(r)
    <2>1. CASE t \in got
      BY <2>1
    <2>2. CASE TicketFor(r) /\ t = Lead(r, 0, IF Kind(r) = "answer" THEN "form" ELSE "none")
      BY <2>2 DEF Lead
    <2>3. CASE \/ ImportRow(r) /\ t = Lead(r, mem[r].m, "zd")
               \/ SeedTicket(r) /\ t = Lead(r, mem[r].m, "demo")
      <3>1. pc[r] \in {"importRow", "sampleTicket"}
        BY <2>3, Effects
      <3>2. QED
        BY <1>9, <2>3, <3>1 DEF ImportInv, Samples, Lead
    <2>4. CASE \E u \in got : t = [u EXCEPT !.due = TRUE]
      BY <2>4, TicketFields
    <2>5. CASE \E u \in got : t = [u EXCEPT !.tag = "none"]
      BY <2>5, TicketFields
    <2>6. QED
      BY <2>1, <2>2, <2>3, <2>4, <2>5, NewTickets
  <1>10. \A t \in got' : t.item = 0 => pc'[t.of] \notin {"start", "person", "ticket"}
    <2>1. SUFFICES ASSUME NEW t \in got', t.item = 0 PROVE pc'[t.of] \notin {"start", "person", "ticket"}
      OBVIOUS
    <2>2. CASE t.of = r /\ TicketFor(r)
      BY <2>2, Effects
    <2>3. CASE \E u \in got : u.of = t.of /\ u.item = t.item
      BY <1>1, <1>3, <1>4, <1>5, <1>6, <1>8, <2>1, <2>3
    <2>4. QED
      BY <1>9, <2>1, <2>2, <2>3
  <1>11. \A t, u \in got' : t.of = u.of /\ t.item = 0 => t = u
    <2>1. CASE got' \subseteq got
      BY <1>8, <2>1
    <2>2. CASE TicketFor(r)
      <3>1. pc[r] = "ticket" /\ Kind(r) \in {"answer", "api"}
        BY <2>2, Effects
      <3>2. \A t \in got : t.of # r
        BY <1>8, <3>1 DEF LeadType
      <3>3. PICK l : got' = got \cup {l} /\ l.of = r
        <4>1. \A tag : Lead(r, 0, tag).of = r
          BY DEF Lead
        <4>2. \E tag : got' = got \cup {Lead(r, 0, tag)}
          BY <2>2, Zenon DEF TicketFor
        <4>3. QED
          BY <4>1, <4>2
      <3>4. QED
        BY <1>8, <3>2, <3>3
    <2>3. CASE ImportRow(r) \/ SeedTicket(r)
      <3>1. pc[r] \in {"importRow", "sampleTicket"} /\ Kind(r) \in {"import", "seed"}
        BY <2>3, Effects
      <3>2. \A t \in got : t.item = 0 => t.of # r
        BY <3>1 DEF LeadType
      <3>3. mem[r].m # 0
        BY <3>1 DEF ImportInv, Samples
      <3>4. got' = got \/ \E l : got' = got \cup {l} /\ l.of = r /\ l.item # 0
        <4>1. \A tag : Lead(r, mem[r].m, tag).of = r /\ Lead(r, mem[r].m, tag).item # 0
          BY <3>3 DEF Lead
        <4>2. got' = got \/ \E tag : got' = got \cup {Lead(r, mem[r].m, tag)}
          BY <2>3, Zenon DEF ImportRow, SeedTicket
        <4>3. QED
          BY <4>1, <4>2
      <3>5. QED
        BY <1>8, <3>2, <3>4
    <2>4. CASE Judge(r)
      <3>1. CASE got' = {IF t.of = r /\ t.try = mem[r].tries THEN [t EXCEPT !.due = TRUE] ELSE t : t \in got}
        <4>1. SUFFICES ASSUME NEW t \in got', NEW u \in got', t.of = u.of, t.item = 0 PROVE t = u
          OBVIOUS
        <4>2. PICK x \in got : t = IF x.of = r /\ x.try = mem[r].tries THEN [x EXCEPT !.due = TRUE] ELSE x
          BY <3>1
        <4>3. PICK y \in got : u = IF y.of = r /\ y.try = mem[r].tries THEN [y EXCEPT !.due = TRUE] ELSE y
          BY <3>1
        <4>4. x.of = t.of /\ x.item = t.item
          BY <4>2, TicketFields
        <4>5. y.of = u.of
          BY <4>3, TicketFields
        <4>6. QED
          BY <1>8, <4>1, <4>2, <4>3, <4>4, <4>5
      <3>2. QED
        BY <2>1, <2>4, <3>1 DEF Judge
    <2>5. CASE Untag(r)
      <3>1. PICK x \in got : got' = (got \ {x}) \cup {[x EXCEPT !.tag = "none"]}
        BY <2>5 DEF Untag
      <3>2. PICK l : l = [x EXCEPT !.tag = "none"]
        OBVIOUS
      <3>3. l.of = x.of /\ l.item = x.item
        BY <3>2, TicketFields
      <3>4. got' = (got \ {x}) \cup {l}
        BY <3>1, <3>2
      <3>5. QED
        BY <1>8, <3>3, <3>4
    <2>6. CASE Clear(r)
      BY <2>1, <2>6 DEF Clear
    <2>7. QED
      BY <2>1, <2>2, <2>3, <2>4, <2>5, <2>6, Writers
  <1>12. /\ \A s \in said' : pc'[s[1]] # "start"
         /\ \A s, u \in said' : s[1] = u[1] => s = u
    <2>1. CASE said' = said
      BY <1>1, <1>3, <1>7, <1>8, <2>1
    <2>2. CASE SayMessage(r)
      <3>1. said' = said \cup {<<r, mem[r].tries>>} /\ pc[r] = "start"
        BY <2>2, Effects DEF SayMessage
      <3>2. \A s \in said : s[1] # r
        BY <1>8, <3>1
      <3>3. QED
        BY <1>1, <1>3, <1>7, <1>8, <3>1, <3>2
    <2>3. QED
      BY <2>1, <2>2, Writers
  <1>13. QED
    BY <1>10, <1>11, <1>12

\* Somebody blocked stays so.
LEMMA BlockedStep ==
    ASSUME CoreInv, LeadType, SubmissionInv, NEW r \in Req, IntakeStep(r), Here(r),
           NEW b \in Req, Blocks(b)'
    PROVE  /\ person'[First] = "blocked"
           /\ Blocks(b) \/ (b = r /\ Block(r))
  <1>1. /\ pc[r] \notin Ended /\ \A q \in Req \ {r} : pc'[q] = pc[q]
        /\ \A q \in Req : Kind(q)' = Kind(q)
    BY DEF Here, Walks, Kind
  <1>2. CASE b = r
    <2>1. Block(r)
      BY <1>1, <1>2, Handlers DEF Blocks
    <2>2. person'[First] = "blocked"
      BY <2>1 DEF Block, LeadType
    <2>3. QED
      BY <1>2, <2>1, <2>2
  <1>3. CASE b # r
    <2>1. Blocks(b)
      BY <1>1, <1>3 DEF Blocks
    <2>2. person[First] = "blocked"
      BY <2>1 DEF SubmissionInv
    <2>3. First \notin Samples
      BY IntakeAssumption DEF Samples
    <2>4. CASE KnowPerson(r) \/ Block(r) \/ NextRow(r)
      BY <2>1, <2>2, <2>4, Zenon DEF KnowPerson, Block, NextRow, LeadType
    <2>5. CASE SeedCustomer(r)
      <3>1. CASE mem[r].ids = {}
        BY <2>1, <2>2, <2>5, <3>1 DEF SeedCustomer
      <3>2. CASE mem[r].ids # {}
        <4>1. person' = [person EXCEPT ![CHOOSE x \in mem[r].ids : \A y \in mem[r].ids : x <= y] = "active"]
          BY <2>5, <3>2 DEF SeedCustomer
        <4>2. mem[r].ids \subseteq Samples
          BY DEF Here, CoreInv, ProcessType, Holds
        <4>3. (CHOOSE x \in mem[r].ids : \A y \in mem[r].ids : x <= y) \in mem[r].ids
          BY <3>2, <4>2, LeastIsThere DEF Samples
        <4>4. QED
          BY <2>1, <2>2, <2>3, <4>1, <4>2, <4>3 DEF LeadType
      <3>3. QED
        BY <3>1, <3>2
    <2>6. CASE Clear(r)
      BY <2>1, <2>2, <2>3, <2>6 DEF Clear, LeadType
    <2>7. QED
      BY <2>1, <2>2, <2>4, <2>5, <2>6, Writers
  <1>4. QED
    BY <1>2, <1>3

\* What is said of the ticket of each submission is kept.
LEMMA AnswerStep ==
    ASSUME CoreInv, LeadType, SubmissionInv, [Next]_vars, NEW r \in Req, IntakeStep(r), Here(r),
           NEW q \in Req, Kind(q)' = "answer"
    PROVE  /\ pc'[q] \in {"person", "ticket", "judge", "reply"} => Opt(q)'.is # "bot"
           /\ pc'[q] = "judge" => \E t \in got' : t.of = q /\ t.try = mem'[q].tries
           /\ pc'[q] = "reply" \/ (pc'[q] = "done" /\ Opt(q)'.is # "bot") => Ticketed(q)'
           /\ \A t \in got' : t.of = q => Opt(q)'.is # "bot"
           /\ pc'[q] = "ticket" \/ (\E t \in got' : t.of = q) => \A b \in Req : Blocks(b)' /\ b < q => {b, q} \in met'
  <1>1. /\ pc[r] \notin Ended /\ pc[r] # "free" /\ DOMAIN pc = Req /\ DOMAIN mem = Req
        /\ job' = job /\ met' = met /\ \A p \in Req \ {r} : pc'[p] = pc[p] /\ mem'[p] = mem[p]
    BY DEF Here, Walks, Ended, CoreInv, ProcessType
  <1>2. Kind(q) = "answer" /\ Opt(q)' = Opt(q) /\ faults \in Nat /\ faults' \in Nat /\ (faults' = 0 => faults = 0)
    BY <1>1, Lasting DEF Kind, Opt
  <1>3. \A t \in got : t.of = q => t.of \in Req /\ \E u \in got' : u.of = q /\ u.item = t.item /\ u.try = t.try /\ (t.due => u.due)
    BY <1>2, TicketsStay
  <1>4. /\ pc[q] \in {"person", "ticket", "judge", "reply"} => Opt(q).is # "bot"
        /\ pc[q] = "judge" => \E t \in got : t.of = q /\ t.try = mem[q].tries
        /\ pc[q] = "reply" \/ (pc[q] = "done" /\ Opt(q).is # "bot") => Ticketed(q)
        /\ \A t \in got : t.of = q => Opt(q).is # "bot"
        /\ pc[q] = "ticket" \/ (\E t \in got : t.of = q) => \A b \in Req : Blocks(b) /\ b < q => {b, q} \in met
    BY <1>2 DEF SubmissionInv
  <1>5. Ticketed(q) => Ticketed(q)'
    BY <1>2, <1>3 DEF Ticketed
  <1>6. ASSUME NEW t \in got', t.of = q
        PROVE  (\E u \in got : u.of = q) \/ (q = r /\ TicketFor(r))
    <2>1. CASE t \in got
      BY <1>6, <2>1
    <2>2. CASE \E u \in got : t = [u EXCEPT !.due = TRUE]
      BY <1>6, <2>2, TicketFields
    <2>3. CASE \E u \in got : t = [u EXCEPT !.tag = "none"]
      BY <1>6, <2>3, TicketFields
    <2>4. CASE TicketFor(r) \/ ImportRow(r) \/ SeedTicket(r)
      <3>1. \A item, tag : Lead(r, item, tag).of = r
        BY DEF Lead
      <3>2. CASE t \notin got /\ t.of = r
        BY <1>2, <1>6, <2>4, <3>2, Effects
      <3>3. QED
        BY <2>1, <2>2, <2>3, <3>1, <3>2, NewTickets
    <2>5. QED
      BY <2>1, <2>2, <2>3, <2>4, NewTickets
  <1>7. ASSUME q = r
        PROVE  \/ ReadForm(r) \/ KnowPerson(r) \/ TicketFor(r) \/ Judge(r) \/ JudgeFails(r) \/ Replied(r) \/ SendAgain(r)
    BY <1>2, <1>7, Handlers
  <1>8. pc'[q] \in {"person", "ticket", "judge", "reply"} => Opt(q)'.is # "bot"
    <2>1. CASE q = r /\ ReadForm(r)
      BY <1>1, <1>2, <2>1 DEF ReadForm, Move, Step, Go
    <2>2. CASE q = r /\ ~ReadForm(r)
      BY <1>2, <1>4, <1>7, <2>2, Effects
    <2>3. QED
      BY <1>1, <1>2, <1>4, <2>1, <2>2
  <1>9. pc'[q] = "judge" => \E t \in got' : t.of = q /\ t.try = mem'[q].tries
    <2>1. CASE q # r
      BY <1>1, <1>3, <1>4, <2>1
    <2>2. CASE q = r /\ TicketFor(r)
      <3>1. Lead(r, 0, "form") \in got' /\ mem'[r] = mem[r]
        BY <1>1, <1>2, <2>2 DEF TicketFor, Move, Step, Hold
      <3>2. Lead(r, 0, "form").of = r /\ Lead(r, 0, "form").try = mem[r].tries
        BY DEF Lead
      <3>3. QED
        BY <2>2, <3>1, <3>2
    <2>3. QED
      BY <2>1, <2>2, Leads
  <1>10. pc'[q] = "reply" \/ (pc'[q] = "done" /\ Opt(q)'.is # "bot") => Ticketed(q)'
    <2>1. SUFFICES ASSUME pc'[q] = "reply" \/ (pc'[q] = "done" /\ Opt(q)'.is # "bot") PROVE Ticketed(q)'
      OBVIOUS
    <2>2. CASE q # r
      BY <1>1, <1>2, <1>4, <1>5, <2>1, <2>2
    <2>3. CASE q = r /\ Judge(r)
      <3>1. PICK t \in got : t.of = r /\ t.try = mem[r].tries
        BY <1>4, <2>3, Effects
      <3>2. CASE Opt(r).is = "serious"
        <4>1. [t EXCEPT !.due = TRUE] \in got'
          BY <2>3, <3>1, <3>2 DEF Judge
        <4>2. [t EXCEPT !.due = TRUE].of = r /\ [t EXCEPT !.due = TRUE].due
          BY <3>1, TicketFields
        <4>3. QED
          BY <2>3, <4>1, <4>2 DEF Ticketed
      <3>3. CASE Opt(r).is # "serious"
        <4>1. \E u \in got' : u.of = r
          BY <1>3, <2>3, <3>1
        <4>2. QED
          BY <1>2, <2>3, <3>3, <4>1 DEF Ticketed
      <3>4. QED
        BY <3>2, <3>3
    <2>4. CASE q = r /\ JudgeFails(r)
      <3>1. \E u \in got' : u.of = r
        BY <1>3, <1>4, <2>4, Effects
      <3>2. faults' # 0
        BY <1>2, <2>4 DEF JudgeFails
      <3>3. QED
        BY <2>4, <3>1, <3>2 DEF Ticketed
    <2>5. CASE q = r /\ Replied(r)
      BY <1>4, <1>5, <2>5, Effects
    <2>6. CASE q = r /\ ReadForm(r)
      BY <1>1, <1>2, <2>1, <2>6 DEF ReadForm, Move, Step, Go
    <2>7. CASE q = r /\ (KnowPerson(r) \/ TicketFor(r) \/ SendAgain(r))
      <3>1. ~TicketFor(r)
        BY <1>1, <1>2, <2>1, <2>7 DEF TicketFor, Move, Step, Go
      <3>2. QED
        BY <2>1, <2>7, <3>1, Effects
    <2>8. QED
      BY <1>7, <2>2, <2>3, <2>4, <2>5, <2>6, <2>7
  <1>11. \A t \in got' : t.of = q => Opt(q)'.is # "bot"
    BY <1>2, <1>4, <1>6, Effects
  <1>12. ASSUME pc'[q] = "ticket" \/ (\E t \in got' : t.of = q), NEW b \in Req, Blocks(b)', b < q
         PROVE  {b, q} \in met'
    <2>1. CASE b = r /\ Block(r)
      <3>1. pc[q] # "free"
        BY <1>2 DEF CoreInv, ProcessType
      <3>2. QED
        BY <1>1, <1>12, <2>1, <3>1 DEF CoreInv, Sequential
    <2>2. CASE Blocks(b)
      <3>1. ~(q = r /\ KnowPerson(r) /\ pc'[q] = "ticket")
        <4>1. person[First] = "blocked"
          BY <2>2 DEF SubmissionInv
        <4>2. QED
          BY <1>1, <4>1 DEF KnowPerson, Move, Step, Go
      <3>2. pc'[q] = "ticket" => pc[q] = "ticket"
        BY <1>1, <3>1, Leads
      <3>3. pc[q] = "ticket" \/ \E t \in got : t.of = q
        BY <1>6, <1>12, <3>2, Effects
      <3>4. QED
        BY <1>1, <1>4, <1>12, <2>2, <3>3
    <2>3. QED
      BY <1>12, <2>1, <2>2, BlockedStep
  <1>13. QED
    BY <1>8, <1>9, <1>10, <1>11, <1>12

\* Every step keeps what is said of submissions.
LEMMA SubmissionStep ==
    ASSUME CoreInv, LeadType, ImportInv, SubmissionInv, [Next]_vars
    PROVE  SubmissionInv'
  <1>1. CASE Aside
    BY <1>1, SubmissionAside
  <1>2. CASE \E r \in Req : IntakeStep(r) /\ Here(r)
    <2>1. PICK r \in Req : IntakeStep(r) /\ Here(r)
      BY <1>2
    <2>2. faults' = 0 =>
            /\ \A t \in got' : t.item = 0 => pc'[t.of] \notin {"start", "person", "ticket"}
            /\ \A t, u \in got' : t.of = u.of /\ t.item = 0 => t = u
            /\ \A s \in said' : pc'[s[1]] # "start"
            /\ \A s, u \in said' : s[1] = u[1] => s = u
      BY <2>1, OnceStep
    <2>3. \A q \in Req : Kind(q)' = "answer" =>
            /\ pc'[q] \in {"person", "ticket", "judge", "reply"} => Opt(q)'.is # "bot"
            /\ pc'[q] = "judge" => \E t \in got' : t.of = q /\ t.try = mem'[q].tries
            /\ pc'[q] = "reply" \/ (pc'[q] = "done" /\ Opt(q)'.is # "bot") => Ticketed(q)'
            /\ \A t \in got' : t.of = q => Opt(q)'.is # "bot"
            /\ pc'[q] = "ticket" \/ (\E t \in got' : t.of = q) => \A b \in Req : Blocks(b)' /\ b < q => {b, q} \in met'
      BY <2>1, AnswerStep
    <2>4. \A b \in Req : Blocks(b)' => person'[First] = "blocked"
      BY <2>1, BlockedStep
    <2>5. QED
      BY <2>2, <2>3, <2>4 DEF SubmissionInv
  <1>3. QED
    BY <1>1, <1>2, HereOrAside

-----------------------------------------------------------------------------
(* The theorems *)

\* The invariant holds at the start.
LEMMA IntakeInvInit == Init => IntakeInv
  <1>1. SUFFICES ASSUME Init PROVE IntakeInv
    OBVIOUS
  <1>2. /\ pc = [r \in Req |-> "free"] /\ job = [r \in Req |-> [kind |-> "none", on |-> None, opt |-> None]]
        /\ met = {} /\ faults = 0
        /\ form = [f \in Fid |-> [live |-> f = First, active |-> f = First]]
        /\ person = [p \in {First} \cup Samples |-> "none"]
        /\ got = {} /\ said = {} /\ busy = {} /\ cases = {} /\ shop = None
        /\ solved = TRUE /\ rating = None /\ untagged = {} /\ twins = {}
    BY <1>1 DEF Init, InboxInit
  <1>3. CoreInv
    BY <1>1, CoreInit
  <1>4. LimitInv
    <2>1. Cardinality(LiveForms) <= 1
      <3>1. LiveForms = {First}
        BY <1>2 DEF LiveForms, Fid
      <3>2. QED
        BY <3>1, FS_Singleton
    <2>2. Cardinality(cases) = 0
      BY <1>2, FS_EmptySet
    <2>3. form \in [Fid -> [live : BOOLEAN, active : BOOLEAN]]
      BY <1>2
    <2>4. Cardinality(LiveForms) \in Nat
      BY Countable
    <2>5. QED
      BY <1>2, <2>1, <2>2, <2>3, <2>4, IntakeAssumption DEF LimitInv
  <1>5. BusyInv
    BY <1>2 DEF BusyInv, Importing
  <1>6. ShopInv /\ RatingInv
    BY <1>2 DEF ShopInv, RatingInv
  <1>7. LeadType /\ ImportInv
    BY <1>2 DEF LeadType, ImportInv, Kind
  <1>8. SubmissionInv
    BY <1>2 DEF SubmissionInv, Blocks, Kind
  <1>9. QED
    BY <1>3, <1>4, <1>5, <1>6, <1>7, <1>8 DEF IntakeInv, GuardInv

\* In every reachable state the invariant holds: processes are on their way through their handlers, and
\* what the guards, the rows, the tickets and the submissions rest on is there.
THEOREM InvariantHolds == Spec => []IntakeInv
  <1>1. IntakeInv /\ [Next]_vars => IntakeInv'
    BY CoreStep, LimitStep, BusyStep, ShopStep, RatingStep, LeadStep, ImportStep, SubmissionStep
       DEF IntakeInv, GuardInv
  <1>2. QED
    BY IntakeInvInit, <1>1, PTL DEF Spec

\* The number of forms and of cases stays below its limit unless two additions overlapped; an evaluation
\* runs alone in its API process unless it was admitted beside another; a disconnect leaves no token, and
\* a rating is of a solved ticket, unless something overlapped them; and whoever is noted as running is.
THEOREM GuardsAreKept == Spec => []GuardsHold
  <1>1. IntakeInv => GuardsHold
    <2>1. SUFFICES ASSUME IntakeInv PROVE GuardsHold
      OBVIOUS
    <2>2. CoreInv /\ LimitInv /\ BusyInv /\ ShopInv /\ RatingInv
      BY <2>1 DEF IntakeInv, GuardInv
    <2>3. ASSUME NEW kind \in {"newForm", "newCase"},
                 Cardinality(IF kind = "newForm" THEN LiveForms ELSE cases) > Limit
          PROVE  \E q, r \in Req : q # r /\ {q, r} \in met /\ Kind(q) = kind /\ Kind(r) = kind
      <3>1. cases \subseteq Req
        BY <2>2 DEF LimitInv
      <3>2. Cardinality(LiveForms) \in Nat /\ Cardinality(cases) \in Nat
        BY <3>1, Countable
      <3>3. CASE kind = "newForm"
        <4>1. ~(Cardinality(LiveForms) <= Limit)
          BY <2>3, <3>2, <3>3, IntakeAssumption
        <4>2. Twice("newForm")
          BY <2>2, <4>1 DEF LimitInv
        <4>3. QED
          BY <3>3, <4>2 DEF Twice
      <3>4. CASE kind = "newCase"
        <4>1. ~(Cardinality(cases) <= Limit)
          BY <2>3, <3>2, <3>4, IntakeAssumption
        <4>2. Twice("newCase")
          BY <2>2, <4>1 DEF LimitInv
        <4>3. QED
          BY <3>4, <4>2 DEF Twice
      <3>5. QED
        BY <3>3, <3>4
    <2>4. \A q, r \in Req : q # r /\ At(q, "asking") /\ At(r, "asking") /\ On(q) = On(r) =>
            \E pair \in twins : \A x \in pair : On(x) = On(r)
      BY <2>2 DEF BusyInv, At, Paired
    <2>5. \A u \in busy : u.of \in InFlight
      <3>1. SUFFICES ASSUME NEW u \in busy PROVE u.of \in InFlight
        OBVIOUS
      <3>2. PICK r \in Req : u = Claim(r) /\ pc[r] \in Importing \cup {"asking"}
        BY <2>2 DEF BusyInv
      <3>3. QED
        BY <3>2 DEF Claim, Importing, InFlight, Ended
    <2>6. /\ \A r \in Req : Kind(r) = "disconnectShop" /\ pc[r] = "done" /\ shop # None /\ shop < r => {shop, r} \in met
          /\ rating # None /\ ~rating.solved => \E r \in Req : Kind(r) = "reopen" /\ {r, rating.of} \in met
      BY <2>2 DEF ShopInv, RatingInv, Reopened
    <2>7. QED
      BY <2>3, <2>4, <2>5, <2>6 DEF GuardsHold
  <1>2. QED
    BY <1>1, InvariantHolds, PTL

\* A row and a sample become one ticket, unless imports of two API processes or two loads overlapped or
\* the staff took the tag; an import that ended left nothing out, unless one failed; one import runs at a
\* time in an API process; and a sample ticket has its customer.
THEOREM ImportsComeOnce == Spec => []ImportedOnce
  <1>1. IntakeInv => ImportedOnce
    <2>1. SUFFICES ASSUME IntakeInv PROVE ImportedOnce
      OBVIOUS
    <2>2. CoreInv /\ BusyInv /\ LeadType /\ ImportInv
      BY <2>1 DEF IntakeInv, GuardInv
    <2>3. \A t, u \in got :
            t.item = u.item /\ t.item # 0 /\ Kind(t.of) = Kind(u.of) /\ t # u /\ t.item \notin untagged
            => {t.of, u.of} \in met /\ (Kind(t.of) = "import" => On(t.of) # On(u.of))
      BY <2>2 DEF ImportInv, Beside
    <2>4. \A r \in Req : Kind(r) = "import" /\ pc[r] = "done" /\ ~Opt(r).dry /\ faults = 0
                           => \A i \in Opt(r).rows : \E t \in got : t.item = i
      BY <2>2 DEF ImportInv, ToCome, Loading
    <2>5. \A u, v \in busy : u.set = "import" /\ v.set = "import" /\ u.by = v.by => u = v
      <3>1. SUFFICES ASSUME NEW u \in busy, NEW v \in busy, u.set = "import", v.set = "import", u.by = v.by
                     PROVE u = v
        OBVIOUS
      <3>2. PICK q \in Req : u = Claim(q) /\ pc[q] \in Importing \cup {"asking"}
        BY <2>2 DEF BusyInv
      <3>3. PICK r \in Req : v = Claim(r) /\ pc[r] \in Importing \cup {"asking"}
        BY <2>2 DEF BusyInv
      <3>4. Kind(q) = "import" /\ Kind(r) = "import" /\ On(q) = On(r)
        BY <3>1, <3>2, <3>3 DEF Claim
      <3>5. pc[q] # "asking" /\ pc[r] # "asking"
        BY <2>2, <3>4, OwnSteps DEF IntakeSteps, Handled
      <3>6. QED
        BY <2>2, <3>2, <3>3, <3>4, <3>5 DEF BusyInv
    <2>6. \A t \in got : Kind(t.of) = "seed" => person[t.item] # "none"
      BY <2>2 DEF ImportInv
    <2>7. QED
      BY <2>3, <2>4, <2>5, <2>6 DEF ImportedOnce
  <1>2. QED
    BY <1>1, InvariantHolds, PTL

\* What others send becomes one ticket or message per request, unless something failed; an answered
\* submission is a ticket, with a deadline when it is serious, unless a call failed; none comes from a bot
\* nor from somebody blocked before it was sent.
THEOREM SubmissionsAreKept == Spec => []SubmissionsHold
  <1>1. IntakeInv => SubmissionsHold
    <2>1. SUFFICES ASSUME IntakeInv PROVE SubmissionsHold
      OBVIOUS
    <2>2. SubmissionInv /\ faults \in Nat
      BY <2>1 DEF IntakeInv, CoreInv, ProcessType
    <2>3. faults > 0 \/ faults = 0
      BY <2>2
    <2>4. /\ \A t, u \in got : t.of = u.of /\ t.item = 0 /\ t # u => faults > 0
          /\ \A s, u \in said : s[1] = u[1] /\ s # u => faults > 0
      BY <2>2, <2>3 DEF SubmissionInv
    <2>5. \A r \in Req : Kind(r) = "answer" =>
            /\ pc[r] = "done" /\ Opt(r).is # "bot" => \E t \in got : t.of = r /\ (Opt(r).is = "serious" /\ faults = 0 => t.due)
            /\ \A t \in got : t.of = r =>
                Opt(r).is # "bot" /\ \A q \in Req : Kind(q) = "block" /\ pc[q] = "done" /\ q < r => {q, r} \in met
      BY <2>2 DEF SubmissionInv, Ticketed, Blocks
    <2>6. QED
      BY <2>4, <2>5 DEF SubmissionsHold
  <1>2. QED
    BY <1>1, InvariantHolds, PTL
===============================================================================
