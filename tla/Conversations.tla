----------------------------- MODULE Conversations -----------------------------
(***************************************************************************)
(* Two channels customers write on: the inbox (module Inbox) and the chat  *)
(* of the website.  Here are the chat widget (apps/web, public/widget) and *)
(* the handlers behind it (widget and chat-attachments of apps/api):       *)
(* conversations begun and resumed, messages sent until they arrive, files *)
(* uploaded, linked and swept.                                             *)
(*                                                                         *)
(* One visitor in one tab.  What he does is a process that goes through    *)
(* the widget's code and the handlers it calls, and their answers.  How a  *)
(* message is answered by the AI is module AiReply.                        *)
(***************************************************************************)
EXTENDS Inbox

CONSTANTS
    MaxTries,       \* attempts deliver makes
    MaxPending      \* MAX_PENDING_PER_UPLOADER

ASSUME ConversationsAssumption == MaxTries \in Nat \ {0} /\ MaxPending \in Nat \ {0}

VARIABLES
    w,          \* the widget: its state, and the views of the files waiting to be sent
    conv,       \* web_widget tickets by the process that opened them: [owner, open]
    chat,       \* TicketMessage rows: [id, conv]; a message has its process as clientMessageId
    runs,       \* AI runs started: <<message, conversation, attempt>>
    frow, stored, stale     \* Attachment rows by upload; files in the storage; rows older than a day

server == <<conv, chat, runs, frow, stored, stale>>
talk == <<w, server>>
channels == <<area, job, pc, mem, met, faults, mailbox, talk>>

NoFile == [state |-> "none", conv |-> 0, msg |-> 0]

TypeOK ==
    /\ w.token \in Req \cup {None} /\ w.conv \in Req \cup {None} /\ w.files \subseteq Req
    /\ \A c \in chat : c.id \in Req /\ conv[c.conv].owner # None
    /\ \A f \in Req : frow[f].state \in {"none", "pending", "linked", "gone"}
    /\ \A r \in Req : job[r] \in area.jobs \/ pc[r] = "free"
    /\ stored \subseteq Req

TalkInit ==
    /\ InboxInit
    /\ w = [open |-> TRUE, token |-> None, conv |-> None, files |-> {}]
    /\ chat = {} /\ runs = {} /\ stored = {} /\ stale = {}
    /\ conv = [c \in Req |-> [owner |-> None, open |-> FALSE]]
    /\ frow = [f \in Req |-> NoFile]

Step(r, step, m) == Go(r, step) /\ Hold(r, m) /\ Same
Move(r, step) == Step(r, step, mem[r])

Rows(c) == {m.id : m \in {x \in chat : x.conv = c}}

-----------------------------------------------------------------------------
(* Beginning and resuming *)

OpenPanel(r) ==
    /\ At(r, "start") /\ Kind(r) = "open" /\ ~w.open
    /\ w' = [w EXCEPT !.open = TRUE]
    /\ Step(r, IF w.token # None /\ w.conv # None THEN "get" ELSE "begin", [mem[r] EXCEPT !.next = "done"])
    /\ UNCHANGED server

ClosePanel(r) ==
    /\ At(r, "start") /\ Kind(r) = "close" /\ w.open
    /\ w' = [w EXCEPT !.open = FALSE] /\ Move(r, "done")
    /\ UNCHANGED server

GetConversation(r) ==
    /\ At(r, "get") /\ Move(r, "done") /\ UNCHANGED talk

\* "Stored token expired/invalid - start fresh", whatever went wrong.
StartFresh(r) ==
    /\ At(r, "get") /\ MayFail /\ faults' = faults + 1
    /\ w' = [w EXCEPT !.token = None, !.conv = None]
    /\ Go(r, "begin") /\ UNCHANGED <<area, job, mem, met, server>>

\* startConversation: the customer of the token, or a new one; their open conversation, or a new one.
Begin(r) ==
    /\ At(r, "begin")
    /\ Step(r, "find", [mem[r] EXCEPT !.t = IF w.token = None THEN r ELSE w.token])
    /\ UNCHANGED talk

OpenOf(c) == {x \in Req : conv[x].owner = c /\ conv[x].open}
FindConversation(r) ==
    /\ At(r, "find")
    /\ IF OpenOf(mem[r].t) = {} THEN Move(r, "insert")
       ELSE \E c \in OpenOf(mem[r].t) : Step(r, "begun", [mem[r] EXCEPT !.conv = c])
    /\ UNCHANGED talk

InsertConversation(r) ==
    /\ At(r, "insert")
    /\ conv' = [conv EXCEPT ![r] = [owner |-> mem[r].t, open |-> TRUE]]
    /\ Step(r, "begun", [mem[r] EXCEPT !.conv = r])
    /\ UNCHANGED <<w, chat, runs, frow, stored, stale>>

Begun(r) ==
    /\ At(r, "begun")
    /\ w' = [w EXCEPT !.token = mem[r].t, !.conv = mem[r].conv]
    /\ Move(r, mem[r].next)
    /\ UNCHANGED server

-----------------------------------------------------------------------------
(* Messages *)

\* The send button is off while a file is being uploaded.
Uploading == {"start", "begin", "find", "insert", "begun", "count", "put", "row", "view"}
SubmitForm(r) ==
    /\ At(r, "start") /\ Kind(r) = "submit" /\ w.open
    /\ \A u \in Req : Kind(u) = "upload" => pc[u] \notin Uploading \ {"start"}
    /\ w' = [w EXCEPT !.files = {}]
    /\ Step(r, IF w.conv = None THEN "begin" ELSE "post", [mem[r] EXCEPT !.files = w.files, !.next = "post"])
    /\ UNCHANGED server

\* An attempt goes to the conversation the widget has by then: its owner's, with all files there.
Deliver(r) ==
    /\ At(r, "post")
    /\ IF w.conv # None /\ conv[w.conv].owner = w.token
          /\ \A f \in mem[r].files : frow[f].state = "pending" /\ frow[f].conv = w.conv
       THEN Step(r, "store", [mem[r] EXCEPT !.conv = w.conv]) ELSE Move(r, "unsent")
    /\ UNCHANGED talk

\* The unique (ticketId, clientMessageId): a second row is refused and the first one answered.
StoreAgain(r) ==
    /\ At(r, "store")
    /\ chat' = chat \cup {[id |-> r, conv |-> mem[r].conv]} /\ Move(r, "link")
    /\ UNCHANGED <<w, conv, runs, frow, stored, stale>>
StoreMessage(r) ==
    /\ At(r, "store")
    /\ IF r \in Rows(mem[r].conv) THEN Move(r, "answer") /\ UNCHANGED chat
       ELSE chat' = chat \cup {[id |-> r, conv |-> mem[r].conv]} /\ Move(r, "link")
    /\ UNCHANGED <<w, conv, runs, frow, stored, stale>>

\* The files still pending are linked; if some are not, the request fails and the message stays.
Link(r) ==
    LET own == {f \in mem[r].files : frow[f].state = "pending" /\ frow[f].conv = mem[r].conv} IN
    /\ At(r, "link")
    /\ frow' = [f \in Req |-> IF f \in own THEN [frow[f] EXCEPT !.state = "linked", !.msg = r] ELSE frow[f]]
    /\ Move(r, IF own = mem[r].files THEN "touch" ELSE "unsent")
    /\ UNCHANGED <<w, conv, chat, runs, stored, stale>>

Announce(r) ==
    /\ At(r, "touch")
    /\ runs' = runs \cup {<<r, mem[r].conv, mem[r].tries>>}
    /\ Move(r, "answer")
    /\ UNCHANGED <<w, conv, chat, frow, stored, stale>>

Answered(r) ==
    /\ At(r, "answer") /\ Move(r, "done") /\ UNCHANGED talk

\* A request that throws, or whose answer is lost, is made again with the same id.
Retry(r) ==
    /\ pc[r] \in {"post", "store", "link", "touch", "answer"} /\ MayFail /\ faults' = faults + 1
    /\ IF mem[r].tries + 1 < MaxTries THEN Go(r, "post") /\ Hold(r, [mem[r] EXCEPT !.tries = @ + 1])
       ELSE Go(r, "unsent") /\ UNCHANGED mem
    /\ UNCHANGED <<area, job, met, talk>>

ClickRetry(r) ==
    /\ At(r, "unsent") /\ mem[r].tries < MaxTries
    /\ Step(r, "post", [mem[r] EXCEPT !.tries = MaxTries]) /\ UNCHANGED talk

\* The staff solves the conversation: the next one begun is another.
Solve(r) ==
    /\ At(r, "start") /\ Kind(r) = "solve"
    /\ \E c \in Req : conv[c].open /\ conv' = [conv EXCEPT ![c].open = FALSE]
    /\ Move(r, "done") /\ UNCHANGED <<w, chat, runs, frow, stored, stale>>

-----------------------------------------------------------------------------
(* Files *)

UploadFile(r) ==
    /\ At(r, "start") /\ Kind(r) = "upload" /\ w.open
    /\ Step(r, IF w.conv = None THEN "begin" ELSE "count", [mem[r] EXCEPT !.next = "count"])
    /\ UNCHANGED talk

\* The limit is checked against a count.
Pending(c) == {f \in Req : frow[f].state = "pending" /\ frow[f].conv = c}
Count(r) ==
    /\ At(r, "count")
    /\ IF w.conv = None \/ Cardinality(Pending(w.conv)) >= MaxPending THEN Move(r, "rejected")
       ELSE Step(r, "put", [mem[r] EXCEPT !.conv = w.conv])
    /\ UNCHANGED talk

PutFile(r) ==
    /\ At(r, "put")
    /\ stored' = stored \cup {r} /\ Move(r, "row")
    /\ UNCHANGED <<w, conv, chat, runs, frow, stale>>

FileRow(r) ==
    /\ At(r, "row")
    /\ frow' = [frow EXCEPT ![r] = [state |-> "pending", conv |-> mem[r].conv, msg |-> 0]] /\ Move(r, "view")
    /\ UNCHANGED <<w, conv, chat, runs, stored, stale>>

FileView(r) ==
    /\ At(r, "view")
    /\ w' = [w EXCEPT !.files = @ \cup {r}] /\ Move(r, "done")
    /\ UNCHANGED server

\* "Never leave an unreferenced file behind": the file goes if its row cannot be written.
RemoveFile(r) ==
    /\ At(r, "row") /\ MayFail /\ faults' = faults + 1
    /\ stored' = stored \ {r} /\ Go(r, "failed")
    /\ UNCHANGED <<area, job, mem, met, w, conv, chat, runs, frow, stale>>

\* A day passes for the files there are.
Age ==
    /\ \E r \in Req : At(r, "start") /\ Kind(r) = "sweep"
    /\ LET old == {f \in Req : frow[f].state \in {"pending", "linked"}} IN old \ stale # {} /\ stale' = stale \cup old
    /\ UNCHANGED <<pc, mem, w, conv, chat, runs, frow, stored>> /\ Same

SweepStart(r) ==
    /\ At(r, "start") /\ Kind(r) = "sweep"
    /\ Step(r, "each", [mem[r] EXCEPT !.files = {f \in stale : frow[f].state = "pending"}]) /\ UNCHANGED talk

Unstore(r) ==
    /\ At(r, "each")
    /\ IF mem[r].files = {} THEN Move(r, "done") /\ UNCHANGED talk
       ELSE \E f \in mem[r].files :
              /\ stored' = stored \ {f} /\ Step(r, "unrow", [mem[r] EXCEPT !.files = @ \ {f}, !.m = f])
              /\ UNCHANGED <<w, conv, chat, runs, frow, stale>>

\* By id: also when it was linked in between.
Unrow(r) ==
    /\ At(r, "unrow")
    /\ frow' = [frow EXCEPT ![mem[r].m].state = "gone"] /\ Move(r, "each")
    /\ UNCHANGED <<w, conv, chat, runs, stored, stale>>

\* One file that cannot be removed is left for the next sweep.
NextFile(r) ==
    /\ pc[r] \in {"each", "unrow"} /\ MayFail /\ faults' = faults + 1
    /\ Go(r, "each") /\ Hold(r, [mem[r] EXCEPT !.files = IF pc[r] = "each" THEN {} ELSE @])
    /\ UNCHANGED <<area, job, met, talk>>

-----------------------------------------------------------------------------
(* The channels together *)

TalkStep(r) ==
    \/ OpenPanel(r) \/ ClosePanel(r) \/ GetConversation(r) \/ StartFresh(r) \/ Begin(r) \/ FindConversation(r)
    \/ InsertConversation(r) \/ Begun(r) \/ SubmitForm(r) \/ Deliver(r) \/ StoreMessage(r)
    \/ Link(r) \/ Announce(r) \/ Answered(r) \/ Retry(r) \/ ClickRetry(r) \/ Solve(r) \/ UploadFile(r) \/ Count(r)
    \/ PutFile(r) \/ FileRow(r) \/ FileView(r) \/ RemoveFile(r) \/ SweepStart(r) \/ Unstore(r) \/ Unrow(r) \/ NextFile(r)
Mailing == {"callback", "disconnect", "settings", "sync", "poll", "reply"}

ChannelsNext ==
    \/ \E r \in Req :
        \/ InboxStep(r) /\ UNCHANGED talk
        \/ Kind(r) \in Mailing /\ InboxFail(r) /\ UNCHANGED talk
        \/ Kind(r) \in Mailing \cup {"upload", "sweep"} /\ Die(r) /\ UNCHANGED talk
        \/ TalkStep(r) /\ UNCHANGED mailbox
        \/ \E j \in area.jobs : Submit(r, j) /\ UNCHANGED talk
    \/ Google /\ UNCHANGED talk
    \/ Age /\ UNCHANGED mailbox

-----------------------------------------------------------------------------
(* Properties *)

Sends(r) == Kind(r) = "submit"
TwoBegan == \E q, r \in Req : q # r /\ {q, r} \in met /\ Kind(q) \in {"open", "submit", "upload"}
                               /\ Kind(r) \in {"open", "submit", "upload"}

\* "Retried with the SAME clientMessageId, so the server stores the message at most once however many
\* times this runs" (widget.js): once in a conversation and, while the widget has one, in one; the AI
\* reads it once; and a message shown as sent is stored, with its files, and was read, unless an
\* attempt broke off.  A visitor has one open conversation, unless two were begun together.
MessagesHold ==
    /\ \A r \in Req : Sends(r) =>
        /\ Cardinality({u \in runs : u[1] = r}) <= 1 \/ Cardinality({c \in chat : c.id = r}) > 1
        /\ Cardinality({c \in chat : c.id = r}) > 1 => TwoBegan
        /\ pc[r] = "done" =>
            /\ \E c \in chat : c.id = r
            /\ faults = 0 => /\ \E u \in runs : u[1] = r
                             /\ \A f \in mem[r].files : frow[f].msg = r
    /\ \A c, d \in Req : c # d /\ conv[c].owner = conv[d].owner /\ conv[c].open /\ conv[d].open => TwoBegan

\* A file of a message is in the storage and a file in the storage has a row, unless a sweep overlapped
\* the message or a process died; what waits to be sent keeps to the limit unless uploads overlapped.
FilesHold ==
    /\ \A f \in Req : frow[f].msg # 0 /\ (f \notin stored \/ frow[f].state = "gone") =>
        \E r \in Req : Kind(r) = "sweep" /\ ({frow[f].msg, r} \in met \/ faults > 0)
    /\ \A f \in stored : frow[f].state \in {"pending", "linked"} \/ pc[f] = "row" \/ pc[f] = "lost"
    /\ \A c \in Req : Cardinality(Pending(c)) > MaxPending =>
        \E q, r \in Req : q # r /\ {q, r} \in met /\ Kind(q) = "upload" /\ Kind(r) = "upload"

\* A visitor's messages arrive once, with their files.
ChatsHold == MessagesHold /\ FilesHold

\* "So a bad attachment id never leaves a half-sent message behind" (widget.service.ts): a message that
\* was refused, not cut off, is not in the conversation.
NoHalfSentMessage == \A r \in Req : pc[r] = "unsent" /\ faults = 0 => \A c \in chat : c.id # r
=============================================================================
