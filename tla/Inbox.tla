-------------------------------- MODULE Inbox ---------------------------------
(***************************************************************************)
(* The Gmail inbox of an organisation (apps/api, email-integrations):      *)
(* connecting and disconnecting it, the sync that turns its mails into     *)
(* tickets and replies, and the mails the help desk sends from it.         *)
(*                                                                         *)
(* As in module Tickets every request, poll of the sync worker and reply   *)
(* of an agent is a process that walks through its handler, one step per   *)
(* await after which others may have written; mem[r] is what it read and   *)
(* still uses.  Google is the environment: mails arrive, access tokens     *)
(* grow old and its history forgets.                                       *)
(***************************************************************************)
EXTENDS Naturals, FiniteSets

CONSTANTS
    None,
    First,          \* an e-mail ticket there is at the start, with no thread or token yet
    Main, Other,    \* Gmail accounts; mails arrive at Main
    Areas,          \* records [jobs, events, reqs, faults]: what may happen together
    MaxReq, MaxMail,    \* bounds: processes, mails
    Recent,         \* GMAIL_INITIAL_SYNC_LIMIT
    Page            \* mails on the one page of Gmail's history that is read

\* Nobody is no ticket, and the first ticket none that a mail opens; a visitor of the consent screen
\* chooses an account, and an agent replies on a ticket.
ASSUME InboxAssumption ==
    /\ MaxReq \in Nat /\ MaxMail \in Nat /\ Recent \in Nat \ {0} /\ Page \in Nat \ {0}
    /\ None # First /\ {None, First} \cap ((1..MaxReq) \X (0..MaxMail)) = {}
    /\ \A a \in Areas : a.reqs <= MaxReq /\ a.faults \in Nat
    /\ \A a \in Areas : \A j \in a.jobs :
        /\ j.kind = "callback" => j.opt \in {Main, Other}
        /\ j.kind = "reply" => j.on \in {First} \cup ((1..MaxReq) \X (1..MaxMail))

VARIABLES
    area,           \* what happens together, one of Areas
    job, pc, mem,   \* each process, where its handler is, and what it holds
    conn,           \* EmailConnection rows by account
    states,         \* OAuth states in Redis
    granted,        \* Google: accounts whose grant stands
    box,            \* Google: the mails of Main by arrival
    kept,           \* Google: history before this mail is forgotten
    row,            \* InboundEmailMessage.processingStatus by mail
    ticket, msgs,   \* Ticket rows [live, thread, token]; TicketMessage rows [on, mail, of]
    files,          \* mails whose attachments are stored
    sent,           \* mails sent: [t, token, thread, of]
    met, used, cut, \* history: pairs in flight together; states exchanged, <<state, by>>; mails a list left out, <<mail, which>>
    faults

history == <<met, used, cut>>
google == <<granted, box, kept>>
mailbox == <<conn, states, google, row, ticket, msgs, files, sent, used, cut>>

Req == 1..MaxReq
Account == {Main, Other}
Tid == {First} \cup (Req \X (1..MaxMail))
Ended == {"free", "done", "rejected", "failed", "lost"}
InFlight == {r \in Req : pc[r] \notin Ended}
Kind(r) == job[r].kind
On(r) == job[r].on
Opt(r) == job[r].opt
Mails == 1..Cardinality(DOMAIN box)
MayFail == faults < area.faults
May(event) == event \in area.events
Overlapped(r) == \E q \in Req : q # r /\ {q, r} \in met
Active == {a \in Account : conn[a].active}

NoConn == [known |-> FALSE, active |-> FALSE, tokens |-> "none", cursor |-> None, status |-> "idle",
           sync |-> TRUE, create |-> TRUE]
NoTicket == [live |-> FALSE, thread |-> None, token |-> None]
NoMem == [acc |-> None, conn |-> NoConn, left |-> {}, ids |-> {}, m |-> 0, t |-> None, token |-> None,
          thread |-> None, next |-> "none", head |-> 0, tries |-> 0, files |-> {}, conv |-> None]

InboxInit ==
    /\ area \in Areas
    /\ job = [r \in Req |-> [kind |-> "none", on |-> None, opt |-> None]]
    /\ pc = [r \in Req |-> "free"] /\ mem = [r \in Req |-> NoMem]
    /\ conn = [a \in Account |-> IF a = Main THEN [NoConn EXCEPT !.known = TRUE, !.active = TRUE, !.tokens = "fresh"]
                                ELSE NoConn]
    /\ states = {Main, Other} /\ granted = {Main} /\ box = <<>> /\ kept = 0
    /\ row = [m \in 1..MaxMail |-> "none"]
    /\ ticket = [t \in Tid |-> [NoTicket EXCEPT !.live = t = First]]
    /\ msgs = {} /\ files = {} /\ sent = {} /\ met = {} /\ used = {} /\ cut = {} /\ faults = 0

Go(r, step) == pc' = [pc EXCEPT ![r] = step]
Hold(r, m) == mem' = [mem EXCEPT ![r] = m]
At(r, step) == pc[r] = step
Same == UNCHANGED <<area, job, met, faults>>
Read(r, step, m) == Go(r, step) /\ Hold(r, m) /\ Same /\ UNCHANGED mailbox
Skip(r, step) == Read(r, step, mem[r])
Reject(r) == Read(r, "rejected", NoMem)

Submit(r, j) ==
    /\ pc[r] = "free" /\ \A q \in Req : q < r => pc[q] # "free"
    /\ r <= area.reqs
    /\ job' = [job EXCEPT ![r] = j] /\ Go(r, "start")
    /\ met' = met \cup {{r, q} : q \in InFlight}
    /\ UNCHANGED <<area, mem, mailbox, faults>>

-----------------------------------------------------------------------------
(* Google *)

\* A mail arrives: of its own, in the thread of an earlier one, or answering one that was sent with
\* only one of the signals left; or one the sync has to skip.  What Google does is seen when somebody
\* asks, so it does it just before.
Asks(steps) == \E r \in Req : pc[r] \in steps
Plain == [thread |-> None, header |-> None, token |-> None, number |-> None, skip |-> FALSE, blocked |-> FALSE,
          late |-> {}]
Shapes ==
    LET new == [Plain EXCEPT !.thread = Cardinality(Mails) + 1] IN
    {new : e \in {x \in {"new"} : May(x)}}
    \cup {[new EXCEPT !.skip = TRUE] : e \in {x \in {"auto"} : May(x)}}
    \cup {[new EXCEPT !.blocked = TRUE] : e \in {x \in {"blocked"} : May(x)}}
    \cup {[new EXCEPT !.thread = box[k].thread] : k \in {x \in Mails : May("same")}}
    \cup {[new EXCEPT !.token = s.token] : s \in {x \in sent : May("answer")}}
    \cup {[new EXCEPT !.header = s.t] : s \in {x \in sent : May("answer")}}
    \cup {[new EXCEPT !.number = s.t] : s \in {x \in sent : May("answer")}}
Listed == {r \in InFlight : pc[r] \in {"loop", "profile", "checkpoint"} \/ mem[r].m # 0}
Arrive ==
    /\ Cardinality(Mails) < MaxMail /\ Asks({"list", "profile"})
    /\ \E shape \in Shapes : box' = [m \in Mails \cup {Cardinality(Mails) + 1} |->
                                      IF m \in Mails THEN box[m] ELSE [shape EXCEPT !.late = Listed]]
    /\ UNCHANGED <<pc, mem, conn, states, granted, kept, row, ticket, msgs, files, sent, used, cut>> /\ Same

\* The hour of an access token passes; the week of the history passes.
GrowOld ==
    /\ \/ /\ May("expire") /\ Asks({"start", "next"}) /\ \E a \in Active : conn[a].tokens = "fresh" /\ conn' = [conn EXCEPT ![a].tokens = "stale"]
          /\ UNCHANGED kept
       \/ May("forget") /\ Asks({"list"}) /\ kept < Cardinality(Mails) /\ kept' = Cardinality(Mails) /\ UNCHANGED conn
    /\ UNCHANGED <<pc, mem, states, granted, box, row, ticket, msgs, files, sent, used, cut>> /\ Same

-----------------------------------------------------------------------------
(* Connecting *)

\* consumeState: get, then del.
StateGet(r) ==
    /\ At(r, "start") /\ Kind(r) = "callback"
    /\ IF On(r) \in states THEN Skip(r, "del") ELSE Reject(r)

StateDel(r) ==
    /\ At(r, "del")
    /\ states' = states \ {On(r)} /\ used' = used \cup {<<On(r), r>>} /\ Go(r, "exchange")
    /\ UNCHANGED <<mem, conn, google, row, ticket, msgs, files, sent, cut>> /\ Same

\* Opt is the account the visitor of the consent screen chose.
Exchange(r) ==
    /\ At(r, "exchange")
    /\ granted' = granted \cup {Opt(r)} /\ Go(r, "check")
    /\ UNCHANGED <<mem, conn, states, box, kept, row, ticket, msgs, files, sent, used, cut>> /\ Same

Check(r) ==
    /\ At(r, "check")
    /\ IF Active \subseteq {Opt(r)} THEN Skip(r, "upsert") ELSE Reject(r)

\* A connection there was keeps its settings and checkpoint.
Upsert(r) ==
    /\ At(r, "upsert")
    /\ conn' = [conn EXCEPT ![Opt(r)] = [@ EXCEPT !.known = TRUE, !.active = TRUE, !.tokens = "fresh", !.status = "idle"]]
    /\ Go(r, "done")
    /\ UNCHANGED <<mem, states, google, row, ticket, msgs, files, sent, used, cut>> /\ Same

FindActive(r) ==
    /\ At(r, "start") /\ Kind(r) \in {"disconnect", "settings"}
    /\ IF Active = {} THEN Reject(r)
       ELSE \E a \in Active : Read(r, IF Kind(r) = "settings" THEN "write" ELSE "revoke",
                                   [mem[r] EXCEPT !.acc = a, !.conn = conn[a]])

Revoke(r) ==
    /\ At(r, "revoke")
    /\ granted' = granted \ {mem[r].acc} /\ Go(r, "wipe")
    /\ UNCHANGED <<mem, conn, states, box, kept, row, ticket, msgs, files, sent, used, cut>> /\ Same

WipedLater(c) == [c EXCEPT !.active = FALSE, !.status = "disconnected"]
Wiped(c) == [c EXCEPT !.active = FALSE, !.status = "disconnected", !.tokens = "wiped"]
Disconnect(r) ==
    /\ At(r, "wipe")
    /\ conn' = [conn EXCEPT ![mem[r].acc] = Wiped(@)] /\ Go(r, "done")
    /\ UNCHANGED <<mem, states, google, row, ticket, msgs, files, sent, used, cut>> /\ Same

\* All settings are written, the patched ones and those read.
UpdateSettings(r) ==
    /\ At(r, "write")
    /\ LET s == mem[r].conn IN
       conn' = [conn EXCEPT ![mem[r].acc] = [@ EXCEPT !.sync = IF Opt(r).field = "sync" THEN Opt(r).value ELSE s.sync,
                                                       !.create = IF Opt(r).field = "create" THEN Opt(r).value ELSE s.create]]
    /\ Go(r, "done")
    /\ UNCHANGED <<mem, states, google, row, ticket, msgs, files, sent, used, cut>> /\ Same

\* ensureFreshAccessToken: a token near its end is refreshed and stored by the connection's id.
Fresh(r, next, m) ==
    IF m.conn.tokens = "stale" THEN Read(r, "refresh", [m EXCEPT !.next = next]) ELSE Read(r, next, m)

AfterSend(r) == IF Kind(r) = "reply" THEN "done" ELSE "files"
SyncEnd(r) == IF Kind(r) = "poll" THEN "next" ELSE "failed"

Refresh(r) ==
    /\ At(r, "refresh")
    /\ IF mem[r].acc \in granted THEN Skip(r, "keep")
       ELSE /\ \/ mem[r].next = "send" /\ Go(r, AfterSend(r)) /\ UNCHANGED conn
               \/ /\ mem[r].next = "list" /\ Go(r, SyncEnd(r))
                  /\ conn' = [conn EXCEPT ![mem[r].acc].status = "error"]
            /\ UNCHANGED <<mem, states, google, row, ticket, msgs, files, sent, used, cut>> /\ Same

KeepToken(r) ==
    /\ At(r, "keep")
    /\ conn' = [conn EXCEPT ![mem[r].acc].tokens = "fresh"]
    /\ Go(r, mem[r].next) /\ Hold(r, [mem[r] EXCEPT !.conn = conn'[mem[r].acc]])
    /\ UNCHANGED <<states, google, row, ticket, msgs, files, sent, used, cut>> /\ Same

-----------------------------------------------------------------------------
(* The sync *)

\* A request to sync now, or a tick of the worker, which does nothing while its last one runs.
SyncStart(r) ==
    /\ At(r, "start") /\ Kind(r) = "sync"
    /\ IF Active = {} THEN Reject(r)
       ELSE \E a \in Active : Read(r, IF conn[a].sync THEN "mark" ELSE "done", [mem[r] EXCEPT !.acc = a, !.conn = conn[a]])

PollStart(r) ==
    /\ At(r, "start") /\ Kind(r) = "poll"
    /\ IF \E q \in InFlight : q # r /\ Kind(q) = "poll" THEN Skip(r, "done")
       ELSE Read(r, "next", [mem[r] EXCEPT !.left = Active])

PollNext(r) ==
    /\ At(r, "next")
    /\ IF mem[r].left = {} THEN Skip(r, "done")
       ELSE \E a \in mem[r].left :
              Read(r, IF conn[a].active /\ conn[a].sync THEN "mark" ELSE "next",
                   [mem[r] EXCEPT !.left = @ \ {a}, !.acc = a, !.conn = conn[a]])

Mark(r) ==
    /\ At(r, "mark")
    /\ conn' = [conn EXCEPT ![mem[r].acc].status = "syncing"]
    /\ Go(r, IF mem[r].conn.tokens = "stale" THEN "refresh" ELSE "list")
    /\ Hold(r, [mem[r] EXCEPT !.next = "list"])
    /\ UNCHANGED <<states, google, row, ticket, msgs, files, sent, used, cut>> /\ Same

\* What came after the checkpoint, the oldest first, as far as the first page of the history goes; or,
\* without a checkpoint Google still knows, the most recent mails.
FromRecent(c) == c.cursor = None \/ c.cursor < kept
LeftOut(c) == IF FromRecent(c) THEN {m \in Mails : m + Recent <= Cardinality(Mails)}
              ELSE {m \in Mails : m > c.cursor + Page}
NewMailsButOne(c) == {m \in Mails \ LeftOut(c) : FromRecent(c) \/ m > c.cursor + 1}
NewMails(c) == {m \in Mails \ LeftOut(c) : FromRecent(c) \/ m > c.cursor}
ListNew(r) ==
    /\ At(r, "list")
    /\ LET c == mem[r].conn
           which == IF FromRecent(c) THEN "recent" ELSE "page" IN
       /\ Go(r, "loop") /\ Hold(r, [mem[r] EXCEPT !.ids = IF mem[r].acc = Main THEN NewMails(c) ELSE {}])
       /\ cut' = IF mem[r].acc = Main THEN cut \cup (LeftOut(c) \X {which}) ELSE cut
    /\ UNCHANGED <<conn, states, google, row, ticket, msgs, files, sent, used>> /\ Same

NextMail(r) ==
    /\ At(r, "loop")
    /\ IF mem[r].ids = {} THEN Skip(r, "profile")
       ELSE \E m \in mem[r].ids :
              Read(r, IF row[m] = "none" THEN "record" ELSE "loop", [mem[r] EXCEPT !.ids = @ \ {m}, !.m = m])

\* The unique index decides; the loser counts its mail as failed.
Record(r) ==
    LET skip == box[mem[r].m].skip \/ ~mem[r].conn.create IN
    /\ At(r, "record")
    /\ IF row[mem[r].m] # "none" THEN Skip(r, "loop")
       ELSE /\ row' = [row EXCEPT ![mem[r].m] = IF skip THEN "skipped" ELSE "processing"]
            /\ Go(r, IF skip THEN "loop" ELSE "match")
            /\ UNCHANGED <<mem, conn, states, google, ticket, msgs, files, sent, used, cut>> /\ Same

\* The ticket a mail continues: by its thread, the ids in its headers, its reply token, its subject.
Continues(mail) ==
    LET by(T) == {t \in Tid : ticket[t].live /\ T[t]}
        thread == by([t \in Tid |-> ticket[t].thread = mail.thread])
        header == by([t \in Tid |-> t = mail.header])
        token == by([t \in Tid |-> mail.token # None /\ ticket[t].token = mail.token]) IN
    IF thread # {} THEN thread ELSE IF header # {} THEN header ELSE IF token # {} THEN token
    ELSE by([t \in Tid |-> t = mail.number])
Match(r) ==
    /\ At(r, "match")
    /\ LET found == Continues(box[mem[r].m]) IN
       IF found = {} THEN Skip(r, "sender") ELSE \E t \in found : Read(r, "append", [mem[r] EXCEPT !.t = t])

\* The thread of the mail becomes the ticket's, whichever it had.
Append(r) ==
    /\ At(r, "append")
    /\ msgs' = msgs \cup {[on |-> mem[r].t, mail |-> mem[r].m, of |-> r]}
    /\ ticket' = [ticket EXCEPT ![mem[r].t].thread = box[mem[r].m].thread]
    /\ row' = [row EXCEPT ![mem[r].m] = "processed"]
    /\ Go(r, "files")
    /\ UNCHANGED <<mem, conn, states, google, files, sent, used, cut>> /\ Same

Sender(r) ==
    /\ At(r, "sender")
    /\ IF box[mem[r].m].blocked
       THEN row' = [row EXCEPT ![mem[r].m] = "skipped"] /\ Go(r, "loop")
       ELSE Go(r, "open") /\ UNCHANGED row
    /\ UNCHANGED <<mem, conn, states, google, ticket, msgs, files, sent, used, cut>> /\ Same

OpenTicket(r) ==
    LET m == mem[r].m
        t == <<r, m>> IN
    /\ At(r, "open")
    /\ ticket' = [ticket EXCEPT ![t] = [live |-> TRUE, thread |-> box[m].thread, token |-> None]]
    /\ msgs' = msgs \cup {[on |-> t, mail |-> m, of |-> r]}
    /\ row' = [row EXCEPT ![m] = "processed"]
    /\ Go(r, "ensure") /\ Hold(r, [mem[r] EXCEPT !.t = t, !.thread = box[m].thread])
    /\ UNCHANGED <<conn, states, google, files, sent, used, cut>> /\ Same

FilesOf(r) ==
    /\ At(r, "files")
    /\ files' = files \cup {mem[r].m} /\ Go(r, "loop")
    /\ UNCHANGED <<mem, conn, states, google, row, ticket, msgs, sent, used, cut>> /\ Same

Profile(r) == At(r, "profile") /\ Read(r, "checkpoint", [mem[r] EXCEPT !.head = IF mem[r].acc = Main THEN Cardinality(Mails) ELSE 0])

\* Written by the connection's id, whatever became of it.
Checkpoint(r) ==
    /\ At(r, "checkpoint")
    /\ conn' = [conn EXCEPT ![mem[r].acc] = [@ EXCEPT !.cursor = mem[r].head, !.status = "idle"]]
    /\ Go(r, IF Kind(r) = "poll" THEN "next" ELSE "done")
    /\ UNCHANGED <<mem, states, google, row, ticket, msgs, files, sent, used, cut>> /\ Same

-----------------------------------------------------------------------------
(* Sending *)

\* sendAgentReplyEmailIfNeeded, after an agent's message is stored.
ReplyRead(r) ==
    /\ At(r, "start") /\ Kind(r) = "reply"
    /\ IF ~ticket[On(r)].live \/ Active = {} THEN Skip(r, "done")
       ELSE \E a \in Active : Read(r, "ensure", [mem[r] EXCEPT !.acc = a, !.conn = conn[a], !.t = On(r),
                                                               !.thread = ticket[On(r)].thread])

\* ensureReplyToken: a read, then a write that does not look again.
EnsureAnew(r) == At(r, "ensure") /\ Skip(r, "token")
Ensure(r) ==
    /\ At(r, "ensure")
    /\ LET token == ticket[mem[r].t].token IN
       IF token = None THEN Skip(r, "token") ELSE Fresh(r, "send", [mem[r] EXCEPT !.token = token])

NewToken(r) ==
    LET token == <<r, mem[r].m>> IN
    /\ At(r, "token")
    /\ ticket' = [ticket EXCEPT ![mem[r].t].token = token]
    /\ Go(r, IF mem[r].conn.tokens = "stale" THEN "refresh" ELSE "send")
    /\ Hold(r, [mem[r] EXCEPT !.token = token, !.next = "send"])
    /\ UNCHANGED <<conn, states, google, row, msgs, files, sent, used, cut>> /\ Same

\* Gmail keeps the thread it is given, and begins one otherwise.
SendReply(r) ==
    LET thread == IF mem[r].thread # None THEN mem[r].thread ELSE MaxMail + r IN
    /\ At(r, "send")
    /\ sent' = sent \cup {[t |-> mem[r].t, token |-> mem[r].token, thread |-> thread, of |-> r]}
    /\ Go(r, IF thread = mem[r].thread THEN AfterSend(r) ELSE "adopt")
    /\ Hold(r, [mem[r] EXCEPT !.thread = thread])
    /\ UNCHANGED <<conn, states, google, row, ticket, msgs, files, used, cut>> /\ Same

Adopt(r) ==
    /\ At(r, "adopt")
    /\ ticket' = [ticket EXCEPT ![mem[r].t].thread = mem[r].thread] /\ Go(r, AfterSend(r))
    /\ UNCHANGED <<mem, conn, states, google, row, msgs, files, sent, used, cut>> /\ Same

-----------------------------------------------------------------------------
(* Failures *)

\* An await throws: a send is given up, a mail is given up and marked once it has a row, and a sync
\* that cannot go on marks the connection.
Ingesting == {"match", "append", "sender", "open", "ensure", "token", "adopt"}
InSync == {"refresh", "keep", "list", "profile", "checkpoint"}
InboxFail(r) ==
    LET syncs == Kind(r) \in {"sync", "poll"}
        sending == pc[r] = "send" \/ (pc[r] \in {"refresh", "keep"} /\ mem[r].next = "send") IN
    /\ r \in InFlight /\ MayFail /\ faults' = faults + 1
    /\ CASE sending -> Go(r, AfterSend(r)) /\ UNCHANGED <<conn, row>>
         [] syncs /\ pc[r] \in Ingesting -> /\ row' = [row EXCEPT ![mem[r].m] = "failed"]
                                            /\ Go(r, "loop") /\ UNCHANGED conn
         [] syncs /\ pc[r] \in {"record", "files", "loop"} -> Go(r, "loop") /\ UNCHANGED <<conn, row>>
         [] syncs /\ pc[r] \in InSync -> /\ conn' = [conn EXCEPT ![mem[r].acc].status = "error"]
                                         /\ Go(r, SyncEnd(r)) /\ UNCHANGED row
         [] pc[r] = "revoke" -> Go(r, "wipe") /\ UNCHANGED <<conn, row>>
         [] OTHER -> Go(r, "failed") /\ UNCHANGED <<conn, row>>
    /\ UNCHANGED <<area, job, mem, states, google, ticket, msgs, files, sent, history>>

\* The process dies.
Die(r) ==
    /\ r \in InFlight /\ MayFail /\ faults' = faults + 1
    /\ Go(r, "lost") /\ UNCHANGED <<area, job, mem, mailbox, met>>

InboxStep(r) ==
    \/ StateGet(r) \/ StateDel(r) \/ Exchange(r) \/ Check(r) \/ Upsert(r)
    \/ FindActive(r) \/ Revoke(r) \/ Disconnect(r) \/ UpdateSettings(r) \/ Refresh(r) \/ KeepToken(r)
    \/ SyncStart(r) \/ PollStart(r) \/ PollNext(r) \/ Mark(r) \/ ListNew(r) \/ NextMail(r) \/ Record(r)
    \/ Match(r) \/ Append(r) \/ Sender(r) \/ OpenTicket(r) \/ FilesOf(r) \/ Profile(r) \/ Checkpoint(r)
    \/ ReplyRead(r) \/ Ensure(r) \/ NewToken(r) \/ SendReply(r) \/ Adopt(r)
Google == Arrive \/ GrowOld

-----------------------------------------------------------------------------
(* Properties *)

From(m) == {x \in msgs : x.mail = m}

\* "Idempotent by design: a retried or re-triggered sync can never create a second ticket, and never
\* appends the same reply twice" (email-ticket-ingestion.service.ts): a mail is in one ticket, once,
\* and marked processed exactly then; its files follow; and two mails of one thread are in one ticket
\* unless a mail of the thread was filed in an overlap or a ticket of theirs moved to another thread.
MailBecomesOneTicket ==
    /\ \A m \in Mails :
        /\ Cardinality(From(m)) <= 1
        /\ row[m] = "processed" => From(m) # {}
        /\ From(m) # {} => row[m] = "processed" \/ (row[m] = "failed" /\ faults > 0)
        /\ \A x \in From(m) : pc[x.of] = "done" /\ faults = 0 => m \in files
    /\ \A x, y \in msgs :
        /\ x.on # y.on /\ box[x.mail].thread = box[y.mail].thread
        => \/ \E z \in msgs : box[z.mail].thread = box[x.mail].thread /\ Overlapped(z.of)
           \/ \E z \in msgs : z.on \in {x.on, y.on} /\ box[z.mail].thread # box[x.mail].thread

\* Listed or not, nothing was done about a mail the checkpoint has passed, and no list was cut before it
\* in one of these ways, no call failed, and it did not arrive when a sync had listed and not ended.
PassedOver(m, ways) ==
    /\ conn[Main].cursor # None /\ m <= conn[Main].cursor /\ row[m] = "none"
    /\ ~\E way \in ways : <<m, way>> \in cut
    /\ faults = 0 /\ box[m].late = {}

\* The checkpoint passes over no mail, but for those three windows: the sync reads a bounded list when it
\* has no checkpoint that counts, and otherwise one page of the history and never the next, while the
\* checkpoint goes to the head of the mailbox.
CheckpointHidesNothing == \A m \in Mails : ~PassedOver(m, {"recent", "page"})

\* A mail becomes one ticket or message: none twice, and none passed over.
MailsHold == MailBecomesOneTicket /\ CheckpointHidesNothing

\* "Tokens are revoked and no longer usable - don't keep them at rest" (email-integration.service.ts),
\* unless a refresh overlapped the disconnect; an organisation has one active inbox and a state of the
\* OAuth flow is exchanged once, unless two callbacks overlapped.
ConnectionHolds ==
    /\ \A a \in Account :
        conn[a].known /\ ~conn[a].active /\ conn[a].tokens # "wiped" =>
            \E q, r \in Req : {q, r} \in met /\ Kind(r) = "disconnect" /\ Kind(q) \in {"sync", "poll", "reply"}
    /\ Cardinality(Active) > 1 =>
            \E q, r \in Req : q # r /\ {q, r} \in met /\ Kind(q) = "callback" /\ Kind(r) = "callback"
    /\ \A u, v \in used : u[1] = v[1] => u = v \/ {u[2], v[2]} \in met

\* A reply to what the help desk sent comes back to the ticket it was sent for, by whichever signal the
\* mail still has: the token of a mail sent stays the ticket's, and an answer is filed there, unless
\* mails overlapped that gave the ticket a token each, or the thread of the answer, the strongest signal,
\* is already that of another ticket.
RepliesFindTheirTicket ==
    /\ \A s \in sent : ticket[s.t].token = s.token \/ Overlapped(s.of)
    /\ \A x \in msgs, s \in sent :
        /\ x.on # s.t
        /\ \/ box[x.mail].token = s.token
           \/ box[x.mail].header = s.t
           \/ box[x.mail].number = s.t
        => \/ Overlapped(s.of)
           \/ \E y \in msgs : y.on = x.on /\ y.mail # x.mail /\ box[y.mail].thread = box[x.mail].thread

\* "The strongest signal ... Gmail itself keeps every message in the conversation under one thread"
\* (gmail-thread.service.ts): without overlaps the mails of a thread are in one ticket.
ThreadsStayTogether ==
    \A x, y \in msgs :
        box[x.mail].thread = box[y.mail].thread =>
            x.on = y.on \/ Overlapped(x.of) \/ Overlapped(y.of)

\* "Walks new messages since the last checkpoint (or a bounded initial fetch for a fresh connection)"
\* (gmail-sync.service.ts): with a checkpoint, all of them.
NewMessagesAreWalked == \A m \in Mails : ~PassedOver(m, {"recent"})
=============================================================================
