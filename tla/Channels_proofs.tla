----------------------------- MODULE Channels_proofs ----------------------------
(***************************************************************************)
(* Theorems about the inbox of module Inbox and the chat of Conversations, *)
(* beside every step of the intake, of whose processes Intake_proofs says  *)
(* where they are: a mail becomes one ticket or message, the connections   *)
(* of the inbox are kept, replies come back to their ticket, and what a    *)
(* visitor writes in the chat arrives once, with its files. They hold for  *)
(* any number of processes of any areas, mails, threads, attempts, files   *)
(* and faults.                                                             *)
(***************************************************************************)
EXTENDS Intake_proofs

-----------------------------------------------------------------------------
(* The inbox: where its processes are, and what they hold *)

\* The steps of the handlers of module Inbox, and what kind of process goes through them.
Sending == {"ensure", "token", "refresh", "keep", "send", "adopt"}
Walking == {"mark", "list", "loop", "record", "match", "append", "sender", "open", "files", "profile", "checkpoint"}
MailSteps == {"del", "exchange", "check", "upsert", "revoke", "wipe", "write", "next"} \cup Sending \cup Walking
Syncing == {"sync", "poll"}
Serves(kind, step) ==
    \/ kind = "callback" /\ step \in {"del", "exchange", "check", "upsert"}
    \/ kind = "disconnect" /\ step \in {"revoke", "wipe"}
    \/ kind = "settings" /\ step = "write"
    \/ kind \in Syncing \cup {"reply"} /\ step \in Sending
    \/ kind \in Syncing /\ step \in Walking
    \/ kind = "poll" /\ step = "next"

\* A process of the inbox is at a step of its own handler, nobody else is at one, and it goes on as it should
\* when it has a token.
MailRoutes ==
    \A r \in Req :
        /\ \/ pc[r] \in Ended \cup {"start"}
           \/ Serves(Kind(r), pc[r])
           \/ Kind(r) \notin Mailing /\ pc[r] \notin MailSteps
        /\ mem[r].next \in {"send", "list"} => Kind(r) \in Syncing \/ (Kind(r) = "reply" /\ mem[r].next = "send")
        /\ pc[r] \in {"refresh", "keep"} => mem[r].next \in {"send", "list"}

\* Tickets bear the token of the process that replied on them, or that opened them.
Token == Req \X (0..MaxMail)
Bears(k) == IF Kind(k[1]) = "reply" THEN On(k[1]) ELSE k
Thread(m) == box[m].thread

\* A process that deals with a mail: before it is filed, and after; and one that sends.
Matching == {"match", "append", "sender", "open"}
Replying(r) == pc[r] \in {"ensure", "token", "send", "adopt"} \/ (pc[r] \in {"refresh", "keep"} /\ mem[r].next = "send")
Bearing(r) == pc[r] = "send" \/ (pc[r] \in {"refresh", "keep"} /\ mem[r].next = "send")
Filing(r) == Kind(r) \in Syncing /\ (pc[r] = "files" \/ Replying(r))
Bound(r) == Kind(r) \in Syncing \cup {"reply"} /\ pc[r] \notin Ended \cup {"start", "next"}

\* The mails there are, the rows, and what a process holds.
BoxType ==
    /\ Cardinality(DOMAIN box) \in Nat /\ DOMAIN box = Mails /\ Mails \subseteq 1..MaxMail
    /\ \A m \in Mails :
        /\ Thread(m) \in Mails
        /\ box[m].header \in Tid \cup {None} /\ box[m].number \in Tid \cup {None} /\ box[m].token \in Token \cup {None}
        /\ box[m].token # None => box[m].header = None
        /\ box[m].number # None => box[m].header = None /\ box[m].token = None
RowType ==
    /\ DOMAIN row = 1..MaxMail
    /\ DOMAIN conn = Account /\ \A a \in Account : DOMAIN conn[a] = DOMAIN NoConn /\ conn[a].cursor \in Nat \cup {None}
    /\ DOMAIN ticket = Tid
    /\ \A t \in Tid : DOMAIN ticket[t] = DOMAIN NoTicket /\ ticket[t].thread \in Nat \cup {None} /\ ticket[t].token \in Token \cup {None}
    /\ msgs \subseteq [on : Tid, mail : Mails, of : Req]
    /\ sent \subseteq [t : Tid, token : Token, thread : Nat, of : Req]
    /\ \A x \in msgs : pc[x.of] # "free" /\ Kind(x.of) \in Syncing
    /\ \A s \in sent : pc[s.of] # "free"
Carries(r) ==
    /\ Kind(r) \in Mailing =>
        /\ mem[r].thread \in Nat \cup {None} /\ mem[r].token \in Token \cup {None} /\ mem[r].conn.cursor \in Nat \cup {None}
        /\ mem[r].m \in 0..MaxMail /\ mem[r].ids \subseteq Mails /\ mem[r].left \subseteq Account
    /\ Kind(r) = "reply" => On(r) \in Tid
    /\ Kind(r) = "callback" => Opt(r) \in Account
    /\ Bound(r) \/ pc[r] \in {"revoke", "wipe", "write"} => mem[r].acc \in Account
    /\ pc[r] \in Matching \cup {"record"} \/ Filing(r) => mem[r].m \in Mails
    /\ pc[r] = "append" => mem[r].t \in Tid
    /\ Bearing(r) => mem[r].token \in Token
    /\ pc[r] = "checkpoint" => mem[r].head \in Nat
    /\ Replying(r) => mem[r].t = IF Kind(r) = "reply" THEN On(r) ELSE <<r, mem[r].m>>
MailType == BoxType /\ RowType /\ \A r \in Req : Carries(r)

-----------------------------------------------------------------------------
(* Connections *)

TwoCallbacks == \E q, r \in Req : q # r /\ {q, r} \in met /\ Kind(q) = "callback" /\ Kind(r) = "callback"
Dropped(r) == \E q \in Req : {q, r} \in met /\ Kind(q) = "disconnect"

\* Who writes tokens back has an active connection, or met a disconnect; what is not active has none.
BoundInv == \A r \in Req : Bound(r) => conn[mem[r].acc].active \/ Dropped(r)
WipedInv ==
    \A a \in Account : conn[a].known /\ ~conn[a].active /\ conn[a].tokens # "wiped" =>
        \E r \in Req : Kind(r) \in Syncing \cup {"reply"} /\ Dropped(r)

\* One account is active, which is that of who is about to connect it; who exchanged a state was there before
\* those that may exchange it again.
OneInv ==
    TwoCallbacks \/ (/\ \A a, b \in Active : a = b
                    /\ \A r \in Req : pc[r] = "upsert" => Active \subseteq {Opt(r)})
UsedInv ==
    /\ \A u \in used :
        /\ u[2] \in Req /\ u = <<On(u[2]), u[2]>> /\ Kind(u[2]) = "callback" /\ pc[u[2]] \notin {"free", "start", "del"}
        /\ u[1] \notin states
        /\ \A r \in Req : pc[r] = "del" /\ On(r) = u[1] => {u[2], r} \in met
    /\ \A u, v \in used : u[1] = v[1] => u = v \/ {u[2], v[2]} \in met
ConnInv == BoundInv /\ WipedInv /\ OneInv /\ UsedInv

-----------------------------------------------------------------------------
(* Mails become tickets once *)

\* A mail is one process's from its record on, which has filed it or not; what is filed has its files stored,
\* unless something failed, or the process is still about to.
OnceInv ==
    /\ \A m \in 1..MaxMail : row[m] # "none" => m \in Mails
    /\ \A r \in Req : pc[r] \in Matching => row[mem[r].m] = "processing" /\ \A x \in msgs : x.mail # mem[r].m
    /\ \A q, r \in Req : q # r /\ pc[q] \in Matching /\ pc[r] \in Matching => mem[q].m # mem[r].m
    /\ \A r \in Req : Filing(r) => \E x \in msgs : x.mail = mem[r].m
    /\ \A m \in Mails : row[m] = "processed" => \E x \in msgs : x.mail = m
    /\ \A x \in msgs : row[x.mail] = "processed" \/ (row[x.mail] = "failed" /\ faults > 0)
    /\ \A x, y \in msgs : x.mail = y.mail => x = y
    /\ \A x \in msgs : x.mail \in files \/ faults > 0 \/ (Filing(x.of) /\ mem[x.of].m = x.mail)

\* A ticket has got a mail of another thread; a mail of the thread was filed in an overlap.
Foreign(t, th) == \E z \in msgs : z.on = t /\ Thread(z.mail) # th
Stirred(th) == \E z \in msgs : Thread(z.mail) = th /\ Overlapped(z.of)
Astray(t, x) == Stirred(Thread(x.mail)) \/ Foreign(t, Thread(x.mail)) \/ Foreign(x.on, Thread(x.mail))

\* A process that found its mail a ticket, or none, missed nothing that was there, unless something overlapped
\* it; a reply begins a thread on a ticket that nobody wrote to, and a mail's ticket has the thread of the mail.
Follows(r) ==
    /\ pc[r] = "append" => /\ ticket[mem[r].t].live
                           /\ \A y \in msgs : y.on # mem[r].t /\ Thread(y.mail) = Thread(mem[r].m)
                                                => Astray(mem[r].t, y) \/ Overlapped(r)
    /\ pc[r] \in {"sender", "open"} => \A y \in msgs : Thread(y.mail) = Thread(mem[r].m)
                                                => Stirred(Thread(y.mail)) \/ Foreign(y.on, Thread(y.mail)) \/ Overlapped(r)
    /\ Kind(r) \in Syncing => pc[r] # "adopt" /\ (Replying(r) => mem[r].thread # None)
    /\ Replying(r) /\ Kind(r) = "reply" /\ (mem[r].thread = None \/ pc[r] = "adopt") =>
        \A x \in msgs : x.on = mem[r].t => Overlapped(x.of) \/ Foreign(x.on, Thread(x.mail))
    /\ pc[r] = "adopt" => mem[r].thread > MaxMail

\* The ticket of a mail has its thread, and a ticket that has the thread of mails has one of them; so the next
\* mail of the thread finds the ticket.
ThreadInv ==
    /\ \A x \in msgs :
        /\ ticket[x.on].live
        /\ ticket[x.on].thread = Thread(x.mail) \/ Overlapped(x.of) \/ Foreign(x.on, Thread(x.mail))
    /\ \A t \in Tid : ticket[t].live /\ ticket[t].thread \in 1..MaxMail => \E z \in msgs : z.on = t /\ Thread(z.mail) = ticket[t].thread
    /\ \A x, y \in msgs : x.on # y.on /\ Thread(x.mail) = Thread(y.mail) => Astray(x.on, y)
    /\ \A r \in Req : Follows(r)

-----------------------------------------------------------------------------
(* Replies come back *)

\* Whoever makes a token makes it once.
Spent(k) ==
    \/ Kind(k[1]) = "reply" /\ pc[k[1]] \notin {"free", "start", "ensure", "token"}
    \/ /\ Kind(k[1]) \in Syncing /\ k \in Tid /\ ticket[k].live
       /\ ~(pc[k[1]] \in {"ensure", "token"} /\ mem[k[1]].m = k[2])
Owns(t, k) == k \in Token /\ Spent(k) /\ Bears(k) = t
Elder(t, m) == \E z \in msgs : z.on = t /\ z.mail # m /\ Thread(z.mail) = Thread(m)
Lost(k) == ticket[Bears(k)].token # k

\* Where mail m says that it belongs, and t is not, unless by its thread.
Belongs(t, m) ==
    \/ Elder(t, m)
    \/ /\ box[m].header # None => t = box[m].header
       /\ box[m].number # None => t = box[m].number
       /\ box[m].token # None => t = Bears(box[m].token) \/ Lost(box[m].token)

\* What a process found for a mail is where it belongs, the token it sends with is its ticket's, and who makes
\* one found none.
Knows(r) ==
    /\ pc[r] \in Matching => ~ticket[<<r, mem[r].m>>].live
    /\ Replying(r) => ticket[mem[r].t].live
    /\ Bearing(r) => Owns(mem[r].t, mem[r].token) /\ (ticket[mem[r].t].token = mem[r].token \/ Overlapped(r))
    /\ pc[r] = "token" => \A s \in sent : s.t = mem[r].t => Overlapped(s.of)
    /\ pc[r] = "append" => Belongs(mem[r].t, mem[r].m)
    /\ pc[r] \in {"sender", "open"} =>
        /\ box[mem[r].m].header = None /\ box[mem[r].m].number = None
        /\ box[mem[r].m].token # None => Lost(box[mem[r].m].token)

\* The signals of a mail are of tickets there are, and a token is of the ticket it was made for.
SignalInv ==
    \A m \in Mails :
        /\ box[m].header # None => ticket[box[m].header].live
        /\ box[m].number # None => ticket[box[m].number].live
        /\ box[m].token # None => Bears(box[m].token) \in Tid /\ Spent(box[m].token) /\ ticket[Bears(box[m].token)].live
OwnInv == \A t \in Tid : ticket[t].token # None => Owns(t, ticket[t].token) /\ ticket[t].live
SentInv == \A s \in sent : ticket[s.t].live /\ Owns(s.t, s.token) /\ (ticket[s.t].token = s.token \/ Overlapped(s.of))
LiveInv == ticket[First].live /\ \A t \in Tid : t # First /\ ticket[t].live => row[t[2]] # "none"
TokenInv ==
    /\ OwnInv /\ SentInv /\ SignalInv /\ LiveInv
    /\ \A x \in msgs : Belongs(x.on, x.mail)
    /\ \A r \in Req : Knows(r)

-----------------------------------------------------------------------------
(* The checkpoint passes over nothing *)

LeftBehind(m) == \E way \in {"recent", "page"} : <<m, way>> \in cut
Excused(m) == LeftBehind(m) \/ faults > 0 \/ box[m].late # {}
Passed(c) == c # None => c <= Cardinality(Mails) /\ \A m \in Mails : m <= c => row[m] # "none" \/ Excused(m)

\* A process that has listed the mails of Main.
Lists(r) ==
    /\ Kind(r) \in Syncing /\ mem[r].acc = Main
    /\ pc[r] \in {"loop", "record", "files", "profile", "checkpoint"} \cup Matching \/ Replying(r)
PassInv ==
    /\ Passed(conn[Main].cursor)
    /\ \A r \in Req :
        /\ Kind(r) \in Mailing /\ mem[r].acc = Main => Passed(mem[r].conn.cursor)
        /\ Lists(r) => \A m \in Mails : row[m] # "none" \/ Excused(m) \/ m \in mem[r].ids \/ (pc[r] = "record" /\ m = mem[r].m)
        /\ pc[r] \in {"profile", "checkpoint"} => mem[r].ids = {}
        /\ pc[r] = "checkpoint" /\ mem[r].acc = Main => mem[r].head <= Cardinality(Mails)

MailInv == MailRoutes /\ MailType /\ ConnInv /\ OnceInv /\ ThreadInv /\ TokenInv /\ PassInv

-----------------------------------------------------------------------------
(* What the steps of the inbox do *)

\* The steps of the inbox, by what they write and where they lead.
LEMMA MailEffects ==
    ASSUME CoreInv, MailRoutes, NEW r \in Req
    PROVE  /\ StateGet(r) => /\ pc[r] = "start" /\ Kind(r) \in {"callback"}
                  /\ pc'[r] \in {"del", "rejected"}
                  /\ UNCHANGED <<conn, states, granted, box, kept, row, ticket, msgs, files, sent, used, cut>>
           /\ StateDel(r) => /\ pc[r] = "del" /\ Kind(r) \in {"callback"}
                  /\ pc'[r] \in {"exchange"}
                  /\ UNCHANGED <<conn, granted, box, kept, row, ticket, msgs, files, sent, cut>>
           /\ Exchange(r) => /\ pc[r] = "exchange" /\ Kind(r) \in {"callback"}
                  /\ pc'[r] \in {"check"}
                  /\ UNCHANGED <<conn, states, box, kept, row, ticket, msgs, files, sent, used, cut>>
           /\ Check(r) => /\ pc[r] = "check" /\ Kind(r) \in {"callback"}
                  /\ pc'[r] \in {"upsert", "rejected"}
                  /\ UNCHANGED <<conn, states, granted, box, kept, row, ticket, msgs, files, sent, used, cut>>
           /\ Upsert(r) => /\ pc[r] = "upsert" /\ Kind(r) \in {"callback"}
                  /\ pc'[r] \in {"done"}
                  /\ UNCHANGED <<states, granted, box, kept, row, ticket, msgs, files, sent, used, cut>>
           /\ FindActive(r) => /\ pc[r] = "start" /\ Kind(r) \in {"disconnect", "settings"}
                  /\ pc'[r] \in {"write", "revoke", "rejected"}
                  /\ UNCHANGED <<conn, states, granted, box, kept, row, ticket, msgs, files, sent, used, cut>>
           /\ Revoke(r) => /\ pc[r] = "revoke" /\ Kind(r) \in {"disconnect"}
                  /\ pc'[r] \in {"wipe"}
                  /\ UNCHANGED <<conn, states, box, kept, row, ticket, msgs, files, sent, used, cut>>
           /\ Disconnect(r) => /\ pc[r] = "wipe" /\ Kind(r) \in {"disconnect"}
                  /\ pc'[r] \in {"done"}
                  /\ UNCHANGED <<states, granted, box, kept, row, ticket, msgs, files, sent, used, cut>>
           /\ UpdateSettings(r) => /\ pc[r] = "write" /\ Kind(r) \in {"settings"}
                  /\ pc'[r] \in {"done"}
                  /\ UNCHANGED <<states, granted, box, kept, row, ticket, msgs, files, sent, used, cut>>
           /\ Refresh(r) => /\ pc[r] = "refresh" /\ Kind(r) \in {"sync", "poll", "reply"}
                  /\ pc'[r] \in {"keep", "done", "files", "next", "failed"}
                  /\ UNCHANGED <<states, granted, box, kept, row, ticket, msgs, files, sent, used, cut>>
           /\ KeepToken(r) => /\ pc[r] = "keep" /\ Kind(r) \in {"sync", "poll", "reply"}
                  /\ pc'[r] \in {"send", "list"}
                  /\ UNCHANGED <<states, granted, box, kept, row, ticket, msgs, files, sent, used, cut>>
           /\ SyncStart(r) => /\ pc[r] = "start" /\ Kind(r) \in {"sync"}
                  /\ pc'[r] \in {"mark", "done", "rejected"}
                  /\ UNCHANGED <<conn, states, granted, box, kept, row, ticket, msgs, files, sent, used, cut>>
           /\ PollStart(r) => /\ pc[r] = "start" /\ Kind(r) \in {"poll"}
                  /\ pc'[r] \in {"done", "next"}
                  /\ UNCHANGED <<conn, states, granted, box, kept, row, ticket, msgs, files, sent, used, cut>>
           /\ PollNext(r) => /\ pc[r] = "next" /\ Kind(r) \in {"poll"}
                  /\ pc'[r] \in {"done", "mark", "next"}
                  /\ UNCHANGED <<conn, states, granted, box, kept, row, ticket, msgs, files, sent, used, cut>>
           /\ Mark(r) => /\ pc[r] = "mark" /\ Kind(r) \in {"sync", "poll"}
                  /\ pc'[r] \in {"refresh", "list"}
                  /\ UNCHANGED <<states, granted, box, kept, row, ticket, msgs, files, sent, used, cut>>
           /\ ListNew(r) => /\ pc[r] = "list" /\ Kind(r) \in {"sync", "poll"}
                  /\ pc'[r] \in {"loop"}
                  /\ UNCHANGED <<conn, states, granted, box, kept, row, ticket, msgs, files, sent, used>>
           /\ NextMail(r) => /\ pc[r] = "loop" /\ Kind(r) \in {"sync", "poll"}
                  /\ pc'[r] \in {"profile", "record", "loop"}
                  /\ UNCHANGED <<conn, states, granted, box, kept, row, ticket, msgs, files, sent, used, cut>>
           /\ Record(r) => /\ pc[r] = "record" /\ Kind(r) \in {"sync", "poll"}
                  /\ pc'[r] \in {"loop", "match"}
                  /\ UNCHANGED <<conn, states, granted, box, kept, ticket, msgs, files, sent, used, cut>>
           /\ Match(r) => /\ pc[r] = "match" /\ Kind(r) \in {"sync", "poll"}
                  /\ pc'[r] \in {"sender", "append"}
                  /\ UNCHANGED <<conn, states, granted, box, kept, row, ticket, msgs, files, sent, used, cut>>
           /\ Append(r) => /\ pc[r] = "append" /\ Kind(r) \in {"sync", "poll"}
                  /\ pc'[r] \in {"files"}
                  /\ UNCHANGED <<conn, states, granted, box, kept, files, sent, used, cut>>
           /\ Sender(r) => /\ pc[r] = "sender" /\ Kind(r) \in {"sync", "poll"}
                  /\ pc'[r] \in {"loop", "open"}
                  /\ UNCHANGED <<conn, states, granted, box, kept, ticket, msgs, files, sent, used, cut>>
           /\ OpenTicket(r) => /\ pc[r] = "open" /\ Kind(r) \in {"sync", "poll"}
                  /\ pc'[r] \in {"ensure"}
                  /\ UNCHANGED <<conn, states, granted, box, kept, files, sent, used, cut>>
           /\ FilesOf(r) => /\ pc[r] = "files" /\ Kind(r) \in {"sync", "poll"}
                  /\ pc'[r] \in {"loop"}
                  /\ UNCHANGED <<conn, states, granted, box, kept, row, ticket, msgs, sent, used, cut>>
           /\ Profile(r) => /\ pc[r] = "profile" /\ Kind(r) \in {"sync", "poll"}
                  /\ pc'[r] \in {"checkpoint"}
                  /\ UNCHANGED <<conn, states, granted, box, kept, row, ticket, msgs, files, sent, used, cut>>
           /\ Checkpoint(r) => /\ pc[r] = "checkpoint" /\ Kind(r) \in {"sync", "poll"}
                  /\ pc'[r] \in {"next", "done"}
                  /\ UNCHANGED <<states, granted, box, kept, row, ticket, msgs, files, sent, used, cut>>
           /\ ReplyRead(r) => /\ pc[r] = "start" /\ Kind(r) \in {"reply"}
                  /\ pc'[r] \in {"done", "ensure"}
                  /\ UNCHANGED <<conn, states, granted, box, kept, row, ticket, msgs, files, sent, used, cut>>
           /\ Ensure(r) => /\ pc[r] = "ensure" /\ Kind(r) \in {"sync", "poll", "reply"}
                  /\ pc'[r] \in {"token", "refresh", "send"}
                  /\ UNCHANGED <<conn, states, granted, box, kept, row, ticket, msgs, files, sent, used, cut>>
           /\ NewToken(r) => /\ pc[r] = "token" /\ Kind(r) \in {"sync", "poll", "reply"}
                  /\ pc'[r] \in {"refresh", "send"}
                  /\ UNCHANGED <<conn, states, granted, box, kept, row, msgs, files, sent, used, cut>>
           /\ SendReply(r) => /\ pc[r] = "send" /\ Kind(r) \in {"sync", "poll", "reply"}
                  /\ pc'[r] \in {"done", "files", "adopt"}
                  /\ UNCHANGED <<conn, states, granted, box, kept, row, ticket, msgs, files, used, cut>>
           /\ Adopt(r) => /\ pc[r] = "adopt" /\ Kind(r) \in {"sync", "poll", "reply"}
                  /\ pc'[r] \in {"done", "files"}
                  /\ UNCHANGED <<conn, states, granted, box, kept, row, msgs, files, sent, used, cut>>
  <1>1. /\ DOMAIN pc = Req
        /\ \/ pc[r] \in Ended \cup {"start"}
           \/ Serves(Kind(r), pc[r])
           \/ Kind(r) \notin Mailing /\ pc[r] \notin MailSteps
        /\ mem[r].next \in {"send", "list"} => Kind(r) \in Syncing \/ (Kind(r) = "reply" /\ mem[r].next = "send")
        /\ pc[r] \in {"refresh", "keep"} => mem[r].next \in {"send", "list"}
    BY DEF CoreInv, ProcessType, MailRoutes
  <1>2. StateGet(r) => /\ pc[r] = "start" /\ Kind(r) \in {"callback"}
             /\ pc'[r] \in {"del", "rejected"}
             /\ UNCHANGED <<conn, states, granted, box, kept, row, ticket, msgs, files, sent, used, cut>>
    BY <1>1 DEF StateGet, At, Ended, Serves, Syncing, Sending, Walking, Mailing, MailSteps, Skip, Reject, Read, Go,
       Same, mailbox, google
  <1>3. StateDel(r) => /\ pc[r] = "del" /\ Kind(r) \in {"callback"}
             /\ pc'[r] \in {"exchange"}
             /\ UNCHANGED <<conn, granted, box, kept, row, ticket, msgs, files, sent, cut>>
    BY <1>1 DEF StateDel, At, Ended, Serves, Syncing, Sending, Walking, Mailing, MailSteps, Skip, Reject, Read, Go,
       Same, mailbox, google
  <1>4. Exchange(r) => /\ pc[r] = "exchange" /\ Kind(r) \in {"callback"}
             /\ pc'[r] \in {"check"}
             /\ UNCHANGED <<conn, states, box, kept, row, ticket, msgs, files, sent, used, cut>>
    BY <1>1 DEF Exchange, At, Ended, Serves, Syncing, Sending, Walking, Mailing, MailSteps, Skip, Reject, Read, Go,
       Same, mailbox, google
  <1>5. Check(r) => /\ pc[r] = "check" /\ Kind(r) \in {"callback"}
             /\ pc'[r] \in {"upsert", "rejected"}
             /\ UNCHANGED <<conn, states, granted, box, kept, row, ticket, msgs, files, sent, used, cut>>
    BY <1>1 DEF Check, At, Ended, Serves, Syncing, Sending, Walking, Mailing, MailSteps, Skip, Reject, Read, Go,
       Same, mailbox, google
  <1>6. Upsert(r) => /\ pc[r] = "upsert" /\ Kind(r) \in {"callback"}
             /\ pc'[r] \in {"done"}
             /\ UNCHANGED <<states, granted, box, kept, row, ticket, msgs, files, sent, used, cut>>
    BY <1>1 DEF Upsert, At, Ended, Serves, Syncing, Sending, Walking, Mailing, MailSteps, Skip, Reject, Read, Go,
       Same, mailbox, google
  <1>7. FindActive(r) => /\ pc[r] = "start" /\ Kind(r) \in {"disconnect", "settings"}
             /\ pc'[r] \in {"write", "revoke", "rejected"}
             /\ UNCHANGED <<conn, states, granted, box, kept, row, ticket, msgs, files, sent, used, cut>>
    BY <1>1, Zenon DEF FindActive, At, Ended, Serves, Syncing, Sending, Walking, Mailing, MailSteps, Skip, Reject, Read, Go,
       Same, mailbox, google
  <1>8. Revoke(r) => /\ pc[r] = "revoke" /\ Kind(r) \in {"disconnect"}
             /\ pc'[r] \in {"wipe"}
             /\ UNCHANGED <<conn, states, box, kept, row, ticket, msgs, files, sent, used, cut>>
    BY <1>1 DEF Revoke, At, Ended, Serves, Syncing, Sending, Walking, Mailing, MailSteps, Skip, Reject, Read, Go,
       Same, mailbox, google
  <1>9. Disconnect(r) => /\ pc[r] = "wipe" /\ Kind(r) \in {"disconnect"}
             /\ pc'[r] \in {"done"}
             /\ UNCHANGED <<states, granted, box, kept, row, ticket, msgs, files, sent, used, cut>>
    BY <1>1 DEF Disconnect, At, Ended, Serves, Syncing, Sending, Walking, Mailing, MailSteps, Skip, Reject, Read, Go,
       Same, mailbox, google
  <1>10. UpdateSettings(r) => /\ pc[r] = "write" /\ Kind(r) \in {"settings"}
             /\ pc'[r] \in {"done"}
             /\ UNCHANGED <<states, granted, box, kept, row, ticket, msgs, files, sent, used, cut>>
    BY <1>1 DEF UpdateSettings, At, Ended, Serves, Syncing, Sending, Walking, Mailing, MailSteps, Skip, Reject, Read, Go,
       Same, mailbox, google
  <1>11. Refresh(r) => /\ pc[r] = "refresh" /\ Kind(r) \in {"sync", "poll", "reply"}
             /\ pc'[r] \in {"keep", "done", "files", "next", "failed"}
             /\ UNCHANGED <<states, granted, box, kept, row, ticket, msgs, files, sent, used, cut>>
    BY <1>1 DEF Refresh, At, Ended, Serves, Syncing, Sending, Walking, Mailing, MailSteps, Skip, Reject, Read, Go,
       Same, mailbox, google, AfterSend, SyncEnd
  <1>12. KeepToken(r) => /\ pc[r] = "keep" /\ Kind(r) \in {"sync", "poll", "reply"}
             /\ pc'[r] \in {"send", "list"}
             /\ UNCHANGED <<states, granted, box, kept, row, ticket, msgs, files, sent, used, cut>>
    BY <1>1 DEF KeepToken, At, Ended, Serves, Syncing, Sending, Walking, Mailing, MailSteps, Skip, Reject, Read, Go,
       Same, mailbox, google
  <1>13. SyncStart(r) => /\ pc[r] = "start" /\ Kind(r) \in {"sync"}
             /\ pc'[r] \in {"mark", "done", "rejected"}
             /\ UNCHANGED <<conn, states, granted, box, kept, row, ticket, msgs, files, sent, used, cut>>
    BY <1>1, Zenon DEF SyncStart, At, Ended, Serves, Syncing, Sending, Walking, Mailing, MailSteps, Skip, Reject, Read, Go,
       Same, mailbox, google
  <1>14. PollStart(r) => /\ pc[r] = "start" /\ Kind(r) \in {"poll"}
             /\ pc'[r] \in {"done", "next"}
             /\ UNCHANGED <<conn, states, granted, box, kept, row, ticket, msgs, files, sent, used, cut>>
    BY <1>1 DEF PollStart, At, Ended, Serves, Syncing, Sending, Walking, Mailing, MailSteps, Skip, Reject, Read, Go,
       Same, mailbox, google
  <1>15. PollNext(r) => /\ pc[r] = "next" /\ Kind(r) \in {"poll"}
             /\ pc'[r] \in {"done", "mark", "next"}
             /\ UNCHANGED <<conn, states, granted, box, kept, row, ticket, msgs, files, sent, used, cut>>
    BY <1>1, Zenon DEF PollNext, At, Ended, Serves, Syncing, Sending, Walking, Mailing, MailSteps, Skip, Reject, Read, Go,
       Same, mailbox, google
  <1>16. Mark(r) => /\ pc[r] = "mark" /\ Kind(r) \in {"sync", "poll"}
             /\ pc'[r] \in {"refresh", "list"}
             /\ UNCHANGED <<states, granted, box, kept, row, ticket, msgs, files, sent, used, cut>>
    BY <1>1 DEF Mark, At, Ended, Serves, Syncing, Sending, Walking, Mailing, MailSteps, Skip, Reject, Read, Go,
       Same, mailbox, google
  <1>17. ListNew(r) => /\ pc[r] = "list" /\ Kind(r) \in {"sync", "poll"}
             /\ pc'[r] \in {"loop"}
             /\ UNCHANGED <<conn, states, granted, box, kept, row, ticket, msgs, files, sent, used>>
    BY <1>1 DEF ListNew, At, Ended, Serves, Syncing, Sending, Walking, Mailing, MailSteps, Skip, Reject, Read, Go,
       Same, mailbox, google
  <1>18. NextMail(r) => /\ pc[r] = "loop" /\ Kind(r) \in {"sync", "poll"}
             /\ pc'[r] \in {"profile", "record", "loop"}
             /\ UNCHANGED <<conn, states, granted, box, kept, row, ticket, msgs, files, sent, used, cut>>
    BY <1>1, Zenon DEF NextMail, At, Ended, Serves, Syncing, Sending, Walking, Mailing, MailSteps, Skip, Reject, Read, Go,
       Same, mailbox, google
  <1>19. Record(r) => /\ pc[r] = "record" /\ Kind(r) \in {"sync", "poll"}
             /\ pc'[r] \in {"loop", "match"}
             /\ UNCHANGED <<conn, states, granted, box, kept, ticket, msgs, files, sent, used, cut>>
    BY <1>1 DEF Record, At, Ended, Serves, Syncing, Sending, Walking, Mailing, MailSteps, Skip, Reject, Read, Go,
       Same, mailbox, google
  <1>20. Match(r) => /\ pc[r] = "match" /\ Kind(r) \in {"sync", "poll"}
             /\ pc'[r] \in {"sender", "append"}
             /\ UNCHANGED <<conn, states, granted, box, kept, row, ticket, msgs, files, sent, used, cut>>
    BY <1>1 DEF Match, At, Ended, Serves, Syncing, Sending, Walking, Mailing, MailSteps, Skip, Reject, Read, Go,
       Same, mailbox, google
  <1>21. Append(r) => /\ pc[r] = "append" /\ Kind(r) \in {"sync", "poll"}
             /\ pc'[r] \in {"files"}
             /\ UNCHANGED <<conn, states, granted, box, kept, files, sent, used, cut>>
    BY <1>1 DEF Append, At, Ended, Serves, Syncing, Sending, Walking, Mailing, MailSteps, Skip, Reject, Read, Go,
       Same, mailbox, google
  <1>22. Sender(r) => /\ pc[r] = "sender" /\ Kind(r) \in {"sync", "poll"}
             /\ pc'[r] \in {"loop", "open"}
             /\ UNCHANGED <<conn, states, granted, box, kept, ticket, msgs, files, sent, used, cut>>
    BY <1>1 DEF Sender, At, Ended, Serves, Syncing, Sending, Walking, Mailing, MailSteps, Skip, Reject, Read, Go,
       Same, mailbox, google
  <1>23. OpenTicket(r) => /\ pc[r] = "open" /\ Kind(r) \in {"sync", "poll"}
             /\ pc'[r] \in {"ensure"}
             /\ UNCHANGED <<conn, states, granted, box, kept, files, sent, used, cut>>
    BY <1>1 DEF OpenTicket, At, Ended, Serves, Syncing, Sending, Walking, Mailing, MailSteps, Skip, Reject, Read, Go,
       Same, mailbox, google
  <1>24. FilesOf(r) => /\ pc[r] = "files" /\ Kind(r) \in {"sync", "poll"}
             /\ pc'[r] \in {"loop"}
             /\ UNCHANGED <<conn, states, granted, box, kept, row, ticket, msgs, sent, used, cut>>
    BY <1>1 DEF FilesOf, At, Ended, Serves, Syncing, Sending, Walking, Mailing, MailSteps, Skip, Reject, Read, Go,
       Same, mailbox, google
  <1>25. Profile(r) => /\ pc[r] = "profile" /\ Kind(r) \in {"sync", "poll"}
             /\ pc'[r] \in {"checkpoint"}
             /\ UNCHANGED <<conn, states, granted, box, kept, row, ticket, msgs, files, sent, used, cut>>
    BY <1>1 DEF Profile, At, Ended, Serves, Syncing, Sending, Walking, Mailing, MailSteps, Skip, Reject, Read, Go,
       Same, mailbox, google
  <1>26. Checkpoint(r) => /\ pc[r] = "checkpoint" /\ Kind(r) \in {"sync", "poll"}
             /\ pc'[r] \in {"next", "done"}
             /\ UNCHANGED <<states, granted, box, kept, row, ticket, msgs, files, sent, used, cut>>
    BY <1>1 DEF Checkpoint, At, Ended, Serves, Syncing, Sending, Walking, Mailing, MailSteps, Skip, Reject, Read, Go,
       Same, mailbox, google
  <1>27. ReplyRead(r) => /\ pc[r] = "start" /\ Kind(r) \in {"reply"}
             /\ pc'[r] \in {"done", "ensure"}
             /\ UNCHANGED <<conn, states, granted, box, kept, row, ticket, msgs, files, sent, used, cut>>
    BY <1>1, Zenon DEF ReplyRead, At, Ended, Serves, Syncing, Sending, Walking, Mailing, MailSteps, Skip, Reject, Read, Go,
       Same, mailbox, google
  <1>28. Ensure(r) => /\ pc[r] = "ensure" /\ Kind(r) \in {"sync", "poll", "reply"}
             /\ pc'[r] \in {"token", "refresh", "send"}
             /\ UNCHANGED <<conn, states, granted, box, kept, row, ticket, msgs, files, sent, used, cut>>
    BY <1>1 DEF Ensure, At, Ended, Serves, Syncing, Sending, Walking, Mailing, MailSteps, Skip, Reject, Read, Go,
       Same, mailbox, google, Fresh
  <1>29. NewToken(r) => /\ pc[r] = "token" /\ Kind(r) \in {"sync", "poll", "reply"}
             /\ pc'[r] \in {"refresh", "send"}
             /\ UNCHANGED <<conn, states, granted, box, kept, row, msgs, files, sent, used, cut>>
    BY <1>1 DEF NewToken, At, Ended, Serves, Syncing, Sending, Walking, Mailing, MailSteps, Skip, Reject, Read, Go,
       Same, mailbox, google
  <1>30. SendReply(r) => /\ pc[r] = "send" /\ Kind(r) \in {"sync", "poll", "reply"}
             /\ pc'[r] \in {"done", "files", "adopt"}
             /\ UNCHANGED <<conn, states, granted, box, kept, row, ticket, msgs, files, used, cut>>
    BY <1>1 DEF SendReply, At, Ended, Serves, Syncing, Sending, Walking, Mailing, MailSteps, Skip, Reject, Read, Go,
       Same, mailbox, google, AfterSend
  <1>31. Adopt(r) => /\ pc[r] = "adopt" /\ Kind(r) \in {"sync", "poll", "reply"}
             /\ pc'[r] \in {"done", "files"}
             /\ UNCHANGED <<conn, states, granted, box, kept, row, msgs, files, sent, used, cut>>
    BY <1>1 DEF Adopt, At, Ended, Serves, Syncing, Sending, Walking, Mailing, MailSteps, Skip, Reject, Read, Go,
       Same, mailbox, google, AfterSend
  <1>32. QED
    BY <1>2, <1>3, <1>4, <1>5, <1>6, <1>7, <1>8, <1>9, <1>10, <1>11, <1>12, <1>13, <1>14, <1>15, <1>16, <1>17, <1>18, <1>19, <1>20, <1>21, <1>22, <1>23, <1>24, <1>25, <1>26, <1>27, <1>28, <1>29, <1>30, <1>31

\* Which steps of the inbox write what.
LEMMA MailWriters ==
    ASSUME CoreInv, MailRoutes, NEW r \in Req, InboxStep(r)
    PROVE  /\ UNCHANGED <<box, kept>>
           /\ conn' = conn \/ Upsert(r) \/ Disconnect(r) \/ UpdateSettings(r) \/ Refresh(r) \/ KeepToken(r) \/ Mark(r) \/ Checkpoint(r)
           /\ states' = states \/ StateDel(r)
           /\ row' = row \/ Record(r) \/ Append(r) \/ Sender(r) \/ OpenTicket(r)
           /\ ticket' = ticket \/ Append(r) \/ OpenTicket(r) \/ NewToken(r) \/ Adopt(r)
           /\ msgs' = msgs \/ Append(r) \/ OpenTicket(r)
           /\ files' = files \/ FilesOf(r)
           /\ sent' = sent \/ SendReply(r)
           /\ used' = used \/ StateDel(r)
           /\ cut' = cut \/ ListNew(r)
  BY MailEffects DEF InboxStep

\* Which steps of the inbox lead where.
LEMMA MailLeads ==
    ASSUME CoreInv, MailRoutes, NEW r \in Req, InboxStep(r)
    PROVE  /\ pc'[r] = "del" => StateGet(r)
           /\ pc'[r] = "exchange" => StateDel(r)
           /\ pc'[r] = "check" => Exchange(r)
           /\ pc'[r] = "upsert" => Check(r)
           /\ pc'[r] = "write" => FindActive(r)
           /\ pc'[r] = "revoke" => FindActive(r)
           /\ pc'[r] = "wipe" => Revoke(r)
           /\ pc'[r] = "keep" => Refresh(r)
           /\ pc'[r] = "files" => Refresh(r) \/ Append(r) \/ SendReply(r) \/ Adopt(r)
           /\ pc'[r] = "next" => Refresh(r) \/ PollStart(r) \/ PollNext(r) \/ Checkpoint(r)
           /\ pc'[r] = "send" => KeepToken(r) \/ Ensure(r) \/ NewToken(r)
           /\ pc'[r] = "list" => KeepToken(r) \/ Mark(r)
           /\ pc'[r] = "mark" => SyncStart(r) \/ PollNext(r)
           /\ pc'[r] = "refresh" => Mark(r) \/ Ensure(r) \/ NewToken(r)
           /\ pc'[r] = "loop" => ListNew(r) \/ NextMail(r) \/ Record(r) \/ Sender(r) \/ FilesOf(r)
           /\ pc'[r] = "profile" => NextMail(r)
           /\ pc'[r] = "record" => NextMail(r)
           /\ pc'[r] = "match" => Record(r)
           /\ pc'[r] = "sender" => Match(r)
           /\ pc'[r] = "append" => Match(r)
           /\ pc'[r] = "open" => Sender(r)
           /\ pc'[r] = "ensure" => OpenTicket(r) \/ ReplyRead(r)
           /\ pc'[r] = "checkpoint" => Profile(r)
           /\ pc'[r] = "token" => Ensure(r)
           /\ pc'[r] = "adopt" => SendReply(r)
  BY MailEffects DEF InboxStep

\* What was noted stays so, and what a process of the inbox holds and what it is at stays, when somebody else
\* takes a step, comes, or dies.
MailAside ==
    /\ UNCHANGED mailbox
    /\ met \subseteq met' /\ faults' \in Nat /\ faults' >= faults
    /\ \A r \in Req :
        \/ pc'[r] = pc[r] /\ mem'[r] = mem[r] /\ job'[r] = job[r]
        \/ pc[r] = "free" /\ pc'[r] = "start" /\ mem'[r] = mem[r] /\ \E a \in Areas : job'[r] \in a.jobs
        \/ pc[r] \notin Ended /\ pc'[r] = "lost" /\ mem'[r] = mem[r] /\ job'[r] = job[r] /\ faults' > 0
        \/ /\ Kind(r) \notin Mailing /\ pc[r] \notin Ended \cup MailSteps /\ pc'[r] \notin {"free"} \cup MailSteps
           /\ job'[r] = job[r] /\ mem'[r].next \notin {"send", "list"}

\* The steps of the chat stay away from the inbox.
LEMMA TalkStepsAside ==
    ASSUME CoreInv, MailRoutes, NEW r \in Req, TalkStep(r)
    PROVE  /\ Kind(r) \notin Mailing /\ pc[r] \notin Ended \cup MailSteps
           /\ pc'[r] \notin MailSteps /\ mem'[r].next \notin {"send", "list"}
  <1>1. /\ DOMAIN pc = Req /\ DOMAIN mem = Req /\ DOMAIN mem[r] = DOMAIN NoMem
    BY DEF CoreInv, ProcessType
  <1>2. /\ \/ pc[r] \in Ended \cup {"start"}
           \/ Serves(Kind(r), pc[r])
           \/ Kind(r) \notin Mailing /\ pc[r] \notin MailSteps
        /\ mem[r].next \in {"send", "list"} => Kind(r) \in Mailing
    BY DEF MailRoutes, Mailing, Syncing
  <1>3. CASE OpenPanel(r) \/ ClosePanel(r) \/ GetConversation(r) \/ StartFresh(r) \/ Begin(r) \/ FindConversation(r)
             \/ InsertConversation(r) \/ Begun(r) \/ SubmitForm(r)
    <2>1. Kind(r) \notin Mailing /\ pc[r] \notin Ended \cup MailSteps
      BY <1>2, <1>3 DEF OpenPanel, ClosePanel, GetConversation, StartFresh, Begin, FindConversation, InsertConversation,
         Begun, SubmitForm, At, Ended, Mailing, MailSteps, Serves, Sending, Walking, Syncing
    <2>2. pc'[r] \notin MailSteps
      BY <1>1, <1>2, <1>3, <2>1, ZenonT(60) DEF OpenPanel, ClosePanel, GetConversation, StartFresh, Begin, FindConversation,
         InsertConversation, Begun, SubmitForm, Move, Step, Go, MailSteps, Sending, Walking, CoreInv, ProcessType, Nexts
    <2>3. mem'[r].next \in {mem[r].next, "done", "post"}
      BY <1>1, <1>3, NoMemFields DEF OpenPanel, ClosePanel, GetConversation, StartFresh, Begin, FindConversation,
         InsertConversation, Begun, SubmitForm, Move, Step, Hold
    <2>4. QED
      BY <1>2, <2>1, <2>2, <2>3
  <1>4. CASE Deliver(r) \/ StoreMessage(r) \/ Link(r) \/ Announce(r) \/ Answered(r) \/ Retry(r) \/ ClickRetry(r) \/ Solve(r)
             \/ UploadFile(r) \/ Count(r)
    <2>1. Kind(r) \notin Mailing /\ pc[r] \notin Ended \cup MailSteps
      BY <1>2, <1>4, Zenon DEF Deliver, StoreMessage, Link, Announce, Answered, Retry, ClickRetry, Solve, UploadFile, Count,
         At, Ended, Mailing, MailSteps, Serves, Sending, Walking, Syncing
    <2>2. pc'[r] \notin MailSteps
      BY <1>1, <1>4, Zenon DEF Deliver, StoreMessage, Link, Announce, Answered, Retry, ClickRetry, Solve, UploadFile, Count,
         Move, Step, Go, MailSteps, Sending, Walking
    <2>3. mem'[r].next \in {mem[r].next, "count"}
      BY <1>1, <1>4, NoMemFields, Zenon DEF Deliver, StoreMessage, Link, Announce, Answered, Retry, ClickRetry, Solve,
         UploadFile, Count, Move, Step, Hold
    <2>4. QED
      BY <1>2, <2>1, <2>2, <2>3
  <1>5. CASE PutFile(r) \/ FileRow(r) \/ FileView(r) \/ RemoveFile(r) \/ SweepStart(r) \/ Unstore(r) \/ Unrow(r) \/ NextFile(r)
    <2>1. Kind(r) \notin Mailing /\ pc[r] \notin Ended \cup MailSteps
      BY <1>2, <1>5, Zenon DEF PutFile, FileRow, FileView, RemoveFile, SweepStart, Unstore, Unrow, NextFile,
         At, Ended, Mailing, MailSteps, Serves, Sending, Walking, Syncing
    <2>2. pc'[r] \notin MailSteps
      BY <1>1, <1>5, Zenon DEF PutFile, FileRow, FileView, RemoveFile, SweepStart, Unstore, Unrow, NextFile,
         Move, Step, Go, MailSteps, Sending, Walking
    <2>3. mem'[r].next = mem[r].next
      BY <1>1, <1>5, NoMemFields, Zenon DEF PutFile, FileRow, FileView, RemoveFile, SweepStart, Unstore, Unrow, NextFile,
         Move, Step, Hold
    <2>4. QED
      BY <1>2, <2>1, <2>2, <2>3
  <1>6. QED
    BY <1>3, <1>4, <1>5 DEF TalkStep

\* So do the steps of module Intake.
LEMMA IntakeStepsAside ==
    ASSUME CoreInv, MailRoutes, NEW r \in Req, IntakeStep(r)
    PROVE  /\ Kind(r) \notin Mailing /\ pc[r] \notin Ended \cup MailSteps
           /\ pc'[r] \notin MailSteps /\ mem'[r].next \notin {"send", "list"}
  <1>1. Here(r) /\ DOMAIN mem = Req /\ DOMAIN mem[r] = DOMAIN NoMem
    BY IntakeStepsHere DEF CoreInv, ProcessType
  <1>2. Kind(r) \notin Mailing /\ pc[r] \notin Ended \cup MailSteps
    BY <1>1 DEF Here, Walks, IntakeKinds, Mailing, MailRoutes, Serves, Syncing, Ended, MailSteps, Sending, Walking
  <1>3. pc'[r] \notin MailSteps
    BY <1>1 DEF Here, Handled, Ended, MailSteps, Sending, Walking
  <1>4. mem'[r].next = mem[r].next
    <2>1. CASE BelowLimit(r) \/ CreateForm(r) \/ FindForm(r) \/ UpdateForm(r) \/ RemoveForm(r) \/ ReadForm(r)
               \/ ReadApiCall(r) \/ KnowPerson(r) \/ Block(r) \/ TicketFor(r) \/ Judge(r) \/ JudgeFails(r)
      BY <1>1, <2>1, NoMemFields DEF BelowLimit, CreateForm, FindForm, UpdateForm, RemoveForm, ReadForm, ReadApiCall,
         KnowPerson, Block, TicketFor, Judge, JudgeFails, Does, Move, Step, Hold
    <2>2. CASE SayMessage(r) \/ Replied(r) \/ SendAgain(r) \/ ImportStart(r) \/ FindExisting(r) \/ NextRow(r) \/ ImportRow(r)
               \/ ImportEnd(r) \/ ImportFails(r) \/ SeedStatus(r) \/ SeedCustomer(r) \/ SeedTicket(r)
      BY <1>1, <2>2, NoMemFields, ZenonT(60) DEF SayMessage, Replied, SendAgain, ImportStart, FindExisting, NextRow, ImportRow,
         ImportEnd, ImportFails, SeedStatus, SeedCustomer, SeedTicket, Does, Move, Step, Hold
    <2>3. CASE Clear(r) \/ Untag(r) \/ CreateCase(r) \/ DeleteCase(r) \/ EvalStart(r) \/ EvalCases(r) \/ EvalEnd(r)
               \/ ShopProve(r) \/ ShopUpsert(r) \/ ShopDisconnect(r) \/ RateRead(r) \/ RateUpsert(r) \/ Reopen(r) \/ Throws(r)
      BY <1>1, <2>3, NoMemFields DEF Clear, Untag, CreateCase, DeleteCase, EvalStart, EvalCases, EvalEnd, ShopProve,
         ShopUpsert, ShopDisconnect, RateRead, RateUpsert, Reopen, Throws, Does, Move, Step, Hold
    <2>4. QED
      BY <2>1, <2>2, <2>3 DEF IntakeStep
  <1>5. QED
    BY <1>2, <1>3, <1>4 DEF MailRoutes, Mailing, Syncing

\* A step is one of the inbox, a failure in it, of Google, or aside.
LEMMA MailStepsOf ==
    ASSUME CoreInv, MailRoutes, [Next]_vars
    PROVE  \/ \E r \in Req : InboxStep(r)
           \/ \E r \in Req : Kind(r) \in Mailing /\ InboxFail(r)
           \/ Arrive \/ GrowOld
           \/ MailAside
  <1>1. /\ DOMAIN pc = Req /\ DOMAIN mem = Req /\ DOMAIN job = Req /\ faults \in Nat /\ area \in Areas
    BY DEF CoreInv, ProcessType
  <1>2. ASSUME NEW r \in Req, Walks(r), Kind(r) \notin Mailing, pc[r] \notin Ended \cup MailSteps,
               pc'[r] \notin MailSteps, mem'[r].next \notin {"send", "list"}, UNCHANGED mailbox
        PROVE  MailAside
    BY <1>1, <1>2 DEF MailAside, Walks
  <1>3. CASE UNCHANGED mailbox /\ Still
    BY <1>1, <1>3 DEF MailAside, Still
  <1>4. CASE \E r \in Req : TalkStep(r) /\ UNCHANGED mailbox
    BY <1>2, <1>4, TalkStepsAside, TalkStepsElsewhere DEF Elsewhere
  <1>5. CASE \E r \in Req : IntakeStep(r) /\ UNCHANGED mailbox
    BY <1>2, <1>5, IntakeStepsAside, IntakeStepsHere DEF Here
  <1>6. CASE \E r \in Req : Die(r)
    BY <1>1, <1>6 DEF Die, InFlight, Go, MailAside
  <1>7. CASE \E r \in Req : \E j \in area.jobs : Submit(r, j)
    <2>1. PICK r \in Req, j \in area.jobs : Submit(r, j)
      BY <1>7
    <2>2. /\ pc[r] = "free" /\ job' = [job EXCEPT ![r] = j] /\ pc' = [pc EXCEPT ![r] = "start"]
          /\ met \subseteq met' /\ UNCHANGED <<mem, faults, mailbox>>
      BY <2>1 DEF Submit, Go
    <2>3. QED
      BY <1>1, <2>2 DEF MailAside
  <1>8. CASE \E p \in {Main, Other} : Restart(p) /\ UNCHANGED mailbox
    <2>1. /\ \A r \in Req : pc'[r] = pc[r] \/ (pc[r] \notin Ended /\ pc'[r] = "lost")
          /\ faults' = faults + 1 /\ UNCHANGED <<job, mem, met, mailbox>>
      BY <1>1, <1>8 DEF Restart, InFlight
    <2>2. QED
      BY <1>1, <2>1 DEF MailAside
  <1>9. CASE Age /\ UNCHANGED mailbox
    BY <1>3, <1>9 DEF Age, Same, Still
  <1>10. CASE UNCHANGED vars
    BY <1>3, <1>10 DEF vars, channels, Still
  <1>11. QED
    BY <1>4, <1>5, <1>6, <1>7, <1>8, <1>9, <1>10 DEF Next, ChannelsNext, Google

\* Where a step of the inbox leads is a step of the same handler.
LEMMA MailGoesOn ==
    ASSUME CoreInv, MailRoutes, NEW r \in Req, InboxStep(r)
    PROVE  Kind(r) \in Mailing /\ (pc'[r] \in Ended \/ Serves(Kind(r), pc'[r]))
  <1>1. /\ DOMAIN pc = Req
        /\ mem[r].next \in {"send", "list"} => Kind(r) \in Syncing \/ (Kind(r) = "reply" /\ mem[r].next = "send")
        /\ pc[r] \in {"refresh", "keep"} => mem[r].next \in {"send", "list"}
    BY DEF CoreInv, ProcessType, MailRoutes
  <1>2. CASE StateGet(r) \/ StateDel(r) \/ Exchange(r) \/ Check(r) \/ Upsert(r)
    <2>1. Kind(r) = "callback" /\ pc'[r] \in {"del", "exchange", "check", "upsert", "done", "rejected"}
      BY <1>2, MailEffects
    <2>2. QED
      BY <2>1 DEF Serves, Ended, Mailing
  <1>3. CASE FindActive(r) \/ Revoke(r) \/ Disconnect(r) \/ UpdateSettings(r)
    <2>1. \/ Kind(r) = "disconnect" /\ pc'[r] \in {"revoke", "wipe", "done", "rejected"}
          \/ Kind(r) = "settings" /\ pc'[r] \in {"write", "done", "rejected"}
      <3>1. Revoke(r) \/ Disconnect(r) => Kind(r) = "disconnect" /\ pc'[r] \in {"wipe", "done"}
        BY MailEffects
      <3>2. UpdateSettings(r) => Kind(r) = "settings" /\ pc'[r] = "done"
        BY MailEffects
      <3>3. FindActive(r) => \/ Kind(r) = "disconnect" /\ pc'[r] \in {"revoke", "rejected"}
                             \/ Kind(r) = "settings" /\ pc'[r] \in {"write", "rejected"}
        BY <1>1, Zenon DEF FindActive, Reject, Read, Go
      <3>4. QED
        BY <1>3, <3>1, <3>2, <3>3
    <2>2. QED
      BY <2>1 DEF Serves, Ended, Mailing
  <1>4. CASE Refresh(r) \/ KeepToken(r)
    <2>1. Kind(r) \in Syncing \cup {"reply"} /\ pc[r] \in {"refresh", "keep"}
      BY <1>4, MailEffects DEF Syncing
    <2>2. CASE Refresh(r)
      <3>1. pc'[r] \in {"keep", "failed"} \/ (pc'[r] = "next" /\ Kind(r) = "poll") \/ (mem[r].next = "send" /\ pc'[r] = AfterSend(r))
        BY <1>1, <2>2 DEF Refresh, SyncEnd, Skip, Read, Go
      <3>2. QED
        BY <2>1, <3>1 DEF AfterSend, Ended, Serves, Syncing, Sending, Walking, Mailing
    <2>3. CASE KeepToken(r)
      <3>1. pc'[r] = mem[r].next
        BY <1>1, <2>3 DEF KeepToken, Go
      <3>2. QED
        BY <1>1, <2>1, <3>1 DEF Serves, Syncing, Sending, Walking, Mailing
    <2>4. QED
      BY <1>4, <2>2, <2>3
  <1>5. CASE SendReply(r) \/ Adopt(r)
    <2>1. Kind(r) \in Syncing \cup {"reply"}
      BY <1>5, MailEffects DEF Syncing
    <2>2. pc'[r] \in {"adopt", AfterSend(r)}
      BY <1>1, <1>5 DEF SendReply, Adopt, Go
    <2>3. QED
      BY <2>1, <2>2 DEF AfterSend, Ended, Serves, Syncing, Sending, Walking, Mailing
  <1>6. CASE Checkpoint(r) \/ SyncStart(r) \/ PollStart(r) \/ PollNext(r) \/ Mark(r)
    <2>1. Kind(r) \in Syncing /\ (pc'[r] \in {"done", "mark", "rejected", "refresh", "list"} \/ (Kind(r) = "poll" /\ pc'[r] = "next"))
      <3>1. Checkpoint(r) => Kind(r) \in Syncing /\ (pc'[r] = "done" \/ (Kind(r) = "poll" /\ pc'[r] = "next"))
        BY <1>1, MailEffects, Zenon DEF Checkpoint, Go, Syncing
      <3>2. SyncStart(r) \/ Mark(r) => Kind(r) \in Syncing /\ pc'[r] \in {"mark", "done", "rejected", "refresh", "list"}
        BY MailEffects DEF Syncing
      <3>3. PollStart(r) \/ PollNext(r) => Kind(r) = "poll" /\ pc'[r] \in {"done", "mark", "next"}
        BY MailEffects
      <3>4. QED
        BY <1>6, <3>1, <3>2, <3>3 DEF Syncing
    <2>2. QED
      BY <2>1 DEF Ended, Serves, Syncing, Sending, Walking, Mailing
  <1>7. CASE ListNew(r) \/ NextMail(r) \/ Record(r) \/ Match(r) \/ Append(r) \/ Sender(r) \/ OpenTicket(r)
             \/ FilesOf(r) \/ Profile(r)
    <2>1. /\ Kind(r) \in {"sync", "poll"}
          /\ pc'[r] \in {"loop", "profile", "record", "match", "sender", "append", "files", "open", "ensure", "checkpoint"}
      BY <1>7, MailEffects
    <2>2. QED
      BY <2>1 DEF Serves, Syncing, Sending, Walking, Mailing
  <1>8. CASE ReplyRead(r) \/ Ensure(r) \/ NewToken(r)
    <2>1. Kind(r) \in {"sync", "poll", "reply"} /\ pc'[r] \in {"done", "ensure", "token", "refresh", "send"}
      BY <1>8, MailEffects
    <2>2. QED
      BY <2>1 DEF Ended, Serves, Syncing, Sending, Walking, Mailing
  <1>9. QED
    BY <1>2, <1>3, <1>4, <1>5, <1>6, <1>7, <1>8 DEF InboxStep

\* What a process of the inbox has as where it goes when it has a token.
LEMMA NextIsSet ==
    ASSUME CoreInv, MailRoutes, NEW r \in Req, InboxStep(r)
    PROVE  /\ mem'[r].next = "send" => mem[r].next = "send" \/ Ensure(r) \/ NewToken(r)
           /\ mem'[r].next = "list" => mem[r].next = "list" \/ Mark(r)
           /\ mem'[r].next # mem[r].next => Ensure(r) \/ NewToken(r) \/ Mark(r) \/ mem'[r].next = "none"
           /\ pc'[r] = "refresh" => mem'[r].next \in {"send", "list"}
           /\ pc'[r] = "keep" => mem'[r] = mem[r] /\ pc[r] = "refresh"
  <1>1. /\ DOMAIN pc = Req /\ DOMAIN mem = Req /\ DOMAIN mem[r] = DOMAIN NoMem
    BY DEF CoreInv, ProcessType
  <1>2. mem'[r].next \in {mem[r].next, "none"} \/ Ensure(r) \/ NewToken(r) \/ Mark(r)
    <2>1. CASE StateGet(r) \/ StateDel(r) \/ Exchange(r) \/ Check(r) \/ Upsert(r) \/ FindActive(r) \/ Revoke(r)
               \/ Disconnect(r) \/ UpdateSettings(r) \/ Refresh(r) \/ KeepToken(r)
      BY <1>1, <2>1, NoMemFields, Zenon DEF StateGet, StateDel, Exchange, Check, Upsert, FindActive, Revoke, Disconnect,
         UpdateSettings, Refresh, KeepToken, Skip, Reject, Read, Hold
    <2>2. CASE SyncStart(r) \/ PollStart(r) \/ PollNext(r) \/ ListNew(r) \/ NextMail(r) \/ Record(r) \/ Match(r)
      BY <1>1, <2>2, NoMemFields, Zenon DEF SyncStart, PollStart, PollNext, ListNew, NextMail, Record, Match, Skip, Reject,
         Read, Hold
    <2>3. CASE Append(r) \/ Sender(r) \/ OpenTicket(r) \/ FilesOf(r) \/ Profile(r) \/ Checkpoint(r) \/ ReplyRead(r)
               \/ SendReply(r) \/ Adopt(r)
      BY <1>1, <2>3, NoMemFields, ZenonT(60) DEF Append, Sender, OpenTicket, FilesOf, Profile, Checkpoint, ReplyRead, SendReply,
         Adopt, Skip, Read, Hold
    <2>4. QED
      BY <2>1, <2>2, <2>3 DEF InboxStep
  <1>3. Ensure(r) => mem'[r].next \in {mem[r].next, "send"}
    BY <1>1, NoMemFields DEF Ensure, Fresh, Skip, Read, Hold
  <1>4. NewToken(r) => mem'[r].next = "send"
    BY <1>1, NoMemFields DEF NewToken, Hold
  <1>5. Mark(r) => mem'[r].next = "list"
    BY <1>1, NoMemFields DEF Mark, Hold
  <1>6. pc'[r] = "refresh" => mem'[r].next \in {"send", "list"}
    <2>1. pc'[r] = "refresh" => Mark(r) \/ Ensure(r) \/ NewToken(r)
      BY MailLeads
    <2>2. Ensure(r) /\ pc'[r] = "refresh" => mem'[r].next = "send"
      BY <1>1, NoMemFields DEF Ensure, Fresh, Skip, Read, Hold, Go
    <2>3. QED
      BY <2>1, <2>2, <1>4, <1>5
  <1>7. pc'[r] = "keep" => mem'[r] = mem[r] /\ pc[r] = "refresh"
    <2>1. pc'[r] = "keep" => Refresh(r)
      BY MailLeads
    <2>2. QED
      BY <1>1, <2>1 DEF Refresh, At, Skip, Read, Hold, Go
  <1>8. QED
    BY <1>2, <1>3, <1>4, <1>5, <1>6, <1>7

\* A failure in the inbox gives up a send, a mail or the sync.
LEMMA MailFailure ==
    ASSUME CoreInv, MailRoutes, NEW r \in Req, Kind(r) \in Mailing, InboxFail(r)
    PROVE  /\ pc'[r] \in Ended \/ (pc'[r] \in {"files", "loop"} /\ Kind(r) \in Syncing)
              \/ (pc'[r] = "next" /\ Kind(r) = "poll") \/ (pc'[r] = "wipe" /\ Kind(r) = "disconnect")
           /\ faults' > 0 /\ mem' = mem
           /\ UNCHANGED <<states, granted, box, kept, ticket, msgs, files, sent, used, cut>>
           /\ row' = row \/ (Kind(r) \in Syncing /\ pc[r] \in Ingesting /\ row' = [row EXCEPT ![mem[r].m] = "failed"])
           /\ \/ conn' = conn
              \/ Kind(r) \in Syncing /\ pc[r] \in InSync /\ conn' = [conn EXCEPT ![mem[r].acc].status = "error"]
           /\ pc'[r] = "files" => Kind(r) \in Syncing /\ Replying(r)
  <1>1. /\ DOMAIN pc = Req /\ faults \in Nat
        /\ \/ pc[r] \in Ended \cup {"start"}
           \/ Serves(Kind(r), pc[r])
        /\ pc[r] \in {"refresh", "keep"} => mem[r].next \in {"send", "list"}
    BY DEF CoreInv, ProcessType, MailRoutes
  <1>2. /\ faults' > 0 /\ mem' = mem
        /\ UNCHANGED <<states, granted, box, kept, ticket, msgs, files, sent, used, cut>>
    BY <1>1 DEF InboxFail, google, history
  <1>3. /\ row' = row \/ (Kind(r) \in Syncing /\ pc[r] \in Ingesting /\ row' = [row EXCEPT ![mem[r].m] = "failed"])
        /\ \/ conn' = conn
           \/ Kind(r) \in Syncing /\ pc[r] \in InSync /\ conn' = [conn EXCEPT ![mem[r].acc].status = "error"]
    BY DEF InboxFail, Syncing
  <1>4. /\ pc'[r] \in Ended \/ (pc'[r] \in {"files", "loop"} /\ Kind(r) \in Syncing)
           \/ (pc'[r] = "next" /\ Kind(r) = "poll") \/ (pc'[r] = "wipe" /\ Kind(r) = "disconnect")
        /\ pc'[r] = "files" => Kind(r) \in Syncing /\ Replying(r)
    BY <1>1 DEF InboxFail, InFlight, AfterSend, SyncEnd, Go, Ended, Serves, Syncing, Sending, Walking, Mailing, Replying
  <1>5. QED
    BY <1>2, <1>3, <1>4

\* Every step leaves the processes of the inbox at steps of their own handlers, and nobody else at one.
LEMMA RoutesStep ==
    ASSUME CoreInv, MailRoutes, [Next]_vars
    PROVE  MailRoutes'
  <1>1. CASE \E r \in Req : InboxStep(r)
    <2>1. PICK r \in Req : InboxStep(r)
      BY <1>1
    <2>2. Walks(r)
      BY <2>1, InboxStepsElsewhere DEF Elsewhere
    <2>3. \A q \in Req : Kind(q)' = Kind(q)
      BY <2>2 DEF Walks, Kind
    <2>4. /\ pc'[r] \in Ended \/ Serves(Kind(r), pc'[r])
          /\ mem'[r].next \in {"send", "list"} => Kind(r) \in Syncing \/ (Kind(r) = "reply" /\ mem'[r].next = "send")
          /\ pc'[r] \in {"refresh", "keep"} => mem'[r].next \in {"send", "list"}
      <3>1. mem[r].next \in {"send", "list"} => Kind(r) \in Syncing \/ (Kind(r) = "reply" /\ mem[r].next = "send")
        BY DEF MailRoutes
      <3>2. Mark(r) => Kind(r) \in Syncing
        BY MailEffects DEF Syncing
      <3>3. Ensure(r) \/ NewToken(r) => Kind(r) \in Syncing \cup {"reply"}
        BY MailEffects DEF Syncing
      <3>4. mem'[r].next \in {"send", "list"} => Kind(r) \in Syncing \/ (Kind(r) = "reply" /\ mem'[r].next = "send")
        BY <2>1, <3>1, <3>2, <3>3, NextIsSet
      <3>5. pc'[r] \in {"refresh", "keep"} => mem'[r].next \in {"send", "list"}
        BY <2>1, NextIsSet DEF MailRoutes
      <3>6. QED
        BY <2>1, <3>4, <3>5, MailGoesOn
    <2>5. QED
      BY <2>2, <2>3, <2>4 DEF MailRoutes, Walks, Serves
  <1>2. CASE \E r \in Req : Kind(r) \in Mailing /\ InboxFail(r)
    <2>1. PICK r \in Req : Kind(r) \in Mailing /\ InboxFail(r)
      BY <1>2
    <2>2. Walks(r) /\ mem' = mem
      BY <2>1, FailuresElsewhere, MailFailure DEF Elsewhere
    <2>3. \A q \in Req : Kind(q)' = Kind(q)
      BY <2>2 DEF Walks, Kind
    <2>4. pc'[r] \in Ended \/ (Serves(Kind(r), pc'[r]) /\ pc'[r] \notin {"refresh", "keep"})
      BY <2>1, MailFailure DEF Serves, Walking, Sending, Ended
    <2>5. QED
      BY <2>2, <2>3, <2>4 DEF MailRoutes, Walks, Serves, Ended
  <1>3. CASE Arrive \/ GrowOld
    BY <1>3 DEF Arrive, GrowOld, Same, MailRoutes, Kind
  <1>4. CASE MailAside
    <2>1. \A r \in Req : /\ pc[r] = "free" => mem[r].next = "none"
      BY NoMemFields DEF CoreInv, ProcessType
    <2>2. ASSUME NEW r \in Req
          PROVE  /\ \/ pc'[r] \in Ended \cup {"start"}
                    \/ Serves(Kind(r)', pc'[r])
                    \/ Kind(r)' \notin Mailing /\ pc'[r] \notin MailSteps
                 /\ mem'[r].next \in {"send", "list"} => Kind(r)' \in Syncing \/ (Kind(r)' = "reply" /\ mem'[r].next = "send")
                 /\ pc'[r] \in {"refresh", "keep"} => mem'[r].next \in {"send", "list"}
      <3>1. CASE pc'[r] = pc[r] /\ mem'[r] = mem[r] /\ job'[r] = job[r]
        BY <3>1 DEF MailRoutes, Kind, Serves
      <3>2. CASE pc[r] = "free" /\ pc'[r] = "start" /\ mem'[r] = mem[r]
        BY <2>1, <3>2
      <3>3. CASE pc'[r] = "lost" /\ mem'[r] = mem[r] /\ job'[r] = job[r]
        BY <3>3 DEF MailRoutes, Kind, Ended
      <3>4. CASE /\ Kind(r) \notin Mailing /\ pc'[r] \notin {"free"} \cup MailSteps
                 /\ job'[r] = job[r] /\ mem'[r].next \notin {"send", "list"}
        BY <3>4 DEF Kind, MailSteps, Sending
      <3>5. QED
        BY <1>4, <3>1, <3>2, <3>3, <3>4 DEF MailAside
    <2>3. QED
      BY <2>2 DEF MailRoutes, Serves
  <1>5. QED
    BY <1>1, <1>2, <1>3, <1>4, MailStepsOf

\* A process that is turned away forgets what it held.
Rejected(r) == mem'[r] = NoMem /\ pc'[r] = "rejected"

\* The steps of the inbox, by what the process holds from then on.
LEMMA MemEffects ==
    ASSUME CoreInv, NEW r \in Req
    PROVE  /\ StateGet(r) => Rejected(r) \/ mem'[r] = mem[r]
           /\ StateDel(r) => mem'[r] = mem[r]
           /\ Exchange(r) => mem'[r] = mem[r]
           /\ Check(r) => Rejected(r) \/ mem'[r] = mem[r]
           /\ Upsert(r) => mem'[r] = mem[r]
           /\ FindActive(r) =>
              \/ Rejected(r)
              \/ mem'[r].left = mem[r].left /\ mem'[r].ids = mem[r].ids /\ mem'[r].m = mem[r].m /\
                 mem'[r].t = mem[r].t /\ mem'[r].token = mem[r].token /\ mem'[r].thread = mem[r].thread /\
                 mem'[r].next = mem[r].next /\ mem'[r].head = mem[r].head
           /\ Revoke(r) => mem'[r] = mem[r]
           /\ Disconnect(r) => mem'[r] = mem[r]
           /\ UpdateSettings(r) => mem'[r] = mem[r]
           /\ Refresh(r) => mem'[r] = mem[r]
           /\ KeepToken(r) =>
                 mem'[r].acc = mem[r].acc /\ mem'[r].left = mem[r].left /\ mem'[r].ids = mem[r].ids /\
                 mem'[r].m = mem[r].m /\ mem'[r].t = mem[r].t /\ mem'[r].token = mem[r].token /\
                 mem'[r].thread = mem[r].thread /\ mem'[r].next = mem[r].next /\ mem'[r].head = mem[r].head
           /\ SyncStart(r) =>
              \/ Rejected(r)
              \/ mem'[r].left = mem[r].left /\ mem'[r].ids = mem[r].ids /\ mem'[r].m = mem[r].m /\
                 mem'[r].t = mem[r].t /\ mem'[r].token = mem[r].token /\ mem'[r].thread = mem[r].thread /\
                 mem'[r].next = mem[r].next /\ mem'[r].head = mem[r].head
           /\ PollStart(r) =>
                 mem'[r].acc = mem[r].acc /\ mem'[r].conn = mem[r].conn /\ mem'[r].ids = mem[r].ids /\
                 mem'[r].m = mem[r].m /\ mem'[r].t = mem[r].t /\ mem'[r].token = mem[r].token /\
                 mem'[r].thread = mem[r].thread /\ mem'[r].next = mem[r].next /\ mem'[r].head = mem[r].head
           /\ PollNext(r) =>
                 mem'[r].ids = mem[r].ids /\ mem'[r].m = mem[r].m /\ mem'[r].t = mem[r].t /\
                 mem'[r].token = mem[r].token /\ mem'[r].thread = mem[r].thread /\
                 mem'[r].next = mem[r].next /\ mem'[r].head = mem[r].head
           /\ Mark(r) =>
                 mem'[r].acc = mem[r].acc /\ mem'[r].conn = mem[r].conn /\ mem'[r].left = mem[r].left /\
                 mem'[r].ids = mem[r].ids /\ mem'[r].m = mem[r].m /\ mem'[r].t = mem[r].t /\
                 mem'[r].token = mem[r].token /\ mem'[r].thread = mem[r].thread /\ mem'[r].head = mem[r].head
           /\ ListNew(r) =>
                 mem'[r].acc = mem[r].acc /\ mem'[r].conn = mem[r].conn /\ mem'[r].left = mem[r].left /\
                 mem'[r].m = mem[r].m /\ mem'[r].t = mem[r].t /\ mem'[r].token = mem[r].token /\
                 mem'[r].thread = mem[r].thread /\ mem'[r].next = mem[r].next /\ mem'[r].head = mem[r].head
           /\ NextMail(r) =>
                 mem'[r].acc = mem[r].acc /\ mem'[r].conn = mem[r].conn /\ mem'[r].left = mem[r].left /\
                 mem'[r].t = mem[r].t /\ mem'[r].token = mem[r].token /\ mem'[r].thread = mem[r].thread /\
                 mem'[r].next = mem[r].next /\ mem'[r].head = mem[r].head
           /\ Record(r) => mem'[r] = mem[r]
           /\ Match(r) =>
                 mem'[r].acc = mem[r].acc /\ mem'[r].conn = mem[r].conn /\ mem'[r].left = mem[r].left /\
                 mem'[r].ids = mem[r].ids /\ mem'[r].m = mem[r].m /\ mem'[r].token = mem[r].token /\
                 mem'[r].thread = mem[r].thread /\ mem'[r].next = mem[r].next /\ mem'[r].head = mem[r].head
           /\ Append(r) => mem'[r] = mem[r]
           /\ Sender(r) => mem'[r] = mem[r]
           /\ OpenTicket(r) =>
                 mem'[r].acc = mem[r].acc /\ mem'[r].conn = mem[r].conn /\ mem'[r].left = mem[r].left /\
                 mem'[r].ids = mem[r].ids /\ mem'[r].m = mem[r].m /\ mem'[r].token = mem[r].token /\
                 mem'[r].next = mem[r].next /\ mem'[r].head = mem[r].head
           /\ FilesOf(r) => mem'[r] = mem[r]
           /\ Profile(r) =>
                 mem'[r].acc = mem[r].acc /\ mem'[r].conn = mem[r].conn /\ mem'[r].left = mem[r].left /\
                 mem'[r].ids = mem[r].ids /\ mem'[r].m = mem[r].m /\ mem'[r].t = mem[r].t /\
                 mem'[r].token = mem[r].token /\ mem'[r].thread = mem[r].thread /\ mem'[r].next = mem[r].next
           /\ Checkpoint(r) => mem'[r] = mem[r]
           /\ ReplyRead(r) =>
                 mem'[r].left = mem[r].left /\ mem'[r].ids = mem[r].ids /\ mem'[r].m = mem[r].m /\
                 mem'[r].token = mem[r].token /\ mem'[r].next = mem[r].next /\ mem'[r].head = mem[r].head
           /\ Ensure(r) =>
                 mem'[r].acc = mem[r].acc /\ mem'[r].conn = mem[r].conn /\ mem'[r].left = mem[r].left /\
                 mem'[r].ids = mem[r].ids /\ mem'[r].m = mem[r].m /\ mem'[r].t = mem[r].t /\
                 mem'[r].thread = mem[r].thread /\ mem'[r].head = mem[r].head
           /\ NewToken(r) =>
                 mem'[r].acc = mem[r].acc /\ mem'[r].conn = mem[r].conn /\ mem'[r].left = mem[r].left /\
                 mem'[r].ids = mem[r].ids /\ mem'[r].m = mem[r].m /\ mem'[r].t = mem[r].t /\
                 mem'[r].thread = mem[r].thread /\ mem'[r].head = mem[r].head
           /\ SendReply(r) =>
                 mem'[r].acc = mem[r].acc /\ mem'[r].conn = mem[r].conn /\ mem'[r].left = mem[r].left /\
                 mem'[r].ids = mem[r].ids /\ mem'[r].m = mem[r].m /\ mem'[r].t = mem[r].t /\
                 mem'[r].token = mem[r].token /\ mem'[r].next = mem[r].next /\ mem'[r].head = mem[r].head
           /\ Adopt(r) => mem'[r] = mem[r]
  <1>1. DOMAIN pc = Req /\ DOMAIN mem = Req /\ DOMAIN mem[r] = DOMAIN NoMem
    BY DEF CoreInv, ProcessType
  <1>2. StateGet(r) => Rejected(r) \/ mem'[r] = mem[r]
    BY <1>1, NoMemFields DEF StateGet, Skip, Reject, Read, Hold, Go, Rejected
  <1>3. StateDel(r) => mem'[r] = mem[r]
    BY <1>1, NoMemFields DEF StateDel, Skip, Reject, Read, Hold, Go, Rejected
  <1>4. Exchange(r) => mem'[r] = mem[r]
    BY <1>1, NoMemFields DEF Exchange, Skip, Reject, Read, Hold, Go, Rejected
  <1>5. Check(r) => Rejected(r) \/ mem'[r] = mem[r]
    BY <1>1, NoMemFields DEF Check, Skip, Reject, Read, Hold, Go, Rejected
  <1>6. Upsert(r) => mem'[r] = mem[r]
    BY <1>1, NoMemFields DEF Upsert, Skip, Reject, Read, Hold, Go, Rejected
  <1>7. FindActive(r) =>
         \/ Rejected(r)
         \/ mem'[r].left = mem[r].left /\ mem'[r].ids = mem[r].ids /\ mem'[r].m = mem[r].m /\
            mem'[r].t = mem[r].t /\ mem'[r].token = mem[r].token /\ mem'[r].thread = mem[r].thread /\
            mem'[r].next = mem[r].next /\ mem'[r].head = mem[r].head
    <2>1. FindActive(r) => Rejected(r) \/ \E a : mem'[r] = [mem[r] EXCEPT !.acc = a, !.conn = conn[a]]
      BY <1>1, Zenon DEF FindActive, Skip, Reject, Read, Hold, Go, Rejected
    <2>2. QED
      BY <1>1, <2>1, NoMemFields, Zenon
  <1>8. Revoke(r) => mem'[r] = mem[r]
    BY <1>1, NoMemFields DEF Revoke, Skip, Reject, Read, Hold, Go, Rejected
  <1>9. Disconnect(r) => mem'[r] = mem[r]
    BY <1>1, NoMemFields DEF Disconnect, Skip, Reject, Read, Hold, Go, Rejected
  <1>10. UpdateSettings(r) => mem'[r] = mem[r]
    BY <1>1, NoMemFields DEF UpdateSettings, Skip, Reject, Read, Hold, Go, Rejected
  <1>11. Refresh(r) => mem'[r] = mem[r]
    BY <1>1, NoMemFields DEF Refresh, Skip, Reject, Read, Hold, Go, Rejected
  <1>12. KeepToken(r) =>
            mem'[r].acc = mem[r].acc /\ mem'[r].left = mem[r].left /\ mem'[r].ids = mem[r].ids /\
            mem'[r].m = mem[r].m /\ mem'[r].t = mem[r].t /\ mem'[r].token = mem[r].token /\
            mem'[r].thread = mem[r].thread /\ mem'[r].next = mem[r].next /\ mem'[r].head = mem[r].head
    BY <1>1, NoMemFields DEF KeepToken, Skip, Reject, Read, Hold, Go, Rejected
  <1>13. SyncStart(r) =>
         \/ Rejected(r)
         \/ mem'[r].left = mem[r].left /\ mem'[r].ids = mem[r].ids /\ mem'[r].m = mem[r].m /\
            mem'[r].t = mem[r].t /\ mem'[r].token = mem[r].token /\ mem'[r].thread = mem[r].thread /\
            mem'[r].next = mem[r].next /\ mem'[r].head = mem[r].head
    <2>1. SyncStart(r) => Rejected(r) \/ \E a : mem'[r] = [mem[r] EXCEPT !.acc = a, !.conn = conn[a]]
      BY <1>1, Zenon DEF SyncStart, Skip, Reject, Read, Hold, Go, Rejected
    <2>2. QED
      BY <1>1, <2>1, NoMemFields, Zenon
  <1>14. PollStart(r) =>
            mem'[r].acc = mem[r].acc /\ mem'[r].conn = mem[r].conn /\ mem'[r].ids = mem[r].ids /\
            mem'[r].m = mem[r].m /\ mem'[r].t = mem[r].t /\ mem'[r].token = mem[r].token /\
            mem'[r].thread = mem[r].thread /\ mem'[r].next = mem[r].next /\ mem'[r].head = mem[r].head
    BY <1>1, NoMemFields DEF PollStart, Skip, Reject, Read, Hold, Go, Rejected
  <1>15. PollNext(r) =>
            mem'[r].ids = mem[r].ids /\ mem'[r].m = mem[r].m /\ mem'[r].t = mem[r].t /\
            mem'[r].token = mem[r].token /\ mem'[r].thread = mem[r].thread /\ mem'[r].next = mem[r].next /\
            mem'[r].head = mem[r].head
    <2>1. PollNext(r) => mem'[r] = mem[r] \/ \E a : mem'[r] = [mem[r] EXCEPT !.left = @ \ {a}, !.acc = a, !.conn = conn[a]]
      BY <1>1, Zenon DEF PollNext, Skip, Reject, Read, Hold, Go, Rejected
    <2>2. QED
      BY <1>1, <2>1, NoMemFields, Zenon
  <1>16. Mark(r) =>
            mem'[r].acc = mem[r].acc /\ mem'[r].conn = mem[r].conn /\ mem'[r].left = mem[r].left /\
            mem'[r].ids = mem[r].ids /\ mem'[r].m = mem[r].m /\ mem'[r].t = mem[r].t /\
            mem'[r].token = mem[r].token /\ mem'[r].thread = mem[r].thread /\ mem'[r].head = mem[r].head
    BY <1>1, NoMemFields DEF Mark, Skip, Reject, Read, Hold, Go, Rejected
  <1>17. ListNew(r) =>
            mem'[r].acc = mem[r].acc /\ mem'[r].conn = mem[r].conn /\ mem'[r].left = mem[r].left /\
            mem'[r].m = mem[r].m /\ mem'[r].t = mem[r].t /\ mem'[r].token = mem[r].token /\
            mem'[r].thread = mem[r].thread /\ mem'[r].next = mem[r].next /\ mem'[r].head = mem[r].head
    BY <1>1, NoMemFields DEF ListNew, Skip, Reject, Read, Hold, Go, Rejected
  <1>18. NextMail(r) =>
            mem'[r].acc = mem[r].acc /\ mem'[r].conn = mem[r].conn /\ mem'[r].left = mem[r].left /\
            mem'[r].t = mem[r].t /\ mem'[r].token = mem[r].token /\ mem'[r].thread = mem[r].thread /\
            mem'[r].next = mem[r].next /\ mem'[r].head = mem[r].head
    <2>1. NextMail(r) => mem'[r] = mem[r] \/ \E m : mem'[r] = [mem[r] EXCEPT !.ids = @ \ {m}, !.m = m]
      BY <1>1, Zenon DEF NextMail, Skip, Reject, Read, Hold, Go, Rejected
    <2>2. QED
      BY <1>1, <2>1, NoMemFields, Zenon
  <1>19. Record(r) => mem'[r] = mem[r]
    BY <1>1, NoMemFields DEF Record, Skip, Reject, Read, Hold, Go, Rejected
  <1>20. Match(r) =>
            mem'[r].acc = mem[r].acc /\ mem'[r].conn = mem[r].conn /\ mem'[r].left = mem[r].left /\
            mem'[r].ids = mem[r].ids /\ mem'[r].m = mem[r].m /\ mem'[r].token = mem[r].token /\
            mem'[r].thread = mem[r].thread /\ mem'[r].next = mem[r].next /\ mem'[r].head = mem[r].head
    BY <1>1, NoMemFields DEF Match, Skip, Reject, Read, Hold, Go, Rejected
  <1>21. Append(r) => mem'[r] = mem[r]
    BY <1>1, NoMemFields DEF Append, Skip, Reject, Read, Hold, Go, Rejected
  <1>22. Sender(r) => mem'[r] = mem[r]
    BY <1>1, NoMemFields DEF Sender, Skip, Reject, Read, Hold, Go, Rejected
  <1>23. OpenTicket(r) =>
            mem'[r].acc = mem[r].acc /\ mem'[r].conn = mem[r].conn /\ mem'[r].left = mem[r].left /\
            mem'[r].ids = mem[r].ids /\ mem'[r].m = mem[r].m /\ mem'[r].token = mem[r].token /\
            mem'[r].next = mem[r].next /\ mem'[r].head = mem[r].head
    BY <1>1, NoMemFields DEF OpenTicket, Skip, Reject, Read, Hold, Go, Rejected
  <1>24. FilesOf(r) => mem'[r] = mem[r]
    BY <1>1, NoMemFields DEF FilesOf, Skip, Reject, Read, Hold, Go, Rejected
  <1>25. Profile(r) =>
            mem'[r].acc = mem[r].acc /\ mem'[r].conn = mem[r].conn /\ mem'[r].left = mem[r].left /\
            mem'[r].ids = mem[r].ids /\ mem'[r].m = mem[r].m /\ mem'[r].t = mem[r].t /\
            mem'[r].token = mem[r].token /\ mem'[r].thread = mem[r].thread /\ mem'[r].next = mem[r].next
    BY <1>1, NoMemFields DEF Profile, Skip, Reject, Read, Hold, Go, Rejected
  <1>26. Checkpoint(r) => mem'[r] = mem[r]
    BY <1>1, NoMemFields DEF Checkpoint, Skip, Reject, Read, Hold, Go, Rejected
  <1>27. ReplyRead(r) =>
            mem'[r].left = mem[r].left /\ mem'[r].ids = mem[r].ids /\ mem'[r].m = mem[r].m /\
            mem'[r].token = mem[r].token /\ mem'[r].next = mem[r].next /\ mem'[r].head = mem[r].head
    <2>1. ReplyRead(r) => mem'[r] = mem[r] \/ \E a : mem'[r] = [mem[r] EXCEPT !.acc = a, !.conn = conn[a], !.t = On(r), !.thread = ticket[On(r)].thread]
      BY <1>1, Zenon DEF ReplyRead, Skip, Reject, Read, Hold, Go, Rejected
    <2>2. QED
      BY <1>1, <2>1, NoMemFields, Zenon
  <1>28. Ensure(r) =>
            mem'[r].acc = mem[r].acc /\ mem'[r].conn = mem[r].conn /\ mem'[r].left = mem[r].left /\
            mem'[r].ids = mem[r].ids /\ mem'[r].m = mem[r].m /\ mem'[r].t = mem[r].t /\
            mem'[r].thread = mem[r].thread /\ mem'[r].head = mem[r].head
    <2>1. Ensure(r) => mem'[r] = mem[r] \/ \E k : mem'[r] \in {[mem[r] EXCEPT !.token = k], [[mem[r] EXCEPT !.token = k] EXCEPT !.next = "send"]}
      BY <1>1, Zenon DEF Ensure, Skip, Reject, Read, Hold, Go, Rejected, Fresh
    <2>2. QED
      BY <1>1, <2>1, NoMemFields, Zenon
  <1>29. NewToken(r) =>
            mem'[r].acc = mem[r].acc /\ mem'[r].conn = mem[r].conn /\ mem'[r].left = mem[r].left /\
            mem'[r].ids = mem[r].ids /\ mem'[r].m = mem[r].m /\ mem'[r].t = mem[r].t /\
            mem'[r].thread = mem[r].thread /\ mem'[r].head = mem[r].head
    BY <1>1, NoMemFields DEF NewToken, Skip, Reject, Read, Hold, Go, Rejected
  <1>30. SendReply(r) =>
            mem'[r].acc = mem[r].acc /\ mem'[r].conn = mem[r].conn /\ mem'[r].left = mem[r].left /\
            mem'[r].ids = mem[r].ids /\ mem'[r].m = mem[r].m /\ mem'[r].t = mem[r].t /\
            mem'[r].token = mem[r].token /\ mem'[r].next = mem[r].next /\ mem'[r].head = mem[r].head
    BY <1>1, NoMemFields DEF SendReply, Skip, Reject, Read, Hold, Go, Rejected
  <1>31. Adopt(r) => mem'[r] = mem[r]
    BY <1>1, NoMemFields DEF Adopt, Skip, Reject, Read, Hold, Go, Rejected
  <1>32. QED
    BY <1>2, <1>3, <1>4, <1>5, <1>6, <1>7, <1>8, <1>9, <1>10, <1>11, <1>12, <1>13, <1>14, <1>15, <1>16,
       <1>17, <1>18, <1>19, <1>20, <1>21, <1>22, <1>23, <1>24, <1>25, <1>26, <1>27, <1>28, <1>29, <1>30, <1>31

\* Which steps of the inbox write which of what a process holds.
LEMMA MemWriters ==
    ASSUME CoreInv, NEW r \in Req, InboxStep(r), ~Rejected(r)
    PROVE  /\ mem'[r].acc = mem[r].acc \/ FindActive(r) \/ SyncStart(r) \/ PollNext(r) \/ ReplyRead(r)
           /\ mem'[r].conn = mem[r].conn \/ FindActive(r) \/ KeepToken(r) \/ SyncStart(r) \/ PollNext(r) \/ ReplyRead(r)
           /\ mem'[r].left = mem[r].left \/ PollStart(r) \/ PollNext(r)
           /\ mem'[r].ids = mem[r].ids \/ ListNew(r) \/ NextMail(r)
           /\ mem'[r].m = mem[r].m \/ NextMail(r)
           /\ mem'[r].t = mem[r].t \/ Match(r) \/ OpenTicket(r) \/ ReplyRead(r)
           /\ mem'[r].token = mem[r].token \/ Ensure(r) \/ NewToken(r)
           /\ mem'[r].thread = mem[r].thread \/ OpenTicket(r) \/ ReplyRead(r) \/ SendReply(r)
           /\ mem'[r].next = mem[r].next \/ Mark(r) \/ Ensure(r) \/ NewToken(r)
           /\ mem'[r].head = mem[r].head \/ Profile(r)
  BY MemEffects DEF InboxStep

\* What a connection and a ticket have.
LEMMA RowFields ==
    /\ {"known", "active", "tokens", "cursor", "status", "sync", "create"} \subseteq DOMAIN NoConn
    /\ {"live", "thread", "token"} \subseteq DOMAIN NoTicket
    /\ NoConn.cursor = None /\ NoTicket.thread = None /\ NoTicket.token = None
  BY DEF NoConn, NoTicket

\* d is connection c but for its status and settings; or but for its tokens; or but for its checkpoint.
Marked(c, d) == DOMAIN d = DOMAIN c /\ d.known = c.known /\ d.active = c.active /\ d.tokens = c.tokens /\ d.cursor = c.cursor
Rekeyed(c, d) == DOMAIN d = DOMAIN c /\ d.known = c.known /\ d.active = c.active /\ d.cursor = c.cursor
Moved(c, d, n) == DOMAIN d = DOMAIN c /\ d.known = c.known /\ d.active = c.active /\ d.tokens = c.tokens /\ d.cursor = n
Revived(c, d) == DOMAIN d = DOMAIN c /\ d.active /\ d.cursor = c.cursor
Dropt(c, d) == DOMAIN d = DOMAIN c /\ d.known = c.known /\ ~d.active /\ d.tokens = "wiped" /\ d.cursor = c.cursor

\* The writes to a connection, by what they leave.
LEMMA ConnShapes ==
    ASSUME NEW c, NEW d, DOMAIN c = DOMAIN NoConn
    PROVE  /\ \A s : d = [c EXCEPT !.status = s] => Marked(c, d)
           /\ \A s, y : d = [c EXCEPT !.sync = s, !.create = y] => Marked(c, d)
           /\ \A s : d = [c EXCEPT !.tokens = s] => Rekeyed(c, d)
           /\ \A s, n : d = [c EXCEPT !.cursor = n, !.status = s] => Moved(c, d, n)
           /\ d = [c EXCEPT !.known = TRUE, !.active = TRUE, !.tokens = "fresh", !.status = "idle"] => Revived(c, d)
           /\ d = Wiped(c) => Dropt(c, d)
  <1>1. \A s : d = [c EXCEPT !.status = s] => Marked(c, d)
    BY RowFields DEF Marked
  <1>2. \A s, y : d = [c EXCEPT !.sync = s, !.create = y] => Marked(c, d)
    BY RowFields DEF Marked
  <1>3. \A s : d = [c EXCEPT !.tokens = s] => Rekeyed(c, d)
    BY RowFields DEF Rekeyed
  <1>4. \A s, n : d = [c EXCEPT !.cursor = n, !.status = s] => Moved(c, d, n)
    BY RowFields DEF Moved
  <1>5. d = [c EXCEPT !.known = TRUE, !.active = TRUE, !.tokens = "fresh", !.status = "idle"] => Revived(c, d)
    BY RowFields DEF Revived
  <1>6. d = Wiped(c) => Dropt(c, d)
    BY RowFields DEF Dropt, Wiped
  <1>7. QED
    BY <1>1, <1>2, <1>3, <1>4, <1>5, <1>6, Zenon

\* What the steps of the inbox write to the connections.
LEMMA ConnWrites ==
    ASSUME CoreInv, MailRoutes, NEW r \in Req, InboxStep(r) \/ (Kind(r) \in Mailing /\ InboxFail(r)),
           DOMAIN conn = Account, \A a \in Account : DOMAIN conn[a] = DOMAIN NoConn
    PROVE  /\ DOMAIN conn' = Account /\ \A a \in Account : DOMAIN conn'[a] = DOMAIN NoConn
           /\ \A a \in Account :
                \/ conn'[a] = conn[a]
                \/ Marked(conn[a], conn'[a])
                \/ Upsert(r) /\ a = Opt(r) /\ Revived(conn[a], conn'[a])
                \/ Disconnect(r) /\ a = mem[r].acc /\ Dropt(conn[a], conn'[a])
                \/ KeepToken(r) /\ a = mem[r].acc /\ Rekeyed(conn[a], conn'[a])
                \/ Checkpoint(r) /\ a = mem[r].acc /\ Moved(conn[a], conn'[a], mem[r].head)
  <1>1. SUFFICES ASSUME NEW a \in Account
                 PROVE  /\ DOMAIN conn' = Account /\ DOMAIN conn'[a] = DOMAIN NoConn
                        /\ \/ conn'[a] = conn[a]
                           \/ Marked(conn[a], conn'[a])
                           \/ Upsert(r) /\ a = Opt(r) /\ Revived(conn[a], conn'[a])
                           \/ Disconnect(r) /\ a = mem[r].acc /\ Dropt(conn[a], conn'[a])
                           \/ KeepToken(r) /\ a = mem[r].acc /\ Rekeyed(conn[a], conn'[a])
                           \/ Checkpoint(r) /\ a = mem[r].acc /\ Moved(conn[a], conn'[a], mem[r].head)
    BY DEF Account
  <1>2. DOMAIN conn[a] = DOMAIN NoConn
    OBVIOUS
  <1>3. CASE conn' = conn
    BY <1>2, <1>3
  <1>4. CASE Upsert(r)
    <2>1. /\ DOMAIN conn' = Account
          /\ conn'[a] = conn[a] \/ (a = Opt(r) /\ conn'[a] = [conn[a] EXCEPT !.known = TRUE, !.active = TRUE, !.tokens = "fresh", !.status = "idle"])
      BY <1>4 DEF Upsert
    <2>2. QED
      BY <1>2, <1>4, <2>1, ConnShapes, Zenon DEF Revived
  <1>5. CASE Disconnect(r)
    <2>1. DOMAIN conn' = Account /\ (conn'[a] = conn[a] \/ (a = mem[r].acc /\ conn'[a] = Wiped(conn[a])))
      BY <1>5 DEF Disconnect
    <2>2. QED
      BY <1>2, <1>5, <2>1, ConnShapes, Zenon DEF Dropt
  <1>6. CASE KeepToken(r)
    <2>1. DOMAIN conn' = Account /\ (conn'[a] = conn[a] \/ (a = mem[r].acc /\ conn'[a] = [conn[a] EXCEPT !.tokens = "fresh"]))
      BY <1>6 DEF KeepToken
    <2>2. QED
      BY <1>2, <1>6, <2>1, ConnShapes, Zenon DEF Rekeyed
  <1>7. CASE Checkpoint(r)
    <2>1. /\ DOMAIN conn' = Account
          /\ conn'[a] = conn[a] \/ (a = mem[r].acc /\ conn'[a] = [conn[a] EXCEPT !.cursor = mem[r].head, !.status = "idle"])
      BY <1>7 DEF Checkpoint
    <2>2. conn'[a] = [conn[a] EXCEPT !.cursor = mem[r].head, !.status = "idle"] => Moved(conn[a], conn'[a], mem[r].head)
      BY <1>2, ConnShapes, Zenon
    <2>3. DOMAIN conn'[a] = DOMAIN NoConn
      BY <1>2, <2>1
    <2>4. QED
      BY <1>7, <2>1, <2>2, <2>3
  <1>8. CASE UpdateSettings(r) \/ Mark(r) \/ Refresh(r) \/ InboxFail(r)
    <2>1. \/ conn' = conn
          \/ \E x, s : conn' = [conn EXCEPT ![x].status = s]
          \/ \E x, y, z : conn' = [conn EXCEPT ![x] = [@ EXCEPT !.sync = y, !.create = z]]
      <3>1. CASE UpdateSettings(r)
        BY <3>1, Zenon DEF UpdateSettings
      <3>2. CASE Mark(r)
        BY <3>2, Zenon DEF Mark
      <3>3. CASE Refresh(r)
        BY <3>3, Zenon DEF Refresh, Skip, Read, mailbox
      <3>4. CASE InboxFail(r)
        BY <3>4, Zenon DEF InboxFail
      <3>5. QED
        BY <1>8, <3>1, <3>2, <3>3, <3>4, Zenon
    <2>2. CASE \E x, s : conn' = [conn EXCEPT ![x].status = s]
      <3>1. PICK x, s : conn' = [conn EXCEPT ![x].status = s]
        BY <2>2
      <3>2. DOMAIN conn' = Account /\ (conn'[a] = conn[a] \/ conn'[a] = [conn[a] EXCEPT !.status = s])
        BY <3>1
      <3>3. conn'[a] = conn[a] \/ Marked(conn[a], conn'[a])
        BY <1>2, <3>2, ConnShapes, Zenon
      <3>4. QED
        BY <1>2, <3>2, <3>3 DEF Marked
    <2>3. CASE \E x, y, z : conn' = [conn EXCEPT ![x] = [@ EXCEPT !.sync = y, !.create = z]]
      <3>1. PICK x, y, z : conn' = [conn EXCEPT ![x] = [@ EXCEPT !.sync = y, !.create = z]]
        BY <2>3, Zenon
      <3>2. DOMAIN conn' = Account /\ (conn'[a] = conn[a] \/ conn'[a] = [conn[a] EXCEPT !.sync = y, !.create = z])
        BY <3>1
      <3>3. conn'[a] = conn[a] \/ Marked(conn[a], conn'[a])
        BY <1>2, <3>2, ConnShapes, Zenon
      <3>4. QED
        BY <1>2, <3>2, <3>3 DEF Marked
    <2>4. QED
      BY <1>3, <2>1, <2>2, <2>3, Zenon
  <1>9. QED
    BY <1>3, <1>4, <1>5, <1>6, <1>7, <1>8, MailWriters

\* u is ticket t in another thread, or with another token.
Threaded(t, u, thread) == DOMAIN u = DOMAIN t /\ u.live = t.live /\ u.thread = thread /\ u.token = t.token
Tokened(t, u, token) == DOMAIN u = DOMAIN t /\ u.live = t.live /\ u.thread = t.thread /\ u.token = token
Opened(u, thread) == DOMAIN u = DOMAIN NoTicket /\ u.live /\ u.thread = thread /\ u.token = None

\* The writes to a ticket, by what they leave.
LEMMA TicketShapes ==
    ASSUME NEW t, NEW u, DOMAIN t = DOMAIN NoTicket
    PROVE  /\ \A x : u = [t EXCEPT !.thread = x] => Threaded(t, u, x)
           /\ \A x : u = [t EXCEPT !.token = x] => Tokened(t, u, x)
           /\ \A x : u = [live |-> TRUE, thread |-> x, token |-> None] => Opened(u, x)
  <1>1. \A x : u = [t EXCEPT !.thread = x] => Threaded(t, u, x)
    BY RowFields DEF Threaded
  <1>2. \A x : u = [t EXCEPT !.token = x] => Tokened(t, u, x)
    BY RowFields DEF Tokened
  <1>3. \A x : u = [live |-> TRUE, thread |-> x, token |-> None] => Opened(u, x)
    BY DEF Opened, NoTicket
  <1>4. QED
    BY <1>1, <1>2, <1>3

\* What the steps of the inbox write to the tickets.
LEMMA TicketWrites ==
    ASSUME CoreInv, MailRoutes, NEW r \in Req, InboxStep(r),
           DOMAIN ticket = Tid, \A t \in Tid : DOMAIN ticket[t] = DOMAIN NoTicket
    PROVE  /\ DOMAIN ticket' = Tid /\ \A t \in Tid : DOMAIN ticket'[t] = DOMAIN NoTicket
           /\ \A t \in Tid :
                \/ ticket'[t] = ticket[t]
                \/ Append(r) /\ t = mem[r].t /\ Threaded(ticket[t], ticket'[t], Thread(mem[r].m))
                \/ OpenTicket(r) /\ t = <<r, mem[r].m>> /\ Opened(ticket'[t], Thread(mem[r].m))
                \/ NewToken(r) /\ t = mem[r].t /\ Tokened(ticket[t], ticket'[t], <<r, mem[r].m>>)
                \/ Adopt(r) /\ t = mem[r].t /\ Threaded(ticket[t], ticket'[t], mem[r].thread)
  <1>1. SUFFICES ASSUME NEW t \in Tid
                 PROVE  /\ DOMAIN ticket' = Tid /\ DOMAIN ticket'[t] = DOMAIN NoTicket
                        /\ \/ ticket'[t] = ticket[t]
                           \/ Append(r) /\ t = mem[r].t /\ Threaded(ticket[t], ticket'[t], Thread(mem[r].m))
                           \/ OpenTicket(r) /\ t = <<r, mem[r].m>> /\ Opened(ticket'[t], Thread(mem[r].m))
                           \/ NewToken(r) /\ t = mem[r].t /\ Tokened(ticket[t], ticket'[t], <<r, mem[r].m>>)
                           \/ Adopt(r) /\ t = mem[r].t /\ Threaded(ticket[t], ticket'[t], mem[r].thread)
    BY DEF Tid
  <1>2. DOMAIN ticket[t] = DOMAIN NoTicket
    OBVIOUS
  <1>3. CASE ticket' = ticket
    BY <1>2, <1>3
  <1>4. CASE Append(r)
    <2>1. /\ DOMAIN ticket' = Tid
          /\ ticket'[t] = ticket[t] \/ (t = mem[r].t /\ ticket'[t] = [ticket[t] EXCEPT !.thread = Thread(mem[r].m)])
      BY <1>4 DEF Append, Thread
    <2>2. ticket'[t] = [ticket[t] EXCEPT !.thread = Thread(mem[r].m)] => Threaded(ticket[t], ticket'[t], Thread(mem[r].m))
      BY <1>2, TicketShapes
    <2>3. QED
      BY <1>2, <1>4, <2>1, <2>2 DEF Threaded
  <1>5. CASE OpenTicket(r)
    <2>1. /\ DOMAIN ticket' = Tid
          /\ \/ ticket'[t] = ticket[t]
             \/ t = <<r, mem[r].m>> /\ ticket'[t] = [live |-> TRUE, thread |-> Thread(mem[r].m), token |-> None]
      BY <1>5 DEF OpenTicket, Thread
    <2>2. ticket'[t] = [live |-> TRUE, thread |-> Thread(mem[r].m), token |-> None] => Opened(ticket'[t], Thread(mem[r].m))
      BY <1>2, TicketShapes
    <2>3. QED
      BY <1>2, <1>5, <2>1, <2>2 DEF Opened
  <1>6. CASE NewToken(r)
    <2>1. /\ DOMAIN ticket' = Tid
          /\ ticket'[t] = ticket[t] \/ (t = mem[r].t /\ ticket'[t] = [ticket[t] EXCEPT !.token = <<r, mem[r].m>>])
      BY <1>6 DEF NewToken
    <2>2. ticket'[t] = [ticket[t] EXCEPT !.token = <<r, mem[r].m>>] => Tokened(ticket[t], ticket'[t], <<r, mem[r].m>>)
      BY <1>2, TicketShapes
    <2>3. QED
      BY <1>2, <1>6, <2>1, <2>2 DEF Tokened
  <1>7. CASE Adopt(r)
    <2>1. /\ DOMAIN ticket' = Tid
          /\ ticket'[t] = ticket[t] \/ (t = mem[r].t /\ ticket'[t] = [ticket[t] EXCEPT !.thread = mem[r].thread])
      BY <1>7 DEF Adopt
    <2>2. ticket'[t] = [ticket[t] EXCEPT !.thread = mem[r].thread] => Threaded(ticket[t], ticket'[t], mem[r].thread)
      BY <1>2, TicketShapes
    <2>3. QED
      BY <1>2, <1>7, <2>1, <2>2 DEF Threaded
  <1>8. QED
    BY <1>3, <1>4, <1>5, <1>6, <1>7, MailWriters

\* How a process of the inbox comes to be bound to a connection, to send, and to deal with a mail.
LEMMA MailWalk ==
    ASSUME CoreInv, MailRoutes, NEW r \in Req, InboxStep(r)
    PROVE  /\ Kind(r)' = Kind(r) /\ On(r)' = On(r) /\ Opt(r)' = Opt(r)
           /\ Bound(r)' => Bound(r) \/ SyncStart(r) \/ PollNext(r) \/ ReplyRead(r)
           /\ Replying(r)' => Replying(r) \/ ReplyRead(r) \/ OpenTicket(r)
           /\ Bearing(r)' => Bearing(r) \/ Ensure(r) \/ NewToken(r)
           /\ pc'[r] \in Matching => Record(r) \/ Match(r) \/ Sender(r)
  <1>1. Walks(r)
    BY InboxStepsElsewhere DEF Elsewhere
  <1>2. Kind(r)' = Kind(r) /\ On(r)' = On(r) /\ Opt(r)' = Opt(r)
    BY <1>1 DEF Walks, Kind, On, Opt
  <1>3. Bound(r)' => Bound(r) \/ SyncStart(r) \/ PollNext(r) \/ ReplyRead(r)
    <2>1. SUFFICES ASSUME Bound(r)', ~Bound(r)
                   PROVE  SyncStart(r) \/ PollNext(r) \/ ReplyRead(r)
      OBVIOUS
    <2>2. /\ pc[r] \in {"start", "next"} /\ Kind(r) \in {"sync", "poll", "reply"}
          /\ pc'[r] \notin {"done", "next", "rejected", "failed", "lost", "free", "start"}
      BY <1>1, <1>2, <2>1 DEF Bound, Walks, Ended, Syncing
    <2>3. StateGet(r) \/ FindActive(r) \/ SyncStart(r) \/ PollStart(r) \/ PollNext(r) \/ ReplyRead(r)
      <3>1. pc[r] \in {"start", "next"} => StateGet(r) \/ FindActive(r) \/ SyncStart(r) \/ PollStart(r) \/ PollNext(r) \/ ReplyRead(r)
        BY MailEffects DEF InboxStep
      <3>2. QED
        BY <2>2, <3>1
    <2>4. ~StateGet(r) /\ ~FindActive(r) /\ ~PollStart(r)
      BY <2>2, MailEffects
    <2>5. QED
      BY <2>3, <2>4
  <1>4. Replying(r)' => Replying(r) \/ ReplyRead(r) \/ OpenTicket(r)
    <2>1. SUFFICES ASSUME Replying(r)', ~Replying(r)
                   PROVE  ReplyRead(r) \/ OpenTicket(r)
      OBVIOUS
    <2>2. pc'[r] = "ensure" => ReplyRead(r) \/ OpenTicket(r)
      BY MailLeads
    <2>3. ~Ensure(r) /\ ~NewToken(r) /\ ~SendReply(r)
      BY <2>1, MailEffects DEF Replying
    <2>4. pc'[r] # "token" /\ pc'[r] # "adopt"
      BY <2>3, MailLeads
    <2>5. pc'[r] # "send"
      <3>1. pc'[r] = "send" => KeepToken(r)
        BY <2>3, MailLeads
      <3>2. KeepToken(r) => pc[r] = "keep" /\ pc'[r] = mem[r].next
        BY MailEffects DEF KeepToken, Go, CoreInv, ProcessType
      <3>3. QED
        BY <2>1, <3>1, <3>2 DEF Replying
    <2>6. pc'[r] \in {"refresh", "keep"} => mem'[r].next # "send"
      <3>1. pc'[r] = "refresh" => mem'[r].next # "send"
        <4>1. pc'[r] = "refresh" => Mark(r)
          BY <2>3, MailLeads
        <4>2. Mark(r) => mem'[r].next = "list"
          BY NoMemFields DEF Mark, Hold, CoreInv, ProcessType
        <4>3. QED
          BY <4>1, <4>2
      <3>2. pc'[r] = "keep" => mem'[r].next # "send"
        BY <2>1, NextIsSet DEF Replying
      <3>3. QED
        BY <3>1, <3>2
    <2>7. QED
      BY <2>1, <2>2, <2>4, <2>5, <2>6 DEF Replying
  <1>5. pc'[r] \in Matching => Record(r) \/ Match(r) \/ Sender(r)
    BY MailLeads DEF Matching
  <1>6. Bearing(r)' => Bearing(r) \/ Ensure(r) \/ NewToken(r)
    <2>1. pc'[r] = "send" => Bearing(r) \/ Ensure(r) \/ NewToken(r)
      <3>1. KeepToken(r) => pc[r] = "keep" /\ pc'[r] = mem[r].next
        BY MailEffects DEF KeepToken, Go, CoreInv, ProcessType
      <3>2. QED
        BY <3>1, MailLeads DEF Bearing
    <2>2. pc'[r] = "refresh" /\ mem'[r].next = "send" => Ensure(r) \/ NewToken(r)
      <3>1. Mark(r) => mem'[r].next = "list"
        BY NoMemFields DEF Mark, Hold, CoreInv, ProcessType
      <3>2. QED
        BY <3>1, MailLeads
    <2>3. pc'[r] = "keep" /\ mem'[r].next = "send" => Bearing(r)
      BY NextIsSet DEF Bearing
    <2>4. QED
      BY <2>1, <2>2, <2>3 DEF Bearing
  <1>7. QED
    BY <1>2, <1>3, <1>4, <1>5, <1>6

\* Whose steps they are.
LEMMA KindsAt ==
    ASSUME MailRoutes, NEW r \in Req
    PROVE  /\ Replying(r) => Kind(r) \in Syncing \cup {"reply"} /\ pc[r] \notin Ended \cup {"start"}
           /\ Bearing(r) => Replying(r)
           /\ Bound(r) => Kind(r) \in Syncing \cup {"reply"} /\ pc[r] \notin Ended
           /\ pc[r] \in Walking => Kind(r) \in Syncing /\ Bound(r)
           /\ Replying(r) => Bound(r)
           /\ Syncing \cup {"reply"} \subseteq Mailing
  <1>1. /\ \/ pc[r] \in Ended \cup {"start"}
           \/ Serves(Kind(r), pc[r])
           \/ Kind(r) \notin Mailing /\ pc[r] \notin MailSteps
    BY DEF MailRoutes
  <1>2. Syncing \cup {"reply"} \subseteq Mailing
    BY DEF Syncing, Mailing
  <1>3. Replying(r) => pc[r] \in Sending
    BY DEF Replying, Sending
  <1>4. pc[r] \in Sending => Kind(r) \in Syncing \cup {"reply"} /\ pc[r] \notin Ended \cup {"start", "next"}
    BY <1>1 DEF Serves, Sending, Walking, Ended, MailSteps, Syncing
  <1>5. pc[r] \in Walking => Kind(r) \in Syncing /\ pc[r] \notin Ended \cup {"start", "next"}
    BY <1>1 DEF Serves, Sending, Walking, Ended, MailSteps, Syncing
  <1>6. QED
    BY <1>2, <1>3, <1>4, <1>5 DEF Bound, Bearing, Replying

\* A failure binds nobody, and nobody sends or deals with a mail from it on.
LEMMA FailureWalk ==
    ASSUME CoreInv, MailRoutes, NEW r \in Req, Kind(r) \in Mailing, InboxFail(r)
    PROVE  /\ Walks(r) /\ Kind(r)' = Kind(r) /\ On(r)' = On(r) /\ Opt(r)' = Opt(r)
           /\ Bound(r)' => Bound(r)
           /\ ~Replying(r)' /\ ~Bearing(r)' /\ pc'[r] \notin Matching \cup {"record"}
  <1>1. Walks(r)
    BY FailuresElsewhere DEF Elsewhere
  <1>2. Kind(r)' = Kind(r) /\ On(r)' = On(r) /\ Opt(r)' = Opt(r)
    BY <1>1 DEF Walks, Kind, On, Opt
  <1>3. pc'[r] \in Ended \cup {"files", "loop", "next", "wipe"}
    BY MailFailure
  <1>4. ~Replying(r)' /\ ~Bearing(r)' /\ pc'[r] \notin Matching \cup {"record"}
    BY <1>3 DEF Replying, Bearing, Matching, Ended
  <1>5. Bound(r)' => Bound(r)
    <2>1. SUFFICES ASSUME Bound(r)' PROVE Bound(r)
      OBVIOUS
    <2>2. pc'[r] \in {"files", "loop"} /\ Kind(r) \in Syncing
      BY <1>2, <2>1, MailFailure DEF Bound, Ended, Syncing
    <2>3. pc[r] \notin {"start", "next"}
      BY <2>2, <1>1 DEF InboxFail, Go, Syncing, Ingesting, InSync, SyncEnd, AfterSend, CoreInv, ProcessType
    <2>4. QED
      BY <1>1, <2>2, <2>3 DEF Bound, Walks
  <1>6. QED
    BY <1>1, <1>2, <1>4, <1>5

-----------------------------------------------------------------------------
(* The inbox keeps its types *)

\* The three signals of a mail, besides its thread.
Signals(mail, header, number, token) == mail.header = header /\ mail.number = number /\ mail.token = token

\* What arrives is a mail of its own or of an earlier thread, or bears one signal of a mail that was sent.
LEMMA ShapesAre ==
    ASSUME BoxType, NEW shape \in Shapes
    PROVE  /\ DOMAIN shape = DOMAIN Plain
           /\ shape.thread \in Mails \cup {Cardinality(Mails) + 1}
           /\ \/ Signals(shape, None, None, None)
              \/ \E s \in sent : \/ Signals(shape, s.t, None, None)
                                 \/ Signals(shape, None, s.t, None)
                                 \/ Signals(shape, None, None, s.token)
  <1>1. /\ {"thread", "header", "token", "number", "skip", "blocked", "late"} = DOMAIN Plain
        /\ Plain.header = None /\ Plain.number = None /\ Plain.token = None
    BY DEF Plain
  <1>2. PICK new : new = [Plain EXCEPT !.thread = Cardinality(Mails) + 1]
    BY Zenon
  <1>3. DOMAIN new = DOMAIN Plain /\ new.thread = Cardinality(Mails) + 1 /\ Signals(new, None, None, None)
    BY <1>1, <1>2 DEF Signals
  <1>4. \/ \E x : shape \in {new, [new EXCEPT !.skip = x], [new EXCEPT !.blocked = x]}
        \/ \E k \in Mails : shape = [new EXCEPT !.thread = Thread(k)]
        \/ \E s \in sent : shape \in {[new EXCEPT !.token = s.token], [new EXCEPT !.header = s.t], [new EXCEPT !.number = s.t]}
    BY <1>2, Zenon DEF Shapes, Thread
  <1>5. CASE \E x : shape \in {new, [new EXCEPT !.skip = x], [new EXCEPT !.blocked = x]}
    <2>1. DOMAIN shape = DOMAIN Plain /\ shape.thread = new.thread /\ Signals(shape, None, None, None)
      BY <1>1, <1>3, <1>5 DEF Signals
    <2>2. QED
      BY <1>3, <2>1
  <1>6. CASE \E k \in Mails : shape = [new EXCEPT !.thread = Thread(k)]
    <2>1. DOMAIN shape = DOMAIN Plain /\ (\E k \in Mails : shape.thread = Thread(k)) /\ Signals(shape, None, None, None)
      BY <1>1, <1>3, <1>6 DEF Signals
    <2>2. QED
      BY <2>1 DEF BoxType
  <1>7. CASE \E s \in sent : shape \in {[new EXCEPT !.token = s.token], [new EXCEPT !.header = s.t], [new EXCEPT !.number = s.t]}
    <2>1. PICK s \in sent : shape \in {[new EXCEPT !.token = s.token], [new EXCEPT !.header = s.t], [new EXCEPT !.number = s.t]}
      BY <1>7
    <2>2. DOMAIN shape = DOMAIN Plain /\ shape.thread = new.thread
      BY <1>1, <1>3, <2>1
    <2>3. \/ Signals(shape, s.t, None, None)
          \/ Signals(shape, None, s.t, None)
          \/ Signals(shape, None, None, s.token)
      BY <1>1, <1>3, <2>1 DEF Signals
    <2>4. QED
      BY <1>3, <2>2, <2>3
  <1>8. QED
    BY <1>4, <1>5, <1>6, <1>7

\* The mail that arrives next.
Next1 == Cardinality(Mails) + 1

\* A mail arrives after all there are, which stay as they are.
LEMMA MailArrives ==
    ASSUME BoxType, Arrive
    PROVE  /\ Next1 \in 1..MaxMail /\ Next1 \notin Mails /\ \A m \in Mails : m < Next1
           /\ Mails' = Mails \cup {Next1} /\ DOMAIN box' = Mails'
           /\ Cardinality(DOMAIN box)' \in Nat /\ Cardinality(Mails)' = Next1 /\ Cardinality(Mails) \in Nat
           /\ \A m \in Mails : box'[m] = box[m]
           /\ box'[Next1].late = Listed
           /\ box'[Next1].thread \in Mails'
           /\ \/ Signals(box'[Next1], None, None, None)
              \/ \E s \in sent : \/ Signals(box'[Next1], s.t, None, None)
                                 \/ Signals(box'[Next1], None, s.t, None)
                                 \/ Signals(box'[Next1], None, None, s.token)
  <1>1. PICK n \in Nat : n = Cardinality(DOMAIN box)
    BY DEF BoxType
  <1>2. Mails = 1..n /\ Cardinality(Mails) = n
    BY <1>1, FS_Interval DEF Mails
  <1>3. n < MaxMail /\ MaxMail \in Nat
    BY <1>2, InboxAssumption DEF Arrive
  <1>4. PICK shape \in Shapes : box' = [m \in Mails \cup {n + 1} |-> IF m \in Mails THEN box[m] ELSE [shape EXCEPT !.late = Listed]]
    BY <1>2 DEF Arrive
  <1>5. Mails \cup {n + 1} = 1..(n + 1) /\ n + 1 \notin Mails /\ \A m \in Mails : m < n + 1
    BY <1>2
  <1>6. DOMAIN box' = 1..(n + 1) /\ box'[n + 1] = [shape EXCEPT !.late = Listed] /\ \A m \in Mails : box'[m] = box[m]
    BY <1>4, <1>5
  <1>7. Cardinality(DOMAIN box') = n + 1 /\ Cardinality(1..(n + 1)) = n + 1
    BY <1>6, FS_Interval
  <1>8. Mails' = 1..(n + 1) /\ Cardinality(Mails)' = n + 1
    BY <1>7 DEF Mails
  <1>9. /\ DOMAIN shape = DOMAIN Plain
        /\ shape.thread \in Mails \cup {n + 1}
        /\ \/ Signals(shape, None, None, None)
           \/ \E s \in sent : \/ Signals(shape, s.t, None, None)
                              \/ Signals(shape, None, s.t, None)
                              \/ Signals(shape, None, None, s.token)
    BY <1>2, ShapesAre
  <1>10. /\ box'[n + 1].late = Listed /\ box'[n + 1].thread = shape.thread
         /\ box'[n + 1].header = shape.header /\ box'[n + 1].number = shape.number /\ box'[n + 1].token = shape.token
    <2>1. {"thread", "header", "token", "number", "late"} \subseteq DOMAIN Plain
      BY DEF Plain
    <2>2. QED
      BY <1>6, <1>9, <2>1
  <1>11. box'[n + 1].thread \in Mails'
    BY <1>5, <1>8, <1>9, <1>10
  <1>12. Next1 = n + 1
    BY <1>2 DEF Next1
  <1>13. \/ Signals(box'[n + 1], None, None, None)
         \/ \E s \in sent : \/ Signals(box'[n + 1], s.t, None, None)
                            \/ Signals(box'[n + 1], None, s.t, None)
                            \/ Signals(box'[n + 1], None, None, s.token)
    BY <1>9, <1>10 DEF Signals
  <1>14. Cardinality(DOMAIN box)' \in Nat
    BY <1>7
  <1>15. n + 1 \in 1..MaxMail
    BY <1>3
  <1>16. DOMAIN box' = Mails' /\ Mails' = Mails \cup {n + 1} /\ Cardinality(Mails) \in Nat
    BY <1>2, <1>5, <1>6, <1>8
  <1>17. QED
    BY <1>5, <1>6, <1>8, <1>10, <1>11, <1>12, <1>13, <1>14, <1>15, <1>16

\* The row of a process's mail is written.
Rowed(r, status) == row' = [row EXCEPT ![mem[r].m] = status]

\* What the steps of the inbox write to the rows of the mails.
LEMMA RowWrites ==
    ASSUME CoreInv, MailRoutes, NEW r \in Req, InboxStep(r)
    PROVE  \/ row' = row
           \/ Record(r) /\ row[mem[r].m] = "none" /\ mem'[r] = mem[r]
              /\ ((Rowed(r, "skipped") /\ pc'[r] = "loop") \/ (Rowed(r, "processing") /\ pc'[r] = "match"))
           \/ (Append(r) \/ OpenTicket(r)) /\ Rowed(r, "processed")
           \/ Sender(r) /\ Rowed(r, "skipped") /\ pc'[r] = "loop"
  <1>1. DOMAIN pc = Req
    BY DEF CoreInv, ProcessType
  <1>2. Record(r) => row' = row \/ (row[mem[r].m] = "none" /\ mem'[r] = mem[r]
              /\ ((Rowed(r, "skipped") /\ pc'[r] = "loop") \/ (Rowed(r, "processing") /\ pc'[r] = "match")))
    BY <1>1 DEF Record, Rowed, Skip, Read, mailbox, Go
  <1>3. Append(r) \/ OpenTicket(r) => Rowed(r, "processed")
    BY DEF Append, OpenTicket, Rowed
  <1>4. Sender(r) => row' = row \/ (Rowed(r, "skipped") /\ pc'[r] = "loop")
    BY <1>1 DEF Sender, Rowed, Go
  <1>5. QED
    BY <1>2, <1>3, <1>4, MailWriters

\* A ticket id and a token are no nobody, and whose they are.
LEMMA Names ==
    /\ Req \subseteq Nat /\ MaxMail \in Nat /\ None \notin Nat /\ None \notin Tid /\ None \notin Token
    /\ \A r \in Req, m \in 1..MaxMail : <<r, m>> \in Tid /\ <<r, m>> # First
    /\ \A r \in Req, m \in 0..MaxMail : <<r, m>> \in Token /\ <<r, m>>[1] = r /\ <<r, m>>[2] = m
    /\ \A t \in Tid : t = First \/ (t[1] \in Req /\ t[2] \in 1..MaxMail /\ t = <<t[1], t[2]>>)
    /\ \A k \in Token : k[1] \in Req /\ k[2] \in 0..MaxMail /\ k = <<k[1], k[2]>>
  <1>1. /\ MaxReq \in Nat /\ MaxMail \in Nat /\ None \notin Nat /\ None # First
        /\ {None, First} \cap ((1..MaxReq) \X (0..MaxMail)) = {}
    BY InboxAssumption, IntakeAssumption
  <1>2. \A r \in Req, m \in 0..MaxMail : <<r, m>> \in Token /\ <<r, m>>[1] = r /\ <<r, m>>[2] = m
    BY DEF Token
  <1>3. \A k \in Token : k[1] \in Req /\ k[2] \in 0..MaxMail /\ k = <<k[1], k[2]>>
    BY DEF Token
  <1>4. \A r \in Req, m \in 1..MaxMail : <<r, m>> \in Tid /\ <<r, m>> # First
    <2>1. 1..MaxMail \subseteq 0..MaxMail
      BY <1>1
    <2>2. QED
      BY <1>1, <2>1 DEF Tid, Req
  <1>5. \A t \in Tid : t = First \/ (t[1] \in Req /\ t[2] \in 1..MaxMail /\ t = <<t[1], t[2]>>)
    BY DEF Tid
  <1>6. None \notin Token /\ None \notin Tid
    <2>1. None \notin Token
      BY <1>1 DEF Token, Req
    <2>2. Req \X (1..MaxMail) \subseteq Token
      BY <1>1 DEF Token
    <2>3. QED
      BY <1>1, <2>1, <2>2 DEF Tid
  <1>7. Req \subseteq Nat
    BY <1>1 DEF Req
  <1>8. QED
    BY <1>1, <1>2, <1>3, <1>4, <1>5, <1>6, <1>7

\* The steps of the inbox keep the rows typed.
LEMMA RowTypeStep ==
    ASSUME CoreInv, MailRoutes, MailType, NEW r \in Req, InboxStep(r) \/ (Kind(r) \in Mailing /\ InboxFail(r))
    PROVE  RowType'
  <1>1. BoxType /\ RowType /\ Carries(r) /\ Walks(r) /\ UNCHANGED box /\ Mails' = Mails /\ Kind(r) \in Mailing
    <2>1. UNCHANGED box
      BY MailWriters, MailFailure
    <2>2. QED
      BY <2>1, InboxStepsElsewhere, FailuresElsewhere, MailGoesOn DEF MailType, Elsewhere, Mails
  <1>2. Replying(r) => mem[r].t \in Tid
    BY <1>1, KindsAt, Names DEF Carries, Filing, BoxType, Syncing
  <1>3. DOMAIN row' = 1..MaxMail
    BY <1>1, RowWrites, MailFailure DEF RowType, Rowed
  <1>4. DOMAIN conn' = Account /\ \A a \in Account : DOMAIN conn'[a] = DOMAIN NoConn /\ conn'[a].cursor \in Nat \cup {None}
    <2>1. Checkpoint(r) => mem[r].head \in Nat
      BY <1>1, MailEffects DEF Carries, Filing
    <2>2. QED
      BY <1>1, <2>1, ConnWrites DEF RowType, Marked, Rekeyed, Moved, Revived, Dropt
  <1>5. /\ DOMAIN ticket' = Tid
        /\ \A t \in Tid : DOMAIN ticket'[t] = DOMAIN NoTicket /\ ticket'[t].thread \in Nat \cup {None} /\ ticket'[t].token \in Token \cup {None}
    <2>1. CASE ticket' = ticket
      BY <1>1, <2>1 DEF RowType
    <2>2. CASE InboxStep(r)
      <3>1. Append(r) \/ OpenTicket(r) => Thread(mem[r].m) \in Nat
        BY <1>1, MailEffects, Names DEF Carries, Filing, Matching, BoxType
      <3>2. NewToken(r) => <<r, mem[r].m>> \in Token
        <4>1. NewToken(r) => Kind(r) \in Mailing
          BY MailEffects DEF Mailing
        <4>2. QED
          BY <1>1, <4>1, Names DEF Carries, Filing
      <3>3. Adopt(r) => mem[r].thread \in Nat \cup {None}
        BY <1>1 DEF Carries, Filing
      <3>4. QED
        BY <1>1, <2>2, <3>1, <3>2, <3>3, TicketWrites DEF RowType, Threaded, Tokened, Opened
    <2>3. QED
      BY <2>1, <2>2, MailFailure
  <1>6. /\ msgs' \subseteq [on : Tid, mail : Mails, of : Req]
        /\ \A x \in msgs' : pc[x.of] # "free" /\ Kind(x.of) \in Syncing
    <2>1. CASE msgs' = msgs
      BY <1>1, <2>1 DEF RowType
    <2>2. CASE Append(r) \/ OpenTicket(r)
      <3>1. mem[r].m \in Mails /\ Kind(r) \in Syncing /\ pc[r] # "free"
        BY <1>1, <2>2, MailEffects DEF Carries, Filing, Matching, Syncing
      <3>2. \E t \in Tid : msgs' = msgs \cup {[on |-> t, mail |-> mem[r].m, of |-> r]}
        <4>1. CASE Append(r)
          BY <1>1, <4>1 DEF Append, At, Carries
        <4>2. CASE OpenTicket(r)
          BY <1>1, <3>1, <4>2, Names DEF OpenTicket, BoxType
        <4>3. QED
          BY <2>2, <4>1, <4>2
      <3>3. QED
        BY <1>1, <3>1, <3>2 DEF RowType
    <2>3. QED
      BY <2>1, <2>2, MailWriters, MailFailure
  <1>7. sent' \subseteq [t : Tid, token : Token, thread : Nat, of : Req] /\ \A s \in sent' : pc[s.of] # "free"
    <2>1. CASE sent' = sent
      BY <1>1, <2>1 DEF RowType
    <2>2. CASE SendReply(r)
      <3>1. Replying(r) /\ Bearing(r) /\ pc[r] = "send"
        BY <2>2 DEF SendReply, At, Replying, Bearing
      <3>2. PICK th \in Nat : sent' = sent \cup {[t |-> mem[r].t, token |-> mem[r].token, thread |-> th, of |-> r]}
        BY <1>1, <2>2, Names DEF SendReply, Carries
      <3>3. mem[r].token \in Token
        BY <1>1, <3>1 DEF Carries, Filing
      <3>4. QED
        BY <1>1, <1>2, <3>1, <3>2, <3>3 DEF RowType
    <2>3. QED
      BY <2>1, <2>2, MailWriters, MailFailure
  <1>8. /\ \A x \in msgs' : pc'[x.of] # "free" /\ Kind(x.of)' \in Syncing
        /\ \A s \in sent' : pc'[s.of] # "free"
    BY <1>1, <1>6, <1>7 DEF Walks, Kind
  <1>9. QED
    BY <1>1, <1>3, <1>4, <1>5, <1>6, <1>7, <1>8 DEF RowType

\* A step of the inbox keeps what its process holds typed.
LEMMA CarriesStep ==
    ASSUME CoreInv, MailRoutes, MailType, NEW r \in Req, InboxStep(r)
    PROVE  Carries(r)'
  <1>1. /\ BoxType /\ RowType /\ Carries(r) /\ Mails' = Mails /\ box' = box
        /\ DOMAIN pc = Req /\ DOMAIN mem = Req /\ DOMAIN mem[r] = DOMAIN NoMem
        /\ Kind(r)' = Kind(r) /\ On(r)' = On(r) /\ Opt(r)' = Opt(r)
    BY MailWriters, MailWalk DEF MailType, Mails, CoreInv, ProcessType
  <1>2. Kind(r) \in Mailing /\ (pc'[r] \in Ended \/ Serves(Kind(r), pc'[r]))
    BY MailGoesOn
  <1>3. CASE Rejected(r)
    <2>1. /\ NoMem.thread = None /\ NoMem.token = None /\ NoMem.conn.cursor = None
          /\ NoMem.m = 0 /\ NoMem.ids = {} /\ NoMem.left = {}
      BY DEF NoMem, NoConn
    <2>2. ~Bound(r)' /\ ~Replying(r)' /\ ~Bearing(r)'
          /\ pc'[r] \notin Matching \cup {"record", "files", "append", "checkpoint", "revoke", "wipe", "write"}
      BY <1>3 DEF Bound, Replying, Bearing, Rejected, Matching, Ended
    <2>3. 0 \in 0..MaxMail
      BY Names
    <2>4. QED
      BY <1>1, <1>2, <1>3, <2>1, <2>2, <2>3 DEF Carries, Filing, Rejected, Matching
  <1>4. CASE ~Rejected(r)
    <2>1. mem'[r].thread \in Nat \cup {None}
      <3>1. OpenTicket(r) => mem'[r].thread \in Nat
        <4>1. OpenTicket(r) => mem'[r].thread = Thread(mem[r].m) /\ mem[r].m \in Mails
          BY <1>1, <1>2, NoMemFields DEF OpenTicket, Hold, Thread, Carries, At, Matching
        <4>2. QED
          BY <1>1, <1>2, <4>1, Names DEF BoxType
      <3>2. ReplyRead(r) => mem'[r].thread \in Nat \cup {None}
        <4>1. ReplyRead(r) => On(r) \in Tid /\ (mem'[r] = mem[r]
                   \/ \E a : mem'[r] = [mem[r] EXCEPT !.acc = a, !.conn = conn[a], !.t = On(r), !.thread = ticket[On(r)].thread])
          BY <1>1, <1>2, Zenon DEF ReplyRead, Skip, Read, Hold, Carries
        <4>2. ReplyRead(r) => On(r) \in Tid /\ mem'[r].thread \in {mem[r].thread, ticket[On(r)].thread}
          BY <1>1, <4>1, NoMemFields, Zenon
        <4>3. QED
          BY <1>1, <1>2, <4>2 DEF Carries, Filing, RowType
      <3>3. SendReply(r) => mem'[r].thread \in Nat \cup {None}
        <4>1. SendReply(r) => mem'[r].thread \in {mem[r].thread, MaxMail + r}
          BY <1>1, <1>2, NoMemFields DEF SendReply, Hold
        <4>2. MaxMail + r \in Nat
          BY Names
        <4>3. QED
          BY <1>1, <1>2, <4>1, <4>2 DEF Carries, Filing
      <3>4. QED
        BY <1>1, <1>2, <1>4, <3>1, <3>2, <3>3, MemWriters DEF Carries, Filing
    <2>2. mem'[r].token \in Token \cup {None} /\ (Bearing(r)' => mem'[r].token \in Token)
      <3>1. NewToken(r) => mem'[r].token \in Token
        <4>1. NewToken(r) => mem'[r].token = <<r, mem[r].m>>
          BY <1>1, <1>2, NoMemFields DEF NewToken, Hold
        <4>2. QED
          BY <1>1, <1>2, <4>1, Names DEF Carries, Filing
      <3>2. Ensure(r) => \/ mem'[r] = mem[r] /\ pc'[r] = "token"
                         \/ mem'[r].token \in Token
        <4>1. Ensure(r) => mem[r].t \in Tid
          BY <1>1, <1>2, MailEffects, KindsAt, Names DEF Carries, Filing, Replying, BoxType, Syncing
        <4>2. Ensure(r) => \/ mem'[r] = mem[r] /\ pc'[r] = "token"
                           \/ ticket[mem[r].t].token # None /\ mem'[r].token = ticket[mem[r].t].token
          <5>1. Ensure(r) => \/ mem'[r] = mem[r] /\ pc'[r] = "token"
                             \/ LET k == ticket[mem[r].t].token IN
                                k # None /\ mem'[r] \in {[mem[r] EXCEPT !.token = k], [[mem[r] EXCEPT !.token = k] EXCEPT !.next = "send"]}
            BY <1>1, <1>2 DEF Ensure, Fresh, Skip, Read, Hold, Go
          <5>2. QED
            BY <1>1, <5>1, NoMemFields
        <4>3. QED
          BY <1>1, <1>2, <4>1, <4>2 DEF RowType
      <3>3. mem'[r].token = mem[r].token \/ Ensure(r) \/ NewToken(r)
        BY <1>4, MemWriters
      <3>4. Ensure(r) /\ pc'[r] = "token" => ~Bearing(r)'
        BY DEF Bearing
      <3>5. QED
        BY <1>1, <1>2, <3>1, <3>2, <3>3, <3>4, MailWalk DEF Carries, Filing
    <2>3. mem'[r].conn.cursor \in Nat \cup {None} /\ (Bound(r)' \/ pc'[r] \in {"revoke", "wipe", "write"} => mem'[r].acc \in Account)
      <3>1. CASE SyncStart(r) \/ PollNext(r) \/ ReplyRead(r) \/ FindActive(r)
        <4>1. \/ mem'[r] = mem[r] /\ ~Bound(r)' /\ pc'[r] \notin {"revoke", "wipe", "write"}
              \/ \E a \in Account : mem'[r].acc = a /\ mem'[r].conn = conn[a]
          <5>1. SyncStart(r) \/ FindActive(r) => \E a \in Account : mem'[r] = [mem[r] EXCEPT !.acc = a, !.conn = conn[a]]
            BY <1>1, <1>2, <1>4, Zenon DEF SyncStart, FindActive, Reject, Read, Hold, Go, Rejected, Active
          <5>2. PollNext(r) => \/ mem'[r] = mem[r] /\ pc'[r] = "done"
                               \/ \E a \in Account : mem'[r] = [mem[r] EXCEPT !.left = @ \ {a}, !.acc = a, !.conn = conn[a]]
            BY <1>1, <1>2, Zenon DEF PollNext, Skip, Read, Hold, Go, Carries
          <5>3. ReplyRead(r) => \/ mem'[r] = mem[r] /\ pc'[r] = "done"
                                \/ \E a \in Account : mem'[r] = [mem[r] EXCEPT !.acc = a, !.conn = conn[a], !.t = On(r), !.thread = ticket[On(r)].thread]
            BY <1>1, <1>2, Zenon DEF ReplyRead, Skip, Read, Hold, Go, Active
          <5>4. pc'[r] = "done" => ~Bound(r)' /\ pc'[r] \notin {"revoke", "wipe", "write"}
            BY DEF Bound, Ended
          <5>5. QED
            BY <1>1, <3>1, <5>1, <5>2, <5>3, <5>4, NoMemFields, Zenon
        <4>2. QED
          BY <1>1, <1>2, <4>1 DEF Carries, Filing, RowType
      <3>2. CASE KeepToken(r)
        <4>1. mem'[r].conn = conn'[mem[r].acc] /\ mem'[r].acc = mem[r].acc /\ pc[r] = "keep" /\ pc'[r] \in {"send", "list"}
          BY <1>1, <1>2, <3>2, MemEffects, MailEffects, NoMemFields DEF KeepToken, Hold
        <4>2. Bound(r)
          BY <3>2, <4>1, MailEffects DEF Bound, Ended, Syncing
        <4>3. RowType'
          BY RowTypeStep
        <4>4. QED
          BY <1>1, <1>2, <4>1, <4>2, <4>3 DEF Carries, Filing, RowType
      <3>3. CASE ~SyncStart(r) /\ ~PollNext(r) /\ ~ReplyRead(r) /\ ~FindActive(r) /\ ~KeepToken(r)
        <4>1. mem'[r].acc = mem[r].acc /\ mem'[r].conn = mem[r].conn
          BY <1>4, <3>3, MemWriters
        <4>2. Bound(r)' => Bound(r)
          BY <3>3, MailWalk
        <4>3. pc'[r] \in {"revoke", "wipe", "write"} => pc[r] = "revoke"
          BY <3>3, MailLeads, MailEffects
        <4>4. QED
          BY <1>1, <1>2, <4>1, <4>2, <4>3 DEF Carries, Filing
      <3>4. QED
        BY <3>1, <3>2, <3>3
    <2>4. mem'[r].m \in 0..MaxMail /\ mem'[r].ids \subseteq Mails /\ mem'[r].left \subseteq Account
      <3>1. mem[r].m \in 0..MaxMail /\ mem[r].ids \subseteq Mails /\ mem[r].left \subseteq Account
        BY <1>1, <1>2 DEF Carries, Filing
      <3>2. NextMail(r) => mem'[r].m \in 0..MaxMail /\ mem'[r].ids \subseteq Mails
        <4>1. NextMail(r) => mem'[r] = mem[r] \/ \E m \in mem[r].ids : mem'[r] = [mem[r] EXCEPT !.ids = @ \ {m}, !.m = m]
          BY <1>1, <1>2, Zenon DEF NextMail, Skip, Read, Hold
        <4>2. NextMail(r) => mem'[r] = mem[r] \/ \E m \in mem[r].ids : mem'[r].ids = mem[r].ids \ {m} /\ mem'[r].m = m
          BY <1>1, <4>1, NoMemFields, Zenon
        <4>3. Mails \subseteq 0..MaxMail
          BY <1>1, <1>2, Names DEF BoxType
        <4>4. QED
          BY <3>1, <4>2, <4>3
      <3>3. ListNew(r) => mem'[r].ids \subseteq Mails
        <4>1. ListNew(r) => \E ids \in SUBSET Mails : mem'[r] = [mem[r] EXCEPT !.ids = ids]
          BY <1>1, <1>2 DEF ListNew, NewMails, Hold
        <4>2. QED
          BY <1>1, <4>1, NoMemFields
      <3>4. PollStart(r) \/ PollNext(r) => mem'[r].left \subseteq Account
        <4>1. PollStart(r) => mem'[r] = mem[r] \/ mem'[r] = [mem[r] EXCEPT !.left = Active]
          BY <1>1, <1>2 DEF PollStart, Skip, Read, Hold
        <4>2. PollNext(r) => mem'[r] = mem[r] \/ \E a : mem'[r] = [mem[r] EXCEPT !.left = @ \ {a}, !.acc = a, !.conn = conn[a]]
          BY <1>1, <1>2, Zenon DEF PollNext, Skip, Read, Hold
        <4>3. Active \subseteq Account
          BY DEF Active
        <4>4. QED
          BY <1>1, <3>1, <4>1, <4>2, <4>3, NoMemFields, Zenon
      <3>5. QED
        BY <1>4, <3>1, <3>2, <3>3, <3>4, MemWriters
    <2>5. /\ Kind(r) = "reply" => On(r) \in Tid
          /\ Kind(r) = "callback" => Opt(r) \in Account
      BY <1>1, <1>2 DEF Carries, Filing
    <2>6. /\ pc'[r] \in Matching \cup {"record"} => mem'[r].m \in Mails
          /\ Kind(r) \in Syncing /\ (pc'[r] = "files" \/ Replying(r)') => mem'[r].m \in Mails
      <3>1. NextMail(r) => pc'[r] \in {"profile", "loop"} \/ mem'[r].m \in Mails
        <4>1. NextMail(r) => pc'[r] = "profile" \/ \E m \in mem[r].ids : mem'[r] = [mem[r] EXCEPT !.ids = @ \ {m}, !.m = m]
          BY <1>1, <1>2, Zenon DEF NextMail, Skip, Read, Hold, Go
        <4>2. NextMail(r) => pc'[r] = "profile" \/ \E m \in mem[r].ids : mem'[r].m = m
          BY <1>1, <4>1, NoMemFields, Zenon
        <4>3. QED
          BY <1>1, <1>2, <4>2 DEF Carries, Filing
      <3>2. CASE NextMail(r)
        BY <1>4, <3>1, <3>2, MailEffects DEF Matching, Replying
      <3>3. CASE ~NextMail(r)
        <4>1. mem'[r].m = mem[r].m
          BY <1>4, <3>3, MemWriters
        <4>2. pc'[r] \in Matching \cup {"record"} => pc[r] \in Matching \cup {"record"}
          BY <3>3, MailLeads, MailWalk, MailEffects DEF Matching
        <4>3. Kind(r) \in Syncing /\ Replying(r)' => Replying(r) \/ pc[r] \in Matching
          BY MailWalk, MailEffects DEF Matching, Syncing
        <4>4. pc'[r] = "files" => pc[r] = "append" \/ Replying(r)
          <5>1. pc'[r] = "files" /\ Refresh(r) => mem[r].next = "send" /\ pc[r] = "refresh"
            BY <1>1, <1>2 DEF Refresh, Skip, Read, Go, At, SyncEnd
          <5>2. Append(r) => pc[r] = "append"
            BY MailEffects
          <5>3. SendReply(r) \/ Adopt(r) => Replying(r)
            BY MailEffects DEF Replying
          <5>4. QED
            BY <5>1, <5>2, <5>3, MailLeads DEF Replying
        <4>5. QED
          BY <1>1, <1>2, <4>1, <4>2, <4>3, <4>4 DEF Carries, Filing, Matching
      <3>4. QED
        BY <3>2, <3>3
    <2>7. pc'[r] = "append" => mem'[r].t \in Tid
      <3>1. Match(r) => pc'[r] # "append" \/ mem'[r].t \in Tid
        <4>1. Match(r) => pc'[r] # "append" \/ \E t \in Tid : mem'[r] = [mem[r] EXCEPT !.t = t]
          BY <1>1, <1>2, Zenon DEF Match, Continues, Skip, Read, Hold, Go
        <4>2. QED
          BY <1>1, <4>1, NoMemFields, Zenon
      <3>2. QED
        BY <3>1, MailLeads
    <2>8. Replying(r)' => mem'[r].t = IF Kind(r) = "reply" THEN On(r) ELSE <<r, mem'[r].m>>
      <3>1. CASE OpenTicket(r)
        <4>1. Kind(r) # "reply"
          BY <3>1, MailEffects
        <4>2. mem'[r].t = <<r, mem[r].m>> /\ mem'[r].m = mem[r].m
          BY <1>1, <1>2, <3>1, NoMemFields DEF OpenTicket, Hold
        <4>3. QED
          BY <4>1, <4>2
      <3>2. CASE ReplyRead(r)
        <4>1. Kind(r) = "reply" /\ pc'[r] \in {"done", "ensure"}
          BY <3>2, MailEffects
        <4>2. pc'[r] = "done" \/ \E a : mem'[r] = [mem[r] EXCEPT !.acc = a, !.conn = conn[a], !.t = On(r), !.thread = ticket[On(r)].thread]
          BY <1>1, <1>2, <3>2, Zenon DEF ReplyRead, Skip, Read, Hold, Go
        <4>3. pc'[r] = "done" \/ mem'[r].t = On(r)
          BY <1>1, <4>2, NoMemFields, Zenon
        <4>4. QED
          BY <4>1, <4>3 DEF Replying
      <3>3. CASE ~OpenTicket(r) /\ ~ReplyRead(r)
        <4>1. Replying(r)' => Replying(r) /\ ~Match(r) /\ ~NextMail(r)
          BY <3>3, MailWalk, MailEffects DEF Replying
        <4>2. Replying(r)' => mem'[r].t = mem[r].t /\ mem'[r].m = mem[r].m
          BY <1>4, <3>3, <4>1, MemWriters
        <4>3. QED
          BY <1>1, <1>2, <4>1, <4>2 DEF Carries, Filing
      <3>4. QED
        BY <3>1, <3>2, <3>3
    <2>9. pc'[r] = "checkpoint" => mem'[r].head \in Nat
      <3>1. Profile(r) => mem'[r].head \in {Cardinality(Mails), 0}
        BY <1>1, <1>2, NoMemFields DEF Profile, Read, Hold
      <3>2. Cardinality(Mails) \in Nat
        BY <1>1, <1>2, FS_Interval DEF Mails, BoxType
      <3>3. QED
        BY <3>1, <3>2, MailLeads
    <2>10. QED
      BY <1>1, <1>2, <2>1, <2>2, <2>3, <2>4, <2>5, <2>6, <2>7, <2>8, <2>9 DEF Carries, Filing
  <1>5. QED
    BY <1>3, <1>4

\* Every step keeps the inbox typed.
LEMMA MailTypeStep ==
    ASSUME CoreInv, MailRoutes, MailType, [Next]_vars
    PROVE  MailType'
  <1>1. BoxType /\ RowType /\ \A q \in Req : Carries(q)
    BY DEF MailType
  <1>2. ASSUME NEW q \in Req, pc'[q] = pc[q], mem'[q] = mem[q], job'[q] = job[q], Mails \subseteq Mails'
        PROVE  Carries(q)'
    <2>1. Carries(q)
      BY <1>1
    <2>2. /\ Kind(q)' = Kind(q) /\ On(q)' = On(q) /\ Opt(q)' = Opt(q) /\ (Replying(q)' <=> Replying(q)) /\ (Bearing(q)' <=> Bearing(q))
          /\ (Bound(q)' <=> Bound(q))
      BY <1>2 DEF Kind, On, Opt, Replying, Bearing, Bound
    <2>3. QED
      BY <1>2, <2>1, <2>2 DEF Carries, Filing
  <1>3. CASE \E r \in Req : InboxStep(r)
    <2>1. PICK r \in Req : InboxStep(r)
      BY <1>3
    <2>2. box' = box /\ Mails' = Mails /\ BoxType'
      BY <1>1, <2>1, MailWriters DEF Mails, BoxType, Thread
    <2>3. \A q \in Req : Carries(q)'
      BY <1>2, <2>1, <2>2, CarriesStep, InboxStepsElsewhere DEF Elsewhere, Walks
    <2>4. QED
      BY <2>1, <2>2, <2>3, RowTypeStep DEF MailType
  <1>4. CASE \E r \in Req : Kind(r) \in Mailing /\ InboxFail(r)
    <2>1. PICK r \in Req : Kind(r) \in Mailing /\ InboxFail(r)
      BY <1>4
    <2>2. box' = box /\ Mails' = Mails /\ BoxType'
      BY <1>1, <2>1, MailFailure DEF Mails, BoxType, Thread
    <2>3. Carries(r)'
      <3>1. mem' = mem /\ Kind(r)' = Kind(r) /\ On(r)' = On(r) /\ Opt(r)' = Opt(r) /\ (Bound(r)' => Bound(r)) /\ ~Replying(r)' /\ ~Bearing(r)'
            /\ pc'[r] \notin Matching \cup {"record"}
        BY <2>1, FailureWalk, MailFailure
      <3>2. pc'[r] \in Ended \cup {"files", "loop", "next", "wipe"} /\ (pc'[r] = "files" => Replying(r))
        BY <2>1, MailFailure
      <3>3. pc'[r] # "checkpoint" /\ pc'[r] # "append" /\ pc'[r] # "revoke" /\ pc'[r] # "write"
        BY <3>2 DEF Ended
      <3>4. pc'[r] = "wipe" => mem[r].acc \in Account
        <4>1. pc'[r] = "wipe" => pc[r] = "revoke"
          BY <2>1 DEF InboxFail, Go, AfterSend, SyncEnd, CoreInv, ProcessType
        <4>2. QED
          BY <1>1, <4>1 DEF Carries, Filing
      <3>5. QED
        BY <1>1, <2>2, <3>1, <3>2, <3>3, <3>4 DEF Carries, Filing
    <2>4. \A q \in Req : Carries(q)'
      BY <1>2, <2>1, <2>2, <2>3, FailureWalk DEF Walks
    <2>5. QED
      BY <2>1, <2>2, <2>4, RowTypeStep DEF MailType
  <1>5. CASE Arrive
    <2>1. UNCHANGED <<pc, mem, job, row, conn, ticket, msgs, sent>>
      BY <1>5 DEF Arrive, Same
    <2>2. BoxType'
      <3>1. \A m \in Mails : Thread(m)' = Thread(m)
        BY <1>1, <1>5, MailArrives DEF Thread
      <3>2. box'[Next1].thread \in Mails' /\ Mails' \subseteq 1..MaxMail
        <4>1. box'[Next1].thread \in Mails' /\ Mails' = Mails \cup {Next1} /\ Next1 \in 1..MaxMail
          BY <1>1, <1>5, MailArrives
        <4>2. Mails \subseteq 1..MaxMail
          BY <1>1 DEF BoxType
        <4>3. Mails' \subseteq 1..MaxMail
          BY <4>1, <4>2
        <4>4. QED
          BY <4>1, <4>3
      <3>3. /\ box'[Next1].header \in Tid \cup {None} /\ box'[Next1].number \in Tid \cup {None}
            /\ box'[Next1].token \in Token \cup {None}
            /\ box'[Next1].token # None => box'[Next1].header = None
            /\ box'[Next1].number # None => box'[Next1].header = None /\ box'[Next1].token = None
        <4>1. \A s \in sent : s.t \in Tid /\ s.token \in Token
          BY <1>1 DEF RowType
        <4>2. QED
          BY <1>1, <1>5, <4>1, MailArrives DEF Signals
      <3>4. Cardinality(DOMAIN box)' \in Nat /\ DOMAIN box' = Mails' /\ Mails' = Mails \cup {Next1} /\ \A m \in Mails : box'[m] = box[m]
        BY <1>1, <1>5, MailArrives
      <3>5. ASSUME NEW m \in Mails'
            PROVE  /\ Thread(m)' \in Mails'
                   /\ box'[m].header \in Tid \cup {None} /\ box'[m].number \in Tid \cup {None} /\ box'[m].token \in Token \cup {None}
                   /\ box'[m].token # None => box'[m].header = None
                   /\ box'[m].number # None => box'[m].header = None /\ box'[m].token = None
        <4>1. CASE m = Next1
          BY <3>2, <3>3, <4>1 DEF Thread
        <4>2. CASE m \in Mails
          BY <1>1, <3>1, <3>4, <4>2 DEF BoxType
        <4>3. QED
          BY <3>4, <4>1, <4>2
      <3>6. QED
        BY <3>2, <3>4, <3>5 DEF BoxType, Thread
    <2>3. Mails \subseteq Mails'
      BY <1>1, <1>5, MailArrives
    <2>4. RowType'
      BY <1>1, <2>1, <2>3 DEF RowType, Kind
    <2>5. QED
      BY <1>2, <2>1, <2>2, <2>3, <2>4 DEF MailType
  <1>6. CASE GrowOld
    <2>1. UNCHANGED <<pc, mem, job, row, box, ticket, msgs, sent>>
          /\ (conn' = conn \/ \E a : conn' = [conn EXCEPT ![a].tokens = "stale"])
      BY <1>6 DEF GrowOld, Same
    <2>2. DOMAIN conn' = Account /\ \A a \in Account : DOMAIN conn'[a] = DOMAIN NoConn /\ conn'[a].cursor \in Nat \cup {None}
      BY <1>1, <2>1, RowFields DEF RowType
    <2>3. BoxType' /\ RowType' /\ Mails' = Mails
      BY <1>1, <2>1, <2>2 DEF RowType, BoxType, Mails, Kind, Thread
    <2>4. QED
      BY <1>2, <2>1, <2>3 DEF MailType
  <1>7. CASE MailAside
    <2>1. UNCHANGED <<row, box, conn, ticket, msgs, sent>>
      BY <1>7 DEF MailAside, mailbox, google
    <2>2. BoxType' /\ Mails' = Mails
      BY <1>1, <2>1 DEF BoxType, Mails, Thread
    <2>3. RowType'
      <3>1. \A r \in Req : pc[r] # "free" => pc'[r] # "free" /\ Kind(r)' = Kind(r)
        BY Lasting DEF Kind
      <3>2. QED
        BY <1>1, <2>1, <2>2, <3>1 DEF RowType
    <2>4. ASSUME NEW r \in Req PROVE Carries(r)'
      <3>1. Carries(r)
        BY <1>1
      <3>2. CASE pc'[r] = pc[r] /\ mem'[r] = mem[r] /\ job'[r] = job[r]
        BY <1>2, <2>2, <3>2
      <3>3. CASE pc[r] = "free" /\ pc'[r] = "start" /\ mem'[r] = mem[r] /\ \E a \in Areas : job'[r] \in a.jobs
        <4>1. /\ mem'[r] = NoMem /\ NoMem.m = 0 /\ NoMem.ids = {} /\ NoMem.left = {} /\ 0 \in 0..MaxMail
              /\ NoMem.thread = None /\ NoMem.token = None /\ NoMem.conn.cursor = None
          BY <3>3, Names DEF CoreInv, ProcessType, NoMem, NoConn
        <4>2. ~Bound(r)' /\ ~Replying(r)' /\ ~Bearing(r)'
          BY <3>3 DEF Bound, Replying, Bearing
        <4>3. (Kind(r)' = "reply" => On(r)' \in Tid) /\ (Kind(r)' = "callback" => Opt(r)' \in Account)
          BY <3>3, InboxAssumption DEF Kind, On, Opt, Tid, Req, Account
        <4>4. QED
          BY <2>2, <3>1, <3>3, <4>1, <4>2, <4>3 DEF Carries, Filing, Matching
      <3>4. CASE pc'[r] = "lost" /\ mem'[r] = mem[r] /\ job'[r] = job[r]
        <4>1. ~Bound(r)' /\ ~Replying(r)' /\ ~Bearing(r)'
          BY <3>4 DEF Bound, Replying, Bearing, Ended
        <4>2. QED
          BY <2>2, <3>1, <3>4, <4>1 DEF Carries, Filing, Matching, Kind, On, Opt
      <3>5. CASE /\ Kind(r) \notin Mailing /\ pc'[r] \notin {"free"} \cup MailSteps
                 /\ job'[r] = job[r] /\ mem'[r].next \notin {"send", "list"}
        <4>1. ~Bound(r)' /\ ~Replying(r)' /\ ~Bearing(r)'
          BY <3>5 DEF Bound, Replying, Bearing, MailSteps, Sending, Walking, Mailing, Kind, Syncing
        <4>2. /\ Kind(r)' = Kind(r) /\ Kind(r) \notin Syncing \cup {"reply", "callback"}
              /\ pc'[r] \notin {"revoke", "wipe", "write", "record", "append", "files", "checkpoint"} \cup Matching
          BY <3>5 DEF Kind, MailSteps, Sending, Walking, Mailing, Syncing, Matching
        <4>3. QED
          BY <3>5, <4>1, <4>2 DEF Carries, Filing
      <3>6. QED
        BY <1>7, <3>2, <3>3, <3>4, <3>5 DEF MailAside
    <2>5. QED
      BY <2>2, <2>3, <2>4 DEF MailType
  <1>8. QED
    BY <1>3, <1>4, <1>5, <1>6, <1>7, MailStepsOf

-----------------------------------------------------------------------------
(* Every step keeps the connections *)

\* Who is at a step of the inbox after somebody else's step was there before.
LEMMA AsideWalk ==
    ASSUME CoreInv, MailRoutes, MailAside, NEW q \in Req, Bound(q)' \/ pc'[q] \in MailSteps
    PROVE  pc'[q] = pc[q] /\ mem'[q] = mem[q] /\ job'[q] = job[q] /\ (Bound(q)' <=> Bound(q))
  <1>1. CASE pc'[q] = pc[q] /\ mem'[q] = mem[q] /\ job'[q] = job[q]
    BY <1>1 DEF Bound, Kind
  <1>2. CASE pc'[q] = "start" \/ pc'[q] = "lost"
    BY <1>2 DEF Bound, Ended, MailSteps, Sending, Walking
  <1>3. CASE Kind(q) \notin Mailing /\ pc'[q] \notin {"free"} \cup MailSteps /\ job'[q] = job[q]
    BY <1>3 DEF Bound, Kind, Mailing, Syncing
  <1>4. QED
    BY <1>1, <1>2, <1>3 DEF MailAside

\* What is noted about who overlapped stays so.
LEMMA NotedLasts ==
    ASSUME CoreInv, [Next]_vars
    PROVE  /\ \A r \in Req : Dropped(r) => Dropped(r)'
           /\ \A r \in Req : Overlapped(r) => Overlapped(r)'
           /\ TwoCallbacks => TwoCallbacks'
           /\ \A r \in Req : Kind(r) # "none" => Kind(r)' = Kind(r) /\ On(r)' = On(r) /\ Opt(r)' = Opt(r)
  <1>1. met \subseteq met' /\ \A r \in Req : pc[r] # "free" => job'[r] = job[r]
    BY Lasting
  <1>2. \A r \in Req : Kind(r) # "none" => pc[r] # "free"
    BY DEF CoreInv, ProcessType
  <1>3. \A r \in Req : Kind(r) # "none" => Kind(r)' = Kind(r) /\ On(r)' = On(r) /\ Opt(r)' = Opt(r)
    BY <1>1, <1>2 DEF Kind, On, Opt
  <1>4. QED
    BY <1>1, <1>3 DEF Dropped, Overlapped, TwoCallbacks

\* A token that grows old is that of an active connection.
LEMMA Ageing ==
    ASSUME RowType, Arrive \/ GrowOld, NEW a \in Account
    PROVE  conn'[a] = conn[a] \/ (conn[a].active /\ Rekeyed(conn[a], conn'[a]))
  <1>1. CASE conn' = conn
    BY <1>1
  <1>2. CASE \E b \in Active : conn' = [conn EXCEPT ![b].tokens = "stale"]
    <2>1. PICK b \in Active : conn' = [conn EXCEPT ![b].tokens = "stale"]
      BY <1>2
    <2>2. DOMAIN conn = Account /\ DOMAIN conn[a] = DOMAIN NoConn
      BY DEF RowType
    <2>3. conn'[a] = conn[a] \/ (a = b /\ conn'[a] = [conn[a] EXCEPT !.tokens = "stale"])
      BY <2>1, <2>2
    <2>4. conn'[a] = [conn[a] EXCEPT !.tokens = "stale"] => Rekeyed(conn[a], conn'[a])
      BY <2>2, ConnShapes, Zenon
    <2>5. QED
      BY <2>1, <2>3, <2>4 DEF Active
  <1>3. QED
    BY <1>1, <1>2 DEF Arrive, GrowOld

\* Every step keeps those that are bound to a connection bound to an active one.
LEMMA BoundStep ==
    ASSUME CoreInv, MailRoutes, MailType, BoundInv, [Next]_vars
    PROVE  BoundInv'
  <1>1. SUFFICES ASSUME NEW q \in Req, Bound(q)'
                 PROVE  conn'[mem'[q].acc].active \/ Dropped(q)'
    BY DEF BoundInv
  <1>2. /\ DOMAIN conn = Account /\ \A a \in Account : DOMAIN conn[a] = DOMAIN NoConn
        /\ \A r \in Req : Bound(r) => mem[r].acc \in Account
        /\ DOMAIN pc = Req /\ DOMAIN mem = Req /\ \A r \in Req : DOMAIN mem[r] = DOMAIN NoMem
    BY DEF MailType, RowType, Carries, CoreInv, ProcessType
  <1>3. Bound(q) => conn[mem[q].acc].active \/ Dropped(q)'
    BY NotedLasts DEF BoundInv
  <1>4. CASE \E r \in Req : InboxStep(r) \/ (Kind(r) \in Mailing /\ InboxFail(r))
    <2>1. PICK r \in Req : InboxStep(r) \/ (Kind(r) \in Mailing /\ InboxFail(r))
      BY <1>4
    <2>2. Walks(r)
      BY <2>1, InboxStepsElsewhere, FailureWalk DEF Elsewhere
    <2>3. \A a \in Account : conn[a].active => conn'[a].active \/ (Disconnect(r) /\ a = mem[r].acc)
      BY <1>2, <2>1, ConnWrites DEF Marked, Revived, Dropt, Rekeyed, Moved
    <2>4. CASE Bound(q) /\ mem'[q].acc = mem[q].acc
      <3>1. Disconnect(r) => Dropped(q)'
        <4>1. SUFFICES ASSUME Disconnect(r) PROVE Dropped(q)'
          OBVIOUS
        <4>2. Kind(r) = "disconnect" /\ Kind(q) # "disconnect" /\ pc[r] \notin Ended /\ pc[q] \notin Ended
          BY <2>2, <2>4, <4>1, MailEffects DEF Bound, Syncing, Walks
        <4>3. {r, q} \in met
          BY <4>2, Meeting
        <4>4. QED
          BY <4>2, <4>3, NotedLasts DEF Dropped
      <3>2. QED
        BY <1>2, <1>3, <2>3, <2>4, <3>1
    <2>5. CASE ~(Bound(q) /\ mem'[q].acc = mem[q].acc)
      <3>1. q = r /\ InboxStep(r)
        <4>1. q # r => Bound(q) /\ mem'[q] = mem[q]
          BY <1>1, <2>2 DEF Walks, Bound, Kind
        <4>2. InboxFail(r) /\ Kind(r) \in Mailing => mem' = mem /\ (Bound(r)' => Bound(r))
          BY FailureWalk, MailFailure
        <4>3. QED
          BY <1>1, <2>1, <2>5, <4>1, <4>2
      <3>2. ~Rejected(r) /\ pc'[r] # "done" /\ pc'[r] # "next"
        BY <1>1, <3>1 DEF Bound, Ended, Rejected
      <3>3. SyncStart(r) \/ PollNext(r) \/ ReplyRead(r)
        <4>1. mem'[r].acc = mem[r].acc \/ FindActive(r) \/ SyncStart(r) \/ PollNext(r) \/ ReplyRead(r)
          BY <3>1, <3>2, MemWriters
        <4>2. Bound(r) \/ SyncStart(r) \/ PollNext(r) \/ ReplyRead(r)
          BY <1>1, <3>1, MailWalk
        <4>3. ~(FindActive(r) /\ Bound(r))
          BY MailEffects DEF Bound
        <4>4. QED
          BY <2>5, <3>1, <4>1, <4>2, <4>3
      <3>4. conn' = conn /\ \E a : conn[a].active /\ mem'[r].acc = a
        <4>1. conn' = conn
          BY <3>3, MailEffects
        <4>2. SyncStart(r) => \E a : conn[a].active /\ mem'[r] = [mem[r] EXCEPT !.acc = a, !.conn = conn[a]]
          BY <1>2, <3>2, Zenon DEF SyncStart, Reject, Read, Hold, Go, Rejected, Active
        <4>3. PollNext(r) => \E a : conn[a].active /\ mem'[r] = [mem[r] EXCEPT !.left = @ \ {a}, !.acc = a, !.conn = conn[a]]
          BY <1>2, <3>2, Zenon DEF PollNext, Skip, Read, Hold, Go
        <4>4. ReplyRead(r) => \E a : conn[a].active /\ mem'[r] = [mem[r] EXCEPT !.acc = a, !.conn = conn[a], !.t = On(r), !.thread = ticket[On(r)].thread]
          BY <1>2, <3>2, Zenon DEF ReplyRead, Skip, Read, Hold, Go, Active
        <4>5. QED
          BY <1>2, <3>3, <4>1, <4>2, <4>3, <4>4, NoMemFields, Zenon
      <3>5. QED
        BY <3>1, <3>4
    <2>6. QED
      BY <2>4, <2>5
  <1>5. CASE Arrive \/ GrowOld
    <2>1. UNCHANGED <<pc, mem, job>> /\ RowType
      BY <1>5 DEF Arrive, GrowOld, Same, MailType
    <2>2. Bound(q) /\ mem'[q].acc \in Account
      BY <1>1, <1>2, <2>1 DEF Bound, Kind
    <2>3. conn'[mem[q].acc].active = conn[mem[q].acc].active
      BY <1>5, <2>1, <2>2, Ageing DEF Rekeyed
    <2>4. QED
      BY <1>3, <2>1, <2>2, <2>3
  <1>6. CASE MailAside
    BY <1>1, <1>3, <1>6, AsideWalk DEF MailAside, mailbox
  <1>7. QED
    BY <1>4, <1>5, <1>6, MailStepsOf

\* Every step leaves what is not active wiped, but for what a sync or a reply wrote beside a disconnect.
LEMMA WipedStep ==
    ASSUME CoreInv, MailRoutes, MailType, BoundInv, WipedInv, [Next]_vars
    PROVE  WipedInv'
  <1>1. SUFFICES ASSUME NEW a \in Account, conn'[a].known, ~conn'[a].active, conn'[a].tokens # "wiped",
                        \A q \in Req : Kind(q) \in Syncing \cup {"reply"} => ~Dropped(q)
                 PROVE  FALSE
    <2>1. \A q \in Req : Kind(q) \in Syncing \cup {"reply"} /\ Dropped(q) => Kind(q)' \in Syncing \cup {"reply"} /\ Dropped(q)'
      BY NotedLasts DEF Syncing
    <2>2. QED
      BY <2>1 DEF WipedInv
  <1>2. conn[a].known /\ ~conn[a].active => conn[a].tokens = "wiped"
    BY <1>1 DEF WipedInv
  <1>3. /\ RowType /\ DOMAIN conn = Account /\ \A b \in Account : DOMAIN conn[b] = DOMAIN NoConn
    BY DEF MailType, RowType
  <1>4. CASE \E r \in Req : InboxStep(r) \/ (Kind(r) \in Mailing /\ InboxFail(r))
    <2>1. PICK r \in Req : InboxStep(r) \/ (Kind(r) \in Mailing /\ InboxFail(r))
      BY <1>4
    <2>2. KeepToken(r) /\ a = mem[r].acc => conn[a].active
      <3>1. KeepToken(r) => Bound(r) /\ Kind(r) \in Syncing \cup {"reply"}
        <4>1. KeepToken(r) => pc[r] = "keep" /\ Kind(r) \in {"sync", "poll", "reply"}
          BY MailEffects
        <4>2. QED
          BY <4>1 DEF Bound, Ended, Syncing
      <3>2. QED
        BY <1>1, <3>1 DEF BoundInv
    <2>3. QED
      BY <1>1, <1>2, <1>3, <2>1, <2>2, ConnWrites DEF Marked, Revived, Dropt, Rekeyed, Moved
  <1>5. CASE Arrive \/ GrowOld
    BY <1>1, <1>2, <1>3, <1>5, Ageing DEF Rekeyed
  <1>6. CASE MailAside
    BY <1>1, <1>2, <1>6 DEF MailAside, mailbox
  <1>7. QED
    BY <1>4, <1>5, <1>6, MailStepsOf

\* Every step leaves one account active, but for what callbacks that overlap do.
LEMMA OneStep ==
    ASSUME CoreInv, MailRoutes, MailType, OneInv, [Next]_vars
    PROVE  OneInv'
  <1>1. CASE TwoCallbacks
    BY <1>1, NotedLasts DEF OneInv
  <1>2. CASE ~TwoCallbacks
    <2>1. /\ \A a, b \in Active : a = b
          /\ \A r \in Req : pc[r] = "upsert" => Active \subseteq {Opt(r)}
      BY <1>2 DEF OneInv
    <2>2. RowType /\ DOMAIN conn = Account /\ \A b \in Account : DOMAIN conn[b] = DOMAIN NoConn
      BY DEF MailType, RowType
    <2>3. SUFFICES Active' \subseteq Active \/ (\E r \in Req : Upsert(r) /\ Active' \subseteq {Opt(r)} /\ Walks(r))
      <3>1. CASE Active' \subseteq Active
        <4>1. ASSUME NEW q \in Req, pc'[q] = "upsert" PROVE Active' \subseteq {Opt(q)'}
          <5>1. CASE pc[q] = "upsert" /\ job'[q] = job[q]
            BY <2>1, <3>1, <5>1 DEF Opt
          <5>2. CASE Check(q)
            <6>1. Active \subseteq {Opt(q)}
              BY <4>1, <5>2 DEF Check, Reject, Read, Go, CoreInv, ProcessType
            <6>2. Opt(q)' = Opt(q)
              BY <5>2 DEF Check, Skip, Reject, Read, Same, Opt
            <6>3. QED
              BY <3>1, <6>1, <6>2
          <5>3. (pc[q] = "upsert" /\ job'[q] = job[q]) \/ Check(q)
            <6>1. CASE \E r \in Req : InboxStep(r)
              <7>1. PICK r \in Req : InboxStep(r)
                BY <6>1
              <7>2. Walks(r)
                BY <7>1, InboxStepsElsewhere DEF Elsewhere
              <7>3. QED
                BY <4>1, <7>1, <7>2, MailLeads DEF Walks
            <6>2. CASE \E r \in Req : Kind(r) \in Mailing /\ InboxFail(r)
              <7>1. PICK r \in Req : Kind(r) \in Mailing /\ InboxFail(r)
                BY <6>2
              <7>2. Walks(r) /\ pc'[r] \in Ended \cup {"files", "loop", "next", "wipe"}
                BY <7>1, FailureWalk, MailFailure
              <7>3. QED
                BY <4>1, <7>2 DEF Walks, Ended
            <6>3. CASE Arrive \/ GrowOld
              BY <4>1, <6>3 DEF Arrive, GrowOld, Same
            <6>4. CASE MailAside
              BY <4>1, <6>4, AsideWalk DEF MailSteps
            <6>5. QED
              BY <6>1, <6>2, <6>3, <6>4, MailStepsOf
          <5>4. QED
            BY <5>1, <5>2, <5>3
        <4>2. QED
          BY <2>1, <3>1, <4>1 DEF OneInv
      <3>2. CASE \E r \in Req : Upsert(r) /\ Active' \subseteq {Opt(r)} /\ Walks(r)
        <4>1. PICK r \in Req : Upsert(r) /\ Active' \subseteq {Opt(r)} /\ Walks(r)
          BY <3>2
        <4>2. pc[r] = "upsert" /\ Kind(r) = "callback" /\ pc'[r] = "done"
          BY <4>1, MailEffects
        <4>3. ASSUME NEW q \in Req, pc'[q] = "upsert" PROVE FALSE
          <5>1. q # r /\ pc[q] = "upsert"
            BY <4>1, <4>2, <4>3 DEF Walks
          <5>2. Kind(q) = "callback"
            BY <5>1 DEF MailRoutes, Serves, Ended, MailSteps, Syncing, Sending, Walking
          <5>3. {q, r} \in met
            BY <4>1, <5>1, Meeting DEF Walks, Ended
          <5>4. QED
            BY <1>2, <4>2, <5>1, <5>2, <5>3 DEF TwoCallbacks
        <4>4. QED
          BY <4>1, <4>3 DEF OneInv
      <3>3. QED
        BY <2>3, <3>1, <3>2
    <2>4. CASE \E r \in Req : InboxStep(r) \/ (Kind(r) \in Mailing /\ InboxFail(r))
      <3>1. PICK r \in Req : InboxStep(r) \/ (Kind(r) \in Mailing /\ InboxFail(r))
        BY <2>4
      <3>2. Walks(r) /\ (Upsert(r) => pc[r] = "upsert")
        BY <3>1, InboxStepsElsewhere, FailureWalk, MailEffects DEF Elsewhere
      <3>3. \A a \in Account : conn'[a].active => conn[a].active \/ (Upsert(r) /\ a = Opt(r))
        BY <2>2, <3>1, ConnWrites DEF Marked, Revived, Dropt, Rekeyed, Moved
      <3>4. Active' \subseteq Active \cup {a \in {Opt(r)} : Upsert(r)}
        BY <3>3 DEF Active
      <3>5. Upsert(r) => Active \subseteq {Opt(r)}
        BY <2>1, <3>2
      <3>6. CASE Upsert(r)
        BY <3>2, <3>4, <3>5, <3>6
      <3>7. CASE ~Upsert(r)
        BY <3>4, <3>7
      <3>8. QED
        BY <3>6, <3>7
    <2>5. CASE Arrive \/ GrowOld
      BY <2>2, <2>5, Ageing DEF Rekeyed, Active
    <2>6. CASE MailAside
      BY <2>6 DEF MailAside, mailbox, Active
    <2>7. QED
      BY <2>4, <2>5, <2>6, MailStepsOf
  <1>3. QED
    BY <1>1, <1>2

\* Every step keeps the states used by one callback, or by callbacks that overlap.
LEMMA UsedStep ==
    ASSUME CoreInv, MailRoutes, UsedInv, [Next]_vars
    PROVE  UsedInv'
  <1>1. DOMAIN pc = Req /\ met \subseteq met' /\ \A r \in Req : pc[r] # "free" => job'[r] = job[r]
    BY Lasting DEF CoreInv, ProcessType
  <1>2. \A r \in Req : Kind(r) = "callback" /\ pc[r] \notin {"free", "start", "del"} => pc'[r] \notin {"free", "start", "del"}
    <2>1. SUFFICES ASSUME NEW q \in Req, Kind(q) = "callback", pc[q] \notin {"free", "start", "del"}
                   PROVE  pc'[q] \notin {"free", "start", "del"}
      OBVIOUS
    <2>2. CASE \E r \in Req : InboxStep(r)
      <3>1. PICK r \in Req : InboxStep(r)
        BY <2>2
      <3>2. Walks(r) /\ (pc'[r] \in Ended \/ Serves(Kind(r), pc'[r])) /\ (pc'[r] = "del" => pc[r] = "start")
        BY <3>1, InboxStepsElsewhere, MailGoesOn, MailLeads, MailEffects DEF Elsewhere
      <3>3. pc'[r] # "start" /\ pc'[r] # "free"
        BY <3>2 DEF Walks, Ended, Serves, Sending, Walking
      <3>4. QED
        BY <2>1, <3>2, <3>3 DEF Walks
    <2>3. CASE \E r \in Req : Kind(r) \in Mailing /\ InboxFail(r)
      <3>1. PICK r \in Req : Kind(r) \in Mailing /\ InboxFail(r)
        BY <2>3
      <3>2. Walks(r) /\ pc'[r] \in Ended \cup {"files", "loop", "next", "wipe"}
        BY <3>1, FailureWalk, MailFailure
      <3>3. QED
        BY <2>1, <3>2 DEF Walks, Ended
    <2>4. CASE Arrive \/ GrowOld
      BY <2>1, <2>4 DEF Arrive, GrowOld, Same
    <2>5. CASE MailAside
      BY <2>1, <2>5 DEF MailAside, Mailing
    <2>6. QED
      BY <2>2, <2>3, <2>4, <2>5, MailStepsOf
  <1>3. ASSUME NEW q \in Req, pc'[q] = "del"
        PROVE  (pc[q] = "del" /\ job'[q] = job[q]) \/ (StateGet(q) /\ On(q) \in states /\ job'[q] = job[q])
    <2>1. CASE \E r \in Req : InboxStep(r)
      <3>1. PICK r \in Req : InboxStep(r)
        BY <2>1
      <3>2. Walks(r) /\ (pc'[r] = "del" => StateGet(r))
        BY <3>1, InboxStepsElsewhere, MailLeads DEF Elsewhere
      <3>3. StateGet(q) => On(q) \in states
        BY <1>1, <1>3 DEF StateGet, Reject, Read, Go
      <3>4. QED
        BY <1>3, <3>2, <3>3 DEF Walks
    <2>2. CASE \E r \in Req : Kind(r) \in Mailing /\ InboxFail(r)
      <3>1. PICK r \in Req : Kind(r) \in Mailing /\ InboxFail(r)
        BY <2>2
      <3>2. Walks(r) /\ pc'[r] \in Ended \cup {"files", "loop", "next", "wipe"}
        BY <3>1, FailureWalk, MailFailure
      <3>3. QED
        BY <1>3, <3>2 DEF Walks, Ended
    <2>3. CASE Arrive \/ GrowOld
      BY <1>3, <2>3 DEF Arrive, GrowOld, Same
    <2>4. CASE MailAside
      BY <1>3, <2>4, AsideWalk DEF MailSteps
    <2>5. QED
      BY <2>1, <2>2, <2>3, <2>4, MailStepsOf
  <1>4. CASE used' = used /\ states' = states
    <2>1. ASSUME NEW u \in used, NEW r \in Req, pc'[r] = "del", On(r)' = u[1] PROVE {u[2], r} \in met'
      <3>1. On(r)' = On(r)
        BY <1>3, <2>1 DEF On
      <3>2. pc[r] = "del"
        BY <1>3, <2>1, <3>1 DEF UsedInv
      <3>3. QED
        BY <1>1, <2>1, <3>1, <3>2 DEF UsedInv
    <2>2. \A u \in used : /\ u[2] \in Req /\ u = <<On(u[2])', u[2]>> /\ Kind(u[2])' = "callback"
                          /\ pc'[u[2]] \notin {"free", "start", "del"} /\ u[1] \notin states'
      BY <1>1, <1>2, <1>4 DEF UsedInv, On, Kind
    <2>3. \A u, v \in used : u[1] = v[1] => u = v \/ {u[2], v[2]} \in met'
      BY <1>1 DEF UsedInv
    <2>4. QED
      BY <1>4, <2>1, <2>2, <2>3 DEF UsedInv
  <1>5. CASE \E s \in Req : StateDel(s)
    <2>1. PICK s \in Req : StateDel(s)
      BY <1>5
    <2>2. /\ pc[s] = "del" /\ pc'[s] = "exchange" /\ Kind(s) = "callback" /\ Walks(s)
          /\ used' = used \cup {<<On(s), s>>} /\ states' = states \ {On(s)} /\ met' = met /\ job' = job
      BY <2>1, MailEffects, InboxStepsElsewhere DEF StateDel, Same, Elsewhere, InboxStep
    <2>3. \A r \in Req : Kind(r)' = Kind(r) /\ On(r)' = On(r)
      BY <2>2 DEF Kind, On
    <2>4. \A r \in Req : pc'[r] = "del" => r # s /\ pc[r] = "del"
      BY <2>2 DEF Walks
    <2>5. \A u \in used : /\ u[2] \in Req /\ u = <<On(u[2])', u[2]>> /\ Kind(u[2])' = "callback"
                          /\ pc'[u[2]] \notin {"free", "start", "del"} /\ u[1] \notin states'
                          /\ \A r \in Req : pc'[r] = "del" /\ On(r)' = u[1] => {u[2], r} \in met'
      BY <1>2, <2>2, <2>3, <2>4 DEF UsedInv
    <2>6. \A r \in Req : pc'[r] = "del" => {s, r} \in met'
      BY <2>2, <2>4, Meeting DEF Ended
    <2>7. \A u \in used : u[1] = On(s) => {u[2], s} \in met'
      BY <2>2 DEF UsedInv
    <2>8. \A u, v \in used : u[1] = v[1] => u = v \/ {u[2], v[2]} \in met'
      BY <2>2 DEF UsedInv
    <2>9. \A p, q : {p, q} = {q, p}
      OBVIOUS
    <2>10. <<On(s), s>>[1] = On(s) /\ <<On(s), s>>[2] = s
      OBVIOUS
    <2>11. \A u, v \in used' : u[1] = v[1] => u = v \/ {u[2], v[2]} \in met'
      BY <2>2, <2>7, <2>8, <2>9, <2>10
    <2>12. \A u \in used' : /\ u[2] \in Req /\ u = <<On(u[2])', u[2]>> /\ Kind(u[2])' = "callback"
                            /\ pc'[u[2]] \notin {"free", "start", "del"} /\ u[1] \notin states'
                            /\ \A r \in Req : pc'[r] = "del" /\ On(r)' = u[1] => {u[2], r} \in met'
      BY <2>2, <2>3, <2>5, <2>6, <2>10
    <2>13. QED
      BY <2>11, <2>12 DEF UsedInv
  <1>6. (used' = used /\ states' = states) \/ \E s \in Req : StateDel(s)
    <2>1. CASE \E r \in Req : InboxStep(r)
      BY <2>1, MailWriters
    <2>2. CASE \E r \in Req : Kind(r) \in Mailing /\ InboxFail(r)
      BY <2>2, MailFailure, Zenon
    <2>3. CASE Arrive \/ GrowOld \/ MailAside
      BY <2>3 DEF Arrive, GrowOld, MailAside, mailbox
    <2>4. QED
      BY <2>1, <2>2, <2>3, MailStepsOf
  <1>7. QED
    BY <1>4, <1>5, <1>6

-----------------------------------------------------------------------------
(* Every step keeps the mails filed once *)

\* The message a process stores for its mail.
Msg(r, t) == [on |-> t, mail |-> mem[r].m, of |-> r]

\* A message is stored on the ticket of its mail, once.
LEMMA MsgWrites ==
    ASSUME CoreInv, MailRoutes, NEW r \in Req, InboxStep(r)
    PROVE  \/ msgs' = msgs /\ ~Append(r) /\ ~OpenTicket(r)
           \/ Append(r) /\ msgs' = msgs \cup {Msg(r, mem[r].t)} /\ mem'[r] = mem[r]
           \/ OpenTicket(r) /\ msgs' = msgs \cup {Msg(r, <<r, mem[r].m>>)} /\ mem'[r].m = mem[r].m
  BY MailWriters, MemEffects, Zenon DEF Append, OpenTicket, Msg

\* Who has filed a mail is at it until its files are stored.
LEMMA FilingWalk ==
    ASSUME CoreInv, MailRoutes, NEW r \in Req, InboxStep(r), Filing(r)
    PROVE  FilesOf(r) \/ (Filing(r)' /\ mem'[r].m = mem[r].m)
  <1>1. DOMAIN pc = Req /\ DOMAIN mem = Req /\ DOMAIN mem[r] = DOMAIN NoMem /\ Kind(r)' = Kind(r) /\ Kind(r) \in Syncing
    BY MailWalk DEF CoreInv, ProcessType, Filing
  <1>2. FilesOf(r) \/ Refresh(r) \/ KeepToken(r) \/ Ensure(r) \/ NewToken(r) \/ SendReply(r) \/ Adopt(r)
    <2>1. pc[r] \in {"files", "ensure", "token", "send", "adopt", "refresh", "keep"}
      BY DEF Filing, Replying
    <2>2. QED
      BY <2>1, MailEffects DEF InboxStep
  <1>3. Kind(r) # "reply"
    BY <1>1 DEF Syncing
  <1>4. Refresh(r) => pc'[r] = "files" \/ (pc'[r] = "keep" /\ mem'[r].next = "send" /\ mem'[r] = mem[r])
    <2>1. Refresh(r) => mem[r].next = "send"
      BY DEF Filing, Replying, Refresh, At
    <2>2. QED
      BY <1>1, <1>3, <2>1 DEF Refresh, Skip, Read, Hold, Go, AfterSend
  <1>5. KeepToken(r) => pc'[r] = "send"
    BY <1>1 DEF KeepToken, Go, Filing, Replying, At
  <1>6. Ensure(r) \/ NewToken(r) => pc'[r] \in {"token", "send"} \/ (pc'[r] = "refresh" /\ mem'[r].next = "send")
    <2>1. NewToken(r) => mem'[r].next = "send" /\ pc'[r] \in {"refresh", "send"}
      BY <1>1, NoMemFields, MailEffects, Zenon DEF NewToken, Hold
    <2>2. Ensure(r) => pc'[r] \in {"token", "send"} \/ (pc'[r] = "refresh" /\ mem'[r].next = "send")
      BY <1>1, NoMemFields DEF Ensure, Fresh, Skip, Read, Hold, Go
    <2>3. QED
      BY <2>1, <2>2
  <1>7. SendReply(r) \/ Adopt(r) => pc'[r] \in {"files", "adopt"}
    BY <1>1, <1>3 DEF SendReply, Adopt, Go, AfterSend
  <1>8. FilesOf(r) \/ Filing(r)'
    BY <1>1, <1>2, <1>4, <1>5, <1>6, <1>7 DEF Filing, Replying
  <1>9. FilesOf(r) \/ mem'[r].m = mem[r].m
    BY <1>2, MemEffects
  <1>10. QED
    BY <1>8, <1>9

\* Every step keeps that mails become tickets once.
LEMMA FiledOnceStep ==
    ASSUME CoreInv, MailRoutes, MailType, OnceInv, [Next]_vars
    PROVE  OnceInv'
  <1>1. /\ BoxType /\ RowType /\ DOMAIN row = 1..MaxMail /\ Mails \subseteq 1..MaxMail
        /\ \A q \in Req : pc[q] \in Matching \cup {"record"} \/ Filing(q) => mem[q].m \in Mails
        /\ \A x \in msgs : x.mail \in Mails /\ x.of \in Req /\ pc[x.of] # "free" /\ Kind(x.of) \in Syncing
    BY DEF MailType, BoxType, RowType, Carries
  <1>2. faults \in Nat /\ faults' \in Nat /\ faults' >= faults
    BY Lasting
  <1>3. CASE \E r \in Req : InboxStep(r)
    <2>1. PICK r \in Req : InboxStep(r)
      BY <1>3
    <2>2. /\ Walks(r) /\ box' = box /\ Mails' = Mails /\ Kind(r)' = Kind(r)
          /\ \A q \in Req \ {r} : pc'[q] = pc[q] /\ mem'[q] = mem[q] /\ (Filing(q)' <=> Filing(q))
      <3>1. Walks(r) /\ box' = box /\ Kind(r)' = Kind(r)
        BY <2>1, InboxStepsElsewhere, MailWriters, MailWalk DEF Elsewhere
      <3>2. QED
        BY <3>1 DEF Walks, Mails, Filing, Replying, Kind
    <2>3. CASE msgs' = msgs /\ ~Append(r) /\ ~OpenTicket(r)
      <3>1. \/ row' = row
            \/ /\ Record(r) /\ row[mem[r].m] = "none" /\ mem'[r] = mem[r] /\ pc[r] = "record"
               /\ (Rowed(r, "skipped") /\ pc'[r] = "loop") \/ (Rowed(r, "processing") /\ pc'[r] = "match")
            \/ Sender(r) /\ Rowed(r, "skipped") /\ pc'[r] = "loop" /\ pc[r] = "sender"
        BY <2>1, <2>3, RowWrites, MailEffects
      <3>2. \A m \in 1..MaxMail : row'[m] = row[m] \/ (m = mem[r].m /\ m \in Mails /\ row'[m] # "processed" /\ (row[m] = "none" \/ pc[r] \in Matching))
        BY <1>1, <3>1 DEF Rowed, Matching
      <3>3. \A x \in msgs : row'[x.mail] = row[x.mail]
        BY <1>1, <3>2 DEF OnceInv
      <3>4. /\ \A m \in 1..MaxMail : row'[m] # "none" => m \in Mails
            /\ \A m \in Mails : row'[m] = "processed" => \E x \in msgs : x.mail = m
        BY <1>1, <3>2 DEF OnceInv
      <3>5. pc'[r] \in Matching => \/ pc[r] \in Matching /\ mem'[r].m = mem[r].m /\ row' = row
                                   \/ row[mem[r].m] = "none" /\ mem'[r].m = mem[r].m /\ row'[mem[r].m] = "processing" /\ mem[r].m \in Mails
        <4>1. Match(r) => row' = row /\ mem'[r].m = mem[r].m /\ pc[r] = "match"
          BY MailEffects, MemEffects
        <4>2. Sender(r) /\ pc'[r] # "loop" => row' = row /\ mem'[r].m = mem[r].m /\ pc[r] = "sender"
          <5>1. Sender(r) => ~Record(r) /\ mem'[r].m = mem[r].m /\ pc[r] = "sender"
            BY MailEffects, MemEffects
          <5>2. QED
            BY <3>1, <5>1
        <4>3. Record(r) /\ pc'[r] # "loop" => row[mem[r].m] = "none" /\ mem'[r].m = mem[r].m /\ row'[mem[r].m] = "processing" /\ mem[r].m \in Mails
          <5>1. Record(r) => pc[r] = "record" /\ (row' = row => pc'[r] = "loop" \/ row[mem[r].m] = "none") /\ mem'[r] = mem[r]
            BY MailEffects, MemEffects DEF Record, Skip, Read, Go, CoreInv, ProcessType
          <5>2. Record(r) /\ pc'[r] # "loop" => row[mem[r].m] = "none" /\ Rowed(r, "processing")
            BY DEF Record, Skip, Read, Go, CoreInv, ProcessType, Rowed
          <5>3. QED
            BY <1>1, <5>1, <5>2 DEF Rowed
        <4>4. "loop" \notin Matching /\ "match" \in Matching /\ "sender" \in Matching
          BY DEF Matching
        <4>5. QED
          BY <2>1, <4>1, <4>2, <4>3, <4>4, MailWalk
      <3>6. \A q \in Req : pc'[q] \in Matching => row'[mem'[q].m] = "processing" /\ \A x \in msgs : x.mail # mem'[q].m
        <4>1. ASSUME NEW q \in Req, q # r, pc'[q] \in Matching
              PROVE  row'[mem'[q].m] = "processing" /\ \A x \in msgs : x.mail # mem'[q].m
          <5>1. pc[q] \in Matching /\ mem'[q] = mem[q]
            BY <2>2, <4>1
          <5>2. row[mem[q].m] = "processing" /\ (\A x \in msgs : x.mail # mem[q].m) /\ mem[q].m \in Mails
            BY <1>1, <5>1 DEF OnceInv
          <5>3. pc[r] \in Matching => mem[q].m # mem[r].m
            BY <4>1, <5>1 DEF OnceInv
          <5>4. QED
            BY <1>1, <3>2, <5>1, <5>2, <5>3
        <4>2. pc'[r] \in Matching => row'[mem'[r].m] = "processing" /\ \A x \in msgs : x.mail # mem'[r].m
          BY <3>5 DEF OnceInv
        <4>3. QED
          BY <4>1, <4>2
      <3>7. \A p, q \in Req : p # q /\ pc'[p] \in Matching /\ pc'[q] \in Matching => mem'[p].m # mem'[q].m
        <4>1. \A q \in Req \ {r} : pc'[q] \in Matching => pc[q] \in Matching /\ mem'[q] = mem[q] /\ row[mem[q].m] = "processing"
          BY <2>2 DEF OnceInv
        <4>2. \A q \in Req \ {r} : pc'[q] \in Matching /\ pc'[r] \in Matching => mem'[q].m # mem'[r].m
          BY <3>5, <4>1 DEF OnceInv
        <4>3. QED
          BY <4>1, <4>2 DEF OnceInv
      <3>8. \A q \in Req : Filing(q)' => \E x \in msgs : x.mail = mem'[q].m
        <4>1. Filing(r)' => Filing(r) /\ mem'[r].m = mem[r].m
          <5>1. pc'[r] = "files" => Refresh(r) \/ SendReply(r) \/ Adopt(r)
            BY <2>1, <2>3, MailLeads
          <5>2. Kind(r) \in Syncing => ~ReplyRead(r)
            BY MailEffects DEF Syncing
          <5>3. Filing(r)' => Filing(r)
            <6>1. Kind(r) \in Syncing /\ Replying(r)' => Replying(r)
              BY <2>1, <2>3, <5>2, MailWalk
            <6>2. pc'[r] = "files" => Replying(r)
              <7>1. Refresh(r) /\ pc'[r] = "files" => pc[r] = "refresh" /\ mem[r].next = "send"
                BY DEF Refresh, Skip, Read, Go, SyncEnd, At, CoreInv, ProcessType
              <7>2. SendReply(r) \/ Adopt(r) => Replying(r)
                BY MailEffects DEF Replying
              <7>3. QED
                BY <5>1, <7>1, <7>2 DEF Replying
            <6>3. QED
              BY <2>2, <6>1, <6>2 DEF Filing
          <5>4. Filing(r)' => ~FilesOf(r)
            BY MailEffects DEF Filing, Replying
          <5>5. QED
            BY <2>1, <5>3, <5>4, FilingWalk
        <4>2. QED
          BY <2>2, <4>1 DEF OnceInv
      <3>9. \A x \in msgs : x.mail \in files' \/ faults' > 0 \/ (Filing(x.of)' /\ mem'[x.of].m = x.mail)
        <4>1. files \subseteq files' /\ (FilesOf(r) => mem[r].m \in files')
          BY <2>1, MailWriters DEF FilesOf
        <4>2. ASSUME NEW x \in msgs PROVE x.mail \in files' \/ faults' > 0 \/ (Filing(x.of)' /\ mem'[x.of].m = x.mail)
          <5>1. x.mail \in files \/ faults > 0 \/ (Filing(x.of) /\ mem[x.of].m = x.mail)
            BY DEF OnceInv
          <5>2. CASE x.of = r
            BY <1>2, <2>1, <4>1, <5>1, <5>2, FilingWalk
          <5>3. CASE x.of # r
            BY <1>1, <1>2, <2>2, <4>1, <5>1, <5>3
          <5>4. QED
            BY <5>2, <5>3
        <4>3. QED
          BY <4>2
      <3>10. \A x \in msgs : row'[x.mail] = "processed" \/ (row'[x.mail] = "failed" /\ faults' > 0)
        BY <1>2, <3>3 DEF OnceInv
      <3>11. \A x, y \in msgs : x.mail = y.mail => x = y
        BY DEF OnceInv
      <3>12. QED
        BY <2>2, <2>3, <3>4, <3>6, <3>7, <3>8, <3>9, <3>10, <3>11 DEF OnceInv
    <2>4. CASE Append(r) \/ OpenTicket(r)
      <3>1. PICK t : msgs' = msgs \cup {Msg(r, t)}
        BY <2>1, <2>4, MsgWrites, Zenon
      <3>2. /\ Rowed(r, "processed") /\ pc[r] \in Matching /\ Kind(r) \in Syncing /\ pc'[r] \in {"files", "ensure"}
            /\ mem'[r].m = mem[r].m /\ files' = files /\ mem[r].m \in Mails
        BY <1>1, <2>4, MailEffects, MemEffects, Zenon DEF Append, OpenTicket, Rowed, Matching, Syncing
      <3>3. Filing(r)' /\ pc'[r] \notin Matching /\ Msg(r, t).mail = mem[r].m /\ Msg(r, t).of = r
        BY <2>2, <3>2 DEF Filing, Replying, Matching, Msg
      <3>4. \A m \in 1..MaxMail : row'[m] = IF m = mem[r].m THEN "processed" ELSE row[m]
        BY <1>1, <3>2 DEF Rowed
      <3>5. row[mem[r].m] = "processing" /\ \A x \in msgs : x.mail # mem[r].m
        BY <3>2 DEF OnceInv
      <3>6. \A m \in 1..MaxMail : row'[m] # "none" => m \in Mails
        BY <3>2, <3>4 DEF OnceInv
      <3>7. \A q \in Req : pc'[q] \in Matching => row'[mem'[q].m] = "processing" /\ \A x \in msgs' : x.mail # mem'[q].m
        <4>1. ASSUME NEW q \in Req, pc'[q] \in Matching
              PROVE  row'[mem'[q].m] = "processing" /\ \A x \in msgs' : x.mail # mem'[q].m
          <5>1. q # r /\ pc[q] \in Matching /\ mem'[q] = mem[q]
            BY <2>2, <3>3, <4>1
          <5>2. row[mem[q].m] = "processing" /\ (\A x \in msgs : x.mail # mem[q].m) /\ mem[q].m \in Mails /\ mem[q].m # mem[r].m
            BY <1>1, <3>2, <5>1 DEF OnceInv
          <5>3. QED
            BY <1>1, <3>1, <3>3, <3>4, <5>1, <5>2
        <4>2. QED
          BY <4>1
      <3>8. \A p, q \in Req : p # q /\ pc'[p] \in Matching /\ pc'[q] \in Matching => mem'[p].m # mem'[q].m
        BY <2>2, <3>3 DEF OnceInv
      <3>9. \A q \in Req : Filing(q)' => \E x \in msgs' : x.mail = mem'[q].m
        <4>1. Msg(r, t) \in msgs' /\ msgs \subseteq msgs'
          BY <3>1
        <4>2. \A q \in Req \ {r} : Filing(q)' => \E x \in msgs : x.mail = mem'[q].m
          BY <2>2 DEF OnceInv
        <4>3. QED
          BY <3>2, <3>3, <4>1, <4>2
      <3>10. \A m \in Mails : row'[m] = "processed" => \E x \in msgs' : x.mail = m
        <4>1. Msg(r, t) \in msgs' /\ msgs \subseteq msgs'
          BY <3>1
        <4>2. \A m \in Mails : m # mem[r].m /\ row'[m] = "processed" => \E x \in msgs : x.mail = m
          BY <1>1, <3>4 DEF OnceInv
        <4>3. QED
          BY <3>3, <4>1, <4>2
      <3>11. \A x \in msgs' : row'[x.mail] = "processed" \/ (row'[x.mail] = "failed" /\ faults' > 0)
        <4>1. \A x \in msgs : row'[x.mail] = row[x.mail]
          BY <1>1, <3>4, <3>5
        <4>2. row'[mem[r].m] = "processed"
          BY <1>1, <3>2, <3>4
        <4>3. QED
          BY <1>2, <3>1, <3>3, <4>1, <4>2 DEF OnceInv
      <3>12. \A x, y \in msgs' : x.mail = y.mail => x = y
        BY <3>1, <3>3, <3>5 DEF OnceInv
      <3>13. \A x \in msgs' : x.mail \in files' \/ faults' > 0 \/ (Filing(x.of)' /\ mem'[x.of].m = x.mail)
        <4>1. \A x \in msgs : x.mail \in files \/ faults > 0 \/ (Filing(x.of) /\ mem[x.of].m = x.mail)
          BY DEF OnceInv
        <4>2. ~Filing(r)
          BY <3>2 DEF Filing, Replying, Matching
        <4>3. \A x \in msgs : x.mail \in files' \/ faults' > 0 \/ (Filing(x.of)' /\ mem'[x.of].m = x.mail)
          BY <1>1, <1>2, <2>2, <3>2, <4>1, <4>2
        <4>4. QED
          BY <3>1, <3>2, <3>3, <4>3
      <3>14. QED
        BY <2>2, <3>6, <3>7, <3>8, <3>9, <3>10, <3>11, <3>12, <3>13 DEF OnceInv
    <2>5. QED
      BY <2>1, <2>3, <2>4, MsgWrites
  <1>4. CASE \E r \in Req : Kind(r) \in Mailing /\ InboxFail(r)
    <2>1. PICK r \in Req : Kind(r) \in Mailing /\ InboxFail(r)
      BY <1>4
    <2>2. /\ Walks(r) /\ box' = box /\ Mails' = Mails /\ msgs' = msgs /\ files' = files /\ mem' = mem /\ faults' > 0
          /\ Kind(r)' = Kind(r) /\ ~Replying(r)' /\ pc'[r] \notin Matching /\ (pc'[r] = "files" => Filing(r))
          /\ \A q \in Req \ {r} : pc'[q] = pc[q] /\ (Filing(q)' <=> Filing(q))
      <3>1. /\ Walks(r) /\ box' = box /\ msgs' = msgs /\ files' = files /\ mem' = mem /\ faults' > 0
            /\ Kind(r)' = Kind(r) /\ ~Replying(r)' /\ pc'[r] \notin Matching /\ (pc'[r] = "files" => Filing(r))
        BY <2>1, FailureWalk, MailFailure DEF Filing
      <3>2. QED
        BY <3>1 DEF Walks, Mails, Filing, Replying, Kind
    <2>3. \/ row' = row
          \/ (pc[r] \in Matching \/ Filing(r)) /\ row' = [row EXCEPT ![mem[r].m] = "failed"]
      BY <2>1, MailFailure DEF Ingesting, Matching, Filing, Replying
    <2>4. \A m \in 1..MaxMail : row'[m] = row[m] \/ (m = mem[r].m /\ m \in Mails /\ row'[m] = "failed" /\ (pc[r] \in Matching \/ Filing(r)))
      BY <1>1, <2>3
    <2>5. /\ \A m \in 1..MaxMail : row'[m] # "none" => m \in Mails
          /\ \A m \in Mails : row'[m] = "processed" => \E x \in msgs : x.mail = m
          /\ \A x \in msgs : row'[x.mail] \in {"processed", "failed"}
      BY <1>1, <2>4 DEF OnceInv
    <2>6. ASSUME NEW q \in Req, pc'[q] \in Matching
          PROVE  pc[q] \in Matching /\ row'[mem[q].m] = "processing" /\ \A x \in msgs : x.mail # mem[q].m
      <3>1. q # r /\ pc[q] \in Matching
        BY <2>2, <2>6
      <3>2. row[mem[q].m] = "processing" /\ (\A x \in msgs : x.mail # mem[q].m) /\ mem[q].m \in Mails
        BY <1>1, <3>1 DEF OnceInv
      <3>3. pc[r] \in Matching \/ Filing(r) => mem[r].m # mem[q].m
        BY <3>1, <3>2 DEF OnceInv
      <3>4. QED
        BY <1>1, <2>4, <3>1, <3>2, <3>3
    <2>7. \A q \in Req : Filing(q)' => Filing(q)
      BY <2>2 DEF Filing
    <2>8. QED
      BY <2>2, <2>5, <2>6, <2>7 DEF OnceInv
  <1>5. CASE Arrive \/ GrowOld
    <2>1. UNCHANGED <<pc, mem, job, row, msgs, files, faults>> /\ Mails \subseteq Mails' /\ (Mails' # Mails => Mails' = Mails \cup {Next1} /\ Next1 \in 1..MaxMail /\ Next1 \notin Mails)
      <3>1. UNCHANGED <<pc, mem, job, row, msgs, files, faults>>
        BY <1>5 DEF Arrive, GrowOld, Same
      <3>2. GrowOld => Mails' = Mails
        BY DEF GrowOld, Mails
      <3>3. QED
        BY <1>1, <1>5, <3>1, <3>2, MailArrives
    <2>2. \A m \in Mails' : row[m] = "processed" => m \in Mails
      BY <1>1, <2>1 DEF OnceInv
    <2>3. \A q \in Req : Filing(q)' <=> Filing(q)
      BY <2>1 DEF Filing, Replying, Kind
    <2>4. QED
      BY <1>1, <2>1, <2>2, <2>3 DEF OnceInv
  <1>6. CASE MailAside
    <2>1. UNCHANGED <<row, box, msgs, files>> /\ Mails' = Mails
      BY <1>6 DEF MailAside, mailbox, google, Mails
    <2>2. \A q \in Req : pc'[q] \in Matching => pc[q] \in Matching /\ mem'[q] = mem[q]
      BY <1>6, AsideWalk DEF Matching, MailSteps, Walking
    <2>3. \A q \in Req : Filing(q)' => Filing(q) /\ mem'[q] = mem[q]
      <3>1. \A q \in Req : Filing(q)' => pc'[q] \in MailSteps
        BY DEF Filing, Replying, MailSteps, Sending, Walking
      <3>2. QED
        BY <1>6, <3>1, AsideWalk DEF Filing, Replying, Kind
    <2>4. \A x \in msgs : x.mail \in files \/ faults' > 0 \/ (Filing(x.of)' /\ mem'[x.of].m = x.mail)
      <3>1. ASSUME NEW x \in msgs PROVE faults' > 0 \/ (pc'[x.of] = pc[x.of] /\ mem'[x.of] = mem[x.of] /\ job'[x.of] = job[x.of])
        <4>1. x.of \in Req /\ pc[x.of] # "free" /\ Kind(x.of) \in Mailing
          BY <1>1 DEF Syncing, Mailing
        <4>2. QED
          BY <1>6, <4>1 DEF MailAside
      <3>2. QED
        BY <1>2, <3>1 DEF OnceInv, Filing, Replying, Kind
    <2>5. QED
      BY <1>2, <2>1, <2>2, <2>3, <2>4 DEF OnceInv
  <1>7. QED
    BY <1>3, <1>4, <1>5, <1>6, MailStepsOf

-----------------------------------------------------------------------------
(* Every step keeps the checkpoint behind what was done *)

\* Who has filed a mail after a step had filed it before, or has just filed it.
LEMMA FilingBegins ==
    ASSUME CoreInv, MailRoutes, NEW r \in Req, InboxStep(r), Filing(r)'
    PROVE  Kind(r) \in Syncing /\ (Filing(r) \/ Append(r) \/ OpenTicket(r))
  <1>1. Kind(r)' = Kind(r) /\ Kind(r) \in Syncing
    BY MailWalk DEF Filing
  <1>2. ~ReplyRead(r)
    BY <1>1, MailEffects DEF Syncing
  <1>3. Replying(r)' => Replying(r) \/ OpenTicket(r)
    BY <1>2, MailWalk
  <1>4. pc'[r] = "files" => Replying(r) \/ Append(r)
    <2>1. pc'[r] = "files" => Refresh(r) \/ Append(r) \/ SendReply(r) \/ Adopt(r)
      BY MailLeads
    <2>2. Refresh(r) /\ pc'[r] = "files" => pc[r] = "refresh" /\ mem[r].next = "send"
      BY DEF Refresh, Skip, Read, Go, SyncEnd, At, CoreInv, ProcessType
    <2>3. SendReply(r) \/ Adopt(r) => Replying(r)
      BY MailEffects DEF Replying
    <2>4. QED
      BY <2>1, <2>2, <2>3 DEF Replying
  <1>5. QED
    BY <1>1, <1>3, <1>4 DEF Filing

\* Who is past its list after a step has just made it, or was past it before, of the same account.
LEMMA ListsWalk ==
    ASSUME CoreInv, MailRoutes, NEW r \in Req, InboxStep(r), Lists(r)'
    PROVE  ListNew(r) \/ (Lists(r) /\ ~Rejected(r))
  <1>1. Kind(r)' = Kind(r) /\ Kind(r) \in Syncing /\ mem'[r].acc = Main
    BY MailWalk DEF Lists
  <1>2. pc'[r] \in {"loop", "record", "files", "profile", "checkpoint"} \cup Matching \/ Replying(r)'
    BY DEF Lists
  <1>3. ~Rejected(r) /\ pc'[r] # "mark" /\ pc'[r] # "next" /\ pc'[r] # "done" /\ pc'[r] # "rejected"
    BY <1>2 DEF Rejected, Matching, Replying
  <1>4. ListNew(r) \/ pc[r] \in {"loop", "record", "files", "profile", "checkpoint"} \cup Matching \/ Replying(r)
    <2>1. pc'[r] = "loop" => ListNew(r) \/ pc[r] \in {"loop", "record", "sender", "files"}
      BY MailLeads, MailEffects
    <2>2. pc'[r] \in {"record", "profile", "checkpoint"} \cup Matching => pc[r] \in {"loop", "profile", "record", "match", "sender"}
      BY MailLeads, MailEffects DEF Matching
    <2>3. pc'[r] = "files" \/ Replying(r)' => Filing(r) \/ pc[r] \in {"append", "open"}
      <3>1. pc'[r] = "files" \/ Replying(r)' => Filing(r)'
        BY <1>1 DEF Filing
      <3>2. QED
        BY <3>1, FilingBegins, MailEffects
    <2>4. QED
      BY <1>2, <2>1, <2>2, <2>3 DEF Matching, Filing
  <1>5. ListNew(r) \/ mem'[r].acc = mem[r].acc
    <2>1. SyncStart(r) \/ PollNext(r) => pc'[r] \in {"mark", "done", "rejected", "next"}
      BY MailEffects
    <2>2. ~FindActive(r) /\ ~ReplyRead(r)
      BY <1>1, MailEffects DEF Syncing
    <2>3. QED
      BY <1>3, <2>1, <2>2, MemWriters
  <1>6. QED
    BY <1>1, <1>3, <1>4, <1>5 DEF Lists

\* What was done about a mail, and what excuses that nothing was, stays; a mail that arrives is beyond every
\* checkpoint.
LEMMA PassedLasts ==
    ASSUME CoreInv, MailRoutes, MailType, [Next]_vars
    PROVE  /\ Mails \subseteq Mails' /\ Cardinality(Mails) \in Nat /\ Cardinality(Mails)' \in Nat
           /\ Cardinality(Mails) <= Cardinality(Mails)'
           /\ \A m \in Mails : (row[m] # "none" => row'[m] # "none") /\ (Excused(m) => Excused(m)')
           /\ Mails' # Mails => Arrive
           /\ \A c \in Nat \cup {None} : Passed(c) => Passed(c)'
  <1>1. BoxType /\ RowType /\ Mails \subseteq 1..MaxMail /\ DOMAIN row = 1..MaxMail /\ Cardinality(Mails) \in Nat
    <2>1. PICK n \in Nat : n = Cardinality(DOMAIN box)
      BY DEF MailType, BoxType
    <2>2. Cardinality(1..n) = n
      BY FS_Interval
    <2>3. QED
      BY <2>1, <2>2 DEF MailType, BoxType, RowType, Mails
  <1>2. faults \in Nat /\ faults' \in Nat /\ faults' >= faults
    BY Lasting
  <1>3. Arrive \/ (Mails' = Mails /\ box' = box)
    <2>1. CASE \E r \in Req : InboxStep(r)
      BY <2>1, MailWriters DEF Mails
    <2>2. CASE \E r \in Req : Kind(r) \in Mailing /\ InboxFail(r)
      BY <2>2, MailFailure DEF Mails
    <2>3. CASE GrowOld \/ MailAside
      BY <2>3 DEF GrowOld, MailAside, mailbox, google, Mails
    <2>4. QED
      BY <2>1, <2>2, <2>3, MailStepsOf
  <1>4. cut \subseteq cut'
    <2>1. CASE \E r \in Req : InboxStep(r)
      BY <2>1, MailWriters DEF ListNew
    <2>2. CASE \E r \in Req : Kind(r) \in Mailing /\ InboxFail(r)
      BY <2>2, MailFailure
    <2>3. CASE Arrive \/ GrowOld \/ MailAside
      BY <2>3 DEF Arrive, GrowOld, MailAside, mailbox
    <2>4. QED
      BY <2>1, <2>2, <2>3, MailStepsOf
  <1>5. \A m \in Mails : row[m] # "none" => row'[m] # "none"
    <2>1. CASE \E r \in Req : InboxStep(r)
      BY <1>1, <2>1, RowWrites DEF Rowed
    <2>2. CASE \E r \in Req : Kind(r) \in Mailing /\ InboxFail(r)
      BY <1>1, <2>2, MailFailure
    <2>3. CASE Arrive \/ GrowOld \/ MailAside
      BY <2>3 DEF Arrive, GrowOld, MailAside, mailbox
    <2>4. QED
      BY <2>1, <2>2, <2>3, MailStepsOf
  <1>6. /\ Mails \subseteq Mails' /\ Cardinality(Mails)' \in Nat /\ Cardinality(Mails) <= Cardinality(Mails)'
        /\ \A m \in Mails : box'[m] = box[m]
        /\ \A m \in Mails' : m \in Mails \/ m > Cardinality(Mails)
    <2>1. CASE Arrive
      <3>1. Next1 = Cardinality(Mails) + 1
        BY DEF Next1
      <3>2. QED
        BY <1>1, <2>1, <3>1, MailArrives
    <2>2. CASE Mails' = Mails /\ box' = box
      BY <1>1, <2>2
    <2>3. QED
      BY <1>3, <2>1, <2>2
  <1>7. \A m \in Mails : Excused(m) => Excused(m)'
    BY <1>2, <1>4, <1>6 DEF Excused, LeftBehind
  <1>8. \A c \in Nat \cup {None} : Passed(c) => Passed(c)'
    <2>1. SUFFICES ASSUME NEW c \in Nat, Passed(c), c # None
                   PROVE  c <= Cardinality(Mails)' /\ \A m \in Mails' : m <= c => row'[m] # "none" \/ Excused(m)'
      BY DEF Passed
    <2>2. c <= Cardinality(Mails)
      BY <2>1 DEF Passed
    <2>3. Mails' \subseteq Nat
      BY <1>1, <1>6, <1>3, MailArrives, Names
    <2>4. QED
      BY <1>1, <1>5, <1>6, <1>7, <2>1, <2>2, <2>3 DEF Passed
  <1>9. QED
    BY <1>1, <1>3, <1>5, <1>6, <1>7, <1>8

\* What a list leaves out is before the checkpoint, or cut.
LEMMA ListedAll ==
    ASSUME CoreInv, MailRoutes, MailType, PassInv, NEW r \in Req, ListNew(r), mem[r].acc = Main
    PROVE  \A m \in Mails : row[m] # "none" \/ Excused(m) \/ LeftBehind(m)' \/ m \in mem'[r].ids
  <1>1. /\ DOMAIN mem = Req /\ DOMAIN mem[r] = DOMAIN NoMem /\ Kind(r) \in Mailing
        /\ Mails \subseteq Nat /\ mem[r].conn.cursor \in Nat \cup {None}
    <2>1. Kind(r) \in Mailing
      BY MailEffects DEF Mailing
    <2>2. Mails \subseteq Nat
      BY Names DEF MailType, BoxType
    <2>3. mem[r].conn.cursor \in Nat \cup {None}
      BY <2>1 DEF MailType, Carries
    <2>4. QED
      BY <2>1, <2>2, <2>3 DEF CoreInv, ProcessType
  <1>2. mem'[r] = [mem[r] EXCEPT !.ids = NewMails(mem[r].conn)]
    BY <1>1 DEF ListNew, Hold
  <1>3. mem'[r].ids = NewMails(mem[r].conn)
    BY <1>1, <1>2, NoMemFields
  <1>4. \A m \in LeftOut(mem[r].conn) : LeftBehind(m)'
    <2>1. PICK way \in {"recent", "page"} : cut' = cut \cup (LeftOut(mem[r].conn) \X {way})
      BY DEF ListNew
    <2>2. QED
      BY <2>1 DEF LeftBehind
  <1>5. CASE FromRecent(mem[r].conn)
    BY <1>3, <1>4, <1>5 DEF NewMails
  <1>6. CASE ~FromRecent(mem[r].conn)
    <2>1. mem'[r].ids = {m \in Mails \ LeftOut(mem[r].conn) : m > mem[r].conn.cursor}
      BY <1>3, <1>6 DEF NewMails
    <2>2. Passed(mem[r].conn.cursor)
      BY <1>1 DEF PassInv
    <2>3. PICK c \in Nat : c = mem[r].conn.cursor /\ c # None
      BY <1>1, <1>6 DEF FromRecent
    <2>4. \A m \in Mails : m <= c => row[m] # "none" \/ Excused(m)
      BY <2>2, <2>3 DEF Passed
    <2>5. \A m \in Mails : m <= c \/ m > c
      BY <1>1
    <2>6. \A m \in Mails : m > c => m \in mem'[r].ids \/ m \in LeftOut(mem[r].conn)
      BY <2>1, <2>3
    <2>7. QED
      BY <1>4, <2>4, <2>5, <2>6
  <1>7. QED
    BY <1>5, <1>6

\* Every step keeps that checkpoints pass over nothing.
LEMMA PassStep ==
    ASSUME CoreInv, MailRoutes, MailType, PassInv, [Next]_vars
    PROVE  PassInv'
  <1>1. /\ Mails \subseteq Mails' /\ Cardinality(Mails) \in Nat /\ Cardinality(Mails)' \in Nat
        /\ Cardinality(Mails) <= Cardinality(Mails)'
        /\ \A m \in Mails : (row[m] # "none" => row'[m] # "none") /\ (Excused(m) => Excused(m)')
        /\ Mails' # Mails => Arrive
        /\ \A c \in Nat \cup {None} : Passed(c) => Passed(c)'
    BY PassedLasts
  <1>2. /\ RowType /\ Main \in Account /\ (\A q \in Req : Carries(q))
        /\ DOMAIN mem = Req /\ DOMAIN pc = Req /\ \A q \in Req : DOMAIN mem[q] = DOMAIN NoMem
    BY DEF MailType, Account, CoreInv, ProcessType
  <1>3. \A c \in {NoMem.conn.cursor} : Passed(c)'
    BY DEF Passed, NoMem, NoConn
  <1>4. Passed(conn[Main].cursor)'
    <2>1. CASE \E r \in Req : InboxStep(r) \/ (Kind(r) \in Mailing /\ InboxFail(r))
      <3>1. PICK r \in Req : InboxStep(r) \/ (Kind(r) \in Mailing /\ InboxFail(r))
        BY <2>1
      <3>2. conn'[Main].cursor = conn[Main].cursor \/ (Checkpoint(r) /\ mem[r].acc = Main /\ conn'[Main].cursor = mem[r].head)
        BY <1>2, <3>1, ConnWrites DEF RowType, Marked, Rekeyed, Moved, Revived, Dropt
      <3>3. conn[Main].cursor \in Nat \cup {None}
        BY <1>2 DEF RowType
      <3>4. CASE conn'[Main].cursor = conn[Main].cursor
        BY <1>1, <3>3, <3>4 DEF PassInv, Passed
      <3>5. CASE Checkpoint(r) /\ mem[r].acc = Main /\ conn'[Main].cursor = mem[r].head
        <4>1. pc[r] = "checkpoint" /\ Kind(r) \in Syncing
          BY <3>5, MailEffects DEF Syncing
        <4>2. mem[r].head \in Nat /\ mem[r].head <= Cardinality(Mails) /\ mem[r].ids = {} /\ Lists(r)
          BY <1>2, <3>5, <4>1 DEF PassInv, Carries, Lists
        <4>3. Passed(mem[r].head)
          BY <4>1, <4>2 DEF PassInv, Passed
        <4>4. \A c \in Nat : Passed(c) => Passed(c)'
          BY <1>1
        <4>5. \A c \in {conn'[Main].cursor} : Passed(c)'
          BY <3>5, <4>2, <4>3, <4>4
        <4>6. QED
          BY <4>5 DEF Passed
      <3>6. QED
        BY <3>2, <3>4, <3>5
    <2>2. CASE Arrive \/ GrowOld
      <3>1. conn'[Main].cursor = conn[Main].cursor /\ conn[Main].cursor \in Nat \cup {None}
        BY <1>2, <2>2, Ageing DEF Rekeyed, RowType
      <3>2. QED
        BY <1>1, <3>1 DEF PassInv, Passed
    <2>3. CASE MailAside
      <3>1. conn'[Main].cursor = conn[Main].cursor /\ conn[Main].cursor \in Nat \cup {None}
        BY <1>2, <2>3 DEF MailAside, mailbox, RowType
      <3>2. QED
        BY <1>1, <3>1 DEF PassInv, Passed
    <2>4. QED
      BY <2>1, <2>2, <2>3, MailStepsOf
  <1>5. \A c \in {conn'[Main].cursor} : Passed(c)'
    BY <1>4 DEF Passed
  <1>6. ASSUME NEW q \in Req, pc'[q] = pc[q], mem'[q] = mem[q], Kind(q)' = Kind(q)
        PROVE  /\ Kind(q)' \in Mailing /\ mem'[q].acc = Main => \A c \in {mem'[q].conn.cursor} : Passed(c)'
               /\ Lists(q)' => \A m \in Mails' : row'[m] # "none" \/ Excused(m)' \/ m \in mem'[q].ids \/ (pc'[q] = "record" /\ m = mem'[q].m)
               /\ pc'[q] \in {"profile", "checkpoint"} => mem'[q].ids = {}
               /\ pc'[q] = "checkpoint" /\ mem'[q].acc = Main => mem'[q].head <= Cardinality(Mails)'
    <2>1. Kind(q) \in Mailing /\ mem'[q].acc = Main => \A c \in {mem'[q].conn.cursor} : Passed(c)'
      BY <1>1, <1>2, <1>6 DEF PassInv, Carries
    <2>2. pc'[q] = "checkpoint" /\ mem'[q].acc = Main => mem'[q].head <= Cardinality(Mails)'
      <3>1. SUFFICES ASSUME pc[q] = "checkpoint", mem[q].acc = Main PROVE mem[q].head <= Cardinality(Mails)'
        BY <1>6
      <3>2. mem[q].head \in Nat /\ mem[q].head <= Cardinality(Mails)
        BY <1>2, <3>1 DEF PassInv, Carries
      <3>3. QED
        BY <1>1, <3>2
    <2>3. Lists(q)' => Lists(q)
      BY <1>6 DEF Lists, Replying
    <2>4. Lists(q) => \A m \in Mails : row'[m] # "none" \/ Excused(m)' \/ m \in mem'[q].ids \/ (pc'[q] = "record" /\ m = mem'[q].m)
      BY <1>1, <1>6 DEF PassInv
    <2>5. Lists(q) /\ Arrive => \A m \in {Next1} : Excused(m)'
      <3>1. SUFFICES ASSUME Lists(q), Arrive PROVE \A m \in {Next1} : Excused(m)'
        OBVIOUS
      <3>2. q \in Listed
        <4>1. pc[q] \notin Ended
          BY <3>1, KindsAt DEF Lists, Matching, Ended
        <4>2. pc[q] \in {"loop", "profile", "checkpoint"} \/ mem[q].m \in Mails
          BY <1>2, <3>1 DEF Lists, Carries, Filing
        <4>3. 0 \notin Mails
          BY DEF MailType, BoxType
        <4>4. QED
          BY <4>1, <4>2, <4>3 DEF Listed, InFlight
      <3>3. box'[Next1].late = Listed
        BY <3>1, MailArrives DEF MailType
      <3>4. \A m \in {Next1} : box'[m].late # {}
        BY <3>2, <3>3
      <3>5. QED
        BY <3>4 DEF Excused
    <2>6. Arrive => Mails' = Mails \cup {Next1}
      BY MailArrives DEF MailType
    <2>7. Lists(q)' => \A m \in Mails' : row'[m] # "none" \/ Excused(m)' \/ m \in mem'[q].ids \/ (pc'[q] = "record" /\ m = mem'[q].m)
      <3>1. CASE Mails' = Mails
        BY <2>3, <2>4, <3>1
      <3>2. CASE Arrive
        BY <2>3, <2>4, <2>5, <2>6, <3>2
      <3>3. QED
        BY <1>1, <3>1, <3>2
    <2>8. pc'[q] \in {"profile", "checkpoint"} => mem'[q].ids = {}
      BY <1>6 DEF PassInv
    <2>9. QED
      BY <1>6, <2>1, <2>2, <2>7, <2>8
  <1>7. ASSUME NEW r \in Req, InboxStep(r)
        PROVE  /\ Kind(r)' \in Mailing /\ mem'[r].acc = Main => \A c \in {mem'[r].conn.cursor} : Passed(c)'
               /\ Lists(r)' => \A m \in Mails' : row'[m] # "none" \/ Excused(m)' \/ m \in mem'[r].ids \/ (pc'[r] = "record" /\ m = mem'[r].m)
               /\ pc'[r] \in {"profile", "checkpoint"} => mem'[r].ids = {}
               /\ pc'[r] = "checkpoint" /\ mem'[r].acc = Main => mem'[r].head <= Cardinality(Mails)'
    <2>1. Kind(r)' = Kind(r) /\ Kind(r) \in Mailing /\ Mails' = Mails
      BY <1>7, MailWalk, MailGoesOn, MailWriters DEF Mails
    <2>2. mem'[r].acc = Main => \A c \in {mem'[r].conn.cursor} : Passed(c)'
      <3>1. CASE Rejected(r)
        BY <1>3, <3>1 DEF Rejected
      <3>2. CASE mem'[r].conn = mem[r].conn /\ mem'[r].acc = mem[r].acc
        <4>1. mem[r].acc = Main => Passed(mem[r].conn.cursor) /\ mem[r].conn.cursor \in Nat \cup {None}
          BY <1>2, <2>1 DEF PassInv, Carries
        <4>2. QED
          BY <1>1, <3>2, <4>1
      <3>3. CASE \E a \in Account : mem'[r].acc = a /\ mem'[r].conn = conn'[a]
        BY <1>5, <3>3
      <3>4. ~Rejected(r) => (mem'[r].conn = mem[r].conn /\ mem'[r].acc = mem[r].acc) \/ \E a \in Account : mem'[r].acc = a /\ mem'[r].conn = conn'[a]
        <4>1. FindActive(r) /\ ~Rejected(r) => \E a \in Account : mem'[r] = [mem[r] EXCEPT !.acc = a, !.conn = conn'[a]]
          <5>1. FindActive(r) /\ ~Rejected(r) => \E a \in Account : mem'[r] = [mem[r] EXCEPT !.acc = a, !.conn = conn[a]]
            BY <1>2, Zenon DEF FindActive, Reject, Read, Hold, Go, Rejected, Active
          <5>2. QED
            BY <5>1, MailEffects, Zenon
        <4>2. SyncStart(r) /\ ~Rejected(r) => \E a \in Account : mem'[r] = [mem[r] EXCEPT !.acc = a, !.conn = conn'[a]]
          <5>1. SyncStart(r) /\ ~Rejected(r) => \E a \in Account : mem'[r] = [mem[r] EXCEPT !.acc = a, !.conn = conn[a]]
            BY <1>2, Zenon DEF SyncStart, Reject, Read, Hold, Go, Rejected, Active
          <5>2. QED
            BY <5>1, MailEffects, Zenon
        <4>3. PollNext(r) => mem'[r] = mem[r] \/ \E a \in Account : mem'[r] = [mem[r] EXCEPT !.left = @ \ {a}, !.acc = a, !.conn = conn'[a]]
          <5>1. mem[r].left \subseteq Account
            BY <1>2, <2>1 DEF Carries
          <5>2. PollNext(r) => conn' = conn
            BY MailEffects
          <5>3. QED
            BY <1>2, <5>1, <5>2, Zenon DEF PollNext, Skip, Read, Hold
        <4>4. ReplyRead(r) => mem'[r] = mem[r] \/ \E a \in Account : mem'[r] = [mem[r] EXCEPT !.acc = a, !.conn = conn'[a], !.t = On(r), !.thread = ticket[On(r)].thread]
          <5>1. ReplyRead(r) => mem'[r] = mem[r] \/ \E a \in Account : mem'[r] = [mem[r] EXCEPT !.acc = a, !.conn = conn[a], !.t = On(r), !.thread = ticket[On(r)].thread]
            BY <1>2, Zenon DEF ReplyRead, Skip, Read, Hold, Active
          <5>2. QED
            BY <5>1, MailEffects, Zenon
        <4>5. KeepToken(r) => mem'[r].acc \in Account /\ mem'[r].conn = conn'[mem'[r].acc]
          <5>1. KeepToken(r) => Bound(r) /\ mem'[r] = [mem[r] EXCEPT !.conn = conn'[mem[r].acc]]
            BY <1>2, MailEffects DEF KeepToken, Hold, Bound, Syncing, Ended
          <5>2. QED
            BY <1>2, <5>1, NoMemFields DEF Carries
        <4>6. \A a \in Account : mem'[r] = [mem[r] EXCEPT !.acc = a, !.conn = conn'[a]] => mem'[r].acc = a /\ mem'[r].conn = conn'[a]
          BY <1>2, NoMemFields
        <4>7. \A a \in Account : mem'[r] = [mem[r] EXCEPT !.left = @ \ {a}, !.acc = a, !.conn = conn'[a]] => mem'[r].acc = a /\ mem'[r].conn = conn'[a]
          BY <1>2, NoMemFields
        <4>8. \A a \in Account : mem'[r] = [mem[r] EXCEPT !.acc = a, !.conn = conn'[a], !.t = On(r), !.thread = ticket[On(r)].thread] => mem'[r].acc = a /\ mem'[r].conn = conn'[a]
          BY <1>2, NoMemFields
        <4>9. QED
          BY <1>7, <4>1, <4>2, <4>3, <4>4, <4>5, <4>6, <4>7, <4>8, MemWriters, Zenon
      <3>5. QED
        BY <3>1, <3>2, <3>3, <3>4
    <2>3. Lists(r)' => \A m \in Mails' : row'[m] # "none" \/ Excused(m)' \/ m \in mem'[r].ids \/ (pc'[r] = "record" /\ m = mem'[r].m)
      <3>1. SUFFICES ASSUME Lists(r)'
                     PROVE  \A m \in Mails : row'[m] # "none" \/ Excused(m)' \/ m \in mem'[r].ids \/ (pc'[r] = "record" /\ m = mem'[r].m)
        BY <2>1
      <3>2. CASE ListNew(r)
        <4>1. mem[r].acc = Main
          BY <3>1, <3>2, MemEffects DEF Lists
        <4>2. \A m \in Mails : LeftBehind(m)' => Excused(m)'
          BY DEF Excused
        <4>3. QED
          BY <1>1, <3>2, <4>1, <4>2, ListedAll
      <3>3. CASE Lists(r) /\ ~Rejected(r)
        <4>1. \A m \in Mails : row[m] # "none" \/ Excused(m) \/ m \in mem[r].ids \/ (pc[r] = "record" /\ m = mem[r].m)
          BY <3>3 DEF PassInv
        <4>2. CASE NextMail(r)
          <5>1. pc[r] = "loop"
            BY <4>2, MailEffects
          <5>2. CASE mem'[r] = mem[r]
            BY <1>1, <4>1, <5>1, <5>2
          <5>3. CASE \E m \in Mails : /\ mem'[r].ids = mem[r].ids \ {m}
                                       /\ mem'[r].m = m /\ (row[m] # "none" \/ pc'[r] = "record")
            BY <1>1, <4>1, <5>1, <5>3
          <5>4. mem'[r] = mem[r] \/ (\E m \in Mails : mem'[r] = [mem[r] EXCEPT !.ids = @ \ {m}, !.m = m] /\ (row[m] # "none" \/ pc'[r] = "record"))
            <6>1. mem[r].ids \subseteq Mails
              BY <1>2, <2>1 DEF Carries
            <6>2. QED
              BY <1>2, <4>2, <6>1, Zenon DEF NextMail, Skip, Read, Hold, Go
          <5>5. \A m \in Mails : mem'[r] = [mem[r] EXCEPT !.ids = @ \ {m}, !.m = m] => mem'[r].ids = mem[r].ids \ {m} /\ mem'[r].m = m
            BY <1>2, NoMemFields
          <5>6. QED
            BY <5>2, <5>3, <5>4, <5>5, Zenon
        <4>3. CASE Record(r)
          <5>1. mem'[r] = mem[r] /\ mem[r].m \in Mails
            <6>1. pc[r] = "record"
              BY <4>3, MailEffects
            <6>2. QED
              BY <1>2, <4>3, <6>1, MemEffects DEF Carries
          <5>2. row'[mem[r].m] # "none"
            <6>1. mem[r].m \in DOMAIN row
              BY <1>2, <5>1 DEF MailType, BoxType, RowType
            <6>2. QED
              BY <4>3, <6>1 DEF Record, Skip, Read, mailbox
          <5>3. QED
            BY <1>1, <4>1, <5>1, <5>2
        <4>4. CASE ~NextMail(r) /\ ~Record(r) /\ ~ListNew(r)
          <5>1. mem'[r].ids = mem[r].ids
            BY <1>7, <3>3, <4>4, MemWriters
          <5>2. pc[r] # "record"
            BY <1>7, <4>4, MailEffects DEF InboxStep
          <5>3. QED
            BY <1>1, <4>1, <5>1, <5>2
        <4>5. QED
          BY <3>2, <4>2, <4>3, <4>4
      <3>4. QED
        BY <1>7, <3>1, <3>2, <3>3, ListsWalk
    <2>4. pc'[r] \in {"profile", "checkpoint"} => mem'[r].ids = {}
      <3>1. pc'[r] = "profile" => NextMail(r)
        BY <1>7, MailLeads
      <3>2. NextMail(r) /\ pc'[r] = "profile" => mem'[r] = mem[r] /\ mem[r].ids = {}
        BY <1>2, Zenon DEF NextMail, Skip, Read, Hold, Go
      <3>3. pc'[r] = "checkpoint" => Profile(r)
        BY <1>7, MailLeads
      <3>4. Profile(r) => pc[r] = "profile" /\ mem'[r].ids = mem[r].ids
        BY MailEffects, MemEffects
      <3>5. QED
        BY <3>1, <3>2, <3>3, <3>4 DEF PassInv
    <2>5. pc'[r] = "checkpoint" /\ mem'[r].acc = Main => mem'[r].head <= Cardinality(Mails)'
      <3>1. pc'[r] = "checkpoint" => Profile(r)
        BY <1>7, MailLeads
      <3>2. Profile(r) => mem'[r].acc = mem[r].acc
        BY MemEffects
      <3>3. Profile(r) /\ mem[r].acc = Main => mem'[r].head = Cardinality(Mails)
        BY <1>2, NoMemFields DEF Profile, Read, Hold
      <3>4. QED
        BY <1>1, <2>1, <3>1, <3>2, <3>3
    <2>6. QED
      BY <2>1, <2>2, <2>3, <2>4, <2>5
  <1>8. ASSUME NEW q \in Req
        PROVE  /\ Kind(q)' \in Mailing /\ mem'[q].acc = Main => \A c \in {mem'[q].conn.cursor} : Passed(c)'
               /\ Lists(q)' => \A m \in Mails' : row'[m] # "none" \/ Excused(m)' \/ m \in mem'[q].ids \/ (pc'[q] = "record" /\ m = mem'[q].m)
               /\ pc'[q] \in {"profile", "checkpoint"} => mem'[q].ids = {}
               /\ pc'[q] = "checkpoint" /\ mem'[q].acc = Main => mem'[q].head <= Cardinality(Mails)'
    <2>1. CASE \E r \in Req : InboxStep(r)
      <3>1. PICK r \in Req : InboxStep(r)
        BY <2>1
      <3>2. q # r => pc'[q] = pc[q] /\ mem'[q] = mem[q] /\ Kind(q)' = Kind(q)
        BY <3>1, InboxStepsElsewhere DEF Elsewhere, Walks, Kind
      <3>3. CASE q = r
        BY <1>7, <3>1, <3>3
      <3>4. CASE q # r
        BY <1>6, <3>2, <3>4
      <3>5. QED
        BY <3>3, <3>4
    <2>2. CASE faults' > 0 /\ mem'[q] = mem[q] /\ Kind(q)' = Kind(q) /\ pc'[q] \notin {"profile", "checkpoint"}
      <3>1. \A m : Excused(m)'
        BY <2>2 DEF Excused
      <3>2. Kind(q)' \in Mailing /\ mem'[q].acc = Main => \A c \in {mem'[q].conn.cursor} : Passed(c)'
        BY <1>1, <1>2, <2>2 DEF PassInv, Carries
      <3>3. QED
        BY <2>2, <3>1, <3>2
    <2>3. CASE \E r \in Req : Kind(r) \in Mailing /\ InboxFail(r)
      <3>1. PICK r \in Req : Kind(r) \in Mailing /\ InboxFail(r)
        BY <2>3
      <3>2. /\ Walks(r) /\ Kind(r)' = Kind(r) /\ mem' = mem /\ faults' > 0
            /\ pc'[r] \in Ended \cup {"files", "loop", "next", "wipe"}
        BY <3>1, FailureWalk, MailFailure
      <3>3. q # r => pc'[q] = pc[q] /\ mem'[q] = mem[q] /\ Kind(q)' = Kind(q)
        BY <3>2 DEF Walks, Kind
      <3>4. CASE q = r
        BY <2>2, <3>2, <3>4 DEF Ended
      <3>5. CASE q # r
        BY <1>6, <3>3, <3>5
      <3>6. QED
        BY <3>4, <3>5
    <2>4. CASE Arrive \/ GrowOld
      <3>1. pc'[q] = pc[q] /\ mem'[q] = mem[q] /\ Kind(q)' = Kind(q)
        BY <2>4 DEF Arrive, GrowOld, Same, Kind
      <3>2. QED
        BY <1>6, <3>1
    <2>5. CASE MailAside
      <3>1. CASE pc'[q] = pc[q] /\ mem'[q] = mem[q] /\ job'[q] = job[q]
        BY <1>6, <3>1 DEF Kind
      <3>2. CASE pc[q] = "free" /\ pc'[q] = "start" /\ mem'[q] = mem[q]
        <4>1. mem'[q] = NoMem
          BY <3>2 DEF CoreInv, ProcessType
        <4>2. ~Lists(q)'
          BY <3>2 DEF Lists, Matching, Replying
        <4>3. QED
          BY <1>3, <3>2, <4>1, <4>2
      <3>3. CASE pc[q] \notin Ended /\ pc'[q] = "lost" /\ mem'[q] = mem[q] /\ job'[q] = job[q] /\ faults' > 0
        BY <2>2, <3>3 DEF Kind
      <3>4. CASE Kind(q) \notin Mailing /\ job'[q] = job[q] /\ pc'[q] \notin {"free"} \cup MailSteps
        <4>1. Kind(q)' \notin Mailing /\ pc'[q] \notin {"profile", "checkpoint"}
          BY <3>4 DEF Kind, MailSteps, Walking
        <4>2. ~Lists(q)'
          BY <4>1 DEF Lists, Syncing, Mailing
        <4>3. QED
          BY <4>1, <4>2
      <3>5. QED
        BY <2>5, <3>1, <3>2, <3>3, <3>4 DEF MailAside
    <2>6. QED
      BY <2>1, <2>3, <2>4, <2>5, MailStepsOf
  <1>9. \A q \in Req : Kind(q)' \in Mailing /\ mem'[q].acc = Main => Passed(mem[q].conn.cursor)'
    BY <1>8 DEF Passed
  <1>10. QED
    BY <1>4, <1>8, <1>9 DEF PassInv

-----------------------------------------------------------------------------
(* Every step keeps the threads together *)

\* A mail keeps its thread, and what leads it astray stays.
LEMMA ThreadsLast ==
    ASSUME CoreInv, MailRoutes, MailType, [Next]_vars
    PROVE  /\ msgs \subseteq msgs' /\ \A m \in Mails : box'[m] = box[m]
           /\ \A x \in msgs : x.mail \in Mails /\ x.on \in Tid /\ x.of \in Req
           /\ \A r \in Req : Overlapped(r) => Overlapped(r)'
           /\ \A t, th : Foreign(t, th) => Foreign(t, th)'
           /\ \A th : Stirred(th) => Stirred(th)'
           /\ \A t : \A x \in msgs : Astray(t, x) => Astray(t, x)'
  <1>1. msgs \subseteq msgs' /\ \A m \in Mails : box'[m] = box[m]
    <2>1. CASE \E r \in Req : InboxStep(r)
      <3>1. PICK r \in Req : InboxStep(r)
        BY <2>1
      <3>2. QED
        BY <3>1, MsgWrites, MailWriters
    <2>2. CASE \E r \in Req : Kind(r) \in Mailing /\ InboxFail(r)
      BY <2>2, MailFailure
    <2>3. CASE Arrive
      BY <2>3, MailArrives DEF Arrive, MailType
    <2>4. CASE GrowOld \/ MailAside
      BY <2>4 DEF GrowOld, MailAside, mailbox, google
    <2>5. QED
      BY <2>1, <2>2, <2>3, <2>4, MailStepsOf
  <1>2. \A x \in msgs : x.mail \in Mails /\ x.on \in Tid /\ x.of \in Req
    BY DEF MailType, RowType
  <1>3. \A r \in Req : Overlapped(r) => Overlapped(r)'
    BY NotedLasts
  <1>4. \A t, th : Foreign(t, th) => Foreign(t, th)'
    BY <1>1, <1>2 DEF Foreign, Thread
  <1>5. \A th : Stirred(th) => Stirred(th)'
    BY <1>1, <1>2, <1>3 DEF Stirred, Thread
  <1>6. \A t : \A x \in msgs : Astray(t, x) => Astray(t, x)'
    <2>1. SUFFICES ASSUME NEW t, NEW x \in msgs, Astray(t, x) PROVE Astray(t, x)'
      OBVIOUS
    <2>2. Thread(x.mail)' = Thread(x.mail)
      BY <1>1, <1>2 DEF Thread
    <2>3. QED
      BY <1>4, <1>5, <2>1, <2>2 DEF Astray
  <1>7. QED
    BY <1>1, <1>2, <1>3, <1>4, <1>5, <1>6

\* A process that stays where it is misses a message only of a process that overlaps it.
LEMMA FollowsOn ==
    ASSUME CoreInv, MailRoutes, MailType, [Next]_vars, NEW q \in Req, Follows(q),
           pc'[q] = pc[q], mem'[q] = mem[q], Kind(q)' = Kind(q),
           \A t \in Tid : ticket[t].live => ticket'[t].live,
           pc[q] \notin Ended => \A y \in msgs' : y \in msgs \/ (Overlapped(q)' /\ Overlapped(y.of)')
    PROVE  Follows(q)'
  <1>1. /\ msgs \subseteq msgs' /\ \A m \in Mails : box'[m] = box[m]
        /\ \A x \in msgs : x.mail \in Mails /\ x.on \in Tid /\ x.of \in Req
        /\ \A r \in Req : Overlapped(r) => Overlapped(r)'
        /\ \A t, th : Foreign(t, th) => Foreign(t, th)'
        /\ \A th : Stirred(th) => Stirred(th)'
        /\ \A t : \A x \in msgs : Astray(t, x) => Astray(t, x)'
    BY ThreadsLast
  <1>2. Carries(q)
    BY DEF MailType
  <1>3. \A x \in msgs : Thread(x.mail)' = Thread(x.mail)
    BY <1>1 DEF Thread
  <1>4. ASSUME pc[q] = "append"
        PROVE  ticket'[mem[q].t].live /\ \A y \in msgs' : y.on # mem[q].t /\ Thread(y.mail)' = box'[mem[q].m].thread
                                            => (\E t \in {mem[q].t} : Astray(t, y)') \/ Overlapped(q)'
    <2>1. mem[q].t \in Tid /\ mem[q].m \in Mails /\ pc[q] \notin Ended
      BY <1>2, <1>4 DEF Carries, Matching, Ended
    <2>2. ticket'[mem[q].t].live
      BY <1>4, <2>1 DEF Follows
    <2>3. ASSUME NEW y \in msgs', y.on # mem[q].t, Thread(y.mail)' = box'[mem[q].m].thread
          PROVE  (\E t \in {mem[q].t} : Astray(t, y)') \/ Overlapped(q)'
      <3>1. CASE y \in msgs
        <4>1. Thread(y.mail) = Thread(mem[q].m)
          BY <1>1, <1>3, <2>1, <2>3, <3>1 DEF Thread
        <4>2. Astray(mem[q].t, y) \/ Overlapped(q)
          BY <1>4, <2>3, <3>1, <4>1 DEF Follows
        <4>3. QED
          BY <1>1, <3>1, <4>2
      <3>2. QED
        BY <2>1, <3>1
    <2>4. QED
      BY <2>2, <2>3
  <1>5. ASSUME pc[q] \in {"sender", "open"}
        PROVE  \A y \in msgs' : Thread(y.mail)' = box'[mem[q].m].thread
                   => (\E th \in {Thread(y.mail)'} : Stirred(th)' \/ Foreign(y.on, th)') \/ Overlapped(q)'
    <2>1. mem[q].m \in Mails /\ pc[q] \notin Ended
      BY <1>2, <1>5 DEF Carries, Matching, Ended
    <2>2. ASSUME NEW y \in msgs', Thread(y.mail)' = box'[mem[q].m].thread
          PROVE  (\E th \in {Thread(y.mail)'} : Stirred(th)' \/ Foreign(y.on, th)') \/ Overlapped(q)'
      <3>1. CASE y \in msgs
        <4>1. Thread(y.mail) = Thread(mem[q].m) /\ Thread(y.mail)' = Thread(y.mail)
          BY <1>1, <1>3, <2>1, <2>2, <3>1 DEF Thread
        <4>2. Stirred(Thread(y.mail)) \/ Foreign(y.on, Thread(y.mail)) \/ Overlapped(q)
          BY <1>5, <3>1, <4>1 DEF Follows
        <4>3. QED
          BY <1>1, <4>1, <4>2
      <3>2. QED
        BY <2>1, <3>1
    <2>3. QED
      BY <2>2
  <1>6. ASSUME Replying(q), Kind(q) = "reply", mem[q].thread = None \/ pc[q] = "adopt"
        PROVE  \A x \in msgs' : x.on = mem[q].t => Overlapped(x.of)' \/ (\E th \in {Thread(x.mail)'} : Foreign(x.on, th)')
    <2>1. pc[q] \notin Ended
      BY <1>6, KindsAt
    <2>2. \A x \in msgs : x.on = mem[q].t => Overlapped(x.of) \/ Foreign(x.on, Thread(x.mail))
      BY <1>6 DEF Follows
    <2>3. QED
      BY <1>1, <1>3, <2>1, <2>2
  <1>7. Replying(q)' <=> Replying(q)
    BY DEF Replying
  <1>8. QED
    <2>1. pc'[q] = "append" => ticket'[mem'[q].t].live
      BY <1>4
    <2>2. \A y \in msgs' : pc'[q] = "append" /\ y.on # mem'[q].t /\ Thread(y.mail)' = Thread(mem[q].m)' => Astray(mem[q].t, y)' \/ Overlapped(q)'
      BY <1>4 DEF Thread, Astray
    <2>3. \A y \in msgs' : pc'[q] \in {"sender", "open"} /\ Thread(y.mail)' = Thread(mem[q].m)'
             => Stirred(Thread(y.mail))' \/ Foreign(y.on, Thread(y.mail))' \/ Overlapped(q)'
      BY <1>5 DEF Thread, Stirred, Foreign
    <2>4. Replying(q)' /\ Kind(q)' = "reply" /\ (mem'[q].thread = None \/ pc'[q] = "adopt") =>
             \A x \in msgs' : x.on = mem'[q].t => Overlapped(x.of)' \/ Foreign(x.on, Thread(x.mail))'
      BY <1>6, <1>7 DEF Thread, Foreign
    <2>5. /\ Kind(q)' \in Syncing => pc'[q] # "adopt" /\ (Replying(q)' => mem'[q].thread # None)
          /\ pc'[q] = "adopt" => mem'[q].thread > MaxMail
      BY <1>7 DEF Follows
    <2>6. QED
      BY <2>1, <2>2, <2>3, <2>4, <2>5 DEF Follows

\* The ticket a mail is found has its thread or none of its thread has, unless something was led astray.
LEMMA MatchFollows ==
    ASSUME MailType, ThreadInv, NEW r \in Req, Match(r), DOMAIN pc = Req, DOMAIN mem = Req, DOMAIN mem[r] = DOMAIN NoMem
    PROVE  /\ mem'[r].m = mem[r].m
           /\ pc'[r] = "append" => /\ mem'[r].t \in Tid /\ ticket[mem'[r].t].live
                                   /\ \A y \in msgs : y.on # mem'[r].t /\ Thread(y.mail) = Thread(mem[r].m) => Astray(mem'[r].t, y)
           /\ pc'[r] = "sender" => \A y \in msgs : Thread(y.mail) = Thread(mem[r].m)
                                        => Stirred(Thread(y.mail)) \/ Foreign(y.on, Thread(y.mail))
           /\ pc'[r] \in {"append", "sender"}
  <1>1. /\ mem[r].m \in Mails /\ Thread(mem[r].m) \in 1..MaxMail
        /\ \A x \in msgs : x.mail \in Mails /\ x.on \in Tid /\ x.of \in Req
    BY DEF MailType, BoxType, RowType, Carries, Matching, Match, At
  <1>2. \/ pc'[r] = "sender" /\ mem'[r] = mem[r] /\ Continues(box[mem[r].m]) = {}
        \/ pc'[r] = "append" /\ \E t \in Continues(box[mem[r].m]) : mem'[r] = [mem[r] EXCEPT !.t = t]
    BY DEF Match, Skip, Read, Go, Hold
  <1>3. mem'[r].m = mem[r].m /\ (pc'[r] = "append" => mem'[r].t \in Continues(box[mem[r].m]))
    BY <1>2, NoMemFields
  <1>4. \A t \in Continues(box[mem[r].m]) :
            /\ t \in Tid /\ ticket[t].live
            /\ ticket[t].thread = Thread(mem[r].m) \/ \A u \in Tid : ~(ticket[u].live /\ ticket[u].thread = Thread(mem[r].m))
    BY DEF Continues, Thread
  <1>5. Continues(box[mem[r].m]) = {} => \A u \in Tid : ~(ticket[u].live /\ ticket[u].thread = Thread(mem[r].m))
    BY DEF Continues, Thread
  <1>6. ASSUME \A u \in Tid : ~(ticket[u].live /\ ticket[u].thread = Thread(mem[r].m)),
               NEW y \in msgs, Thread(y.mail) = Thread(mem[r].m)
        PROVE  Stirred(Thread(y.mail)) \/ Foreign(y.on, Thread(y.mail))
    <2>1. ticket[y.on].live /\ ticket[y.on].thread # Thread(y.mail)
      BY <1>1, <1>6 DEF ThreadInv
    <2>2. Overlapped(y.of) \/ Foreign(y.on, Thread(y.mail))
      BY <2>1 DEF ThreadInv
    <2>3. QED
      BY <2>2 DEF Stirred
  <1>7. ASSUME NEW t \in Tid, ticket[t].live, ticket[t].thread = Thread(mem[r].m),
               NEW y \in msgs, y.on # t, Thread(y.mail) = Thread(mem[r].m)
        PROVE  Astray(t, y)
    <2>1. PICK z \in msgs : z.on = t /\ Thread(z.mail) = Thread(mem[r].m)
      BY <1>1, <1>7 DEF ThreadInv
    <2>2. Astray(z.on, y)
      BY <1>7, <2>1 DEF ThreadInv
    <2>3. QED
      BY <2>1, <2>2
  <1>8. pc'[r] = "append" => \A y \in msgs : y.on # mem'[r].t /\ Thread(y.mail) = Thread(mem[r].m) => Astray(mem'[r].t, y)
    BY <1>3, <1>4, <1>6, <1>7 DEF Astray
  <1>9. pc'[r] = "sender" => \A y \in msgs : Thread(y.mail) = Thread(mem[r].m) => Stirred(Thread(y.mail)) \/ Foreign(y.on, Thread(y.mail))
    BY <1>2, <1>5, <1>6
  <1>10. QED
    BY <1>2, <1>3, <1>4, <1>8, <1>9

\* A step of a process keeps that it misses nothing.
LEMMA FollowsStep ==
    ASSUME CoreInv, MailRoutes, MailType, ThreadInv, NEW r \in Req, InboxStep(r)
    PROVE  Follows(r)'
  <1>1. /\ DOMAIN pc = Req /\ DOMAIN mem = Req /\ DOMAIN mem[r] = DOMAIN NoMem /\ Kind(r)' = Kind(r) /\ On(r)' = On(r) /\ box' = box
        /\ Walks(r) /\ Follows(r) /\ Carries(r) /\ MaxMail \in Nat /\ r \in Nat /\ r > 0 /\ met' = met
    BY MailWalk, MailWriters, InboxStepsElsewhere, Names DEF CoreInv, ProcessType, Elsewhere, ThreadInv, MailType, Walks, Req
  <1>2. \A q : Overlapped(q)' <=> Overlapped(q)
    BY <1>1 DEF Overlapped
  <1>3. msgs' = msgs \/ pc'[r] \in {"files", "ensure"}
    BY MsgWrites, MailEffects
  <1>4. CASE msgs' = msgs
    <2>1. /\ \A t, th : Foreign(t, th)' <=> Foreign(t, th)
          /\ \A th : Stirred(th)' <=> Stirred(th)
          /\ \A t, x : Astray(t, x)' <=> Astray(t, x)
          /\ \A m : Thread(m)' = Thread(m)
      BY <1>1, <1>2, <1>4 DEF Foreign, Stirred, Astray, Thread
    <2>2. pc'[r] = "append" => /\ ticket'[mem'[r].t].live
                               /\ \A y \in msgs : y.on # mem'[r].t /\ Thread(y.mail) = Thread(mem'[r].m) => Astray(mem'[r].t, y) \/ Overlapped(r)
      <3>1. pc'[r] = "append" => Match(r)
        BY MailLeads
      <3>2. Match(r) => ticket' = ticket
        BY MailEffects
      <3>3. QED
        BY <1>1, <3>1, <3>2, MatchFollows
    <2>3. pc'[r] \in {"sender", "open"} => \A y \in msgs : Thread(y.mail) = Thread(mem'[r].m)
                                                => Stirred(Thread(y.mail)) \/ Foreign(y.on, Thread(y.mail)) \/ Overlapped(r)
      <3>1. pc'[r] = "sender" => \A y \in msgs : Thread(y.mail) = Thread(mem'[r].m)
                                                => Stirred(Thread(y.mail)) \/ Foreign(y.on, Thread(y.mail)) \/ Overlapped(r)
        <4>1. pc'[r] = "sender" => Match(r)
          BY MailLeads
        <4>2. QED
          BY <1>1, <4>1, MatchFollows
      <3>2. pc'[r] = "open" => pc[r] = "sender" /\ mem'[r] = mem[r]
        <4>1. pc'[r] = "open" => Sender(r)
          BY MailLeads
        <4>2. QED
          BY <4>1, MailEffects, MemEffects
      <3>3. QED
        BY <1>1, <3>1, <3>2 DEF Follows
    <2>4. Kind(r) \in Syncing => pc'[r] # "adopt" /\ (Replying(r)' => mem'[r].thread # None)
      <3>1. SUFFICES ASSUME Kind(r) \in Syncing, pc'[r] = "adopt" \/ Replying(r)'
                     PROVE  pc'[r] # "adopt" /\ mem'[r].thread # None
        OBVIOUS
      <3>2. Replying(r)' /\ ~ReplyRead(r) /\ ~Rejected(r)
        BY <3>1, MailEffects DEF Replying, Syncing, Rejected
      <3>3. CASE OpenTicket(r)
        <4>1. mem[r].m \in Mails /\ pc'[r] = "ensure"
          BY <1>1, <3>3, MailEffects DEF Carries, Matching
        <4>2. mem'[r] = [mem[r] EXCEPT !.t = <<r, mem[r].m>>, !.thread = Thread(mem[r].m)]
          BY <1>1, <3>3 DEF OpenTicket, Hold, Thread
        <4>3. mem'[r].thread = Thread(mem[r].m)
          BY <1>1, <4>2, NoMemFields
        <4>4. Thread(mem[r].m) \in Nat
          BY <4>1, Names DEF MailType, BoxType
        <4>5. QED
          BY <4>1, <4>3, <4>4, Names
      <3>4. CASE Replying(r)
        <4>1. mem[r].thread # None
          BY <1>1, <3>1, <3>4 DEF Follows
        <4>2. pc'[r] = "adopt" => SendReply(r)
          BY MailLeads
        <4>3. SendReply(r) => mem'[r].thread = mem[r].thread /\ pc'[r] = "files"
          <5>1. SendReply(r) => mem'[r] = [mem[r] EXCEPT !.thread = mem[r].thread] /\ pc'[r] = AfterSend(r)
            BY <1>1, <4>1 DEF SendReply, Hold, Go
          <5>2. QED
            BY <1>1, <3>1, <5>1, NoMemFields DEF AfterSend, Syncing
        <4>4. OpenTicket(r) \/ mem'[r].thread = mem[r].thread
          BY <3>2, <4>3, MemWriters
        <4>5. QED
          BY <3>3, <4>1, <4>2, <4>3, <4>4
      <3>5. QED
        BY <3>2, <3>3, <3>4, MailWalk
    <2>5. Replying(r)' /\ Kind(r) = "reply" /\ (mem'[r].thread = None \/ pc'[r] = "adopt") =>
              \A x \in msgs : x.on = mem'[r].t => Overlapped(x.of) \/ Foreign(x.on, Thread(x.mail))
      <3>1. SUFFICES ASSUME Replying(r)', Kind(r) = "reply", mem'[r].thread = None \/ pc'[r] = "adopt", NEW x \in msgs, x.on = mem'[r].t
                     PROVE  Overlapped(x.of) \/ Foreign(x.on, Thread(x.mail))
        OBVIOUS
      <3>2. ~OpenTicket(r) /\ ~Match(r) /\ ~Rejected(r) /\ pc'[r] # "done"
        BY <3>1, MailEffects DEF Replying, Rejected
      <3>3. CASE ReplyRead(r)
        <4>1. pc'[r] # "adopt"
          BY <3>3, MailEffects
        <4>2. \E a : mem'[r] = [mem[r] EXCEPT !.acc = a, !.conn = conn[a], !.t = On(r), !.thread = ticket[On(r)].thread]
          BY <1>1, <3>2, <3>3, Zenon DEF ReplyRead, Skip, Read, Hold, Go
        <4>3. mem'[r].t = On(r) /\ mem'[r].thread = ticket[On(r)].thread
          BY <1>1, <4>2, NoMemFields
        <4>4. ticket[x.on].thread = None
          BY <3>1, <4>1, <4>3
        <4>5. Thread(x.mail) \in Nat
          BY Names DEF MailType, BoxType, RowType
        <4>6. QED
          BY <4>4, <4>5, Names DEF ThreadInv
      <3>4. CASE Replying(r) /\ ~ReplyRead(r)
        <4>1. mem'[r].t = mem[r].t
          BY <3>2, <3>4, MemWriters
        <4>2. mem[r].thread = None
          <5>1. SendReply(r) /\ mem[r].thread # None => pc'[r] = AfterSend(r)
            BY <1>1 DEF SendReply, Go
          <5>2. SendReply(r) => mem[r].thread = None
            BY <3>1, <3>2, <5>1 DEF AfterSend
          <5>3. pc'[r] = "adopt" => SendReply(r)
            BY MailLeads
          <5>4. ~SendReply(r) => mem'[r].thread = mem[r].thread
            BY <3>2, <3>4, MemWriters
          <5>5. QED
            BY <3>1, <5>2, <5>3, <5>4
        <4>3. QED
          BY <1>1, <3>1, <3>4, <4>1, <4>2 DEF Follows
      <3>5. QED
        BY <3>1, <3>2, <3>3, <3>4, MailWalk
    <2>6. pc'[r] = "adopt" => mem'[r].thread > MaxMail
      <3>1. SUFFICES ASSUME pc'[r] = "adopt" PROVE mem'[r].thread > MaxMail
        OBVIOUS
      <3>2. SendReply(r)
        BY <3>1, MailLeads
      <3>3. mem[r].thread # None => pc'[r] = AfterSend(r)
        BY <1>1, <3>2 DEF SendReply, Go
      <3>4. mem[r].thread = None
        BY <3>1, <3>3 DEF AfterSend
      <3>5. mem'[r] = [mem[r] EXCEPT !.thread = MaxMail + r]
        BY <1>1, <3>2, <3>4 DEF SendReply, Hold
      <3>6. mem'[r].thread = MaxMail + r
        BY <1>1, <3>5, NoMemFields
      <3>7. QED
        BY <1>1, <3>6
    <2>7. QED
      <3>1. pc'[r] = "append" => /\ ticket'[mem'[r].t].live
                                 /\ \A y \in msgs' : y.on # mem'[r].t /\ Thread(y.mail)' = Thread(mem[r].m)' => Astray(mem[r].t, y)' \/ Overlapped(r)'
        BY <1>2, <1>4, <2>1, <2>2 DEF Thread, Astray, Foreign
      <3>2. pc'[r] \in {"sender", "open"} => \A y \in msgs' : Thread(y.mail)' = Thread(mem[r].m)'
                 => Stirred(Thread(y.mail))' \/ Foreign(y.on, Thread(y.mail))' \/ Overlapped(r)'
        BY <1>1, <1>2, <1>4, <2>3 DEF Thread, Stirred, Foreign
      <3>3. Replying(r)' /\ Kind(r)' = "reply" /\ (mem'[r].thread = None \/ pc'[r] = "adopt") =>
                \A x \in msgs' : x.on = mem'[r].t => Overlapped(x.of)' \/ Foreign(x.on, Thread(x.mail))'
        BY <1>1, <1>2, <1>4, <2>5 DEF Thread, Foreign
      <3>4. QED
        BY <1>1, <2>4, <2>6, <3>1, <3>2, <3>3 DEF Follows
  <1>5. CASE Append(r)
    <2>1. pc'[r] = "files"
      BY <1>5, MailEffects
    <2>2. QED
      BY <2>1 DEF Follows, Replying
  <1>6. CASE OpenTicket(r)
    <2>1. pc'[r] = "ensure" /\ Kind(r) \in Syncing /\ mem[r].m \in Mails
      BY <1>1, <1>6, MailEffects DEF Carries, Matching, Syncing
    <2>2. mem'[r] = [mem[r] EXCEPT !.t = <<r, mem[r].m>>, !.thread = Thread(mem[r].m)]
      BY <1>1, <1>6 DEF OpenTicket, Hold, Thread
    <2>3. mem'[r].thread = Thread(mem[r].m)
      BY <1>1, <2>2, NoMemFields
    <2>4. mem'[r].thread # None
      BY <2>1, <2>3, Names DEF MailType, BoxType
    <2>5. QED
      BY <1>1, <2>1, <2>4 DEF Follows, Syncing
  <1>7. QED
    BY <1>4, <1>5, <1>6, MsgWrites

\* A message is stored by a process that is noted as together with whoever else is in flight.
LEMMA StoredTogether ==
    ASSUME CoreInv, MailRoutes, NEW r \in Req, InboxStep(r), NEW q \in Req \ {r}, pc[q] \notin Ended
    PROVE  Overlapped(q) /\ Overlapped(r)
  <1>1. pc[r] \notin Ended
    BY InboxStepsElsewhere DEF Elsewhere, Walks
  <1>2. {q, r} \in met /\ {q, r} = {r, q}
    BY <1>1, Meeting
  <1>3. QED
    BY <1>2 DEF Overlapped

\* A message that is stored has the thread of its ticket, and whatever else has the thread went astray.
LEMMA ThreadStored ==
    ASSUME CoreInv, MailRoutes, MailType, ThreadInv, NEW r \in Req, Append(r) \/ OpenTicket(r), [Next]_vars,
           ~ticket[<<r, mem[r].m>>].live, NEW t, msgs' = msgs \cup {Msg(r, t)},
           t = IF Append(r) THEN mem[r].t ELSE <<r, mem[r].m>>
    PROVE  /\ t \in Tid /\ mem[r].m \in Mails /\ ticket'[t].live /\ ticket'[t].thread = Thread(mem[r].m)
           /\ \A u \in Tid \ {t} : ticket'[u] = ticket[u]
           /\ \A u \in Tid : ticket[u].live => ticket'[u].live
           /\ \A y \in msgs : y.on # t /\ Thread(y.mail) = Thread(mem[r].m) => Astray(t, y) \/ Overlapped(r)
           /\ OpenTicket(r) => \A y \in msgs : y.on # t
  <1>1. InboxStep(r) /\ Carries(r) /\ Follows(r) /\ pc[r] \in {"append", "open"}
    BY MailEffects DEF InboxStep, MailType, ThreadInv
  <1>2. mem[r].m \in Mails /\ t \in Tid
    <2>1. mem[r].m \in Mails /\ (pc[r] = "append" => mem[r].t \in Tid)
      BY <1>1 DEF Carries, Matching
    <2>2. <<r, mem[r].m>> \in Tid
      BY <2>1, Names DEF MailType, BoxType
    <2>3. Append(r) => pc[r] = "append"
      BY DEF Append, At
    <2>4. QED
      BY <2>1, <2>2, <2>3
  <1>3. DOMAIN ticket = Tid /\ \A u \in Tid : DOMAIN ticket[u] = DOMAIN NoTicket
    BY DEF MailType, RowType
  <1>4. ~NewToken(r) /\ ~Adopt(r) /\ (OpenTicket(r) => ~Append(r))
    BY <1>1, MailEffects
  <1>5. /\ \A u \in Tid \ {t} : ticket'[u] = ticket[u]
        /\ \/ ticket'[t] = ticket[t]
           \/ Append(r) /\ Threaded(ticket[t], ticket'[t], Thread(mem[r].m))
           \/ OpenTicket(r) /\ Opened(ticket'[t], Thread(mem[r].m))
    BY <1>1, <1>2, <1>3, <1>4, TicketWrites
  <1>6. ticket'[t].thread = Thread(mem[r].m) /\ ticket'[t].live
    <2>1. CASE Append(r)
      <3>1. ticket[t].live
        BY <1>1, <2>1, MailEffects DEF Follows
      <3>2. ticket'[t] = [ticket[t] EXCEPT !.thread = Thread(mem[r].m)]
        BY <1>2, <1>3, <2>1 DEF Append, Thread
      <3>3. Threaded(ticket[t], ticket'[t], Thread(mem[r].m))
        BY <1>2, <1>3, <3>2, TicketShapes
      <3>4. QED
        BY <3>1, <3>3 DEF Threaded
    <2>2. CASE OpenTicket(r)
      <3>1. ticket'[t] = [live |-> TRUE, thread |-> Thread(mem[r].m), token |-> None]
        BY <1>2, <1>3, <1>4, <2>2 DEF OpenTicket, Thread
      <3>2. QED
        BY <3>1
    <2>3. QED
      BY <2>1, <2>2
  <1>7. \A u \in Tid : ticket[u].live => ticket'[u].live
    BY <1>5, <1>6
  <1>8. OpenTicket(r) => \A y \in msgs : y.on # t
    BY <1>4 DEF ThreadInv
  <1>9. \A y \in msgs : y.on # t /\ Thread(y.mail) = Thread(mem[r].m) => Astray(t, y) \/ Overlapped(r)
    <2>1. CASE Append(r)
      BY <2>1, <1>1, MailEffects DEF Follows
    <2>2. CASE OpenTicket(r)
      BY <2>2, <1>1, MailEffects DEF Follows, Astray
    <2>3. QED
      BY <2>1, <2>2
  <1>10. QED
    BY <1>2, <1>5, <1>6, <1>7, <1>8, <1>9

\* Every step keeps the mails of a thread together.
LEMMA ThreadStep ==
    ASSUME CoreInv, MailRoutes, MailType, ThreadInv, [Next]_vars,
           \A q \in Req : pc[q] \in Matching => ~ticket[<<q, mem[q].m>>].live
    PROVE  ThreadInv'
  <1>1. /\ msgs \subseteq msgs' /\ \A m \in Mails : box'[m] = box[m]
        /\ \A x \in msgs : x.mail \in Mails /\ x.on \in Tid /\ x.of \in Req
        /\ \A r \in Req : Overlapped(r) => Overlapped(r)'
        /\ \A t, th : Foreign(t, th) => Foreign(t, th)'
        /\ \A th : Stirred(th) => Stirred(th)'
        /\ \A t : \A x \in msgs : Astray(t, x) => Astray(t, x)'
    BY ThreadsLast
  <1>2. /\ \A m \in Mails : Thread(m)' = Thread(m) /\ Thread(m) \in 1..MaxMail /\ Mails \subseteq 1..MaxMail
        /\ DOMAIN ticket = Tid /\ \A t \in Tid : DOMAIN ticket[t] = DOMAIN NoTicket /\ ticket[t].thread \in Nat \cup {None}
        /\ None \notin Nat /\ MaxMail \in Nat
    BY <1>1, Names DEF MailType, BoxType, RowType, Thread
  <1>3. ASSUME msgs' = msgs, \A t \in Tid : ticket'[t].live <=> ticket[t].live,
               \A t \in Tid : \/ ticket'[t].thread = ticket[t].thread
                              \/ /\ ticket'[t].thread \notin 1..MaxMail
                                 /\ \A x \in msgs : x.on = t => Overlapped(x.of) \/ Foreign(x.on, Thread(x.mail)),
               \A r \in Req : Follows(r)'
        PROVE  ThreadInv'
    <2>1. ASSUME NEW x \in msgs
          PROVE  ticket'[x.on].live /\ (ticket'[x.on].thread = Thread(x.mail)' \/ Overlapped(x.of)' \/ Foreign(x.on, Thread(x.mail))')
      <3>1. ticket[x.on].live /\ (ticket[x.on].thread = Thread(x.mail) \/ Overlapped(x.of) \/ Foreign(x.on, Thread(x.mail)))
        BY DEF ThreadInv
      <3>2. Overlapped(x.of) \/ Foreign(x.on, Thread(x.mail)) => Overlapped(x.of)' \/ Foreign(x.on, Thread(x.mail))'
        BY <1>1, <1>2 DEF Foreign
      <3>3. QED
        BY <1>1, <1>2, <1>3, <3>1, <3>2
    <2>2. ASSUME NEW t \in Tid, ticket'[t].live, ticket'[t].thread \in 1..MaxMail
          PROVE  \E z \in msgs : z.on = t /\ Thread(z.mail)' = ticket'[t].thread
      BY <1>1, <1>2, <1>3, <2>2 DEF ThreadInv
    <2>3. \A x, y \in msgs : x.on # y.on /\ Thread(x.mail)' = Thread(y.mail)' => Astray(x.on, y)'
      BY <1>1, <1>2 DEF ThreadInv
    <2>4. QED
      BY <1>3, <2>1, <2>2, <2>3 DEF ThreadInv
  <1>4. CASE \E r \in Req : InboxStep(r)
    <2>1. PICK r \in Req : InboxStep(r)
      BY <1>4
    <2>2. /\ Walks(r) /\ \A q \in Req \ {r} : pc'[q] = pc[q] /\ mem'[q] = mem[q] /\ Kind(q)' = Kind(q)
          /\ \A q \in Req : Follows(q)
      BY <2>1, InboxStepsElsewhere DEF Elsewhere, Walks, Kind, ThreadInv
    <2>3. CASE msgs' = msgs /\ ~Append(r) /\ ~OpenTicket(r)
      <3>1. \A t \in Tid : \/ ticket'[t] = ticket[t]
                           \/ \E k : Tokened(ticket[t], ticket'[t], k)
                           \/ Adopt(r) /\ t = mem[r].t /\ Threaded(ticket[t], ticket'[t], mem[r].thread)
        BY <1>2, <2>1, <2>3, TicketWrites
      <3>2. \A t \in Tid : ticket'[t].live <=> ticket[t].live
        BY <3>1 DEF Tokened, Threaded
      <3>3. \A q \in Req \ {r} : Follows(q)'
        BY <2>2, <2>3, <3>2, FollowsOn
      <3>4. Follows(r)'
        BY <2>1, FollowsStep
      <3>5. Adopt(r) => /\ mem[r].thread \notin 1..MaxMail
                        /\ \A x \in msgs : x.on = mem[r].t => Overlapped(x.of) \/ Foreign(x.on, Thread(x.mail))
        <4>1. SUFFICES ASSUME Adopt(r)
                       PROVE  /\ mem[r].thread \notin 1..MaxMail
                              /\ \A x \in msgs : x.on = mem[r].t => Overlapped(x.of) \/ Foreign(x.on, Thread(x.mail))
          OBVIOUS
        <4>2. pc[r] = "adopt" /\ Replying(r) /\ Kind(r) \in Syncing \cup {"reply"}
          BY <4>1, MailEffects DEF Replying, Syncing
        <4>3. Kind(r) = "reply" /\ mem[r].thread > MaxMail
          BY <2>2, <4>2 DEF Follows, Syncing
        <4>4. mem[r].thread \in Nat \cup {None}
          BY <4>2, KindsAt DEF MailType, Carries
        <4>5. ~(mem[r].thread \in 1..MaxMail)
          BY <1>2, <4>3, <4>4
        <4>6. QED
          BY <2>2, <4>2, <4>3, <4>5 DEF Follows
      <3>6. \A t \in Tid : \/ ticket'[t].thread = ticket[t].thread
                           \/ /\ ticket'[t].thread \notin 1..MaxMail
                              /\ \A x \in msgs : x.on = t => Overlapped(x.of) \/ Foreign(x.on, Thread(x.mail))
        BY <3>1, <3>5 DEF Tokened, Threaded
      <3>7. QED
        BY <1>3, <2>3, <3>2, <3>3, <3>4, <3>6
    <2>4. CASE Append(r) \/ OpenTicket(r)
      <3>1. PICK t : msgs' = msgs \cup {Msg(r, t)} /\ t = IF Append(r) THEN mem[r].t ELSE <<r, mem[r].m>>
        BY <2>1, <2>4, MsgWrites, MailEffects
      <3>2. ~ticket[<<r, mem[r].m>>].live
        BY <2>4, MailEffects DEF Matching
      <3>3. /\ t \in Tid /\ mem[r].m \in Mails /\ ticket'[t].live /\ ticket'[t].thread = Thread(mem[r].m)
            /\ \A u \in Tid \ {t} : ticket'[u] = ticket[u]
            /\ \A u \in Tid : ticket[u].live => ticket'[u].live
            /\ \A y \in msgs : y.on # t /\ Thread(y.mail) = Thread(mem[r].m) => Astray(t, y) \/ Overlapped(r)
            /\ OpenTicket(r) => \A y \in msgs : y.on # t
        BY <2>4, <3>1, <3>2, ThreadStored
      <3>4. PICK new : new = Msg(r, t) /\ new.on = t /\ new.mail = mem[r].m /\ new.of = r /\ new \in msgs' /\ msgs' = msgs \cup {new}
        <4>1. Msg(r, t).on = t /\ Msg(r, t).mail = mem[r].m /\ Msg(r, t).of = r
          BY DEF Msg
        <4>2. QED
          BY <3>1, <4>1
      <3>5. Overlapped(r) => Overlapped(r)' /\ Stirred(Thread(new.mail))'
        BY <1>1, <3>4 DEF Stirred
      <3>6. Thread(new.mail)' = Thread(new.mail) /\ Thread(new.mail) \in 1..MaxMail
        BY <1>2, <3>3, <3>4
      <3>7. ASSUME NEW x \in msgs'
            PROVE  ticket'[x.on].live /\ (ticket'[x.on].thread = Thread(x.mail)' \/ Overlapped(x.of)' \/ Foreign(x.on, Thread(x.mail))')
        <4>1. CASE x = new
          BY <3>3, <3>4, <3>6, <4>1
        <4>2. CASE x \in msgs
          <5>1. /\ ticket[x.on].live /\ (ticket[x.on].thread = Thread(x.mail) \/ Overlapped(x.of) \/ Foreign(x.on, Thread(x.mail)))
                /\ x.on \in Tid /\ x.of \in Req /\ Thread(x.mail)' = Thread(x.mail)
            BY <1>1, <1>2, <4>2 DEF ThreadInv
          <5>2. Overlapped(x.of) \/ Foreign(x.on, Thread(x.mail)) => Overlapped(x.of)' \/ Foreign(x.on, Thread(x.mail))'
            BY <1>1, <5>1 DEF Foreign
          <5>3. x.on = t /\ Thread(x.mail) # Thread(new.mail) => Foreign(x.on, Thread(x.mail))'
            BY <3>4, <3>6, <5>1 DEF Foreign
          <5>4. QED
            BY <3>3, <3>4, <5>1, <5>2, <5>3
        <4>3. QED
          BY <3>4, <4>1, <4>2
      <3>8. ASSUME NEW u \in Tid, ticket'[u].live, ticket'[u].thread \in 1..MaxMail
            PROVE  \E z \in msgs' : z.on = u /\ Thread(z.mail)' = ticket'[u].thread
        <4>1. CASE u = t
          BY <3>3, <3>4, <3>6, <4>1
        <4>2. CASE u # t
          BY <1>1, <1>2, <3>3, <3>8, <4>2 DEF ThreadInv
        <4>3. QED
          BY <4>1, <4>2
      <3>9. ASSUME NEW x \in msgs', NEW y \in msgs', x.on # y.on, Thread(x.mail)' = Thread(y.mail)'
            PROVE  Astray(x.on, y)'
        <4>1. CASE x \in msgs /\ y \in msgs
          BY <1>1, <1>2, <3>9, <4>1 DEF ThreadInv
        <4>2. CASE x = new /\ y \in msgs
          <5>1. Thread(y.mail) = Thread(mem[r].m) /\ y.on # t /\ Thread(y.mail)' = Thread(new.mail)'
            BY <1>1, <1>2, <3>4, <3>6, <3>9, <4>2
          <5>2. Astray(t, y) => Astray(t, y)'
            BY <1>1, <4>2
          <5>3. Overlapped(r) => Astray(t, y)'
            BY <3>5, <5>1 DEF Astray
          <5>4. QED
            BY <3>3, <3>4, <4>2, <5>1, <5>2, <5>3
        <4>3. CASE x \in msgs /\ y = new
          <5>1. Thread(x.mail) = Thread(mem[r].m) /\ x.on # t /\ Thread(x.mail)' = Thread(new.mail)'
            BY <1>1, <1>2, <3>4, <3>6, <3>9, <4>3
          <5>2. Astray(t, x)' => Astray(x.on, y)'
            BY <3>4, <4>3, <5>1 DEF Astray
          <5>3. Astray(t, x) => Astray(t, x)'
            BY <1>1, <4>3
          <5>4. Overlapped(r) => Astray(x.on, y)'
            BY <3>5, <4>3, <5>1 DEF Astray
          <5>5. QED
            BY <3>3, <4>3, <5>1, <5>2, <5>3, <5>4
        <4>4. QED
          BY <3>4, <3>9, <4>1, <4>2, <4>3
      <3>10. Follows(r)'
        BY <2>1, FollowsStep
      <3>11. ASSUME NEW q \in Req \ {r} PROVE Follows(q)'
        <4>1. pc[q] \notin Ended => Overlapped(q)' /\ Overlapped(r)'
          BY <1>1, <2>1, StoredTogether
        <4>2. pc[q] \notin Ended => \A y \in msgs' : y \in msgs \/ (Overlapped(q)' /\ Overlapped(y.of)')
          BY <3>4, <4>1
        <4>3. QED
          BY <2>2, <3>3, <4>2, FollowsOn
      <3>12. QED
        BY <3>7, <3>8, <3>9, <3>10, <3>11 DEF ThreadInv
    <2>5. QED
      BY <2>1, <2>3, <2>4, MsgWrites
  <1>5. ASSUME msgs' = msgs, ticket' = ticket,
               \A q \in Req : \/ pc'[q] = pc[q] /\ mem'[q] = mem[q] /\ Kind(q)' = Kind(q)
                              \/ pc'[q] \notin MailSteps \/ (pc'[q] \notin Matching \cup {"adopt"} /\ ~Replying(q)')
        PROVE  ThreadInv'
    <2>1. ASSUME NEW q \in Req PROVE Follows(q)'
      <3>1. CASE pc'[q] = pc[q] /\ mem'[q] = mem[q] /\ Kind(q)' = Kind(q)
        BY <1>5, <3>1, FollowsOn DEF ThreadInv
      <3>2. CASE pc'[q] \notin MailSteps \/ (pc'[q] \notin Matching \cup {"adopt"} /\ ~Replying(q)')
        BY <3>2 DEF Follows, Replying, MailSteps, Matching, Sending, Walking
      <3>3. QED
        BY <1>5, <3>1, <3>2
    <2>2. QED
      BY <1>3, <1>5, <2>1
  <1>6. CASE \E r \in Req : Kind(r) \in Mailing /\ InboxFail(r)
    <2>1. PICK r \in Req : Kind(r) \in Mailing /\ InboxFail(r)
      BY <1>6
    <2>2. /\ Walks(r) /\ mem' = mem /\ msgs' = msgs /\ ticket' = ticket /\ ~Replying(r)'
          /\ pc'[r] \in Ended \cup {"files", "loop", "next", "wipe"}
      BY <2>1, FailureWalk, MailFailure
    <2>3. \A q \in Req \ {r} : pc'[q] = pc[q] /\ mem'[q] = mem[q] /\ Kind(q)' = Kind(q)
      BY <2>2 DEF Walks, Kind
    <2>4. pc'[r] \notin Matching \cup {"adopt"}
      BY <2>2 DEF Matching, Ended
    <2>5. QED
      BY <1>5, <2>2, <2>3, <2>4
  <1>7. CASE Arrive \/ GrowOld
    BY <1>5, <1>7 DEF Arrive, GrowOld, Same, Kind
  <1>8. CASE MailAside
    <2>1. \A q \in Req : (pc'[q] = pc[q] /\ mem'[q] = mem[q] /\ Kind(q)' = Kind(q)) \/ pc'[q] \notin MailSteps
      BY <1>8, AsideWalk DEF Kind
    <2>2. QED
      BY <1>5, <1>8, <2>1 DEF MailAside, mailbox
  <1>9. QED
    BY <1>4, <1>6, <1>7, <1>8, MailStepsOf

-----------------------------------------------------------------------------
(* Every step keeps the tokens their tickets' *)

\* A ticket comes to be when it is opened, and gets its tokens from those that make them.
LEMMA TicketMoves ==
    ASSUME CoreInv, MailRoutes, MailType, NEW r \in Req, InboxStep(r), NEW t \in Tid
    PROVE  /\ ticket[t].live => ticket'[t].live
           /\ ticket'[t].live => ticket[t].live \/ (OpenTicket(r) /\ t = <<r, mem[r].m>>)
           /\ OpenTicket(r) /\ t = <<r, mem[r].m>> => ticket'[t].live
           /\ \/ ticket'[t].token = ticket[t].token
              \/ NewToken(r) /\ t = mem[r].t /\ ticket'[t].token = <<r, mem[r].m>>
              \/ OpenTicket(r) /\ t = <<r, mem[r].m>> /\ ticket'[t].token = None
  <1>1. DOMAIN ticket = Tid /\ \A u \in Tid : DOMAIN ticket[u] = DOMAIN NoTicket
    BY DEF MailType, RowType
  <1>2. \/ ticket'[t] = ticket[t]
        \/ \E th : Threaded(ticket[t], ticket'[t], th)
        \/ OpenTicket(r) /\ t = <<r, mem[r].m>> /\ Opened(ticket'[t], Thread(mem[r].m))
        \/ NewToken(r) /\ t = mem[r].t /\ Tokened(ticket[t], ticket'[t], <<r, mem[r].m>>)
    BY <1>1, TicketWrites
  <1>3. OpenTicket(r) /\ t = <<r, mem[r].m>> => ticket'[t].live
    <2>1. OpenTicket(r) /\ t = <<r, mem[r].m>> => ticket'[t] = [live |-> TRUE, thread |-> Thread(mem[r].m), token |-> None]
      BY <1>1 DEF OpenTicket, Thread
    <2>2. QED
      BY <2>1
  <1>4. QED
    BY <1>2, <1>3 DEF Threaded, Opened, Tokened

\* Tickets change by the steps of the inbox alone, and none is taken away.
LEMMA LiveLasts ==
    ASSUME CoreInv, MailRoutes, MailType, [Next]_vars
    PROVE  /\ ticket' = ticket \/ \E r \in Req : InboxStep(r)
           /\ \A t \in Tid : ticket[t].live => ticket'[t].live
  <1>1. ticket' = ticket \/ \E r \in Req : InboxStep(r)
    <2>1. CASE \E r \in Req : Kind(r) \in Mailing /\ InboxFail(r)
      BY <2>1, MailFailure
    <2>2. CASE Arrive \/ GrowOld \/ MailAside
      BY <2>2 DEF Arrive, GrowOld, MailAside, mailbox
    <2>3. QED
      BY <2>1, <2>2, MailStepsOf
  <1>2. QED
    BY <1>1, TicketMoves

\* A token that was made stays so, and remains the token of its ticket.
LEMMA SpentLasts ==
    ASSUME CoreInv, MailRoutes, MailType, [Next]_vars, NEW k \in Token, Spent(k),
           \A r \in Req : pc[r] \in Matching => ~ticket[<<r, mem[r].m>>].live
    PROVE  Spent(k)' /\ Bears(k)' = Bears(k)
  <1>1. PICK p \in Req : p = k[1]
    BY Names
  <1>2. /\ Kind(p) \in Syncing \cup {"reply"} /\ Kind(p)' = Kind(p) /\ On(p)' = On(p) /\ Kind(p) \in Mailing
        /\ pc[p] # "free" /\ (Kind(p) = "reply" => Kind(p) \notin Syncing)
    BY <1>1, NotedLasts DEF Spent, Syncing, Mailing, CoreInv, ProcessType
  <1>3. Bears(k)' = Bears(k)
    BY <1>1, <1>2 DEF Bears
  <1>4. \/ pc'[p] = pc[p] /\ mem'[p] = mem[p]
        \/ pc'[p] \notin {"free", "start", "ensure", "token"}
        \/ InboxStep(p) /\ pc'[p] \in {"ensure", "token"}
    <2>1. CASE \E r \in Req : InboxStep(r)
      <3>1. PICK r \in Req : InboxStep(r)
        BY <2>1
      <3>2. Walks(r) /\ (pc'[r] \in Ended \/ Serves(Kind(r), pc'[r]))
        BY <3>1, InboxStepsElsewhere, MailGoesOn DEF Elsewhere
      <3>3. pc'[r] # "free" /\ pc'[r] # "start"
        BY <3>2 DEF Walks, Ended, Serves, Sending, Walking
      <3>4. QED
        BY <3>1, <3>2, <3>3 DEF Walks
    <2>2. CASE \E r \in Req : Kind(r) \in Mailing /\ InboxFail(r)
      <3>1. PICK r \in Req : Kind(r) \in Mailing /\ InboxFail(r)
        BY <2>2
      <3>2. Walks(r) /\ pc'[r] \in Ended \cup {"files", "loop", "next", "wipe"}
        BY <3>1, FailureWalk, MailFailure
      <3>3. pc'[r] \notin {"free", "start", "ensure", "token"}
        BY <3>2 DEF Walks, Ended
      <3>4. QED
        BY <3>2, <3>3 DEF Walks
    <2>3. CASE Arrive \/ GrowOld
      BY <2>3 DEF Arrive, GrowOld, Same
    <2>4. CASE MailAside
      BY <1>2, <2>4 DEF MailAside
    <2>5. QED
      BY <2>1, <2>2, <2>3, <2>4, MailStepsOf
  <1>5. CASE Kind(p) = "reply"
    <2>1. pc[p] \notin {"free", "start", "ensure", "token"}
      BY <1>1, <1>2, <1>5 DEF Spent
    <2>2. ~(InboxStep(p) /\ pc'[p] \in {"ensure", "token"})
      <3>1. InboxStep(p) /\ pc'[p] \in {"ensure", "token"} => ReplyRead(p) \/ OpenTicket(p) \/ Ensure(p)
        BY MailLeads
      <3>2. QED
        BY <1>2, <1>5, <2>1, <3>1, MailEffects DEF Syncing
    <2>3. QED
      BY <1>1, <1>2, <1>3, <1>4, <1>5, <2>1, <2>2 DEF Spent
  <1>6. CASE Kind(p) \in Syncing
    <2>1. k \in Tid /\ ticket[k].live /\ ~(pc[p] \in {"ensure", "token"} /\ mem[p].m = k[2])
      BY <1>1, <1>2, <1>6 DEF Spent
    <2>2. ticket'[k].live
      BY <2>1, LiveLasts
    <2>3. InboxStep(p) /\ pc'[p] \in {"ensure", "token"} => mem'[p].m # k[2]
      <3>1. SUFFICES ASSUME InboxStep(p), pc'[p] \in {"ensure", "token"} PROVE mem'[p].m # k[2]
        OBVIOUS
      <3>2. OpenTicket(p) \/ (Ensure(p) /\ pc[p] = "ensure")
        BY <1>6, <3>1, MailLeads, MailEffects DEF Syncing
      <3>3. mem'[p].m = mem[p].m
        BY <3>2, MemEffects
      <3>4. OpenTicket(p) => mem[p].m # k[2]
        <4>1. OpenTicket(p) => ~ticket[<<p, mem[p].m>>].live
          BY MailEffects DEF Matching
        <4>2. k = <<k[1], k[2]>>
          BY Names
        <4>3. QED
          BY <1>1, <2>1, <4>1, <4>2
      <3>5. QED
        BY <2>1, <3>2, <3>3, <3>4
    <2>4. ~(pc'[p] \in {"ensure", "token"} /\ mem'[p].m = k[2])
      BY <1>4, <2>1, <2>3
    <2>5. QED
      BY <1>1, <1>2, <1>3, <1>6, <2>1, <2>2, <2>4 DEF Spent
  <1>7. QED
    BY <1>2, <1>5, <1>6

\* A ticket that has lost a token does not get it again.
LEMMA LostLasts ==
    ASSUME CoreInv, MailRoutes, MailType, [Next]_vars, NEW k \in Token, Spent(k), Bears(k) \in Tid, Lost(k),
           \A r \in Req : pc[r] \in Matching => ~ticket[<<r, mem[r].m>>].live
    PROVE  Lost(k)'
  <1>1. Bears(k)' = Bears(k)
    BY SpentLasts
  <1>2. SUFFICES ticket'[Bears(k)].token # k
    BY <1>1 DEF Lost
  <1>3. CASE ticket' = ticket
    BY <1>3 DEF Lost
  <1>4. CASE \E r \in Req : InboxStep(r)
    <2>1. PICK r \in Req : InboxStep(r)
      BY <1>4
    <2>2. \/ ticket'[Bears(k)].token = ticket[Bears(k)].token
          \/ NewToken(r) /\ ticket'[Bears(k)].token = <<r, mem[r].m>>
          \/ ticket'[Bears(k)].token = None
      BY <2>1, TicketMoves
    <2>3. NewToken(r) => k # <<r, mem[r].m>>
      <3>1. NewToken(r) => pc[r] = "token"
        BY MailEffects
      <3>2. k = <<r, mem[r].m>> => k[1] = r /\ k[2] = mem[r].m
        OBVIOUS
      <3>3. QED
        BY <3>1, <3>2 DEF Spent
    <2>4. QED
      BY <2>2, <2>3, Names DEF Lost
  <1>5. QED
    BY <1>3, <1>4, LiveLasts

\* Who owns a token keeps it, and a mail that belongs to a ticket stays there.
LEMMA OwnsLasts ==
    ASSUME CoreInv, MailRoutes, MailType, SignalInv, [Next]_vars,
           \A r \in Req : pc[r] \in Matching => ~ticket[<<r, mem[r].m>>].live
    PROVE  /\ \A t, k : Owns(t, k) => Owns(t, k)'
           /\ \A m \in Mails : box[m].token # None /\ Lost(box[m].token) => Lost(box[m].token)'
           /\ \A t : \A m \in Mails : Belongs(t, m) => Belongs(t, m)'
  <1>1. \A t, k : Owns(t, k) => Owns(t, k)'
    BY SpentLasts DEF Owns
  <1>2. /\ msgs \subseteq msgs' /\ \A m \in Mails : box'[m] = box[m]
        /\ \A x \in msgs : x.mail \in Mails
    BY ThreadsLast
  <1>3. ASSUME NEW m \in Mails, box[m].token # None
        PROVE  /\ Bears(box[m].token)' = Bears(box[m].token)
               /\ Lost(box[m].token) => Lost(box[m].token)'
    <2>1. PICK k \in Token : k = box[m].token
      BY <1>3 DEF MailType, BoxType
    <2>2. Spent(k) /\ Bears(k) \in Tid
      BY <1>3, <2>1 DEF SignalInv
    <2>3. box'[m].token = k
      BY <1>2, <2>1
    <2>4. Bears(k)' = Bears(k) /\ (Lost(k) => Lost(k)')
      BY <2>2, SpentLasts, LostLasts
    <2>5. QED
      BY <2>1, <2>3, <2>4 DEF Lost, Bears
  <1>4. ASSUME NEW t, NEW m \in Mails, Belongs(t, m) PROVE Belongs(t, m)'
    <2>1. Elder(t, m) => Elder(t, m)'
      BY <1>2 DEF Elder, Thread
    <2>2. Elder(t, m) \/ (/\ box[m].header # None => t = box[m].header
                          /\ box[m].number # None => t = box[m].number
                          /\ box[m].token # None => t = Bears(box[m].token) \/ Lost(box[m].token))
      BY <1>4 DEF Belongs
    <2>3. box'[m] = box[m]
      BY <1>2
    <2>4. box'[m].token # None => box[m].token # None
      BY <2>3
    <2>5. QED
      BY <1>3, <2>1, <2>2, <2>3, <2>4 DEF Belongs
  <1>5. QED
    BY <1>1, <1>3, <1>4

\* A process that has not moved knows what it knew, when nobody opened its ticket and whoever gave its ticket a
\* token, or sent a mail, overlapped it.
LEMMA KnowsOn ==
    ASSUME CoreInv, MailRoutes, MailType, SignalInv, [Next]_vars, NEW q \in Req, Knows(q),
           \A r \in Req : pc[r] \in Matching => ~ticket[<<r, mem[r].m>>].live,
           pc'[q] = pc[q], mem'[q] = mem[q], Kind(q)' = Kind(q),
           pc[q] \in Matching => ~ticket'[<<q, mem[q].m>>].live,
           pc[q] \notin Ended => \A t \in Tid : ticket[t].live => ticket'[t].token = ticket[t].token \/ Overlapped(q)',
           pc[q] \notin Ended => \A s \in sent' : s \in sent \/ Overlapped(s.of)'
    PROVE  Knows(q)'
  <1>1. /\ \A m \in Mails : box'[m] = box[m]
        /\ \A r \in Req : Overlapped(r) => Overlapped(r)'
        /\ \A t \in Tid : ticket[t].live => ticket'[t].live
        /\ \A t, k : Owns(t, k) => Owns(t, k)'
        /\ \A m \in Mails : box[m].token # None /\ Lost(box[m].token) => Lost(box[m].token)'
        /\ \A t : \A m \in Mails : Belongs(t, m) => Belongs(t, m)'
    BY ThreadsLast, LiveLasts, OwnsLasts
  <1>2. /\ Replying(q)' <=> Replying(q)
        /\ Bearing(q)' <=> Bearing(q)
    BY DEF Replying, Bearing
  <1>3. /\ Replying(q) => mem[q].t \in Tid /\ pc[q] \notin Ended
        /\ Bearing(q) => Replying(q)
        /\ pc[q] \in Matching => mem[q].m \in Mails /\ pc[q] \notin Ended
        /\ \A s \in sent : s.of \in Req
    <2>1. Carries(q) /\ (Replying(q) => Kind(q) \in Syncing \cup {"reply"} /\ pc[q] \notin Ended) /\ (Bearing(q) => Replying(q))
      BY KindsAt DEF MailType
    <2>2. Replying(q) => mem[q].t \in Tid
      <3>1. Replying(q) /\ Kind(q) # "reply" => mem[q].m \in Mails /\ mem[q].t = <<q, mem[q].m>>
        BY <2>1 DEF Carries, Filing
      <3>2. mem[q].m \in Mails => <<q, mem[q].m>> \in Tid
        BY Names DEF MailType, BoxType
      <3>3. QED
        BY <2>1, <3>1, <3>2 DEF Carries
    <2>3. QED
      BY <2>1, <2>2 DEF Carries, Matching, Ended, MailType, RowType
  <1>4. /\ pc[q] \in Matching => ~ticket'[<<q, mem[q].m>>].live
        /\ Replying(q) => ticket'[mem[q].t].live
    BY <1>1, <1>3 DEF Knows
  <1>5. Bearing(q) => Owns(mem[q].t, mem[q].token)' /\ (ticket'[mem[q].t].token = mem[q].token \/ Overlapped(q)')
    <2>1. Bearing(q) => /\ Owns(mem[q].t, mem[q].token) /\ (ticket[mem[q].t].token = mem[q].token \/ Overlapped(q))
                        /\ ticket[mem[q].t].live /\ mem[q].t \in Tid /\ pc[q] \notin Ended
      BY <1>3 DEF Knows
    <2>2. Owns(mem[q].t, mem[q].token) => Owns(mem[q].t, mem[q].token)'
      <3>1. \A t, k : t = mem[q].t /\ k = mem[q].token /\ Owns(t, k) => Owns(mem[q].t, mem[q].token)'
        BY <1>1 DEF Owns
      <3>2. QED
        BY <3>1
    <2>3. QED
      BY <1>1, <2>1, <2>2
  <1>6. pc[q] = "token" => \A s \in sent' : s.t = mem[q].t => Overlapped(s.of)'
    BY <1>1, <1>3 DEF Knows, Ended
  <1>7. pc[q] = "append" => Belongs(mem[q].t, mem[q].m)'
    <2>1. SUFFICES ASSUME pc[q] = "append" PROVE Belongs(mem[q].t, mem[q].m)'
      OBVIOUS
    <2>2. PICK t, m : t = mem[q].t /\ m = mem[q].m /\ m \in Mails /\ mem'[q].t = t /\ mem'[q].m = m
      BY <1>3, <2>1 DEF Matching
    <2>3. Belongs(t, m)'
      BY <1>1, <2>1, <2>2 DEF Knows
    <2>4. QED
      BY <2>2, <2>3 DEF Belongs, Elder, Thread
  <1>8. pc[q] \in {"sender", "open"} =>
            /\ box'[mem[q].m].header = None /\ box'[mem[q].m].number = None
            /\ box'[mem[q].m].token # None => Lost(box[mem[q].m].token)'
    BY <1>1, <1>3 DEF Knows, Matching, Lost
  <1>9. QED
    BY <1>2, <1>4, <1>5, <1>6, <1>7, <1>8 DEF Knows, Lost

\* Who makes a token is the owner's process, and makes it for its ticket.
LEMMA TokenMade ==
    ASSUME CoreInv, MailRoutes, MailType, NEW r \in Req, NewToken(r), [Next]_vars, ticket[mem[r].t].live
    PROVE  /\ mem[r].t \in Tid /\ <<r, mem[r].m>> \in Token
           /\ Owns(mem[r].t, <<r, mem[r].m>>)' /\ ticket'[mem[r].t].live
           /\ ticket'[mem[r].t].token = <<r, mem[r].m>>
           /\ mem'[r].t = mem[r].t /\ mem'[r].m = mem[r].m /\ mem'[r].token = <<r, mem[r].m>>
  <1>1. /\ InboxStep(r) /\ Carries(r) /\ Replying(r) /\ pc'[r] \in {"refresh", "send"}
        /\ Kind(r) \in Syncing \cup {"reply"} /\ (Kind(r) = "reply" => Kind(r) \notin Syncing) /\ Kind(r)' = Kind(r) /\ On(r)' = On(r)
        /\ DOMAIN mem = Req /\ DOMAIN mem[r] = DOMAIN NoMem
        /\ DOMAIN ticket = Tid /\ \A t \in Tid : DOMAIN ticket[t] = DOMAIN NoTicket
    BY MailEffects, MailWalk DEF InboxStep, MailType, RowType, Replying, Syncing, CoreInv, ProcessType
  <1>2. /\ mem[r].m \in 0..MaxMail /\ <<r, mem[r].m>> \in Token
        /\ mem[r].t = IF Kind(r) = "reply" THEN On(r) ELSE <<r, mem[r].m>>
        /\ Kind(r) = "reply" => On(r) \in Tid
    <2>1. Kind(r) \in Mailing
      BY <1>1 DEF Syncing, Mailing
    <2>2. QED
      BY <1>1, <2>1, Names DEF Carries
  <1>3. mem[r].t \in Tid
    <2>1. Kind(r) # "reply" => mem[r].m \in Mails
      BY <1>1 DEF Carries, Filing
    <2>2. mem[r].m \in Mails => <<r, mem[r].m>> \in Tid
      BY Names DEF MailType, BoxType
    <2>3. QED
      BY <1>2, <2>1, <2>2
  <1>4. ticket'[mem[r].t].token = <<r, mem[r].m>> /\ ticket'[mem[r].t].live
    <2>1. ticket'[mem[r].t] = [ticket[mem[r].t] EXCEPT !.token = <<r, mem[r].m>>]
      BY <1>1, <1>3 DEF NewToken
    <2>2. Tokened(ticket[mem[r].t], ticket'[mem[r].t], <<r, mem[r].m>>)
      BY <1>1, <1>3, <2>1, TicketShapes
    <2>3. QED
      BY <2>2 DEF Tokened
  <1>5. mem'[r].t = mem[r].t /\ mem'[r].m = mem[r].m /\ mem'[r].token = <<r, mem[r].m>>
    <2>1. mem'[r] = [mem[r] EXCEPT !.token = <<r, mem[r].m>>, !.next = "send"]
      BY <1>1 DEF NewToken, Hold
    <2>2. QED
      BY <1>1, <2>1, NoMemFields
  <1>6. Owns(mem[r].t, <<r, mem[r].m>>)'
    <2>1. PICK k \in Token : k = <<r, mem[r].m>> /\ k[1] = r /\ k[2] = mem[r].m
      BY <1>2
    <2>2. Bears(k)' = mem[r].t
      BY <1>1, <1>2, <2>1 DEF Bears
    <2>3. Spent(k)'
      <3>1. CASE Kind(r) = "reply"
        BY <1>1, <2>1, <3>1 DEF Spent
      <3>2. CASE Kind(r) \in Syncing
        <4>1. k = mem[r].t
          BY <1>1, <1>2, <2>1, <3>2
        <4>2. k \in Tid /\ ticket'[k].live
          BY <1>3, <1>4, <4>1
        <4>3. QED
          BY <1>1, <2>1, <3>2, <4>2 DEF Spent
      <3>3. QED
        BY <1>1, <3>1, <3>2
    <2>4. Owns(mem[r].t, k)'
      BY <1>5, <2>1, <2>2, <2>3 DEF Owns
    <2>5. mem'[r].m = mem[r].m /\ k = <<r, mem'[r].m>>
      BY <1>5, <2>1
    <2>6. QED
      BY <2>4, <2>5 DEF Owns
  <1>7. QED
    BY <1>2, <1>3, <1>4, <1>5, <1>6

\* The ticket a mail is found is where it belongs; one that is found none has lost its ticket's token.
LEMMA MatchKnows ==
    ASSUME MailType, OnceInv, ThreadInv, OwnInv, SignalInv, NEW r \in Req, Match(r),
           DOMAIN pc = Req, DOMAIN mem = Req, DOMAIN mem[r] = DOMAIN NoMem
    PROVE  /\ mem[r].m \in Mails /\ mem'[r].m = mem[r].m
           /\ pc'[r] = "append" => Belongs(mem'[r].t, mem[r].m)
           /\ pc'[r] = "sender" =>
                /\ box[mem[r].m].header = None /\ box[mem[r].m].number = None
                /\ box[mem[r].m].token # None => Lost(box[mem[r].m].token)
  <1>1. PICK m \in Mails : m = mem[r].m /\ pc[r] = "match"
    BY DEF MailType, Carries, Matching, Match, At
  <1>2. \/ pc'[r] = "sender" /\ mem'[r] = mem[r] /\ Continues(box[m]) = {}
        \/ pc'[r] = "append" /\ \E t \in Continues(box[m]) : mem'[r] = [mem[r] EXCEPT !.t = t]
    BY <1>1 DEF Match, Skip, Read, Go, Hold
  <1>3. mem'[r].m = m /\ (pc'[r] = "append" => mem'[r].t \in Continues(box[m]))
    BY <1>1, <1>2, NoMemFields
  <1>4. /\ Thread(m) \in 1..MaxMail /\ \A x \in msgs : x.mail # m
        /\ box[m].header \in Tid \cup {None} /\ box[m].number \in Tid \cup {None} /\ box[m].token \in Token \cup {None}
        /\ box[m].token # None => box[m].header = None
        /\ box[m].number # None => box[m].header = None /\ box[m].token = None
        /\ None \notin Tid
    BY <1>1, Names DEF MailType, BoxType, OnceInv, Matching
  <1>5. \A t \in Continues(box[m]) :
            /\ t \in Tid /\ ticket[t].live
            /\ \/ ticket[t].thread = Thread(m)
               \/ t = box[m].header
               \/ box[m].token # None /\ ticket[t].token = box[m].token
               \/ t = box[m].number
    BY DEF Continues, Thread
  <1>6. ASSUME NEW t \in Continues(box[m]) PROVE Belongs(t, m)
    <2>1. CASE ticket[t].thread = Thread(m)
      <3>1. \E z \in msgs : z.on = t /\ Thread(z.mail) = Thread(m)
        BY <1>4, <1>5, <2>1 DEF ThreadInv
      <3>2. QED
        BY <1>4, <3>1 DEF Belongs, Elder
    <2>2. CASE t = box[m].header
      BY <1>4, <1>5, <2>2 DEF Belongs
    <2>3. CASE box[m].token # None /\ ticket[t].token = box[m].token
      <3>1. Bears(ticket[t].token) = t
        BY <1>4, <1>5, <2>3 DEF OwnInv, Owns
      <3>2. QED
        BY <1>4, <2>3, <3>1 DEF Belongs
    <2>4. CASE t = box[m].number
      BY <1>4, <1>5, <2>4 DEF Belongs
    <2>5. QED
      BY <1>5, <2>1, <2>2, <2>3, <2>4
  <1>7. ASSUME Continues(box[m]) = {}
        PROVE  /\ box[m].header = None /\ box[m].number = None
               /\ box[m].token # None => Lost(box[m].token)
    <2>1. \A t \in Tid : ticket[t].live =>
              /\ t # box[m].header /\ t # box[m].number
              /\ ~(box[m].token # None /\ ticket[t].token = box[m].token)
      BY <1>7 DEF Continues
    <2>2. QED
      BY <1>4, <2>1 DEF SignalInv, Lost
  <1>8. QED
    BY <1>1, <1>2, <1>3, <1>6, <1>7

\* Who files a mail, or replies, has a ticket, and who is about to file one has opened none for it.
LEMMA HasTicket ==
    ASSUME CoreInv, MailRoutes, MailType, OnceInv, ThreadInv, TokenInv, [Next]_vars, NEW r \in Req, InboxStep(r)
    PROVE  /\ pc'[r] \in Matching => ~ticket'[<<r, mem'[r].m>>].live
           /\ Replying(r)' => ticket'[mem'[r].t].live
  <1>1. /\ DOMAIN pc = Req /\ DOMAIN mem = Req /\ DOMAIN mem[r] = DOMAIN NoMem
        /\ Carries(r) /\ Knows(r) /\ LiveInv
        /\ DOMAIN ticket = Tid /\ \A t \in Tid : DOMAIN ticket[t] = DOMAIN NoTicket
        /\ \A t \in Tid : ticket[t].live => ticket'[t].live
    BY LiveLasts DEF CoreInv, ProcessType, MailType, RowType, TokenInv
  <1>2. pc'[r] \in Matching => ~ticket'[<<r, mem'[r].m>>].live
    <2>1. SUFFICES ASSUME pc'[r] \in Matching PROVE ~ticket'[<<r, mem'[r].m>>].live
      OBVIOUS
    <2>2. ~Rejected(r) /\ (Record(r) \/ Match(r) \/ Sender(r))
      BY <2>1, MailWalk DEF Rejected, Matching
    <2>3. ticket' = ticket /\ mem'[r].m = mem[r].m
      BY <2>2, MailEffects, MemWriters
    <2>4. CASE Record(r)
      <3>1. pc[r] = "record" /\ mem[r].m \in Mails
        BY <1>1, <2>4, MailEffects DEF Carries
      <3>2. row[mem[r].m] = "none"
        BY <1>1, <2>1, <2>4 DEF Record, Skip, Read, Go, Matching
      <3>3. /\ <<r, mem[r].m>> \in Tid /\ <<r, mem[r].m>> # First /\ <<r, mem[r].m>>[2] = mem[r].m
        BY <3>1, Names DEF MailType, BoxType
      <3>4. QED
        BY <1>1, <2>3, <3>2, <3>3 DEF LiveInv
    <2>5. CASE Match(r) \/ Sender(r)
      BY <1>1, <2>3, <2>5, MailEffects DEF Knows, Matching
    <2>6. QED
      BY <2>2, <2>4, <2>5
  <1>3. Replying(r)' => ticket'[mem'[r].t].live
    <2>1. SUFFICES ASSUME Replying(r)' PROVE ticket'[mem'[r].t].live
      OBVIOUS
    <2>2. CASE Replying(r)
      <3>1. mem[r].t \in Tid /\ ticket[mem[r].t].live
        <4>1. Carries(r) /\ (Replying(r) => Kind(r) \in Syncing \cup {"reply"})
          BY <1>1, KindsAt
        <4>2. Kind(r) # "reply" => mem[r].m \in Mails /\ mem[r].t = <<r, mem[r].m>>
          BY <2>2, <4>1 DEF Carries, Filing
        <4>3. mem[r].m \in Mails => <<r, mem[r].m>> \in Tid
          BY Names DEF MailType, BoxType
        <4>4. QED
          BY <1>1, <2>2, <4>1, <4>2, <4>3 DEF Carries, Knows
      <3>2. ~Match(r) /\ ~OpenTicket(r) /\ ~ReplyRead(r) /\ ~Rejected(r)
        BY <2>1, <2>2, MailEffects DEF Replying, Rejected
      <3>3. mem'[r].t = mem[r].t
        BY <3>2, MemWriters
      <3>4. QED
        BY <1>1, <3>1, <3>3
    <2>3. CASE ReplyRead(r)
      <3>1. pc'[r] # "done" /\ ticket' = ticket
        BY <2>1, <2>3, MailEffects DEF Replying
      <3>2. ticket[On(r)].live /\ \E a : mem'[r] = [mem[r] EXCEPT !.acc = a, !.conn = conn[a], !.t = On(r), !.thread = ticket[On(r)].thread]
        BY <1>1, <2>3, <3>1, Zenon DEF ReplyRead, Skip, Read, Hold, Go
      <3>3. mem'[r].t = On(r)
        BY <1>1, <3>2, NoMemFields
      <3>4. QED
        BY <3>1, <3>2, <3>3
    <2>4. CASE OpenTicket(r)
      <3>1. mem[r].m \in Mails
        BY <1>1, <2>4, MailEffects DEF Carries, Matching
      <3>2. <<r, mem[r].m>> \in Tid
        BY <3>1, Names DEF MailType, BoxType
      <3>3. mem'[r] = [mem[r] EXCEPT !.t = <<r, mem[r].m>>, !.thread = box[mem[r].m].thread]
        BY <1>1, <2>4 DEF OpenTicket, Hold
      <3>4. mem'[r].t = <<r, mem[r].m>>
        BY <1>1, <3>3, NoMemFields
      <3>5. QED
        BY <2>4, <3>2, <3>4, TicketMoves
    <2>5. QED
      BY <2>1, <2>2, <2>3, <2>4, MailWalk
  <1>4. QED
    BY <1>2, <1>3

\* Who sends has its ticket's token, unless somebody overlapped it.
LEMMA HasToken ==
    ASSUME CoreInv, MailRoutes, MailType, OnceInv, ThreadInv, TokenInv, [Next]_vars, NEW r \in Req, InboxStep(r), Bearing(r)'
    PROVE  Owns(mem[r].t, mem[r].token)' /\ (ticket'[mem'[r].t].token = mem'[r].token \/ Overlapped(r)')
  <1>1. /\ DOMAIN pc = Req /\ DOMAIN mem = Req /\ DOMAIN mem[r] = DOMAIN NoMem
        /\ Carries(r) /\ Knows(r) /\ OwnInv /\ SignalInv
        /\ \A t, k : Owns(t, k) => Owns(t, k)'
        /\ \A q \in Req : Overlapped(q) => Overlapped(q)'
        /\ \A q \in Req : pc[q] \in Matching => ~ticket[<<q, mem[q].m>>].live
    <2>1. \A q \in Req : pc[q] \in Matching => ~ticket[<<q, mem[q].m>>].live
      BY DEF TokenInv, Knows
    <2>2. QED
      BY <2>1, OwnsLasts, ThreadsLast DEF CoreInv, ProcessType, MailType, TokenInv
  <1>2. Replying(r) => mem[r].t \in Tid /\ ticket[mem[r].t].live
    <2>1. Carries(r) /\ (Replying(r) => Kind(r) \in Syncing \cup {"reply"})
      BY <1>1, KindsAt
    <2>2. Replying(r) /\ Kind(r) # "reply" => mem[r].m \in Mails /\ mem[r].t = <<r, mem[r].m>>
      BY <2>1 DEF Carries, Filing
    <2>3. mem[r].m \in Mails => <<r, mem[r].m>> \in Tid
      BY Names DEF MailType, BoxType
    <2>4. QED
      BY <1>1, <2>1, <2>2, <2>3 DEF Carries, Knows
  <1>3. ASSUME NEW t, NEW k, Owns(t, k), mem'[r].t = t, mem'[r].token = k PROVE Owns(mem[r].t, mem[r].token)'
    <2>1. Owns(t, k)'
      BY <1>1, <1>3
    <2>2. QED
      BY <1>3, <2>1 DEF Owns
  <1>4. CASE Bearing(r) /\ ~Ensure(r) /\ ~NewToken(r)
    <2>1. ~Match(r) /\ ~OpenTicket(r) /\ ~ReplyRead(r) /\ ~Rejected(r) /\ ~Append(r) /\ ~Adopt(r)
      BY <1>4, MailEffects DEF Bearing, Rejected
    <2>2. mem'[r].t = mem[r].t /\ mem'[r].token = mem[r].token /\ ticket' = ticket
      BY <1>4, <2>1, MemWriters, MailWriters
    <2>3. Owns(mem[r].t, mem[r].token) /\ (ticket[mem[r].t].token = mem[r].token \/ Overlapped(r))
      BY <1>1, <1>4 DEF Knows
    <2>4. QED
      BY <1>1, <1>3, <2>2, <2>3
  <1>5. CASE Ensure(r)
    <2>1. /\ pc'[r] # "token" /\ ticket' = ticket /\ Replying(r)
      BY <1>5, MailEffects DEF Bearing, Replying
    <2>2. ticket[mem[r].t].token # None /\ (\/ mem'[r] = [mem[r] EXCEPT !.token = ticket[mem[r].t].token]
                                            \/ mem'[r] = [[mem[r] EXCEPT !.token = ticket[mem[r].t].token] EXCEPT !.next = "send"])
      BY <1>1, <1>5, <2>1 DEF Ensure, Fresh, Skip, Read, Hold, Go
    <2>3. mem'[r].t = mem[r].t /\ mem'[r].token = ticket[mem[r].t].token
      <3>1. CASE mem'[r] = [mem[r] EXCEPT !.token = ticket[mem[r].t].token]
        BY <1>1, <3>1, NoMemFields
      <3>2. CASE mem'[r] = [[mem[r] EXCEPT !.token = ticket[mem[r].t].token] EXCEPT !.next = "send"]
        BY <1>1, <3>2, NoMemFields
      <3>3. QED
        BY <2>2, <3>1, <3>2
    <2>4. Owns(mem[r].t, ticket[mem[r].t].token)
      BY <1>1, <1>2, <2>1, <2>2 DEF OwnInv
    <2>5. QED
      BY <1>3, <2>1, <2>3, <2>4
  <1>6. CASE NewToken(r)
    <2>1. Replying(r)
      BY <1>6, MailEffects DEF Replying
    <2>2. /\ Owns(mem[r].t, <<r, mem[r].m>>)' /\ ticket'[mem[r].t].token = <<r, mem[r].m>>
          /\ mem'[r].t = mem[r].t /\ mem'[r].m = mem[r].m /\ mem'[r].token = <<r, mem[r].m>>
      BY <1>2, <1>6, <2>1, TokenMade
    <2>3. QED
      BY <2>2 DEF Owns
  <1>7. QED
    BY <1>4, <1>5, <1>6, MailWalk

\* A step of a process keeps what it knows.
LEMMA KnowsStep ==
    ASSUME CoreInv, MailRoutes, MailType, OnceInv, ThreadInv, TokenInv, [Next]_vars, NEW r \in Req, InboxStep(r)
    PROVE  Knows(r)'
  <1>1. /\ DOMAIN pc = Req /\ DOMAIN mem = Req /\ DOMAIN mem[r] = DOMAIN NoMem
        /\ Carries(r) /\ Knows(r) /\ OwnInv /\ SignalInv /\ SentInv
        /\ \A m \in Mails : box[m].token # None /\ Lost(box[m].token) => Lost(box[m].token)'
        /\ \A t : \A m \in Mails : Belongs(t, m) => Belongs(t, m)'
        /\ \A q \in Req : Overlapped(q) => Overlapped(q)'
        /\ box' = box /\ None \notin Token /\ \A s \in sent : s.of \in Req
    <2>1. \A q \in Req : pc[q] \in Matching => ~ticket[<<q, mem[q].m>>].live
      BY DEF TokenInv, Knows
    <2>2. QED
      BY <2>1, OwnsLasts, ThreadsLast, MailWriters, Names DEF CoreInv, ProcessType, MailType, RowType, TokenInv
  <1>2. /\ pc'[r] \in Matching => ~ticket'[<<r, mem'[r].m>>].live
        /\ Replying(r)' => ticket'[mem'[r].t].live
        /\ Bearing(r)' => Owns(mem[r].t, mem[r].token)' /\ (ticket'[mem'[r].t].token = mem'[r].token \/ Overlapped(r)')
    BY HasTicket, HasToken
  <1>3. pc'[r] = "token" => \A s \in sent' : s.t = mem'[r].t => Overlapped(s.of)'
    <2>1. SUFFICES ASSUME pc'[r] = "token", NEW s \in sent', s.t = mem'[r].t PROVE Overlapped(s.of)'
      OBVIOUS
    <2>2. Ensure(r) /\ sent' = sent
      BY <2>1, MailLeads, MailEffects
    <2>3. ticket[mem[r].t].token = None /\ mem'[r] = mem[r]
      BY <1>1, <2>1, <2>2 DEF Ensure, Fresh, Skip, Read, Hold, Go
    <2>4. s.t = mem[r].t /\ s \in sent
      BY <2>1, <2>2, <2>3
    <2>5. s.token \in Token /\ (ticket[s.t].token = s.token \/ Overlapped(s.of))
      BY <1>1, <2>4 DEF SentInv, Owns
    <2>6. QED
      BY <1>1, <2>3, <2>4, <2>5
  <1>4. pc'[r] = "append" => Belongs(mem[r].t, mem[r].m)'
    <2>1. SUFFICES ASSUME pc'[r] = "append" PROVE Belongs(mem[r].t, mem[r].m)'
      OBVIOUS
    <2>2. Match(r)
      BY <2>1, MailLeads
    <2>3. PICK t, m : t = mem'[r].t /\ m = mem'[r].m /\ m = mem[r].m /\ m \in Mails /\ Belongs(t, m)
      BY <1>1, <2>1, <2>2, MatchKnows
    <2>4. Belongs(t, m)'
      BY <1>1, <2>3
    <2>5. QED
      BY <2>3, <2>4 DEF Belongs, Elder, Thread
  <1>5. pc'[r] \in {"sender", "open"} =>
            /\ box'[mem'[r].m].header = None /\ box'[mem'[r].m].number = None
            /\ box'[mem'[r].m].token # None => ticket'[Bears(box[mem[r].m].token)'].token # box'[mem'[r].m].token
    <2>1. pc'[r] = "sender" => Match(r)
      BY MailLeads
    <2>2. pc'[r] = "open" => Sender(r)
      BY MailLeads
    <2>3. Sender(r) => mem'[r] = mem[r] /\ pc[r] = "sender" /\ mem[r].m \in Mails
      BY <1>1, MailEffects, MemEffects DEF Carries, Matching
    <2>4. SUFFICES ASSUME pc'[r] \in {"sender", "open"}
                   PROVE  /\ box'[mem'[r].m].header = None /\ box'[mem'[r].m].number = None
                          /\ box'[mem'[r].m].token # None => ticket'[Bears(box[mem[r].m].token)'].token # box'[mem'[r].m].token
      OBVIOUS
    <2>5. PICK m \in Mails : /\ m = mem'[r].m /\ box[m].header = None /\ box[m].number = None
                             /\ box[m].token # None => Lost(box[m].token)
      <3>1. CASE pc'[r] = "sender"
        BY <1>1, <2>1, <3>1, MatchKnows
      <3>2. CASE pc'[r] = "open"
        BY <1>1, <2>2, <2>3, <3>2 DEF Knows
      <3>3. QED
        BY <2>4, <3>1, <3>2
    <2>6. box[m].token # None => Lost(box[m].token)'
      BY <1>1, <2>5
    <2>7. QED
      BY <1>1, <2>5, <2>6 DEF Lost
  <1>6. QED
    BY <1>2, <1>3, <1>4, <1>5 DEF Knows, Lost

\* Every step keeps the signals of the mails those of tickets there are.
LEMMA SignalStep ==
    ASSUME CoreInv, MailRoutes, MailType, TokenInv, [Next]_vars
    PROVE  SignalInv'
  <1>1. /\ \A m \in Mails : box'[m] = box[m]
        /\ \A t \in Tid : ticket[t].live => ticket'[t].live
        /\ \A k \in Token : Spent(k) => Spent(k)' /\ Bears(k)' = Bears(k)
        /\ SignalInv /\ SentInv /\ None \notin Tid /\ None \notin Token
        /\ \A m \in Mails : box[m].header \in Tid \cup {None} /\ box[m].number \in Tid \cup {None} /\ box[m].token \in Token \cup {None}
        /\ \A s \in sent : s.t \in Tid
    <2>1. \A r \in Req : pc[r] \in Matching => ~ticket[<<r, mem[r].m>>].live
      BY DEF TokenInv, Knows
    <2>2. \A k \in Token : Spent(k) => Spent(k)' /\ Bears(k)' = Bears(k)
      BY <2>1, SpentLasts
    <2>3. QED
      BY <2>2, ThreadsLast, LiveLasts, Names DEF TokenInv, MailType, BoxType, RowType
  <1>2. ASSUME NEW m \in Mails
        PROVE  /\ box'[m].header # None => ticket'[box'[m].header].live
               /\ box'[m].number # None => ticket'[box'[m].number].live
               /\ box'[m].token # None => Bears(box[m].token)' \in Tid /\ Spent(box[m].token)' /\ ticket'[Bears(box[m].token)'].live
    <2>1. box[m].token # None => Bears(box[m].token) \in Tid /\ Spent(box[m].token) /\ ticket[Bears(box[m].token)].live
      BY <1>1 DEF SignalInv
    <2>2. box[m].token # None => \E k \in Token : k = box[m].token /\ k = box'[m].token /\ Spent(k)' /\ Bears(k)' = Bears(k)
      BY <1>1, <2>1
    <2>3. box[m].token # None => Bears(box[m].token)' = Bears(box[m].token) /\ Spent(box[m].token)'
      BY <2>2 DEF Bears, Spent
    <2>4. QED
      BY <1>1, <2>1, <2>3 DEF SignalInv
  <1>3. CASE Mails' = Mails
    BY <1>2, <1>3 DEF SignalInv
  <1>4. CASE Arrive
    <2>1. PICK n : n = Next1 /\ Mails' = Mails \cup {n}
      BY <1>4, MailArrives DEF MailType
    <2>2. ticket' = ticket /\ pc' = pc /\ mem' = mem /\ job' = job
      BY <1>4 DEF Arrive, Same
    <2>3. \/ Signals(box'[n], None, None, None)
          \/ \E s \in sent : \/ Signals(box'[n], s.t, None, None)
                             \/ Signals(box'[n], None, s.t, None)
                             \/ Signals(box'[n], None, None, s.token)
      BY <1>4, <2>1, MailArrives DEF MailType
    <2>4. \A s \in sent : s.t \in Tid /\ ticket[s.t].live /\ s.token \in Token /\ Spent(s.token) /\ Bears(s.token) = s.t
      BY <1>1 DEF SentInv, Owns
    <2>5. /\ box'[n].header # None => ticket[box'[n].header].live
          /\ box'[n].number # None => ticket[box'[n].number].live
          /\ box'[n].token # None => \E s \in sent : box'[n].token = s.token
      BY <2>3, <2>4 DEF Signals
    <2>6. box'[n].token # None => Bears(box[n].token)' \in Tid /\ Spent(box[n].token)' /\ ticket'[Bears(box[n].token)'].live
      <3>1. SUFFICES ASSUME box'[n].token # None
                     PROVE  Bears(box[n].token)' \in Tid /\ Spent(box[n].token)' /\ ticket'[Bears(box[n].token)'].live
        OBVIOUS
      <3>2. PICK s \in sent : box'[n].token = s.token
        BY <2>5, <3>1
      <3>3. PICK k \in Token : k = s.token /\ Spent(k) /\ Bears(k) = s.t /\ s.t \in Tid /\ ticket[s.t].live
        BY <2>4
      <3>4. Spent(k)' /\ Bears(k)' = s.t
        BY <1>1, <3>3
      <3>5. Bears(box[n].token)' = s.t /\ Spent(box[n].token)'
        BY <3>2, <3>3, <3>4 DEF Bears, Spent
      <3>6. QED
        BY <2>2, <3>3, <3>5
    <2>7. QED
      BY <1>2, <2>1, <2>2, <2>5, <2>6 DEF SignalInv
  <1>5. QED
    BY <1>3, <1>4, PassedLasts

\* Every step keeps the tokens of the tickets, and of the mails sent, those that were made for them.
LEMMA OwnStep ==
    ASSUME CoreInv, MailRoutes, MailType, TokenInv, [Next]_vars, NEW r \in Req, InboxStep(r)
    PROVE  OwnInv' /\ SentInv' /\ LiveInv'
  <1>1. /\ \A t \in Tid : ticket[t].live => ticket'[t].live
        /\ \A t, k : Owns(t, k) => Owns(t, k)'
        /\ \A q \in Req : Overlapped(q) => Overlapped(q)'
        /\ \A q \in Req : pc[q] \in Matching => ~ticket[<<q, mem[q].m>>].live
        /\ OwnInv /\ SentInv /\ LiveInv /\ Knows(r)
        /\ \A s \in sent : s.t \in Tid /\ s.of \in Req
        /\ DOMAIN pc = Req /\ DOMAIN mem = Req
    <2>1. \A q \in Req : pc[q] \in Matching => ~ticket[<<q, mem[q].m>>].live
      BY DEF TokenInv, Knows
    <2>2. QED
      BY <2>1, OwnsLasts, ThreadsLast, LiveLasts DEF CoreInv, ProcessType, MailType, RowType, TokenInv
  <1>2. NewToken(r) => Replying(r) /\ ticket[mem[r].t].live
    BY <1>1, MailEffects DEF Knows, Replying
  <1>3. OpenTicket(r) => mem[r].m \in Mails /\ mem[r].m \in 1..MaxMail /\ ~ticket[<<r, mem[r].m>>].live
    BY <1>1, MailEffects DEF Matching, MailType, BoxType, Carries
  <1>4. NewToken(r) => /\ <<r, mem[r].m>> \in Token /\ ticket'[mem[r].t].live
                       /\ \A t, k : t = mem[r].t /\ k = <<r, mem[r].m>> => Owns(t, k)'
    <2>1. SUFFICES ASSUME NewToken(r), NEW t, NEW k, t = mem[r].t, k = <<r, mem[r].m>>
                   PROVE  <<r, mem[r].m>> \in Token /\ ticket'[mem[r].t].live /\ Owns(t, k)'
      OBVIOUS
    <2>2. /\ Owns(mem[r].t, <<r, mem[r].m>>)' /\ ticket'[mem[r].t].live /\ <<r, mem[r].m>> \in Token
          /\ mem'[r].t = mem[r].t /\ mem'[r].m = mem[r].m
      BY <1>2, <2>1, TokenMade
    <2>3. QED
      BY <2>1, <2>2 DEF Owns
  <1>5. OwnInv'
    <2>1. ASSUME NEW t \in Tid, ticket'[t].token # None PROVE Owns(t, ticket[t].token)' /\ ticket'[t].live
      <3>1. PICK k : k = ticket'[t].token
        OBVIOUS
      <3>2. Owns(t, k)' /\ ticket'[t].live
        <4>1. CASE ticket'[t].token = ticket[t].token
          BY <1>1, <2>1, <3>1, <4>1 DEF OwnInv
        <4>2. CASE NewToken(r) /\ t = mem[r].t /\ ticket'[t].token = <<r, mem[r].m>>
          BY <1>4, <3>1, <4>2
        <4>3. QED
          BY <2>1, <4>1, <4>2, TicketMoves
      <3>3. QED
        BY <3>1, <3>2 DEF Owns
    <2>2. QED
      BY <2>1 DEF OwnInv
  <1>6. ASSUME NEW s \in sent PROVE ticket'[s.t].live /\ Owns(s.t, s.token)' /\ (ticket'[s.t].token = s.token \/ Overlapped(s.of)')
    <2>1. ticket[s.t].live /\ Owns(s.t, s.token) /\ (ticket[s.t].token = s.token \/ Overlapped(s.of)) /\ s.t \in Tid /\ s.of \in Req
      BY <1>1 DEF SentInv
    <2>2. \/ ticket'[s.t].token = ticket[s.t].token
          \/ pc[r] = "token" /\ s.t = mem[r].t
      BY <1>3, <2>1, TicketMoves, MailEffects
    <2>3. ticket'[s.t].token = s.token \/ Overlapped(s.of)
      BY <1>1, <2>1, <2>2 DEF Knows
    <2>4. PICK t, k : t = s.t /\ k = s.token
      OBVIOUS
    <2>5. Owns(t, k)'
      BY <1>1, <2>1, <2>4
    <2>6. QED
      BY <1>1, <2>1, <2>3, <2>4, <2>5
  <1>7. SentInv'
    <2>1. CASE sent' = sent
      BY <1>6, <2>1 DEF SentInv
    <2>2. CASE SendReply(r)
      <3>1. Replying(r) /\ Bearing(r) /\ ticket' = ticket
        BY <2>2, MailEffects DEF Replying, Bearing
      <3>2. PICK s : s.t = mem[r].t /\ s.token = mem[r].token /\ s.of = r /\ sent' = sent \cup {s}
        <4>1. \E th : sent' = sent \cup {[t |-> mem[r].t, token |-> mem[r].token, thread |-> th, of |-> r]}
          BY <2>2 DEF SendReply
        <4>2. PICK th : sent' = sent \cup {[t |-> mem[r].t, token |-> mem[r].token, thread |-> th, of |-> r]}
          BY <4>1
        <4>3. QED
          BY <4>2
      <3>3. ticket[s.t].live /\ Owns(s.t, s.token) /\ (ticket[s.t].token = s.token \/ Overlapped(s.of))
        BY <1>1, <3>1, <3>2 DEF Knows
      <3>4. PICK t, k : t = s.t /\ k = s.token
        OBVIOUS
      <3>5. Owns(t, k)' /\ ticket'[t].live /\ (ticket'[t].token = k \/ Overlapped(s.of)')
        BY <1>1, <3>1, <3>2, <3>3, <3>4
      <3>6. QED
        BY <1>6, <3>2, <3>4, <3>5 DEF SentInv
    <2>3. QED
      BY <2>1, <2>2, MailWriters
  <1>8. LiveInv'
    <2>1. First \in Tid /\ (\A t \in Tid : t = First \/ t[2] \in 1..MaxMail) /\ \A q \in Req, m \in 1..MaxMail : <<q, m>>[2] = m
      BY Names DEF Tid
    <2>2. \A m \in 1..MaxMail : row[m] # "none" => row'[m] # "none"
      <3>1. CASE row' = row
        BY <3>1
      <3>2. CASE \E status \in {"skipped", "processing", "processed"} : row' = [row EXCEPT ![mem[r].m] = status]
        BY <3>2 DEF MailType, RowType
      <3>3. QED
        BY <3>1, <3>2, RowWrites DEF Rowed
    <2>3. ASSUME OpenTicket(r) PROVE row'[mem[r].m] # "none"
      BY <1>3, <2>3 DEF OpenTicket, MailType, RowType
    <2>4. ASSUME NEW t \in Tid, t # First, ticket'[t].live PROVE row'[t[2]] # "none"
      <3>1. CASE ticket[t].live
        BY <1>1, <2>1, <2>2, <2>4, <3>1 DEF LiveInv
      <3>2. CASE OpenTicket(r) /\ t = <<r, mem[r].m>>
        BY <1>3, <2>1, <2>3, <3>2
      <3>3. QED
        BY <2>4, <3>1, <3>2, TicketMoves
    <2>5. QED
      BY <1>1, <2>1, <2>4 DEF LiveInv
  <1>9. QED
    BY <1>5, <1>7, <1>8

\* A mail is filed where it belongs.
LEMMA BelongsStep ==
    ASSUME CoreInv, MailRoutes, MailType, TokenInv, [Next]_vars, NEW r \in Req, InboxStep(r), NEW x \in msgs'
    PROVE  Belongs(x.on, x.mail)'
  <1>1. /\ \A t : \A m \in Mails : Belongs(t, m) => Belongs(t, m)'
        /\ \A y \in msgs : y.mail \in Mails /\ Belongs(y.on, y.mail)
        /\ Knows(r) /\ Carries(r)
    <2>1. \A q \in Req : pc[q] \in Matching => ~ticket[<<q, mem[q].m>>].live
      BY DEF TokenInv, Knows
    <2>2. QED
      BY <2>1, OwnsLasts DEF MailType, RowType, TokenInv
  <1>2. CASE x \in msgs
    <2>1. PICK t, m : t = x.on /\ m = x.mail /\ m \in Mails /\ Belongs(t, m)
      BY <1>1, <1>2
    <2>2. Belongs(t, m)'
      BY <1>1, <2>1
    <2>3. QED
      BY <2>1, <2>2
  <1>3. CASE x \notin msgs
    <2>1. (Append(r) /\ x = Msg(r, mem[r].t)) \/ (OpenTicket(r) /\ x = Msg(r, <<r, mem[r].m>>))
      BY <1>3, MsgWrites
    <2>2. PICK t, m : /\ t = x.on /\ m = x.mail /\ m = mem[r].m
                      /\ (Append(r) /\ t = mem[r].t) \/ OpenTicket(r)
      BY <2>1 DEF Msg
    <2>3. m \in Mails
      BY <1>1, <2>2, MailEffects DEF Carries, Matching
    <2>4. Belongs(t, m)
      <3>1. CASE Append(r) /\ t = mem[r].t
        BY <1>1, <2>2, <3>1, MailEffects DEF Knows
      <3>2. CASE OpenTicket(r)
        BY <1>1, <2>2, <3>2, MailEffects DEF Knows, Belongs
      <3>3. QED
        BY <2>2, <3>1, <3>2
    <2>5. Belongs(t, m)'
      BY <1>1, <2>3, <2>4
    <2>6. QED
      BY <2>2, <2>5
  <1>4. QED
    BY <1>2, <1>3

\* When the tickets, the messages and what was sent stay as they are, so does whose they are.
LEMMA TokensStay ==
    ASSUME CoreInv, MailRoutes, MailType, TokenInv, [Next]_vars,
           msgs' = msgs, ticket' = ticket, sent' = sent, \A m \in 1..MaxMail : row[m] # "none" => row'[m] # "none",
           \A q \in Req : \/ pc'[q] = pc[q] /\ mem'[q] = mem[q] /\ Kind(q)' = Kind(q)
                          \/ pc'[q] \notin MailSteps \/ (pc'[q] \notin Matching \cup {"adopt"} /\ ~Replying(q)')
    PROVE  TokenInv'
  <1>1. /\ \A t, k : Owns(t, k) => Owns(t, k)'
        /\ \A t : \A m \in Mails : Belongs(t, m) => Belongs(t, m)'
        /\ \A q \in Req : Overlapped(q) => Overlapped(q)'
        /\ \A q \in Req : pc[q] \in Matching => ~ticket[<<q, mem[q].m>>].live
        /\ OwnInv /\ SentInv /\ LiveInv /\ \A x \in msgs : Belongs(x.on, x.mail)
        /\ \A x \in msgs : x.mail \in Mails
        /\ \A s \in sent : s.of \in Req
    <2>1. \A q \in Req : pc[q] \in Matching => ~ticket[<<q, mem[q].m>>].live
      BY DEF TokenInv, Knows
    <2>2. QED
      BY <2>1, OwnsLasts, ThreadsLast DEF MailType, RowType, TokenInv
  <1>2. OwnInv'
    <2>1. ASSUME NEW t \in Tid, ticket'[t].token # None PROVE Owns(t, ticket[t].token)' /\ ticket'[t].live
      <3>1. PICK k : k = ticket[t].token /\ k = ticket'[t].token
        OBVIOUS
      <3>2. Owns(t, k)' /\ ticket'[t].live
        BY <1>1, <2>1, <3>1 DEF OwnInv
      <3>3. QED
        BY <3>1, <3>2 DEF Owns
    <2>2. QED
      BY <2>1 DEF OwnInv
  <1>3. SentInv'
    <2>1. ASSUME NEW s \in sent PROVE ticket'[s.t].live /\ Owns(s.t, s.token)' /\ (ticket'[s.t].token = s.token \/ Overlapped(s.of)')
      <3>1. PICK t, k : t = s.t /\ k = s.token
        OBVIOUS
      <3>2. Owns(t, k)'
        BY <1>1, <3>1 DEF SentInv
      <3>3. ticket'[s.t].live /\ (ticket'[s.t].token = s.token \/ Overlapped(s.of)')
        BY <1>1 DEF SentInv
      <3>4. QED
        BY <3>1, <3>2, <3>3
    <2>2. QED
      BY <2>1 DEF SentInv
  <1>4. LiveInv'
    <2>1. \A t \in Tid : t = First \/ t[2] \in 1..MaxMail
      BY Names
    <2>2. QED
      BY <1>1, <2>1 DEF LiveInv
  <1>5. ASSUME NEW x \in msgs' PROVE Belongs(x.on, x.mail)'
    <2>1. PICK t, m : t = x.on /\ m = x.mail /\ m \in Mails /\ Belongs(t, m)
      BY <1>1, <1>5
    <2>2. Belongs(t, m)'
      BY <1>1, <2>1
    <2>3. QED
      BY <2>1, <2>2
  <1>6. ASSUME NEW q \in Req PROVE Knows(q)'
    <2>1. CASE pc'[q] = pc[q] /\ mem'[q] = mem[q] /\ Kind(q)' = Kind(q)
      BY <1>1, <2>1, KnowsOn DEF TokenInv
    <2>2. CASE pc'[q] \notin MailSteps \/ (pc'[q] \notin Matching \cup {"adopt"} /\ ~Replying(q)')
      BY <2>2 DEF Knows, Bearing, Replying, MailSteps, Matching, Sending, Walking
    <2>3. QED
      BY <2>1, <2>2
  <1>7. QED
    BY <1>2, <1>3, <1>4, <1>5, <1>6, SignalStep DEF TokenInv

\* Every step keeps replies coming back.
LEMMA TokenStep ==
    ASSUME CoreInv, MailRoutes, MailType, OnceInv, ThreadInv, TokenInv, [Next]_vars
    PROVE  TokenInv'
  <1>1. /\ DOMAIN row = 1..MaxMail
        /\ \A q \in Req : pc[q] \in Matching => ~ticket[<<q, mem[q].m>>].live /\ <<q, mem[q].m>> \in Tid
    <2>1. \A q \in Req : pc[q] \in Matching => mem[q].m \in 1..MaxMail
      BY DEF MailType, BoxType, Carries, Matching
    <2>2. QED
      BY <2>1, Names DEF MailType, RowType, TokenInv, Knows
  <1>2. CASE \E r \in Req : InboxStep(r)
    <2>1. PICK r \in Req : InboxStep(r)
      BY <1>2
    <2>2. Walks(r) /\ met' = met /\ \A q : Overlapped(q)' <=> Overlapped(q)
      <3>1. Walks(r) /\ met' = met
        BY <2>1, InboxStepsElsewhere DEF Elsewhere, Walks
      <3>2. QED
        BY <3>1 DEF Overlapped
    <2>3. sent' = sent \/ \E s : s.of = r /\ sent' = sent \cup {s}
      <3>1. SendReply(r) => \E th : sent' = sent \cup {[t |-> mem[r].t, token |-> mem[r].token, thread |-> th, of |-> r]}
        BY DEF SendReply
      <3>2. \A th : [t |-> mem[r].t, token |-> mem[r].token, thread |-> th, of |-> r].of = r
        OBVIOUS
      <3>3. QED
        BY <2>1, <3>1, <3>2, MailWriters
    <2>4. ASSUME NEW q \in Req \ {r} PROVE Knows(q)'
      <3>1. pc'[q] = pc[q] /\ mem'[q] = mem[q] /\ Kind(q)' = Kind(q)
        BY <2>2 DEF Walks, Kind
      <3>2. pc[q] \notin Ended => Overlapped(q)' /\ Overlapped(r)'
        BY <2>1, <2>2, StoredTogether
      <3>3. pc[q] \in Matching => ~ticket'[<<q, mem[q].m>>].live
        BY <1>1, <2>1, TicketMoves
      <3>4. pc[q] \notin Ended => \A s \in sent' : s \in sent \/ Overlapped(s.of)'
        BY <2>3, <3>2
      <3>5. QED
        BY <1>1, <3>1, <3>2, <3>3, <3>4, KnowsOn DEF TokenInv
    <2>5. Knows(r)'
      BY <2>1, KnowsStep
    <2>6. \A x \in msgs' : Belongs(x.on, x.mail)'
      BY <2>1, BelongsStep
    <2>7. OwnInv' /\ SentInv' /\ LiveInv'
      BY <2>1, OwnStep
    <2>8. \A q \in Req : Knows(q)'
      BY <2>4, <2>5
    <2>9. QED
      BY <2>6, <2>7, <2>8, SignalStep DEF TokenInv
  <1>3. CASE \E r \in Req : Kind(r) \in Mailing /\ InboxFail(r)
    <2>1. PICK r \in Req : Kind(r) \in Mailing /\ InboxFail(r)
      BY <1>3
    <2>2. /\ Walks(r) /\ mem' = mem /\ msgs' = msgs /\ ticket' = ticket /\ sent' = sent /\ ~Replying(r)'
          /\ pc'[r] \in Ended \cup {"files", "loop", "next", "wipe"}
          /\ row' = row \/ row' = [row EXCEPT ![mem[r].m] = "failed"]
      BY <2>1, FailureWalk, MailFailure
    <2>3. \A q \in Req \ {r} : pc'[q] = pc[q] /\ mem'[q] = mem[q] /\ Kind(q)' = Kind(q)
      BY <2>2 DEF Walks, Kind
    <2>4. pc'[r] \notin Matching \cup {"adopt"}
      BY <2>2 DEF Matching, Ended
    <2>5. \A m \in 1..MaxMail : row[m] # "none" => row'[m] # "none"
      BY <1>1, <2>2
    <2>6. QED
      BY <2>2, <2>3, <2>4, <2>5, TokensStay
  <1>4. CASE Arrive \/ GrowOld
    <2>1. msgs' = msgs /\ ticket' = ticket /\ sent' = sent /\ row' = row /\ pc' = pc /\ mem' = mem /\ job' = job
      BY <1>4 DEF Arrive, GrowOld, Same
    <2>2. \A q \in Req : pc'[q] = pc[q] /\ mem'[q] = mem[q] /\ Kind(q)' = Kind(q)
      BY <2>1 DEF Kind
    <2>3. QED
      BY <2>1, <2>2, TokensStay
  <1>5. CASE MailAside
    <2>1. \A q \in Req : (pc'[q] = pc[q] /\ mem'[q] = mem[q] /\ Kind(q)' = Kind(q)) \/ pc'[q] \notin MailSteps
      BY <1>5, AsideWalk DEF Kind
    <2>2. msgs' = msgs /\ ticket' = ticket /\ sent' = sent /\ row' = row
      BY <1>5 DEF MailAside, mailbox
    <2>3. QED
      BY <2>1, <2>2, TokensStay
  <1>6. QED
    BY <1>2, <1>3, <1>4, <1>5, MailStepsOf

-----------------------------------------------------------------------------
(* The theorems about the inbox *)

\* What holds at the start.
LEMMA MailInvInit == Init => MailInv
  <1>1. SUFFICES ASSUME Init PROVE MailInv
    OBVIOUS
  <1>2. /\ area \in Areas /\ faults = 0 /\ met = {} /\ used = {} /\ msgs = {} /\ sent = {} /\ box = <<>>
        /\ row = [m \in 1..MaxMail |-> "none"]
        /\ ticket = [t \in Tid |-> [NoTicket EXCEPT !.live = t = First]]
        /\ conn = [a \in Account |-> IF a = Main THEN [NoConn EXCEPT !.known = TRUE, !.active = TRUE, !.tokens = "fresh"]
                                    ELSE NoConn]
        /\ \A r \in Req : pc[r] = "free" /\ Kind(r) = "none" /\ mem[r].next = "none"
    BY <1>1 DEF Init, InboxInit, NoMem, Kind
  <1>3. DOMAIN box = {} /\ Cardinality(DOMAIN box) = 0 /\ Mails = {}
    <2>1. DOMAIN box = {}
      BY <1>2
    <2>2. QED
      BY <2>1, FS_EmptySet DEF Mails
  <1>4. MailRoutes
    BY <1>2 DEF MailRoutes, Ended
  <1>5. \A r \in Req : ~Bound(r) /\ ~Replying(r) /\ ~Bearing(r) /\ ~Filing(r) /\ pc[r] \notin Matching /\ Kind(r) \notin Mailing
    BY <1>2 DEF Bound, Replying, Bearing, Filing, Matching, Syncing, Mailing
  <1>6. \A a \in Account : /\ DOMAIN conn[a] = DOMAIN NoConn /\ conn[a].cursor = None
                           /\ a = Main => conn[a].active
                           /\ a # Main => ~conn[a].known /\ ~conn[a].active
    BY <1>2 DEF NoConn
  <1>7. /\ DOMAIN ticket = Tid /\ First \in Tid
        /\ \A t \in Tid : DOMAIN ticket[t] = DOMAIN NoTicket /\ ticket[t].thread = None /\ ticket[t].token = None
                          /\ ticket[t].live = (t = First)
    BY <1>2 DEF NoTicket, Tid
  <1>8. MailType
    <2>1. BoxType
      BY <1>3 DEF BoxType
    <2>2. RowType
      BY <1>2, <1>6, <1>7 DEF RowType
    <2>3. \A r \in Req : Carries(r)
      BY <1>2, <1>5 DEF Carries, Mailing, Matching
    <2>4. QED
      BY <2>1, <2>2, <2>3 DEF MailType
  <1>9. ConnInv
    <2>1. BoundInv /\ WipedInv /\ UsedInv
      BY <1>2, <1>5, <1>6 DEF BoundInv, WipedInv, UsedInv
    <2>2. OneInv
      BY <1>2, <1>6 DEF OneInv, Active
    <2>3. QED
      BY <2>1, <2>2 DEF ConnInv
  <1>10. OnceInv
    BY <1>2, <1>3, <1>5 DEF OnceInv
  <1>11. ThreadInv
    BY <1>2, <1>5, <1>7, Names DEF ThreadInv, Follows, Matching
  <1>12. TokenInv
    <2>1. OwnInv /\ SentInv /\ SignalInv /\ LiveInv
      BY <1>2, <1>3, <1>7 DEF OwnInv, SentInv, SignalInv, LiveInv
    <2>2. \A r \in Req : Knows(r)
      BY <1>2, <1>5 DEF Knows, Matching
    <2>3. QED
      BY <1>2, <2>1, <2>2 DEF TokenInv
  <1>13. PassInv
    BY <1>2, <1>3, <1>5, <1>6 DEF PassInv, Passed, Lists, Syncing, Mailing, Account
  <1>14. QED
    BY <1>4, <1>8, <1>9, <1>10, <1>11, <1>12, <1>13 DEF MailInv

\* Every step keeps the invariant of the inbox.
LEMMA MailStep == CoreInv /\ MailInv /\ [Next]_vars => MailInv'
  <1>1. SUFFICES ASSUME CoreInv, MailInv, [Next]_vars PROVE MailInv'
    OBVIOUS
  <1>2. MailRoutes /\ MailType /\ OnceInv /\ ThreadInv /\ TokenInv /\ PassInv /\ BoundInv /\ WipedInv /\ OneInv /\ UsedInv
    BY <1>1 DEF MailInv, ConnInv
  <1>3. \A q \in Req : pc[q] \in Matching => ~ticket[<<q, mem[q].m>>].live
    BY <1>2 DEF TokenInv, Knows
  <1>4. MailRoutes' /\ MailType' /\ OnceInv'
    BY <1>1, <1>2, RoutesStep, MailTypeStep, FiledOnceStep
  <1>5. ThreadInv' /\ TokenInv' /\ PassInv'
    BY <1>1, <1>2, <1>3, ThreadStep, TokenStep, PassStep
  <1>6. ConnInv'
    BY <1>1, <1>2, BoundStep, WipedStep, OneStep, UsedStep DEF ConnInv
  <1>7. QED
    BY <1>4, <1>5, <1>6 DEF MailInv

\* The processes of the inbox, its connections, mails, rows, tickets, messages and tokens stay as they should.
THEOREM MailInvariantHolds == Spec => [](CoreInv /\ MailInv)
  <1>1. Init => CoreInv /\ MailInv
    BY CoreInit, MailInvInit
  <1>2. (CoreInv /\ MailInv) /\ [Next]_vars => (CoreInv /\ MailInv)'
    BY CoreStep, MailStep
  <1>3. QED
    BY <1>1, <1>2, PTL DEF Spec

\* A disconnected inbox has no token left, unless somebody who used it overlapped the disconnect; one inbox is
\* active and a state of the OAuth flow is exchanged once, unless two callbacks overlapped.
THEOREM ConnectionsAreKept == Spec => []ConnectionHolds
  <1>1. CoreInv /\ MailInv => ConnectionHolds
    <2>1. SUFFICES ASSUME MailInv PROVE ConnectionHolds
      OBVIOUS
    <2>2. WipedInv /\ OneInv /\ UsedInv
      BY <2>1 DEF MailInv, ConnInv
    <2>3. ASSUME NEW a \in Account, conn[a].known, ~conn[a].active, conn[a].tokens # "wiped"
          PROVE  \E q, r \in Req : {q, r} \in met /\ Kind(r) = "disconnect" /\ Kind(q) \in {"sync", "poll", "reply"}
      <3>1. PICK q \in Req : Kind(q) \in Syncing \cup {"reply"} /\ Dropped(q)
        BY <2>2, <2>3 DEF WipedInv
      <3>2. PICK r \in Req : {r, q} \in met /\ Kind(r) = "disconnect"
        BY <3>1 DEF Dropped
      <3>3. {q, r} = {r, q}
        OBVIOUS
      <3>4. QED
        BY <3>1, <3>2, <3>3 DEF Syncing
    <2>4. ASSUME Cardinality(Active) > 1
          PROVE  \E q, r \in Req : q # r /\ {q, r} \in met /\ Kind(q) = "callback" /\ Kind(r) = "callback"
      <3>1. SUFFICES ASSUME ~TwoCallbacks PROVE FALSE
        BY DEF TwoCallbacks
      <3>2. \A a, b \in Active : a = b
        BY <2>2, <3>1 DEF OneInv
      <3>3. Active = {} \/ \E a : Active = {a}
        BY <3>2
      <3>4. Cardinality(Active) = 0 \/ Cardinality(Active) = 1
        BY <3>3, FS_EmptySet, FS_Singleton
      <3>5. QED
        BY <2>4, <3>4
    <2>5. QED
      BY <2>2, <2>3, <2>4 DEF ConnectionHolds, UsedInv
  <1>2. QED
    BY <1>1, MailInvariantHolds, PTL

\* A mail is one ticket or message, once, whatever syncs, polls and failures come together, and the checkpoint
\* passes over none.
THEOREM MailsComeOnce == Spec => []MailsHold
  <1>1. CoreInv /\ MailInv => MailsHold
    <2>1. SUFFICES ASSUME MailInv PROVE MailsHold
      OBVIOUS
    <2>2. OnceInv /\ ThreadInv /\ PassInv
      BY <2>1 DEF MailInv
    <2>3. ASSUME NEW m \in Mails
          PROVE  /\ Cardinality(From(m)) <= 1
                 /\ row[m] = "processed" => From(m) # {}
                 /\ From(m) # {} => row[m] = "processed" \/ (row[m] = "failed" /\ faults > 0)
                 /\ \A x \in From(m) : pc[x.of] = "done" /\ faults = 0 => m \in files
      <3>1. \A x, y \in From(m) : x = y
        BY <2>2 DEF From, OnceInv
      <3>2. From(m) = {} \/ \E x : From(m) = {x}
        BY <3>1
      <3>3. Cardinality(From(m)) = 0 \/ Cardinality(From(m)) = 1
        BY <3>2, FS_EmptySet, FS_Singleton
      <3>4. \A x \in From(m) : pc[x.of] = "done" /\ faults = 0 => m \in files
        BY <2>2 DEF From, OnceInv, Filing, Replying
      <3>5. QED
        BY <2>2, <3>3, <3>4 DEF From, OnceInv
    <2>4. ASSUME NEW x \in msgs, NEW y \in msgs, x.on # y.on, box[x.mail].thread = box[y.mail].thread
          PROVE  \/ \E z \in msgs : box[z.mail].thread = box[x.mail].thread /\ Overlapped(z.of)
                 \/ \E z \in msgs : z.on \in {x.on, y.on} /\ box[z.mail].thread # box[x.mail].thread
      <3>1. Astray(x.on, y)
        BY <2>2, <2>4 DEF ThreadInv, Thread
      <3>2. QED
        BY <2>4, <3>1 DEF Astray, Stirred, Foreign, Thread
    <2>5. ASSUME NEW m \in Mails, conn[Main].cursor # None, m <= conn[Main].cursor, row[m] = "none", faults = 0, box[m].late = {}
          PROVE  \E way \in {"recent", "page"} : <<m, way>> \in cut
      <3>1. Excused(m)
        BY <2>2, <2>5 DEF PassInv, Passed
      <3>2. QED
        BY <2>5, <3>1 DEF Excused, LeftBehind
    <2>6. CheckpointHidesNothing
      BY <2>5 DEF CheckpointHidesNothing, PassedOver
    <2>7. QED
      BY <2>3, <2>4, <2>6 DEF MailsHold, MailBecomesOneTicket
  <1>2. QED
    BY <1>1, MailInvariantHolds, PTL

\* The token of a mail the help desk sent stays its ticket's, and an answer is filed there, unless mails
\* overlapped that gave the ticket a token each, or the answer's thread is another ticket's.
THEOREM RepliesComeBack == Spec => []RepliesFindTheirTicket
  <1>1. CoreInv /\ MailInv => RepliesFindTheirTicket
    <2>1. SUFFICES ASSUME MailInv PROVE RepliesFindTheirTicket
      OBVIOUS
    <2>2. /\ SentInv /\ (\A x \in msgs : Belongs(x.on, x.mail)) /\ \A s \in sent : s.t \in Tid /\ s.token \in Token
          /\ None \notin Tid /\ None \notin Token
      BY <2>1, Names DEF MailInv, TokenInv, MailType, RowType
    <2>3. ASSUME NEW x \in msgs, NEW s \in sent, x.on # s.t,
                 box[x.mail].token = s.token \/ box[x.mail].header = s.t \/ box[x.mail].number = s.t
          PROVE  \/ Overlapped(s.of)
                 \/ \E y \in msgs : y.on = x.on /\ y.mail # x.mail /\ box[y.mail].thread = box[x.mail].thread
      <3>1. CASE Elder(x.on, x.mail)
        BY <3>1 DEF Elder, Thread
      <3>2. CASE /\ box[x.mail].header # None => x.on = box[x.mail].header
                 /\ box[x.mail].number # None => x.on = box[x.mail].number
                 /\ box[x.mail].token # None => x.on = Bears(box[x.mail].token) \/ Lost(box[x.mail].token)
        <4>1. box[x.mail].token = s.token
          BY <2>2, <2>3, <3>2
        <4>2. Bears(s.token) = s.t /\ (ticket[s.t].token = s.token \/ Overlapped(s.of))
          BY <2>2 DEF SentInv, Owns
        <4>3. QED
          BY <2>2, <2>3, <3>2, <4>1, <4>2 DEF Lost
      <3>3. QED
        BY <2>2, <3>1, <3>2 DEF Belongs
    <2>4. QED
      BY <2>2, <2>3 DEF RepliesFindTheirTicket, SentInv
  <1>2. QED
    BY <1>1, MailInvariantHolds, PTL

-----------------------------------------------------------------------------
(* The chat: where its processes are, what they hold and what they leave *)

\* The steps of the chat, and the kinds of processes that go through them.
TalkKinds == {"open", "close", "submit", "solve", "upload", "sweep"}
Begins == {"open", "submit", "upload"}
Beginning == {"begin", "find", "insert", "begun"}
Delivering == {"post", "store", "link", "touch", "answer", "unsent"}
Storing == {"count", "put", "row", "view"}
Sweeping == {"each", "unrow"}
TalkSteps == {"get"} \cup Beginning \cup Delivering \cup Storing \cup Sweeping
Talks(kind, step) ==
    \/ kind = "open" /\ step = "get"
    \/ kind \in Begins /\ step \in Beginning
    \/ kind = "submit" /\ step \in Delivering
    \/ kind = "upload" /\ step \in Storing
    \/ kind = "sweep" /\ step \in Sweeping

\* A process of the chat is at a step of its own handler, no other process is at one of them, and who begins a
\* conversation goes on with what it came for.
ChatRoutes ==
    \A r \in Req :
        /\ Kind(r) \in TalkKinds => pc[r] \in Ended \cup {"start"} \/ Talks(Kind(r), pc[r])
        /\ Kind(r) \notin TalkKinds => pc[r] \notin TalkSteps
        /\ pc[r] \in {"get"} \cup Beginning =>
            <<Kind(r), mem[r].next>> \in {<<"open", "done">>, <<"submit", "post">>, <<"upload", "count">>}

\* The rows, and what a process of the chat holds.
ChatRows ==
    /\ DOMAIN w = {"open", "token", "conv", "files"}
    /\ w.token \in Req \cup {None} /\ w.conv \in Req \cup {None} /\ w.files \subseteq Req
    /\ DOMAIN conv = Req /\ \A c \in Req : DOMAIN conv[c] = {"owner", "open"} /\ (conv[c].open => conv[c].owner \in Req)
    /\ chat \subseteq [id : Req, conv : Req] /\ IsFiniteSet(chat)
    /\ runs \subseteq Req \X Req \X Nat
    /\ DOMAIN frow = Req /\ \A f \in Req : DOMAIN frow[f] = DOMAIN NoFile /\ frow[f].msg \in Req \cup {0}
    /\ stored \subseteq Req /\ stale \subseteq Req
Brings(r) ==
    /\ Kind(r) \in TalkKinds => mem[r].tries \in Nat /\ mem[r].files \subseteq Req
    /\ pc[r] \in {"find", "insert", "begun"} => mem[r].t \in Req
    /\ pc[r] \in {"begun", "store", "link", "touch", "answer", "put", "row"} => mem[r].conv \in Req
    /\ pc[r] = "unrow" => mem[r].m \in Req
ChatType == ChatRows /\ \A r \in Req : Brings(r)

\* Who is about to open a conversation for a visitor found none.
OpenInv ==
    /\ \A r \in Req : pc[r] = "insert" => OpenOf(mem[r].t) = {} \/ TwoBegan
    /\ \A c, d \in Req : c # d /\ conv[c].owner = conv[d].owner /\ conv[c].open /\ conv[d].open => TwoBegan

\* A message under way is for the widget's conversation; it has one row there, and one run for a row.
Stored(r) == [id |-> r, conv |-> mem[r].conv] \in chat
RowInv ==
    /\ \A c \in chat : Kind(c.id) = "submit" /\ pc[c.id] \in Delivering \cup {"done"}
    /\ \A c \in chat : pc[c.id] \notin Ended => c.conv = w.conv \/ TwoBegan
    /\ \A c, d \in chat : c.id = d.id => c = d \/ TwoBegan
    /\ \A r \in Req : pc[r] \in {"store", "link", "touch", "answer"} => mem[r].conv = w.conv \/ TwoBegan
    /\ \A r \in Req : pc[r] \in {"link", "touch", "answer"} => Stored(r)
    /\ \A r \in Req : Kind(r) = "submit" /\ pc[r] = "done" => \E c \in chat : c.id = r
RunInv ==
    /\ \A u \in runs : [id |-> u[1], conv |-> u[2]] \in chat
    /\ \A u, v \in runs : u[1] = v[1] /\ u[2] = v[2] => u = v
    /\ \A r \in Req : pc[r] \in {"link", "touch"} => \A u \in runs : u[1] = r => u[2] # mem[r].conv

\* What a message takes along was uploaded; its files are linked to it before it is read, and a message that was
\* stored and not linked has a file that is not to be had any more.
Uploaded(f) == Kind(f) = "upload" /\ pc[f] = "done" /\ frow[f].state # "none"
FileInv ==
    /\ \A f \in w.files : Uploaded(f)
    /\ \A r \in Req : pc[r] = "view" => frow[r].state # "none"
    /\ \A r \in Req : Kind(r) = "submit" => \A f \in mem[r].files : Uploaded(f)
    /\ \A r \in Req : pc[r] \in {"store", "link"} => \A f \in mem[r].files : frow[f].conv = mem[r].conv
    /\ \A r \in Req : pc[r] = "touch" => \A f \in mem[r].files : frow[f].msg = r
LinkInv ==
    faults = 0 =>
        \A r \in Req : Kind(r) = "submit" =>
            /\ pc[r] \in {"answer", "done"} => /\ \A f \in mem[r].files : frow[f].msg = r
                                               /\ \E u \in runs : u[1] = r
            /\ pc[r] \in {"post", "unsent"} => \A c \in chat : c.id = r => \E f \in mem[r].files : frow[f].state # "pending"
            /\ pc[r] = "store" => \A c \in chat : c.id # r

\* A row is written when its file is stored, and the file goes first; who sweeps a file met who linked it.
Sweeps(r, f) == pc[r] \in Sweeping /\ (f \in mem[r].files \/ (pc[r] = "unrow" /\ mem[r].m = f))
SweepInv ==
    /\ \A f \in Req : frow[f].state \in {"none", "pending", "linked", "gone"}
    /\ \A f \in Req : frow[f].state # "none" => pc[f] \in {"view", "done", "lost"}
    /\ \A f \in Req : frow[f].msg # 0 => frow[f].state \in {"linked", "gone"}
    /\ \A f \in stale : frow[f].state # "none"
    /\ \A r, f \in Req : Sweeps(r, f) => frow[f].state # "none" /\ (frow[f].msg # 0 => {frow[f].msg, r} \in met)
    /\ \A r \in Req : pc[r] = "row" => r \in stored
    /\ \A r \in Req : pc[r] = "unrow" => mem[r].m \notin stored
    /\ \A f \in Req : frow[f].state = "pending" /\ f \notin stored =>
        \E r \in Req : Kind(r) = "sweep" /\ (faults > 0 \/ (pc[r] = "unrow" /\ mem[r].m = f))
SweptInv ==
    /\ \A f \in Req : frow[f].msg # 0 /\ (f \notin stored \/ frow[f].state = "gone") =>
        \E r \in Req : Kind(r) = "sweep" /\ ({frow[f].msg, r} \in met \/ faults > 0)
    /\ \A f \in stored : frow[f].state \in {"pending", "linked"} \/ pc[f] = "row" \/ pc[f] = "lost"

\* Who was let through the limit still has its room, unless two uploads met.
TwoUploads == \E q, r \in Req : q # r /\ {q, r} \in met /\ Kind(q) = "upload" /\ Kind(r) = "upload"
RoomInv ==
    /\ \A r \in Req : pc[r] \in {"put", "row"} => Cardinality(Pending(mem[r].conv)) < MaxPending \/ TwoUploads
    /\ \A c \in Req : Cardinality(Pending(c)) > MaxPending => TwoUploads

ChatInv == ChatRoutes /\ ChatType /\ OpenInv /\ RowInv /\ RunInv /\ FileInv /\ LinkInv /\ SweepInv /\ SweptInv /\ RoomInv

-----------------------------------------------------------------------------
(* What the steps of the chat do *)

\* What the widget is after a step, and what a process holds.
Widget(token, c, waiting) == DOMAIN w' = DOMAIN w /\ w'.token = token /\ w'.conv = c /\ w'.files = waiting
Keeps(r, t, c, fs, m, next) ==
    /\ mem'[r].t = t /\ mem'[r].conv = c /\ mem'[r].files = fs /\ mem'[r].m = m /\ mem'[r].next = next
    /\ mem'[r].tries \in {mem[r].tries, mem[r].tries + 1, MaxTries}

\* What becomes of a conversation that is solved, and of a file's row.
Solved(c) == DOMAIN conv'[c] = DOMAIN conv[c] /\ conv'[c].owner = conv[c].owner /\ ~conv'[c].open
Linked(r, f) ==
    /\ f \in mem[r].files /\ frow[f].state = "pending" /\ frow[f].conv = mem[r].conv
    /\ DOMAIN frow'[f] = DOMAIN frow[f] /\ frow'[f].conv = frow[f].conv /\ frow'[f].state = "linked" /\ frow'[f].msg = r
Filed(f, c) == DOMAIN frow'[f] = DOMAIN NoFile /\ frow'[f].state = "pending" /\ frow'[f].conv = c /\ frow'[f].msg = 0
Gone(f) ==
    DOMAIN frow'[f] = DOMAIN frow[f] /\ frow'[f].conv = frow[f].conv /\ frow'[f].state = "gone" /\ frow'[f].msg = frow[f].msg

\* A process at a step of the chat is of the kind that goes there.
LEMMA TalkKindsAt ==
    ASSUME ChatRoutes, NEW r \in Req, pc[r] \in TalkSteps
    PROVE  /\ Talks(Kind(r), pc[r]) /\ Kind(r) \in TalkKinds /\ pc[r] \notin Ended \cup {"start"}
           /\ pc[r] = "get" => Kind(r) = "open"
           /\ pc[r] \in Beginning => Kind(r) \in Begins
           /\ pc[r] \in Delivering => Kind(r) = "submit"
           /\ pc[r] \in Storing => Kind(r) = "upload"
           /\ pc[r] \in Sweeping => Kind(r) = "sweep"
  BY DEF ChatRoutes, Talks, TalkSteps, Beginning, Delivering, Storing, Sweeping, Ended

\* The fields of a file's row.
LEMMA FileFields == DOMAIN NoFile = {"state", "conv", "msg"}
  BY DEF NoFile

\* What every process has, and who is at a step of the chat.
LEMMA TalkHas ==
    ASSUME CoreInv, ChatRoutes, ChatRows, NEW r \in Req
    PROVE  /\ DOMAIN pc = Req /\ DOMAIN mem = Req /\ DOMAIN mem[r] = DOMAIN NoMem /\ faults \in Nat
           /\ DOMAIN w = {"open", "token", "conv", "files"} /\ DOMAIN conv = Req /\ DOMAIN frow = Req
           /\ \A c \in Req : DOMAIN conv[c] = {"owner", "open"} /\ DOMAIN frow[c] = {"state", "conv", "msg"}
           /\ pc[r] = "get" => Kind(r) = "open"
           /\ pc[r] \in {"begin", "find", "insert", "begun"} => Kind(r) \in Begins
           /\ pc[r] \in {"post", "store", "link", "touch", "answer", "unsent"} => Kind(r) = "submit"
           /\ pc[r] \in {"count", "put", "row", "view"} => Kind(r) = "upload"
           /\ pc[r] \in {"each", "unrow"} => Kind(r) = "sweep"
  BY TalkKindsAt, FileFields DEF CoreInv, ProcessType, ChatRows, TalkSteps, Beginning, Delivering, Storing, Sweeping

\* The panel is opened, and resumes or begins.
LEMMA OpenPanelDoes ==
    ASSUME CoreInv, ChatRoutes, ChatRows, NEW r \in Req, OpenPanel(r)
    PROVE  /\ pc[r] = "start" /\ Kind(r) = "open" /\ pc'[r] \in {"get", "begin"}
           /\ Widget(w.token, w.conv, w.files) /\ UNCHANGED server
           /\ Keeps(r, mem[r].t, mem[r].conv, mem[r].files, mem[r].m, "done")
  BY TalkHas, NoMemFields DEF OpenPanel, At, Move, Step, Go, Widget, server, Hold, Keeps

\* The panel is closed.
LEMMA ClosePanelDoes ==
    ASSUME CoreInv, ChatRoutes, ChatRows, NEW r \in Req, ClosePanel(r)
    PROVE  /\ pc[r] = "start" /\ Kind(r) = "close" /\ pc'[r] = "done"
           /\ Widget(w.token, w.conv, w.files) /\ UNCHANGED server
           /\ mem'[r] = mem[r]
  BY TalkHas, NoMemFields DEF ClosePanel, At, Move, Step, Go, Widget, server, Hold

\* The conversation is there.
LEMMA GetConversationDoes ==
    ASSUME CoreInv, ChatRoutes, ChatRows, NEW r \in Req, GetConversation(r)
    PROVE  /\ pc[r] = "get" /\ Kind(r) = "open" /\ pc'[r] = "done"
           /\ UNCHANGED talk
           /\ mem'[r] = mem[r]
  BY TalkHas, NoMemFields DEF GetConversation, At, Move, Step, Go, talk, server, Hold

\* The conversation is given up, whatever went wrong.
LEMMA StartFreshDoes ==
    ASSUME CoreInv, ChatRoutes, ChatRows, NEW r \in Req, StartFresh(r)
    PROVE  /\ pc[r] = "get" /\ Kind(r) = "open" /\ pc'[r] = "begin"
           /\ Widget(None, None, w.files) /\ UNCHANGED server
           /\ mem'[r] = mem[r]
           /\ faults' > 0
  BY TalkHas, NoMemFields DEF StartFresh, At, Go, Widget, server, Move, Step, Hold

\* Whose conversation is looked for.
LEMMA BeginDoes ==
    ASSUME CoreInv, ChatRoutes, ChatRows, NEW r \in Req, Begin(r)
    PROVE  /\ pc[r] = "begin" /\ Kind(r) \in Begins /\ pc'[r] = "find"
           /\ UNCHANGED talk
           /\ Keeps(r, (IF w.token = None THEN r ELSE w.token), mem[r].conv, mem[r].files, mem[r].m, mem[r].next)
  BY TalkHas, NoMemFields DEF Begin, At, Move, Step, Go, talk, server, Hold, Keeps

\* An open conversation is found, or none.
LEMMA FindConversationDoes ==
    ASSUME CoreInv, ChatRoutes, ChatRows, NEW r \in Req, FindConversation(r)
    PROVE  /\ pc[r] = "find" /\ Kind(r) \in Begins /\ pc'[r] \in {"insert", "begun"}
           /\ UNCHANGED talk
           /\ Keeps(r, mem[r].t, mem'[r].conv, mem[r].files, mem[r].m, mem[r].next)
           /\ pc'[r] = "insert" => OpenOf(mem[r].t) = {} /\ mem'[r].conv = mem[r].conv
           /\ pc'[r] = "begun" => mem'[r].conv \in OpenOf(mem[r].t)
  BY TalkHas, NoMemFields DEF FindConversation, At, Move, Step, Go, talk, server, Hold, Keeps

\* A conversation is opened.
LEMMA InsertConversationDoes ==
    ASSUME CoreInv, ChatRoutes, ChatRows, NEW r \in Req, InsertConversation(r)
    PROVE  /\ pc[r] = "insert" /\ Kind(r) \in Begins /\ pc'[r] = "begun"
           /\ UNCHANGED <<w, chat, runs, frow, stored, stale>>
           /\ Keeps(r, mem[r].t, r, mem[r].files, mem[r].m, mem[r].next)
           /\ conv' = [conv EXCEPT ![r] = [owner |-> mem[r].t, open |-> TRUE]]
  BY TalkHas, NoMemFields DEF InsertConversation, At, Move, Step, Go, Hold, Keeps

\* The widget has a conversation.
LEMMA BegunDoes ==
    ASSUME CoreInv, ChatRoutes, ChatRows, NEW r \in Req, Begun(r)
    PROVE  /\ pc[r] = "begun" /\ Kind(r) \in Begins /\ pc'[r] = mem[r].next
           /\ Widget(mem[r].t, mem[r].conv, w.files) /\ UNCHANGED server
           /\ mem'[r] = mem[r]
  BY TalkHas, NoMemFields DEF Begun, At, Move, Step, Go, Widget, server, Hold

\* A message is submitted with the files that wait.
LEMMA SubmitFormDoes ==
    ASSUME CoreInv, ChatRoutes, ChatRows, NEW r \in Req, SubmitForm(r)
    PROVE  /\ pc[r] = "start" /\ Kind(r) = "submit" /\ pc'[r] \in {"begin", "post"}
           /\ Widget(w.token, w.conv, {}) /\ UNCHANGED server
           /\ Keeps(r, mem[r].t, mem[r].conv, w.files, mem[r].m, "post")
  BY TalkHas, NoMemFields DEF SubmitForm, At, Move, Step, Go, Widget, server, Hold, Keeps

\* A message goes to the widget's conversation, or is refused.
LEMMA DeliverDoes ==
    ASSUME CoreInv, ChatRoutes, ChatRows, NEW r \in Req, Deliver(r)
    PROVE  /\ pc[r] = "post" /\ Kind(r) = "submit" /\ pc'[r] \in {"store", "unsent"}
           /\ UNCHANGED talk
           /\ Keeps(r, mem[r].t, mem'[r].conv, mem[r].files, mem[r].m, mem[r].next)
           /\ pc'[r] = "store" => /\ w.conv # None /\ mem'[r].conv = w.conv
                                  /\ \A f \in mem[r].files : frow[f].state = "pending" /\ frow[f].conv = w.conv
  BY TalkHas, NoMemFields DEF Deliver, At, Move, Step, Go, talk, server, Hold, Keeps

\* A message is stored, or was there.
LEMMA StoreMessageDoes ==
    ASSUME CoreInv, ChatRoutes, ChatRows, NEW r \in Req, StoreMessage(r)
    PROVE  /\ pc[r] = "store" /\ Kind(r) = "submit" /\ pc'[r] \in {"link", "answer"}
           /\ UNCHANGED <<w, conv, runs, frow, stored, stale>>
           /\ mem'[r] = mem[r]
           /\ pc'[r] = "answer" => r \in Rows(mem[r].conv) /\ chat' = chat
           /\ pc'[r] = "link" => /\ r \notin Rows(mem[r].conv)
                                 /\ chat' = chat \cup {[id |-> r, conv |-> mem[r].conv]}
  BY TalkHas, NoMemFields DEF StoreMessage, At, Move, Step, Go, Hold

\* The files of a message are linked, or some are not to be had.
LEMMA LinkDoes ==
    ASSUME CoreInv, ChatRoutes, ChatType, NEW r \in Req, Link(r)
    PROVE  /\ pc[r] = "link" /\ Kind(r) = "submit" /\ pc'[r] \in {"touch", "unsent"}
           /\ UNCHANGED <<w, conv, chat, runs, stored, stale>> /\ mem'[r] = mem[r]
           /\ DOMAIN frow' = Req /\ \A f \in Req : Linked(r, f) \/ frow'[f] = frow[f]
           /\ pc'[r] = "touch" => \A f \in mem[r].files : Linked(r, f)
           /\ pc'[r] = "unsent" => \E f \in mem[r].files : frow'[f] = frow[f] /\ (frow[f].state # "pending" \/ frow[f].conv # mem[r].conv)
  <1> DEFINE own == {f \in mem[r].files : frow[f].state = "pending" /\ frow[f].conv = mem[r].conv}
  <1>1. pc[r] = "link" /\ Kind(r) = "submit" /\ mem[r].files \subseteq Req
    BY TalkHas DEF Link, At, ChatType, Brings, TalkKinds
  <1>2. /\ UNCHANGED <<w, conv, chat, runs, stored, stale>> /\ mem'[r] = mem[r]
        /\ pc'[r] = IF own = mem[r].files THEN "touch" ELSE "unsent"
        /\ frow' = [f \in Req |-> IF f \in own THEN [frow[f] EXCEPT !.state = "linked", !.msg = r] ELSE frow[f]]
    BY TalkHas DEF Link, Move, Step, Go, Hold, ChatType
  <1>3. ASSUME NEW f \in Req PROVE IF f \in own THEN Linked(r, f) ELSE frow'[f] = frow[f]
    <2>1. CASE f \in own
      <3>1. frow'[f] = [frow[f] EXCEPT !.state = "linked", !.msg = r]
        BY <1>2, <2>1
      <3>2. QED
        BY <2>1, <3>1, TalkHas DEF Linked, ChatType
    <2>2. QED
      BY <1>2, <2>1
  <1>4. QED
    BY <1>1, <1>2, <1>3

\* A message is read.
LEMMA AnnounceDoes ==
    ASSUME CoreInv, ChatRoutes, ChatRows, NEW r \in Req, Announce(r)
    PROVE  /\ pc[r] = "touch" /\ Kind(r) = "submit" /\ pc'[r] = "answer"
           /\ UNCHANGED <<w, conv, chat, frow, stored, stale>>
           /\ mem'[r] = mem[r]
           /\ runs' = runs \cup {<<r, mem[r].conv, mem[r].tries>>}
  BY TalkHas, NoMemFields DEF Announce, At, Move, Step, Go, Hold

\* A message is answered.
LEMMA AnsweredDoes ==
    ASSUME CoreInv, ChatRoutes, ChatRows, NEW r \in Req, Answered(r)
    PROVE  /\ pc[r] = "answer" /\ Kind(r) = "submit" /\ pc'[r] = "done"
           /\ UNCHANGED talk
           /\ mem'[r] = mem[r]
  BY TalkHas, NoMemFields DEF Answered, At, Move, Step, Go, talk, server, Hold

\* A message is sent again.
LEMMA RetryDoes ==
    ASSUME CoreInv, ChatRoutes, ChatRows, NEW r \in Req, Retry(r)
    PROVE  /\ Kind(r) = "submit" /\ pc'[r] \in {"post", "unsent"}
           /\ UNCHANGED talk
           /\ Keeps(r, mem[r].t, mem[r].conv, mem[r].files, mem[r].m, mem[r].next)
           /\ pc[r] \in {"post", "store", "link", "touch", "answer"}
           /\ faults' > 0
  BY TalkHas, NoMemFields DEF Retry, Go, talk, server, Move, Step, Hold, Keeps, At

\* A message is sent again by hand.
LEMMA ClickRetryDoes ==
    ASSUME CoreInv, ChatRoutes, ChatRows, NEW r \in Req, ClickRetry(r)
    PROVE  /\ pc[r] = "unsent" /\ Kind(r) = "submit" /\ pc'[r] = "post"
           /\ UNCHANGED talk
           /\ Keeps(r, mem[r].t, mem[r].conv, mem[r].files, mem[r].m, mem[r].next)
  BY TalkHas, NoMemFields DEF ClickRetry, At, Move, Step, Go, talk, server, Hold, Keeps

\* A conversation is solved.
LEMMA SolveDoes ==
    ASSUME CoreInv, ChatRoutes, ChatRows, NEW r \in Req, Solve(r)
    PROVE  /\ pc[r] = "start" /\ Kind(r) = "solve" /\ pc'[r] = "done"
           /\ UNCHANGED <<w, chat, runs, frow, stored, stale>>
           /\ mem'[r] = mem[r]
           /\ DOMAIN conv' = Req
           /\ \A c \in Req : conv'[c] = conv[c] \/ Solved(c)
  <1>1. pc[r] = "start" /\ Kind(r) = "solve" /\ pc'[r] = "done"
    BY TalkHas, NoMemFields DEF Solve, At, Move, Step, Go
  <1>2. UNCHANGED <<w, chat, runs, frow, stored, stale>>
    BY TalkHas, NoMemFields DEF Solve
  <1>3. mem'[r] = mem[r]
    BY TalkHas, NoMemFields DEF Solve, Move, Step, Hold
  <1>4. DOMAIN conv' = Req
    BY TalkHas, NoMemFields DEF Solve, Move, Step, Go, Hold, At
  <1>5. \A c \in Req : conv'[c] = conv[c] \/ Solved(c)
    BY TalkHas, NoMemFields DEF Solve, Move, Step, Go, Hold, At, Solved
  <1>6. QED
    BY <1>1, <1>2, <1>3, <1>4, <1>5

\* A file is chosen.
LEMMA UploadFileDoes ==
    ASSUME CoreInv, ChatRoutes, ChatRows, NEW r \in Req, UploadFile(r)
    PROVE  /\ pc[r] = "start" /\ Kind(r) = "upload" /\ pc'[r] \in {"begin", "count"}
           /\ UNCHANGED talk
           /\ Keeps(r, mem[r].t, mem[r].conv, mem[r].files, mem[r].m, "count")
  BY TalkHas, NoMemFields DEF UploadFile, At, Move, Step, Go, talk, server, Hold, Keeps

\* A file has room, or none.
LEMMA CountDoes ==
    ASSUME CoreInv, ChatRoutes, ChatRows, NEW r \in Req, Count(r)
    PROVE  /\ pc[r] = "count" /\ Kind(r) = "upload" /\ pc'[r] \in {"put", "rejected"}
           /\ UNCHANGED talk
           /\ Keeps(r, mem[r].t, mem'[r].conv, mem[r].files, mem[r].m, mem[r].next)
           /\ pc'[r] = "put" => w.conv # None /\ mem'[r].conv = w.conv /\ ~(Cardinality(Pending(w.conv)) >= MaxPending)
  BY TalkHas, NoMemFields DEF Count, At, Move, Step, Go, talk, server, Hold, Keeps

\* A file is stored.
LEMMA PutFileDoes ==
    ASSUME CoreInv, ChatRoutes, ChatRows, NEW r \in Req, PutFile(r)
    PROVE  /\ pc[r] = "put" /\ Kind(r) = "upload" /\ pc'[r] = "row"
           /\ UNCHANGED <<w, conv, chat, runs, frow, stale>>
           /\ mem'[r] = mem[r]
           /\ stored' = stored \cup {r}
  BY TalkHas, NoMemFields DEF PutFile, At, Move, Step, Go, Hold

\* A file has its row.
LEMMA FileRowDoes ==
    ASSUME CoreInv, ChatRoutes, ChatRows, NEW r \in Req, FileRow(r)
    PROVE  /\ pc[r] = "row" /\ Kind(r) = "upload" /\ pc'[r] = "view"
           /\ UNCHANGED <<w, conv, chat, runs, stored, stale>> /\ mem'[r] = mem[r]
           /\ DOMAIN frow' = Req /\ Filed(r, mem[r].conv) /\ \A f \in Req \ {r} : frow'[f] = frow[f]
  <1>1. /\ pc[r] = "row" /\ Kind(r) = "upload" /\ pc'[r] = "view"
        /\ UNCHANGED <<w, conv, chat, runs, stored, stale>> /\ mem'[r] = mem[r]
        /\ DOMAIN frow' = Req /\ frow'[r] = [state |-> "pending", conv |-> mem[r].conv, msg |-> 0]
        /\ \A f \in Req \ {r} : frow'[f] = frow[f]
    BY TalkHas DEF FileRow, At, Move, Step, Go, Hold
  <1>2. QED
    BY <1>1, FileFields DEF Filed

\* The widget has a file that waits.
LEMMA FileViewDoes ==
    ASSUME CoreInv, ChatRoutes, ChatRows, NEW r \in Req, FileView(r)
    PROVE  /\ pc[r] = "view" /\ Kind(r) = "upload" /\ pc'[r] = "done"
           /\ Widget(w.token, w.conv, w.files \cup {r}) /\ UNCHANGED server
           /\ mem'[r] = mem[r]
  BY TalkHas, NoMemFields DEF FileView, At, Move, Step, Go, Widget, server, Hold

\* A file is removed again.
LEMMA RemoveFileDoes ==
    ASSUME CoreInv, ChatRoutes, ChatRows, NEW r \in Req, RemoveFile(r)
    PROVE  /\ pc[r] = "row" /\ Kind(r) = "upload" /\ pc'[r] = "failed"
           /\ UNCHANGED <<w, conv, chat, runs, frow, stale>>
           /\ mem'[r] = mem[r]
           /\ stored' = stored \ {r}
           /\ faults' > 0
  BY TalkHas, NoMemFields DEF RemoveFile, At, Go, Move, Step, Hold

\* A sweep lists orphans.
LEMMA SweepStartDoes ==
    ASSUME CoreInv, ChatRoutes, ChatRows, NEW r \in Req, SweepStart(r)
    PROVE  /\ pc[r] = "start" /\ Kind(r) = "sweep" /\ pc'[r] = "each"
           /\ UNCHANGED talk
           /\ Keeps(r, mem[r].t, mem[r].conv, {f \in stale : frow[f].state = "pending"}, mem[r].m, mem[r].next)
  BY TalkHas, NoMemFields DEF SweepStart, At, Move, Step, Go, talk, server, Hold, Keeps

\* A sweep removes a file.
LEMMA UnstoreDoes ==
    ASSUME CoreInv, ChatRoutes, ChatRows, NEW r \in Req, Unstore(r)
    PROVE  /\ pc[r] = "each" /\ Kind(r) = "sweep" /\ pc'[r] \in {"done", "unrow"}
           /\ UNCHANGED <<w, conv, chat, runs, frow, stale>>
           /\ Keeps(r, mem[r].t, mem[r].conv, mem'[r].files, mem'[r].m, mem[r].next)
           /\ mem'[r].files \subseteq mem[r].files
           /\ pc'[r] = "done" => stored' = stored
           /\ pc'[r] = "unrow" => mem'[r].m \in mem[r].files /\ stored' = stored \ {mem'[r].m}
  <1>1. pc[r] = "each" /\ Kind(r) = "sweep"
    BY TalkHas DEF Unstore, At
  <1>2. CASE mem[r].files = {}
    BY <1>1, <1>2, TalkHas, NoMemFields DEF Unstore, Move, Step, Go, Hold, Keeps, talk, server
  <1>3. CASE mem[r].files # {}
    <2>1. PICK f \in mem[r].files : /\ stored' = stored \ {f} /\ Step(r, "unrow", [mem[r] EXCEPT !.files = @ \ {f}, !.m = f])
                                    /\ UNCHANGED <<w, conv, chat, runs, frow, stale>>
      BY <1>3 DEF Unstore
    <2>2. mem'[r] = [mem[r] EXCEPT !.files = @ \ {f}, !.m = f] /\ pc'[r] = "unrow"
      BY <2>1, TalkHas DEF Step, Go, Hold
    <2>3. /\ mem'[r].m = f /\ mem'[r].files = mem[r].files \ {f}
          /\ mem'[r].t = mem[r].t /\ mem'[r].conv = mem[r].conv /\ mem'[r].next = mem[r].next /\ mem'[r].tries = mem[r].tries
      BY <2>2, TalkHas, NoMemFields
    <2>4. QED
      BY <1>1, <2>1, <2>2, <2>3 DEF Keeps
  <1>4. QED
    BY <1>2, <1>3

\* A sweep removes a row.
LEMMA UnrowDoes ==
    ASSUME CoreInv, ChatRoutes, ChatRows, NEW r \in Req, Unrow(r)
    PROVE  /\ pc[r] = "unrow" /\ Kind(r) = "sweep" /\ pc'[r] = "each"
           /\ UNCHANGED <<w, conv, chat, runs, stored, stale>>
           /\ mem'[r] = mem[r]
           /\ DOMAIN frow' = Req
           /\ \A f \in Req : IF f = mem[r].m THEN Gone(f) ELSE frow'[f] = frow[f]
  <1>1. pc[r] = "unrow" /\ Kind(r) = "sweep" /\ pc'[r] = "each"
    BY TalkHas, NoMemFields DEF Unrow, At, Move, Step, Go
  <1>2. UNCHANGED <<w, conv, chat, runs, stored, stale>>
    BY TalkHas, NoMemFields DEF Unrow
  <1>3. mem'[r] = mem[r]
    BY TalkHas, NoMemFields DEF Unrow, Move, Step, Hold
  <1>4. DOMAIN frow' = Req
    BY TalkHas, NoMemFields DEF Unrow, Move, Step, Go, Hold, At
  <1>5. \A f \in Req : IF f = mem[r].m THEN Gone(f) ELSE frow'[f] = frow[f]
    BY TalkHas, NoMemFields DEF Unrow, Move, Step, Go, Hold, At, Gone
  <1>6. QED
    BY <1>1, <1>2, <1>3, <1>4, <1>5

\* A sweep leaves a file.
LEMMA NextFileDoes ==
    ASSUME CoreInv, ChatRoutes, ChatRows, NEW r \in Req, NextFile(r)
    PROVE  /\ Kind(r) = "sweep" /\ pc'[r] = "each"
           /\ UNCHANGED talk
           /\ Keeps(r, mem[r].t, mem[r].conv, mem'[r].files, mem[r].m, mem[r].next)
           /\ pc[r] \in Sweeping
           /\ mem'[r].files \subseteq mem[r].files
           /\ faults' > 0
  BY TalkHas, NoMemFields DEF NextFile, Go, Sweeping, talk, server, Move, Step, Hold, Keeps, At

\* Which steps of the chat write what.
LEMMA TalkWriters ==
    ASSUME CoreInv, ChatRoutes, ChatType, NEW r \in Req, TalkStep(r)
    PROVE  /\ DOMAIN w' = DOMAIN w /\ stale' = stale
           /\ (w'.token = w.token /\ w'.conv = w.conv) \/ StartFresh(r) \/ Begun(r)
           /\ w'.files = w.files \/ SubmitForm(r) \/ FileView(r)
           /\ conv' = conv \/ InsertConversation(r) \/ Solve(r)
           /\ chat' = chat \/ StoreMessage(r)
           /\ runs' = runs \/ Announce(r)
           /\ frow' = frow \/ Link(r) \/ FileRow(r) \/ Unrow(r)
           /\ stored' = stored \/ PutFile(r) \/ RemoveFile(r) \/ Unstore(r)
           /\ mem'[r].t = mem[r].t \/ Begin(r)
           /\ mem'[r].conv = mem[r].conv \/ FindConversation(r) \/ InsertConversation(r) \/ Deliver(r) \/ Count(r)
           /\ mem'[r].files = mem[r].files \/ SubmitForm(r) \/ SweepStart(r) \/ Unstore(r) \/ NextFile(r)
           /\ mem'[r].m = mem[r].m \/ Unstore(r)
           /\ mem'[r].next = mem[r].next \/ OpenPanel(r) \/ SubmitForm(r) \/ UploadFile(r)
           /\ mem'[r].tries \in {mem[r].tries, mem[r].tries + 1, MaxTries}
  <1>1. ChatRows
    BY DEF ChatType
  <1>2. CASE OpenPanel(r) \/ ClosePanel(r) \/ GetConversation(r) \/ StartFresh(r) \/ Begin(r) \/ FindConversation(r)
             \/ InsertConversation(r) \/ Begun(r) \/ SubmitForm(r)
    BY <1>1, <1>2, OpenPanelDoes, ClosePanelDoes, GetConversationDoes, StartFreshDoes, BeginDoes, FindConversationDoes,
       InsertConversationDoes, BegunDoes, SubmitFormDoes DEF Widget, Keeps, talk, server
  <1>3. CASE Deliver(r) \/ StoreMessage(r) \/ Link(r) \/ Announce(r) \/ Answered(r) \/ Retry(r) \/ ClickRetry(r) \/ Solve(r)
             \/ UploadFile(r)
    BY <1>1, <1>3, DeliverDoes, StoreMessageDoes, LinkDoes, AnnounceDoes, AnsweredDoes, RetryDoes, ClickRetryDoes, SolveDoes,
       UploadFileDoes DEF Widget, Keeps, talk, server
  <1>4. CASE Count(r) \/ PutFile(r) \/ FileRow(r) \/ FileView(r) \/ RemoveFile(r) \/ SweepStart(r) \/ Unstore(r) \/ Unrow(r)
             \/ NextFile(r)
    BY <1>1, <1>4, CountDoes, PutFileDoes, FileRowDoes, FileViewDoes, RemoveFileDoes, SweepStartDoes, UnstoreDoes, UnrowDoes,
       NextFileDoes DEF Widget, Keeps, talk, server
  <1>5. QED
    BY <1>2, <1>3, <1>4 DEF TalkStep

\* Which steps of the chat lead where.
LEMMA TalkLeads ==
    ASSUME CoreInv, ChatRoutes, ChatType, NEW r \in Req, TalkStep(r)
    PROVE  /\ Kind(r) \in TalkKinds /\ pc[r] \notin Ended
           /\ pc'[r] \in Ended \/ Talks(Kind(r), pc'[r])
           /\ pc'[r] # "lost" /\ pc'[r] # "start"
           /\ pc'[r] = "get" => OpenPanel(r)
           /\ pc'[r] = "begin" => OpenPanel(r) \/ StartFresh(r) \/ SubmitForm(r) \/ UploadFile(r)
           /\ pc'[r] = "find" => Begin(r)
           /\ pc'[r] = "insert" => FindConversation(r)
           /\ pc'[r] = "begun" => FindConversation(r) \/ InsertConversation(r)
           /\ pc'[r] = "post" => Begun(r) \/ SubmitForm(r) \/ Retry(r) \/ ClickRetry(r)
           /\ pc'[r] = "store" => Deliver(r)
           /\ pc'[r] = "link" => StoreMessage(r)
           /\ pc'[r] = "touch" => Link(r)
           /\ pc'[r] = "answer" => StoreMessage(r) \/ Announce(r)
           /\ pc'[r] = "unsent" => Deliver(r) \/ Link(r) \/ Retry(r)
           /\ pc'[r] = "count" => Begun(r) \/ UploadFile(r)
           /\ pc'[r] = "put" => Count(r)
           /\ pc'[r] = "row" => PutFile(r)
           /\ pc'[r] = "view" => FileRow(r)
           /\ pc'[r] = "each" => SweepStart(r) \/ Unrow(r) \/ NextFile(r)
           /\ pc'[r] = "unrow" => Unstore(r)
           /\ pc'[r] \in Ended /\ Kind(r) = "submit" => Answered(r)
           /\ pc'[r] = "done" /\ Kind(r) = "upload" => FileView(r)
  <1>1. /\ ChatRows
        /\ pc[r] \in {"get"} \cup Beginning =>
            <<Kind(r), mem[r].next>> \in {<<"open", "done">>, <<"submit", "post">>, <<"upload", "count">>}
    BY DEF ChatType, ChatRoutes
  <1>2. CASE OpenPanel(r) \/ ClosePanel(r) \/ GetConversation(r) \/ StartFresh(r) \/ Begin(r) \/ FindConversation(r)
             \/ InsertConversation(r) \/ SubmitForm(r)
    BY <1>1, <1>2, OpenPanelDoes, ClosePanelDoes, GetConversationDoes, StartFreshDoes, BeginDoes, FindConversationDoes,
       InsertConversationDoes, SubmitFormDoes DEF Ended, Talks, TalkKinds, Begins, Beginning, Delivering, Storing, Sweeping
  <1>3. CASE Deliver(r) \/ StoreMessage(r) \/ Link(r) \/ Announce(r) \/ Answered(r) \/ Retry(r) \/ ClickRetry(r) \/ Solve(r)
             \/ UploadFile(r)
    BY <1>1, <1>3, DeliverDoes, StoreMessageDoes, LinkDoes, AnnounceDoes, AnsweredDoes, RetryDoes, ClickRetryDoes, SolveDoes,
       UploadFileDoes DEF Ended, Talks, TalkKinds, Begins, Beginning, Delivering, Storing, Sweeping
  <1>4. CASE Count(r) \/ PutFile(r) \/ FileRow(r) \/ FileView(r) \/ RemoveFile(r)
    BY <1>1, <1>4, CountDoes, PutFileDoes, FileRowDoes, FileViewDoes, RemoveFileDoes
       DEF Ended, Talks, TalkKinds, Begins, Beginning, Delivering, Storing, Sweeping
  <1>5. CASE SweepStart(r) \/ Unstore(r) \/ Unrow(r) \/ NextFile(r)
    BY <1>1, <1>5, SweepStartDoes, UnstoreDoes, UnrowDoes, NextFileDoes
       DEF Ended, Talks, TalkKinds, Begins, Beginning, Delivering, Storing, Sweeping
  <1>6. CASE Begun(r)
    <2>1. pc[r] = "begun" /\ Kind(r) \in Begins /\ pc'[r] = mem[r].next
      BY <1>1, <1>6, BegunDoes
    <2>2. <<Kind(r), pc'[r]>> \in {<<"open", "done">>, <<"submit", "post">>, <<"upload", "count">>}
      BY <1>1, <2>1 DEF Beginning
    <2>3. QED
      BY <1>6, <2>1, <2>2 DEF Ended, Talks, TalkKinds, Begins, Beginning, Delivering, Storing, Sweeping
  <1>7. QED
    BY <1>2, <1>3, <1>4, <1>5, <1>6 DEF TalkStep

\* What was noted stays so, and what a process of the chat holds and where it is stays, when somebody else takes a
\* step or comes, or an upload or a sweep dies.
ChatAside ==
    /\ UNCHANGED talk
    /\ met \subseteq met' /\ faults' \in Nat /\ faults' >= faults
    /\ \A r \in Req :
        \/ pc'[r] = pc[r] /\ mem'[r] = mem[r] /\ job'[r] = job[r]
        \/ pc[r] = "free" /\ Kind(r) = "none" /\ pc'[r] = "start" /\ mem'[r] = NoMem
        \/ /\ pc[r] \notin Ended /\ pc'[r] = "lost" /\ mem'[r] = mem[r] /\ job'[r] = job[r] /\ faults' > 0
           /\ Kind(r) \in {"upload", "sweep"}
        \/ Kind(r) \notin TalkKinds /\ pc[r] \notin Ended /\ pc'[r] \notin {"free"} \cup TalkSteps /\ job'[r] = job[r]

\* A step is one of the chat, a day that passes, or aside.
LEMMA ChatStepsOf ==
    ASSUME CoreInv, MailRoutes, ChatRoutes, [Next]_vars
    PROVE  \/ \E r \in Req : TalkStep(r)
           \/ Age
           \/ ChatAside
  <1>1. /\ DOMAIN pc = Req /\ DOMAIN mem = Req /\ DOMAIN job = Req /\ faults \in Nat
        /\ \A r \in Req : pc[r] = "free" => Kind(r) = "none" /\ mem[r] = NoMem
        /\ \A r \in Req : Kind(r) \notin TalkKinds => pc[r] \notin TalkSteps
    BY DEF CoreInv, ProcessType, ChatRoutes
  <1>2. ASSUME NEW r \in Req, Walks(r), Kind(r) \notin TalkKinds, pc'[r] \notin TalkSteps, UNCHANGED talk
        PROVE  ChatAside
    BY <1>1, <1>2 DEF ChatAside, Walks
  <1>3. CASE UNCHANGED talk /\ Still
    BY <1>1, <1>3 DEF ChatAside, Still
  <1>4. CASE \E r \in Req : InboxStep(r) /\ UNCHANGED talk
    <2>1. PICK r \in Req : InboxStep(r) /\ UNCHANGED talk
      BY <1>4
    <2>2. Walks(r) /\ Kind(r) \in Mailing /\ (pc'[r] \in Ended \/ Serves(Kind(r), pc'[r]))
      BY <2>1, InboxStepsElsewhere, MailGoesOn DEF Elsewhere
    <2>3. Kind(r) \notin TalkKinds /\ pc'[r] \notin TalkSteps
      BY <2>2 DEF Mailing, TalkKinds, Serves, Ended, Syncing, Sending, Walking, TalkSteps, Beginning, Delivering, Storing, Sweeping
    <2>4. QED
      BY <1>2, <2>1, <2>2, <2>3
  <1>5. CASE \E r \in Req : Kind(r) \in Mailing /\ InboxFail(r) /\ UNCHANGED talk
    <2>1. PICK r \in Req : Kind(r) \in Mailing /\ InboxFail(r) /\ UNCHANGED talk
      BY <1>5
    <2>2. Walks(r) /\ pc'[r] \in Ended \cup {"files", "loop", "next", "wipe"}
      BY <2>1, FailuresElsewhere, MailFailure DEF Elsewhere
    <2>3. Kind(r) \notin TalkKinds /\ pc'[r] \notin TalkSteps
      BY <2>1, <2>2 DEF Mailing, TalkKinds, Ended, TalkSteps, Beginning, Delivering, Storing, Sweeping
    <2>4. QED
      BY <1>2, <2>1, <2>2, <2>3
  <1>6. CASE \E r \in Req : Kind(r) \in Mailing \cup {"upload", "sweep"} /\ Die(r) /\ UNCHANGED talk
    <2>1. PICK r \in Req : Kind(r) \in Mailing \cup {"upload", "sweep"} /\ Die(r) /\ UNCHANGED talk
      BY <1>6
    <2>2. Walks(r) /\ mem' = mem /\ pc'[r] = "lost" /\ faults' > 0 /\ UNCHANGED job
      <3>1. Walks(r)
        BY <2>1, FailuresElsewhere DEF Elsewhere
      <3>2. QED
        BY <1>1, <2>1, <3>1 DEF Die, Go
    <2>3. Kind(r) \in {"upload", "sweep"} \/ Kind(r) \notin TalkKinds
      BY <2>1 DEF Mailing, TalkKinds
    <2>4. "lost" \notin {"free"} \cup TalkSteps
      BY DEF TalkSteps, Beginning, Delivering, Storing, Sweeping
    <2>5. QED
      BY <1>1, <2>1, <2>2, <2>3, <2>4 DEF ChatAside, Walks
  <1>7. CASE \E r \in Req : \E j \in area.jobs : Submit(r, j) /\ UNCHANGED talk
    <2>1. PICK r \in Req, j \in area.jobs : Submit(r, j) /\ UNCHANGED talk
      BY <1>7
    <2>2. /\ pc[r] = "free" /\ job' = [job EXCEPT ![r] = j] /\ pc' = [pc EXCEPT ![r] = "start"]
          /\ met \subseteq met' /\ UNCHANGED <<mem, faults>>
      BY <2>1 DEF Submit, Go
    <2>3. QED
      BY <1>1, <2>1, <2>2 DEF ChatAside
  <1>8. CASE \E r \in Req : IntakeStep(r) /\ UNCHANGED talk
    <2>1. PICK r \in Req : IntakeStep(r) /\ UNCHANGED talk
      BY <1>8
    <2>2. Walks(r) /\ Kind(r) \in IntakeKinds /\ (pc'[r] \in Ended \cup {"start"} \/ <<Kind(r), pc'[r]>> \in Handled)
      BY <2>1, IntakeStepsHere DEF Here
    <2>3. Kind(r) \notin TalkKinds /\ pc'[r] \notin TalkSteps
      BY <2>2 DEF IntakeKinds, TalkKinds, Handled, Ended, TalkSteps, Beginning, Delivering, Storing, Sweeping
    <2>4. QED
      BY <1>2, <2>1, <2>2, <2>3
  <1>9. CASE \E p \in {Main, Other} : Restart(p) /\ UNCHANGED talk
    <2>1. /\ \A r \in Req : pc'[r] = pc[r] \/ (pc[r] \notin Ended /\ Kind(r) \in {"import", "eval"} /\ pc'[r] = "lost")
          /\ faults' = faults + 1 /\ UNCHANGED <<job, mem, met, talk>>
      BY <1>1, <1>9 DEF Restart, InFlight
    <2>2. "lost" \notin {"free"} \cup TalkSteps /\ {"import", "eval"} \cap TalkKinds = {}
      BY DEF TalkSteps, TalkKinds, Beginning, Delivering, Storing, Sweeping
    <2>3. QED
      BY <1>1, <2>1, <2>2 DEF ChatAside
  <1>10. CASE Google /\ UNCHANGED talk
    BY <1>3, <1>10 DEF Google, Arrive, GrowOld, Same, Still
  <1>11. CASE UNCHANGED vars
    BY <1>3, <1>11 DEF vars, channels, Still
  <1>12. QED
    BY <1>4, <1>5, <1>6, <1>7, <1>8, <1>9, <1>10, <1>11 DEF Next, ChannelsNext

\* A step of the chat moves nobody else, and keeps who is what and who was together.
LEMMA TalkWalk ==
    ASSUME CoreInv, NEW r \in Req, TalkStep(r)
    PROVE  /\ pc[r] \notin Ended /\ pc'[r] # "free" /\ met' = met /\ faults \in Nat /\ faults' \in Nat /\ faults' >= faults
           /\ \A q \in Req : Kind(q)' = Kind(q)
           /\ \A q \in Req \ {r} : pc'[q] = pc[q] /\ mem'[q] = mem[q]
  <1>1. Walks(r)
    BY TalkStepsElsewhere DEF Elsewhere
  <1>2. QED
    BY <1>1 DEF Walks, Kind, CoreInv, ProcessType

\* The processes of the chat stay at steps of their own handlers, and nobody else comes to one.
LEMMA ChatRoutesStep ==
    ASSUME CoreInv, MailRoutes, ChatRoutes, ChatType, [Next]_vars
    PROVE  ChatRoutes'
  <1>1. CASE \E r \in Req : TalkStep(r)
    <2>1. PICK r \in Req : TalkStep(r)
      BY <1>1
    <2>2. /\ pc[r] \in {"get"} \cup Beginning =>
             <<Kind(r), mem[r].next>> \in {<<"open", "done">>, <<"submit", "post">>, <<"upload", "count">>}
          /\ ChatRows
      BY DEF ChatRoutes, ChatType
    <2>3. Kind(r) \in TalkKinds /\ (pc'[r] \in Ended \/ Talks(Kind(r), pc'[r]))
      BY <2>1, TalkLeads
    <2>4. pc'[r] \in {"get"} \cup Beginning =>
            <<Kind(r), mem'[r].next>> \in {<<"open", "done">>, <<"submit", "post">>, <<"upload", "count">>}
      <3>1. pc'[r] \in {"get", "begin"} => OpenPanel(r) \/ StartFresh(r) \/ SubmitForm(r) \/ UploadFile(r)
        BY <2>1, TalkLeads
      <3>2. pc'[r] \in {"find", "insert", "begun"} => Begin(r) \/ FindConversation(r) \/ InsertConversation(r)
        BY <2>1, TalkLeads
      <3>3. CASE OpenPanel(r) \/ SubmitForm(r) \/ UploadFile(r)
        BY <2>2, <3>3, OpenPanelDoes, SubmitFormDoes, UploadFileDoes DEF Keeps
      <3>4. CASE StartFresh(r)
        BY <2>2, <3>4, StartFreshDoes
      <3>5. CASE Begin(r) \/ FindConversation(r) \/ InsertConversation(r)
        BY <2>2, <3>5, BeginDoes, FindConversationDoes, InsertConversationDoes DEF Keeps, Beginning
      <3>6. QED
        BY <3>1, <3>2, <3>3, <3>4, <3>5 DEF Beginning
    <2>5. QED
      BY <2>1, <2>3, <2>4, TalkWalk DEF ChatRoutes
  <1>2. CASE Age
    BY <1>2 DEF Age, Same, ChatRoutes, Kind
  <1>3. CASE ChatAside
    <2>1. ASSUME NEW r \in Req
          PROVE  /\ Kind(r)' \in TalkKinds => pc'[r] \in Ended \cup {"start"} \/ Talks(Kind(r)', pc'[r])
                 /\ Kind(r)' \notin TalkKinds => pc'[r] \notin TalkSteps
                 /\ pc'[r] \in {"get"} \cup Beginning =>
                     <<Kind(r)', mem'[r].next>> \in {<<"open", "done">>, <<"submit", "post">>, <<"upload", "count">>}
      <3>1. CASE pc'[r] = pc[r] /\ mem'[r] = mem[r] /\ job'[r] = job[r]
        BY <3>1 DEF ChatRoutes, Kind
      <3>2. CASE pc'[r] \in {"start", "lost"}
        BY <3>2 DEF Ended, TalkSteps, Beginning, Delivering, Storing, Sweeping
      <3>3. CASE Kind(r) \notin TalkKinds /\ pc'[r] \notin TalkSteps /\ job'[r] = job[r]
        BY <3>3 DEF Kind, TalkSteps
      <3>4. QED
        BY <1>3, <3>1, <3>2, <3>3 DEF ChatAside
    <2>2. QED
      BY <2>1 DEF ChatRoutes
  <1>4. QED
    BY <1>1, <1>2, <1>3, ChatStepsOf

\* The steps of the chat keep its rows typed.
LEMMA ChatRowsStep ==
    ASSUME CoreInv, ChatRoutes, ChatType, NEW r \in Req, TalkStep(r)
    PROVE  ChatRows'
  <1>1. ChatRows /\ Brings(r)
    BY DEF ChatType
  <1>2. Kind(r) \in TalkKinds
    BY TalkLeads
  <1>3. DOMAIN w' = {"open", "token", "conv", "files"} /\ w'.token \in Req \cup {None} /\ w'.conv \in Req \cup {None} /\ w'.files \subseteq Req
    <2>1. StartFresh(r) \/ Begun(r) => w'.token \in Req \cup {None} /\ w'.conv \in Req \cup {None}
      BY <1>1, StartFreshDoes, BegunDoes DEF Widget, Brings
    <2>2. SubmitForm(r) \/ FileView(r) => w'.files \subseteq Req
      BY <1>1, SubmitFormDoes, FileViewDoes DEF Widget, ChatRows
    <2>3. QED
      BY <1>1, <2>1, <2>2, TalkWriters DEF ChatRows
  <1>4. DOMAIN conv' = Req /\ \A c \in Req : DOMAIN conv'[c] = {"owner", "open"} /\ (conv'[c].open => conv'[c].owner \in Req)
    <2>1. CASE InsertConversation(r)
      BY <1>1, <2>1, InsertConversationDoes DEF ChatRows, Brings
    <2>2. CASE Solve(r)
      BY <1>1, <2>2, SolveDoes DEF ChatRows, Solved
    <2>3. QED
      BY <1>1, <2>1, <2>2, TalkWriters DEF ChatRows
  <1>5. chat' \subseteq [id : Req, conv : Req] /\ IsFiniteSet(chat')
    <2>1. CASE StoreMessage(r)
      <3>1. chat' \in {chat, chat \cup {[id |-> r, conv |-> mem[r].conv]}} /\ mem[r].conv \in Req
        BY <1>1, <2>1, StoreMessageDoes DEF Brings
      <3>2. IsFiniteSet(chat')
        <4>1. \A x : IsFiniteSet(chat \cup {x})
          BY <1>1, FS_AddElement DEF ChatRows
        <4>2. QED
          BY <1>1, <3>1, <4>1 DEF ChatRows
      <3>3. QED
        BY <1>1, <3>1, <3>2 DEF ChatRows
    <2>2. QED
      BY <1>1, <2>1, TalkWriters DEF ChatRows
  <1>6. runs' \subseteq Req \X Req \X Nat
    <2>1. CASE Announce(r)
      BY <1>1, <1>2, <2>1, AnnounceDoes DEF ChatRows, Brings
    <2>2. QED
      BY <1>1, <2>1, TalkWriters DEF ChatRows
  <1>7. DOMAIN frow' = Req /\ \A f \in Req : DOMAIN frow'[f] = DOMAIN NoFile /\ frow'[f].msg \in Req \cup {0}
    <2>1. CASE Link(r)
      BY <1>1, <2>1, LinkDoes DEF ChatRows, Linked
    <2>2. CASE FileRow(r)
      BY <1>1, <2>2, FileRowDoes DEF ChatRows, Filed
    <2>3. CASE Unrow(r)
      BY <1>1, <2>3, UnrowDoes DEF ChatRows, Gone
    <2>4. QED
      BY <1>1, <2>1, <2>2, <2>3, TalkWriters DEF ChatRows
  <1>8. stored' \subseteq Req /\ stale' \subseteq Req
    BY <1>1, PutFileDoes, RemoveFileDoes, UnstoreDoes, TalkWriters DEF ChatRows
  <1>9. QED
    BY <1>3, <1>4, <1>5, <1>6, <1>7, <1>8 DEF ChatRows

\* The steps of the chat keep what its processes hold typed.
LEMMA BringsStep ==
    ASSUME CoreInv, ChatRoutes, ChatType, NEW r \in Req, TalkStep(r)
    PROVE  Brings(r)'
  <1>1. ChatRows /\ Brings(r) /\ Kind(r) \in TalkKinds /\ Kind(r)' = Kind(r) /\ MaxTries \in Nat
    BY TalkLeads, TalkWalk, ConversationsAssumption DEF ChatType
  <1>2. mem'[r].tries \in Nat /\ mem'[r].files \subseteq Req
    <2>1. SubmitForm(r) \/ SweepStart(r) \/ Unstore(r) \/ NextFile(r) => mem'[r].files \subseteq Req
      BY <1>1, SubmitFormDoes, SweepStartDoes, UnstoreDoes, NextFileDoes DEF Keeps, ChatRows, Brings
    <2>2. QED
      BY <1>1, <2>1, TalkWriters DEF Brings
  <1>3. pc'[r] \in {"find", "insert", "begun"} => mem'[r].t \in Req
    <2>1. Begin(r) => mem'[r].t \in Req
      BY <1>1, BeginDoes DEF Keeps, ChatRows
    <2>2. FindConversation(r) \/ InsertConversation(r) => mem'[r].t \in Req
      BY <1>1, FindConversationDoes, InsertConversationDoes DEF Keeps, Brings
    <2>3. QED
      BY <2>1, <2>2, TalkLeads
  <1>4. pc'[r] \in {"begun", "store", "link", "touch", "answer", "put", "row"} => mem'[r].conv \in Req
    <2>1. FindConversation(r) \/ InsertConversation(r) \/ Deliver(r) \/ Count(r) =>
            pc'[r] \in {"insert", "unsent", "rejected"} \/ mem'[r].conv \in Req
      BY <1>1, FindConversationDoes, InsertConversationDoes, DeliverDoes, CountDoes DEF Keeps, ChatRows, OpenOf
    <2>2. StoreMessage(r) \/ Link(r) \/ Announce(r) \/ PutFile(r) => mem'[r].conv \in Req
      BY <1>1, StoreMessageDoes, LinkDoes, AnnounceDoes, PutFileDoes DEF Brings
    <2>3. QED
      BY <2>1, <2>2, TalkLeads
  <1>5. pc'[r] = "unrow" => mem'[r].m \in Req
    BY <1>1, TalkLeads, UnstoreDoes DEF Brings
  <1>6. QED
    BY <1>1, <1>2, <1>3, <1>4, <1>5 DEF Brings

\* Every step keeps the rows of the chat and what its processes hold typed.
LEMMA ChatTypeStep ==
    ASSUME CoreInv, MailRoutes, ChatRoutes, ChatType, [Next]_vars
    PROVE  ChatType'
  <1>1. CASE \E r \in Req : TalkStep(r)
    <2>1. PICK r \in Req : TalkStep(r)
      BY <1>1
    <2>2. ASSUME NEW q \in Req \ {r} PROVE Brings(q)'
      <3>1. pc'[q] = pc[q] /\ mem'[q] = mem[q] /\ Kind(q)' = Kind(q)
        BY <2>1, TalkWalk
      <3>2. QED
        BY <3>1 DEF ChatType, Brings
    <2>3. QED
      BY <2>1, <2>2, ChatRowsStep, BringsStep DEF ChatType
  <1>2. CASE Age
    BY <1>2 DEF Age, Same, ChatType, ChatRows, Brings, Kind
  <1>3. CASE ChatAside
    <2>1. ChatRows'
      BY <1>3 DEF ChatAside, talk, server, ChatType, ChatRows
    <2>2. ASSUME NEW r \in Req PROVE Brings(r)'
      <3>1. CASE pc'[r] = pc[r] /\ mem'[r] = mem[r] /\ job'[r] = job[r]
        BY <3>1 DEF ChatType, Brings, Kind
      <3>2. CASE pc'[r] = "start" /\ mem'[r] = NoMem
        BY <3>2 DEF Brings, NoMem
      <3>3. CASE pc'[r] = "lost" /\ mem'[r] = mem[r] /\ job'[r] = job[r]
        BY <3>3 DEF ChatType, Brings, Kind
      <3>4. CASE Kind(r) \notin TalkKinds /\ pc'[r] \notin TalkSteps /\ job'[r] = job[r]
        BY <3>4 DEF Brings, Kind, TalkSteps, Beginning, Delivering, Storing, Sweeping
      <3>5. QED
        BY <1>3, <3>1, <3>2, <3>3, <3>4 DEF ChatAside
    <2>3. QED
      BY <2>1, <2>2 DEF ChatType
  <1>4. QED
    BY <1>1, <1>2, <1>3, ChatStepsOf

-----------------------------------------------------------------------------
(* Conversations and messages *)

\* Two who began or uploaded together stay so.
LEMMA TogetherLasts ==
    ASSUME CoreInv, [Next]_vars
    PROVE  (TwoBegan => TwoBegan') /\ (TwoUploads => TwoUploads')
  <1>1. \A r \in Req : Kind(r) \in Begins => pc[r] # "free"
    BY DEF CoreInv, ProcessType, Begins
  <1>2. met \subseteq met' /\ \A r \in Req : Kind(r) \in Begins => Kind(r)' = Kind(r)
    BY <1>1, Lasting DEF Kind
  <1>3. QED
    BY <1>2 DEF TwoBegan, TwoUploads, Begins

\* Two who begin or upload at once are noted as such.
LEMMA Together ==
    ASSUME CoreInv, NEW q \in Req, NEW r \in Req, q # r, pc[q] \notin Ended, pc[r] \notin Ended, Kind(q) \in Begins, Kind(r) \in Begins
    PROVE  TwoBegan /\ (Kind(q) = "upload" /\ Kind(r) = "upload" => TwoUploads)
  <1>1. {q, r} \in met
    BY Meeting
  <1>2. QED
    BY <1>1 DEF TwoBegan, TwoUploads, Begins

\* Every step keeps the open conversations of a visitor one, unless two were begun together.
LEMMA OpenStep ==
    ASSUME CoreInv, MailRoutes, ChatRoutes, ChatType, OpenInv, [Next]_vars
    PROVE  OpenInv'
  <1>1. TwoBegan => OpenInv'
    BY TogetherLasts DEF OpenInv
  <1>2. SUFFICES ASSUME ~TwoBegan PROVE OpenInv'
    BY <1>1
  <1>3. /\ \A r \in Req : pc[r] = "insert" => OpenOf(mem[r].t) = {}
        /\ \A c, d \in Req : conv[c].owner = conv[d].owner /\ conv[c].open /\ conv[d].open => c = d
        /\ DOMAIN conv = Req
    BY <1>2 DEF OpenInv, ChatType, ChatRows
  <1>4. \A q, c \in Req : pc[q] = "insert" => ~(conv[c].owner = mem[q].t /\ conv[c].open)
    BY <1>3 DEF OpenOf
  <1>5. CASE \E r \in Req : TalkStep(r)
    <2>1. PICK r \in Req : TalkStep(r)
      BY <1>5
    <2>2. ChatRows
      BY DEF ChatType
    <2>3. pc'[r] = "insert" => OpenOf(mem'[r].t) = {} /\ conv' = conv
      BY <2>1, <2>2, TalkLeads, FindConversationDoes DEF Keeps, talk, server
    <2>4. CASE InsertConversation(r)
      <3>1. /\ conv' = [conv EXCEPT ![r] = [owner |-> mem[r].t, open |-> TRUE]] /\ OpenOf(mem[r].t) = {} /\ pc'[r] = "begun"
            /\ Kind(r) \in Begins /\ pc[r] = "insert"
        BY <1>3, <2>2, <2>4, InsertConversationDoes
      <3>2. \A q \in Req : pc'[q] # "insert"
        <4>1. SUFFICES ASSUME NEW q \in Req, pc'[q] = "insert" PROVE FALSE
          OBVIOUS
        <4>2. q # r /\ pc[q] = "insert" /\ Kind(q) \in Begins
          BY <2>1, <3>1, <4>1, TalkWalk, TalkHas, <2>2
        <4>3. QED
          BY <1>2, <3>1, <4>2, Together DEF Ended
      <3>3. \A c \in Req : conv[c].open => conv[c].owner # mem[r].t
        BY <3>1 DEF OpenOf
      <3>4. \A c, d \in Req : conv'[c].owner = conv'[d].owner /\ conv'[c].open /\ conv'[d].open => c = d
        BY <1>3, <3>1, <3>3
      <3>5. QED
        BY <3>2, <3>4 DEF OpenInv
    <2>5. CASE Solve(r)
      <3>1. \A c \in Req : conv'[c] = conv[c] \/ (conv'[c].owner = conv[c].owner /\ ~conv'[c].open)
        BY <2>2, <2>5, SolveDoes DEF Solved
      <3>2. \A q \in Req : pc'[q] = "insert" => pc[q] = "insert" /\ mem'[q] = mem[q]
        <4>1. pc'[r] = "done"
          BY <2>2, <2>5, SolveDoes
        <4>2. QED
          BY <2>1, <4>1, TalkWalk
      <3>3. \A q, c \in Req : pc'[q] = "insert" => ~(conv'[c].owner = mem'[q].t /\ conv'[c].open)
        BY <1>4, <3>1, <3>2
      <3>4. QED
        BY <1>3, <3>1, <3>3 DEF OpenInv, OpenOf
    <2>6. CASE conv' = conv
      <3>1. \A q, c \in Req : pc'[q] = "insert" => ~(conv'[c].owner = mem'[q].t /\ conv'[c].open)
        BY <1>4, <2>1, <2>3, <2>6, TalkWalk DEF OpenOf
      <3>2. QED
        BY <1>3, <2>6, <3>1 DEF OpenInv, OpenOf
    <2>7. QED
      BY <2>1, <2>4, <2>5, <2>6, TalkWriters
  <1>6. CASE Age \/ ChatAside
    <2>1. conv' = conv
      BY <1>6 DEF Age, ChatAside, talk, server
    <2>2. \A q \in Req : pc'[q] = "insert" => pc[q] = "insert" /\ mem'[q] = mem[q]
      <3>1. "insert" \in TalkSteps
        BY DEF TalkSteps, Beginning
      <3>2. QED
        BY <1>6, <3>1 DEF Age, ChatAside
    <2>3. QED
      BY <1>3, <2>1, <2>2 DEF OpenInv, OpenOf
  <1>7. QED
    BY <1>5, <1>6, ChatStepsOf

\* A step of somebody else leaves the processes at steps of the chat where they are.
LEMMA TalkersStay ==
    ASSUME CoreInv, ChatRoutes, Age \/ ChatAside, NEW r \in Req
    PROVE  /\ pc'[r] \in TalkSteps => pc[r] = pc'[r] /\ mem'[r] = mem[r] /\ Kind(r)' = Kind(r)
           /\ Kind(r)' = "submit" /\ pc'[r] # "start" => pc[r] = pc'[r] /\ mem'[r] = mem[r] /\ Kind(r) = "submit"
           /\ Kind(r) = "submit" => pc[r] = pc'[r] /\ mem'[r] = mem[r] /\ Kind(r)' = "submit"
  <1>1. CASE Age
    BY <1>1 DEF Age, Same, Kind
  <1>2. CASE ChatAside
    BY <1>2 DEF ChatAside, Kind, TalkKinds, TalkSteps, Beginning, Delivering, Storing, Sweeping
  <1>3. QED
    BY <1>1, <1>2

\* A message under way is for the conversation the widget has, after any step.
LEMMA MessagesWalk ==
    ASSUME CoreInv, ChatRoutes, ChatType, RowInv, [Next]_vars, NEW r \in Req, TalkStep(r), ~TwoBegan
    PROVE  /\ \A q \in Req \ {r} : Kind(q) = "submit" /\ pc[q] \notin Ended => w'.conv = w.conv \/ pc[q] = "start"
           /\ \A q \in Req : pc'[q] \in {"store", "link", "touch", "answer"} => mem'[q].conv = w'.conv
  <1>1. ChatRows
    BY DEF ChatType
  <1>2. w'.conv = w.conv \/ (Kind(r) \in Begins /\ pc[r] \in {"get"} \cup Beginning)
    BY <1>1, TalkWriters, StartFreshDoes, BegunDoes DEF Beginning, Begins
  <1>3. \A q \in Req \ {r} : Kind(q) \in Begins /\ pc[q] \notin Ended => w'.conv = w.conv
    <2>1. SUFFICES ASSUME NEW q \in Req \ {r}, Kind(q) \in Begins, pc[q] \notin Ended, w'.conv # w.conv PROVE FALSE
      OBVIOUS
    <2>2. Kind(r) \in Begins /\ pc[r] \notin Ended
      BY <1>2, <2>1, TalkWalk
    <2>3. QED
      BY <2>1, <2>2, Together
  <1>4. ASSUME NEW q \in Req, pc'[q] \in {"store", "link", "touch", "answer"} PROVE mem'[q].conv = w'.conv
    <2>1. CASE q = r
      <3>1. Deliver(r) \/ StoreMessage(r) \/ Link(r) \/ Announce(r)
        BY <1>4, <2>1, TalkLeads
      <3>2. CASE Deliver(r)
        BY <1>1, <1>4, <2>1, <3>2, DeliverDoes DEF talk, server
      <3>3. CASE StoreMessage(r) \/ Link(r) \/ Announce(r)
        BY <1>1, <2>1, <3>3, StoreMessageDoes, LinkDoes, AnnounceDoes DEF RowInv
      <3>4. QED
        BY <3>1, <3>2, <3>3
    <2>2. CASE q # r
      <3>1. pc[q] = pc'[q] /\ mem'[q] = mem[q] /\ Kind(q) = "submit"
        BY <1>1, <1>4, <2>2, TalkWalk, TalkHas
      <3>2. QED
        BY <1>3, <1>4, <2>2, <3>1 DEF RowInv, Begins, Ended
    <2>3. QED
      BY <2>1, <2>2
  <1>5. QED
    BY <1>3, <1>4 DEF Begins

\* A message is delivered until it is there or given up, and what is stored stays.
LEMMA DeliveryGoesOn ==
    ASSUME CoreInv, ChatRoutes, ChatType, NEW r \in Req, TalkStep(r)
    PROVE  /\ pc[r] \in Delivering => Kind(r) = "submit" /\ pc'[r] \in Delivering \cup {"done"} /\ mem'[r].files = mem[r].files
                                      /\ w' = w
           /\ chat' = chat \/ (pc[r] = "store" /\ chat' = chat \cup {[id |-> r, conv |-> mem[r].conv]} /\ pc'[r] = "link"
                                /\ ~Stored(r) /\ w' = w /\ mem'[r] = mem[r])
           /\ StoreMessage(r) /\ pc'[r] = "answer" => Stored(r)
  <1>1. ChatRows
    BY DEF ChatType
  <1>2. pc[r] \in Delivering =>
          Deliver(r) \/ StoreMessage(r) \/ Link(r) \/ Announce(r) \/ Answered(r) \/ Retry(r) \/ ClickRetry(r)
    <2>1. CASE OpenPanel(r) \/ ClosePanel(r) \/ GetConversation(r) \/ StartFresh(r) \/ Begin(r) \/ FindConversation(r)
             \/ InsertConversation(r) \/ Begun(r) \/ SubmitForm(r) \/ Solve(r)
      BY <1>1, <2>1, OpenPanelDoes, ClosePanelDoes, GetConversationDoes, StartFreshDoes, BeginDoes, FindConversationDoes,
         InsertConversationDoes, BegunDoes, SubmitFormDoes, SolveDoes DEF Delivering
    <2>2. CASE UploadFile(r) \/ Count(r) \/ PutFile(r) \/ FileRow(r) \/ FileView(r) \/ RemoveFile(r)
      BY <1>1, <2>2, UploadFileDoes, CountDoes, PutFileDoes, FileRowDoes, FileViewDoes, RemoveFileDoes DEF Delivering
    <2>3. CASE SweepStart(r) \/ Unstore(r) \/ Unrow(r) \/ NextFile(r)
      <3>1. pc[r] \in {"start", "each", "unrow"}
        BY <1>1, <2>3, SweepStartDoes, UnstoreDoes, UnrowDoes, NextFileDoes DEF Sweeping
      <3>2. QED
        BY <3>1 DEF Delivering
    <2>4. QED
      BY <2>1, <2>2, <2>3 DEF TalkStep
  <1>3. Deliver(r) \/ StoreMessage(r) \/ Link(r) \/ Announce(r) \/ Answered(r) \/ Retry(r) \/ ClickRetry(r) =>
          Kind(r) = "submit" /\ pc'[r] \in Delivering \cup {"done"} /\ mem'[r].files = mem[r].files /\ w' = w
    BY <1>1, DeliverDoes, StoreMessageDoes, LinkDoes, AnnounceDoes, AnsweredDoes, RetryDoes, ClickRetryDoes
       DEF Keeps, Delivering, talk, server
  <1>4. r \in Rows(mem[r].conv) <=> Stored(r)
    BY <1>1 DEF Rows, Stored, ChatRows
  <1>5. StoreMessage(r) => mem'[r] = mem[r] /\ w' = w
    BY <1>1, StoreMessageDoes
  <1>6. QED
    BY <1>1, <1>2, <1>3, <1>4, <1>5, TalkWriters, StoreMessageDoes

\* Every step keeps the rows of the messages: each of a message under way or sent, and in one conversation.
LEMMA RowStep ==
    ASSUME CoreInv, MailRoutes, ChatRoutes, ChatType, RowInv, [Next]_vars
    PROVE  RowInv'
  <1>1. /\ \A c \in chat : c.id \in Req /\ Kind(c.id) = "submit" /\ pc[c.id] \in Delivering \cup {"done"}
        /\ \A c \in chat : pc[c.id] \notin Ended => c.conv = w.conv \/ TwoBegan
        /\ \A c, d \in chat : c.id = d.id => c = d \/ TwoBegan
        /\ \A r \in Req : pc[r] \in {"store", "link", "touch", "answer"} => mem[r].conv = w.conv \/ TwoBegan
        /\ \A r \in Req : pc[r] \in {"link", "touch", "answer"} => Stored(r)
        /\ \A r \in Req : Kind(r) = "submit" /\ pc[r] = "done" => \E c \in chat : c.id = r
    BY DEF RowInv, ChatType, ChatRows
  <1>2. CASE \E r \in Req : TalkStep(r)
    <2>1. PICK r \in Req : TalkStep(r)
      BY <1>2
    <2> DEFINE new == [id |-> r, conv |-> mem[r].conv]
    <2>2. /\ \A q \in Req : Kind(q)' = Kind(q)
          /\ \A q \in Req \ {r} : pc'[q] = pc[q] /\ mem'[q] = mem[q]
          /\ pc[r] \notin Ended
      BY <2>1, TalkWalk
    <2>3. /\ pc[r] \in Delivering => Kind(r) = "submit" /\ pc'[r] \in Delivering \cup {"done"} /\ w' = w
          /\ chat' = chat \/ (pc[r] = "store" /\ chat' = chat \cup {new} /\ pc'[r] = "link" /\ w' = w /\ mem'[r] = mem[r])
      BY <2>1, DeliveryGoesOn
    <2>4. new.id = r /\ new.conv = mem[r].conv
      OBVIOUS
    <2>5. \A c \in chat' : Kind(c.id)' = "submit" /\ pc'[c.id] \in Delivering \cup {"done"}
      BY <1>1, <2>2, <2>3, <2>4 DEF Delivering, Ended
    <2>6. \A q \in Req : pc'[q] \in {"link", "touch", "answer"} => Stored(q)'
      <3>1. ASSUME NEW q \in Req \ {r}, pc'[q] \in {"link", "touch", "answer"} PROVE Stored(q)'
        BY <1>1, <2>2, <2>3, <3>1 DEF Stored
      <3>2. ASSUME pc'[r] \in {"link", "touch", "answer"} PROVE Stored(r)'
        <4>1. StoreMessage(r) \/ Link(r) \/ Announce(r)
          BY <2>1, <3>2, TalkLeads
        <4>2. mem'[r] = mem[r] /\ (StoreMessage(r) \/ Stored(r))
          BY <1>1, <4>1, StoreMessageDoes, LinkDoes, AnnounceDoes DEF ChatType
        <4>3. Stored(r) \/ chat' = chat \cup {new}
          BY <2>1, <3>2, <4>2, DeliveryGoesOn, StoreMessageDoes DEF ChatType
        <4>4. QED
          BY <2>3, <4>2, <4>3 DEF Stored
      <3>3. QED
        BY <3>1, <3>2
    <2>7. \A q \in Req : Kind(q)' = "submit" /\ pc'[q] = "done" => \E c \in chat' : c.id = q
      <3>1. ASSUME Kind(r) = "submit", pc'[r] = "done" PROVE \E c \in chat' : c.id = r
        <4>1. Answered(r)
          BY <2>1, <3>1, TalkLeads DEF Ended
        <4>2. pc[r] = "answer" /\ chat' = chat
          BY <4>1, AnsweredDoes DEF ChatType, talk, server
        <4>3. QED
          BY <1>1, <2>4, <4>2 DEF Stored
      <3>2. QED
        BY <1>1, <2>2, <2>3, <3>1
    <2>8. CASE TwoBegan
      BY <2>5, <2>6, <2>7, <2>8, TogetherLasts DEF RowInv
    <2>9. CASE ~TwoBegan
      <3>1. /\ \A q \in Req \ {r} : Kind(q) = "submit" /\ pc[q] \notin Ended => w'.conv = w.conv \/ pc[q] = "start"
            /\ \A q \in Req : pc'[q] \in {"store", "link", "touch", "answer"} => mem'[q].conv = w'.conv
        BY <2>1, <2>9, MessagesWalk
      <3>2. ASSUME NEW c \in chat', pc'[c.id] \notin Ended PROVE c.conv = w'.conv
        <4>1. CASE c \in chat
          <5>1. c.id \in Req /\ Kind(c.id) = "submit" /\ pc[c.id] \in Delivering \cup {"done"}
            BY <1>1, <4>1
          <5>2. CASE c.id = r
            <6>1. pc[r] \in Delivering
              BY <2>2, <5>1, <5>2 DEF Ended
            <6>2. QED
              BY <1>1, <2>2, <2>3, <2>9, <4>1, <5>2, <6>1
          <5>3. CASE c.id # r
            <6>1. pc[c.id] \notin Ended \cup {"start"}
              BY <2>2, <3>2, <5>1, <5>3 DEF Delivering, Ended
            <6>2. QED
              BY <1>1, <2>9, <3>1, <4>1, <5>1, <5>3, <6>1
          <5>4. QED
            BY <5>2, <5>3
        <4>2. CASE c \notin chat
          BY <1>1, <2>3, <2>4, <2>9, <4>2
        <4>3. QED
          BY <4>1, <4>2
      <3>3. ASSUME NEW c \in chat', NEW d \in chat', c.id = d.id PROVE c = d
        <4>1. CASE c \in chat /\ d \in chat
          BY <1>1, <2>9, <3>3, <4>1
        <4>2. ASSUME NEW e \in chat, e.id = r, pc[r] = "store" PROVE e = new
          <5>1. e.conv = w.conv /\ mem[r].conv = w.conv
            BY <1>1, <2>2, <2>9, <4>2
          <5>2. e \in [id : Req, conv : Req]
            BY <4>2 DEF ChatType, ChatRows
          <5>3. QED
            BY <4>2, <5>1, <5>2
        <4>3. QED
          BY <2>3, <2>4, <3>3, <4>1, <4>2
      <3>4. QED
        BY <2>5, <2>6, <2>7, <3>1, <3>2, <3>3 DEF RowInv
    <2>10. QED
      BY <2>8, <2>9
  <1>3. CASE Age \/ ChatAside
    <2>1. UNCHANGED <<w, chat>>
      BY <1>3 DEF Age, ChatAside, talk, server
    <2>2. \A q \in Req : /\ pc'[q] \in TalkSteps => pc[q] = pc'[q] /\ mem'[q] = mem[q] /\ Kind(q)' = Kind(q)
                         /\ Kind(q)' = "submit" /\ pc'[q] # "start" => pc[q] = pc'[q] /\ mem'[q] = mem[q] /\ Kind(q) = "submit"
                         /\ Kind(q) = "submit" => pc[q] = pc'[q] /\ mem'[q] = mem[q] /\ Kind(q)' = "submit"
      BY <1>3, TalkersStay
    <2>3. {"store", "link", "touch", "answer"} \subseteq TalkSteps
      BY DEF TalkSteps, Delivering
    <2>4. TwoBegan => TwoBegan'
      BY TogetherLasts
    <2>5. /\ \A c \in chat' : Kind(c.id)' = "submit" /\ pc'[c.id] \in Delivering \cup {"done"}
          /\ \A c \in chat' : pc'[c.id] \notin Ended => c.conv = w'.conv \/ TwoBegan'
          /\ \A c, d \in chat' : c.id = d.id => c = d \/ TwoBegan'
      BY <1>1, <2>1, <2>2, <2>4
    <2>6. /\ \A q \in Req : pc'[q] \in {"store", "link", "touch", "answer"} => mem'[q].conv = w'.conv \/ TwoBegan'
          /\ \A q \in Req : pc'[q] \in {"link", "touch", "answer"} => Stored(q)'
          /\ \A q \in Req : Kind(q)' = "submit" /\ pc'[q] = "done" => \E c \in chat' : c.id = q
      BY <1>1, <2>1, <2>2, <2>3, <2>4 DEF Stored
    <2>7. QED
      BY <2>5, <2>6 DEF RowInv
  <1>4. QED
    BY <1>2, <1>3, ChatStepsOf

\* Every step keeps the runs one for a row.
LEMMA RunStep ==
    ASSUME CoreInv, MailRoutes, ChatRoutes, ChatType, RowInv, RunInv, [Next]_vars
    PROVE  RunInv'
  <1>1. /\ \A u \in runs : u \in Req \X Req \X Nat /\ [id |-> u[1], conv |-> u[2]] \in chat
        /\ \A u, v \in runs : u[1] = v[1] /\ u[2] = v[2] => u = v
        /\ \A r \in Req : pc[r] \in {"link", "touch"} => \A u \in runs : u[1] = r => u[2] # mem[r].conv
    BY DEF RunInv, ChatType, ChatRows
  <1>2. CASE \E r \in Req : TalkStep(r)
    <2>1. PICK r \in Req : TalkStep(r)
      BY <1>2
    <2> DEFINE new == <<r, mem[r].conv, mem[r].tries>>
    <2>2. /\ \A q \in Req \ {r} : pc'[q] = pc[q] /\ mem'[q] = mem[q]
          /\ chat \subseteq chat'
      BY <2>1, TalkWalk, DeliveryGoesOn
    <2>3. runs' = runs \/ (Announce(r) /\ pc[r] = "touch" /\ pc'[r] = "answer" /\ runs' = runs \cup {new} /\ Stored(r))
      BY <2>1, TalkWriters, AnnounceDoes DEF ChatType, RowInv
    <2>4. new[1] = r /\ new[2] = mem[r].conv
      OBVIOUS
    <2>5. \A u \in runs' : [id |-> u[1], conv |-> u[2]] \in chat'
      BY <1>1, <2>2, <2>3, <2>4 DEF Stored
    <2>6. \A u, v \in runs' : u[1] = v[1] /\ u[2] = v[2] => u = v
      BY <1>1, <2>3, <2>4
    <2>7. ASSUME NEW q \in Req, pc'[q] \in {"link", "touch"}, NEW u \in runs', u[1] = q PROVE u[2] # mem'[q].conv
      <3>1. CASE q # r
        BY <1>1, <2>2, <2>3, <2>4, <2>7, <3>1
      <3>2. CASE q = r
        <4>1. StoreMessage(r) \/ Link(r)
          BY <2>1, <2>7, <3>2, TalkLeads
        <4>2. mem'[r] = mem[r] /\ runs' = runs
          BY <4>1, StoreMessageDoes, LinkDoes DEF ChatType
        <4>3. CASE Link(r)
          BY <1>1, <2>7, <3>2, <4>2, <4>3, LinkDoes
        <4>4. CASE StoreMessage(r)
          <5>1. ~Stored(r)
            <6>1. r \notin Rows(mem[r].conv)
              BY <2>7, <3>2, <4>4, StoreMessageDoes DEF ChatType
            <6>2. QED
              BY <6>1 DEF Rows, Stored
          <5>2. [id |-> u[1], conv |-> u[2]] \in chat
            BY <1>1, <2>7, <4>2
          <5>3. QED
            BY <2>7, <3>2, <4>2, <5>1, <5>2 DEF Stored
        <4>5. QED
          BY <4>1, <4>3, <4>4
      <3>3. QED
        BY <3>1, <3>2
    <2>8. QED
      BY <2>5, <2>6, <2>7 DEF RunInv
  <1>3. CASE Age \/ ChatAside
    <2>1. UNCHANGED <<runs, chat>>
      BY <1>3 DEF Age, ChatAside, talk, server
    <2>2. \A q \in Req : pc'[q] \in {"link", "touch"} => pc[q] = pc'[q] /\ mem'[q] = mem[q]
      BY <1>3, TalkersStay DEF TalkSteps, Delivering
    <2>3. QED
      BY <1>1, <2>1, <2>2 DEF RunInv
  <1>4. QED
    BY <1>2, <1>3, ChatStepsOf

-----------------------------------------------------------------------------
(* Files, and the sweep *)

\* Where a step leads from where a process is.
LEMMA TalkGoesOn ==
    ASSUME CoreInv, ChatRoutes, ChatType, NEW r \in Req, TalkStep(r)
    PROVE  /\ pc[r] = "put" => PutFile(r)
           /\ pc[r] = "row" => FileRow(r) \/ RemoveFile(r)
           /\ pc[r] = "view" => FileView(r)
           /\ pc[r] = "unrow" => Unrow(r) \/ NextFile(r)
  <1>1. ChatRows
    BY DEF ChatType
  <1>2. CASE OpenPanel(r) \/ ClosePanel(r) \/ GetConversation(r) \/ StartFresh(r) \/ Begin(r) \/ FindConversation(r)
             \/ InsertConversation(r) \/ Begun(r) \/ SubmitForm(r)
    BY <1>1, <1>2, OpenPanelDoes, ClosePanelDoes, GetConversationDoes, StartFreshDoes, BeginDoes, FindConversationDoes,
       InsertConversationDoes, BegunDoes, SubmitFormDoes
  <1>3. CASE Deliver(r) \/ StoreMessage(r) \/ Link(r) \/ Announce(r) \/ Answered(r) \/ Retry(r) \/ ClickRetry(r) \/ Solve(r)
             \/ UploadFile(r)
    BY <1>1, <1>3, DeliverDoes, StoreMessageDoes, LinkDoes, AnnounceDoes, AnsweredDoes, RetryDoes, ClickRetryDoes, SolveDoes,
       UploadFileDoes
  <1>4. CASE Count(r) \/ PutFile(r) \/ FileRow(r) \/ FileView(r) \/ RemoveFile(r)
    BY <1>1, <1>4, CountDoes, PutFileDoes, FileRowDoes, FileViewDoes, RemoveFileDoes
  <1>5. CASE SweepStart(r) \/ Unstore(r) \/ Unrow(r) \/ NextFile(r)
    <2>1. pc[r] \in {"start", "each", "unrow"} /\ (pc[r] = "unrow" => Unrow(r) \/ NextFile(r))
      BY <1>1, <1>5, SweepStartDoes, UnstoreDoes, UnrowDoes, NextFileDoes DEF Sweeping
    <2>2. QED
      BY <2>1
  <1>6. QED
    BY <1>2, <1>3, <1>4, <1>5 DEF TalkStep

\* No process is 0.
LEMMA NotZero == 0 \notin Req
  BY DEF Req

\* What becomes of a file's row: it stays, is linked, written by its upload, or gone.
LEMMA FilesWalk ==
    ASSUME CoreInv, ChatRoutes, ChatType, SweepInv, NEW r \in Req, TalkStep(r), NEW f \in Req
    PROVE  /\ \/ frow'[f] = frow[f]
              \/ Link(r) /\ Linked(r, f)
              \/ FileRow(r) /\ f = r /\ pc[f] = "row" /\ frow[f].state = "none" /\ Filed(f, mem[r].conv)
              \/ Unrow(r) /\ f = mem[r].m /\ Gone(f)
           /\ frow[f].state # "none" => frow'[f].state # "none" /\ frow'[f].conv = frow[f].conv /\ pc[f] \notin {"put", "row"}
           /\ frow[f].msg # 0 => frow'[f].msg = frow[f].msg
           /\ Uploaded(f) => Uploaded(f)'
  <1>1. /\ ChatRows
        /\ frow[f].state # "none" => pc[f] \in {"view", "done", "lost"}
        /\ frow[f].msg # 0 => frow[f].state \in {"linked", "gone"}
    BY DEF ChatType, SweepInv
  <1>2. \/ frow'[f] = frow[f]
        \/ Link(r) /\ Linked(r, f)
        \/ FileRow(r) /\ f = r /\ pc[f] = "row" /\ frow[f].state = "none" /\ Filed(f, mem[r].conv)
        \/ Unrow(r) /\ f = mem[r].m /\ Gone(f)
    <2>1. CASE Link(r)
      BY <2>1, LinkDoes
    <2>2. CASE FileRow(r)
      BY <1>1, <2>2, FileRowDoes DEF ChatType, SweepInv
    <2>3. CASE Unrow(r)
      <3>1. IF f = mem[r].m THEN Gone(f) ELSE frow'[f] = frow[f]
        BY <1>1, <2>3, UnrowDoes
      <3>2. QED
        BY <2>3, <3>1
    <2>4. QED
      BY <2>1, <2>2, <2>3, TalkWriters
  <1>3. /\ frow[f].state # "none" => frow'[f].state # "none" /\ frow'[f].conv = frow[f].conv /\ pc[f] \notin {"put", "row"}
        /\ frow[f].msg # 0 => frow'[f].msg = frow[f].msg
    <2>1. CASE frow'[f] = frow[f]
      BY <1>1, <2>1
    <2>2. CASE Linked(r, f)
      BY <1>1, <2>2 DEF Linked
    <2>3. CASE Gone(f)
      BY <1>1, <2>3 DEF Gone
    <2>4. QED
      BY <1>1, <1>2, <2>1, <2>2, <2>3
  <1>4. Uploaded(f) => Uploaded(f)'
    <2>1. /\ Kind(f)' = Kind(f) /\ pc[r] \notin Ended
          /\ f # r => pc'[f] = pc[f]
      BY TalkWalk
    <2>2. QED
      BY <1>3, <2>1 DEF Uploaded, Ended
  <1>5. QED
    BY <1>2, <1>3, <1>4

\* What a message takes along comes, while nobody of the chat takes a step, from before.
LEMMA FilesAside ==
    ASSUME CoreInv, ChatRoutes, ChatType, Age \/ ChatAside
    PROVE  /\ UNCHANGED <<w, chat, runs, frow, stored>>
           /\ \A f \in Req : Uploaded(f) => Uploaded(f)'
           /\ \A r \in Req : Kind(r)' = "submit" => mem'[r].files = {} \/ (mem'[r] = mem[r] /\ Kind(r) = "submit")
           /\ \A r \in Req : Kind(r) \in TalkKinds => Kind(r)' = Kind(r)
           /\ met \subseteq met' /\ faults \in Nat /\ faults' \in Nat /\ faults' >= faults
           /\ \A r \in Req : pc[r] \in TalkSteps => pc'[r] = pc[r] \/ (pc'[r] = "lost" /\ faults' > 0)
           /\ \A r \in Req : pc[r] \in Ended \ {"free"} => pc'[r] = pc[r]
  <1>1. NoMem.files = {} /\ faults \in Nat /\ \A r \in Req : Kind(r) \notin TalkKinds => pc[r] \notin TalkSteps
    BY DEF NoMem, CoreInv, ProcessType, ChatRoutes
  <1>2. CASE Age
    BY <1>1, <1>2 DEF Age, Same, Kind, Uploaded
  <1>3. CASE ChatAside
    <2>1. UNCHANGED <<w, chat, runs, frow, stored>> /\ met \subseteq met' /\ faults' \in Nat /\ faults' >= faults
      BY <1>3 DEF ChatAside, talk, server
    <2>2. ASSUME NEW r \in Req
          PROVE  /\ Kind(r)' = "submit" => mem'[r].files = {} \/ (mem'[r] = mem[r] /\ Kind(r) = "submit")
                 /\ Kind(r) \in TalkKinds => Kind(r)' = Kind(r)
                 /\ pc[r] \in TalkSteps => pc'[r] = pc[r] \/ (pc'[r] = "lost" /\ faults' > 0)
                 /\ pc[r] \in Ended \ {"free"} => pc'[r] = pc[r]
      <3>1. CASE pc'[r] = pc[r] /\ mem'[r] = mem[r] /\ job'[r] = job[r]
        BY <3>1 DEF Kind
      <3>2. CASE pc[r] = "free" /\ Kind(r) = "none" /\ pc'[r] = "start" /\ mem'[r] = NoMem
        BY <1>1, <3>2 DEF TalkKinds, TalkSteps, Beginning, Delivering, Storing, Sweeping
      <3>3. CASE /\ pc[r] \notin Ended /\ pc'[r] = "lost" /\ mem'[r] = mem[r] /\ job'[r] = job[r] /\ faults' > 0
                 /\ Kind(r) \in {"upload", "sweep"}
        BY <3>3 DEF Kind
      <3>4. CASE Kind(r) \notin TalkKinds /\ pc[r] \notin Ended /\ pc'[r] \notin {"free"} \cup TalkSteps /\ job'[r] = job[r]
        <4>1. Kind(r)' = Kind(r)
          BY <3>4 DEF Kind
        <4>2. QED
          BY <1>1, <3>4, <4>1 DEF TalkKinds
      <3>5. QED
        BY <1>3, <3>1, <3>2, <3>3, <3>4 DEF ChatAside
    <2>3. \A f \in Req : Uploaded(f) => Uploaded(f)'
      BY <2>1, <2>2 DEF Uploaded, TalkKinds, Ended
    <2>4. QED
      BY <1>1, <2>1, <2>2, <2>3
  <1>4. QED
    BY <1>2, <1>3

\* Every step keeps what a message takes along uploaded, in its conversation, and linked before it is read.
LEMMA FileStep ==
    ASSUME CoreInv, MailRoutes, ChatRoutes, ChatType, FileInv, SweepInv, [Next]_vars
    PROVE  FileInv'
  <1>1. /\ \A f \in w.files : f \in Req /\ Uploaded(f)
        /\ \A r \in Req : pc[r] = "view" => frow[r].state # "none"
        /\ \A r \in Req : Kind(r) = "submit" => \A f \in mem[r].files : f \in Req /\ Uploaded(f)
        /\ \A r \in Req : pc[r] \in {"store", "link"} => \A f \in mem[r].files : frow[f].conv = mem[r].conv
        /\ \A r \in Req : pc[r] = "touch" => \A f \in mem[r].files : frow[f].msg = r
        /\ \A r \in Req : pc[r] \in {"store", "link", "touch"} => Kind(r) = "submit"
        /\ ChatRows
    BY TalkHas DEF FileInv, ChatType, ChatRows, Brings, TalkKinds
  <1>2. CASE \E r \in Req : TalkStep(r)
    <2>1. PICK r \in Req : TalkStep(r)
      BY <1>2
    <2>2. /\ \A q \in Req : Kind(q)' = Kind(q)
          /\ \A q \in Req \ {r} : pc'[q] = pc[q] /\ mem'[q] = mem[q]
      BY <2>1, TalkWalk
    <2>3. \A f \in Req : /\ frow[f].state # "none" => frow'[f].state # "none" /\ frow'[f].conv = frow[f].conv
                         /\ frow[f].msg # 0 => frow'[f].msg = frow[f].msg
                         /\ Uploaded(f) => Uploaded(f)' /\ frow'[f].conv = frow[f].conv
      BY <2>1, FilesWalk DEF Uploaded
    <2>4. \A f \in w'.files : f \in Req /\ Uploaded(f)'
      <3>1. CASE FileView(r)
        <4>1. w'.files = w.files \cup {r} /\ pc[r] = "view" /\ Kind(r) = "upload" /\ pc'[r] = "done" /\ frow' = frow
          BY <1>1, <3>1, FileViewDoes DEF Widget, server
        <4>2. Uploaded(r)'
          BY <1>1, <2>2, <4>1 DEF Uploaded
        <4>3. QED
          BY <1>1, <2>3, <4>1, <4>2
      <3>2. CASE SubmitForm(r)
        BY <1>1, <3>2, SubmitFormDoes DEF Widget
      <3>3. QED
        BY <1>1, <2>1, <2>3, <3>1, <3>2, TalkWriters
    <2>5. \A q \in Req : pc'[q] = "view" => frow'[q].state # "none"
      <3>1. pc'[r] = "view" => frow'[r].state # "none"
        BY <1>1, <2>1, TalkLeads, FileRowDoes DEF Filed
      <3>2. QED
        BY <1>1, <2>2, <2>3, <3>1
    <2>6. ASSUME Kind(r) = "submit", NEW f \in mem'[r].files PROVE f \in Req /\ Uploaded(f)'
      <3>1. CASE SubmitForm(r)
        BY <1>1, <2>3, <2>6, <3>1, SubmitFormDoes DEF Keeps
      <3>2. mem'[r].files = mem[r].files \/ SubmitForm(r)
        BY <1>1, <2>1, <2>6, TalkWriters, SweepStartDoes, UnstoreDoes, NextFileDoes
      <3>3. QED
        BY <1>1, <2>3, <2>6, <3>1, <3>2
    <2>7. ASSUME pc'[r] \in {"store", "link"}, NEW f \in mem'[r].files PROVE frow'[f].conv = mem'[r].conv
      <3>1. CASE Deliver(r)
        BY <1>1, <2>7, <3>1, DeliverDoes DEF Keeps, talk, server
      <3>2. CASE StoreMessage(r)
        BY <1>1, <2>7, <3>2, StoreMessageDoes
      <3>3. QED
        BY <2>1, <2>7, <3>1, <3>2, TalkLeads
    <2>8. ASSUME pc'[r] = "touch", NEW f \in mem'[r].files PROVE frow'[f].msg = r
      <3>1. Link(r)
        BY <2>1, <2>8, TalkLeads
      <3>2. QED
        BY <2>8, <3>1, LinkDoes DEF Linked
    <2>9. ASSUME NEW q \in Req \ {r}, pc[q] = "touch", NEW f \in mem[q].files PROVE frow'[f].msg = q
      BY <1>1, <2>3, <2>9, NotZero
    <2>10. \A q \in Req : Kind(q)' = "submit" => \A f \in mem'[q].files : Uploaded(f)'
      BY <1>1, <2>2, <2>3, <2>6
    <2>11. \A q \in Req : pc'[q] \in {"store", "link"} => \A f \in mem'[q].files : frow'[f].conv = mem'[q].conv
      BY <1>1, <2>2, <2>3, <2>7
    <2>12. \A q \in Req : pc'[q] = "touch" => \A f \in mem'[q].files : frow'[f].msg = q
      BY <2>2, <2>8, <2>9
    <2>13. QED
      BY <2>4, <2>5, <2>10, <2>11, <2>12 DEF FileInv
  <1>3. CASE Age \/ ChatAside
    <2>1. {"view", "store", "link", "touch"} \subseteq TalkSteps
      BY DEF TalkSteps, Delivering, Storing
    <2>2. \A q \in Req : pc'[q] \in {"view", "store", "link", "touch"} => pc'[q] = pc[q] /\ mem'[q] = mem[q]
      BY <1>3, <2>1, TalkersStay
    <2>3. /\ UNCHANGED <<w, frow>> /\ \A f \in Req : Uploaded(f) => Uploaded(f)'
          /\ \A r \in Req : Kind(r)' = "submit" => mem'[r].files = {} \/ (mem'[r] = mem[r] /\ Kind(r) = "submit")
      BY <1>3, FilesAside
    <2>4. QED
      BY <1>1, <2>2, <2>3 DEF FileInv
  <1>4. QED
    BY <1>2, <1>3, ChatStepsOf

\* Every step keeps a message that is shown as sent linked to its files and read, unless an attempt broke off.
LEMMA LinkStep ==
    ASSUME CoreInv, MailRoutes, ChatRoutes, ChatType, RowInv, FileInv, LinkInv, SweepInv, [Next]_vars
    PROVE  LinkInv'
  <1>1. faults \in Nat /\ faults' \in Nat /\ faults' >= faults
    BY Lasting
  <1>2. SUFFICES ASSUME faults' = 0, NEW q \in Req, Kind(q)' = "submit"
                 PROVE  /\ pc'[q] \in {"answer", "done"} => /\ \A f \in mem'[q].files : frow'[f].msg = q
                                                            /\ \E u \in runs' : u[1] = q
                        /\ pc'[q] \in {"post", "unsent"} =>
                              \A c \in chat' : c.id = q => \E f \in mem'[q].files : frow'[f].state # "pending"
                        /\ pc'[q] = "store" => \A c \in chat' : c.id # q
    BY DEF LinkInv
  <1>3. ASSUME NEW s \in Req, Kind(s) = "submit"
        PROVE  /\ pc[s] \in {"answer", "done"} => (\A f \in mem[s].files : frow[f].msg = s) /\ \E u \in runs : u[1] = s
               /\ pc[s] \in {"post", "unsent"} => \A c \in chat : c.id = s => \E f \in mem[s].files : frow[f].state # "pending"
               /\ pc[s] = "store" => \A c \in chat : c.id # s
               /\ \A f \in mem[s].files : f \in Req /\ Uploaded(f)
    BY <1>1, <1>2, <1>3 DEF LinkInv, FileInv, ChatType, Brings, TalkKinds
  <1>4. CASE \E r \in Req : TalkStep(r)
    <2>1. PICK r \in Req : TalkStep(r)
      BY <1>4
    <2>2. /\ \A p \in Req : Kind(p)' = Kind(p)
          /\ \A p \in Req \ {r} : pc'[p] = pc[p] /\ mem'[p] = mem[p]
      BY <2>1, TalkWalk
    <2>3. /\ chat' = chat \/ (pc'[r] = "link" /\ chat' = chat \cup {[id |-> r, conv |-> mem[r].conv]})
          /\ runs' = runs \/ (pc'[r] = "answer" /\ runs' = runs \cup {<<r, mem[r].conv, mem[r].tries>>})
      BY <2>1, DeliveryGoesOn, TalkWriters, AnnounceDoes DEF ChatType
    <2>4. ASSUME NEW f \in Req, Uploaded(f)
          PROVE  /\ frow[f].msg # 0 => frow'[f].msg = frow[f].msg
                 /\ frow[f].state # "pending" => frow'[f].state # "pending"
      <3>1. frow'[f] = frow[f] \/ Linked(r, f) \/ Gone(f)
        BY <2>1, <2>4, FilesWalk DEF Uploaded
      <3>2. QED
        BY <2>1, <2>4, <3>1, FilesWalk DEF Linked, Gone
    <2>5. CASE q # r
      <3>1. pc'[q] = pc[q] /\ mem'[q] = mem[q] /\ Kind(q) = "submit"
        BY <1>2, <2>2, <2>5
      <3>2. \A c \in chat' : c.id = q => c \in chat
        BY <2>3, <2>5
      <3>3. runs \subseteq runs'
        BY <2>3
      <3>4. \A f \in mem[q].files : frow[f].msg = q => frow'[f].msg = q
        BY <1>3, <2>4, <3>1, NotZero
      <3>5. \A f \in mem[q].files : frow[f].state # "pending" => frow'[f].state # "pending"
        BY <1>3, <2>4, <3>1
      <3>6. QED
        BY <1>3, <3>1, <3>2, <3>3, <3>4, <3>5
    <2>6. CASE q = r
      <3>1. ChatRows /\ Kind(r) = "submit" /\ pc[r] \notin Ended
        BY <1>2, <2>1, <2>2, <2>6, TalkWalk DEF ChatType
      <3>2. ASSUME pc'[r] \in {"answer", "done"}
            PROVE  (\A f \in mem'[r].files : frow'[f].msg = r) /\ \E u \in runs' : u[1] = r
        <4>1. CASE StoreMessage(r)
          <5>1. pc[r] = "store" /\ Stored(r)
            BY <2>1, <3>1, <3>2, <4>1, StoreMessageDoes, DeliveryGoesOn DEF Ended
          <5>2. QED
            BY <1>3, <3>1, <5>1 DEF Stored
        <4>2. CASE Announce(r)
          <5>1. /\ pc[r] = "touch" /\ mem'[r] = mem[r] /\ frow' = frow /\ runs' = runs \cup {<<r, mem[r].conv, mem[r].tries>>}
            BY <3>1, <4>2, AnnounceDoes
          <5>2. \A f \in mem[r].files : frow[f].msg = r
            BY <5>1 DEF FileInv
          <5>3. <<r, mem[r].conv, mem[r].tries>>[1] = r /\ <<r, mem[r].conv, mem[r].tries>> \in runs'
            BY <5>1
          <5>4. QED
            BY <5>1, <5>2, <5>3
        <4>3. CASE Answered(r)
          BY <1>3, <3>1, <4>3, AnsweredDoes DEF talk, server
        <4>4. QED
          BY <2>1, <3>1, <3>2, <4>1, <4>2, <4>3, TalkLeads DEF Ended
      <3>3. ASSUME pc'[r] \in {"post", "unsent"}, NEW c \in chat', c.id = r
            PROVE  \E f \in mem'[r].files : frow'[f].state # "pending"
        <4>1. c \in chat
          BY <2>3, <3>3
        <4>2. pc[r] \in Delivering
          BY <3>1, <3>3, <4>1 DEF RowInv, Ended
        <4>3. CASE Deliver(r) \/ ClickRetry(r)
          BY <1>3, <3>1, <3>3, <4>1, <4>3, DeliverDoes, ClickRetryDoes DEF Keeps, talk, server
        <4>4. CASE Link(r)
          <5>1. pc[r] = "link" /\ pc'[r] = "unsent" /\ mem'[r] = mem[r]
            BY <3>1, <3>3, <4>4, LinkDoes
          <5>2. \E f \in mem[r].files : frow'[f] = frow[f] /\ (frow[f].state # "pending" \/ frow[f].conv # mem[r].conv)
            BY <4>4, <5>1, LinkDoes
          <5>3. QED
            BY <5>1, <5>2 DEF FileInv
        <4>5. ~Retry(r) /\ ~Begun(r) /\ ~SubmitForm(r)
          BY <1>1, <1>2, <3>1, <4>2, RetryDoes, BegunDoes, SubmitFormDoes DEF Delivering
        <4>6. QED
          BY <2>1, <3>3, <4>3, <4>4, <4>5, TalkLeads
      <3>4. ASSUME pc'[r] = "store", NEW c \in chat', c.id = r PROVE FALSE
        <4>1. Deliver(r)
          BY <2>1, <3>4, TalkLeads
        <4>2. /\ pc[r] = "post" /\ chat' = chat
              /\ \A f \in mem[r].files : frow[f].state = "pending"
          BY <3>1, <3>4, <4>1, DeliverDoes DEF talk, server
        <4>3. QED
          BY <1>3, <3>1, <3>4, <4>2
      <3>5. QED
        BY <2>6, <3>2, <3>3, <3>4
    <2>7. QED
      BY <2>5, <2>6
  <1>5. CASE Age \/ ChatAside
    <2>1. UNCHANGED <<chat, runs, frow>>
      BY <1>5, FilesAside
    <2>2. pc'[q] # "start" => pc'[q] = pc[q] /\ mem'[q] = mem[q] /\ Kind(q) = "submit"
      BY <1>2, <1>5, TalkersStay
    <2>3. QED
      BY <1>3, <2>1, <2>2
  <1>6. QED
    BY <1>4, <1>5, ChatStepsOf

\* What the steps of uploads and sweeps do to the storage.
LEMMA StorageWalk ==
    ASSUME CoreInv, ChatRoutes, ChatType, SweepInv, NEW r \in Req, TalkStep(r)
    PROVE  \/ stored' = stored
           \/ PutFile(r) /\ pc[r] = "put" /\ frow[r].state = "none" /\ pc'[r] = "row" /\ stored' = stored \cup {r}
           \/ RemoveFile(r) /\ pc[r] = "row" /\ frow[r].state = "none" /\ stored' = stored \ {r}
           \/ /\ Unstore(r) /\ pc'[r] = "unrow" /\ Kind(r) = "sweep" /\ mem'[r].m \in Req /\ Sweeps(r, mem'[r].m)
              /\ stored' = stored \ {mem'[r].m}
  <1>1. ChatRows /\ Brings(r) /\ Kind(r) \in TalkKinds
    BY TalkLeads DEF ChatType
  <1>2. frow[r].state # "none" => pc[r] \in {"view", "done", "lost"}
    BY DEF SweepInv
  <1>3. CASE Unstore(r)
    BY <1>1, <1>3, UnstoreDoes DEF Sweeps, Sweeping, Brings
  <1>4. CASE PutFile(r)
    BY <1>1, <1>2, <1>4, PutFileDoes
  <1>5. CASE RemoveFile(r)
    BY <1>1, <1>2, <1>5, RemoveFileDoes
  <1>6. QED
    BY <1>3, <1>4, <1>5, TalkWriters

\* What a sweep has before it, it had before it, or has just listed.
LEMMA SweepsWalk ==
    ASSUME CoreInv, ChatRoutes, ChatType, SweepInv, NEW r \in Req, TalkStep(r), NEW q \in Req, NEW f \in Req, Sweeps(q, f)'
    PROVE  Sweeps(q, f) \/ (q = r /\ SweepStart(r) /\ frow' = frow /\ f \in stale /\ frow[f].state = "pending")
  <1>1. ChatRows
    BY DEF ChatType
  <1>2. CASE q # r
    <2>1. pc'[q] = pc[q] /\ mem'[q] = mem[q]
      BY <1>2, TalkWalk
    <2>2. QED
      BY <2>1 DEF Sweeps
  <1>3. CASE q = r
    <2>1. pc'[r] = "unrow" \/ pc'[r] = "each"
      BY <1>3 DEF Sweeps, Sweeping
    <2>2. CASE Unstore(r)
      BY <1>1, <1>3, <2>2, UnstoreDoes DEF Sweeps, Sweeping
    <2>3. CASE SweepStart(r)
      <3>1. /\ mem'[r].files = {g \in stale : frow[g].state = "pending"} /\ pc'[r] = "each" /\ frow' = frow
        BY <1>1, <2>3, SweepStartDoes DEF Keeps, talk, server
      <3>2. QED
        BY <1>3, <2>3, <3>1 DEF Sweeps
    <2>4. CASE Unrow(r)
      BY <1>1, <1>3, <2>4, UnrowDoes DEF Sweeps, Sweeping
    <2>5. CASE NextFile(r)
      BY <1>1, <1>3, <2>5, NextFileDoes DEF Sweeps, Sweeping
    <2>6. QED
      BY <2>1, <2>2, <2>3, <2>4, <2>5, TalkLeads
  <1>4. QED
    BY <1>2, <1>3

\* Every step keeps the rows and the storage of the files, and what a sweep knows of them.
LEMMA SweepStep ==
    ASSUME CoreInv, MailRoutes, ChatRoutes, ChatType, SweepInv, [Next]_vars
    PROVE  SweepInv'
  <1>1. /\ \A f \in Req : frow[f].state \in {"none", "pending", "linked", "gone"}
        /\ \A f \in Req : frow[f].state # "none" => pc[f] \in {"view", "done", "lost"}
        /\ \A f \in Req : frow[f].msg # 0 => frow[f].state \in {"linked", "gone"}
        /\ \A f \in stale : f \in Req /\ frow[f].state # "none"
        /\ \A r, f \in Req : Sweeps(r, f) => frow[f].state # "none" /\ (frow[f].msg # 0 => {frow[f].msg, r} \in met)
        /\ \A r \in Req : pc[r] = "row" => r \in stored
        /\ \A r \in Req : pc[r] = "unrow" => mem[r].m \in Req /\ mem[r].m \notin stored /\ Sweeps(r, mem[r].m)
        /\ \A f \in Req : frow[f].state = "pending" /\ f \notin stored =>
              \E r \in Req : Kind(r) = "sweep" /\ (faults > 0 \/ (pc[r] = "unrow" /\ mem[r].m = f))
        /\ ChatRows
    BY DEF SweepInv, ChatType, ChatRows, Brings, Sweeps, Sweeping
  <1>2. faults \in Nat /\ faults' \in Nat /\ faults' >= faults /\ met \subseteq met'
    BY Lasting
  <1>3. ASSUME NEW q \in Req, pc[q] = "unrow" PROVE mem[q].m \notin stored /\ frow[mem[q].m].state # "none"
    <2>1. mem[q].m \in Req /\ mem[q].m \notin stored /\ Sweeps(q, mem[q].m)
      BY <1>1, <1>3
    <2>2. \A f \in Req : Sweeps(q, f) => frow[f].state # "none"
      BY <1>1
    <2>3. QED
      BY <2>1, <2>2
  <1>4. CASE \E r \in Req : TalkStep(r)
    <2>1. PICK r \in Req : TalkStep(r)
      BY <1>4
    <2>2. /\ pc[r] \notin Ended /\ met' = met
          /\ \A q \in Req : Kind(q)' = Kind(q)
          /\ \A q \in Req \ {r} : pc'[q] = pc[q] /\ mem'[q] = mem[q]
      BY <2>1, TalkWalk
    <2>3. \A f \in Req : \/ frow'[f] = frow[f]
                         \/ Link(r) /\ Linked(r, f)
                         \/ FileRow(r) /\ f = r /\ pc[f] = "row" /\ frow[f].state = "none" /\ Filed(f, mem[r].conv)
                         \/ Unrow(r) /\ f = mem[r].m /\ Gone(f)
      BY <2>1, FilesWalk
    <2>4. \A f \in Req : /\ frow[f].state # "none" => frow'[f].state # "none"
                         /\ frow[f].msg # 0 => frow'[f].msg = frow[f].msg
      BY <2>1, FilesWalk
    <2>5. ASSUME NEW f \in Req
          PROVE  /\ frow'[f].state \in {"none", "pending", "linked", "gone"}
                 /\ frow'[f].msg # 0 => frow'[f].state \in {"linked", "gone"}
      <3>1. CASE frow'[f] = frow[f]
        BY <1>1, <3>1
      <3>2. CASE Linked(r, f)
        BY <3>2 DEF Linked
      <3>3. CASE Filed(f, mem[r].conv)
        BY <3>3 DEF Filed
      <3>4. CASE Gone(f)
        BY <3>4 DEF Gone
      <3>5. QED
        BY <2>3, <3>1, <3>2, <3>3, <3>4
    <2>6. ASSUME NEW f \in Req, frow'[f].state # "none" PROVE pc'[f] \in {"view", "done", "lost"}
      <3>1. CASE frow[f].state # "none"
        <4>1. pc[f] \in {"view", "done", "lost"}
          BY <1>1, <3>1
        <4>2. CASE f = r
          BY <1>1, <2>1, <2>2, <4>1, <4>2, TalkGoesOn, FileViewDoes DEF Ended
        <4>3. CASE f # r
          BY <2>2, <4>1, <4>3
        <4>4. QED
          BY <4>2, <4>3
      <3>2. CASE frow[f].state = "none" /\ FileRow(r) /\ f = r
        BY <1>1, <3>2, FileRowDoes
      <3>3. CASE frow[f].state = "none" /\ Unrow(r) /\ f = mem[r].m
        <4>1. pc[r] = "unrow"
          BY <1>1, <3>3, UnrowDoes
        <4>2. QED
          BY <1>3, <3>3, <4>1
      <3>4. QED
        BY <2>3, <2>6, <3>1, <3>2, <3>3 DEF Linked
    <2>7. \A f \in stale' : frow'[f].state # "none"
      BY <1>1, <2>1, <2>4, TalkWriters
    <2>8. ASSUME NEW q \in Req, NEW f \in Req, Sweeps(q, f)'
          PROVE  frow'[f].state # "none" /\ (frow'[f].msg # 0 => {frow'[f].msg, q} \in met')
      <3>1. CASE q = r /\ SweepStart(r) /\ frow' = frow /\ f \in stale /\ frow[f].state = "pending"
        BY <1>1, <3>1
      <3>2. CASE Sweeps(q, f)
        <4>1. frow'[f].state # "none" /\ (frow[f].msg # 0 => {frow[f].msg, q} \in met)
          BY <1>1, <2>4, <3>2
        <4>2. ASSUME frow[f].msg = 0, frow'[f].msg # 0 PROVE {frow'[f].msg, q} \in met
          <5>1. Link(r) /\ frow'[f].msg = r
            BY <2>3, <4>2 DEF Linked, Filed, Gone
          <5>2. pc[r] = "link" /\ pc[q] \in Sweeping
            BY <1>1, <3>2, <5>1, LinkDoes DEF Sweeps, ChatType
          <5>3. q # r /\ pc[q] \notin Ended
            BY <5>2 DEF Sweeping, Ended
          <5>4. QED
            BY <2>2, <5>1, <5>3, Meeting
        <4>3. QED
          BY <2>2, <2>4, <4>1, <4>2
      <3>3. QED
        BY <2>1, <2>8, <3>1, <3>2, SweepsWalk
    <2>9. \A q \in Req : pc'[q] = "row" => q \in stored'
      <3>1. ASSUME NEW q \in Req \ {r}, pc[q] = "row" PROVE q \in stored'
        <4>1. q \in stored /\ frow[q].state = "none"
          BY <1>1, <3>1
        <4>2. Sweeps(r, q) => frow[q].state # "none"
          BY <1>1
        <4>3. QED
          BY <2>1, <3>1, <4>1, <4>2, StorageWalk
      <3>2. pc'[r] = "row" => r \in stored'
        BY <1>1, <2>1, TalkLeads, PutFileDoes
      <3>3. QED
        BY <2>2, <3>1, <3>2
    <2>10. \A q \in Req : pc'[q] = "unrow" => mem'[q].m \notin stored'
      <3>1. ASSUME NEW q \in Req \ {r}, pc[q] = "unrow" PROVE mem[q].m \notin stored'
        <4>1. mem[q].m \notin stored /\ frow[mem[q].m].state # "none"
          BY <1>3, <3>1
        <4>2. QED
          BY <2>1, <4>1, StorageWalk
      <3>2. ASSUME pc'[r] = "unrow" PROVE mem'[r].m \notin stored'
        <4>1. Unstore(r)
          BY <2>1, <3>2, TalkLeads
        <4>2. QED
          BY <1>1, <3>2, <4>1, UnstoreDoes
      <3>3. QED
        BY <2>2, <3>1, <3>2
    <2>11. ASSUME NEW f \in Req, frow'[f].state = "pending", f \notin stored'
           PROVE  \E q \in Req : Kind(q) = "sweep" /\ (faults' > 0 \/ (pc'[q] = "unrow" /\ mem'[q].m = f))
      <3>1. frow[f].state = "pending" \/ (FileRow(r) /\ f = r)
        BY <2>3, <2>11 DEF Linked, Gone
      <3>2. CASE FileRow(r) /\ f = r
        BY <1>1, <2>11, <3>2, FileRowDoes
      <3>3. CASE frow[f].state = "pending" /\ f \in stored
        BY <2>1, <2>11, <3>3, StorageWalk
      <3>4. CASE frow[f].state = "pending" /\ f \notin stored
        <4>1. PICK q \in Req : Kind(q) = "sweep" /\ (faults > 0 \/ (pc[q] = "unrow" /\ mem[q].m = f))
          BY <1>1, <3>4
        <4>2. CASE faults > 0
          BY <1>2, <4>1, <4>2
        <4>3. CASE pc[q] = "unrow" /\ mem[q].m = f /\ q # r
          BY <2>2, <4>1, <4>3
        <4>4. CASE pc[q] = "unrow" /\ mem[q].m = f /\ q = r
          <5>1. ~Unrow(r)
            <6>1. Unrow(r) => Gone(f)
              BY <1>1, <4>4, UnrowDoes
            <6>2. QED
              BY <2>11, <6>1 DEF Gone
          <5>2. NextFile(r)
            BY <2>1, <4>4, <5>1, TalkGoesOn
          <5>3. QED
            BY <1>1, <4>1, <5>2, NextFileDoes
        <4>5. QED
          BY <4>1, <4>2, <4>3, <4>4
      <3>5. QED
        BY <3>1, <3>2, <3>3, <3>4
    <2>12. \A f \in Req : frow'[f].state = "pending" /\ f \notin stored' =>
              \E q \in Req : Kind(q)' = "sweep" /\ (faults' > 0 \/ (pc'[q] = "unrow" /\ mem'[q].m = f))
      BY <2>2, <2>11
    <2>13. QED
      BY <2>5, <2>6, <2>7, <2>8, <2>9, <2>10, <2>12 DEF SweepInv
  <1>5. CASE Age \/ ChatAside
    <2>1. /\ UNCHANGED <<frow, stored>> /\ {"row", "unrow", "each", "view"} \subseteq TalkSteps /\ "sweep" \in TalkKinds
          /\ \A r \in Req : Kind(r) \in TalkKinds => Kind(r)' = Kind(r)
          /\ \A r \in Req : pc[r] \in TalkSteps => pc'[r] = pc[r] \/ (pc'[r] = "lost" /\ faults' > 0)
          /\ \A r \in Req : pc[r] \in Ended \ {"free"} => pc'[r] = pc[r]
      BY <1>5, FilesAside DEF TalkSteps, TalkKinds, Storing, Sweeping
    <2>2. \A q \in Req : pc'[q] \in {"row", "unrow", "each"} => pc'[q] = pc[q] /\ mem'[q] = mem[q]
      BY <1>5, <2>1, TalkersStay
    <2>3. \A f \in Req : frow[f].state # "none" => pc'[f] \in {"view", "done", "lost"}
      BY <1>1, <2>1 DEF Ended
    <2>4. \A f \in stale' : frow'[f].state # "none"
      <3>1. stale' = stale \/ stale' = stale \cup {f \in Req : frow[f].state \in {"pending", "linked"}}
        BY <1>5 DEF Age, ChatAside, talk, server
      <3>2. QED
        BY <1>1, <2>1, <3>1
    <2>5. \A r, f \in Req : Sweeps(r, f)' => frow'[f].state # "none" /\ (frow'[f].msg # 0 => {frow'[f].msg, r} \in met')
      <3>1. \A r, f \in Req : Sweeps(r, f)' => Sweeps(r, f)
        BY <2>2 DEF Sweeps, Sweeping
      <3>2. QED
        BY <1>1, <1>2, <2>1, <3>1
    <2>6. ASSUME NEW f \in Req, frow[f].state = "pending", f \notin stored
          PROVE  \E q \in Req : Kind(q)' = "sweep" /\ (faults' > 0 \/ (pc'[q] = "unrow" /\ mem'[q].m = f))
      <3>1. PICK q \in Req : Kind(q) = "sweep" /\ (faults > 0 \/ (pc[q] = "unrow" /\ mem[q].m = f))
        BY <1>1, <2>6
      <3>2. Kind(q)' = "sweep"
        BY <2>1, <3>1
      <3>3. CASE faults > 0
        BY <1>2, <3>2, <3>3
      <3>4. CASE pc[q] = "unrow" /\ mem[q].m = f
        BY <2>1, <2>2, <3>2, <3>4
      <3>5. QED
        BY <3>1, <3>3, <3>4
    <2>7. QED
      BY <1>1, <2>1, <2>2, <2>3, <2>4, <2>5, <2>6 DEF SweepInv
  <1>6. QED
    BY <1>4, <1>5, ChatStepsOf

\* Every step keeps a file of a message in the storage, unless a sweep met the message or something broke off.
LEMMA SweptStep ==
    ASSUME CoreInv, MailRoutes, ChatRoutes, ChatType, SweepInv, SweptInv, [Next]_vars
    PROVE  SweptInv'
  <1>1. /\ \A f \in Req : frow[f].state # "none" => pc[f] \in {"view", "done", "lost"}
        /\ \A f \in Req : frow[f].msg # 0 => frow[f].state \in {"linked", "gone"}
        /\ \A r, f \in Req : Sweeps(r, f) => (frow[f].msg # 0 => {frow[f].msg, r} \in met)
        /\ \A r \in Req : pc[r] = "unrow" => mem[r].m \notin stored
        /\ \A f \in Req : frow[f].state = "pending" /\ f \notin stored =>
              \E r \in Req : Kind(r) = "sweep" /\ (faults > 0 \/ (pc[r] = "unrow" /\ mem[r].m = f))
        /\ ChatRows
    BY DEF SweepInv, ChatType
  <1>2. /\ \A f \in Req : frow[f].msg # 0 /\ (f \notin stored \/ frow[f].state = "gone") =>
              \E r \in Req : Kind(r) = "sweep" /\ ({frow[f].msg, r} \in met \/ faults > 0)
        /\ \A f \in stored : f \in Req /\ (frow[f].state \in {"pending", "linked"} \/ pc[f] = "row" \/ pc[f] = "lost")
    BY DEF SweptInv, ChatType, ChatRows
  <1>3. faults \in Nat /\ faults' \in Nat /\ faults' >= faults /\ met \subseteq met'
    BY Lasting
  <1>4. CASE \E r \in Req : TalkStep(r)
    <2>1. PICK r \in Req : TalkStep(r)
      BY <1>4
    <2>2. /\ pc[r] \notin Ended /\ met' = met
          /\ \A q \in Req : Kind(q)' = Kind(q)
          /\ \A q \in Req \ {r} : pc'[q] = pc[q] /\ mem'[q] = mem[q]
      BY <2>1, TalkWalk
    <2>3. \A f \in Req : \/ frow'[f] = frow[f]
                         \/ Link(r) /\ Linked(r, f)
                         \/ FileRow(r) /\ f = r /\ pc[f] = "row" /\ frow[f].state = "none" /\ Filed(f, mem[r].conv)
                         \/ Unrow(r) /\ f = mem[r].m /\ Gone(f)
      BY <2>1, FilesWalk
    <2>4. ASSUME NEW f \in Req, frow'[f].msg # 0, f \notin stored' \/ frow'[f].state = "gone"
          PROVE  \E q \in Req : Kind(q) = "sweep" /\ ({frow'[f].msg, q} \in met \/ faults' > 0)
      <3>1. CASE frow[f].msg = 0
        <4>1. Link(r) /\ Linked(r, f)
          BY <2>3, <2>4, <3>1 DEF Filed, Gone
        <4>2. frow'[f].msg = r /\ frow'[f].state = "linked" /\ frow[f].state = "pending"
          BY <4>1 DEF Linked
        <4>3. pc[r] = "link" /\ stored' = stored /\ Kind(r) = "submit"
          BY <1>1, <4>1, LinkDoes DEF ChatType
        <4>4. PICK q \in Req : Kind(q) = "sweep" /\ (faults > 0 \/ (pc[q] = "unrow" /\ mem[q].m = f))
          BY <1>1, <2>4, <4>2, <4>3
        <4>5. CASE faults > 0
          BY <1>3, <4>4, <4>5
        <4>6. CASE pc[q] = "unrow"
          <5>1. q # r /\ pc[q] \notin Ended
            BY <4>3, <4>4, <4>6 DEF Ended
          <5>2. {r, q} \in met
            BY <2>2, <5>1, Meeting
          <5>3. QED
            BY <4>2, <4>4, <5>2
        <4>7. QED
          BY <4>4, <4>5, <4>6
      <3>2. CASE frow[f].msg # 0 /\ (f \notin stored \/ frow[f].state = "gone")
        <4>1. frow'[f].msg = frow[f].msg
          BY <2>1, <3>2, FilesWalk
        <4>2. PICK q \in Req : Kind(q) = "sweep" /\ ({frow[f].msg, q} \in met \/ faults > 0)
          BY <1>2, <3>2
        <4>3. QED
          BY <1>3, <4>1, <4>2
      <3>3. CASE frow[f].msg # 0 /\ f \in stored /\ frow[f].state # "gone"
        <4>1. frow'[f].msg = frow[f].msg /\ frow[f].state = "linked"
          BY <1>1, <2>1, <3>3, FilesWalk
        <4>2. Kind(r) = "sweep" /\ Sweeps(r, f)
          <5>1. CASE f \notin stored'
            BY <2>1, <3>3, <4>1, <5>1, StorageWalk
          <5>2. CASE frow'[f].state = "gone"
            <6>1. Unrow(r) /\ f = mem[r].m
              BY <2>3, <4>1, <5>2 DEF Linked, Filed
            <6>2. pc[r] = "unrow" /\ Kind(r) = "sweep"
              BY <1>1, <6>1, UnrowDoes
            <6>3. QED
              BY <6>1, <6>2 DEF Sweeps, Sweeping
          <5>3. QED
            BY <2>4, <5>1, <5>2
        <4>3. {frow[f].msg, r} \in met
          BY <1>1, <3>3, <4>2
        <4>4. QED
          BY <4>1, <4>2, <4>3
      <3>4. QED
        BY <3>1, <3>2, <3>3
    <2>5. ASSUME NEW f \in stored' PROVE frow'[f].state \in {"pending", "linked"} \/ pc'[f] = "row" \/ pc'[f] = "lost"
      <3>1. CASE f \notin stored
        BY <2>1, <2>5, <3>1, StorageWalk
      <3>2. CASE f \in stored /\ frow[f].state \in {"pending", "linked"}
        <4>1. f \in Req
          BY <1>2, <3>2
        <4>2. ~(Unrow(r) /\ f = mem[r].m)
          BY <1>1, <3>2, UnrowDoes
        <4>3. frow'[f] = frow[f] \/ Linked(r, f) \/ Filed(f, mem[r].conv)
          BY <2>3, <4>1, <4>2
        <4>4. QED
          BY <3>2, <4>3 DEF Linked, Filed
      <3>3. CASE f \in stored /\ pc[f] = "row"
        <4>1. CASE f = r
          <5>1. FileRow(r)
            BY <1>1, <2>1, <2>5, <3>3, <4>1, TalkGoesOn, RemoveFileDoes
          <5>2. QED
            BY <1>1, <4>1, <5>1, FileRowDoes DEF Filed
        <4>2. CASE f # r
          BY <1>2, <2>2, <3>3, <4>2
        <4>3. QED
          BY <4>1, <4>2
      <3>4. CASE f \in stored /\ pc[f] = "lost"
        BY <1>2, <2>2, <3>4 DEF Ended
      <3>5. QED
        BY <1>2, <3>1, <3>2, <3>3, <3>4
    <2>6. QED
      BY <2>2, <2>4, <2>5 DEF SweptInv
  <1>5. CASE Age \/ ChatAside
    <2>1. /\ UNCHANGED <<frow, stored>> /\ "row" \in TalkSteps /\ "sweep" \in TalkKinds
          /\ \A r \in Req : Kind(r) \in TalkKinds => Kind(r)' = Kind(r)
          /\ \A r \in Req : pc[r] \in TalkSteps => pc'[r] = pc[r] \/ (pc'[r] = "lost" /\ faults' > 0)
          /\ \A r \in Req : pc[r] \in Ended \ {"free"} => pc'[r] = pc[r]
      BY <1>5, FilesAside DEF TalkSteps, TalkKinds, Storing
    <2>2. \A f \in stored : frow[f].state \in {"pending", "linked"} \/ pc'[f] = "row" \/ pc'[f] = "lost"
      BY <1>2, <2>1 DEF Ended
    <2>3. ASSUME NEW f \in Req, frow[f].msg # 0, f \notin stored \/ frow[f].state = "gone"
          PROVE  \E q \in Req : Kind(q)' = "sweep" /\ ({frow[f].msg, q} \in met' \/ faults' > 0)
      <3>1. PICK q \in Req : Kind(q) = "sweep" /\ ({frow[f].msg, q} \in met \/ faults > 0)
        BY <1>2, <2>3
      <3>2. Kind(q)' = "sweep"
        BY <2>1, <3>1
      <3>3. {frow[f].msg, q} \in met' \/ faults' > 0
        <4>1. CASE {frow[f].msg, q} \in met
          BY <1>3, <4>1
        <4>2. CASE faults > 0
          BY <1>3, <4>2
        <4>3. QED
          BY <3>1, <4>1, <4>2
      <3>4. QED
        BY <3>2, <3>3
    <2>4. QED
      BY <2>1, <2>2, <2>3 DEF SweptInv
  <1>6. QED
    BY <1>4, <1>5, ChatStepsOf

\* The files that wait are finitely many; fewer do not wait more, and one more is one more.
LEMMA Waiting ==
    ASSUME NEW S \in SUBSET Req
    PROVE  /\ IsFiniteSet(S) /\ Cardinality(S) \in Nat
           /\ \A T \in SUBSET S : Cardinality(T) \in Nat /\ Cardinality(T) <= Cardinality(S)
           /\ \A f \in Req : \A T \in SUBSET (S \cup {f}) : Cardinality(T) \in Nat /\ Cardinality(T) <= Cardinality(S) + 1
  <1>1. IsFiniteSet(Req)
    BY FS_Interval, InboxAssumption DEF Req
  <1>2. IsFiniteSet(S) /\ Cardinality(S) \in Nat
    BY <1>1, FS_Subset, FS_CardinalityType
  <1>3. \A T \in SUBSET S : Cardinality(T) \in Nat /\ Cardinality(T) <= Cardinality(S)
    BY <1>2, FS_Subset, FS_CardinalityType
  <1>4. ASSUME NEW f \in Req, NEW T \in SUBSET (S \cup {f}) PROVE Cardinality(T) \in Nat /\ Cardinality(T) <= Cardinality(S) + 1
    <2>1. IsFiniteSet(S \cup {f}) /\ Cardinality(S \cup {f}) \in Nat /\ Cardinality(S \cup {f}) <= Cardinality(S) + 1
      <3>1. /\ IsFiniteSet(S \cup {f})
            /\ Cardinality(S \cup {f}) = IF f \in S THEN Cardinality(S) ELSE Cardinality(S) + 1
        BY <1>2, FS_AddElement
      <3>2. QED
        BY <1>2, <3>1
    <2>2. Cardinality(T) \in Nat /\ Cardinality(T) <= Cardinality(S \cup {f})
      BY <2>1, FS_Subset, FS_CardinalityType
    <2>3. QED
      BY <1>2, <2>1, <2>2
  <1>5. QED
    BY <1>2, <1>3, <1>4

\* Every step keeps the files that wait within the limit, unless two uploads met.
LEMMA RoomStep ==
    ASSUME CoreInv, MailRoutes, ChatRoutes, ChatType, SweepInv, RoomInv, [Next]_vars
    PROVE  RoomInv'
  <1>1. TwoUploads => RoomInv'
    BY TogetherLasts DEF RoomInv
  <1>2. SUFFICES ASSUME ~TwoUploads PROVE RoomInv'
    BY <1>1
  <1>3. /\ \A r \in Req : pc[r] \in {"put", "row"} => mem[r].conv \in Req /\ Cardinality(Pending(mem[r].conv)) < MaxPending
        /\ \A c \in Req : ~(Cardinality(Pending(c)) > MaxPending)
        /\ ChatRows /\ MaxPending \in Nat
    BY <1>2, ConversationsAssumption DEF RoomInv, ChatType, Brings
  <1>4. \A c : Pending(c) \in SUBSET Req
    BY DEF Pending
  <1>5. CASE \E r \in Req : TalkStep(r)
    <2>1. PICK r \in Req : TalkStep(r)
      BY <1>5
    <2>2. /\ pc[r] \notin Ended
          /\ \A q \in Req \ {r} : pc'[q] = pc[q] /\ mem'[q] = mem[q]
      BY <2>1, TalkWalk
    <2>3. \A f \in Req : \/ frow'[f] = frow[f]
                         \/ Linked(r, f)
                         \/ FileRow(r) /\ f = r /\ Filed(f, mem[r].conv)
                         \/ Gone(f)
      BY <2>1, FilesWalk
    <2>4. ASSUME NEW c, NEW f \in Req, frow'[f].state = "pending", frow'[f].conv = c
          PROVE  f \in Pending(c) \/ (FileRow(r) /\ f = r /\ c = mem[r].conv)
      BY <2>3, <2>4 DEF Pending, Linked, Filed, Gone
    <2>5. \A c : Pending(c)' \subseteq Pending(c) \/ (FileRow(r) /\ c = mem[r].conv /\ Pending(c)' \subseteq Pending(c) \cup {r})
      BY <2>4 DEF Pending
    <2>6. \A c \in Req : Cardinality(Pending(c))' \in Nat /\ Cardinality(Pending(c)) \in Nat
      BY <1>4, Waiting DEF Pending
    <2>7. ASSUME NEW c \in Req PROVE ~(Cardinality(Pending(c))' > MaxPending)
      <3>1. CASE Pending(c)' \subseteq Pending(c)
        <4>1. Cardinality(Pending(c))' <= Cardinality(Pending(c))
          BY <1>4, <3>1, Waiting
        <4>2. QED
          BY <1>3, <2>6, <2>7, <4>1
      <3>2. CASE FileRow(r) /\ c = mem[r].conv /\ Pending(c)' \subseteq Pending(c) \cup {r}
        <4>1. Cardinality(Pending(c))' <= Cardinality(Pending(c)) + 1
          BY <1>4, <3>2, Waiting
        <4>2. pc[r] = "row"
          BY <1>3, <3>2, FileRowDoes
        <4>3. Cardinality(Pending(c)) < MaxPending
          BY <1>3, <3>2, <4>2
        <4>4. QED
          BY <1>3, <2>6, <2>7, <4>1, <4>3
      <3>3. QED
        BY <2>5, <3>1, <3>2
    <2>8. ASSUME NEW q \in Req \ {r}, pc[q] \in {"put", "row"} PROVE Cardinality(Pending(mem[q].conv))' < MaxPending
      <3>1. ~FileRow(r)
        <4>1. FileRow(r) => pc[r] = "row" /\ Kind(r) = "upload"
          BY <1>3, FileRowDoes
        <4>2. Kind(q) = "upload" /\ pc[q] \notin Ended
          BY <1>3, <2>8, TalkHas DEF Ended
        <4>3. QED
          BY <1>2, <2>2, <4>1, <4>2, Together DEF Begins
      <3>2. PICK c \in Req : c = mem[q].conv /\ mem'[q].conv = c
        BY <1>3, <2>2, <2>8
      <3>3. Pending(c)' \subseteq Pending(c)
        BY <2>5, <3>1
      <3>4. Cardinality(Pending(c))' <= Cardinality(Pending(c)) /\ Cardinality(Pending(c)) < MaxPending
        BY <1>3, <1>4, <2>8, <3>2, <3>3, Waiting
      <3>5. Cardinality(Pending(c))' < MaxPending
        BY <1>3, <2>6, <3>4
      <3>6. QED
        BY <3>2, <3>5
    <2>9. ASSUME pc'[r] \in {"put", "row"} PROVE Cardinality(Pending(mem[r].conv))' < MaxPending
      <3>1. PICK c \in Req : c = mem'[r].conv /\ Cardinality(Pending(c)) < MaxPending /\ frow' = frow
        <4>1. CASE Count(r)
          <5>1. /\ w.conv # None /\ mem'[r].conv = w.conv /\ ~(Cardinality(Pending(w.conv)) >= MaxPending) /\ frow' = frow
            BY <1>3, <2>9, <4>1, CountDoes DEF talk, server
          <5>2. w.conv \in Req
            BY <1>3, <5>1 DEF ChatRows
          <5>3. QED
            BY <1>3, <2>6, <5>1, <5>2
        <4>2. CASE PutFile(r)
          <5>1. pc[r] = "put" /\ mem'[r] = mem[r] /\ frow' = frow
            BY <1>3, <4>2, PutFileDoes
          <5>2. QED
            BY <1>3, <5>1
        <4>3. QED
          BY <2>1, <2>9, <4>1, <4>2, TalkLeads
      <3>2. Cardinality(Pending(c))' = Cardinality(Pending(c))
        BY <3>1 DEF Pending
      <3>3. QED
        BY <3>1, <3>2
    <2>10. \A q \in Req : pc'[q] \in {"put", "row"} => Cardinality(Pending(mem[q].conv))' < MaxPending
      BY <2>2, <2>8, <2>9
    <2>11. QED
      BY <2>7, <2>10 DEF RoomInv
  <1>6. CASE Age \/ ChatAside
    <2>1. frow' = frow /\ {"put", "row"} \subseteq TalkSteps
      BY <1>6, FilesAside DEF TalkSteps, Storing
    <2>2. \A q \in Req : pc'[q] \in {"put", "row"} => pc'[q] = pc[q] /\ mem'[q] = mem[q]
      BY <1>6, <2>1, TalkersStay
    <2>3. \A c : Pending(c)' = Pending(c)
      BY <2>1 DEF Pending
    <2>4. QED
      BY <1>3, <2>2, <2>3 DEF RoomInv
  <1>7. QED
    BY <1>5, <1>6, ChatStepsOf

-----------------------------------------------------------------------------
(* The chat over a whole run *)

\* Nobody is at a step and nothing was written at first.
LEMMA ChatInvInit == Init => ChatInv
  <1>1. SUFFICES ASSUME Init PROVE ChatInv
    OBVIOUS
  <1>2. /\ faults = 0 /\ met = {} /\ \A r \in Req : pc[r] = "free" /\ Kind(r) = "none"
        /\ w = [open |-> TRUE, token |-> None, conv |-> None, files |-> {}]
        /\ chat = {} /\ runs = {} /\ stored = {} /\ stale = {}
        /\ conv = [c \in Req |-> [owner |-> None, open |-> FALSE]]
        /\ frow = [f \in Req |-> NoFile]
    BY <1>1 DEF Init, InboxInit, TalkInit, Kind
  <1>3. /\ \A r \in Req : pc[r] \notin TalkSteps /\ Kind(r) \notin TalkKinds /\ pc[r] \in Ended
        /\ \A s \in {"get"} \cup Beginning \cup Delivering \cup Storing \cup Sweeping : s # "free" /\ s \in TalkSteps
    BY <1>2 DEF TalkSteps, TalkKinds, Ended, Beginning, Delivering, Storing, Sweeping
  <1>4. \A f \in Req : DOMAIN frow[f] = DOMAIN NoFile /\ frow[f].state = "none" /\ frow[f].msg = 0
    BY <1>2 DEF NoFile
  <1>5. \A c \in Req : DOMAIN conv[c] = {"owner", "open"} /\ ~conv[c].open
    BY <1>2
  <1>6. ChatRoutes
    BY <1>3 DEF ChatRoutes
  <1>7. ChatType
    <2>1. ChatRows
      BY <1>2, <1>4, <1>5, FS_EmptySet DEF ChatRows
    <2>2. \A r \in Req : Brings(r)
      BY <1>2 DEF Brings, TalkKinds
    <2>3. QED
      BY <2>1, <2>2 DEF ChatType
  <1>8. OpenInv
    BY <1>2, <1>5 DEF OpenInv
  <1>9. RowInv /\ RunInv
    BY <1>2 DEF RowInv, RunInv
  <1>10. FileInv /\ LinkInv
    BY <1>2 DEF FileInv, LinkInv
  <1>11. SweepInv
    <2>1. \A r, f \in Req : ~Sweeps(r, f)
      BY <1>2 DEF Sweeps, Sweeping
    <2>2. QED
      BY <1>2, <1>4, <2>1 DEF SweepInv
  <1>12. SweptInv
    BY <1>2, <1>4 DEF SweptInv
  <1>13. RoomInv
    <2>1. \A c : Pending(c) = {}
      BY <1>4 DEF Pending
    <2>2. \A c : Cardinality(Pending(c)) = 0
      BY <2>1, FS_EmptySet
    <2>3. QED
      BY <1>2, <2>2, ConversationsAssumption DEF RoomInv
  <1>14. QED
    BY <1>6, <1>7, <1>8, <1>9, <1>10, <1>11, <1>12, <1>13 DEF ChatInv

\* Every step keeps the invariant of the chat.
LEMMA ChatStep == CoreInv /\ MailInv /\ ChatInv /\ [Next]_vars => ChatInv'
  <1>1. SUFFICES ASSUME CoreInv, MailInv, ChatInv, [Next]_vars PROVE ChatInv'
    OBVIOUS
  <1>2. /\ MailRoutes /\ ChatRoutes /\ ChatType /\ OpenInv /\ RowInv /\ RunInv /\ FileInv /\ LinkInv /\ SweepInv /\ SweptInv
        /\ RoomInv
    BY <1>1 DEF MailInv, ChatInv
  <1>3. ChatRoutes' /\ ChatType' /\ OpenInv'
    BY <1>1, <1>2, ChatRoutesStep, ChatTypeStep, OpenStep
  <1>4. RowInv' /\ RunInv' /\ FileInv' /\ LinkInv'
    BY <1>1, <1>2, RowStep, RunStep, FileStep, LinkStep
  <1>5. SweepInv' /\ SweptInv' /\ RoomInv'
    BY <1>1, <1>2, SweepStep, SweptStep, RoomStep
  <1>6. QED
    BY <1>3, <1>4, <1>5 DEF ChatInv

\* The invariant of the chat (apps/web, public/widget; widget and chat-attachments of apps/api) holds of every run:
\* where its handlers are, whose conversation they write to, and what becomes of messages and files.
THEOREM ChatInvariantHolds == Spec => []ChatInv
  <1>1. Init => ChatInv
    BY ChatInvInit
  <1>2. (CoreInv /\ MailInv) /\ ChatInv /\ [Next]_vars => ChatInv'
    BY ChatStep
  <1>3. QED
    BY <1>1, <1>2, MailInvariantHolds, PTL DEF Spec

\* A visitor's messages are stored once and in one conversation, unless two were begun together, and are read once; one
\* shown as sent is there, with its files, and was read, unless an attempt broke off; a file of a message is in the
\* storage unless a sweep met the message or something broke off; and what waits keeps to the limit unless uploads
\* overlapped.
THEOREM MessagesArrive == Spec => []ChatsHold
  <1>1. CoreInv /\ ChatInv => ChatsHold
    <2>1. SUFFICES ASSUME CoreInv, ChatInv PROVE ChatsHold
      OBVIOUS
    <2>2. ChatRows /\ OpenInv /\ RowInv /\ RunInv /\ LinkInv /\ SweptInv /\ RoomInv
      BY <2>1 DEF ChatInv, ChatType
    <2>3. ASSUME NEW r \in Req
          PROVE  Cardinality({c \in chat : c.id = r}) > 1 => TwoBegan
      <3>1. SUFFICES ASSUME ~TwoBegan PROVE ~(Cardinality({c \in chat : c.id = r}) > 1)
        OBVIOUS
      <3>2. \A c, d \in chat : c.id = d.id => c = d
        BY <2>2, <3>1 DEF RowInv
      <3>3. {c \in chat : c.id = r} = {} \/ \E x : {c \in chat : c.id = r} = {x}
        BY <3>2
      <3>4. Cardinality({c \in chat : c.id = r}) \in {0, 1}
        BY <3>3, FS_EmptySet, FS_Singleton
      <3>5. QED
        BY <3>4
    <2>4. ASSUME NEW r \in Req
          PROVE  Cardinality({u \in runs : u[1] = r}) <= 1 \/ Cardinality({c \in chat : c.id = r}) > 1
      <3>1. CASE \A u, v \in runs : u[1] = r /\ v[1] = r => u = v
        <4>1. {u \in runs : u[1] = r} = {} \/ \E x : {u \in runs : u[1] = r} = {x}
          BY <3>1
        <4>2. Cardinality({u \in runs : u[1] = r}) \in {0, 1}
          BY <4>1, FS_EmptySet, FS_Singleton
        <4>3. QED
          BY <4>2
      <3>2. CASE \E u, v \in runs : u[1] = r /\ v[1] = r /\ u # v
        <4>1. PICK u \in runs, v \in runs : u[1] = r /\ v[1] = r /\ u # v
          BY <3>2
        <4>2. u[2] # v[2] /\ [id |-> u[1], conv |-> u[2]] \in chat /\ [id |-> v[1], conv |-> v[2]] \in chat
          BY <2>2, <4>1 DEF RunInv
        <4>3. PICK c \in chat, d \in chat : c.id = r /\ d.id = r /\ c # d
          BY <4>1, <4>2
        <4> DEFINE S == {x \in chat : x.id = r}
        <4>4. IsFiniteSet(S)
          BY <2>2, FS_Subset DEF ChatRows
        <4>5. {c, d} \subseteq S
          BY <4>3
        <4>6. Cardinality({c, d}) = 2
          <5>1. IsFiniteSet({c}) /\ Cardinality({c}) = 1
            BY FS_Singleton
          <5>2. Cardinality({c} \cup {d}) = Cardinality({c}) + 1
            BY <4>3, <5>1, FS_AddElement
          <5>3. {c} \cup {d} = {c, d}
            OBVIOUS
          <5>4. QED
            BY <5>1, <5>2, <5>3
        <4>7. Cardinality(S) \in Nat /\ Cardinality({c, d}) <= Cardinality(S)
          BY <4>4, <4>5, FS_Subset, FS_CardinalityType
        <4>8. QED
          BY <4>6, <4>7
      <3>3. QED
        BY <3>1, <3>2
    <2>5. ASSUME NEW r \in Req, Sends(r), pc[r] = "done"
          PROVE  /\ \E c \in chat : c.id = r
                 /\ faults = 0 => /\ \E u \in runs : u[1] = r
                                  /\ \A f \in mem[r].files : frow[f].msg = r
      BY <2>2, <2>5 DEF RowInv, LinkInv, Sends
    <2>6. MessagesHold
      BY <2>2, <2>3, <2>4, <2>5 DEF MessagesHold, OpenInv
    <2>7. FilesHold
      BY <2>2 DEF FilesHold, SweptInv, RoomInv, TwoUploads
    <2>8. QED
      BY <2>6, <2>7 DEF ChatsHold
  <1>2. QED
    BY <1>1, MailInvariantHolds, ChatInvariantHolds, PTL
=============================================================================
