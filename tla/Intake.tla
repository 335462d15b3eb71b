--------------------------------- MODULE Intake ---------------------------------
(***************************************************************************)
(* What reaches the help desk from outside beside mails and chats (apps/   *)
(* api): the intake forms of an organisation and what is sent with them,   *)
(* the public API, the import of another help desk's tickets and the       *)
(* sample tickets; and three small features with a race of their own: the  *)
(* evaluation of the AI on saved questions, the Shopify connection and the *)
(* rating of a solved ticket.                                              *)
(*                                                                         *)
(* Again processes that walk through their handlers.  Imports and          *)
(* evaluations are kept apart by a set in the memory of the API process    *)
(* that serves them; On(r) names it.                                       *)
(***************************************************************************)
EXTENDS Conversations

CONSTANTS
    Limit,      \* forms of the plan, and MAX_CASES_PER_ORG
    Items       \* bound: rows of the import file; DEMO_TICKETS

\* The names of the accounts, the first rows and nobody are no numbers, and the rows of an import
\* are numbered from 1.
ASSUME IntakeAssumption ==
    /\ Limit \in Nat \ {0} /\ Items \in Nat \ {0}
    /\ None \notin Nat /\ First \notin Nat
    /\ \A a \in Areas : \A j \in a.jobs : j.kind = "import" => j.opt.rows \subseteq 1..Items

VARIABLES
    form,           \* IntakeForm rows: First and by the process that made them, [live, active]
    person,         \* Customer rows: First, who writes to the help desk, and the sample ones
    got,            \* Ticket rows: [of, item, try, tag, due]
    said,           \* messages: <<process, attempt>>
    untagged,       \* history: items whose tag the staff took
    busy,           \* importsInFlight and runningOrgs: [set, by, of]
    cases,          \* EvalCase rows by the process that made them
    twins,          \* history: evaluations admitted while another was being admitted
    shop,           \* ShopifyConnection: the process that stored it
    solved, rating  \* the ticket that is rated: its status, and its CsatResponse [of, solved]

leads == <<form, person, got, said, untagged>>
trials == <<busy, cases, twins>>
rest == <<shop, solved, rating>>
intake == <<leads, trials, rest>>
vars == <<channels, intake>>

Fid == {First} \cup Req
Samples == 1..Items
Answers == {"answer", "api", "say"}     \* requests of others, who may send them again

Init ==
    /\ InboxInit /\ TalkInit
    /\ form = [f \in Fid |-> [live |-> f = First, active |-> f = First]]
    /\ person = [p \in {First} \cup Samples |-> "none"]
    /\ got = {} /\ said = {} /\ busy = {} /\ cases = {} /\ shop = None
    /\ solved = TRUE /\ rating = None /\ untagged = {} /\ twins = {}

Does(r, kind) == At(r, "start") /\ Kind(r) = kind

-----------------------------------------------------------------------------
(* Forms *)

\* assertCanAdd and createCase compare a count with the limit; the row is added after an await.
LiveForms == {f \in Fid : form[f].live}
AnyNumber(r) ==
    /\ At(r, "start") /\ Kind(r) \in {"newForm", "newCase"}
    /\ Move(r, IF Kind(r) = "newForm" THEN "addForm" ELSE "addCase") /\ UNCHANGED intake
BelowLimit(r) ==
    /\ At(r, "start") /\ Kind(r) \in {"newForm", "newCase"}
    /\ Move(r, IF Cardinality(IF Kind(r) = "newForm" THEN LiveForms ELSE cases) >= Limit THEN "rejected"
               ELSE IF Kind(r) = "newForm" THEN "addForm" ELSE "addCase")
    /\ UNCHANGED intake

CreateForm(r) ==
    /\ At(r, "addForm") /\ Move(r, "done")
    /\ form' = [form EXCEPT ![r] = [live |-> TRUE, active |-> TRUE]]
    /\ UNCHANGED <<person, got, said, untagged, trials, rest>>

FindForm(r) ==
    /\ Does(r, "switch")
    /\ Move(r, IF form[First].live THEN "switchForm" ELSE "rejected") /\ UNCHANGED intake

UpdateForm(r) ==
    /\ At(r, "switchForm")
    /\ IF form[First].live THEN Move(r, "done") /\ form' = [form EXCEPT ![First].active = Opt(r).is = "on"]
       ELSE Move(r, "failed") /\ UNCHANGED form
    /\ UNCHANGED <<person, got, said, untagged, trials, rest>>

RemoveForm(r) ==
    /\ Does(r, "dropForm")
    /\ IF form[First].live THEN Move(r, "done") /\ form' = [form EXCEPT ![First].live = FALSE]
       ELSE Move(r, "rejected") /\ UNCHANGED form
    /\ UNCHANGED <<person, got, said, untagged, trials, rest>>

\* Opt is what is sent: a plain or a serious matter, or a bot's, which is told all went well.
ReadForm(r) ==
    /\ Does(r, "answer")
    /\ Move(r, IF ~form[First].live \/ ~form[First].active THEN "rejected"
               ELSE IF Opt(r).is = "bot" THEN "done" ELSE "person")
    /\ UNCHANGED intake

ReadApiCall(r) == Does(r, "api") /\ Move(r, "person") /\ UNCHANGED intake

\* findOrCreateByEmail: the unique e-mail makes the two reads and the insert one step.
KnowPerson(r) ==
    /\ At(r, "person") /\ Move(r, IF person[First] = "blocked" THEN "rejected" ELSE "ticket")
    /\ person' = [person EXCEPT ![First] = IF @ = "none" THEN "active" ELSE @]
    /\ UNCHANGED <<form, got, said, untagged, trials, rest>>

Block(r) ==
    /\ Does(r, "block") /\ person[First] # "none" /\ Move(r, "done")
    /\ person' = [person EXCEPT ![First] = "blocked"]
    /\ UNCHANGED <<form, got, said, untagged, trials, rest>>

Lead(r, item, tag) == [of |-> r, item |-> item, try |-> mem[r].tries, tag |-> tag, due |-> FALSE]
TicketFor(r) ==
    /\ At(r, "ticket")
    /\ got' = got \cup {Lead(r, 0, IF Kind(r) = "answer" THEN "form" ELSE "none")}
    /\ Move(r, IF Kind(r) = "answer" THEN "judge" ELSE "reply")
    /\ UNCHANGED <<form, person, said, untagged, trials, rest>>

\* escalationsService.evaluate, "never throws": a serious matter gets its deadline unless a call fails.
NoDeadline(r) == At(r, "judge") /\ Move(r, "reply") /\ UNCHANGED intake
Judge(r) ==
    /\ At(r, "judge") /\ Move(r, "reply")
    /\ got' = IF Opt(r).is # "serious" THEN got
              ELSE {IF t.of = r /\ t.try = mem[r].tries THEN [t EXCEPT !.due = TRUE] ELSE t : t \in got}
    /\ UNCHANGED <<form, person, said, untagged, trials, rest>>
JudgeFails(r) ==
    /\ At(r, "judge") /\ MayFail /\ faults' = faults + 1 /\ Go(r, "reply")
    /\ UNCHANGED <<area, job, mem, met, intake>>

\* A message through the API or from the tracking page, which has no clientMessageId.
SayMessage(r) ==
    /\ Does(r, "say") /\ Move(r, "reply") /\ said' = said \cup {<<r, mem[r].tries>>}
    /\ UNCHANGED <<form, person, got, untagged, trials, rest>>

Replied(r) == At(r, "reply") /\ Move(r, "done") /\ UNCHANGED intake

\* A request that throws, or whose answer is lost, may be sent again by whoever sent it.
SendAgain(r) ==
    /\ Kind(r) \in Answers /\ pc[r] \in {"person", "ticket", "reply"} /\ MayFail /\ faults' = faults + 1
    /\ mem[r].tries + 1 < MaxTries
    /\ Go(r, "start") /\ Hold(r, [mem[r] EXCEPT !.tries = @ + 1])
    /\ UNCHANGED <<area, job, met, intake>>

-----------------------------------------------------------------------------
(* Imports and sample tickets *)

Enter(set, r) == busy' = busy \cup {[set |-> set, by |-> On(r), of |-> r]}
Leave(r) == busy' = {u \in busy : u.set # job[r].kind \/ u.by # On(r)}
Busy(set, r) == \E u \in busy : u.set = set /\ u.by = On(r)

ImportStart(r) ==
    /\ Does(r, "import")
    /\ IF Busy("import", r) THEN Move(r, "rejected") /\ UNCHANGED busy ELSE Move(r, "known") /\ Enter("import", r)
    /\ UNCHANGED <<leads, cases, twins, rest>>

\* Opt holds the rows of the file that parseZendeskCsv finds valid, and whether they are imported.
AllRows(r) == At(r, "known") /\ Step(r, "nextRow", [mem[r] EXCEPT !.ids = Opt(r).rows]) /\ UNCHANGED intake
FindExisting(r) ==
    LET known == {t.item : t \in {x \in got : x.tag = "zd"}} IN
    /\ At(r, "known")
    /\ Step(r, "nextRow", [mem[r] EXCEPT !.ids = IF Opt(r).dry THEN {} ELSE Opt(r).rows \ known])
    /\ UNCHANGED intake

NextRow(r) ==
    /\ At(r, "nextRow")
    /\ IF mem[r].ids = {} THEN Move(r, "imported") /\ UNCHANGED person
       ELSE /\ \E i \in mem[r].ids : Step(r, "importRow", [mem[r] EXCEPT !.ids = @ \ {i}, !.m = i])
            /\ person' = [person EXCEPT ![First] = IF @ = "none" THEN "active" ELSE @]
    /\ UNCHANGED <<form, got, said, untagged, trials, rest>>

ImportRow(r) ==
    /\ At(r, "importRow") /\ Move(r, "nextRow")
    /\ got' = got \cup {Lead(r, mem[r].m, "zd")}
    /\ UNCHANGED <<form, person, said, untagged, trials, rest>>

ImportEnd(r) ==
    /\ At(r, "imported") /\ Move(r, "done") /\ Leave(r)
    /\ UNCHANGED <<leads, cases, twins, rest>>

\* One row that cannot be saved is counted and the next one is tried; the rest is left by finally.
ImportFails(r) ==
    /\ Kind(r) = "import" /\ pc[r] \in {"known", "importRow", "imported"} /\ MayFail /\ faults' = faults + 1
    /\ IF pc[r] = "importRow" THEN Go(r, "nextRow") /\ UNCHANGED busy ELSE Go(r, "failed") /\ Leave(r)
    /\ UNCHANGED <<area, job, mem, met, leads, cases, twins, rest>>

Demo == {t \in got : t.tag = "demo"}
SeedStatus(r) ==
    /\ Does(r, "seed")
    /\ IF Demo # {} THEN Move(r, "rejected") ELSE Step(r, "sample", [mem[r] EXCEPT !.ids = Samples])
    /\ UNCHANGED intake

SeedCustomer(r) ==
    /\ At(r, "sample")
    /\ IF mem[r].ids = {} THEN Move(r, "done") /\ UNCHANGED person
       ELSE LET i == CHOOSE x \in mem[r].ids : \A y \in mem[r].ids : x <= y IN
            /\ Step(r, "sampleTicket", [mem[r] EXCEPT !.ids = @ \ {i}, !.m = i])
            /\ person' = [person EXCEPT ![i] = "active"]
    /\ UNCHANGED <<form, got, said, untagged, trials, rest>>

\* The customer may have been cleared away since.
SeedTicket(r) ==
    /\ At(r, "sampleTicket")
    /\ IF person[mem[r].m] = "none" THEN Move(r, "failed") /\ UNCHANGED got
       ELSE Move(r, "sample") /\ got' = got \cup {Lead(r, mem[r].m, "demo")}
    /\ UNCHANGED <<form, person, said, untagged, trials, rest>>

\* One transaction: the tickets by their tag, then the sample customers that have none left.
Clear(r) ==
    /\ Does(r, "clear") /\ Move(r, "done") /\ got' = got \ Demo
    /\ person' = [p \in DOMAIN person |->
                    IF p \in Samples /\ \A t \in got' : t.item = p => Kind(t.of) # "seed" THEN "none" ELSE person[p]]
    /\ UNCHANGED <<form, said, untagged, trials, rest>>

\* The staff saves a ticket's tags without the one it came with.
Untag(r) ==
    /\ Does(r, "untag") /\ Move(r, "done")
    /\ \E t \in got : t.tag # "none" /\ got' = (got \ {t}) \cup {[t EXCEPT !.tag = "none"]}
                      /\ untagged' = untagged \cup ({t.item} \cap Samples)
    /\ UNCHANGED <<form, person, said, trials, rest>>

-----------------------------------------------------------------------------
(* Evaluations *)

CreateCase(r) ==
    /\ At(r, "addCase") /\ Move(r, "done") /\ cases' = cases \cup {r}
    /\ UNCHANGED <<leads, busy, twins, rest>>

DeleteCase(r) ==
    /\ Does(r, "dropCase")
    /\ IF cases = {} THEN Move(r, "rejected") /\ UNCHANGED cases
       ELSE Move(r, "done") /\ \E c \in cases : cases' = cases \ {c}
    /\ UNCHANGED <<leads, busy, twins, rest>>

\* run: whether one is running is checked here, an await before it is noted.
EvalStart(r) ==
    /\ Does(r, "eval")
    /\ IF Busy("eval", r) THEN Move(r, "rejected") /\ UNCHANGED twins
       ELSE /\ Move(r, "cases")
            /\ twins' = twins \cup {{r, q} : q \in {x \in Req : At(x, "cases") /\ On(x) = On(r)}}
    /\ UNCHANGED <<leads, busy, cases, rest>>

EvalCases(r) ==
    /\ At(r, "cases")
    /\ IF cases = {} THEN Move(r, "rejected") /\ UNCHANGED busy ELSE Move(r, "asking") /\ Enter("eval", r)
    /\ UNCHANGED <<leads, cases, twins, rest>>

\* All cases are asked, a failing call counting as not passed, and the results saved; whatever
\* happens, finally forgets the organisation.
EvalEnd(r) ==
    /\ At(r, "asking") /\ Move(r, "done") /\ Leave(r)
    /\ UNCHANGED <<leads, cases, twins, rest>>

\* An API process dies, and with it what it was doing and its memory.
Restart(p) ==
    /\ MayFail /\ faults' = faults + 1
    /\ LET dead == {r \in InFlight : Kind(r) \in {"import", "eval"} /\ On(r) = p} IN
       /\ dead # {}
       /\ pc' = [r \in Req |-> IF r \in dead THEN "lost" ELSE pc[r]]
    /\ busy' = {u \in busy : u.by # p}
    /\ UNCHANGED <<area, job, mem, met, leads, cases, twins, rest>>

-----------------------------------------------------------------------------
(* The Shopify connection and ratings *)

\* connect proves the token with a request to the shop before it stores it.
ShopProve(r) ==
    /\ Does(r, "connectShop") /\ \E next \in {"storeShop", "rejected"} : Move(r, next)
    /\ UNCHANGED intake

ShopUpsert(r) ==
    /\ At(r, "storeShop") /\ Move(r, "done") /\ shop' = r
    /\ UNCHANGED <<leads, trials, solved, rating>>

ShopDisconnect(r) ==
    /\ Does(r, "disconnectShop") /\ Move(r, IF shop = None THEN "rejected" ELSE "done") /\ shop' = None
    /\ UNCHANGED <<leads, trials, solved, rating>>

RateRead(r) ==
    /\ Does(r, "rate") /\ Move(r, IF solved THEN "rating" ELSE "rejected") /\ UNCHANGED intake

RateUpsert(r) ==
    /\ At(r, "rating") /\ Move(r, "done") /\ rating' = [of |-> r, solved |-> solved]
    /\ UNCHANGED <<leads, trials, shop, solved>>

\* The staff, or an answer of the customer, opens the ticket again; or it is solved again.
Reopen(r) ==
    /\ Does(r, "reopen") /\ Move(r, "done") /\ solved' = ~solved
    /\ UNCHANGED <<leads, trials, shop, rating>>

\* A process that throws elsewhere ends there.
Throws(r) ==
    /\ pc[r] \in {"addForm", "switchForm", "addCase", "sample", "sampleTicket", "storeShop", "rating", "cases"}
    /\ MayFail /\ faults' = faults + 1 /\ Go(r, "failed")
    /\ UNCHANGED <<area, job, mem, met, intake>>

-----------------------------------------------------------------------------
(* Specification *)

IntakeStep(r) ==
    \/ BelowLimit(r) \/ CreateForm(r) \/ FindForm(r) \/ UpdateForm(r) \/ RemoveForm(r) \/ ReadForm(r)
    \/ ReadApiCall(r) \/ KnowPerson(r) \/ Block(r) \/ TicketFor(r) \/ Judge(r) \/ JudgeFails(r) \/ SayMessage(r)
    \/ Replied(r) \/ SendAgain(r)
    \/ ImportStart(r) \/ FindExisting(r) \/ NextRow(r) \/ ImportRow(r) \/ ImportEnd(r) \/ ImportFails(r)
    \/ SeedStatus(r) \/ SeedCustomer(r) \/ SeedTicket(r) \/ Clear(r) \/ Untag(r)
    \/ CreateCase(r) \/ DeleteCase(r) \/ EvalStart(r) \/ EvalCases(r) \/ EvalEnd(r)
    \/ ShopProve(r) \/ ShopUpsert(r) \/ ShopDisconnect(r) \/ RateRead(r) \/ RateUpsert(r) \/ Reopen(r) \/ Throws(r)

Next ==
    \/ ChannelsNext /\ UNCHANGED intake
    \/ /\ \/ \E r \in Req : IntakeStep(r)
          \/ \E p \in {Main, Other} : Restart(p)
       /\ UNCHANGED <<mailbox, talk>>

Spec == Init /\ [][Next]_vars

-----------------------------------------------------------------------------
(* Properties *)

\* "Re-importing the same file is safe: each ticket is tagged zd-<id> and already-imported ids are
\* skipped" (imports.service.ts): a row becomes one ticket, unless imports of two API processes
\* overlapped or the staff took the tag; an import that ended left no valid row out, unless one failed;
\* and an API process has one import at a time.  The sample tickets are there once, unless two loads
\* overlapped or a tag was taken, and each has its customer.
ImportedOnce ==
    /\ \A t, u \in got :
        /\ t.item = u.item /\ t.item # 0 /\ Kind(t.of) = Kind(u.of) /\ t # u /\ t.item \notin untagged
        => {t.of, u.of} \in met /\ (Kind(t.of) = "import" => On(t.of) # On(u.of))
    /\ \A r \in Req : Kind(r) = "import" /\ pc[r] = "done" /\ ~Opt(r).dry /\ faults = 0
                        => \A i \in Opt(r).rows : \E t \in got : t.item = i
    /\ \A u, v \in busy : u.set = "import" /\ v.set = "import" /\ u.by = v.by => u = v
    /\ \A t \in got : Kind(t.of) = "seed" => person[t.item] # "none"

\* What is counted and then added stays below its limit unless two additions overlapped; an evaluation
\* runs alone in its API process unless one was admitted beside another; a Shopify token is gone after
\* a disconnect, unless a connection overlapped it; a rating is of a solved ticket, unless it was opened
\* again meanwhile.
GuardsHold ==
    /\ \A kind \in {"newForm", "newCase"} :
        Cardinality(IF kind = "newForm" THEN LiveForms ELSE cases) > Limit =>
            \E q, r \in Req : q # r /\ {q, r} \in met /\ Kind(q) = kind /\ Kind(r) = kind
    /\ \A q, r \in Req : q # r /\ At(q, "asking") /\ At(r, "asking") /\ On(q) = On(r) =>
            \E pair \in twins : \A x \in pair : On(x) = On(r)
    /\ \A u \in busy : u.of \in InFlight
    /\ \A r \in Req : Kind(r) = "disconnectShop" /\ pc[r] = "done" /\ shop # None /\ shop < r => {shop, r} \in met
    /\ rating # None /\ ~rating.solved => \E r \in Req : Kind(r) = "reopen" /\ {r, rating.of} \in met

\* What others send becomes one ticket or message per request, unless it was sent again after a failure;
\* a submission that was answered is a ticket, with a deadline when it is serious, unless a call failed;
\* none comes from a bot, nor from somebody blocked before it was sent.
SubmissionsHold ==
    /\ \A t, u \in got : t.of = u.of /\ t.item = 0 /\ t # u => faults > 0
    /\ \A s, u \in said : s[1] = u[1] /\ s # u => faults > 0
    /\ \A r \in Req : Kind(r) = "answer" =>
        /\ pc[r] = "done" /\ Opt(r).is # "bot" => \E t \in got : t.of = r /\ (Opt(r).is = "serious" /\ faults = 0 => t.due)
        /\ \A t \in got : t.of = r =>
            Opt(r).is # "bot" /\ \A q \in Req : Kind(q) = "block" /\ pc[q] = "done" /\ q < r => {q, r} \in met

\* "One run at a time per org: runs cost real LLM calls, so double-clicks must not double the bill"
\* (eval.service.ts).
OneEvaluationAtATime == \A q, r \in Req : At(q, "asking") /\ At(r, "asking") /\ On(q) = On(r) => q = r
=============================================================================
