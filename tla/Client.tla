------------------------------- MODULE Client -------------------------------
(* The web client at work on one screen: its cache of what the server holds *)
(* (React Query: an answer to a query replaces the cached data, a change    *)
(* that succeeds invalidates keys, an invalidated query on the screen is    *)
(* fetched again), the controls, and the text somebody types into them.     *)
(* Server data is the set of changes made to it. A rigid variable names the *)
(* screen, the one query followed and the controls used: queries do not     *)
(* influence each other.                                                    *)
EXTENDS Naturals, Sequences

CONSTANTS Areas,        \* Areas[n]: a screen, one of its queries, one or two of its controls
          MaxTokens,    \* bound on changes made, typed or pressed
          MaxCalls,     \* bound on requests sent by controls
          MaxVisits     \* bound on openings of the screen

Tokens == 1..MaxTokens

Covers(prefix, key) == Len(prefix) <= Len(key) /\ SubSeq(key, 1, Len(prefix)) = prefix
Touches(change, q) == change.writes \cap q.reads # {}
Tells(change, q) == \E prefix \in change.tells : Covers(prefix, q.key)

(* What the properties ask of an area's tables. A change that writes what   *)
(* the query reads tells the query's key; where one answers with new data,  *)
(* all that touch the query do. A change that sends a whole value is the    *)
(* only one of its control. A form that is emptied shares no hook with a    *)
(* button, and only the composer's can be sent while it is being sent.      *)
Changes(c) == {c.does[n] : n \in DOMAIN c.does}
AreaHolds(a) ==
    LET q == a.query
        Controls == DOMAIN a.controls
        Sent == UNION {Changes(a.controls[c]) : c \in Controls}
        Puts == {change \in Sent : change.puts /\ Tells(change, q)}
    IN
    /\ Controls \subseteq Nat
    /\ \A change \in Sent : Touches(change, q) => Tells(change, q) /\ (Puts # {} => change.puts)
    /\ \A c \in Controls :
          LET by == a.controls[c] IN
          /\ by.does \in Seq(Changes(by)) /\ by.does # <<>>
          /\ (\E change \in Changes(by) : change.whole) => Len(by.does) = 1
          /\ by.field = "text" /\ by.free => by.does[1].name = "addTicketMessage"
          /\ by.field = "text" /\ by.clears =>
                \A d \in Controls : a.controls[d].field # "text" =>
                    \A change \in Changes(by), other \in Changes(a.controls[d]) : change.name # other.name

ASSUME AreasAssumption ==
    /\ MaxTokens \in Nat /\ MaxCalls \in Nat /\ MaxVisits \in Nat \ {0}
    /\ \A n \in DOMAIN Areas : AreaHolds(Areas[n])

VARIABLES area, visit, here,           \* the screen; its opening; on display?
          loaded, data, stale,         \* the cached query
          fetch, answer,               \* its request under way
          server, news,                \* what the server holds; a socket event under way
          draft, typed,                \* the field; text typed and not yet accepted
          made, calls, latest, dead,   \* tokens used; requests; observers; disabled controls
          mine, landed,                \* accepted changes told to the person; times accepted
          missed, forgiven, overtyped, again   \* history: losses accounted for, text overwritten

query == Areas[area].query
Controls == DOMAIN Areas[area].controls
The(c) == Areas[area].controls[c]
cacheVars == <<loaded, data, stale, fetch, answer, missed>>
formVars == <<draft, typed, overtyped>>
callVars == <<calls, latest, dead, mine, landed, forgiven, again>>
vars == <<area, visit, here, server, news, made, cacheVars, formVars, callVars>>

Step(call) == The(call.by).does[call.n]
InFlight(i) == i \in DOMAIN calls /\ calls[i].at # "over"
Observed(name) == name \in DOMAIN latest /\ InFlight(latest[name])
SameForm(c, d) == c = d \/ (The(c).field = "text" /\ The(d).field = "text")
Pending(c) ==                                                         \* isPending
    \E d \in Controls : SameForm(c, d) /\ \E n \in DOMAIN The(d).does : Observed(The(d).does[n].name)
Over == [by |-> 1, n |-> 1, token |-> 1, visit |-> 1, at |-> "over", hasty |-> FALSE, base |-> {}]
Settled == here /\ fetch = "idle" /\ ~stale /\ \A i \in DOMAIN calls : ~InFlight(i)

TypeOK ==
    /\ area \in DOMAIN Areas /\ visit \in 1..MaxVisits /\ here \in BOOLEAN
    /\ loaded \in BOOLEAN /\ stale \in BOOLEAN /\ fetch \in {"idle", "asked", "read"}
    /\ data \subseteq Tokens /\ answer \subseteq Tokens
    /\ server \subseteq Tokens /\ mine \subseteq Tokens /\ made \in 0..MaxTokens
    /\ draft \in 0..made /\ typed \in 0..made /\ Len(calls) <= MaxCalls

Cooling(a) == {c \in DOMAIN Areas[a].controls : Areas[a].controls[c].waits}  \* from the start

Init ==
    /\ area \in DOMAIN Areas /\ visit = 1 /\ here = TRUE
    /\ loaded = FALSE /\ data = {} /\ stale = TRUE /\ fetch = "asked" /\ answer = {}
    /\ server = {} /\ news = FALSE /\ draft = 0 /\ typed = 0 /\ made = 0
    /\ calls = <<>> /\ latest = <<>> /\ dead = Cooling(area)
    /\ mine = {} /\ landed = [t \in Tokens |-> 0]
    /\ missed = {} /\ forgiven = {} /\ overtyped = FALSE /\ again = {}

----------------------------------------------------------------------------
(* The cache *)

(* What a refetch would be that does not drop the fetch under way. *)
FetchGoesOn(told, token) ==
    IF ~told THEN UNCHANGED cacheVars
    ELSE /\ stale' = TRUE /\ UNCHANGED <<loaded, data, answer>>
         /\ fetch' = IF here /\ fetch = "idle" THEN "asked" ELSE fetch
         /\ missed' = missed \cup (IF ~(here /\ loaded) /\ fetch = "read" THEN token \ answer ELSE {})

(* An invalidated query on display is fetched again, its fetch under way    *)
(* dropped; but a first load goes on, and one off display only goes stale.  *)
(* An answer that was read before the change then passes for a new one.     *)
Invalidated(told, token) ==
    IF ~told THEN UNCHANGED cacheVars
    ELSE LET restarts == here /\ (loaded \/ fetch = "idle") IN
         /\ stale' = TRUE /\ UNCHANGED <<loaded, data>>
         /\ IF restarts THEN fetch' = "asked" /\ answer' = {} ELSE UNCHANGED <<fetch, answer>>
         /\ missed' = missed \cup (IF ~restarts /\ fetch = "read" THEN token \ answer ELSE {})

(* setQueryData: the answer to the change replaces the data, whatever is    *)
(* newer, and whatever fetch is under way will replace it in turn.          *)
Replaced(snapshot, token) ==
    /\ loaded' = TRUE /\ data' = snapshot /\ stale' = FALSE /\ UNCHANGED <<fetch, answer>>
    /\ missed' = missed \cup (data \ snapshot)
                        \cup (IF fetch = "read" THEN token \ answer ELSE {})

Read ==                                       \* the server answers the query
    /\ fetch = "asked" /\ fetch' = "read" /\ answer' = server
    /\ UNCHANGED <<area, visit, here, server, news, made, loaded, data, stale, missed, formVars, callVars>>

Refills == Areas[area].screen.refills = query.key

Arrive ==
    /\ fetch = "read" /\ fetch' = "idle" /\ answer' = {}
    /\ loaded' = TRUE /\ data' = answer /\ stale' = FALSE
    /\ IF here /\ Refills /\ (~loaded \/ data # answer)
       THEN draft' = 0 /\ overtyped' = (typed # 0) /\ typed' = typed
       ELSE UNCHANGED formVars
    /\ UNCHANGED <<area, visit, here, server, news, made, missed, callVars>>

FetchFails ==                                 \* after its one retry
    /\ fetch # "idle" /\ fetch' = "idle" /\ answer' = {}
    /\ UNCHANGED <<area, visit, here, server, news, made, loaded, data, stale, missed, formVars, callVars>>

Grow ==                                       \* staleTime passes
    /\ loaded /\ ~stale /\ ~here /\ stale' = TRUE
    /\ UNCHANGED <<area, visit, here, server, news, made, loaded, data, fetch, answer, missed, formVars, callVars>>

Poll ==                                       \* refetchInterval
    /\ query.polls /\ here /\ fetch = "idle" /\ fetch' = "asked"
    /\ UNCHANGED <<area, visit, here, server, news, made, loaded, data, stale, answer, missed, formVars, callVars>>

Open ==
    /\ ~here /\ visit < MaxVisits /\ here' = TRUE /\ visit' = visit + 1
    /\ fetch' = IF fetch = "idle" /\ (~loaded \/ stale) THEN "asked" ELSE fetch
    /\ dead' = Cooling(area)
    /\ UNCHANGED <<area, server, news, made, loaded, data, stale, answer, missed, formVars,
                   calls, latest, mine, landed, forgiven, again>>

(* Component state and mutation observers go with the screen. *)
Gone == here' = FALSE /\ draft' = 0 /\ typed' = 0 /\ overtyped' = FALSE /\ latest' = <<>>

Leave ==
    /\ here /\ Gone
    /\ UNCHANGED <<area, visit, server, news, made, cacheVars,
                   calls, dead, mine, landed, forgiven, again>>

----------------------------------------------------------------------------
(* Controls *)
Type ==
    /\ here /\ made < MaxTokens /\ \E c \in Controls : The(c).field = "text"
    /\ made' = made + 1 /\ draft' = made' /\ typed' = made' /\ overtyped' = FALSE
    /\ UNCHANGED <<area, visit, here, server, news, cacheVars, callVars>>

Repeatable(c) ==            \* a form that keeps its text; the composer's Ctrl+Enter
    ~The(c).clears \/ (Pending(c) /\ The(c).does[1].name = "addTicketMessage")

Press(c) ==
    LET texted == The(c).field = "text"
        token == IF texted THEN draft ELSE made + 1
        whole == The(c).does[1].whole
        first == The(c).does[1].name
    IN
    /\ here /\ c \notin dead /\ (The(c).free \/ ~Pending(c))
    /\ token \in Tokens /\ Len(calls) < MaxCalls /\ (whole => loaded)
    /\ made' = IF texted THEN made ELSE token
    /\ calls' = Append(calls, [by |-> c, n |-> 1, token |-> token, visit |-> visit, at |-> "sent",
                               hasty |-> whole /\ ~Settled, base |-> IF whole THEN data ELSE {}])
    /\ latest' = [m \in DOMAIN latest \cup {first} |->
                     IF m = first THEN Len(calls') ELSE latest[m]]
    /\ again' = IF Repeatable(c) THEN again \cup {token} ELSE again
    /\ UNCHANGED <<area, visit, here, server, news, cacheVars, formVars,
                   dead, mine, landed, forgiven>>

Announced(change) == news \/ change.writes \cap {"ticket", "message"} # {}

(* The server takes the change in; its answer may still be lost. *)
Serve(i) ==
    LET call == calls[i]
        change == Step(call)
        after == IF ~Touches(change, query) THEN server
                 ELSE (IF change.whole THEN call.base ELSE server) \cup {call.token}
    IN
    /\ InFlight(i) /\ call.at = "sent" /\ server' = after
    /\ news' = Announced(change)
    /\ landed' = IF call.n = Len(The(call.by).does)
                 THEN [landed EXCEPT ![call.token] = @ + 1] ELSE landed
    /\ forgiven' = IF call.hasty \/ i < Len(calls) THEN forgiven \cup (server \ after) ELSE forgiven
    /\ \E at \in {"done", "failed"} :
          /\ calls' = [calls EXCEPT ![i].at = at, ![i].base = IF change.puts THEN after ELSE {}]
          /\ again' = IF at = "failed" THEN again \cup {call.token} ELSE again
    /\ UNCHANGED <<area, visit, here, made, cacheVars, formVars, latest, dead, mine>>

Refuse(i) ==                                  \* refused, or never got there
    /\ InFlight(i) /\ calls[i].at = "sent"
    /\ calls' = [calls EXCEPT ![i].at = "failed", ![i].base = {}]
    /\ UNCHANGED <<area, visit, here, server, news, made, cacheVars, formVars,
                   latest, dead, mine, landed, forgiven, again>>

(* onSuccess. The hook's part (the cache) always runs; the screen's part    *)
(* only for the last request of that hook, and only while it is on display. *)
Succeed(i) ==
    LET call == calls[i]
        change == Step(call)
        own == IF Touches(change, query) THEN {call.token} ELSE {}
        shown == here /\ call.visit = visit /\ change.name \in DOMAIN latest
                 /\ latest[change.name] = i
        by == The(call.by)
        last == call.n = Len(by.does)
        goes == last /\ by.leaves /\ (shown \/ by.awaits)
    IN
    /\ InFlight(i) /\ call.at = "done"
    /\ IF change.puts /\ Tells(change, query) THEN Replaced(call.base, own)
       ELSE Invalidated(Tells(change, query), own)
    /\ mine' = mine \cup own
    /\ calls' = IF last THEN [calls EXCEPT ![i] = Over]
                ELSE [calls EXCEPT ![i].at = "sent", ![i].n = call.n + 1]
    /\ dead' = IF last /\ shown /\ (by.spent \/ by.waits) THEN dead \cup {call.by}
               ELSE dead
    /\ IF goes THEN Gone
       ELSE /\ here' = here
            /\ latest' = IF last \/ ~shown THEN latest
                         ELSE [m \in DOMAIN latest \cup {by.does[call.n + 1].name} |->
                                 IF m = by.does[call.n + 1].name THEN i ELSE latest[m]]
            /\ typed' = IF last /\ typed = call.token THEN 0 ELSE typed
            /\ IF last /\ shown /\ by.clears
               THEN draft' = 0 /\ overtyped' = (overtyped \/ draft \notin {0, call.token})
               ELSE UNCHANGED <<draft, overtyped>>
    /\ UNCHANGED <<area, visit, server, news, made, landed, forgiven, again>>

(* onError tells the person; the field keeps what was typed. *)
FailedClears == draft' = 0 /\ UNCHANGED <<typed, overtyped>>
Failed == UNCHANGED formVars

Fail(i) ==
    LET call == calls[i]
        shown == here /\ call.visit = visit
    IN
    /\ InFlight(i) /\ call.at = "failed"
    /\ calls' = [calls EXCEPT ![i] = Over]
    /\ IF shown /\ The(call.by).always /\ The(call.by).leaves THEN Gone
       ELSE Failed /\ UNCHANGED <<here, latest>>
    /\ dead' = IF shown /\ The(call.by).always /\ The(call.by).spent THEN dead \cup {call.by} ELSE dead
    /\ UNCHANGED <<area, visit, server, news, made, cacheVars, mine, landed, forgiven, again>>

Cool ==                                       \* the minute before another code is over
    /\ \E c \in dead : The(c).waits
    /\ dead' = {c \in dead : ~The(c).waits}
    /\ UNCHANGED <<area, visit, here, server, news, made, cacheVars, formVars,
                   calls, latest, mine, landed, forgiven, again>>

----------------------------------------------------------------------------
(* The rest of the organisation, and its events on the socket *)
Elsewhere ==
    /\ made < MaxTokens /\ made' = made + 1 /\ server' = server \cup {made'}
    /\ news' = (news \/ query.reads \cap {"ticket", "message"} # {})
    /\ UNCHANGED <<area, visit, here, cacheVars, formVars, callVars>>

Pushed ==
    /\ news /\ news' = FALSE
    /\ Invalidated(Covers(<<"tickets">>, query.key), {})
    /\ UNCHANGED <<area, visit, here, server, made, formVars, callVars>>

NewsLost ==                                   \* not connected
    /\ news /\ news' = FALSE
    /\ UNCHANGED <<area, visit, here, server, made, cacheVars, formVars, callVars>>

Next ==
    \/ Read \/ Arrive \/ FetchFails \/ Grow \/ Poll \/ Open \/ Leave \/ Type
    \/ \E c \in Controls : Press(c)
    \/ \E i \in DOMAIN calls : Serve(i) \/ Refuse(i) \/ Succeed(i) \/ Fail(i)
    \/ Cool \/ Elsewhere \/ Pushed \/ NewsLost

Spec == Init /\ [][Next]_vars

----------------------------------------------------------------------------
(* Once everything is answered and the screen shows fresh data, it shows    *)
(* every change of the person's own that was accepted; and none of them is  *)
(* undone on the server by a control that sends a whole value, unless it    *)
(* was used before the screen had settled or again while its request was    *)
(* under way; but an answer read too early may pass for a newer one, and a  *)
(* change that was undone so may be put back by a form saved again.         *)
OwnChangesHold ==
    /\ mine \subseteq (server \cup forgiven \cup missed)
    /\ Settled /\ loaded => (mine \cap server) \subseteq (data \cup missed \cup forgiven)

(* What somebody typed and the server has not accepted is still in the      *)
(* field, whatever failed; except what was typed over a request under way   *)
(* and cleared by its success, or overwritten by the form's own data.       *)
TypedTextSurvives == here => (typed = 0 \/ draft = typed \/ overtyped)

(* One text is accepted once, unless its answer was lost or it was sent     *)
(* with Ctrl+Enter while it was already being sent, or saved again from a   *)
(* form that keeps what was typed.                                          *)
SentOnce == \A t \in Tokens : landed[t] > 1 => t \in again

(* What is typed is sent once and not lost.                                 *)
FormsHold == TypedTextSurvives /\ SentOnce
=============================================================================
