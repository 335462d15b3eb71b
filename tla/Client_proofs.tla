---------------------------- MODULE Client_proofs ----------------------------
(***************************************************************************)
(* Proofs about Client for any areas whose tables are as AreaHolds says,   *)
(* and any numbers of changes, requests and openings of the screen.        *)
(***************************************************************************)
EXTENDS Client, SequenceTheorems, TLAPS

-----------------------------------------------------------------------------
(* The inductive invariant *)

Call == [by : Nat, n : Nat, token : Tokens, visit : Nat,
         at : {"sent", "done", "failed", "over"}, hasty : BOOLEAN, base : SUBSET Tokens]

\* A request under way is at a change of a control of the area.
Placed(i) == calls[i].by \in Controls /\ calls[i].n \in DOMAIN The(calls[i].by).does

CallTypes == calls \in Seq(Call) /\ \A i \in DOMAIN calls : InFlight(i) => Placed(i)
ClientTypes ==
    /\ area \in DOMAIN Areas /\ visit \in Nat
    /\ made \in 0..MaxTokens /\ draft \in 0..made /\ typed \in 0..made
    /\ data \subseteq Tokens /\ answer \subseteq Tokens /\ server \subseteq Tokens
    /\ landed \in [Tokens -> Nat]
    /\ CallTypes

\* Tokens are new when they are used: what was sent or landed was made.
Past ==
    /\ mine \subseteq 1..made
    /\ \A i \in DOMAIN calls : InFlight(i) => calls[i].token <= made
    /\ \A t \in Tokens : landed[t] > 0 => t <= made

At(i) == Step(calls[i])
Own(i) == Touches(At(i), query)

\* The area answers with new data.
PutsHere ==
    \E c \in Controls : \E n \in DOMAIN The(c).does :
        The(c).does[n].puts /\ Tells(The(c).does[n], query)

\* What was accepted is on the server, unless it was undone or passed over.
MineKept == mine \subseteq (server \cup forgiven \cup missed)
DoneIsServed ==
    \A i \in DOMAIN calls :
        calls[i].at = "done" /\ Own(i) =>
            /\ calls[i].token \in server \cup forgiven
            /\ At(i).puts => calls[i].token \in calls[i].base

\* A whole value sent from a settled screen has all that was accepted, as long as nothing is sent after it.
WholeIsFresh ==
    \A i \in DOMAIN calls :
        calls[i].at = "sent" /\ At(i).whole /\ ~calls[i].hasty /\ i = Len(calls) =>
            /\ (mine \cap server) \subseteq (calls[i].base \cup missed \cup forgiven)
            /\ \A j \in DOMAIN calls : j # i => calls[j].at = "over"

\* An answer that was read has it too, and so has the data shown, unless it is known to be stale.
AnswerIsFresh == fetch = "read" => (mine \cap server) \subseteq (answer \cup missed \cup forgiven)
DataIsFresh ==
    (loaded /\ ~stale) \/ PutsHere => (mine \cap server) \subseteq (data \cup missed \cup forgiven)

ChangesInv == MineKept /\ DoneIsServed /\ WholeIsFresh /\ AnswerIsFresh /\ DataIsFresh

\* A request whose success its screen will see: its hook has sent none since.
Name(i) == At(i).name
Shown(i) == calls[i].visit = visit /\ Name(i) \in DOMAIN latest /\ latest[Name(i)] = i
OfForm(i) == The(calls[i].by).field = "text"
Clears(i) == The(calls[i].by).clears
AtLast(i) == calls[i].n = Len(The(calls[i].by).does)

\* It may still be taken in by the server as the last change of its control.
WillLand(i) ==
    calls[i].at = "sent" \/ (calls[i].at = "done" /\ calls[i].n < Len(The(calls[i].by).does))

\* What is in the field and was not sent twice.
Kept(t) == draft = t /\ t # 0 /\ t \notin again
SendsKept(i) == InFlight(i) /\ Kept(calls[i].token)

FieldInv == IF here THEN typed = 0 \/ draft = typed \/ overtyped ELSE typed = 0 /\ draft = 0

\* One request is to land a text that is not excused, and no other landed it.
LandsOnce ==
    \A t \in Tokens \ again :
        /\ landed[t] <= 1
        /\ \A i \in DOMAIN calls : WillLand(i) /\ calls[i].token = t =>
              /\ landed[t] = 0
              /\ \A j \in DOMAIN calls : WillLand(j) /\ calls[j].token = t => i = j

\* A request that an observer of one of its control's hooks follows.
Watched(i) ==
    \E n \in DOMAIN The(calls[i].by).does :
        LET name == The(calls[i].by).does[n].name IN name \in DOMAIN latest /\ latest[name] = i

\* A request with the text that is still in the field is its form's and is seen by the screen, so that
\* the form is disabled; if the text has landed it is about to be emptied.
FieldIsSent ==
    \A i \in DOMAIN calls : SendsKept(i) =>
        /\ OfForm(i) /\ Clears(i) /\ Shown(i)
        /\ \A j \in DOMAIN calls : InFlight(j) /\ OfForm(j) /\ Watched(j) => i = j
FieldIsDone ==
    \A t \in Tokens : Kept(t) /\ landed[t] > 0 =>
        \E i \in DOMAIN calls : calls[i].at = "done" /\ calls[i].token = t /\ AtLast(i)

SendsInv == FieldInv /\ LandsOnce /\ FieldIsSent /\ FieldIsDone

ClientInv == ClientTypes /\ Past /\ ChangesInv /\ SendsInv

-----------------------------------------------------------------------------
(* Requests *)

\* What the requests are, taken out of the types.
LEMMA CallFacts ==
    ASSUME ClientTypes
    PROVE  /\ Len(calls) \in Nat /\ DOMAIN calls = 1..Len(calls)
           /\ calls \in [DOMAIN calls -> Call]
           /\ \A i \in DOMAIN calls :
                 /\ calls[i] \in Call
                 /\ calls[i].by \in Nat /\ calls[i].n \in Nat /\ calls[i].token \in Tokens
                 /\ calls[i].at \in {"sent", "done", "failed", "over"} /\ calls[i].base \subseteq Tokens
  <1>1. calls \in Seq(Call)
    BY DEF ClientTypes, CallTypes
  <1>2. Len(calls) \in Nat /\ DOMAIN calls = 1..Len(calls) /\ calls \in [DOMAIN calls -> Call]
    BY <1>1, LenProperties
  <1>3. ASSUME NEW i \in DOMAIN calls PROVE calls[i] \in Call
    BY <1>1, <1>2, ElementOfSeq
  <1>4. QED
    BY <1>2, <1>3 DEF Call

\* One request moves, the others stay.
Others(i) == /\ calls' \in Seq(Call) /\ Len(calls') = Len(calls) /\ DOMAIN calls' = DOMAIN calls
             /\ \A j \in DOMAIN calls : j # i => calls'[j] = calls[j]

\* Writing one request leaves the others as they are.
LEMMA CallMoves ==
    ASSUME ClientTypes, NEW i \in DOMAIN calls, NEW x \in Call, calls' = [calls EXCEPT ![i] = x]
    PROVE  Others(i) /\ calls'[i] = x
  <1>1. calls \in Seq(Call) /\ DOMAIN calls = 1..Len(calls) /\ Len(calls) \in Nat
    BY CallFacts DEF ClientTypes, CallTypes
  <1>2. /\ calls' \in Seq(Call) /\ Len(calls') = Len(calls)
        /\ \A j \in 1..Len(calls) : calls'[j] = IF j = i THEN x ELSE calls[j]
    BY <1>1, ExceptSeq
  <1>3. DOMAIN calls' = 1..Len(calls')
    BY <1>2, LenProperties
  <1>4. QED
    BY <1>1, <1>2, <1>3 DEF Others

\* The area's tables are as assumed.
LEMMA AreaFacts ==
    ASSUME ClientTypes
    PROVE  /\ AreaHolds(Areas[area])
           /\ \A c \in Controls :
                 /\ c \in Nat
                 /\ The(c).does \in Seq(Changes(The(c))) /\ Len(The(c).does) \in Nat \ {0}
                 /\ DOMAIN The(c).does = 1..Len(The(c).does)
  <1>1. AreaHolds(Areas[area])
    BY AreasAssumption DEF ClientTypes
  <1>2. ASSUME NEW c \in Controls
        PROVE  c \in Nat /\ The(c).does \in Seq(Changes(The(c))) /\ The(c).does # <<>>
    BY <1>1, <1>2 DEF AreaHolds, Controls, The
  <1>3. ASSUME NEW c \in Controls
        PROVE  /\ Len(The(c).does) \in Nat \ {0}
               /\ DOMAIN The(c).does = 1..Len(The(c).does)
    <2>1. /\ The(c).does \in Seq(Changes(The(c))) /\ The(c).does # <<>>
      BY <1>2
    <2>2. Len(The(c).does) \in Nat /\ DOMAIN The(c).does = 1..Len(The(c).does)
      BY <2>1, LenProperties
    <2>3. Len(The(c).does) # 0
      BY <2>1, EmptySeq
    <2>4. QED
      BY <2>2, <2>3
  <1>4. QED
    BY <1>1, <1>2, <1>3

\* A new request: the change it starts with, and what it takes along.
LEMMA PressDoes ==
    ASSUME ClientTypes, NEW c \in Controls, Press(c)
    PROVE  LET N == Len(calls) + 1 IN
           /\ calls' \in Seq(Call) /\ Len(calls') = N /\ DOMAIN calls' = DOMAIN calls \cup {N}
           /\ N \in Nat /\ N \notin DOMAIN calls
           /\ \A j \in DOMAIN calls : calls'[j] = calls[j]
           /\ calls'[N].by = c /\ calls'[N].n = 1 /\ calls'[N].at = "sent" /\ calls'[N].visit = visit
           /\ calls'[N].token = IF The(c).field = "text" THEN draft ELSE made + 1
           /\ calls'[N].token \in Tokens
           /\ made' = IF The(c).field = "text" THEN made ELSE made + 1
           /\ The(c).does[1].whole => loaded /\ calls'[N].base = data
           /\ The(c).does[1].whole /\ ~calls'[N].hasty => Settled
  <1> DEFINE texted == The(c).field = "text"
             token == IF texted THEN draft ELSE made + 1
             whole == The(c).does[1].whole
             x == [by |-> c, n |-> 1, token |-> token, visit |-> visit, at |-> "sent",
                   hasty |-> whole /\ ~Settled, base |-> IF whole THEN data ELSE {}]
  <1>1. /\ token \in Tokens /\ calls' = Append(calls, x)
        /\ made' = (IF texted THEN made ELSE token) /\ (whole => loaded)
    BY DEF Press
  <1>2. c \in Nat /\ visit \in Nat /\ data \subseteq Tokens /\ calls \in Seq(Call)
    BY AreaFacts DEF ClientTypes, CallTypes
  <1>3. x \in Call
    BY <1>1, <1>2 DEF Call
  <1>4. /\ x.by = c /\ x.n = 1 /\ x.token = token /\ x.visit = visit /\ x.at = "sent"
        /\ x.hasty = (whole /\ ~Settled) /\ x.base = IF whole THEN data ELSE {}
    OBVIOUS
  <1> HIDE DEF x
  <1>5. /\ calls' \in Seq(Call) /\ Len(calls') = Len(calls) + 1
        /\ \A j \in 1..Len(calls) : calls'[j] = calls[j]
        /\ calls'[Len(calls) + 1] = x
    BY <1>1, <1>2, <1>3, AppendProperties
  <1>6. /\ Len(calls) \in Nat /\ DOMAIN calls = 1..Len(calls)
        /\ DOMAIN calls' = 1..(Len(calls) + 1)
    BY <1>2, <1>5, LenProperties
  <1>7. DOMAIN calls' = DOMAIN calls \cup {Len(calls) + 1} /\ Len(calls) + 1 \notin DOMAIN calls
    BY <1>6
  <1>8. /\ calls'[Len(calls) + 1].token = token
        /\ whole => loaded /\ calls'[Len(calls) + 1].base = data
        /\ whole /\ ~calls'[Len(calls) + 1].hasty => Settled
    BY <1>1, <1>4, <1>5
  <1>9. \A j \in DOMAIN calls : calls'[j] = calls[j]
    BY <1>5, <1>6
  <1> HIDE DEF whole
  <1>10. QED
    BY <1>1, <1>4, <1>5, <1>6, <1>7, <1>8, <1>9 DEF whole

\* What stays of a request that moves.
Same(i) == /\ calls'[i].by = calls[i].by /\ calls'[i].token = calls[i].token
           /\ calls'[i].visit = calls[i].visit /\ calls'[i].hasty = calls[i].hasty

\* The server's side of a change.
LEMMA ServeDoes ==
    ASSUME ClientTypes, NEW i \in DOMAIN calls, Serve(i)
    PROVE  /\ calls[i].at = "sent" /\ Others(i) /\ Same(i) /\ calls'[i].n = calls[i].n
           /\ calls'[i].at \in {"done", "failed"}
           /\ again' = IF calls'[i].at = "failed" THEN again \cup {calls[i].token} ELSE again
           /\ calls'[i].base = IF At(i).puts THEN server' ELSE {}
           /\ server' = IF ~Own(i) THEN server
                        ELSE (IF At(i).whole THEN calls[i].base ELSE server) \cup {calls[i].token}
           /\ server' \subseteq Tokens
           /\ forgiven' = IF calls[i].hasty \/ i < Len(calls)
                          THEN forgiven \cup (server \ server') ELSE forgiven
           /\ landed' = IF calls[i].n = Len(The(calls[i].by).does)
                        THEN [landed EXCEPT ![calls[i].token] = @ + 1] ELSE landed
  <1> DEFINE b == IF At(i).puts THEN server' ELSE {}
             after == IF ~Own(i) THEN server
                      ELSE (IF At(i).whole THEN calls[i].base ELSE server) \cup {calls[i].token}
             lands == calls[i].n = Len(The(calls[i].by).does)
  <1>1. /\ calls[i] \in Call /\ calls[i].token \in Tokens /\ calls[i].base \subseteq Tokens
        /\ server \subseteq Tokens
    BY CallFacts DEF ClientTypes, CallTypes
  <1>2. PICK at \in {"done", "failed"} :
           /\ calls' = [calls EXCEPT ![i].at = at, ![i].base = b]
           /\ again' = IF at = "failed" THEN again \cup {calls[i].token} ELSE again
    BY Zenon DEF Serve, At, Own
  <1>3. /\ calls[i].at = "sent" /\ server' = after
        /\ forgiven' = (IF calls[i].hasty \/ i < Len(calls) THEN forgiven \cup (server \ after) ELSE forgiven)
        /\ landed' = IF lands THEN [landed EXCEPT ![calls[i].token] = @ + 1] ELSE landed
    BY Zenon DEF Serve, At, Own
  <1>4. after \subseteq Tokens
    BY <1>1
  <1> HIDE DEF after, lands
  <1>5. b \subseteq Tokens
    BY <1>3, <1>4
  <1> HIDE DEF b
  <1> DEFINE x == [calls[i] EXCEPT !.at = at, !.base = b]
  <1>6. /\ x \in Call /\ x.at = at /\ x.base = b /\ x.by = calls[i].by /\ x.n = calls[i].n
        /\ x.token = calls[i].token /\ x.visit = calls[i].visit /\ x.hasty = calls[i].hasty
    BY <1>1, <1>5 DEF Call
  <1>7. calls' = [calls EXCEPT ![i] = x]
    <2>1. calls \in [DOMAIN calls -> Call]
      BY CallFacts
    <2>2. QED
      BY <1>1, <1>2, <2>1
  <1> HIDE DEF x
  <1>8. Others(i) /\ calls'[i] = x
    BY <1>6, <1>7, CallMoves
  <1>9. QED
    BY <1>2, <1>3, <1>4, <1>6, <1>8 DEF Same, after, b, lands

\* A refusal.
LEMMA RefuseDoes ==
    ASSUME ClientTypes, NEW i \in DOMAIN calls, Refuse(i)
    PROVE  /\ calls[i].at = "sent" /\ Others(i) /\ Same(i) /\ calls'[i].n = calls[i].n
           /\ calls'[i].at = "failed"
  <1> DEFINE x == [calls[i] EXCEPT !.at = "failed", !.base = {}]
  <1>1. calls[i] \in Call
    BY CallFacts
  <1>2. /\ x \in Call /\ x.at = "failed" /\ x.by = calls[i].by /\ x.n = calls[i].n
        /\ x.token = calls[i].token /\ x.visit = calls[i].visit /\ x.hasty = calls[i].hasty
    BY <1>1 DEF Call
  <1>3. calls' = [calls EXCEPT ![i] = x] /\ calls[i].at = "sent"
    <2>1. calls \in [DOMAIN calls -> Call]
      BY CallFacts
    <2>2. calls' = [calls EXCEPT ![i].at = "failed", ![i].base = {}] /\ calls[i].at = "sent"
      BY DEF Refuse
    <2>3. QED
      BY <1>1, <2>1, <2>2
  <1> HIDE DEF x
  <1>4. QED
    BY <1>2, <1>3, CallMoves DEF Same

\* A request that is over is nobody's.
LEMMA OverIsCall == ASSUME MaxTokens \in Nat, NEW t \in Tokens PROVE Over \in Call /\ Over.at = "over"
  BY DEF Over, Call, Tokens

\* A request's success: it is over, or goes on to the next change.
LEMMA SucceedDoes ==
    ASSUME ClientTypes, NEW i \in DOMAIN calls, Succeed(i)
    PROVE  LET last == calls[i].n = Len(The(calls[i].by).does) IN
           /\ calls[i].at = "done" /\ Others(i)
           /\ IF last THEN calls'[i].at = "over"
              ELSE calls'[i].at = "sent" /\ calls'[i].n = calls[i].n + 1 /\ Same(i)
                   /\ calls'[i].base = calls[i].base
  <1> DEFINE last == calls[i].n = Len(The(calls[i].by).does)
             x == IF last THEN Over ELSE [calls[i] EXCEPT !.at = "sent", !.n = calls[i].n + 1]
  <1>1. calls[i] \in Call /\ calls[i].n \in Nat /\ calls[i].token \in Tokens
    BY CallFacts
  <1>2. CASE last
    <2>1. calls' = [calls EXCEPT ![i] = Over] /\ calls[i].at = "done"
      BY <1>2 DEF Succeed
    <2>2. Over \in Call /\ Over.at = "over"
      BY <1>1, OverIsCall, AreasAssumption
    <2>3. Others(i) /\ calls'[i] = Over
      BY <2>1, <2>2, CallMoves
    <2>4. QED
      BY <1>2, <2>1, <2>2, <2>3
  <1>3. CASE ~last
    <2> DEFINE m == calls[i].n + 1
    <2>0. m \in Nat
      BY <1>1
    <2> DEFINE y == [calls[i] EXCEPT !.at = "sent", !.n = m]
    <2>1. /\ y \in Call /\ y.at = "sent" /\ y.by = calls[i].by /\ y.n = m
          /\ y.token = calls[i].token /\ y.visit = calls[i].visit /\ y.hasty = calls[i].hasty
          /\ y.base = calls[i].base
      BY <1>1, <2>0 DEF Call
    <2>2. calls' = [calls EXCEPT ![i].at = "sent", ![i].n = m] /\ calls[i].at = "done"
      BY <1>3 DEF Succeed
    <2> HIDE DEF m
    <2>3. calls' = [calls EXCEPT ![i] = y]
      <3>1. calls \in [DOMAIN calls -> Call]
        BY CallFacts
      <3>2. QED
        BY <1>1, <2>2, <3>1
    <2> HIDE DEF y
    <2>4. Others(i) /\ calls'[i] = y
      BY <2>1, <2>3, CallMoves
    <2>5. QED
      BY <1>3, <2>1, <2>2, <2>4 DEF Same, m
  <1>4. QED
    BY <1>2, <1>3

\* A request's failure is told.
LEMMA FailDoes ==
    ASSUME ClientTypes, NEW i \in DOMAIN calls, Fail(i)
    PROVE  calls[i].at = "failed" /\ Others(i) /\ calls'[i].at = "over"
  <1>1. calls' = [calls EXCEPT ![i] = Over] /\ calls[i].at = "failed" /\ calls[i].token \in Tokens
    BY CallFacts DEF Fail
  <1>2. Over \in Call /\ Over.at = "over"
    BY <1>1, OverIsCall, AreasAssumption
  <1>3. QED
    BY <1>1, <1>2, CallMoves

-----------------------------------------------------------------------------
(* Type correctness *)

\* One request moved, and is at a change of its control or over.
LEMMA CallTypesMove ==
    ASSUME ClientTypes, area' = area, NEW i \in DOMAIN calls, Others(i),
           \/ calls'[i].at = "over"
           \/ Same(i) /\ calls'[i].n \in DOMAIN The(calls[i].by).does /\ InFlight(i)
    PROVE  CallTypes'
  <1>1. \A j \in DOMAIN calls : InFlight(j) => Placed(j)
    BY DEF ClientTypes, CallTypes
  <1>2. calls' \in Seq(Call) /\ DOMAIN calls' = DOMAIN calls
    BY DEF Others
  <1>3. ASSUME NEW j \in DOMAIN calls, InFlight(j)' PROVE Placed(j)'
    <2>1. CASE j = i
      BY <1>1, <1>3, <2>1 DEF InFlight, Placed, Same, Controls, The
    <2>2. CASE j # i
      <3>1. calls'[j] = calls[j] /\ InFlight(j)
        BY <1>3, <2>2 DEF Others, InFlight
      <3>2. QED
        BY <1>1, <3>1 DEF Placed, Controls, The
    <2>3. QED
      BY <2>1, <2>2
  <1>4. QED
    BY <1>2, <1>3 DEF CallTypes

\* What the cache's functions write is made of what was there.
LEMMA CacheTypes ==
    ASSUME ClientTypes, NEW told, NEW token, NEW snapshot \in SUBSET Tokens
    PROVE  /\ Invalidated(told, token) => data' \subseteq Tokens /\ answer' \subseteq Tokens
           /\ Replaced(snapshot, token) => data' \subseteq Tokens /\ answer' \subseteq Tokens
  BY DEF Invalidated, Replaced, ClientTypes, cacheVars

\* Every action keeps the types.
LEMMA TypesNext == ClientTypes /\ [Next]_vars => ClientTypes'
  <1> SUFFICES ASSUME ClientTypes, [Next]_vars PROVE ClientTypes'
    OBVIOUS
  <1> USE DEF cacheVars, formVars, callVars
  <1>0. /\ MaxTokens \in Nat /\ made \in 0..MaxTokens /\ CallTypes /\ area \in DOMAIN Areas
        /\ visit \in Nat /\ draft \in 0..made /\ typed \in 0..made /\ landed \in [Tokens -> Nat]
        /\ data \subseteq Tokens /\ answer \subseteq Tokens /\ server \subseteq Tokens
    BY AreasAssumption DEF ClientTypes
  <1>1. area' = area
    BY Zenon
       DEF Next, Read, Arrive, FetchFails, Grow, Poll, Open, Leave, Type, Press, Serve, Refuse,
           Succeed, Fail, Cool, Elsewhere, Pushed, NewsLost, vars
  <1>2. UNCHANGED calls => CallTypes'
    BY <1>0, <1>1 DEF CallTypes, InFlight, Placed, Controls, The
  <1>3. CASE \/ Read \/ Arrive \/ FetchFails \/ Grow \/ Poll \/ Open \/ Leave \/ Cool \/ Pushed \/ NewsLost
             \/ UNCHANGED vars
    <2>1. UNCHANGED <<calls, server, made, landed>>
      BY <1>3 DEF Read, Arrive, FetchFails, Grow, Poll, Open, Leave, Cool, Pushed, NewsLost, vars
    <2>2. visit' \in Nat
      BY <1>0, <1>3 DEF Read, Arrive, FetchFails, Grow, Poll, Open, Leave, Cool, Pushed, NewsLost, vars
    <2>3. draft' \in 0..made /\ typed' \in 0..made
      BY <1>0, <1>3 DEF Read, Arrive, FetchFails, Grow, Poll, Open, Leave, Gone, Cool, Pushed, NewsLost, vars
    <2>4. data' \subseteq Tokens /\ answer' \subseteq Tokens
      <3>1. CASE Pushed
        BY <1>0, <3>1, CacheTypes DEF Pushed
      <3>2. CASE ~Pushed
        BY <1>0, <1>3, <3>2 DEF Read, Arrive, FetchFails, Grow, Poll, Open, Leave, Cool, NewsLost, vars
      <3>3. QED
        BY <3>1, <3>2
    <2>5. QED
      BY <1>0, <1>1, <1>2, <2>1, <2>2, <2>3, <2>4 DEF ClientTypes
  <1>4. CASE Type
    <2>1. /\ made' \in 0..MaxTokens /\ draft' = made' /\ typed' = made'
          /\ UNCHANGED <<calls, server, landed, data, answer, visit>>
      BY <1>0, <1>4 DEF Type
    <2>2. QED
      BY <1>0, <1>1, <1>2, <2>1 DEF ClientTypes
  <1>5. CASE Elsewhere
    <2>1. /\ made' = made + 1 /\ made' \in 0..MaxTokens /\ server' = server \cup {made'} /\ made' \in Tokens
          /\ UNCHANGED <<calls, landed, data, answer, visit, draft, typed>>
      BY <1>0, <1>5 DEF Elsewhere, Tokens
    <2>2. draft \in 0..made' /\ typed \in 0..made'
      BY <1>0, <2>1
    <2>3. QED
      BY <1>0, <1>1, <1>2, <2>1, <2>2 DEF ClientTypes
  <1>6. ASSUME NEW c \in Controls, Press(c) PROVE ClientTypes'
    <2>1. UNCHANGED <<server, landed, data, answer, visit, draft, typed>>
      BY <1>6 DEF Press
    <2>2. made' \in 0..MaxTokens /\ made' >= made
      BY <1>0, <1>6, PressDoes DEF Tokens
    <2>3. draft \in 0..made' /\ typed \in 0..made'
      BY <1>0, <2>2
    <2>4. CallTypes'
      <3>1. calls' \in Seq(Call)
        BY <1>6, PressDoes
      <3>2. ASSUME NEW j \in DOMAIN calls', InFlight(j)' PROVE Placed(j)'
        <4>1. CASE j \in DOMAIN calls
          <5>1. calls'[j] = calls[j] /\ InFlight(j)
            BY <1>6, <3>2, <4>1, PressDoes DEF InFlight
          <5>2. QED
            BY <1>0, <1>1, <4>1, <5>1 DEF CallTypes, Placed, Controls, The
        <4>2. CASE j = Len(calls) + 1
          <5>1. calls'[j].by = c /\ calls'[j].n = 1
            BY <1>6, <4>2, PressDoes
          <5>2. 1 \in DOMAIN The(c).does
            BY AreaFacts
          <5>3. QED
            BY <1>1, <5>1, <5>2 DEF Placed, Controls, The
        <4>3. QED
          BY <1>6, <3>2, <4>1, <4>2, PressDoes
      <3>3. QED
        BY <3>1, <3>2 DEF CallTypes
    <2>5. QED
      BY <1>0, <1>1, <2>1, <2>2, <2>3, <2>4 DEF ClientTypes
  <1>7. ASSUME NEW i \in DOMAIN calls, Serve(i) PROVE ClientTypes'
    <2>1. UNCHANGED <<made, data, answer, visit, draft, typed>> /\ InFlight(i) /\ server' \subseteq Tokens
      <3>1. UNCHANGED <<made, data, answer, visit, draft, typed>> /\ InFlight(i)
        BY <1>7, Zenon DEF Serve
      <3>2. server' \subseteq Tokens
        BY <1>7, ServeDoes
      <3>3. QED
        BY <3>1, <3>2
    <2>2. Placed(i)
      BY <1>0, <2>1 DEF CallTypes
    <2>3. CallTypes'
      BY <1>1, <1>7, <2>1, <2>2, ServeDoes, CallTypesMove DEF Placed
    <2>4. landed' \in [Tokens -> Nat]
      <3>1. calls[i].token \in Tokens
        BY CallFacts
      <3>2. landed' = [landed EXCEPT ![calls[i].token] = @ + 1] \/ landed' = landed
        BY <1>7, ServeDoes
      <3>3. QED
        BY <1>0, <3>1, <3>2
    <2>5. QED
      BY <1>0, <1>1, <2>1, <2>3, <2>4 DEF ClientTypes
  <1>8. ASSUME NEW i \in DOMAIN calls, Refuse(i) PROVE ClientTypes'
    <2>1. UNCHANGED <<made, data, answer, server, landed, visit, draft, typed>> /\ InFlight(i)
      BY <1>8 DEF Refuse
    <2>2. Placed(i)
      BY <1>0, <2>1 DEF CallTypes
    <2>3. CallTypes'
      BY <1>1, <1>8, <2>1, <2>2, RefuseDoes, CallTypesMove DEF Placed
    <2>4. QED
      BY <1>0, <1>1, <2>1, <2>3 DEF ClientTypes
  <1>9. ASSUME NEW i \in DOMAIN calls, Succeed(i) PROVE ClientTypes'
    <2>1. UNCHANGED <<made, server, landed, visit>> /\ InFlight(i)
      BY <1>9 DEF Succeed
    <2>2. draft' \in {0, draft} /\ typed' \in {0, typed}
      BY <1>9 DEF Succeed, Gone
    <2>3. data' \subseteq Tokens /\ answer' \subseteq Tokens
      <3>1. calls[i].base \subseteq Tokens
        BY CallFacts
      <3>2. PICK told, own : Replaced(calls[i].base, own) \/ Invalidated(told, own)
        BY <1>9, Zenon DEF Succeed
      <3>3. QED
        BY <3>1, <3>2, CacheTypes
    <2>4. CallTypes'
      <3>1. Placed(i)
        BY <1>0, <2>1 DEF CallTypes
      <3>2. calls[i].n \in 1..Len(The(calls[i].by).does) /\ Len(The(calls[i].by).does) \in Nat
        BY <3>1, AreaFacts DEF Placed
      <3>3. calls[i].n # Len(The(calls[i].by).does) => calls[i].n + 1 \in DOMAIN The(calls[i].by).does
        BY <3>1, <3>2, AreaFacts DEF Placed
      <3>4. QED
        BY <1>1, <1>9, <2>1, <3>3, SucceedDoes, CallTypesMove
    <2>5. draft' \in 0..made /\ typed' \in 0..made
      BY <1>0, <2>2
    <2>6. QED
      BY <1>0, <1>1, <2>1, <2>3, <2>4, <2>5 DEF ClientTypes
  <1>10. ASSUME NEW i \in DOMAIN calls, Fail(i) PROVE ClientTypes'
    <2>1. UNCHANGED <<made, data, answer, server, landed, visit>>
      BY <1>10 DEF Fail
    <2>2. draft' \in {0, draft} /\ typed' \in {0, typed}
      BY <1>10 DEF Fail, Gone, Failed
    <2>3. CallTypes'
      BY <1>1, <1>10, FailDoes, CallTypesMove
    <2>4. draft' \in 0..made /\ typed' \in 0..made
      BY <1>0, <2>2
    <2>5. QED
      BY <1>0, <1>1, <2>1, <2>3, <2>4 DEF ClientTypes
  <1>11. QED
    BY <1>3, <1>4, <1>5, <1>6, <1>7, <1>8, <1>9, <1>10 DEF Next

-----------------------------------------------------------------------------
(* Changes that were accepted *)

\* What the data have is all that was accepted but for the known losses.
Has(have) == (mine \cap server) \subseteq (have \cup missed \cup forgiven)

\* Nothing is lost where the server and the accepted changes are as before, and no request is served.
LEMMA ChangesFrame ==
    ASSUME ClientTypes, ChangesInv, area' = area, UNCHANGED <<server, mine, missed, forgiven, data>>,
           loaded' /\ ~stale' => loaded /\ ~stale,
           fetch' = "read" => fetch = "read" /\ answer' = answer,
           DOMAIN calls' = DOMAIN calls, Len(calls') = Len(calls),
           \A i \in DOMAIN calls :
              \/ calls'[i] = calls[i]
              \/ calls[i].at # "over" /\ calls'[i].at \in {"failed", "over"}
              \/ calls[i].at = "over" /\ calls'[i].at = "over"
    PROVE  ChangesInv'
  <1>0. MineKept /\ DoneIsServed /\ WholeIsFresh /\ AnswerIsFresh /\ DataIsFresh
    BY DEF ChangesInv
  <1>1. MineKept'
    BY <1>0 DEF MineKept
  <1>2. DoneIsServed'
    <2> SUFFICES ASSUME NEW i \in DOMAIN calls, calls'[i].at = "done", Own(i)'
                 PROVE  /\ calls'[i].token \in server \cup forgiven
                        /\ At(i)'.puts => calls'[i].token \in calls'[i].base
      BY DEF DoneIsServed
    <2>1. calls'[i] = calls[i]
      OBVIOUS
    <2>2. Own(i) /\ At(i)' = At(i)
      BY <2>1 DEF Own, At, Step, The, query
    <2>3. QED
      BY <1>0, <2>1, <2>2 DEF DoneIsServed
  <1>3. WholeIsFresh'
    <2> SUFFICES ASSUME NEW i \in DOMAIN calls, calls'[i].at = "sent", At(i)'.whole, ~calls'[i].hasty,
                        i = Len(calls)
                 PROVE  /\ (mine \cap server) \subseteq (calls'[i].base \cup missed \cup forgiven)
                        /\ \A j \in DOMAIN calls : j # i => calls'[j].at = "over"
      BY DEF WholeIsFresh
    <2>1. calls'[i] = calls[i]
      OBVIOUS
    <2>2. At(i)' = At(i)
      BY <2>1 DEF At, Step, The
    <2>3. QED
      BY <1>0, <2>1, <2>2 DEF WholeIsFresh
  <1>4. AnswerIsFresh'
    BY <1>0 DEF AnswerIsFresh
  <1>5. DataIsFresh'
    BY <1>0 DEF DataIsFresh, PutsHere, Controls, The, query
  <1>6. QED
    BY <1>1, <1>2, <1>3, <1>4, <1>5 DEF ChangesInv

\* Whether the area answers with new data does not change.
LEMMA PutsStays == area' = area => (PutsHere' <=> PutsHere)
  BY DEF PutsHere, Controls, The, query

\* A change that reaches the query tells its key, and answers with new data where any does.
LEMMA ReachingTells ==
    ASSUME ClientTypes, NEW c \in Controls, NEW n \in DOMAIN The(c).does
    PROVE  /\ Touches(The(c).does[n], query) => Tells(The(c).does[n], query) /\ (PutsHere => The(c).does[n].puts)
           /\ The(c).does[n].puts /\ Tells(The(c).does[n], query) => PutsHere
           /\ The(c).does[n].whole => Len(The(c).does) = 1
  <1> DEFINE a == Areas[area]
             Sent == UNION {Changes(a.controls[d]) : d \in DOMAIN a.controls}
             Putters == {change \in Sent : change.puts /\ Tells(change, a.query)}
  <1>1. /\ \A change \in Sent : Touches(change, a.query)
              => Tells(change, a.query) /\ (Putters # {} => change.puts)
        /\ \A d \in DOMAIN a.controls : (\E change \in Changes(a.controls[d]) : change.whole)
              => Len(a.controls[d].does) = 1
    BY AreaFacts DEF AreaHolds
  <1>2. \A d \in Controls : \A k \in DOMAIN The(d).does :
            The(d).does[k] \in Sent /\ The(d).does[k] \in Changes(The(d))
    BY DEF Controls, The, Changes
  <1>3. PutsHere => Putters # {}
    <2> SUFFICES ASSUME PutsHere PROVE Putters # {}
      OBVIOUS
    <2>1. PICK d \in Controls : \E k \in DOMAIN The(d).does :
              The(d).does[k].puts /\ Tells(The(d).does[k], query)
      BY DEF PutsHere
    <2>2. PICK k \in DOMAIN The(d).does : The(d).does[k].puts /\ Tells(The(d).does[k], query)
      BY <2>1
    <2>3. The(d).does[k] \in Putters
      BY <1>2, <2>2 DEF query
    <2>4. QED
      BY <2>3
  <1>4. The(c).does[n] \in Sent /\ The(c).does[n] \in Changes(The(c))
    BY <1>2
  <1>5. Touches(The(c).does[n], query) => Tells(The(c).does[n], query) /\ (PutsHere => The(c).does[n].puts)
    BY <1>1, <1>3, <1>4 DEF query
  <1>6. The(c).does[n].whole => Len(The(c).does) = 1
    BY <1>1, <1>4 DEF The, Controls
  <1>7. The(c).does[n].puts /\ Tells(The(c).does[n], query) => PutsHere
    BY DEF PutsHere
  <1>8. QED
    BY <1>5, <1>6, <1>7

\* Nothing is lost when the server only gains what the person did not send.
LEMMA ChangesStay ==
    ASSUME ChangesInv, UNCHANGED <<area, calls, mine, forgiven>>,
           server \subseteq server', missed \subseteq missed', (mine \cap server') \subseteq server
    PROVE  MineKept' /\ DoneIsServed' /\ WholeIsFresh'
  <1>0. MineKept /\ DoneIsServed /\ WholeIsFresh
    BY DEF ChangesInv
  <1>1. \A i \in DOMAIN calls : calls'[i] = calls[i] /\ At(i)' = At(i) /\ (Own(i)' <=> Own(i))
    BY DEF At, Own, Step, The, query
  <1>2. MineKept'
    BY <1>0 DEF MineKept
  <1>3. DoneIsServed'
    BY <1>0, <1>1 DEF DoneIsServed
  <1>4. WholeIsFresh'
    BY <1>0, <1>1 DEF WholeIsFresh
  <1>5. QED
    BY <1>2, <1>3, <1>4

\* Out-of-date data is not trusted, and an answer on its way is dropped or known to lack the change.
LEMMA InvalidatedKeeps ==
    ASSUME ChangesInv, NEW told \in BOOLEAN, NEW own, Invalidated(told, own),
           UNCHANGED <<area, server, forgiven>>, mine' = mine \cup own, own # {} => told /\ ~PutsHere
    PROVE  AnswerIsFresh' /\ DataIsFresh' /\ missed \subseteq missed'
  <1>0. AnswerIsFresh /\ DataIsFresh /\ (PutsHere' <=> PutsHere)
    BY PutsStays DEF ChangesInv
  <1>1. CASE ~told
    <2>1. UNCHANGED <<loaded, data, stale, fetch, answer, missed>> /\ own = {}
      BY <1>1 DEF Invalidated, cacheVars
    <2>2. QED
      BY <1>0, <2>1 DEF AnswerIsFresh, DataIsFresh
  <1>2. CASE told
    <2>1. /\ stale' = TRUE /\ data' = data
          /\ \/ fetch' = "asked" /\ missed' = missed
             \/ /\ fetch' = fetch /\ answer' = answer
                /\ missed' = missed \cup (IF fetch = "read" THEN own \ answer ELSE {})
      <3>1. /\ stale' = TRUE /\ data' = data
        BY <1>2 DEF Invalidated
      <3>2. CASE here /\ (loaded \/ fetch = "idle")
        BY <1>2, <3>1, <3>2 DEF Invalidated
      <3>3. CASE ~(here /\ (loaded \/ fetch = "idle"))
        BY <1>2, <3>1, <3>3 DEF Invalidated
      <3>4. QED
        BY <3>2, <3>3
    <2>2. AnswerIsFresh'
      BY <1>0, <2>1 DEF AnswerIsFresh
    <2>3. DataIsFresh'
      BY <1>0, <2>1 DEF DataIsFresh
    <2>4. QED
      BY <2>1, <2>2, <2>3
  <1>3. QED
    BY <1>1, <1>2

\* New data put in place has the change, and what it lacks is known to be passed over.
LEMMA ReplacedKeeps ==
    ASSUME ChangesInv, NEW snapshot, NEW own, own \subseteq snapshot, Replaced(snapshot, own), PutsHere,
           UNCHANGED <<area, server, forgiven>>, mine' = mine \cup own
    PROVE  AnswerIsFresh' /\ DataIsFresh' /\ missed \subseteq missed'
  <1>0. AnswerIsFresh /\ (mine \cap server) \subseteq (data \cup missed \cup forgiven)
    BY DEF ChangesInv, DataIsFresh
  <1>1. /\ data' = snapshot /\ fetch' = fetch /\ answer' = answer
        /\ missed' = missed \cup (data \ snapshot) \cup (IF fetch = "read" THEN own \ answer ELSE {})
    BY DEF Replaced
  <1>2. AnswerIsFresh'
    BY <1>0, <1>1 DEF AnswerIsFresh
  <1>3. DataIsFresh'
    BY <1>0, <1>1 DEF DataIsFresh
  <1>4. QED
    BY <1>1, <1>2, <1>3

\* A change served: what it undoes is excused, and it undoes nothing that a settled screen showed.
LEMMA ServeKeeps ==
    ASSUME ClientTypes, ChangesInv, area' = area, NEW i \in DOMAIN calls, Serve(i)
    PROVE  ChangesInv'
  <1>0. MineKept /\ DoneIsServed /\ WholeIsFresh /\ AnswerIsFresh /\ DataIsFresh
    BY DEF ChangesInv
  <1>1. /\ UNCHANGED <<loaded, data, stale, fetch, answer, missed, mine>> /\ Others(i) /\ Same(i)
        /\ calls[i].at = "sent" /\ calls'[i].at \in {"done", "failed"} /\ calls'[i].n = calls[i].n
        /\ calls'[i].base = IF At(i).puts THEN server' ELSE {}
        /\ server' = IF ~Own(i) THEN server
                     ELSE (IF At(i).whole THEN calls[i].base ELSE server) \cup {calls[i].token}
        /\ forgiven' = IF calls[i].hasty \/ i < Len(calls)
                       THEN forgiven \cup (server \ server') ELSE forgiven
    <2>1. UNCHANGED <<loaded, data, stale, fetch, answer, missed, mine>>
      BY Zenon DEF Serve, cacheVars
    <2>2. QED
      BY <2>1, ServeDoes
  <1>2. forgiven \subseteq forgiven' /\ DOMAIN calls = 1..Len(calls) /\ Len(calls) \in Nat
    BY <1>1, CallFacts
  <1>3. At(i)' = At(i) /\ (Own(i)' <=> Own(i))
    BY <1>1 DEF At, Own, Step, The, query, Same
  <1>4. \A j \in DOMAIN calls : j # i =>
            calls'[j] = calls[j] /\ At(j)' = At(j) /\ (Own(j)' <=> Own(j))
    BY <1>1 DEF At, Own, Step, The, query, Others
  <1>5. CASE server \subseteq server'
    <2>1. (mine \cap server') \subseteq ((mine \cap server) \cup missed \cup forgiven)
      BY <1>0 DEF MineKept
    <2>2. MineKept'
      BY <1>0, <1>1, <1>2, <1>5 DEF MineKept
    <2>3. DoneIsServed'
      <3> SUFFICES ASSUME NEW j \in DOMAIN calls, calls'[j].at = "done", Own(j)'
                   PROVE  /\ calls'[j].token \in server' \cup forgiven'
                          /\ At(j)'.puts => calls'[j].token \in calls'[j].base
        BY <1>1 DEF DoneIsServed, Others
      <3>1. CASE j = i
        BY <1>1, <1>3, <3>1 DEF Same
      <3>2. CASE j # i
        BY <1>0, <1>2, <1>4, <1>5, <3>2 DEF DoneIsServed
      <3>3. QED
        BY <3>1, <3>2
    <2>4. WholeIsFresh'
      <3> SUFFICES ASSUME NEW j \in DOMAIN calls, calls'[j].at = "sent", At(j)'.whole, ~calls'[j].hasty,
                          j = Len(calls)
                   PROVE  FALSE
        BY <1>1 DEF WholeIsFresh, Others
      <3>1. j # i /\ calls'[j] = calls[j] /\ At(j).whole
        BY <1>1, <1>4
      <3>2. QED
        BY <1>0, <1>1, <3>1 DEF WholeIsFresh
    <2>5. AnswerIsFresh' /\ DataIsFresh'
      BY <1>0, <1>1, <1>2, <2>1, PutsStays DEF AnswerIsFresh, DataIsFresh
    <2>6. QED
      BY <2>2, <2>3, <2>4, <2>5 DEF ChangesInv
  <1>6. CASE ~(server \subseteq server')
    <2>1. Own(i) /\ At(i).whole /\ server' = calls[i].base \cup {calls[i].token}
      BY <1>1, <1>6
    <2>2. (mine \cap server') \subseteq ((mine \cap server) \cup missed \cup forgiven)
      BY <1>0 DEF MineKept
    <2>3. \/ forgiven' = forgiven \cup (server \ server')
          \/ /\ (mine \cap server) \subseteq (server' \cup missed \cup forgiven)
             /\ \A j \in DOMAIN calls : j # i => calls[j].at = "over"
      <3>1. CASE calls[i].hasty \/ i < Len(calls)
        BY <1>1, <3>1
      <3>2. CASE ~calls[i].hasty /\ i = Len(calls)
        BY <1>0, <1>1, <2>1, <3>2 DEF WholeIsFresh
      <3>3. QED
        BY <1>2, <3>1, <3>2
    <2>4. MineKept'
      BY <1>0, <1>1, <1>2, <2>3 DEF MineKept
    <2>5. DoneIsServed'
      <3> SUFFICES ASSUME NEW j \in DOMAIN calls, calls'[j].at = "done", Own(j)'
                   PROVE  /\ calls'[j].token \in server' \cup forgiven'
                          /\ At(j)'.puts => calls'[j].token \in calls'[j].base
        BY <1>1 DEF DoneIsServed, Others
      <3>1. CASE j = i
        BY <1>1, <1>3, <2>1, <3>1 DEF Same
      <3>2. CASE j # i
        BY <1>0, <1>2, <1>4, <2>3, <3>2 DEF DoneIsServed
      <3>3. QED
        BY <3>1, <3>2
    <2>6. WholeIsFresh'
      <3> SUFFICES ASSUME NEW j \in DOMAIN calls, calls'[j].at = "sent", At(j)'.whole, ~calls'[j].hasty,
                          j = Len(calls)
                   PROVE  FALSE
        BY <1>1 DEF WholeIsFresh, Others
      <3>1. j # i /\ calls'[j] = calls[j] /\ At(j).whole
        BY <1>1, <1>4
      <3>2. QED
        BY <1>0, <1>1, <3>1 DEF WholeIsFresh
    <2>7. AnswerIsFresh' /\ DataIsFresh'
      BY <1>0, <1>1, <1>2, <2>2, PutsStays DEF AnswerIsFresh, DataIsFresh
    <2>8. QED
      BY <2>4, <2>5, <2>6, <2>7 DEF ChangesInv
  <1>7. QED
    BY <1>5, <1>6

\* An answer told: the change is the person's from now on, and the cache knows.
LEMMA SucceedKeeps ==
    ASSUME ClientTypes, ChangesInv, area' = area, NEW i \in DOMAIN calls, Succeed(i)
    PROVE  ChangesInv'
  <1> DEFINE own == IF Own(i) THEN {calls[i].token} ELSE {}
  <1>0. MineKept /\ DoneIsServed /\ WholeIsFresh /\ Placed(i)
    BY DEF ChangesInv, ClientTypes, CallTypes, Succeed
  <1>1. /\ calls[i].at = "done" /\ mine' = mine \cup own /\ UNCHANGED <<server, forgiven>>
        /\ \/ At(i).puts /\ Tells(At(i), query) /\ Replaced(calls[i].base, own)
           \/ ~(At(i).puts /\ Tells(At(i), query)) /\ Invalidated(Tells(At(i), query), own)
    BY Zenon DEF Succeed, At, Own
  <1>2. /\ Touches(At(i), query) => Tells(At(i), query) /\ (PutsHere => At(i).puts)
        /\ At(i).puts /\ Tells(At(i), query) => PutsHere
        /\ At(i).whole => Len(The(calls[i].by).does) = 1
    BY <1>0, ReachingTells DEF Placed, At, Step
  <1>3. AnswerIsFresh' /\ DataIsFresh' /\ missed \subseteq missed'
    <2>1. CASE At(i).puts /\ Tells(At(i), query) /\ Replaced(calls[i].base, own)
      <3>1. own \subseteq calls[i].base
        BY <1>0, <1>1, <2>1 DEF DoneIsServed
      <3> HIDE DEF own
      <3>2. QED
        BY <1>1, <1>2, <2>1, <3>1, ReplacedKeeps
    <2>2. CASE ~(At(i).puts /\ Tells(At(i), query)) /\ Invalidated(Tells(At(i), query), own)
      <3>1. own # {} => Tells(At(i), query) /\ ~PutsHere
        BY <1>2, <2>2 DEF Own
      <3>2. Tells(At(i), query) \in BOOLEAN
        BY DEF Tells
      <3> HIDE DEF own
      <3>3. QED
        BY <1>1, <2>2, <3>1, <3>2, InvalidatedKeeps
    <2>3. QED
      BY <1>1, <2>1, <2>2
  <1>4. own \subseteq server \cup forgiven
    BY <1>0, <1>1 DEF DoneIsServed
  <1> HIDE DEF own
  <1>5. MineKept'
    BY <1>0, <1>1, <1>3, <1>4 DEF MineKept
  <1>6. Others(i) /\ calls'[i].at \in {"sent", "over"}
    BY SucceedDoes
  <1>7. \A j \in DOMAIN calls : j # i =>
            calls'[j] = calls[j] /\ At(j)' = At(j) /\ (Own(j)' <=> Own(j))
    BY <1>6 DEF At, Own, Step, The, query, Others
  <1>8. DoneIsServed'
    <2> SUFFICES ASSUME NEW j \in DOMAIN calls, calls'[j].at = "done", Own(j)'
                 PROVE  /\ calls'[j].token \in server \cup forgiven
                        /\ At(j)'.puts => calls'[j].token \in calls'[j].base
      BY <1>1, <1>6 DEF DoneIsServed, Others
    <2>1. j # i
      BY <1>6
    <2>2. QED
      BY <1>0, <1>7, <2>1 DEF DoneIsServed
  <1>9. WholeIsFresh'
    <2> SUFFICES ASSUME NEW j \in DOMAIN calls, calls'[j].at = "sent", At(j)'.whole, ~calls'[j].hasty,
                        j = Len(calls)
                 PROVE  FALSE
      BY <1>6 DEF WholeIsFresh, Others
    <2>1. CASE j = i
      <3>1. calls'[i].n = calls[i].n + 1 /\ Same(i) /\ calls[i].n # Len(The(calls[i].by).does)
        BY <2>1, SucceedDoes
      <3>2. /\ calls[i].by \in Controls /\ calls[i].n \in 1..Len(The(calls[i].by).does)
            /\ Len(The(calls[i].by).does) \in Nat
            /\ DOMAIN The(calls[i].by).does = 1..Len(The(calls[i].by).does)
        BY <1>0, AreaFacts DEF Placed
      <3>3. calls[i].n + 1 \in DOMAIN The(calls[i].by).does
        BY <3>1, <3>2
      <3>4. The(calls[i].by).does[calls[i].n + 1].whole
        BY <2>1, <3>1 DEF At, Step, The, Same
      <3>5. Len(The(calls[i].by).does) = 1
        BY <3>2, <3>3, <3>4, ReachingTells
      <3>6. QED
        BY <3>1, <3>2, <3>5
    <2>2. CASE j # i
      <3>1. calls[j].at = "sent" /\ At(j).whole /\ ~calls[j].hasty
        BY <1>7, <2>2
      <3>2. QED
        BY <1>0, <1>1, <2>2, <3>1 DEF WholeIsFresh
    <2>3. QED
      BY <2>1, <2>2
  <1>10. QED
    BY <1>3, <1>5, <1>8, <1>9 DEF ChangesInv

\* A control used: what a whole value is made of is all that was accepted, if the screen had settled.
LEMMA PressKeeps ==
    ASSUME ClientTypes, ChangesInv, area' = area, NEW c \in Controls, Press(c)
    PROVE  ChangesInv'
  <1>0. MineKept /\ DoneIsServed /\ WholeIsFresh /\ AnswerIsFresh /\ DataIsFresh
    BY DEF ChangesInv
  <1>1. UNCHANGED <<server, mine, forgiven, loaded, data, stale, fetch, answer, missed>>
    BY Zenon DEF Press, cacheVars
  <1>n. PICK N : N = Len(calls) + 1
    OBVIOUS
  <1>2. /\ calls' \in Seq(Call) /\ Len(calls') = N /\ DOMAIN calls' = DOMAIN calls \cup {N}
        /\ N \in Nat /\ N \notin DOMAIN calls
        /\ \A j \in DOMAIN calls : calls'[j] = calls[j]
        /\ calls'[N].by = c /\ calls'[N].n = 1 /\ calls'[N].at = "sent"
        /\ The(c).does[1].whole => loaded /\ calls'[N].base = data
        /\ The(c).does[1].whole /\ ~calls'[N].hasty => Settled
    BY <1>n, PressDoes
  <1>3. \A j \in DOMAIN calls : At(j)' = At(j) /\ (Own(j)' <=> Own(j))
    BY <1>2 DEF At, Own, Step, The, query
  <1>4. At(N)' = The(c).does[1]
    BY <1>2 DEF At, Step, The
  <1>5. MineKept' /\ AnswerIsFresh' /\ DataIsFresh'
    BY <1>0, <1>1, PutsStays DEF MineKept, AnswerIsFresh, DataIsFresh
  <1>6. DoneIsServed'
    <2> SUFFICES ASSUME NEW j \in DOMAIN calls', calls'[j].at = "done", Own(j)'
                 PROVE  /\ calls'[j].token \in server \cup forgiven
                        /\ At(j)'.puts => calls'[j].token \in calls'[j].base
      BY <1>1 DEF DoneIsServed
    <2>1. j \in DOMAIN calls
      BY <1>2
    <2>2. QED
      BY <1>0, <1>2, <1>3, <2>1 DEF DoneIsServed
  <1>7. WholeIsFresh'
    <2> SUFFICES ASSUME NEW j \in DOMAIN calls', calls'[j].at = "sent", At(j)'.whole, ~calls'[j].hasty,
                        j = Len(calls')
                 PROVE  /\ (mine \cap server) \subseteq (calls'[j].base \cup missed \cup forgiven)
                        /\ \A k \in DOMAIN calls' : k # j => calls'[k].at = "over"
      BY <1>1 DEF WholeIsFresh
    <2>1. j = N /\ Settled /\ loaded /\ calls'[j].base = data
      BY <1>2, <1>4
    <2>2. (mine \cap server) \subseteq (data \cup missed \cup forgiven)
      BY <1>0, <2>1 DEF DataIsFresh, Settled
    <2>3. \A k \in DOMAIN calls : calls[k].at = "over"
      BY <2>1 DEF Settled, InFlight
    <2>4. QED
      BY <1>2, <2>1, <2>2, <2>3
  <1>8. QED
    BY <1>5, <1>6, <1>7 DEF ChangesInv

\* Every action keeps what was accepted, or its loss known.
LEMMA ChangesNext == ClientTypes /\ Past /\ ChangesInv /\ [Next]_vars => ChangesInv'
  <1> SUFFICES ASSUME ClientTypes, Past, ChangesInv, [Next]_vars PROVE ChangesInv'
    OBVIOUS
  <1>0. /\ MineKept /\ DoneIsServed /\ WholeIsFresh /\ AnswerIsFresh /\ DataIsFresh
        /\ mine \subseteq 1..made /\ made \in Nat
    BY AreasAssumption DEF ChangesInv, Past, ClientTypes
  <1>1. area' = area
    BY Zenon
       DEF Next, Read, Arrive, FetchFails, Grow, Poll, Open, Leave, Type, Press, Serve, Refuse,
           Succeed, Fail, Cool, Elsewhere, Pushed, NewsLost, vars
  <1>2. CASE FetchFails \/ Grow \/ Poll \/ Open \/ Leave \/ Type \/ Cool \/ NewsLost \/ UNCHANGED vars
    <2>1. UNCHANGED <<server, mine, missed, forgiven, data, calls>>
      BY <1>2 DEF FetchFails, Grow, Poll, Open, Leave, Type, Cool, NewsLost, vars, cacheVars, callVars
    <2>2. loaded' /\ ~stale' => loaded /\ ~stale
      BY <1>2 DEF FetchFails, Grow, Poll, Open, Leave, Type, Cool, NewsLost, vars, cacheVars, callVars
    <2>3. fetch' = "read" => fetch = "read" /\ answer' = answer
      BY <1>2 DEF FetchFails, Grow, Poll, Open, Leave, Type, Cool, NewsLost, vars, cacheVars, callVars
    <2>4. QED
      BY <1>1, <2>1, <2>2, <2>3, ChangesFrame
  <1>3. CASE Read
    <2>1. /\ UNCHANGED <<server, mine, missed, forgiven, data, calls, loaded, stale>> /\ answer' = server
      BY <1>3 DEF Read, callVars
    <2>2. MineKept' /\ DoneIsServed' /\ WholeIsFresh'
      BY <1>1, <2>1, ChangesStay
    <2>3. AnswerIsFresh' /\ DataIsFresh'
      BY <1>0, <1>1, <2>1, PutsStays DEF AnswerIsFresh, DataIsFresh
    <2>4. QED
      BY <2>2, <2>3 DEF ChangesInv
  <1>4. CASE Arrive
    <2>1. /\ UNCHANGED <<server, mine, missed, forgiven, calls>>
          /\ fetch = "read" /\ fetch' = "idle" /\ data' = answer
      BY <1>4 DEF Arrive, callVars
    <2>2. MineKept' /\ DoneIsServed' /\ WholeIsFresh'
      BY <1>1, <2>1, ChangesStay
    <2>3. AnswerIsFresh' /\ DataIsFresh'
      BY <1>0, <2>1 DEF AnswerIsFresh, DataIsFresh
    <2>4. QED
      BY <2>2, <2>3 DEF ChangesInv
  <1>5. CASE Elsewhere
    <2>1. /\ UNCHANGED <<mine, missed, forgiven, calls, loaded, data, stale, fetch, answer>>
          /\ server' = server \cup {made + 1}
      BY <1>5 DEF Elsewhere, callVars, cacheVars
    <2>2. made + 1 \notin mine
      BY <1>0
    <2>3. MineKept' /\ DoneIsServed' /\ WholeIsFresh'
      BY <1>1, <2>1, <2>2, ChangesStay
    <2>4. AnswerIsFresh' /\ DataIsFresh'
      BY <1>0, <1>1, <2>1, <2>2, PutsStays DEF AnswerIsFresh, DataIsFresh
    <2>5. QED
      BY <2>3, <2>4 DEF ChangesInv
  <1>6. CASE Pushed
    <2>1. /\ UNCHANGED <<mine, server, forgiven, calls>>
          /\ Invalidated(Covers(<<"tickets">>, query.key), {})
      BY <1>6 DEF Pushed, callVars
    <2>2. Covers(<<"tickets">>, query.key) \in BOOLEAN
      BY DEF Covers
    <2>3. AnswerIsFresh' /\ DataIsFresh' /\ missed \subseteq missed'
      BY <1>1, <2>1, <2>2, InvalidatedKeeps
    <2>4. MineKept' /\ DoneIsServed' /\ WholeIsFresh'
      BY <1>1, <2>1, <2>3, ChangesStay
    <2>5. QED
      BY <2>3, <2>4 DEF ChangesInv
  <1>7. ASSUME NEW c \in Controls, Press(c) PROVE ChangesInv'
    BY <1>1, <1>7, PressKeeps
  <1>8. ASSUME NEW i \in DOMAIN calls, Serve(i) PROVE ChangesInv'
    BY <1>1, <1>8, ServeKeeps
  <1>9. ASSUME NEW i \in DOMAIN calls, Succeed(i) PROVE ChangesInv'
    BY <1>1, <1>9, SucceedKeeps
  <1>10. ASSUME NEW i \in DOMAIN calls, Refuse(i) PROVE ChangesInv'
    <2>1. UNCHANGED <<server, mine, missed, forgiven, data, loaded, stale, fetch, answer>>
      BY <1>10 DEF Refuse, cacheVars
    <2>2. Others(i) /\ calls[i].at = "sent" /\ calls'[i].at = "failed"
      BY <1>10, RefuseDoes
    <2>3. QED
      BY <1>1, <2>1, <2>2, ChangesFrame DEF Others
  <1>11. ASSUME NEW i \in DOMAIN calls, Fail(i) PROVE ChangesInv'
    <2>1. UNCHANGED <<server, mine, missed, forgiven, data, loaded, stale, fetch, answer>>
      BY <1>11 DEF Fail, cacheVars
    <2>2. Others(i) /\ calls[i].at = "failed" /\ calls'[i].at = "over"
      BY <1>11, FailDoes
    <2>3. QED
      BY <1>1, <2>1, <2>2, ChangesFrame DEF Others
  <1>12. QED
    BY <1>2, <1>3, <1>4, <1>5, <1>6, <1>7, <1>8, <1>9, <1>10, <1>11 DEF Next


\* A token sent, accepted or told of was made.
LEMMA PastNext == ClientTypes /\ Past /\ [Next]_vars => Past'
  <1> SUFFICES ASSUME ClientTypes, Past, [Next]_vars PROVE Past'
    OBVIOUS
  <1>0. /\ MaxTokens \in Nat /\ made \in Nat /\ draft \in 0..made /\ landed \in [Tokens -> Nat]
        /\ mine \subseteq 1..made
        /\ \A j \in DOMAIN calls : InFlight(j) => calls[j].token <= made
        /\ \A t \in Tokens : landed[t] > 0 => t <= made
    BY AreasAssumption DEF ClientTypes, Past
  <1>1. CASE \/ Read \/ Arrive \/ FetchFails \/ Grow \/ Poll \/ Open \/ Leave \/ Type \/ Cool \/ Elsewhere
             \/ Pushed \/ NewsLost \/ UNCHANGED vars
    <2>1. UNCHANGED <<calls, mine, landed>> /\ made' \in {made, made + 1}
      BY <1>1
         DEF Read, Arrive, FetchFails, Grow, Poll, Open, Leave, Type, Cool, Elsewhere, Pushed, NewsLost,
             vars, callVars
    <2>2. made' \in Nat /\ made <= made'
      BY <1>0, <2>1
    <2>3. mine' \subseteq 1..made'
      BY <1>0, <2>1, <2>2
    <2>4. \A j \in DOMAIN calls : InFlight(j)' => calls'[j].token <= made'
      <3>1. \A j \in DOMAIN calls : calls[j].token \in Tokens
        BY CallFacts
      <3>2. \A j \in DOMAIN calls : InFlight(j)' => InFlight(j)
        BY <2>1 DEF InFlight
      <3>3. QED
        BY <1>0, <2>1, <2>2, <3>1, <3>2 DEF Tokens
    <2>5. \A t \in Tokens : landed'[t] > 0 => t <= made'
      BY <1>0, <2>1, <2>2 DEF Tokens
    <2>6. QED
      BY <2>1, <2>3, <2>4, <2>5 DEF Past
  <1>2. ASSUME NEW c \in Controls, Press(c) PROVE Past'
    <2>1. UNCHANGED <<mine, landed>>
      BY <1>2 DEF Press
    <2>2. PICK N : N = Len(calls) + 1
      OBVIOUS
    <2>3. /\ DOMAIN calls' = DOMAIN calls \cup {N}
          /\ \A j \in DOMAIN calls : calls'[j] = calls[j]
          /\ calls'[N].token = IF The(c).field = "text" THEN draft ELSE made + 1
          /\ made' = IF The(c).field = "text" THEN made ELSE made + 1
      BY <1>2, <2>2, PressDoes
    <2>4. made' \in Nat /\ made <= made' /\ calls'[N].token <= made'
      BY <1>0, <2>3
    <2>5. \A j \in DOMAIN calls' : InFlight(j)' => calls'[j].token <= made'
      <3>1. \A j \in DOMAIN calls : calls[j].token \in Tokens
        BY CallFacts
      <3>2. \A j \in DOMAIN calls : InFlight(j)' => InFlight(j)
        BY <2>3 DEF InFlight
      <3>3. \A j \in DOMAIN calls : InFlight(j)' => calls'[j].token <= made'
        BY <1>0, <2>3, <2>4, <3>1, <3>2 DEF Tokens
      <3>4. QED
        BY <2>3, <2>4, <3>3
    <2>6. mine' \subseteq 1..made'
      BY <1>0, <2>1, <2>4
    <2>7. \A t \in Tokens : landed'[t] > 0 => t <= made'
      BY <1>0, <2>1, <2>4 DEF Tokens
    <2>8. QED
      BY <2>5, <2>6, <2>7 DEF Past
  <1>3. ASSUME NEW i \in DOMAIN calls, Serve(i) PROVE Past'
    <2>1. UNCHANGED <<mine, made>> /\ InFlight(i)
      BY <1>3, Zenon DEF Serve
    <2>2. Others(i) /\ Same(i)
      BY <1>3, ServeDoes
    <2>3. \A j \in DOMAIN calls' : InFlight(j)' => calls'[j].token <= made'
      BY <1>0, <2>1, <2>2 DEF InFlight, Others, Same
    <2>4. calls[i].token \in Tokens /\ calls[i].token <= made
      BY <1>0, <2>1, CallFacts
    <2>5. landed' = [landed EXCEPT ![calls[i].token] = @ + 1] \/ landed' = landed
      BY <1>3, ServeDoes
    <2>6. \A t \in Tokens : landed'[t] > 0 => t <= made'
      BY <1>0, <2>1, <2>4, <2>5
    <2>7. QED
      BY <1>0, <2>1, <2>3, <2>6 DEF Past
  <1>4. ASSUME NEW i \in DOMAIN calls, Refuse(i) \/ Fail(i) PROVE Past'
    <2>1. UNCHANGED <<mine, made, landed>> /\ InFlight(i)
      BY <1>4 DEF Refuse, Fail
    <2>2. Others(i) /\ (Same(i) \/ calls'[i].at = "over")
      BY <1>4, RefuseDoes, FailDoes
    <2>3. \A j \in DOMAIN calls' : InFlight(j)' => calls'[j].token <= made'
      BY <1>0, <2>1, <2>2 DEF InFlight, Others, Same
    <2>4. QED
      BY <1>0, <2>1, <2>3 DEF Past
  <1>5. ASSUME NEW i \in DOMAIN calls, Succeed(i) PROVE Past'
    <2>1. /\ UNCHANGED <<made, landed>> /\ InFlight(i)
          /\ mine' = mine \cup (IF Own(i) THEN {calls[i].token} ELSE {})
      BY <1>5, Zenon DEF Succeed, At, Own
    <2>2. Others(i) /\ (Same(i) \/ calls'[i].at = "over")
      BY <1>5, SucceedDoes
    <2>3. \A j \in DOMAIN calls' : InFlight(j)' => calls'[j].token <= made'
      BY <1>0, <2>1, <2>2 DEF InFlight, Others, Same
    <2>4. calls[i].token \in Tokens /\ calls[i].token <= made
      BY <1>0, <2>1, CallFacts
    <2>5. calls[i].token \in 1..made
      BY <1>0, <2>4 DEF Tokens
    <2>6. mine' \subseteq 1..made'
      BY <1>0, <2>1, <2>5
    <2>7. QED
      BY <1>0, <2>1, <2>3, <2>6 DEF Past
  <1>6. QED
    BY <1>1, <1>2, <1>3, <1>4, <1>5 DEF Next

-----------------------------------------------------------------------------
(* What was typed *)

\* The field holds what was typed, or the screen knows that it does not.
LEMMA FieldNext == ClientTypes /\ FieldInv /\ [Next]_vars => FieldInv'
  <1> SUFFICES ASSUME ClientTypes, FieldInv, [Next]_vars PROVE FieldInv'
    OBVIOUS
  <1> USE DEF formVars
  <1>1. CASE \/ Read \/ FetchFails \/ Grow \/ Poll \/ Cool \/ Elsewhere \/ Pushed \/ NewsLost \/ UNCHANGED vars
             \/ (\E c \in Controls : Press(c)) \/ (\E i \in DOMAIN calls : Serve(i) \/ Refuse(i))
    <2>1. UNCHANGED <<here, draft, typed, overtyped>>
      BY <1>1, Zenon
         DEF Read, FetchFails, Grow, Poll, Cool, Elsewhere, Pushed, NewsLost, Press, Serve, Refuse, vars
    <2>2. QED
      BY <2>1 DEF FieldInv
  <1>2. CASE Arrive
    <2>1. /\ here' = here
          /\ \/ draft' = 0 /\ (typed # 0 => overtyped') /\ typed' = typed /\ here
             \/ UNCHANGED <<draft, typed, overtyped>>
      BY <1>2 DEF Arrive
    <2>2. QED
      BY <2>1 DEF FieldInv
  <1>3. CASE Open
    BY <1>3 DEF Open, FieldInv
  <1>4. CASE Leave
    BY <1>4 DEF Leave, Gone, FieldInv
  <1>5. CASE Type
    BY <1>5 DEF Type, FieldInv
  <1>6. ASSUME NEW i \in DOMAIN calls, Succeed(i) PROVE FieldInv'
    <2>1. \/ Gone
          \/ /\ here' = here
             /\ typed' = typed \/ (typed' = 0 /\ typed = calls[i].token)
             /\ \/ UNCHANGED <<draft, overtyped>> /\ (here \/ draft = 0)
                \/ draft' = 0 /\ overtyped' = (overtyped \/ draft \notin {0, calls[i].token})
                   /\ (typed' = 0 <=> typed \in {0, calls[i].token})
      BY <1>6 DEF Succeed, FieldInv
    <2>2. CASE Gone
      BY <2>2 DEF Gone, FieldInv
    <2>3. CASE /\ here' = here
               /\ typed' = typed \/ (typed' = 0 /\ typed = calls[i].token)
               /\ UNCHANGED <<draft, overtyped>> /\ (here \/ draft = 0)
      BY <2>3 DEF FieldInv
    <2>4. CASE /\ here' = here
               /\ typed' = typed \/ (typed' = 0 /\ typed = calls[i].token)
               /\ draft' = 0 /\ overtyped' = (overtyped \/ draft \notin {0, calls[i].token})
               /\ (typed' = 0 <=> typed \in {0, calls[i].token})
      BY <2>4 DEF FieldInv
    <2>5. QED
      BY <2>1, <2>2, <2>3, <2>4
  <1>7. ASSUME NEW i \in DOMAIN calls, Fail(i) PROVE FieldInv'
    BY <1>7 DEF Fail, Gone, Failed, FieldInv
  <1>8. QED
    BY <1>1, <1>2, <1>3, <1>4, <1>5, <1>6, <1>7 DEF Next

\* A form that empties its field shares no hook with a button, and only the composer's is sent while it is.
LEMMA FormFacts ==
    ASSUME ClientTypes, NEW c \in Controls, The(c).field = "text"
    PROVE  /\ The(c).free => The(c).does[1].name = "addTicketMessage"
           /\ The(c).clears => \A d \in Controls : The(d).field # "text" =>
                 \A n \in DOMAIN The(c).does, k \in DOMAIN The(d).does :
                     The(c).does[n].name # The(d).does[k].name
  <1>1. /\ The(c).free => The(c).does[1].name = "addTicketMessage"
        /\ The(c).clears => \A d \in Controls : The(d).field # "text" =>
              \A change \in Changes(The(c)), other \in Changes(The(d)) : change.name # other.name
    BY AreaFacts DEF AreaHolds, Controls, The
  <1>2. \A d \in Controls : \A n \in DOMAIN The(d).does : The(d).does[n] \in Changes(The(d))
    BY DEF Changes
  <1>3. QED
    BY <1>1, <1>2

\* A text that is in the field, was not sent twice, and whose request is under way keeps its form disabled.
LEMMA SentDisables ==
    ASSUME ClientTypes, FieldIsSent, NEW c \in Controls, The(c).field = "text",
           NEW i \in DOMAIN calls, InFlight(i), Kept(calls[i].token)
    PROVE  Pending(c)
  <1>1. OfForm(i) /\ Shown(i)
    BY DEF FieldIsSent, SendsKept
  <1>2. calls[i].by \in Controls /\ calls[i].n \in DOMAIN The(calls[i].by).does
    BY DEF ClientTypes, CallTypes, Placed
  <1>3. Observed(The(calls[i].by).does[calls[i].n].name)
    BY <1>1 DEF Observed, Shown, Name, At, Step
  <1>4. QED
    BY <1>1, <1>2, <1>3 DEF Pending, SameForm, OfForm

\* A text sent that is not excused: its form was not disabled, and it was not sent before.
LEMMA TextIsNew ==
    ASSUME ClientTypes, FieldIsSent, FieldIsDone, NEW c \in Controls, Press(c), The(c).field = "text",
           draft \notin again'
    PROVE  /\ Kept(draft) /\ The(c).clears /\ ~Pending(c) /\ landed[draft] = 0
           /\ \A j \in DOMAIN calls : InFlight(j) => calls[j].token # draft
  <1>1. /\ draft \in Tokens /\ (The(c).free \/ ~Pending(c)) /\ ~Repeatable(c) /\ draft \notin again
    BY DEF Press
  <1>2. draft # 0 /\ Kept(draft)
    BY <1>1 DEF Kept, Tokens
  <1>3. The(c).clears /\ ~Pending(c)
    BY <1>1, FormFacts DEF Repeatable
  <1>4. ASSUME NEW j \in DOMAIN calls, InFlight(j), calls[j].token = draft PROVE FALSE
    BY <1>2, <1>3, <1>4, SentDisables
  <1>5. landed[draft] = 0
    <2> SUFFICES ASSUME landed[draft] # 0 PROVE FALSE
      OBVIOUS
    <2>1. landed[draft] > 0
      BY <1>1 DEF ClientTypes
    <2>2. PICK j \in DOMAIN calls : calls[j].at = "done" /\ calls[j].token = draft
      BY <1>1, <1>2, <2>1 DEF FieldIsDone
    <2>3. QED
      BY <1>4, <2>2 DEF InFlight
  <1>6. QED
    BY <1>2, <1>3, <1>4, <1>5

\* Whatever is sent is new, unless it is excused.
LEMMA SentIsNew ==
    ASSUME ClientTypes, Past, FieldIsSent, FieldIsDone, NEW c \in Controls, Press(c), NEW t,
           t = (IF The(c).field = "text" THEN draft ELSE made + 1), t \in Tokens, t \notin again'
    PROVE  landed[t] = 0 /\ \A j \in DOMAIN calls : InFlight(j) => calls[j].token # t
  <1>1. CASE The(c).field = "text"
    BY <1>1, TextIsNew
  <1>2. CASE The(c).field # "text"
    <2>1. made \in Nat /\ landed[t] \in Nat /\ t = made + 1
      BY <1>2, AreasAssumption DEF ClientTypes
    <2>2. landed[t] = 0
      BY <2>1 DEF Past
    <2>3. \A j \in DOMAIN calls : InFlight(j) => calls[j].token # t
      BY <2>1 DEF Past
    <2>4. QED
      BY <2>2, <2>3
  <1>3. QED
    BY <1>1, <1>2

\* Nothing new is on its way to the server.
LEMMA LandsFrame ==
    ASSUME LandsOnce, area' = area, landed' = landed, again \subseteq again', DOMAIN calls' = DOMAIN calls,
           \A j \in DOMAIN calls :
              \/ WillLand(j)' => WillLand(j) /\ calls'[j].token = calls[j].token
              \/ calls'[j].token \in again'
    PROVE  LandsOnce'
  <1> SUFFICES ASSUME NEW t \in Tokens, t \notin again'
               PROVE  /\ landed[t] <= 1
                      /\ \A i \in DOMAIN calls : WillLand(i)' /\ calls'[i].token = t =>
                            /\ landed[t] = 0
                            /\ \A j \in DOMAIN calls : WillLand(j)' /\ calls'[j].token = t => i = j
    BY DEF LandsOnce
  <1>1. t \in Tokens \ again
    OBVIOUS
  <1>2. \A j \in DOMAIN calls : WillLand(j)' /\ calls'[j].token = t => WillLand(j) /\ calls[j].token = t
    OBVIOUS
  <1>3. QED
    BY <1>1, <1>2 DEF LandsOnce

\* Every action keeps the count of what lands.
LEMMA LandsNext == ClientTypes /\ Past /\ SendsInv /\ [Next]_vars => LandsOnce'
  <1> SUFFICES ASSUME ClientTypes, Past, SendsInv, [Next]_vars PROVE LandsOnce'
    OBVIOUS
  <1>0. /\ LandsOnce /\ FieldIsSent /\ FieldIsDone /\ landed \in [Tokens -> Nat] /\ CallTypes
        /\ \A j \in DOMAIN calls : calls[j].token \in Tokens
    BY CallFacts DEF SendsInv, ClientTypes
  <1>1. area' = area
    BY Zenon
       DEF Next, Read, Arrive, FetchFails, Grow, Poll, Open, Leave, Type, Press, Serve, Refuse,
           Succeed, Fail, Cool, Elsewhere, Pushed, NewsLost, vars
  <1>2. CASE \/ Read \/ Arrive \/ FetchFails \/ Grow \/ Poll \/ Open \/ Leave \/ Type \/ Cool \/ Elsewhere
             \/ Pushed \/ NewsLost \/ UNCHANGED vars
    <2>1. UNCHANGED <<calls, landed, again>>
      BY <1>2
         DEF Read, Arrive, FetchFails, Grow, Poll, Open, Leave, Type, Cool, Elsewhere, Pushed, NewsLost,
             vars, callVars
    <2>2. \A j \in DOMAIN calls : WillLand(j)' => WillLand(j)
      BY <1>1, <2>1 DEF WillLand, The
    <2>3. QED
      BY <1>0, <1>1, <2>1, <2>2, LandsFrame
  <1>3. ASSUME NEW c \in Controls, Press(c) PROVE LandsOnce'
    <2>1. landed' = landed /\ again \subseteq again'
      BY <1>3 DEF Press
    <2>2. PICK N : N = Len(calls) + 1
      OBVIOUS
    <2>3. PICK u : u = IF The(c).field = "text" THEN draft ELSE made + 1
      OBVIOUS
    <2>4. /\ DOMAIN calls' = DOMAIN calls \cup {N} /\ N \notin DOMAIN calls
          /\ \A j \in DOMAIN calls : calls'[j] = calls[j]
          /\ calls'[N].token = u /\ u \in Tokens
      BY <1>3, <2>2, <2>3, PressDoes
    <2>5. u \notin again' => landed[u] = 0 /\ \A j \in DOMAIN calls : InFlight(j) => calls[j].token # u
      BY <1>0, <1>3, <2>3, <2>4, SentIsNew
    <2>6. \A j \in DOMAIN calls : (WillLand(j)' => WillLand(j)) /\ (WillLand(j) => InFlight(j))
      BY <1>1, <2>4 DEF WillLand, InFlight, The
    <2> SUFFICES ASSUME NEW t \in Tokens, t \notin again'
                 PROVE  /\ landed[t] <= 1
                        /\ \A i \in DOMAIN calls' : WillLand(i)' /\ calls'[i].token = t =>
                              /\ landed[t] = 0
                              /\ \A j \in DOMAIN calls' : WillLand(j)' /\ calls'[j].token = t => i = j
      BY <2>1 DEF LandsOnce
    <2>7. /\ landed[t] <= 1
          /\ \A i \in DOMAIN calls : WillLand(i) /\ calls[i].token = t =>
                /\ landed[t] = 0
                /\ \A j \in DOMAIN calls : WillLand(j) /\ calls[j].token = t => i = j
      BY <1>0, <2>1 DEF LandsOnce
    <2>8. CASE t = u
      BY <2>4, <2>5, <2>6, <2>7, <2>8
    <2>9. CASE t # u
      BY <2>4, <2>6, <2>7, <2>9
    <2>10. QED
      BY <2>8, <2>9
  <1>4. ASSUME NEW i \in DOMAIN calls, Serve(i) PROVE LandsOnce'
    <2>1. /\ calls[i].at = "sent" /\ Others(i) /\ Same(i) /\ calls'[i].n = calls[i].n
          /\ calls'[i].at \in {"done", "failed"}
          /\ again' = IF calls'[i].at = "failed" THEN again \cup {calls[i].token} ELSE again
          /\ landed' = IF calls[i].n = Len(The(calls[i].by).does)
                       THEN [landed EXCEPT ![calls[i].token] = @ + 1] ELSE landed
      BY <1>4, ServeDoes
    <2>2. \A j \in DOMAIN calls : j # i => (WillLand(j)' <=> WillLand(j)) /\ calls'[j].token = calls[j].token
      BY <1>1, <2>1 DEF WillLand, The, Others
    <2>3. WillLand(i) /\ calls'[i].token = calls[i].token /\ DOMAIN calls' = DOMAIN calls /\ again \subseteq again'
      BY <2>1 DEF WillLand, Same, Others
    <2>4. CASE calls[i].n # Len(The(calls[i].by).does)
      BY <1>0, <1>1, <2>1, <2>2, <2>3, <2>4, LandsFrame
    <2>5. CASE calls[i].n = Len(The(calls[i].by).does)
      <3>1. ~WillLand(i)'
        <4>1. calls[i].by \in Controls
          BY <1>0, <2>1 DEF CallTypes, InFlight, Placed
        <4>2. Len(The(calls[i].by).does) \in Nat
          BY <4>1, AreaFacts
        <4>3. Len(The(calls[i].by).does)' = Len(The(calls[i].by).does)
          BY <1>1, <2>1 DEF The, Same
        <4>4. QED
          BY <2>1, <2>5, <4>2, <4>3 DEF WillLand
      <3>2. landed' = [landed EXCEPT ![calls[i].token] = @ + 1]
        BY <2>1, <2>5
      <3> SUFFICES ASSUME NEW t \in Tokens, t \notin again'
                   PROVE  /\ landed'[t] <= 1
                          /\ \A k \in DOMAIN calls : WillLand(k)' /\ calls'[k].token = t =>
                                /\ landed'[t] = 0
                                /\ \A j \in DOMAIN calls : WillLand(j)' /\ calls'[j].token = t => k = j
        BY <2>3 DEF LandsOnce
      <3>3. /\ landed[t] <= 1
            /\ \A k \in DOMAIN calls : WillLand(k) /\ calls[k].token = t =>
                  /\ landed[t] = 0
                  /\ \A j \in DOMAIN calls : WillLand(j) /\ calls[j].token = t => k = j
        BY <1>0, <2>3 DEF LandsOnce
      <3>4. CASE t = calls[i].token
        <4>1. landed[t] = 0 /\ landed'[t] = 1
          BY <1>0, <2>3, <3>2, <3>3, <3>4
        <4>2. \A k \in DOMAIN calls : ~(WillLand(k)' /\ calls'[k].token = t)
          BY <2>2, <2>3, <3>1, <3>3, <3>4
        <4>3. QED
          BY <4>1, <4>2
      <3>5. CASE t # calls[i].token
        <4>1. landed'[t] = landed[t]
          BY <1>0, <3>2, <3>5
        <4>2. QED
          BY <2>2, <2>3, <3>1, <3>3, <4>1
      <3>6. QED
        BY <3>4, <3>5
    <2>6. QED
      BY <2>4, <2>5
  <1>5. ASSUME NEW i \in DOMAIN calls, Refuse(i) \/ Fail(i) PROVE LandsOnce'
    <2>1. UNCHANGED <<landed, again>>
      BY <1>5 DEF Refuse, Fail
    <2>2. Others(i) /\ calls'[i].at \in {"failed", "over"}
      BY <1>5, RefuseDoes, FailDoes
    <2>3. \A j \in DOMAIN calls : WillLand(j)' => WillLand(j) /\ calls'[j].token = calls[j].token
      BY <1>1, <2>2 DEF WillLand, The, Others
    <2>4. QED
      BY <1>0, <1>1, <2>1, <2>2, <2>3, LandsFrame DEF Others
  <1>6. ASSUME NEW i \in DOMAIN calls, Succeed(i) PROVE LandsOnce'
    <2>1. UNCHANGED <<landed, again>>
      BY <1>6 DEF Succeed
    <2>2. /\ Others(i) /\ calls[i].at = "done"
          /\ \/ calls'[i].at = "over"
             \/ calls[i].n # Len(The(calls[i].by).does) /\ Same(i)
      BY <1>6, SucceedDoes
    <2>3. calls[i].n \in 1..Len(The(calls[i].by).does) /\ Len(The(calls[i].by).does) \in Nat
      <3>1. calls[i].by \in Controls /\ calls[i].n \in DOMAIN The(calls[i].by).does
        BY <1>0, <2>2 DEF CallTypes, InFlight, Placed
      <3>2. QED
        BY <3>1, AreaFacts
    <2>4. WillLand(i)' => WillLand(i) /\ calls'[i].token = calls[i].token
      <3>1. CASE calls'[i].at = "over"
        BY <3>1 DEF WillLand
      <3>2. CASE calls[i].n # Len(The(calls[i].by).does) /\ Same(i)
        BY <2>2, <2>3, <3>2 DEF WillLand, Same
      <3>3. QED
        BY <2>2, <3>1, <3>2
    <2>5. \A j \in DOMAIN calls : j # i => (WillLand(j)' => WillLand(j) /\ calls'[j].token = calls[j].token)
      BY <1>1, <2>2 DEF WillLand, The, Others
    <2>6. QED
      BY <1>0, <1>1, <2>1, <2>2, <2>4, <2>5, LandsFrame DEF Others
  <1>7. QED
    BY <1>2, <1>3, <1>4, <1>5, <1>6 DEF Next

\* Nothing is sent anew while the text stays in the field.
LEMMA FieldFrame ==
    ASSUME FieldIsSent, FieldIsDone, area' = area, UNCHANGED <<draft, latest, visit>>, again \subseteq again',
           \A t \in Tokens : t \notin again' => landed'[t] = landed[t],
           DOMAIN calls' = DOMAIN calls,
           \A j \in DOMAIN calls :
              \/ calls'[j] = calls[j]
              \/ calls[j].at # "done" /\ calls'[j].at = "over"
              \/ Same(j) /\ calls'[j].n = calls[j].n /\ calls[j].at = "sent"
    PROVE  FieldIsSent' /\ FieldIsDone'
  <1>1. \A j \in DOMAIN calls : InFlight(j)' =>
            /\ InFlight(j) /\ calls'[j].token = calls[j].token /\ (Shown(j)' <=> Shown(j))
            /\ (OfForm(j)' <=> OfForm(j)) /\ (Watched(j)' <=> Watched(j))
            /\ (Clears(j)' <=> Clears(j)) /\ (AtLast(j)' <=> AtLast(j))
    <2> SUFFICES ASSUME NEW j \in DOMAIN calls, InFlight(j)'
                 PROVE  /\ InFlight(j) /\ calls'[j].token = calls[j].token /\ (Shown(j)' <=> Shown(j))
                        /\ (OfForm(j)' <=> OfForm(j)) /\ (Watched(j)' <=> Watched(j))
                        /\ (Clears(j)' <=> Clears(j)) /\ (AtLast(j)' <=> AtLast(j))
      OBVIOUS
    <2>1. /\ InFlight(j) /\ calls'[j].token = calls[j].token /\ calls'[j].by = calls[j].by
          /\ calls'[j].n = calls[j].n /\ calls'[j].visit = calls[j].visit
      BY DEF InFlight, Same
    <2>2. QED
      BY <2>1 DEF Shown, Name, At, Step, OfForm, Clears, AtLast, Watched, The
  <1>2. \A t : Kept(t)' => Kept(t) /\ t \notin again'
    BY DEF Kept
  <1>3. FieldIsSent'
    <2> SUFFICES ASSUME NEW j \in DOMAIN calls, SendsKept(j)'
                 PROVE  /\ OfForm(j)' /\ Clears(j)' /\ Shown(j)'
                        /\ \A k \in DOMAIN calls : InFlight(k)' /\ OfForm(k)' /\ Watched(k)' => j = k
      BY DEF FieldIsSent
    <2>1. InFlight(j)' /\ SendsKept(j)
      <3>1. InFlight(j)' /\ draft = calls'[j].token /\ draft # 0 /\ draft \notin again
        BY DEF SendsKept, Kept
      <3>2. QED
        BY <1>1, <3>1 DEF SendsKept, Kept
    <2>2. QED
      BY <1>1, <2>1 DEF FieldIsSent
  <1>4. FieldIsDone'
    <2> SUFFICES ASSUME NEW t \in Tokens, Kept(t)', landed'[t] > 0
                 PROVE  \E i \in DOMAIN calls : /\ calls'[i].at = "done" /\ calls'[i].token = t
                                                /\ AtLast(i)'
      BY DEF FieldIsDone
    <2>1. Kept(t) /\ landed[t] > 0
      BY <1>2
    <2>2. PICK i \in DOMAIN calls : /\ calls[i].at = "done" /\ calls[i].token = t
                                    /\ AtLast(i)
      BY <2>1 DEF FieldIsDone
    <2>3. calls'[i] = calls[i]
      BY <2>2
    <2>4. AtLast(i)'
      BY <2>2, <2>3 DEF AtLast, The
    <2>5. QED
      BY <2>2, <2>3, <2>4
  <1>5. QED
    BY <1>3, <1>4

\* An empty field has nothing to keep, and so has one with a text that was not sent.
LEMMA FieldIsFresh ==
    ASSUME draft' = 0 \/ /\ \A j \in DOMAIN calls' : InFlight(j)' => calls'[j].token # draft'
                         /\ draft' \in Tokens => ~(landed'[draft'] > 0)
    PROVE  FieldIsSent' /\ FieldIsDone'
  BY DEF FieldIsSent, FieldIsDone, SendsKept, Kept

\* A control used keeps the field's text watched.
LEMMA FieldPressed ==
    ASSUME ClientTypes, Past, SendsInv, area' = area, NEW c \in Controls, Press(c)
    PROVE  FieldIsSent' /\ FieldIsDone'
  <1>0. FieldIsSent /\ FieldIsDone /\ made \in Nat /\ draft \in 0..made
    BY AreasAssumption DEF SendsInv, ClientTypes
  <1>1. UNCHANGED <<draft, visit, landed>> /\ again \subseteq again'
    BY DEF Press, formVars
  <1>2. PICK N : N = Len(calls) + 1
    OBVIOUS
  <1>3. PICK first : first = The(c).does[1].name
    OBVIOUS
  <1>4. /\ DOMAIN calls' = DOMAIN calls \cup {N} /\ N \notin DOMAIN calls
        /\ \A j \in DOMAIN calls : calls'[j] = calls[j]
        /\ calls'[N].by = c /\ calls'[N].n = 1 /\ calls'[N].visit = visit
        /\ calls'[N].token = IF The(c).field = "text" THEN draft ELSE made + 1
    BY <1>2, PressDoes
  <1>5. latest' = [m \in DOMAIN latest \cup {first} |-> IF m = first THEN N ELSE latest[m]]
    <2>1. latest' = [m \in DOMAIN latest \cup {first} |-> IF m = first THEN Len(calls') ELSE latest[m]]
      BY <1>3 DEF Press
    <2>2. Len(calls') = N
      BY <1>2, PressDoes
    <2>3. QED
      BY <2>1, <2>2
  <1>6. \A j \in DOMAIN calls : /\ InFlight(j)' <=> InFlight(j)
                                /\ OfForm(j)' <=> OfForm(j)
                                /\ (Clears(j)' <=> Clears(j)) /\ (AtLast(j)' <=> AtLast(j))
                                /\ Name(j)' = Name(j)
    BY <1>4 DEF InFlight, OfForm, Clears, AtLast, The, Name, At, Step
  <1>7. \A j \in DOMAIN calls : /\ Watched(j)' => Watched(j)
                                /\ Shown(j) /\ Name(j) # first => Shown(j)'
    <2> SUFFICES ASSUME NEW j \in DOMAIN calls
                 PROVE  /\ Watched(j)' => Watched(j)
                        /\ Shown(j) /\ Name(j) # first => Shown(j)'
      OBVIOUS
    <2>1. ASSUME Watched(j)' PROVE Watched(j)
      <3>1. PICK n \in DOMAIN The(calls[j].by).does :
               LET name == The(calls[j].by).does[n].name IN name \in DOMAIN latest' /\ latest'[name] = j
        <4>1. PICK n \in DOMAIN The(calls'[j].by).does :
                 LET name == The(calls'[j].by).does[n].name IN name \in DOMAIN latest' /\ latest'[name] = j
          BY <2>1 DEF Watched, The
        <4>2. QED
          BY <1>4, <4>1
      <3>2. PICK name : name = The(calls[j].by).does[n].name
        OBVIOUS
      <3>3. name \in DOMAIN latest /\ latest[name] = j
        BY <1>4, <1>5, <3>1, <3>2
      <3>4. QED
        BY <3>2, <3>3 DEF Watched
    <2>2. ASSUME Shown(j), Name(j) # first PROVE Shown(j)'
      <3>1. PICK name : name = Name(j)
        OBVIOUS
      <3>2. name \in DOMAIN latest /\ latest[name] = j /\ calls[j].visit = visit /\ name # first
        BY <2>2, <3>1 DEF Shown
      <3>3. name \in DOMAIN latest' /\ latest'[name] = j /\ calls'[j].visit = visit'
        BY <1>1, <1>4, <1>5, <3>2
      <3>4. QED
        BY <1>6, <3>1, <3>3 DEF Shown
    <2>3. QED
      BY <2>1, <2>2
  <1>8. /\ 1 \in DOMAIN The(c).does /\ Name(N)' = first
        /\ (OfForm(N)' <=> The(c).field = "text") /\ (Clears(N)' <=> The(c).clears)
    BY <1>3, <1>4, AreaFacts DEF The, Name, At, Step, OfForm, Clears
  <1>9. FieldIsDone'
    <2> SUFFICES ASSUME NEW t \in Tokens, Kept(t)', landed'[t] > 0
                 PROVE  \E i \in DOMAIN calls' : /\ calls'[i].at = "done" /\ calls'[i].token = t
                                                 /\ AtLast(i)'
      BY DEF FieldIsDone
    <2>1. Kept(t) /\ landed[t] > 0
      BY <1>1 DEF Kept
    <2>2. PICK i \in DOMAIN calls : /\ calls[i].at = "done" /\ calls[i].token = t
                                    /\ AtLast(i)
      BY <1>0, <2>1 DEF FieldIsDone
    <2>3. QED
      BY <1>4, <1>6, <2>2
  <1>10. FieldIsSent'
    <2> SUFFICES ASSUME NEW j \in DOMAIN calls', SendsKept(j)'
                 PROVE  /\ OfForm(j)' /\ Clears(j)' /\ Shown(j)'
                        /\ \A k \in DOMAIN calls' : InFlight(k)' /\ OfForm(k)' /\ Watched(k)' => j = k
      BY DEF FieldIsSent
    <2>0. /\ calls'[j].token = draft /\ draft \notin again' /\ draft # 0 /\ Kept(draft)
          /\ InFlight(j)'
      BY <1>1 DEF Kept, SendsKept
    <2>1. CASE The(c).field = "text"
      <3>1. /\ The(c).clears /\ ~Pending(c)
            /\ \A k \in DOMAIN calls : InFlight(k) => calls[k].token # draft
        BY <1>0, <2>0, <2>1, TextIsNew
      <3>2. j = N
        BY <1>4, <1>6, <2>0, <3>1
      <3>3. OfForm(N)' /\ Clears(N)'
        BY <1>8, <2>1, <3>1
      <3>4. Shown(N)'
        BY <1>1, <1>4, <1>5, <1>8 DEF Shown
      <3>5. ASSUME NEW k \in DOMAIN calls, InFlight(k), OfForm(k), Watched(k) PROVE FALSE
        <4>1. calls[k].by \in Controls
          BY <3>5 DEF ClientTypes, CallTypes, Placed
        <4>2. PICK n \in DOMAIN The(calls[k].by).does : Observed(The(calls[k].by).does[n].name)
          BY <3>5 DEF Watched, Observed
        <4>3. SameForm(c, calls[k].by)
          BY <2>1, <3>5 DEF SameForm, OfForm
        <4>4. QED
          BY <3>1, <4>1, <4>2, <4>3 DEF Pending
      <3>6. \A k \in DOMAIN calls' : InFlight(k)' /\ OfForm(k)' /\ Watched(k)' => k = N
        BY <1>4, <1>6, <1>7, <3>5
      <3>7. QED
        BY <3>2, <3>3, <3>4, <3>6
    <2>2. CASE The(c).field # "text"
      <3>1. calls'[N].token # draft
        BY <1>0, <1>4, <2>2
      <3>2. j \in DOMAIN calls /\ InFlight(j) /\ calls[j].token = draft
        BY <1>4, <1>6, <2>0, <3>1
      <3>3. /\ OfForm(j) /\ Clears(j) /\ Shown(j)
            /\ \A k \in DOMAIN calls : InFlight(k) /\ OfForm(k) /\ Watched(k) => j = k
        BY <1>0, <2>0, <3>2 DEF FieldIsSent, SendsKept
      <3>4. Name(j) # first
        <4>1. calls[j].by \in Controls /\ calls[j].n \in DOMAIN The(calls[j].by).does
          BY <3>2 DEF ClientTypes, CallTypes, Placed
        <4>2. The(calls[j].by).does[calls[j].n].name # The(c).does[1].name
          BY <1>8, <2>2, <3>3, <4>1, FormFacts DEF OfForm, Clears
        <4>3. QED
          BY <1>3, <4>2 DEF Name, At, Step
      <3>5. ~OfForm(N)'
        BY <1>8, <2>2
      <3>6. QED
        BY <1>4, <1>6, <1>7, <3>2, <3>3, <3>4, <3>5
    <2>3. QED
      BY <2>1, <2>2
  <1>11. QED
    BY <1>9, <1>10

\* A request that goes on to the next change is watched under its hook, too.
LEMMA FieldGoesOn ==
    ASSUME ClientTypes, SendsInv, area' = area, NEW i \in DOMAIN calls, Succeed(i),
           calls[i].n # Len(The(calls[i].by).does), draft' # 0
    PROVE  FieldIsSent' /\ FieldIsDone'
  <1> DEFINE next == The(calls[i].by).does[calls[i].n + 1].name
             shown == here /\ Shown(i)
  <1>0. FieldIsSent /\ FieldIsDone /\ FieldInv
    BY DEF SendsInv
  <1>1. /\ UNCHANGED <<draft, visit, landed, again>>
        /\ latest' = IF ~shown THEN latest
                     ELSE [m \in DOMAIN latest \cup {next} |-> IF m = next THEN i ELSE latest[m]]
    BY Zenon DEF Succeed, Gone, Shown, Name, At
  <1>2. here /\ draft # 0
    BY <1>0, <1>1 DEF FieldInv
  <1>3. /\ Others(i) /\ Same(i) /\ calls[i].at = "done" /\ calls'[i].at = "sent"
        /\ calls'[i].n = calls[i].n + 1
    BY SucceedDoes
  <1>4. PICK name : name = next
    OBVIOUS
  <1>5. Name(i)' = name
    BY <1>3, <1>4 DEF Name, At, Step, The, Same
  <1>6. latest' = IF ~Shown(i) THEN latest
                  ELSE [m \in DOMAIN latest \cup {name} |-> IF m = name THEN i ELSE latest[m]]
    BY <1>1, <1>2, <1>4
  <1> HIDE DEF next
  <1>7. \A j \in DOMAIN calls : /\ InFlight(j)' => InFlight(j)
                                /\ calls'[j].token = calls[j].token /\ calls'[j].by = calls[j].by
                                /\ calls'[j].visit = calls[j].visit
                                /\ (OfForm(j)' <=> OfForm(j)) /\ (Clears(j)' <=> Clears(j))
    BY <1>3 DEF InFlight, OfForm, Clears, The, Others, Same
  <1>8. \A j \in DOMAIN calls : j # i => /\ Watched(j)' => Watched(j)
                                         /\ Name(j)' = Name(j)
                                         /\ AtLast(j) => AtLast(j)'
    <2> SUFFICES ASSUME NEW j \in DOMAIN calls, j # i
                 PROVE  /\ Watched(j)' => Watched(j)
                        /\ Name(j)' = Name(j)
                        /\ AtLast(j) => AtLast(j)'
      OBVIOUS
    <2>1. calls'[j] = calls[j]
      BY <1>3 DEF Others
    <2>2. Name(j)' = Name(j) /\ (AtLast(j) => AtLast(j)')
      BY <2>1 DEF Name, At, Step, The, AtLast
    <2>3. ASSUME Watched(j)' PROVE Watched(j)
      <3>1. PICK n \in DOMAIN The(calls[j].by).does :
               /\ The(calls[j].by).does[n].name \in DOMAIN latest'
               /\ latest'[The(calls[j].by).does[n].name] = j
        BY <2>1, <2>3 DEF Watched, The
      <3>2. PICK m : m = The(calls[j].by).does[n].name
        OBVIOUS
      <3>3. m \in DOMAIN latest /\ latest[m] = j
        BY <1>6, <3>1, <3>2
      <3>4. QED
        BY <3>2, <3>3 DEF Watched
    <2>4. QED
      BY <2>2, <2>3
  <1>9. FieldIsDone'
    <2> SUFFICES ASSUME NEW t \in Tokens, Kept(t)', landed[t] > 0
                 PROVE  \E k \in DOMAIN calls : calls'[k].at = "done" /\ calls'[k].token = t /\ AtLast(k)'
      BY <1>1, <1>3 DEF FieldIsDone, Others
    <2>1. Kept(t)
      BY <1>1 DEF Kept
    <2>2. PICK k \in DOMAIN calls : calls[k].at = "done" /\ calls[k].token = t /\ AtLast(k)
      BY <1>0, <2>1 DEF FieldIsDone
    <2>3. k # i
      BY <2>2 DEF AtLast
    <2>4. QED
      BY <1>3, <1>8, <2>2, <2>3 DEF Others
  <1>10. FieldIsSent'
    <2> SUFFICES ASSUME NEW j \in DOMAIN calls, SendsKept(j)'
                 PROVE  /\ OfForm(j)' /\ Clears(j)' /\ Shown(j)'
                        /\ \A k \in DOMAIN calls : InFlight(k)' /\ OfForm(k)' /\ Watched(k)' => j = k
      BY <1>3 DEF FieldIsSent, Others
    <2>1. SendsKept(j)
      BY <1>1, <1>7 DEF SendsKept, Kept
    <2>2. /\ OfForm(j) /\ Clears(j) /\ Shown(j)
          /\ \A k \in DOMAIN calls : InFlight(k) /\ OfForm(k) /\ Watched(k) => j = k
      BY <1>0, <2>1 DEF FieldIsSent
    <2>3. \A k \in DOMAIN calls : InFlight(k) /\ OfForm(k) /\ Shown(k) => j = k
      <3> SUFFICES ASSUME NEW k \in DOMAIN calls, InFlight(k), Shown(k) PROVE Watched(k)
        BY <2>2
      <3>1. calls[k].n \in DOMAIN The(calls[k].by).does
        BY DEF ClientTypes, CallTypes, Placed
      <3>2. QED
        BY <3>1 DEF Shown, Watched, Name, At, Step
    <2>4. CASE j = i
      <3>1. Shown(i)'
        BY <1>1, <1>5, <1>6, <1>7, <2>2, <2>4 DEF Shown
      <3>2. QED
        BY <1>7, <1>8, <2>2, <2>4, <3>1
    <2>5. CASE j # i
      <3>1. InFlight(i) /\ (Shown(i) => ~OfForm(i))
        BY <1>3, <2>3, <2>5 DEF InFlight
      <3>2. Shown(j)'
        <4>1. CASE ~Shown(i)
          BY <1>1, <1>6, <1>7, <1>8, <2>2, <2>5, <4>1 DEF Shown
        <4>2. CASE Shown(i)
          <5>1. ~OfForm(i)
            BY <3>1, <4>2
          <5>2. /\ calls[i].by \in Controls /\ calls[j].by \in Controls
                /\ calls[j].n \in DOMAIN The(calls[j].by).does
                /\ calls[i].n \in DOMAIN The(calls[i].by).does
            BY <2>1, <3>1 DEF ClientTypes, CallTypes, Placed, SendsKept
          <5>3. calls[i].n + 1 \in DOMAIN The(calls[i].by).does
            BY <5>2, AreaFacts
          <5>4. Name(j) # name
            BY <1>4, <2>2, <5>1, <5>2, <5>3, FormFacts DEF OfForm, Clears, Name, At, Step, next
          <5>5. PICK m : m = Name(j)
            OBVIOUS
          <5>6. m \in DOMAIN latest' /\ latest'[m] = j
            BY <1>6, <2>2, <5>4, <5>5 DEF Shown
          <5>7. QED
            BY <1>1, <1>7, <1>8, <2>2, <2>5, <5>5, <5>6 DEF Shown
        <4>3. QED
          BY <4>1, <4>2
      <3>3. ~(OfForm(i)' /\ Watched(i)')
        <4> SUFFICES ASSUME OfForm(i), Watched(i)' PROVE FALSE
          BY <1>7
        <4>1. ~Shown(i)
          BY <3>1
        <4>2. latest' = latest
          BY <1>6, <4>1
        <4>3. Watched(i)
          BY <1>7, <4>2 DEF Watched, The
        <4>4. QED
          BY <2>2, <2>5, <3>1, <4>3
      <3>4. QED
        BY <1>7, <1>8, <2>2, <3>2, <3>3
    <2>6. QED
      BY <2>4, <2>5
  <1>11. QED
    BY <1>9, <1>10

\* Every action keeps a text in the field that is being sent watched, or empties the field.
LEMMA SentNext == ClientTypes /\ Past /\ SendsInv /\ [Next]_vars => FieldIsSent' /\ FieldIsDone'
  <1> SUFFICES ASSUME ClientTypes, Past, SendsInv, [Next]_vars PROVE FieldIsSent' /\ FieldIsDone'
    OBVIOUS
  <1>0. /\ FieldIsSent /\ FieldIsDone /\ FieldInv /\ made \in Nat /\ CallTypes
        /\ \A j \in DOMAIN calls : InFlight(j) => calls[j].token <= made
        /\ \A t \in Tokens : landed[t] > 0 => t <= made
        /\ landed \in [Tokens -> Nat]
    BY AreasAssumption DEF SendsInv, ClientTypes, Past
  <1>1. area' = area
    BY Zenon
       DEF Next, Read, Arrive, FetchFails, Grow, Poll, Open, Leave, Type, Press, Serve, Refuse,
           Succeed, Fail, Cool, Elsewhere, Pushed, NewsLost, vars
  <1>2. CASE draft' = 0
    BY <1>2, FieldIsFresh
  <1>3. CASE /\ draft' # 0
             /\ \/ Read \/ Arrive \/ FetchFails \/ Grow \/ Poll \/ Cool \/ Elsewhere \/ Pushed \/ NewsLost
                \/ UNCHANGED vars
    <2>1. UNCHANGED <<calls, landed, again, latest, visit>>
      BY <1>3
         DEF Read, Arrive, FetchFails, Grow, Poll, Cool, Elsewhere, Pushed, NewsLost, vars, callVars
    <2>2. draft' = draft
      BY <1>3
         DEF Read, Arrive, FetchFails, Grow, Poll, Cool, Elsewhere, Pushed, NewsLost, vars, formVars
    <2>3. QED
      BY <1>0, <1>1, <2>1, <2>2, FieldFrame
  <1>4. CASE draft' # 0 /\ (Open \/ Leave)
    <2>1. draft' = 0
      BY <1>0, <1>4 DEF Open, Leave, Gone, FieldInv, formVars
    <2>2. QED
      BY <1>4, <2>1
  <1>5. CASE Type
    <2>1. draft' = made + 1 /\ UNCHANGED <<calls, landed>>
      BY <1>5 DEF Type, callVars
    <2>2. \A j \in DOMAIN calls : InFlight(j)' => calls[j].token # draft'
      BY <1>0, <2>1 DEF InFlight
    <2>3. draft' \in Tokens => ~(landed'[draft'] > 0)
      BY <1>0, <2>1
    <2>4. QED
      BY <2>1, <2>2, <2>3, FieldIsFresh
  <1>6. ASSUME NEW c \in Controls, Press(c) PROVE FieldIsSent' /\ FieldIsDone'
    BY <1>1, <1>6, FieldPressed
  <1>7. ASSUME NEW i \in DOMAIN calls, Serve(i) PROVE FieldIsSent' /\ FieldIsDone'
    <2>1. UNCHANGED <<draft, latest, visit>>
      BY <1>7, Zenon DEF Serve, formVars
    <2>2. /\ calls[i].at = "sent" /\ Others(i) /\ Same(i) /\ calls'[i].n = calls[i].n
          /\ calls'[i].at \in {"done", "failed"}
          /\ again' = IF calls'[i].at = "failed" THEN again \cup {calls[i].token} ELSE again
          /\ landed' = IF calls[i].n = Len(The(calls[i].by).does)
                       THEN [landed EXCEPT ![calls[i].token] = @ + 1] ELSE landed
      BY <1>7, ServeDoes
    <2>3. again \subseteq again' /\ calls[i].token \in Tokens
      BY <2>2, CallFacts
    <2>4. CASE landed' = landed \/ calls'[i].at = "failed"
      <3>1. \A t \in Tokens : t \notin again' => landed'[t] = landed[t]
        BY <1>0, <2>2, <2>3, <2>4
      <3>2. QED
        BY <1>0, <1>1, <2>1, <2>2, <2>3, <3>1, FieldFrame DEF Others
    <2>5. CASE landed' # landed /\ calls'[i].at = "done"
      <3>1. AtLast(i)' /\ landed' = [landed EXCEPT ![calls[i].token] = @ + 1]
        BY <1>1, <2>2, <2>5 DEF AtLast, The, Same
      <3>2. FieldIsDone'
        <4> SUFFICES ASSUME NEW t \in Tokens, Kept(t)', landed'[t] > 0
                     PROVE  \E k \in DOMAIN calls : calls'[k].at = "done" /\ calls'[k].token = t /\ AtLast(k)'
          BY <2>2 DEF FieldIsDone, Others
        <4>1. CASE t = calls[i].token
          BY <2>2, <2>5, <3>1, <4>1 DEF Same
        <4>2. CASE t # calls[i].token
          <5>1. Kept(t) /\ landed[t] > 0
            BY <1>0, <2>1, <2>3, <3>1, <4>2 DEF Kept
          <5>2. PICK k \in DOMAIN calls : calls[k].at = "done" /\ calls[k].token = t /\ AtLast(k)
            BY <1>0, <5>1 DEF FieldIsDone
          <5>3. k # i /\ calls'[k] = calls[k]
            BY <2>2, <5>2 DEF Others
          <5>4. AtLast(k)'
            BY <1>1, <5>2, <5>3 DEF AtLast, The
          <5>5. QED
            BY <5>2, <5>3, <5>4
        <4>3. QED
          BY <4>1, <4>2
      <3>3. FieldIsSent'
        <4>1. \A j \in DOMAIN calls :
                  /\ SendsKept(j)' => SendsKept(j)
                  /\ InFlight(j)' <=> InFlight(j)
                  /\ Shown(j)' <=> Shown(j)
                  /\ OfForm(j)' <=> OfForm(j)
                  /\ Clears(j)' <=> Clears(j)
                  /\ Watched(j)' <=> Watched(j)
          <5> SUFFICES ASSUME NEW j \in DOMAIN calls
                       PROVE  /\ SendsKept(j)' => SendsKept(j)
                              /\ InFlight(j)' <=> InFlight(j)
                              /\ Shown(j)' <=> Shown(j)
                              /\ OfForm(j)' <=> OfForm(j)
                              /\ Clears(j)' <=> Clears(j)
                              /\ Watched(j)' <=> Watched(j)
            OBVIOUS
          <5>1. /\ calls'[j].by = calls[j].by /\ calls'[j].n = calls[j].n /\ calls'[j].visit = calls[j].visit
                /\ calls'[j].token = calls[j].token /\ (calls'[j].at # "over" <=> calls[j].at # "over")
            BY <2>2 DEF Others, Same
          <5>2. InFlight(j)' <=> InFlight(j)
            BY <2>2, <5>1 DEF InFlight, Others
          <5>3. QED
            BY <1>1, <2>1, <2>3, <5>1, <5>2
               DEF SendsKept, Kept, Shown, Name, At, Step, The, OfForm, Clears, Watched
        <4>2. DOMAIN calls' = DOMAIN calls
          BY <2>2 DEF Others
        <4>3. QED
          BY <1>0, <4>1, <4>2 DEF FieldIsSent
      <3>4. QED
        BY <3>2, <3>3
    <2>6. QED
      BY <2>2, <2>4, <2>5
  <1>8. ASSUME NEW i \in DOMAIN calls, Refuse(i) PROVE FieldIsSent' /\ FieldIsDone'
    <2>1. UNCHANGED <<draft, latest, visit, landed, again>>
      BY <1>8 DEF Refuse, formVars
    <2>2. calls[i].at = "sent" /\ Others(i) /\ Same(i) /\ calls'[i].n = calls[i].n
      BY <1>8, RefuseDoes
    <2>3. QED
      BY <1>0, <1>1, <2>1, <2>2, FieldFrame DEF Others
  <1>9. ASSUME NEW i \in DOMAIN calls, Fail(i), draft' # 0 PROVE FieldIsSent' /\ FieldIsDone'
    <2>1. UNCHANGED <<draft, latest, visit, landed, again>>
      BY <1>9 DEF Fail, Gone, Failed, formVars
    <2>2. calls[i].at = "failed" /\ Others(i) /\ calls'[i].at = "over"
      BY <1>9, FailDoes
    <2>3. QED
      BY <1>0, <1>1, <2>1, <2>2, FieldFrame DEF Others
  <1>10. ASSUME NEW i \in DOMAIN calls, Succeed(i), draft' # 0, AtLast(i) PROVE FieldIsSent' /\ FieldIsDone'
    <2>1. /\ UNCHANGED <<draft, visit, landed, again, latest>>
          /\ ~(here /\ Shown(i) /\ Clears(i))
      BY <1>10, Zenon DEF Succeed, Gone, AtLast, Shown, Name, At, Clears
    <2>2. Others(i) /\ calls'[i].at = "over" /\ calls[i].at = "done"
      BY <1>10, SucceedDoes DEF AtLast
    <2>3. here
      BY <1>0, <1>10, <2>1 DEF FieldInv
    <2>4. ~SendsKept(i)
      BY <1>0, <2>1, <2>3 DEF FieldIsSent
    <2>5. \A j \in DOMAIN calls : j # i =>
              /\ calls'[j] = calls[j] /\ (SendsKept(j)' <=> SendsKept(j)) /\ (InFlight(j)' <=> InFlight(j))
              /\ (Shown(j)' <=> Shown(j)) /\ (OfForm(j)' <=> OfForm(j)) /\ (Clears(j)' <=> Clears(j))
              /\ (Watched(j)' <=> Watched(j)) /\ (AtLast(j)' <=> AtLast(j))
      <3> SUFFICES ASSUME NEW j \in DOMAIN calls, j # i
                   PROVE  /\ calls'[j] = calls[j] /\ (SendsKept(j)' <=> SendsKept(j))
                          /\ (InFlight(j)' <=> InFlight(j)) /\ (Shown(j)' <=> Shown(j))
                          /\ (OfForm(j)' <=> OfForm(j)) /\ (Clears(j)' <=> Clears(j))
                          /\ (Watched(j)' <=> Watched(j)) /\ (AtLast(j)' <=> AtLast(j))
        OBVIOUS
      <3>1. calls'[j] = calls[j] /\ DOMAIN calls' = DOMAIN calls
        BY <2>2 DEF Others
      <3>2. QED
        BY <1>1, <2>1, <3>1
           DEF SendsKept, Kept, InFlight, Shown, Name, At, Step, The, OfForm, Clears, Watched, AtLast
    <2>6. ~InFlight(i)' /\ DOMAIN calls' = DOMAIN calls /\ ~SendsKept(i)'
      BY <2>2 DEF InFlight, SendsKept, Others
    <2>7. FieldIsSent'
      BY <1>0, <2>5, <2>6 DEF FieldIsSent
    <2>8. FieldIsDone'
      <3> SUFFICES ASSUME NEW t \in Tokens, Kept(t)', landed[t] > 0
                   PROVE  \E k \in DOMAIN calls : calls'[k].at = "done" /\ calls'[k].token = t /\ AtLast(k)'
        BY <2>1, <2>6 DEF FieldIsDone
      <3>1. Kept(t)
        BY <2>1 DEF Kept
      <3>2. PICK k \in DOMAIN calls : calls[k].at = "done" /\ calls[k].token = t /\ AtLast(k)
        BY <1>0, <3>1 DEF FieldIsDone
      <3>3. SendsKept(k)
        BY <3>1, <3>2 DEF SendsKept, InFlight
      <3>4. QED
        BY <2>4, <2>5, <3>2, <3>3
    <2>9. QED
      BY <2>7, <2>8
  <1>11. ASSUME NEW i \in DOMAIN calls, Succeed(i), draft' # 0, ~AtLast(i) PROVE FieldIsSent' /\ FieldIsDone'
    BY <1>1, <1>11, FieldGoesOn DEF AtLast
  <1>12. QED
    BY <1>2, <1>3, <1>4, <1>5, <1>6, <1>7, <1>8, <1>9, <1>10, <1>11 DEF Next

-----------------------------------------------------------------------------
(* Theorems *)

\* At the start nothing was typed, sent or changed.
LEMMA InvariantInit == Init => ClientInv
  <1> SUFFICES ASSUME Init PROVE ClientInv
    OBVIOUS
  <1>1. calls = <<>> /\ DOMAIN calls = {}
    BY DEF Init
  <1>2. ClientTypes
    <2>1. calls \in Seq(Call)
      BY <1>1
    <2>2. 0 \in Nat /\ MaxTokens \in Nat
      BY AreasAssumption
    <2>3. CallTypes
      BY <1>1, <2>1 DEF CallTypes
    <2>4. QED
      BY <2>2, <2>3 DEF Init, ClientTypes
  <1>3. Past
    BY <1>1, AreasAssumption DEF Init, Past
  <1>4. ChangesInv
    BY <1>1 DEF Init, ChangesInv, MineKept, DoneIsServed, WholeIsFresh, AnswerIsFresh, DataIsFresh
  <1>5. SendsInv
    BY <1>1 DEF Init, SendsInv, FieldInv, LandsOnce, FieldIsSent, FieldIsDone, Kept
  <1>6. QED
    BY <1>2, <1>3, <1>4, <1>5 DEF ClientInv

\* Whatever the person does, the server answers and the socket tells, in any order: the requests under way,
\* the cache and the form stay in step with what was accepted.
THEOREM InvariantHolds == Spec => []ClientInv
  <1>1. ClientInv /\ [Next]_vars => ClientInv'
    <2> SUFFICES ASSUME ClientInv, [Next]_vars PROVE ClientInv'
      OBVIOUS
    <2>1. ClientTypes /\ Past /\ ChangesInv /\ SendsInv /\ FieldInv
      BY DEF ClientInv, SendsInv
    <2>2. ClientTypes' /\ Past' /\ ChangesInv'
      BY <2>1, TypesNext, PastNext, ChangesNext
    <2>3. SendsInv'
      BY <2>1, FieldNext, LandsNext, SentNext DEF SendsInv
    <2>4. QED
      BY <2>2, <2>3 DEF ClientInv
  <1>2. QED
    BY <1>1, InvariantInit, PTL DEF Spec

\* FormsHold: a form's text is sent once and not lost, for every screen whose tables are as assumed and any
\* number of requests.
THEOREM FormsAreKept == Spec => []FormsHold
  <1>1. ClientInv => FormsHold
    <2> SUFFICES ASSUME ClientInv PROVE FormsHold
      OBVIOUS
    <2>1. FieldInv /\ LandsOnce
      BY DEF ClientInv, SendsInv
    <2>2. TypedTextSurvives
      BY <2>1 DEF FieldInv, TypedTextSurvives
    <2>3. SentOnce
      <3> SUFFICES ASSUME NEW t \in Tokens, landed[t] > 1, t \notin again PROVE FALSE
        BY DEF SentOnce
      <3>1. landed[t] <= 1 /\ landed[t] \in Nat
        BY <2>1 DEF LandsOnce, ClientInv, ClientTypes
      <3>2. QED
        BY <3>1
    <2>4. QED
      BY <2>2, <2>3 DEF FormsHold
  <1>2. QED
    BY <1>1, InvariantHolds, PTL

\* OwnChangesHold: a settled screen shows the person's own changes, whatever fetches, pushes and answers
\* overtook each other, and no control undoes them unnoticed.
THEOREM ChangesAreShown == Spec => []OwnChangesHold
  <1>1. ClientInv => OwnChangesHold
    BY DEF ClientInv, ChangesInv, MineKept, DataIsFresh, OwnChangesHold, Settled
  <1>2. QED
    BY <1>1, InvariantHolds, PTL

\* The rest of the types: openings, flags, the fetch and the number of requests.
Flags ==
    /\ visit \in 1..MaxVisits /\ here \in BOOLEAN /\ loaded \in BOOLEAN /\ stale \in BOOLEAN
    /\ fetch \in {"idle", "asked", "read"} /\ Len(calls) <= MaxCalls

\* Every action keeps them.
LEMMA FlagsNext == ClientTypes /\ Flags /\ [Next]_vars => Flags'
  <1> SUFFICES ASSUME ClientTypes, Flags, [Next]_vars PROVE Flags'
    OBVIOUS
  <1> USE DEF cacheVars, formVars, callVars
  <1>0. MaxVisits \in Nat /\ MaxCalls \in Nat /\ Len(calls) \in Nat /\ visit \in 1..MaxVisits
    BY AreasAssumption, CallFacts DEF Flags
  <1>1. CASE \/ Read \/ Arrive \/ FetchFails \/ Grow \/ Poll \/ Open \/ Leave \/ Type \/ Cool \/ Elsewhere
             \/ NewsLost \/ UNCHANGED vars
    <2>1. calls' = calls
      BY <1>1
         DEF Read, Arrive, FetchFails, Grow, Poll, Open, Leave, Type, Cool, Elsewhere, NewsLost, vars
    <2>2. visit' \in 1..MaxVisits
      BY <1>0, <1>1
         DEF Read, Arrive, FetchFails, Grow, Poll, Open, Leave, Type, Cool, Elsewhere, NewsLost, vars
    <2>3. here' \in BOOLEAN /\ loaded' \in BOOLEAN /\ stale' \in BOOLEAN /\ fetch' \in {"idle", "asked", "read"}
      BY <1>1
         DEF Flags, Read, Arrive, FetchFails, Grow, Poll, Open, Leave, Gone, Type, Cool, Elsewhere,
             NewsLost, vars
    <2>4. QED
      BY <2>1, <2>2, <2>3 DEF Flags
  <1>2. CASE Pushed
    BY <1>2 DEF Flags, Pushed, Invalidated
  <1>3. ASSUME NEW c \in Controls, Press(c) PROVE Flags'
    <2>1. UNCHANGED <<visit, here, loaded, stale, fetch>> /\ Len(calls) < MaxCalls
      BY <1>3 DEF Press
    <2>2. Len(calls') = Len(calls) + 1
      BY <1>3, PressDoes
    <2>3. QED
      BY <1>0, <2>1, <2>2 DEF Flags
  <1>4. ASSUME NEW i \in DOMAIN calls, Serve(i) \/ Refuse(i) PROVE Flags'
    <2>1. UNCHANGED <<visit, here, loaded, stale, fetch>>
      BY <1>4, Zenon DEF Serve, Refuse
    <2>2. Len(calls') = Len(calls)
      BY <1>4, ServeDoes, RefuseDoes DEF Others
    <2>3. QED
      BY <2>1, <2>2 DEF Flags
  <1>5. ASSUME NEW i \in DOMAIN calls, Succeed(i) PROVE Flags'
    <2>1. visit' = visit /\ here' \in {here, FALSE}
      BY <1>5 DEF Succeed, Gone
    <2>2. PICK told, own : Replaced(calls[i].base, own) \/ Invalidated(told, own)
      BY <1>5, Zenon DEF Succeed
    <2>3. loaded' \in BOOLEAN /\ stale' \in BOOLEAN /\ fetch' \in {"idle", "asked", "read"}
      BY <2>2 DEF Flags, Replaced, Invalidated
    <2>4. Len(calls') = Len(calls)
      BY <1>5, SucceedDoes DEF Others
    <2>5. QED
      BY <2>1, <2>3, <2>4 DEF Flags
  <1>6. ASSUME NEW i \in DOMAIN calls, Fail(i) PROVE Flags'
    <2>1. UNCHANGED <<visit, loaded, stale, fetch>> /\ here' \in {here, FALSE}
      BY <1>6 DEF Fail, Gone
    <2>2. Len(calls') = Len(calls)
      BY <1>6, FailDoes DEF Others
    <2>3. QED
      BY <2>1, <2>2 DEF Flags
  <1>7. QED
    BY <1>1, <1>2, <1>3, <1>4, <1>5, <1>6 DEF Next

\* TypeOK: every variable keeps its type, for any areas and bounds.
THEOREM TypeCorrect == Spec => []TypeOK
  <1>1. Init => Flags
    <2> SUFFICES ASSUME Init PROVE Flags
      OBVIOUS
    <2>1. Len(calls) = 0 /\ 0 <= MaxCalls
      BY EmptySeq, AreasAssumption DEF Init
    <2>2. visit \in 1..MaxVisits
      BY AreasAssumption DEF Init
    <2>3. here \in BOOLEAN /\ loaded \in BOOLEAN /\ stale \in BOOLEAN /\ fetch \in {"idle", "asked", "read"}
      BY DEF Init
    <2>4. QED
      BY <2>1, <2>2, <2>3 DEF Flags
  <1>2. ClientInv /\ Flags /\ [Next]_vars => Flags'
    BY FlagsNext DEF ClientInv
  <1>3. ClientInv /\ Flags => TypeOK
    BY AreasAssumption DEF ClientInv, ClientTypes, Past, Flags, TypeOK, Tokens
  <1>4. QED
    BY <1>1, <1>2, <1>3, InvariantHolds, PTL DEF Spec
=============================================================================
