--------------------------- MODULE Accounts_proofs ---------------------------
(***************************************************************************)
(* Theorems about Accounts: a mailed secret works once, a refresh token is *)
(* exchanged once, signing out everywhere reaches every session, a         *)
(* deactivated account gets no token, and seats, keys and owners stay      *)
(* within the plan, for any number of requests, accounts with any of the   *)
(* rows that were there, faults and expiries.                              *)
(***************************************************************************)
EXTENDS Accounts, FiniteSetTheorems, TLAPS

-----------------------------------------------------------------------------
(* The inductive invariant *)

\* Where a request may stop, and where it has stopped.
Ended == {"done", "rejected", "failed"}

\* The control flow of the handlers: from what step to what step each kind of request goes.
Edge(kind, from, to) ==
    \/ to = "rejected" \/ to = "failed"
    \/ /\ kind = "register"
       /\ <<from, to>> \in {<<"start", "create">>, <<"create", "issue">>, <<"issue", "record">>,
                            <<"record", "clear">>, <<"clear", "new">>, <<"new", "done">>, <<"clear", "done">>}
    \/ /\ kind = "login"
       /\ <<from, to>> \in {<<"start", "issue">>, <<"start", "challenge">>, <<"challenge", "mail">>,
                            <<"mail", "done">>, <<"issue", "record">>, <<"record", "done">>}
    \/ /\ kind = "resend"
       /\ <<from, to>> \in {<<"start", "send">>, <<"send", "mail">>, <<"mail", "done">>}
    \/ /\ kind = "verify"
       /\ <<from, to>> \in {<<"start", "reserve">>, <<"reserve", "consume">>, <<"consume", "others">>,
                            <<"others", "issue">>, <<"issue", "record">>, <<"record", "done">>,
                            <<"record", "remember">>, <<"remember", "done">>}
    \/ /\ kind = "refresh"
       /\ <<from, to>> \in {<<"start", "drop">>, <<"drop", "retire">>, <<"retire", "user">>,
                            <<"user", "issue">>, <<"issue", "record">>, <<"record", "done">>}
    \/ /\ kind = "logout"
       /\ <<from, to>> \in {<<"start", "retire">>, <<"retire", "done">>, <<"start", "done">>}
    \/ /\ kind = "revokeSession"
       /\ <<from, to>> \in {<<"start", "drop">>, <<"drop", "mark">>, <<"mark", "done">>}
    \/ /\ kind = "logoutAll"
       /\ <<from, to>> \in {<<"start", "wipe">>, <<"wipe", "retireAll">>, <<"retireAll", "done">>}
    \/ /\ kind = "resetPassword"
       /\ <<from, to>> \in {<<"start", "apply">>, <<"apply", "signout">>, <<"signout", "wipe">>,
                            <<"wipe", "retireAll">>, <<"retireAll", "done">>}
    \/ /\ kind \in {"sendVerification", "forgotPassword"}
       /\ <<from, to>> \in {<<"start", "clear">>, <<"start", "done">>, <<"clear", "new">>,
                            <<"clear", "done">>, <<"new", "done">>}
    \/ kind = "verifyEmail" /\ <<from, to>> \in {<<"start", "apply">>, <<"apply", "done">>}
    \/ /\ kind = "invite"
       /\ <<from, to>> \in {<<"start", "seats">>, <<"seats", "create">>, <<"create", "mail">>,
                            <<"mail", "done">>}
    \/ kind = "revokeInvite" /\ <<from, to>> \in {<<"start", "write">>, <<"write", "done">>}
    \/ /\ kind = "accept"
       /\ <<from, to>> \in {<<"start", "expire">>, <<"start", "join">>, <<"join", "issue">>,
                            <<"issue", "record">>, <<"record", "done">>}
    \/ /\ kind \in {"updateRole", "setActive"}
       /\ <<from, to>> \in {<<"start", "count">>, <<"start", "write">>, <<"count", "write">>,
                            <<"write", "done">>}
    \/ kind = "createKey" /\ <<from, to>> \in {<<"start", "create">>, <<"create", "done">>}
    \/ kind = "revokeKey" /\ <<from, to>> = <<"start", "done">>

\* The steps of each kind of request.
Steps(kind) ==
    CASE kind = "register" -> {"create", "issue", "record", "clear", "new"}
      [] kind = "login" -> {"challenge", "mail", "issue", "record"}
      [] kind = "resend" -> {"send", "mail"}
      [] kind = "verify" -> {"reserve", "consume", "others", "issue", "record", "remember"}
      [] kind = "refresh" -> {"drop", "retire", "user", "issue", "record"}
      [] kind = "logout" -> {"retire"}
      [] kind = "revokeSession" -> {"drop", "mark"}
      [] kind = "logoutAll" -> {"wipe", "retireAll"}
      [] kind = "resetPassword" -> {"apply", "signout", "wipe", "retireAll"}
      [] kind \in {"sendVerification", "forgotPassword"} -> {"clear", "new"}
      [] kind = "verifyEmail" -> {"apply"}
      [] kind = "invite" -> {"seats", "create", "mail"}
      [] kind = "revokeInvite" -> {"write"}
      [] kind = "accept" -> {"expire", "join", "issue", "record"}
      [] kind \in {"updateRole", "setActive"} -> {"count", "write"}
      [] kind = "createKey" -> {"create"}
      [] OTHER -> {}

\* A request is at a step of its own handler.
OnItsWay == \A r \in Req : pc[r] \in Steps(Kind(r)) \cup Ended \cup {"free", "start"}

\* Requests come in the order of their numbers, and two that are not noted as together were
\* one after the other.
Sequential ==
    \A a, b \in Req :
        a < b /\ pc[b] # "free" => pc[a] # "free" /\ ({a, b} \in met \/ pc[a] \in Ended)

\* What a request still has in hand is about one account, but for the sessions it lists.
OneAccount ==
    \A r \in Req : pc[r] \notin Ended \cup {"wipe", "retireAll"} => \A u, v \in got[r] : u = v

\* t was there, or its request had ended, before request r began.
Before(t, r) == t \in Req => t < r /\ {t, r} \notin met

-----------------------------------------------------------------------------
(* Sign-in codes *)

Consumed == {"others", "issue", "record", "remember", "done"}

\* A code is used from its consumption on, by one request, and a request has made no code before
\* its step "challenge".
CodeInv ==
    /\ \A c \in Id : ~code[c].used => code[c].user \in Id
    /\ \A r \in Req : pc[r] \in {"free", "start", "challenge"} => code[r].used
    /\ \A r \in Req : Kind(r) = "verify" /\ pc[r] \in Consumed =>
          /\ code[On(r)].used
          /\ On(r) \in Req => pc[On(r)] \notin {"free", "start", "challenge"}
    /\ \A r, q \in Req :
          Kind(r) = "verify" /\ pc[r] \in Consumed /\ Kind(q) = "verify" /\ pc[q] \in Consumed
          /\ On(r) = On(q) => r = q

-----------------------------------------------------------------------------
(* Verification and reset links *)

Open(l, kind, u) == ~link[l].used /\ link[l].kind = kind /\ link[l].user = u

\* A link is stored by the last step of its request.  While a request for a link is about to store
\* it, and ever after, the other open ones of the account come from requests that overlapped it;
\* no reset link from before outlives a reset.
LinkInv ==
    /\ \A l \in Id : ~link[l].used => link[l].kind # "none" /\ link[l].user \in Id
    /\ \A l \in Req : link[l].kind # "none" => pc[l] = "done"
    /\ \A r \in Req : Kind(r) = "resetPassword" /\ pc[r] \notin {"start", "rejected", "failed"} =>
          link[On(r)].kind # "none"
    /\ \A r \in Req : pc[r] = "new" =>
          \A u \in got[r], l \in Id : Open(l, LinkKind(r), u) => {l, r} \in met
    /\ \A k, l \in Id : k # l /\ ~link[k].used /\ Open(l, link[k].kind, link[k].user) => {k, l} \in met
    /\ \A r \in Req : Kind(r) = "resetPassword" /\ pc[r] \in {"signout", "wipe", "retireAll", "done"} =>
          \A l \in Id : Open(l, "reset", SignsOut(r)) => l \in Req /\ (l > r \/ {l, r} \in met)

-----------------------------------------------------------------------------
(* Refresh tokens *)

\* The steps at which a request may have issued its token pair.
Issued == {"record", "remember", "clear", "new"} \cup Ended
Rewinds == {"free", "start", "rejected", "failed"}

\* A token and its row come from its request, the key before the row.
TokensAreIssued ==
    /\ \A t \in live : holder[t] \in Id
    /\ \A t \in Req : t \in live \/ holder[t] # None => pc[t] \in Issued
    /\ \A t \in Req : row[t] # "none" => pc[t] \in Issued \ {"record"}
    /\ \A t \in live \cap Req : row[t] = "none" => pc[t] \in {"record", "failed", "rejected"}
    /\ Session \in live => row[Session] # "none"

\* The steps at which a request has the token it bears out of Redis.
HasTaken(r) ==
    /\ Kind(r) \in {"refresh", "revokeSession", "logout"}
    /\ pc[r] \in {"retire", "mark", "user", "issue", "record"} \/ (pc[r] = "done" /\ Kind(r) # "logout")

\* What a request takes out of Redis was issued and does not come back.
TakenForGood ==
    \A r \in Req :
        /\ Kind(r) = "logout" /\ On(r) \in Req => pc[On(r)] \in Ended
        /\ Kind(r) \in {"refresh", "revokeSession"} /\ pc[r] \notin Rewinds /\ On(r) \in Req =>
              pc[On(r)] \in Issued
        /\ Kind(r) = "revokeSession" /\ pc[r] \notin Rewinds => row[On(r)] # "none"
        /\ HasTaken(r) => On(r) \notin live

\* One refresh after the other finds the token gone.
RefreshedOnce ==
    \A a, b \in Req :
        Kind(a) = "refresh" /\ Kind(b) = "refresh" /\ On(a) = On(b) /\ a < b /\ {a, b} \notin met
        /\ pc[a] = "done" => pc[b] \in Rewinds

\* Signing out everywhere reaches the tokens from before: first in what it has listed, then in
\* Redis, then in the rows; a row that is revoked under a live token was revoked by an overlap.
SignOutInv ==
    /\ \A t \in live : row[t] = "revoked" => \E q \in Req : SignsOutAll(q) /\ {t, q} \in met
    /\ \A r \in Req, t \in Id :
          SignsOutAll(r) /\ Before(t, r) /\ holder[t] = SignsOut(r) =>
              /\ pc[r] = "wipe" /\ row[t] = "live" => t \in got[r]
              /\ pc[r] = "retireAll" /\ row[t] = "live" => t \notin live
              /\ pc[r] = "done" /\ t \in live => row[t] # "live"

-----------------------------------------------------------------------------
(* Deactivated accounts *)

Reactivates == \E p \in Req : Kind(p) = "setActive" /\ Opt(p) = "on"
Deactivated(q) == Kind(q) = "setActive" /\ Opt(q) = "off" /\ pc[q] = "done"
Unmade == {"free", "start", "create", "join"}

\* The requests that create an account, and have.
Made(u) == Kind(u) \in {"register", "accept"} /\ pc[u] \notin Unmade

\* An account is there once its request has created it; one that was deactivated stays so, and
\* requests that begin later do not get past the check of it.
ActiveInv ==
    /\ \A u \in Req : Exists(u) => Made(u)
    /\ \A q \in Req : Kind(q) \in {"updateRole", "setActive"} /\ pc[q] \in {"count", "write", "done"}
                         /\ On(q) \in Req => Made(On(q))
    /\ \A q \in Req : Deactivated(q) /\ ~Reactivates => ~user[On(q)].active
    /\ \A q, t \in Req : Deactivated(q) /\ ~Reactivates /\ q < t /\ {q, t} \notin met =>
          /\ pc[t] \in {"others", "issue"} => On(q) \notin got[t]
          /\ t \in live => holder[t] # On(q)

-----------------------------------------------------------------------------
(* Invitations, seats, keys and owners *)

Joined(r) == Exists(r) /\ Kind(r) = "accept"

\* An invitation is made once, and one that somebody accepted is not open again: only a revocation
\* that read it before can still overwrite it.
InviteInv ==
    /\ \A i \in Id : inv[i].status # "none" =>
          \/ i = Invite
          \/ i \in Req /\ Kind(i) = "invite" /\ pc[i] \notin {"free", "start", "seats", "create"}
    /\ \A r \in Req :
          \/ Kind(r) = "revokeInvite" /\ pc[r] = "write"
          \/ Kind(r) = "accept" /\ pc[r] \in {"expire", "join"}
          => inv[On(r)].status # "none"
    /\ \A r \in Req : Joined(r) => inv[On(r)].status \notin {"none", "pending"}
    /\ \A r, q \in Req :
          Joined(r) /\ Kind(q) = "revokeInvite" /\ pc[q] = "write" /\ On(q) = On(r) => {q, r} \in met
    /\ \A r \in Req : Joined(r) /\ inv[On(r)].status = "revoked" => Together({"accept", "revokeInvite"})

\* What a resend gives new time is a sign-in code, no invitation.
IsCode(c) == c = Challenge \/ (c \in Req /\ Kind(c) = "login")
RenewsCodes ==
    /\ \A c \in Id : ~code[c].used => IsCode(c)
    /\ \A r \in Req : Kind(r) = "resend" /\ pc[r] = "send" => IsCode(On(r))

\* Unless requests that add overlap, one that has counted still has the room it counted; who
\* accepts takes the place of the invitation.
SeatInv ==
    \/ Together({"invite", "accept"}) \/ Reactivates
    \/ /\ UsedSeats(TRUE) <= Seats
       /\ \A r \in Req : Kind(r) = "invite" /\ pc[r] = "create" => UsedSeats(TRUE) < Seats
       /\ \A r \in Req : Kind(r) = "accept" /\ pc[r] = "join" =>
             Cardinality(Members(Home)) + Cardinality(Pending \ {On(r)}) < Seats

LiveKeys == {k \in Id : key[k] = "live"}
KeyInv ==
    \/ Together({"createKey"})
    \/ /\ Cardinality(LiveKeys) <= KeyCap
       /\ \A r \in Req : Kind(r) = "createKey" /\ pc[r] = "create" => Cardinality(LiveKeys) < KeyCap

\* Whoever is about to step down or to be deactivated is not the last owner.
OwnerInv ==
    /\ \A r \in Req : Kind(r) \in {"updateRole", "setActive"} /\ pc[r] \in {"count", "write"} => Exists(On(r))
    /\ \/ Together({"updateRole", "setActive"})
       \/ /\ Owners(Home) # {}
          /\ \A r \in Req :
                /\ Kind(r) \in {"updateRole", "setActive"} /\ pc[r] = "write"
                /\ Opt(r) \in {"agent", "off"} /\ On(r) \in Owners(Home)
                => Owners(Home) \ {On(r)} # {}

TeamInv == InviteInv /\ RenewsCodes /\ SeatInv /\ KeyInv /\ OwnerInv

\* The invariant that is inductive.
AccountsInv ==
    /\ TypeOK /\ OnItsWay /\ Sequential /\ OneAccount
    /\ CodeInv /\ LinkInv
    /\ TokensAreIssued /\ TakenForGood /\ RefreshedOnce /\ SignOutInv
    /\ ActiveInv /\ TeamInv

-----------------------------------------------------------------------------
(* How a request moves *)

\* Request r goes to step b, and no other request is touched.
Moves(r, b) ==
    /\ pc[r] \notin Ended \cup {"free"}
    /\ Edge(Kind(r), pc[r], b) /\ b \in Steps(Kind(r)) \cup Ended
    /\ pc' = [pc EXCEPT ![r] = b]
    /\ UNCHANGED <<job, met>>

\* The steps that several kinds of requests share belong to these kinds.
LEMMA StepsOfKinds ==
  ASSUME NEW kind, NEW step \in Steps(kind)
  PROVE  /\ kind \in Kinds
         /\ step \in {"issue", "record"} => kind \in {"register", "login", "verify", "refresh", "accept"}
         /\ step = "mail" => kind \in {"login", "resend", "invite"}
         /\ step = "drop" => kind \in {"refresh", "revokeSession"}
         /\ step = "retire" => kind \in {"refresh", "logout"}
         /\ step \in {"wipe", "retireAll"} => kind \in {"logoutAll", "resetPassword"}
         /\ step = "signout" => kind = "resetPassword"
         /\ step \in {"clear", "new"} => kind \in {"register", "sendVerification", "forgotPassword"}
         /\ step = "count" => kind \in {"updateRole", "setActive"}
  BY DEF Steps, Kinds, ByEmail, OnARow

\* A request that registers or signs in moves along its handler.
LEMMA SignInMoves ==
  ASSUME OnItsWay, NEW r \in Req,
         Issue(r) \/ Record(r) \/ Register(r) \/ SignIn(r) \/ VerifyLoginOtp(r)
  PROVE  \E b : Moves(r, b)
  <1> USE DEF Moves, Edge, Steps, Ended, Go, Read, Reject, At, rest
  <1>1. pc[r] \in {"issue", "record", "mail"} => pc[r] \in Steps(Kind(r))
    BY DEF OnItsWay
  <1>2. CASE Issue(r)
    BY <1>1, <1>2, StepsOfKinds DEF Issue
  <1>3. CASE Record(r)
    BY <1>1, <1>3, StepsOfKinds DEF Record
  <1>4. CASE RegisterCheck(r)
    BY <1>4 DEF RegisterCheck
  <1>5. CASE RegisterCreate(r)
    BY <1>5 DEF RegisterCreate
  <1>6. CASE Login(r)
    BY <1>6 DEF Login
  <1>7. CASE CreateChallenge(r)
    BY <1>7 DEF CreateChallenge
  <1>8. CASE MailCode(r)
    BY <1>8 DEF MailCode
  <1>9. CASE ResendRead(r)
    BY <1>9 DEF ResendRead
  <1>10. CASE ResendStore(r)
    BY <1>10 DEF ResendStore
  <1>11. CASE VerifyRead(r)
    BY <1>11 DEF VerifyRead
  <1>12. CASE Reserve(r)
    BY <1>12 DEF Reserve
  <1>13. CASE Consume(r)
    BY <1>13 DEF Consume
  <1>14. CASE ConsumeOthers(r)
    BY <1>14 DEF ConsumeOthers
  <1>15. CASE Remember(r)
    BY <1>15 DEF Remember
  <1>16. QED
    BY <1>2, <1>3, <1>4, <1>5, <1>6, <1>7, <1>8, <1>9, <1>10, <1>11, <1>12, <1>13, <1>14, <1>15
       DEF Register, SignIn, VerifyLoginOtp

\* So does one that refreshes or signs out.
LEMMA TokenMoves ==
  ASSUME OnItsWay, NEW r \in Req, Refresh(r) \/ SignOut(r)
  PROVE  \E b : Moves(r, b)
  <1> USE DEF Moves, Edge, Steps, Ended, Go, Read, Reject, At, rest
  <1>1. pc[r] \in {"drop", "retire", "signout", "wipe", "retireAll"} => pc[r] \in Steps(Kind(r))
    BY DEF OnItsWay
  <1>2. CASE RefreshGet(r)
    BY <1>2 DEF RefreshGet
  <1>3. CASE DropToken(r)
    BY <1>1, <1>3, StepsOfKinds DEF DropToken
  <1>4. CASE RetireRow(r)
    BY <1>1, <1>4, StepsOfKinds DEF RetireRow
  <1>5. CASE RefreshUser(r)
    BY <1>5 DEF RefreshUser
  <1>6. CASE RevokeRead(r)
    BY <1>6 DEF RevokeRead
  <1>7. CASE RevokeMark(r)
    BY <1>7 DEF RevokeMark
  <1>8. CASE ListRows(r)
    BY <1>1, <1>8, StepsOfKinds DEF ListRows
  <1>9. CASE Wipe(r)
    BY <1>1, <1>9, StepsOfKinds DEF Wipe
  <1>10. CASE RetireAll(r)
    BY <1>1, <1>10, StepsOfKinds DEF RetireAll
  <1>11. QED
    BY <1>2, <1>3, <1>4, <1>5, <1>6, <1>7, <1>8, <1>9, <1>10
       DEF Refresh, SignOut

\* So does one for a mailed link.
LEMMA LinkMoves ==
  ASSUME OnItsWay, NEW r \in Req, Links(r)
  PROVE  \E b : Moves(r, b)
  <1> USE DEF Moves, Edge, Steps, Ended, Go, Read, Reject, At, rest
  <1>1. pc[r] \in {"clear", "new"} => pc[r] \in Steps(Kind(r))
    BY DEF OnItsWay
  <1>2. CASE RequestVerification(r)
    BY <1>2 DEF RequestVerification
  <1>3. CASE ForgotPassword(r)
    BY <1>3 DEF ForgotPassword
  <1>4. CASE ClearLinks(r)
    BY <1>1, <1>4, StepsOfKinds DEF ClearLinks
  <1>5. CASE NewLink(r)
    BY <1>1, <1>5, StepsOfKinds DEF NewLink
  <1>6. CASE VerifyEmailRead(r)
    BY <1>6 DEF VerifyEmailRead
  <1>7. CASE VerifyEmail(r)
    BY <1>7 DEF VerifyEmail
  <1>8. CASE ResetRead(r)
    BY <1>8 DEF ResetRead
  <1>9. CASE ResetPassword(r)
    BY <1>9 DEF ResetPassword
  <1>10. QED
    BY <1>2, <1>3, <1>4, <1>5, <1>6, <1>7, <1>8, <1>9
       DEF Links

\* So does one about the team.
LEMMA TeamMoves ==
  ASSUME OnItsWay, NEW r \in Req, Invitations(r) \/ Team(r)
  PROVE  \E b : Moves(r, b)
  <1> USE DEF Moves, Edge, Steps, Ended, Go, Read, Reject, At, rest
  <1>1. pc[r] \in {"count"} => pc[r] \in Steps(Kind(r))
    BY DEF OnItsWay
  <1>2. CASE InviteCheck(r)
    BY <1>2 DEF InviteCheck
  <1>3. CASE InviteSeats(r)
    BY <1>3 DEF InviteSeats
  <1>4. CASE InviteCreate(r)
    BY <1>4 DEF InviteCreate
  <1>5. CASE InviteMail(r)
    BY <1>5 DEF InviteMail
  <1>6. CASE RevokeInviteRead(r)
    BY <1>6 DEF RevokeInviteRead
  <1>7. CASE RevokeInvite(r)
    BY <1>7 DEF RevokeInvite
  <1>8. CASE AcceptCheck(r)
    BY <1>8 DEF AcceptCheck
  <1>9. CASE AcceptExpired(r)
    BY <1>9 DEF AcceptExpired
  <1>10. CASE AcceptJoin(r)
    BY <1>10 DEF AcceptJoin
  <1>11. CASE TargetRead(r)
    BY <1>11 DEF TargetRead
  <1>12. CASE AssertNotLastOwner(r)
    BY <1>1, <1>12, StepsOfKinds DEF AssertNotLastOwner
  <1>13. CASE UpdateRole(r)
    BY <1>13 DEF UpdateRole
  <1>14. CASE SetActive(r)
    BY <1>14 DEF SetActive
  <1>15. CASE KeyCount(r)
    BY <1>15 DEF KeyCount
  <1>16. CASE KeyCreate(r)
    BY <1>16 DEF KeyCreate
  <1>17. CASE KeyRevoke(r)
    BY <1>17 DEF KeyRevoke
  <1>18. QED
    BY <1>2, <1>3, <1>4, <1>5, <1>6, <1>7, <1>8, <1>9, <1>10, <1>11, <1>12, <1>13, <1>14, <1>15, <1>16, <1>17
       DEF Invitations, Team

\* Every step of a request is a move of it.
LEMMA StepMoves ==
  ASSUME OnItsWay, NEW r \in Req, Step(r)
  PROVE  \E b : Moves(r, b)
  BY SignInMoves, TokenMoves, LinkMoves, TeamMoves DEF Step

\* So is an await that throws.
LEMMA FailMoves ==
  ASSUME OnItsWay, NEW r \in Req, Fail(r)
  PROVE  \E b \in Ended : Moves(r, b)
  <1>1. PICK b \in {"done", "failed"} :
           /\ pc' = [pc EXCEPT ![r] = b]
           /\ b = "done" =>
                \/ Kind(r) = "logout"
                \/ /\ Kind(r) \in {"register", "sendVerification", "forgotPassword"}
                   /\ pc[r] \in {"clear", "new"}
    BY DEF Fail, Go
  <1>2. pc[r] \in Steps(Kind(r)) \cup {"start"} /\ UNCHANGED <<job, met>>
    BY DEF Fail, OnItsWay, InFlight, Ended
  <1>3. Edge(Kind(r), pc[r], b)
    <2>1. CASE b = "failed"
      BY <2>1 DEF Edge
    <2>2. CASE Kind(r) = "logout" /\ b = "done"
      BY <1>2, <2>2 DEF Edge, Steps
    <2>3. CASE /\ Kind(r) \in {"register", "sendVerification", "forgotPassword"}
               /\ pc[r] \in {"clear", "new"} /\ b = "done"
      BY <2>3 DEF Edge
    <2>4. QED
      BY <1>1, <2>1, <2>2, <2>3
  <1>4. QED
    BY <1>1, <1>2, <1>3 DEF Moves, Ended, Fail, InFlight

\* What TypeOK says of the requests, and what it says of the rest.
ControlType ==
    /\ pc \in [Req -> (UNION {Steps(kind) : kind \in Kinds}) \cup Ended \cup {"free", "start"}]
    /\ job \in [Req -> Jobs \cup {NoJob}]
    /\ \A r \in Req : (pc[r] = "free") = (job[r] = NoJob)
DataType ==
    /\ got \in [Req -> SUBSET Id]
    /\ user \in [Id -> UserRow]
    /\ live \subseteq Id /\ holder \in [Id -> Id \cup {None}]
    /\ row \in [Id -> {"none", "live", "revoked"}]
    /\ code \in [Id -> CodeRow] /\ device \in [Id -> Id \cup {None}]
    /\ link \in [Id -> LinkRow] /\ inv \in [Id -> InviteRow]
    /\ key \in [Id -> {"none", "live", "revoked"}]
    /\ expired \subseteq Id /\ faults \in 0..MaxFaults

\* Every kind's steps are steps.
LEMMA AllSteps ==
  (UNION {Steps(kind) : kind \in Kinds}) \cup Ended \cup {"free", "start"}
    = {"free", "start", "create", "challenge", "mail", "issue", "record", "remember",
       "reserve", "consume", "others", "send", "drop", "retire", "mark", "user", "wipe",
       "retireAll", "signout", "clear", "new", "apply", "seats", "expire", "join",
       "count", "write", "done", "rejected", "failed"}
  <1> DEFINE Middle == {"create", "challenge", "mail", "issue", "record", "remember",
                        "reserve", "consume", "others", "send", "drop", "retire", "mark", "user", "wipe",
                        "retireAll", "signout", "clear", "new", "apply", "seats", "expire", "join",
                        "count", "write"}
             All == UNION {Steps(kind) : kind \in Kinds}
  <1>1. \A kind \in Kinds : Steps(kind) \subseteq Middle
    BY DEF Kinds, ByEmail, OnARow, Steps
  <1>2. /\ "register" \in Kinds /\ Steps("register") = {"create", "issue", "record", "clear", "new"}
        /\ "login" \in Kinds /\ Steps("login") = {"challenge", "mail", "issue", "record"}
        /\ "resend" \in Kinds /\ Steps("resend") = {"send", "mail"}
        /\ "verify" \in Kinds
        /\ Steps("verify") = {"reserve", "consume", "others", "issue", "record", "remember"}
        /\ "refresh" \in Kinds /\ Steps("refresh") = {"drop", "retire", "user", "issue", "record"}
        /\ "revokeSession" \in Kinds /\ Steps("revokeSession") = {"drop", "mark"}
    BY DEF Kinds, ByEmail, OnARow, Steps
  <1>3. /\ "resetPassword" \in Kinds /\ Steps("resetPassword") = {"apply", "signout", "wipe", "retireAll"}
        /\ "invite" \in Kinds /\ Steps("invite") = {"seats", "create", "mail"}
        /\ "accept" \in Kinds /\ Steps("accept") = {"expire", "join", "issue", "record"}
        /\ "setActive" \in Kinds /\ Steps("setActive") = {"count", "write"}
    BY DEF Kinds, ByEmail, OnARow, Steps
  <1>4. Middle \subseteq All
    BY <1>2, <1>3
  <1>5. All = Middle
    BY <1>1, <1>4
  <1> HIDE DEF All
  <1>6. All \cup Ended \cup {"free", "start"}
          = {"free", "start", "create", "challenge", "mail", "issue", "record", "remember",
             "reserve", "consume", "others", "send", "drop", "retire", "mark", "user", "wipe",
             "retireAll", "signout", "clear", "new", "apply", "seats", "expire", "join",
             "count", "write", "done", "rejected", "failed"}
    BY <1>5 DEF Ended
  <1>7. QED
    BY <1>6 DEF All

\* TypeOK is these two.
LEMMA TypeParts == TypeOK <=> ControlType /\ DataType
  BY AllSteps DEF TypeOK, ControlType, DataType

\* A request that has arrived asks for something, of an address or a row.
LEMMA JobFacts ==
  ASSUME TypeOK, NEW r \in Req, pc[r] # "free"
  PROVE  /\ job[r] \in Jobs /\ Kind(r) \in Kinds
         /\ Kind(r) \in ByEmail => On(r) \in Emails
         /\ Kind(r) \in OnARow => On(r) \in Id
         /\ Kind(r) \in {"invite", "updateRole"} => Opt(r) \in Roles
         /\ Kind(r) = "setActive" => Opt(r) \in {"on", "off"}
  <1>1. job[r] \in Jobs
    BY DEF TypeOK
  <1>2. QED
    BY <1>1, AccountsAssumption DEF Kind, On, Opt

\* What a move changes.
LEMMA MoveFacts ==
  ASSUME TypeOK, NEW r \in Req, NEW b, Moves(r, b)
  PROVE  /\ pc'[r] = b /\ b \notin {"free", "start"} /\ pc[r] \notin Ended \cup {"free"}
         /\ \A q \in Req : q # r => pc'[q] = pc[q]
         /\ \A q \in Req : Kind(q)' = Kind(q) /\ On(q)' = On(q) /\ Opt(q)' = Opt(q)
         /\ met' = met /\ job' = job
  <1>1. pc \in [Req -> (UNION {Steps(kind) : kind \in Kinds}) \cup Ended \cup {"free", "start"}]
    BY TypeParts DEF ControlType
  <1>2. "free" \notin Steps(Kind(r)) /\ "start" \notin Steps(Kind(r))
    BY DEF Steps
  <1>3. QED
    BY <1>1, <1>2 DEF Moves, Kind, On, Opt, Ended

\* What an arrival changes.
LEMMA SubmitFacts ==
  ASSUME TypeOK, NEW r \in Req, NEW j \in Jobs, Submit(r, j)
  PROVE  /\ pc[r] = "free" /\ pc'[r] = "start"
         /\ \A q \in Req : q # r => pc'[q] = pc[q]
         /\ \A q \in Req : q # r => Kind(q)' = Kind(q) /\ On(q)' = On(q) /\ Opt(q)' = Opt(q)
         /\ Kind(r)' = j.kind /\ On(r)' = j.on /\ Opt(r)' = j.opt
         /\ met' = met \cup {{r, q} : q \in InFlight}
         /\ \A q \in Req : q < r => pc[q] # "free"
         /\ UNCHANGED <<got, user, live, holder, row, code, device, link, inv, key, expired, faults>>
  BY DEF Submit, TypeOK, Go, Kind, On, Opt, tokens, signin, team

\* No other request moves, and the requests stay what they are, when nothing arrives.
LEMMA Turn ==
  ASSUME OnItsWay, [Next]_vars
  PROVE  \/ \E r \in Req, j \in Jobs : Submit(r, j)
         \/ \E r \in Req, b \in Ended : Moves(r, b) /\ Fail(r)
         \/ \E r \in Req : Step(r) /\ \E b : Moves(r, b)
         \/ \E i \in Id : Expire(i)
         \/ UNCHANGED vars
  BY FailMoves, StepMoves DEF Next

\* The requests keep their types, their order and their ways.
LEMMA ControlKeeps ==
  ASSUME TypeOK, OnItsWay, Sequential, [Next]_vars
  PROVE  ControlType' /\ OnItsWay' /\ Sequential'
  <1>1. ControlType
    BY TypeParts
  <1>2. ASSUME NEW r \in Req, NEW j \in Jobs, Submit(r, j)
        PROVE  ControlType' /\ OnItsWay' /\ Sequential'
    <2>1. /\ pc' = [pc EXCEPT ![r] = "start"] /\ job' = [job EXCEPT ![r] = j]
          /\ j # NoJob
      <3>1. "none" \notin Kinds
        BY DEF Kinds, ByEmail, OnARow
      <3>2. QED
        BY <1>2, <3>1, AccountsAssumption DEF Submit, Go, NoJob
    <2>2. ControlType'
      BY <1>1, <2>1 DEF ControlType
    <2>3. OnItsWay'
      BY <1>2, SubmitFacts DEF OnItsWay
    <2>4. ASSUME NEW a \in Req, NEW b \in Req, a < b, pc'[b] # "free"
          PROVE  pc'[a] # "free" /\ ({a, b} \in met' \/ pc'[a] \in Ended)
      <3>1. CASE b = r
        <4>1. a # r /\ pc[a] # "free" /\ pc'[a] = pc[a]
          BY <1>2, <2>4, <3>1, SubmitFacts DEF Req
        <4>2. pc[a] \notin Ended => {a, b} \in met'
          BY <1>2, <3>1, <4>1, SubmitFacts DEF InFlight, Ended
        <4>3. QED
          BY <4>1, <4>2
      <3>2. CASE b # r
        <4>1. pc[b] # "free" /\ pc[a] # "free" /\ a # r /\ pc'[a] = pc[a]
          BY <1>2, <2>4, <3>2, SubmitFacts DEF Sequential
        <4>2. QED
          BY <1>2, <2>4, <4>1, SubmitFacts DEF Sequential
      <3>3. QED
        BY <3>1, <3>2
    <2>5. QED
      BY <2>2, <2>3, <2>4 DEF Sequential
  <1>3. ASSUME NEW r \in Req, NEW b, Moves(r, b)
        PROVE  ControlType' /\ OnItsWay' /\ Sequential'
    <2>1. /\ pc' = [pc EXCEPT ![r] = b] /\ job' = job /\ met' = met
          /\ b \in Steps(Kind(r)) \cup Ended /\ Kind(r) \in Kinds
      BY <1>3, JobFacts DEF Moves
    <2>2. ControlType'
      <3>1. pc' \in [Req -> (UNION {Steps(kind) : kind \in Kinds}) \cup Ended \cup {"free", "start"}]
        BY <1>1, <2>1 DEF ControlType
      <3>2. \A q \in Req : (pc'[q] = "free") = (job'[q] = NoJob)
        BY <1>1, <1>3, MoveFacts DEF ControlType
      <3>3. QED
        BY <1>1, <2>1, <3>1, <3>2 DEF ControlType
    <2>3. OnItsWay'
      BY <1>3, <2>1, MoveFacts DEF OnItsWay
    <2>4. Sequential'
      BY <1>3, MoveFacts DEF Sequential
    <2>5. QED
      BY <2>2, <2>3, <2>4
  <1>4. ASSUME UNCHANGED <<job, pc, met>>
        PROVE  ControlType' /\ OnItsWay' /\ Sequential'
    BY <1>1, <1>4 DEF ControlType, OnItsWay, Sequential, Kind
  <1>5. ASSUME NEW i \in Id, Expire(i)
        PROVE  UNCHANGED <<job, pc, met>>
    BY <1>5 DEF Expire
  <1>6. QED
    BY <1>2, <1>3, <1>4, <1>5, Turn DEF vars, rest

\* Two requests in flight are noted as together.
LEMMA BothInFlight ==
  ASSUME Sequential, NEW a \in Req, NEW b \in Req, a # b,
         pc[a] \notin Ended \cup {"free"}, pc[b] \notin Ended \cup {"free"}
  PROVE  {a, b} \in met
  <1>1. {a, b} = {b, a} /\ (a < b \/ b < a)
    BY DEF Req
  <1>2. QED
    BY <1>1 DEF Sequential

\* One that began after the other did not meet it: the other had ended.
LEMMA EndedBefore ==
  ASSUME Sequential, NEW t \in Req, NEW r \in Req, Before(t, r), pc[r] # "free"
  PROVE  pc[t] \in Ended
  BY DEF Sequential, Before

-----------------------------------------------------------------------------
(* Types *)

\* The rows keep their types: what a request that registers or signs in writes.
LEMMA SignInTypes ==
  ASSUME AccountsInv, NEW r \in Req, Issue(r) \/ Record(r) \/ Register(r) \/ SignIn(r) \/ VerifyLoginOtp(r)
  PROVE  DataType'
  <1> USE DEF DataType, At, Read, Reject, Go, tokens, signin, team, rest
  <1>1. DataType /\ r \in Id
    BY TypeParts DEF AccountsInv, Id
  <1>2. pc[r] # "free" => /\ Kind(r) \in ByEmail => On(r) \in Emails
                          /\ Kind(r) \in OnARow => On(r) \in Id
                          /\ Kind(r) \in {"invite", "updateRole"} => Opt(r) \in Roles
    BY JobFacts DEF AccountsInv
  <1>3. /\ \A t \in live : holder[t] \in Id
        /\ \A c \in Id : ~code[c].used => code[c].user \in Id
    BY DEF AccountsInv, TokensAreIssued, CodeInv
  <1>4. ASSUME Issue(r) PROVE DataType'
    BY <1>1, <1>2, <1>3, <1>4 DEF Issue
  <1>5. ASSUME Record(r) PROVE DataType'
    BY <1>1, <1>2, <1>3, <1>5 DEF Record
  <1>6. ASSUME RegisterCheck(r) PROVE DataType'
    BY <1>1, <1>2, <1>3, <1>6 DEF RegisterCheck
  <1>7. ASSUME RegisterCreate(r) PROVE DataType'
    <2>1. PICK x1 \in UserRow : user' = [user EXCEPT ![r] = x1]
      <3>1. On(r) \in Emails
        BY <1>2, <1>7 DEF RegisterCreate, ByEmail
      <3>2. [Account(On(r)) EXCEPT !.org = r, !.pw = r] \in UserRow
        BY <3>1 DEF Account, UserRow, Roles
      <3>3. QED
        BY <3>2, <1>7 DEF RegisterCreate
    <2>2. got' \in [Req -> SUBSET Id]
      BY <1>1, <1>2, <1>3, <1>7 DEF RegisterCreate
    <2>3. UNCHANGED <<live, holder, row, code, device, link, inv, key, expired, faults>>
      BY <1>7 DEF RegisterCreate
    <2>4. QED
      BY <1>1, <2>1, <2>2, <2>3
  <1>8. ASSUME Login(r) PROVE DataType'
    BY <1>1, <1>2, <1>3, <1>8 DEF Login
  <1>9. ASSUME CreateChallenge(r) PROVE DataType'
    <2>1. PICK x1 \in CodeRow : code' = [code EXCEPT ![r] = x1]
      <3>1. PICK u \in got[r] :
               code' = [code EXCEPT ![r] = [user |-> u, attempts |-> 0, used |-> FALSE, mailed |-> FALSE]]
        BY <1>9 DEF CreateChallenge
      <3>2. u \in Id /\ 0 \in 0..MaxAttempts
        BY <1>1, <3>1, AccountsAssumption
      <3>3. QED
        BY <3>1, <3>2 DEF CodeRow
    <2>2. UNCHANGED <<got, user, live, holder, row, device, link, inv, key, expired, faults>>
      BY <1>9 DEF CreateChallenge
    <2>3. QED
      BY <1>1, <2>1, <2>2
  <1>10. ASSUME MailCode(r) PROVE DataType'
    <2>1. code[IF Kind(r) = "login" THEN r ELSE On(r)] \in CodeRow
      BY <1>1, <1>2, <1>10 DEF MailCode, Kinds, OnARow, ByEmail
    <2>2. PICK x2 \in CodeRow : code' = [code EXCEPT ![IF Kind(r) = "login" THEN r ELSE On(r)] = x2]
      BY <1>1, <1>2, <1>10, <2>1 DEF MailCode, CodeRow
    <2>3. UNCHANGED <<got, user, live, holder, row, device, link, inv, key, expired, faults>>
      BY <1>10 DEF MailCode
    <2>4. QED
      BY <1>1, <2>2, <2>3
  <1>11. ASSUME ResendRead(r) PROVE DataType'
    BY <1>1, <1>2, <1>3, <1>11 DEF ResendRead
  <1>12. ASSUME ResendStore(r) PROVE DataType'
    <2>1. code[On(r)] \in CodeRow
      BY <1>1, <1>2, <1>12 DEF ResendStore, Kinds, OnARow, ByEmail
    <2>2. PICK x2 \in CodeRow : code' = [code EXCEPT ![On(r)] = x2]
      <3>1. 0 \in 0..MaxAttempts
        BY AccountsAssumption
      <3>2. PICK x : x = code[On(r)]
        OBVIOUS
      <3>3. [x EXCEPT !.attempts = 0, !.mailed = FALSE] \in CodeRow
        BY <2>1, <3>1, <3>2 DEF CodeRow
      <3>4. code' = [code EXCEPT ![On(r)] = [code[On(r)] EXCEPT !.attempts = 0, !.mailed = FALSE]]
        BY <1>12 DEF ResendStore
      <3>5. QED
        BY <3>2, <3>3, <3>4
    <2>3. expired' \subseteq Id
      BY <1>1, <1>12 DEF ResendStore
    <2>4. UNCHANGED <<got, user, live, holder, row, device, link, inv, key, faults>>
      BY <1>12 DEF ResendStore
    <2>5. QED
      BY <1>1, <2>2, <2>3, <2>4
  <1>13. ASSUME VerifyRead(r) PROVE DataType'
    <2>1. got' \in [Req -> SUBSET Id]
      <3>1. /\ On(r) \in Id
            /\ ~code[On(r)].used => code[On(r)].user \in Id
        BY <1>2, <1>3, <1>13 DEF VerifyRead, OnARow
      <3>2. QED
        BY <1>1, <1>13, <3>1 DEF VerifyRead, CodeOpen
    <2>2. UNCHANGED <<user, live, holder, row, code, device, link, inv, key, expired, faults>>
      BY <1>13 DEF VerifyRead
    <2>3. QED
      BY <1>1, <2>1, <2>2
  <1>14. ASSUME Reserve(r) PROVE DataType'
    <2>1. code[On(r)] \in CodeRow
      BY <1>1, <1>2, <1>14 DEF Reserve, Kinds, OnARow, ByEmail
    <2>2. PICK x2 \in CodeRow : code' = [code EXCEPT ![On(r)] = x2]
      <3>1. CASE code' = code
        BY <1>1, <2>1, <3>1
      <3>2. CASE code' # code
        <4>1. /\ code' = [code EXCEPT ![On(r)] = [code[On(r)] EXCEPT !.attempts = code[On(r)].attempts + 1]]
              /\ ~(code[On(r)].attempts >= MaxAttempts)
          BY <1>14, <3>2 DEF Reserve
        <4>2. PICK x : x = code[On(r)]
          OBVIOUS
        <4>3. x.attempts \in 0..MaxAttempts /\ ~(x.attempts >= MaxAttempts)
          BY <2>1, <4>1, <4>2 DEF CodeRow
        <4>4. x.attempts + 1 \in 0..MaxAttempts
          BY <4>3, AccountsAssumption
        <4>5. [x EXCEPT !.attempts = x.attempts + 1] \in CodeRow
          BY <2>1, <4>2, <4>4 DEF CodeRow
        <4>6. QED
          BY <4>1, <4>2, <4>5
      <3>3. QED
        BY <3>1, <3>2
    <2>3. UNCHANGED <<got, user, live, holder, row, device, link, inv, key, expired, faults>>
      BY <1>14 DEF Reserve
    <2>4. QED
      BY <1>1, <2>2, <2>3
  <1>15. ASSUME Consume(r) PROVE DataType'
    <2>1. code[On(r)] \in CodeRow
      BY <1>1, <1>2, <1>15 DEF Consume, Kinds, OnARow, ByEmail
    <2>2. PICK x2 \in CodeRow : code' = [code EXCEPT ![On(r)] = x2]
      BY <1>1, <1>2, <1>15, <2>1 DEF Consume, CodeRow
    <2>3. UNCHANGED <<got, user, live, holder, row, device, link, inv, key, expired, faults>>
      BY <1>15 DEF Consume
    <2>4. QED
      BY <1>1, <2>2, <2>3
  <1>16. ASSUME ConsumeOthers(r) PROVE DataType'
    <2>1. code' \in [Id -> CodeRow]
      <3>1. \A x \in CodeRow : [x EXCEPT !.used = TRUE] \in CodeRow
        BY DEF CodeRow
      <3>2. QED
        BY <1>1, <1>16, <3>1 DEF ConsumeOthers
    <2>2. UNCHANGED <<got, user, live, holder, row, device, link, inv, key, expired, faults>>
      BY <1>16 DEF ConsumeOthers
    <2>3. QED
      BY <1>1, <2>1, <2>2
  <1>17. ASSUME Remember(r) PROVE DataType'
    BY <1>1, <1>2, <1>3, <1>17 DEF Remember
  <1>18. QED
    BY <1>4, <1>5, <1>6, <1>7, <1>8, <1>9, <1>10, <1>11, <1>12, <1>13, <1>14, <1>15, <1>16, <1>17
       DEF Register, SignIn, VerifyLoginOtp

\* The rows keep their types: what a request that refreshes or signs out writes.
LEMMA TokenTypes ==
  ASSUME AccountsInv, NEW r \in Req, Refresh(r) \/ SignOut(r)
  PROVE  DataType'
  <1> USE DEF DataType, At, Read, Reject, Go, tokens, signin, team, rest
  <1>1. DataType /\ r \in Id
    BY TypeParts DEF AccountsInv, Id
  <1>2. pc[r] # "free" => /\ Kind(r) \in ByEmail => On(r) \in Emails
                          /\ Kind(r) \in OnARow => On(r) \in Id
                          /\ Kind(r) \in {"invite", "updateRole"} => Opt(r) \in Roles
    BY JobFacts DEF AccountsInv
  <1>3. /\ \A t \in live : holder[t] \in Id
        /\ \A c \in Id : ~code[c].used => code[c].user \in Id
    BY DEF AccountsInv, TokensAreIssued, CodeInv
  <1>4. ASSUME RefreshGet(r) PROVE DataType'
    BY <1>1, <1>2, <1>3, <1>4 DEF RefreshGet
  <1>5. ASSUME DropToken(r) PROVE DataType'
    BY <1>1, <1>2, <1>3, <1>5 DEF DropToken
  <1>6. ASSUME RetireRow(r) PROVE DataType'
    BY <1>1, <1>2, <1>3, <1>6 DEF RetireRow
  <1>7. ASSUME RefreshUser(r) PROVE DataType'
    BY <1>1, <1>2, <1>3, <1>7 DEF RefreshUser
  <1>8. ASSUME RevokeRead(r) PROVE DataType'
    BY <1>1, <1>2, <1>3, <1>8 DEF RevokeRead
  <1>9. ASSUME RevokeMark(r) PROVE DataType'
    BY <1>1, <1>2, <1>3, <1>9 DEF RevokeMark
  <1>10. ASSUME ListRows(r) PROVE DataType'
    <2>1. got' \in [Req -> SUBSET Id]
      BY <1>1, <1>2, <1>3, <1>10 DEF ListRows, Rows
    <2>2. UNCHANGED <<user, live, holder, row, code, device, link, inv, key, expired, faults>>
      BY <1>10 DEF ListRows
    <2>3. QED
      BY <1>1, <2>1, <2>2
  <1>11. ASSUME Wipe(r) PROVE DataType'
    BY <1>1, <1>2, <1>3, <1>11 DEF Wipe
  <1>12. ASSUME RetireAll(r) PROVE DataType'
    BY <1>1, <1>2, <1>3, <1>12 DEF RetireAll
  <1>13. QED
    BY <1>4, <1>5, <1>6, <1>7, <1>8, <1>9, <1>10, <1>11, <1>12
       DEF Refresh, SignOut

\* Links that are spent are links still.
LEMMA SpentTyped ==
  ASSUME link \in [Id -> LinkRow], NEW kind, NEW u
  PROVE  Spent(kind, u) \in [Id -> LinkRow]
  <1>1. \A x \in LinkRow : [x EXCEPT !.used = TRUE] \in LinkRow
    BY DEF LinkRow
  <1>2. QED
    BY <1>1 DEF Spent

\* The rows keep their types: what a request for a link, or with one, writes.
LEMMA LinkTypes ==
  ASSUME AccountsInv, NEW r \in Req, Links(r)
  PROVE  DataType'
  <1> USE DEF DataType, At, Read, Reject, Go, tokens, signin, team, rest
  <1>1. DataType /\ r \in Id
    BY TypeParts DEF AccountsInv, Id
  <1>2. pc[r] # "free" => /\ Kind(r) \in ByEmail => On(r) \in Emails
                          /\ Kind(r) \in OnARow => On(r) \in Id
                          /\ Kind(r) \in {"invite", "updateRole"} => Opt(r) \in Roles
    BY JobFacts DEF AccountsInv
  <1>3. /\ \A t \in live : holder[t] \in Id
        /\ \A c \in Id : ~code[c].used => code[c].user \in Id
    BY DEF AccountsInv, TokensAreIssued, CodeInv
  <1>4. ASSUME RequestVerification(r) PROVE DataType'
    <2>1. got' \in [Req -> SUBSET Id]
      BY <1>1, <1>2, <1>3, <1>4 DEF RequestVerification, OnARow, ByEmail
    <2>2. UNCHANGED <<user, live, holder, row, code, device, link, inv, key, expired, faults>>
      BY <1>4 DEF RequestVerification
    <2>3. QED
      BY <1>1, <2>1, <2>2
  <1>5. ASSUME ForgotPassword(r) PROVE DataType'
    <2>1. got' \in [Req -> SUBSET Id]
      BY <1>1, <1>2, <1>3, <1>5 DEF ForgotPassword, OnARow, ByEmail
    <2>2. UNCHANGED <<user, live, holder, row, code, device, link, inv, key, expired, faults>>
      BY <1>5 DEF ForgotPassword
    <2>3. QED
      BY <1>1, <2>1, <2>2
  <1>6. ASSUME ClearLinks(r) PROVE DataType'
    <2>1. link' \in [Id -> LinkRow]
      BY <1>1, <1>6, SpentTyped DEF ClearLinks
    <2>2. UNCHANGED <<got, user, live, holder, row, code, device, inv, key, expired, faults>>
      BY <1>6 DEF ClearLinks
    <2>3. QED
      BY <1>1, <2>1, <2>2
  <1>7. ASSUME NewLink(r) PROVE DataType'
    <2>1. PICK x1 \in LinkRow : link' = [link EXCEPT ![r] = x1]
      BY <1>1, <1>2, <1>3, <1>7 DEF NewLink, LinkRow, LinkKind
    <2>2. UNCHANGED <<got, user, live, holder, row, code, device, inv, key, expired, faults>>
      BY <1>7 DEF NewLink
    <2>3. QED
      BY <1>1, <2>1, <2>2
  <1>8. ASSUME VerifyEmailRead(r) PROVE DataType'
    BY <1>1, <1>2, <1>3, <1>8 DEF VerifyEmailRead
  <1>9. ASSUME VerifyEmail(r) PROVE DataType'
    <2>1. link[On(r)] \in LinkRow
      BY <1>1, <1>2, <1>9 DEF VerifyEmail, Kinds, OnARow, ByEmail
    <2>2. PICK x2 \in LinkRow : link' = [link EXCEPT ![On(r)] = x2]
      BY <1>1, <1>2, <1>9, <2>1 DEF VerifyEmail, LinkRow
    <2>4. user' \in [Id -> UserRow]
      <3>1. PICK u : u = link[On(r)].user
        OBVIOUS
      <3>2. user' = [user EXCEPT ![u] = [user[u] EXCEPT !.verified = TRUE]]
        BY <1>9, <3>1 DEF VerifyEmail
      <3>3. u \in Id => [user[u] EXCEPT !.verified = TRUE] \in UserRow
        BY <1>1, ZenonT(60) DEF UserRow
      <3>4. QED
        BY <1>1, <3>2, <3>3
    <2>5. UNCHANGED <<got, live, holder, row, code, device, inv, key, expired, faults>>
      BY <1>9 DEF VerifyEmail
    <2>6. QED
      BY <1>1, <2>2, <2>4, <2>5
  <1>10. ASSUME ResetRead(r) PROVE DataType'
    BY <1>1, <1>2, <1>3, <1>10 DEF ResetRead
  <1>11. ASSUME ResetPassword(r) PROVE DataType'
    <2>2. user' \in [Id -> UserRow]
      <3>1. PICK u : u = link[On(r)].user
        OBVIOUS
      <3>2. user' = user \/ user' = [user EXCEPT ![u] = [user[u] EXCEPT !.pw = r]]
        BY <1>11, <3>1 DEF ResetPassword
      <3>3. u \in Id => [user[u] EXCEPT !.pw = r] \in UserRow
        BY <1>1, SMTT(30) DEF UserRow
      <3>4. QED
        BY <1>1, <3>2, <3>3
    <2>3. link' \in [Id -> LinkRow]
      BY <1>1, <1>11, SpentTyped DEF ResetPassword
    <2>4. UNCHANGED <<got, live, holder, row, code, device, inv, key, expired, faults>>
      BY <1>11 DEF ResetPassword
    <2>5. QED
      BY <1>1, <2>2, <2>3, <2>4
  <1>12. QED
    BY <1>4, <1>5, <1>6, <1>7, <1>8, <1>9, <1>10, <1>11
       DEF Links

\* The rows keep their types: what a request about the team writes.
LEMMA TeamTypes ==
  ASSUME AccountsInv, NEW r \in Req, Invitations(r) \/ Team(r)
  PROVE  DataType'
  <1> USE DEF DataType, At, Read, Reject, Go, tokens, signin, team, rest
  <1>1. DataType /\ r \in Id
    BY TypeParts DEF AccountsInv, Id
  <1>2. pc[r] # "free" => /\ Kind(r) \in ByEmail => On(r) \in Emails
                          /\ Kind(r) \in OnARow => On(r) \in Id
                          /\ Kind(r) \in {"invite", "updateRole"} => Opt(r) \in Roles
    BY JobFacts DEF AccountsInv
  <1>3. /\ \A t \in live : holder[t] \in Id
        /\ \A c \in Id : ~code[c].used => code[c].user \in Id
    BY DEF AccountsInv, TokensAreIssued, CodeInv
  <1>4. ASSUME InviteCheck(r) PROVE DataType'
    <2>1. inv' \in [Id -> InviteRow]
      <3>1. inv' = inv \/ \E i \in Id : inv' = [inv EXCEPT ![i] = [inv[i] EXCEPT !.status = "expired"]]
        BY <1>4 DEF InviteCheck
      <3>2. \A i \in Id : [inv[i] EXCEPT !.status = "expired"] \in InviteRow
        BY <1>1, SMTT(30) DEF InviteRow
      <3>3. QED
        BY <1>1, <3>1, <3>2
    <2>2. UNCHANGED <<user, live, holder, row, code, device, link, key, expired, faults>>
      BY <1>4 DEF InviteCheck
    <2>3. got' \in [Req -> SUBSET Id]
      BY <1>1, <1>4 DEF InviteCheck
    <2>4. QED
      BY <1>1, <2>1, <2>2, <2>3
  <1>5. ASSUME InviteSeats(r) PROVE DataType'
    BY <1>1, <1>2, <1>3, <1>5 DEF InviteSeats
  <1>6. ASSUME InviteCreate(r) PROVE DataType'
    <2>1. PICK x1 \in InviteRow : inv' = [inv EXCEPT ![r] = x1]
      BY <1>1, <1>2, <1>3, <1>6 DEF InviteCreate, InviteRow, Roles, ByEmail
    <2>2. UNCHANGED <<got, user, live, holder, row, code, device, link, key, expired, faults>>
      BY <1>6 DEF InviteCreate
    <2>3. QED
      BY <1>1, <2>1, <2>2
  <1>7. ASSUME InviteMail(r) PROVE DataType'
    BY <1>1, <1>2, <1>3, <1>7 DEF InviteMail
  <1>8. ASSUME RevokeInviteRead(r) PROVE DataType'
    BY <1>1, <1>2, <1>3, <1>8 DEF RevokeInviteRead
  <1>9. ASSUME RevokeInvite(r) PROVE DataType'
    <2>1. inv[On(r)] \in InviteRow
      BY <1>1, <1>2, <1>9 DEF RevokeInvite, Kinds, OnARow, ByEmail
    <2>2. PICK x2 \in InviteRow : inv' = [inv EXCEPT ![On(r)] = x2]
      BY <1>1, <1>2, <1>9, <2>1 DEF RevokeInvite, InviteRow
    <2>3. UNCHANGED <<got, user, live, holder, row, code, device, link, key, expired, faults>>
      BY <1>9 DEF RevokeInvite
    <2>4. QED
      BY <1>1, <2>2, <2>3
  <1>10. ASSUME AcceptCheck(r) PROVE DataType'
    BY <1>1, <1>2, <1>3, <1>10 DEF AcceptCheck
  <1>11. ASSUME AcceptExpired(r) PROVE DataType'
    <2>1. inv[On(r)] \in InviteRow
      BY <1>1, <1>2, <1>11 DEF AcceptExpired, Kinds, OnARow, ByEmail
    <2>2. PICK x2 \in InviteRow : inv' = [inv EXCEPT ![On(r)] = x2]
      BY <1>1, <1>2, <1>11, <2>1 DEF AcceptExpired, InviteRow
    <2>3. UNCHANGED <<got, user, live, holder, row, code, device, link, key, expired, faults>>
      BY <1>11 DEF AcceptExpired
    <2>4. QED
      BY <1>1, <2>2, <2>3
  <1>12. ASSUME AcceptJoin(r) PROVE DataType'
    <2>1. PICK x1 \in UserRow : user' = [user EXCEPT ![r] = x1]
      <3>1. PICK i : i = inv[On(r)]
        OBVIOUS
      <3>2. i \in InviteRow
        BY <1>1, <1>2, <1>12, <3>1 DEF AcceptJoin, OnARow
      <3>3. i.email \in Emails \cup {None} /\ i.role \in {"none"} \cup Roles
        BY <3>2 DEF InviteRow
      <3>4. [Account(i.email) EXCEPT !.role = i.role, !.pw = r] \in UserRow
        <4>1. PICK email \in Emails \cup {None} : email = i.email
          BY <3>3
        <4>2. PICK role \in {"none"} \cup Roles : role = i.role
          BY <3>3
        <4>3. [Account(email) EXCEPT !.role = role, !.pw = r] \in UserRow
          BY DEF Account, UserRow
        <4>4. QED
          BY <4>1, <4>2, <4>3
      <3>5. \/ user' = [user EXCEPT ![r] = [Account(i.email) EXCEPT !.role = i.role, !.pw = r]]
            \/ user' = user
        BY <1>12, <3>1 DEF AcceptJoin
      <3>6. user[r] \in UserRow /\ user = [user EXCEPT ![r] = user[r]]
        BY <1>1
      <3>7. QED
        BY <3>4, <3>5, <3>6
    <2>2. inv[On(r)] \in InviteRow
      BY <1>1, <1>2, <1>12 DEF AcceptJoin, Kinds, OnARow, ByEmail
    <2>3. PICK x3 \in InviteRow : inv' = [inv EXCEPT ![On(r)] = x3]
      BY <1>1, <1>2, <1>12, <2>2 DEF AcceptJoin, InviteRow
    <2>4. got' \in [Req -> SUBSET Id]
      BY <1>1, <1>2, <1>3, <1>12 DEF AcceptJoin
    <2>5. UNCHANGED <<live, holder, row, code, device, link, key, expired, faults>>
      BY <1>12 DEF AcceptJoin
    <2>6. QED
      BY <1>1, <2>1, <2>3, <2>4, <2>5
  <1>13. ASSUME TargetRead(r) PROVE DataType'
    BY <1>1, <1>2, <1>3, <1>13 DEF TargetRead
  <1>14. ASSUME AssertNotLastOwner(r) PROVE DataType'
    BY <1>1, <1>2, <1>3, <1>14 DEF AssertNotLastOwner
  <1>15. ASSUME UpdateRole(r) PROVE DataType'
    <2>1. user[On(r)] \in UserRow
      BY <1>1, <1>2, <1>15 DEF UpdateRole, Kinds, OnARow, ByEmail
    <2>2. PICK x2 \in UserRow : user' = [user EXCEPT ![On(r)] = x2]
      BY <1>1, <1>2, <1>15, <2>1 DEF UpdateRole, UserRow, Roles
    <2>3. UNCHANGED <<got, live, holder, row, code, device, link, inv, key, expired, faults>>
      BY <1>15 DEF UpdateRole
    <2>4. QED
      BY <1>1, <2>2, <2>3
  <1>16. ASSUME SetActive(r) PROVE DataType'
    <2>1. user[On(r)] \in UserRow
      BY <1>1, <1>2, <1>16 DEF SetActive, Kinds, OnARow, ByEmail
    <2>2. PICK x2 \in UserRow : user' = [user EXCEPT ![On(r)] = x2]
      BY <1>1, <1>2, <1>16, <2>1 DEF SetActive, UserRow
    <2>3. UNCHANGED <<got, live, holder, row, code, device, link, inv, key, expired, faults>>
      BY <1>16 DEF SetActive
    <2>4. QED
      BY <1>1, <2>2, <2>3
  <1>17. ASSUME KeyCount(r) PROVE DataType'
    BY <1>1, <1>2, <1>3, <1>17 DEF KeyCount
  <1>18. ASSUME KeyCreate(r) PROVE DataType'
    BY <1>1, <1>2, <1>3, <1>18 DEF KeyCreate
  <1>19. ASSUME KeyRevoke(r) PROVE DataType'
    BY <1>1, <1>2, <1>3, <1>19 DEF KeyRevoke
  <1>20. QED
    BY <1>4, <1>5, <1>6, <1>7, <1>8, <1>9, <1>10, <1>11, <1>12, <1>13, <1>14, <1>15, <1>16, <1>17, <1>18, <1>19
       DEF Invitations, Team

\* The rows keep their types.
LEMMA DataKeeps ==
  ASSUME AccountsInv, [Next]_vars
  PROVE  DataType'
  <1>1. DataType
    BY TypeParts DEF AccountsInv
  <1>2. ASSUME NEW r \in Req, Step(r)
        PROVE  DataType'
    BY <1>2, SignInTypes, TokenTypes, LinkTypes, TeamTypes DEF Step
  <1>3. ASSUME NEW r \in Req, NEW j \in Jobs, Submit(r, j)
        PROVE  DataType'
    BY <1>1, <1>3 DEF Submit, DataType, tokens, signin, team
  <1>4. ASSUME NEW r \in Req, Fail(r)
        PROVE  DataType'
    <2>1. faults' \in 0..MaxFaults
      BY <1>1, <1>4, AccountsAssumption DEF Fail, DataType
    <2>2. UNCHANGED <<got, user, live, holder, row, code, device, link, inv, key, expired>>
      BY <1>4 DEF Fail, tokens, signin, team
    <2>3. QED
      BY <1>1, <2>1, <2>2 DEF DataType
  <1>5. ASSUME NEW i \in Id, Expire(i)
        PROVE  DataType'
    BY <1>1, <1>5 DEF Expire, DataType, tokens, signin, team
  <1>6. CASE UNCHANGED vars
    BY <1>1, <1>6 DEF vars, DataType, tokens, signin, team, rest
  <1>7. QED
    BY <1>2, <1>3, <1>4, <1>5, <1>6 DEF Next

-----------------------------------------------------------------------------
(* What a request has in hand *)

\* What request r takes in hand is about one account, but for the sessions it lists.
TakesInHand(r) ==
    /\ \A q \in Req : q # r => got'[q] = got[q]
    /\ got'[r] = got[r] \/ pc'[r] = "wipe" \/ \A u, v \in got'[r] : u = v

\* What a request that registers or signs in takes in hand.
LEMMA SignInInHand ==
  ASSUME TypeOK, NEW r \in Req, Issue(r) \/ Record(r) \/ Register(r) \/ SignIn(r) \/ VerifyLoginOtp(r)
  PROVE  TakesInHand(r)
  <1> USE DEF TakesInHand, At, Read, Reject, Go
  <1>1. got \in [Req -> SUBSET Id] /\ pc \in [Req -> (UNION {Steps(kind) : kind \in Kinds}) \cup Ended \cup {"free", "start"}]
    BY TypeParts DEF DataType, ControlType
  <1>2. CASE Issue(r)
    BY <1>1, <1>2 DEF Issue
  <1>3. CASE Record(r)
    BY <1>1, <1>3 DEF Record
  <1>4. CASE RegisterCheck(r)
    BY <1>1, <1>4 DEF RegisterCheck
  <1>5. CASE RegisterCreate(r)
    BY <1>1, <1>5 DEF RegisterCreate
  <1>6. CASE Login(r)
    BY <1>1, <1>6 DEF Login
  <1>7. CASE CreateChallenge(r)
    BY <1>1, <1>7 DEF CreateChallenge
  <1>8. CASE MailCode(r)
    BY <1>1, <1>8 DEF MailCode
  <1>9. CASE ResendRead(r)
    BY <1>1, <1>9 DEF ResendRead
  <1>10. CASE ResendStore(r)
    BY <1>1, <1>10 DEF ResendStore
  <1>11. CASE VerifyRead(r)
    BY <1>1, <1>11 DEF VerifyRead
  <1>12. CASE Reserve(r)
    BY <1>1, <1>12 DEF Reserve
  <1>13. CASE Consume(r)
    BY <1>1, <1>13 DEF Consume
  <1>14. CASE ConsumeOthers(r)
    BY <1>1, <1>14 DEF ConsumeOthers
  <1>15. CASE Remember(r)
    BY <1>1, <1>15 DEF Remember
  <1>16. QED
    BY <1>2, <1>3, <1>4, <1>5, <1>6, <1>7, <1>8, <1>9, <1>10, <1>11, <1>12, <1>13, <1>14, <1>15
       DEF Register, SignIn, VerifyLoginOtp

\* What a request that refreshes or signs out takes in hand.
LEMMA TokenInHand ==
  ASSUME TypeOK, NEW r \in Req, Refresh(r) \/ SignOut(r)
  PROVE  TakesInHand(r)
  <1> USE DEF TakesInHand, At, Read, Reject, Go
  <1>1. got \in [Req -> SUBSET Id] /\ pc \in [Req -> (UNION {Steps(kind) : kind \in Kinds}) \cup Ended \cup {"free", "start"}]
    BY TypeParts DEF DataType, ControlType
  <1>2. CASE RefreshGet(r)
    BY <1>1, <1>2 DEF RefreshGet
  <1>3. CASE DropToken(r)
    BY <1>1, <1>3 DEF DropToken
  <1>4. CASE RetireRow(r)
    BY <1>1, <1>4 DEF RetireRow
  <1>5. CASE RefreshUser(r)
    BY <1>1, <1>5 DEF RefreshUser
  <1>6. CASE RevokeRead(r)
    BY <1>1, <1>6 DEF RevokeRead
  <1>7. CASE RevokeMark(r)
    BY <1>1, <1>7 DEF RevokeMark
  <1>8. CASE ListRows(r)
    BY <1>1, <1>8 DEF ListRows
  <1>9. CASE Wipe(r)
    BY <1>1, <1>9 DEF Wipe
  <1>10. CASE RetireAll(r)
    BY <1>1, <1>10 DEF RetireAll
  <1>11. QED
    BY <1>2, <1>3, <1>4, <1>5, <1>6, <1>7, <1>8, <1>9, <1>10
       DEF Refresh, SignOut

\* What a request for a link, or with one, takes in hand.
LEMMA LinkInHand ==
  ASSUME TypeOK, NEW r \in Req, Links(r)
  PROVE  TakesInHand(r)
  <1> USE DEF TakesInHand, At, Read, Reject, Go
  <1>1. got \in [Req -> SUBSET Id] /\ pc \in [Req -> (UNION {Steps(kind) : kind \in Kinds}) \cup Ended \cup {"free", "start"}]
    BY TypeParts DEF DataType, ControlType
  <1>2. CASE RequestVerification(r)
    BY <1>1, <1>2 DEF RequestVerification
  <1>3. CASE ForgotPassword(r)
    BY <1>1, <1>3 DEF ForgotPassword
  <1>4. CASE ClearLinks(r)
    BY <1>1, <1>4 DEF ClearLinks
  <1>5. CASE NewLink(r)
    BY <1>1, <1>5 DEF NewLink
  <1>6. CASE VerifyEmailRead(r)
    BY <1>1, <1>6 DEF VerifyEmailRead
  <1>7. CASE VerifyEmail(r)
    BY <1>1, <1>7 DEF VerifyEmail
  <1>8. CASE ResetRead(r)
    BY <1>1, <1>8 DEF ResetRead
  <1>9. CASE ResetPassword(r)
    BY <1>1, <1>9 DEF ResetPassword
  <1>10. QED
    BY <1>2, <1>3, <1>4, <1>5, <1>6, <1>7, <1>8, <1>9
       DEF Links

\* What a request about the team takes in hand.
LEMMA TeamInHand ==
  ASSUME TypeOK, NEW r \in Req, Invitations(r) \/ Team(r)
  PROVE  TakesInHand(r)
  <1> USE DEF TakesInHand, At, Read, Reject, Go
  <1>1. got \in [Req -> SUBSET Id] /\ pc \in [Req -> (UNION {Steps(kind) : kind \in Kinds}) \cup Ended \cup {"free", "start"}]
    BY TypeParts DEF DataType, ControlType
  <1>2. CASE InviteCheck(r)
    BY <1>1, <1>2 DEF InviteCheck
  <1>3. CASE InviteSeats(r)
    BY <1>1, <1>3 DEF InviteSeats
  <1>4. CASE InviteCreate(r)
    BY <1>1, <1>4 DEF InviteCreate
  <1>5. CASE InviteMail(r)
    BY <1>1, <1>5 DEF InviteMail
  <1>6. CASE RevokeInviteRead(r)
    BY <1>1, <1>6 DEF RevokeInviteRead
  <1>7. CASE RevokeInvite(r)
    BY <1>1, <1>7 DEF RevokeInvite
  <1>8. CASE AcceptCheck(r)
    BY <1>1, <1>8 DEF AcceptCheck
  <1>9. CASE AcceptExpired(r)
    BY <1>1, <1>9 DEF AcceptExpired
  <1>10. CASE AcceptJoin(r)
    BY <1>1, <1>10 DEF AcceptJoin
  <1>11. CASE TargetRead(r)
    BY <1>1, <1>11 DEF TargetRead
  <1>12. CASE AssertNotLastOwner(r)
    BY <1>1, <1>12 DEF AssertNotLastOwner
  <1>13. CASE UpdateRole(r)
    BY <1>1, <1>13 DEF UpdateRole
  <1>14. CASE SetActive(r)
    BY <1>1, <1>14 DEF SetActive
  <1>15. CASE KeyCount(r)
    BY <1>1, <1>15 DEF KeyCount
  <1>16. CASE KeyCreate(r)
    BY <1>1, <1>16 DEF KeyCreate
  <1>17. CASE KeyRevoke(r)
    BY <1>1, <1>17 DEF KeyRevoke
  <1>18. QED
    BY <1>2, <1>3, <1>4, <1>5, <1>6, <1>7, <1>8, <1>9, <1>10, <1>11, <1>12, <1>13, <1>14, <1>15, <1>16, <1>17
       DEF Invitations, Team

\* What a request has in hand stays about one account.
LEMMA OneAccountKeeps ==
  ASSUME TypeOK, OnItsWay, OneAccount, [Next]_vars
  PROVE  OneAccount'
  <1>1. ASSUME NEW r \in Req, Step(r)
        PROVE  OneAccount'
    <2>1. TakesInHand(r)
      BY <1>1, SignInInHand, TokenInHand, LinkInHand, TeamInHand DEF Step
    <2>2. PICK b : Moves(r, b)
      BY <1>1, StepMoves
    <2>3. b \in Ended \cup {"wipe", "retireAll"} \/ pc[r] \notin Ended \cup {"wipe", "retireAll"}
      BY <2>2 DEF Moves, Edge, Ended
    <2>4. QED
      BY <2>1, <2>2, <2>3, MoveFacts DEF OneAccount, TakesInHand
  <1>2. ASSUME NEW r \in Req, NEW j \in Jobs, Submit(r, j)
        PROVE  OneAccount'
    BY <1>2, SubmitFacts DEF OneAccount, Ended
  <1>3. ASSUME NEW r \in Req, NEW b \in Ended, Moves(r, b), Fail(r)
        PROVE  OneAccount'
    BY <1>3, MoveFacts DEF OneAccount, Fail
  <1>4. ASSUME UNCHANGED <<pc, got>>
        PROVE  OneAccount'
    BY <1>4 DEF OneAccount
  <1>5. QED
    BY <1>1, <1>2, <1>3, <1>4, Turn DEF vars, Expire

-----------------------------------------------------------------------------
(* Sign-in codes *)

\* Codes go from unused to used only, and the accounts they are for stay.
UseOnly == \A c \in Id : code'[c].user = code[c].user /\ (code[c].used => code'[c].used)

\* Most requests touch no code, and those that do only spend codes, unless they make one.
LEMMA CodesAreSpent ==
  ASSUME TypeOK, NEW r \in Req, Step(r), ~CreateChallenge(r)
  PROVE  UseOnly
  <1> USE DEF At, Read, Reject, Go, tokens, signin, team, rest, UseOnly
  <1>1. code \in [Id -> CodeRow]
    BY DEF TypeOK
  <1>2. CASE Issue(r) \/ Record(r) \/ Register(r)
    BY <1>2 DEF Issue, Record, Register, RegisterCheck, RegisterCreate
  <1>3. CASE Refresh(r) \/ SignOut(r)
    BY <1>3 DEF Refresh, RefreshGet, DropToken, RetireRow, RefreshUser,
                SignOut, RevokeRead, RevokeMark, ListRows, Wipe, RetireAll
  <1>4. CASE Links(r)
    BY <1>4 DEF Links, RequestVerification, ForgotPassword, ClearLinks, NewLink, VerifyEmailRead,
                VerifyEmail, ResetRead, ResetPassword
  <1>5. CASE Invitations(r)
    BY <1>5 DEF Invitations, InviteCheck, InviteSeats, InviteCreate, InviteMail, RevokeInviteRead,
                RevokeInvite, AcceptCheck, AcceptExpired, AcceptJoin
  <1>6. CASE Team(r)
    BY <1>6 DEF Team, TargetRead, AssertNotLastOwner, UpdateRole, SetActive, KeyCount, KeyCreate, KeyRevoke
  <1>7. CASE Login(r) \/ ResendRead(r) \/ VerifyRead(r) \/ Remember(r)
    BY <1>7 DEF Login, ResendRead, VerifyRead, Remember
  <1>8. CASE MailCode(r)
    BY <1>1, <1>8 DEF MailCode, CodeRow
  <1>9. CASE ResendStore(r)
    BY <1>1, <1>9 DEF ResendStore, CodeRow
  <1>10. CASE Reserve(r)
    BY <1>1, <1>10 DEF Reserve, CodeRow
  <1>11. CASE Consume(r)
    BY <1>1, <1>11 DEF Consume, CodeRow
  <1>12. CASE ConsumeOthers(r)
    BY <1>1, <1>12 DEF ConsumeOthers, CodeRow
  <1>13. QED
    BY <1>2, <1>3, <1>4, <1>5, <1>6, <1>7, <1>8, <1>9, <1>10, <1>11, <1>12
       DEF Step, SignIn, VerifyLoginOtp

\* A move that makes no code and consumes none keeps what is said of the codes.
LEMMA CodeMove ==
  ASSUME TypeOK, CodeInv, NEW r \in Req, NEW b, Moves(r, b), UseOnly,
         ~(Kind(r) = "verify" /\ b = "others")
  PROVE  CodeInv'
  <1>1. Kind(r) = "verify" /\ b \in Consumed => pc[r] \in Consumed
    BY DEF Moves, Edge, Consumed
  <1>2. \A q \in Req : Kind(q) = "verify" /\ pc[q] # "free" => On(q) \in Id
    BY JobFacts DEF OnARow
  <1>3. \A q \in Req : Kind(q)' = "verify" /\ pc'[q] \in Consumed =>
           Kind(q) = "verify" /\ pc[q] \in Consumed /\ On(q)' = On(q) /\ On(q) \in Id
    BY <1>1, <1>2, MoveFacts DEF Consumed
  <1>4. \A q \in Req : pc'[q] \in {"free", "start", "challenge"} =>
           pc[q] \in {"free", "start", "challenge"}
    BY MoveFacts DEF Moves, Edge
  <1>5. \A c \in Id : ~code'[c].used => code'[c].user \in Id
    BY DEF UseOnly, CodeInv
  <1>6. \A q \in Req : pc'[q] \in {"free", "start", "challenge"} => code'[q].used
    BY <1>4 DEF UseOnly, CodeInv, Id
  <1>7. \A q \in Req : Kind(q)' = "verify" /\ pc'[q] \in Consumed =>
           /\ code'[On(q)'].used
           /\ On(q)' \in Req => pc'[On(q)'] \notin {"free", "start", "challenge"}
    BY <1>3, <1>4 DEF UseOnly, CodeInv
  <1>8. \A p, q \in Req :
           Kind(p)' = "verify" /\ pc'[p] \in Consumed /\ Kind(q)' = "verify" /\ pc'[q] \in Consumed
           /\ On(p)' = On(q)' => p = q
    BY <1>3 DEF CodeInv
  <1>9. QED
    BY <1>5, <1>6, <1>7, <1>8 DEF CodeInv

\* The code a sign-in makes was not there: nothing has consumed it.
LEMMA CodeMade ==
  ASSUME TypeOK, OnItsWay, CodeInv, NEW r \in Req, CreateChallenge(r)
  PROVE  CodeInv'
  <1>1. PICK u \in got[r] :
           /\ pc[r] = "challenge" /\ Kind(r) = "login"
           /\ code' = [code EXCEPT ![r] = [user |-> u, attempts |-> 0, used |-> FALSE, mailed |-> FALSE]]
           /\ pc' = [pc EXCEPT ![r] = "mail"] /\ job' = job
    BY DEF CreateChallenge, At, Go
  <1>2. u \in Id /\ code \in [Id -> CodeRow] /\ r \in Id
    BY <1>1 DEF TypeOK, Id
  <1>3. /\ \A c \in Id : c # r => code'[c] = code[c]
        /\ code'[r].user = u /\ ~code'[r].used
        /\ \A q \in Req : q # r => pc'[q] = pc[q]
        /\ pc'[r] = "mail"
        /\ \A q \in Req : Kind(q)' = Kind(q) /\ On(q)' = On(q)
    BY <1>1, <1>2 DEF TypeOK, Kind, On
  <1>4. \A q \in Req : Kind(q) = "verify" /\ pc[q] # "free" => On(q) \in Id
    BY JobFacts DEF OnARow
  <1>5. \A q \in Req : Kind(q)' = "verify" /\ pc'[q] \in Consumed =>
           Kind(q) = "verify" /\ pc[q] \in Consumed /\ On(q) # r /\ On(q) \in Id
    BY <1>1, <1>3, <1>4 DEF CodeInv, Consumed
  <1>6. \A c \in Id : ~code'[c].used => code'[c].user \in Id
    BY <1>2, <1>3 DEF CodeInv
  <1>7. \A q \in Req : pc'[q] \in {"free", "start", "challenge"} => code'[q].used
    BY <1>3 DEF CodeInv, Id
  <1>8. \A q \in Req : Kind(q)' = "verify" /\ pc'[q] \in Consumed =>
           /\ code'[On(q)'].used
           /\ On(q)' \in Req => pc'[On(q)'] \notin {"free", "start", "challenge"}
    BY <1>3, <1>5 DEF CodeInv
  <1>9. \A p, q \in Req :
           Kind(p)' = "verify" /\ pc'[p] \in Consumed /\ Kind(q)' = "verify" /\ pc'[q] \in Consumed
           /\ On(p)' = On(q)' => p = q
    BY <1>3, <1>5 DEF CodeInv
  <1>10. QED
    BY <1>6, <1>7, <1>8, <1>9 DEF CodeInv

\* A code is consumed when it is unused, so by nobody before.
LEMMA CodeConsumed ==
  ASSUME TypeOK, OnItsWay, CodeInv, NEW r \in Req, Consume(r), pc'[r] = "others"
  PROVE  CodeInv'
  <1>1. /\ pc[r] = "consume" /\ Kind(r) = "verify" /\ ~code[On(r)].used
        /\ code' = [code EXCEPT ![On(r)].used = TRUE]
        /\ pc' = [pc EXCEPT ![r] = "others"] /\ job' = job
    BY DEF Consume, At, Go, Reject, TypeOK
  <1>2. On(r) \in Id /\ code \in [Id -> CodeRow]
    BY <1>1, JobFacts DEF TypeOK, OnARow
  <1>3. /\ \A c \in Id : c # On(r) => code'[c] = code[c]
        /\ code'[On(r)].used /\ code'[On(r)].user = code[On(r)].user
        /\ \A q \in Req : q # r => pc'[q] = pc[q]
        /\ pc'[r] = "others"
        /\ \A q \in Req : Kind(q)' = Kind(q) /\ On(q)' = On(q)
    BY <1>1, <1>2 DEF TypeOK, CodeRow, Kind, On
  <1>4. \A q \in Req : Kind(q) = "verify" /\ pc[q] # "free" => On(q) \in Id
    BY JobFacts DEF OnARow
  <1>5. \A q \in Req : Kind(q)' = "verify" /\ pc'[q] \in Consumed =>
           \/ q = r
           \/ Kind(q) = "verify" /\ pc[q] \in Consumed /\ On(q) # On(r) /\ On(q) \in Id
    BY <1>1, <1>3, <1>4 DEF CodeInv, Consumed
  <1>6. \A c \in Id : ~code'[c].used => code'[c].user \in Id
    BY <1>3 DEF CodeInv
  <1>7. \A q \in Req : pc'[q] \in {"free", "start", "challenge"} =>
           pc[q] = pc'[q] /\ code'[q].used
    BY <1>3 DEF CodeInv, Id
  <1>8. On(r) \in Req => pc[On(r)] \notin {"free", "start", "challenge"}
    BY <1>1 DEF CodeInv
  <1>9. \A q \in Req : Kind(q)' = "verify" /\ pc'[q] \in Consumed =>
           /\ code'[On(q)'].used
           /\ On(q)' \in Req => pc'[On(q)'] \notin {"free", "start", "challenge"}
    BY <1>3, <1>5, <1>7, <1>8 DEF CodeInv
  <1>10. \A p, q \in Req :
           Kind(p)' = "verify" /\ pc'[p] \in Consumed /\ Kind(q)' = "verify" /\ pc'[q] \in Consumed
           /\ On(p)' = On(q)' => p = q
    BY <1>3, <1>5 DEF CodeInv
  <1>11. QED
    BY <1>6, <1>7, <1>9, <1>10 DEF CodeInv

\* What is said of the codes is inductive.
LEMMA CodesKeep ==
  ASSUME TypeOK, OnItsWay, CodeInv, [Next]_vars
  PROVE  CodeInv'
  <1>1. ASSUME NEW r \in Req, Step(r), NEW b, Moves(r, b)
        PROVE  CodeInv'
    <2>1. CASE CreateChallenge(r)
      BY <2>1, CodeMade
    <2>2. CASE Kind(r) = "verify" /\ b = "others"
      <3>1. pc'[r] = "others" /\ pc[r] = "consume"
        BY <1>1, <2>2, MoveFacts DEF Moves, Edge, Ended
      <3>2. VerifyLoginOtp(r)
        BY <1>1, <2>2, <3>1
           DEF Step, Issue, Record, Register, RegisterCheck, RegisterCreate, SignIn, Login, CreateChallenge,
               MailCode, ResendRead, ResendStore, Refresh, RefreshGet, DropToken, RetireRow, RefreshUser,
               SignOut, RevokeRead, RevokeMark, ListRows, Wipe, RetireAll, Links, RequestVerification,
               ForgotPassword, ClearLinks, NewLink, VerifyEmailRead, VerifyEmail, ResetRead, ResetPassword,
               Invitations, InviteCheck, InviteSeats, InviteCreate, InviteMail, RevokeInviteRead,
               RevokeInvite, AcceptCheck, AcceptExpired, AcceptJoin, Team, TargetRead, AssertNotLastOwner,
               UpdateRole, SetActive, KeyCount, KeyCreate, KeyRevoke, At
      <3>3. Consume(r)
        BY <3>1, <3>2 DEF VerifyLoginOtp, VerifyRead, Reserve, ConsumeOthers, Remember, At
      <3>4. QED
        BY <3>1, <3>3, CodeConsumed
    <2>3. CASE ~CreateChallenge(r) /\ ~(Kind(r) = "verify" /\ b = "others")
      BY <1>1, <2>3, CodesAreSpent, CodeMove
    <2>4. QED
      BY <2>1, <2>2, <2>3
  <1>2. ASSUME NEW r \in Req, NEW b \in Ended, Moves(r, b), Fail(r)
        PROVE  CodeInv'
    <2>1. UseOnly /\ b # "others"
      BY <1>2 DEF Fail, UseOnly, signin, Ended
    <2>2. QED
      BY <1>2, <2>1, CodeMove
  <1>3. ASSUME NEW r \in Req, NEW j \in Jobs, Submit(r, j)
        PROVE  CodeInv'
    <2>1. \A q \in Req : pc'[q] \in Consumed => q # r /\ pc[q] \in Consumed /\ Kind(q)' = Kind(q) /\ On(q)' = On(q)
      BY <1>3, SubmitFacts DEF Consumed
    <2>2. \A q \in Req : pc'[q] \in {"free", "start", "challenge"} <=> pc[q] \in {"free", "start", "challenge"}
      BY <1>3, SubmitFacts
    <2>3. code' = code
      BY <1>3, SubmitFacts
    <2>4. \A q \in Req : Kind(q)' = "verify" /\ pc'[q] \in Consumed =>
           /\ code'[On(q)'].used
           /\ On(q)' \in Req => pc'[On(q)'] \notin {"free", "start", "challenge"}
      BY <2>1, <2>2, <2>3 DEF CodeInv
    <2>5. QED
      BY <2>1, <2>2, <2>3, <2>4 DEF CodeInv
  <1>4. ASSUME UNCHANGED <<pc, job, code>>
        PROVE  CodeInv'
    BY <1>4 DEF CodeInv, Kind, On
  <1>5. QED
    BY <1>1, <1>2, <1>3, <1>4, Turn DEF vars, Expire, signin

-----------------------------------------------------------------------------
(* Verification and reset links *)

\* Links go from unused to used only, and what they are for stays.
SpendOnly ==
    \A l \in Id : /\ link'[l].kind = link[l].kind /\ link'[l].user = link[l].user
                  /\ link[l].used => link'[l].used

\* Requests for other things leave the links alone.
LEMMA LinksAlone ==
  ASSUME NEW r \in Req, Step(r), ~Links(r)
  PROVE  /\ link' = link /\ pc[r] # "clear"
         /\ ~(Kind(r) = "resetPassword" /\ pc[r] \in {"start", "apply"})
  <1> USE DEF At, Read, Reject, Go, tokens, signin, team, rest
  <1>1. CASE Issue(r) \/ Record(r) \/ Register(r)
    BY <1>1 DEF Issue, Record, Register, RegisterCheck, RegisterCreate
  <1>2. CASE SignIn(r)
    BY <1>2 DEF SignIn, Login, CreateChallenge, MailCode, ResendRead, ResendStore
  <1>3. CASE VerifyLoginOtp(r)
    BY <1>3 DEF VerifyLoginOtp, VerifyRead, Reserve, Consume, ConsumeOthers, Remember
  <1>4. CASE Refresh(r) \/ SignOut(r)
    BY <1>4 DEF Refresh, RefreshGet, DropToken, RetireRow, RefreshUser,
                SignOut, RevokeRead, RevokeMark, ListRows, Wipe, RetireAll
  <1>5. CASE Invitations(r)
    BY <1>5 DEF Invitations, InviteCheck, InviteSeats, InviteCreate, InviteMail, RevokeInviteRead,
                RevokeInvite, AcceptCheck, AcceptExpired, AcceptJoin
  <1>6. CASE Team(r)
    BY <1>6 DEF Team, TargetRead, AssertNotLastOwner, UpdateRole, SetActive, KeyCount, KeyCreate, KeyRevoke
  <1>7. QED
    BY <1>1, <1>2, <1>3, <1>4, <1>5, <1>6 DEF Step

\* Spending the links of a kind and an account leaves no such link open, and spends only.
LEMMA SpentFacts ==
  ASSUME link \in [Id -> LinkRow], NEW kind, NEW u, link' = Spent(kind, u)
  PROVE  SpendOnly /\ \A l \in Id : ~Open(l, kind, u)'
  BY DEF Spent, SpendOnly, LinkRow, Open

\* A move that stores no link keeps what is said of the links, if it leaves none open that it
\* promises to close, and begins a reset with a link that exists.
LEMMA LinkMove ==
  ASSUME TypeOK, LinkInv, NEW r \in Req, NEW b, Moves(r, b), SpendOnly,
         \A q \in Req : q # r => got'[q] = got[q],
         b = "new" => \A u \in got'[r], l \in Id : ~Open(l, LinkKind(r), u)',
         Kind(r) = "resetPassword" /\ b = "apply" => link[On(r)].kind # "none",
         Kind(r) = "resetPassword" /\ b = "signout" => \A l \in Id : ~Open(l, "reset", SignsOut(r))'
  PROVE  LinkInv'
  <1>1. /\ pc'[r] = b /\ \A q \in Req : q # r => pc'[q] = pc[q]
        /\ \A q \in Req : Kind(q)' = Kind(q) /\ On(q)' = On(q)
        /\ met' = met
    BY MoveFacts
  <1>2. \A l \in Id : \A kind, u : Open(l, kind, u)' => Open(l, kind, u)
    BY DEF SpendOnly, Open
  <1>3. \A q \in Req : Kind(q) = "resetPassword" => On(q) \in Id
    <2>1. SUFFICES ASSUME NEW q \in Req, Kind(q) = "resetPassword" PROVE On(q) \in Id
      OBVIOUS
    <2>2. pc[q] # "free"
      BY <2>1 DEF TypeOK, Kind, NoJob
    <2>3. QED
      BY <2>1, <2>2, JobFacts DEF OnARow
  <1>4. \A l \in Id : ~link'[l].used => link'[l].kind # "none" /\ link'[l].user \in Id
    BY DEF SpendOnly, LinkInv
  <1>5. \A l \in Req : link'[l].kind # "none" => pc'[l] = "done"
    BY <1>1 DEF SpendOnly, LinkInv, Id, Moves, Ended
  <1>6. \A q \in Req : Kind(q)' = "resetPassword" /\ pc'[q] \notin {"start", "rejected", "failed"} =>
           link'[On(q)'].kind # "none"
    <2>1. Kind(r) = "resetPassword" /\ b \notin {"rejected", "failed", "apply"} =>
             pc[r] \notin {"start", "rejected", "failed"}
      BY DEF Moves, Edge, Ended
    <2>2. QED
      BY <1>1, <1>3, <2>1, MoveFacts DEF SpendOnly, LinkInv
  <1>7. \A q \in Req : pc'[q] = "new" =>
           \A u \in got'[q], l \in Id : Open(l, LinkKind(q), u)' => {l, q} \in met'
    <2>1. ASSUME NEW q \in Req, pc'[q] = "new", q # r, NEW u \in got'[q], NEW l \in Id,
                 Open(l, LinkKind(q), u)'
          PROVE  {l, q} \in met
      <3>1. pc[q] = "new" /\ u \in got[q] /\ Open(l, LinkKind(q), u)
        BY <1>1, <1>2, <2>1 DEF LinkKind
      <3>2. QED
        BY <3>1 DEF LinkInv
    <2>2. QED
      BY <1>1, <2>1
  <1>8. \A k, l \in Id : k # l /\ ~link'[k].used /\ Open(l, link[k].kind, link[k].user)' => {k, l} \in met'
    <2>1. SUFFICES ASSUME NEW k \in Id, NEW l \in Id, k # l, ~link'[k].used,
                          Open(l, link[k].kind, link[k].user)'
                   PROVE  {k, l} \in met
      BY <1>1
    <2>2. /\ ~link[k].used /\ ~link[l].used /\ link[l].kind = link[k].kind
          /\ link[l].user = link[k].user
      BY <2>1 DEF SpendOnly, Open
    <2>3. QED
      BY <2>1, <2>2 DEF LinkInv, Open
  <1>9. \A q \in Req : Kind(q)' = "resetPassword" /\ pc'[q] \in {"signout", "wipe", "retireAll", "done"} =>
           \A l \in Id : Open(l, "reset", SignsOut(q))' => l \in Req /\ (l > q \/ {l, q} \in met')
    <2>1. Kind(r) = "resetPassword" /\ b \in {"wipe", "retireAll", "done"} =>
             pc[r] \in {"signout", "wipe", "retireAll", "done"}
      BY DEF Moves, Edge
    <2>2. ASSUME NEW q \in Req, Kind(q)' = "resetPassword",
                 pc'[q] \in {"signout", "wipe", "retireAll", "done"},
                 NEW l \in Id, Open(l, "reset", SignsOut(q))'
          PROVE  l \in Req /\ (l > q \/ {l, q} \in met)
      <3>1. Kind(q) = "resetPassword" /\ pc[q] \in {"signout", "wipe", "retireAll", "done"}
        <4>1. ~(q = r /\ b = "signout")
          BY <1>1, <2>2
        <4>2. QED
          BY <1>1, <2>1, <2>2, <4>1
      <3>2. ~link[l].used /\ link[l].kind = "reset" /\ link[l].user = link[On(q)].user
        BY <1>1, <1>3, <2>2, <3>1 DEF SpendOnly, Open, SignsOut
      <3>3. Open(l, "reset", SignsOut(q))
        BY <3>1, <3>2 DEF Open, SignsOut
      <3>4. QED
        BY <3>1, <3>3 DEF LinkInv
    <2>3. QED
      BY <1>1, <2>2
  <1>10. QED
    BY <1>4, <1>5, <1>6, <1>7, <1>8, <1>9 DEF LinkInv

\* The link that is stored meets only links from requests that overlapped its own.
LEMMA LinkStored ==
  ASSUME TypeOK, OnItsWay, Sequential, OneAccount, LinkInv, NEW r \in Req, NewLink(r)
  PROVE  LinkInv'
  <1>1. PICK u \in got[r] :
           /\ pc[r] = "new" /\ link' = [link EXCEPT ![r] = [kind |-> LinkKind(r), user |-> u, used |-> FALSE]]
           /\ pc' = [pc EXCEPT ![r] = "done"] /\ job' = job /\ got' = got /\ met' = met
    BY DEF NewLink, Go, rest
  <1>2. /\ \A l \in Id : l # r => link'[l] = link[l]
        /\ ~link'[r].used /\ link'[r].kind = LinkKind(r) /\ link'[r].user = u
        /\ u \in Id /\ r \in Id /\ LinkKind(r) # "none"
    BY <1>1 DEF TypeOK, Id, LinkKind
  <1>3. /\ pc'[r] = "done" /\ \A q \in Req : q # r => pc'[q] = pc[q]
        /\ \A q \in Req : Kind(q)' = Kind(q) /\ On(q)' = On(q)
    BY <1>1 DEF TypeOK, Kind, On
  <1>4. link[r].kind = "none" /\ link[r].used
    BY <1>1, <1>2 DEF LinkInv
  <1>5. \A q \in Req : Kind(q) = "resetPassword" => On(q) \in Id /\ pc[q] # "free" /\ q # r
    <2>1. SUFFICES ASSUME NEW q \in Req, Kind(q) = "resetPassword"
                   PROVE  On(q) \in Id /\ pc[q] # "free" /\ q # r
      OBVIOUS
    <2>2. pc[q] # "free"
      BY <2>1 DEF TypeOK, Kind, NoJob
    <2>3. pc[q] # "new"
      BY <2>1 DEF OnItsWay, Steps, Ended
    <2>4. QED
      BY <1>1, <2>1, <2>2, <2>3, JobFacts DEF OnARow
  <1>6. \A l \in Id : Open(l, LinkKind(r), u) => {l, r} \in met
    BY <1>1 DEF LinkInv
  <1>7. \A l \in Id : ~link'[l].used => link'[l].kind # "none" /\ link'[l].user \in Id
    BY <1>2 DEF LinkInv
  <1>8. \A l \in Req : link'[l].kind # "none" => pc'[l] = "done"
    BY <1>2, <1>3 DEF LinkInv, Id
  <1>9. \A q \in Req : Kind(q)' = "resetPassword" /\ pc'[q] \notin {"start", "rejected", "failed"} =>
           link'[On(q)'].kind # "none"
    BY <1>2, <1>3, <1>5 DEF LinkInv
  <1>10. \A q \in Req : pc'[q] = "new" =>
            \A v \in got'[q], l \in Id : Open(l, LinkKind(q), v)' => {l, q} \in met'
    <2>1. ASSUME NEW q \in Req, pc'[q] = "new", NEW v \in got[q], NEW l \in Id, Open(l, LinkKind(q), v)'
          PROVE  {l, q} \in met
      <3>1. q # r /\ pc[q] = "new"
        BY <1>3, <2>1
      <3>2. CASE l = r
        BY <1>1, <3>1, <3>2, BothInFlight DEF Ended
      <3>3. CASE l # r
        <4>1. Open(l, LinkKind(q), v)
          BY <1>2, <1>3, <2>1, <3>3 DEF Open, LinkKind
        <4>2. QED
          BY <2>1, <3>1, <4>1 DEF LinkInv
      <3>4. QED
        BY <3>2, <3>3
    <2>2. QED
      BY <1>1, <2>1
  <1>11. \A k, l \in Id : k # l /\ ~link'[k].used /\ Open(l, link[k].kind, link[k].user)' => {k, l} \in met'
    <2>1. ASSUME NEW k \in Id, NEW l \in Id, k # l, ~link'[k].used, ~link'[l].used,
                 link'[l].kind = link'[k].kind, link'[l].user = link'[k].user
          PROVE  {k, l} \in met
      <3>1. CASE k = r
        <4>1. Open(l, LinkKind(r), u)
          BY <1>2, <2>1, <3>1 DEF Open
        <4>2. {k, l} = {l, r}
          BY <3>1
        <4>3. QED
          BY <1>6, <4>1, <4>2
      <3>2. CASE l = r
        <4>1. Open(k, LinkKind(r), u)
          BY <1>2, <2>1, <3>2 DEF Open
        <4>2. QED
          BY <1>6, <3>2, <4>1
      <3>3. CASE k # r /\ l # r
        BY <1>2, <2>1, <3>3 DEF LinkInv, Open
      <3>4. QED
        BY <3>1, <3>2, <3>3
    <2>2. QED
      BY <1>1, <2>1 DEF Open
  <1>12. \A q \in Req : Kind(q)' = "resetPassword" /\ pc'[q] \in {"signout", "wipe", "retireAll", "done"} =>
            \A l \in Id : Open(l, "reset", SignsOut(q))' => l \in Req /\ (l > q \/ {l, q} \in met')
    <2>1. ASSUME NEW q \in Req, Kind(q)' = "resetPassword",
                 pc'[q] \in {"signout", "wipe", "retireAll", "done"},
                 NEW l \in Id, Open(l, "reset", SignsOut(q))'
          PROVE  l \in Req /\ (l > q \/ {l, q} \in met)
      <3>1. /\ q # r /\ On(q) \in Id /\ pc[q] # "free" /\ Kind(q) = "resetPassword"
            /\ pc[q] \in {"signout", "wipe", "retireAll", "done"}
        BY <1>3, <1>5, <2>1
      <3>2. On(q) # r
        BY <1>4, <3>1 DEF LinkInv
      <3>3. CASE l = r
        <4>1. r > q \/ r < q
          BY <3>1 DEF Req
        <4>2. r < q => {r, q} \in met
          BY <1>1, <3>1 DEF Sequential, Ended
        <4>3. QED
          BY <3>3, <4>1, <4>2
      <3>4. CASE l # r
        <4>1. Open(l, "reset", SignsOut(q))
          BY <1>2, <1>3, <2>1, <3>1, <3>2, <3>4 DEF Open, SignsOut
        <4>2. QED
          BY <3>1, <4>1 DEF LinkInv
      <3>5. QED
        BY <3>3, <3>4
    <2>2. QED
      BY <1>1, <2>1
  <1>13. QED
    BY <1>7, <1>8, <1>9, <1>10, <1>11, <1>12 DEF LinkInv

\* What is said of the links is inductive.
LEMMA LinksKeep ==
  ASSUME TypeOK, OnItsWay, Sequential, OneAccount, LinkInv, [Next]_vars
  PROVE  LinkInv'
  <1>1. link \in [Id -> LinkRow]
    BY DEF TypeOK
  <1>2. ASSUME NEW r \in Req, Step(r), NEW b, Moves(r, b), ~NewLink(r)
        PROVE  LinkInv'
    <2>1. \A q \in Req : q # r => got'[q] = got[q]
      BY <1>2, SignInInHand, TokenInHand, LinkInHand, TeamInHand DEF Step, TakesInHand
    <2>2. pc'[r] = b
      BY <1>2, MoveFacts
    <2>3. /\ b = "new" => pc[r] = "clear"
          /\ Kind(r) = "resetPassword" /\ b = "apply" => pc[r] = "start"
          /\ Kind(r) = "resetPassword" /\ b = "signout" => pc[r] = "apply"
      BY <1>2 DEF Moves, Edge, Ended
    <2>4. CASE ~Links(r)
      <3>1. SpendOnly /\ pc[r] # "clear" /\ ~(Kind(r) = "resetPassword" /\ pc[r] \in {"start", "apply"})
        BY <1>2, <2>4, LinksAlone DEF SpendOnly
      <3>2. QED
        BY <1>2, <2>1, <2>3, <3>1, LinkMove
    <2>5. CASE RequestVerification(r) \/ ForgotPassword(r) \/ VerifyEmailRead(r)
      <3>1. /\ SpendOnly /\ pc[r] = "start" /\ Kind(r) # "resetPassword"
        BY <2>5 DEF RequestVerification, ForgotPassword, VerifyEmailRead, At, Read, Reject, SpendOnly
      <3>2. QED
        BY <1>2, <2>1, <2>3, <3>1, LinkMove
    <2>6. CASE VerifyEmail(r)
      <3>1. /\ SpendOnly /\ pc[r] = "apply" /\ Kind(r) # "resetPassword"
        BY <1>1, <2>6 DEF VerifyEmail, At, SpendOnly, LinkRow
      <3>2. QED
        BY <1>2, <2>1, <2>3, <3>1, LinkMove
    <2>7. CASE ResetRead(r)
      <3>1. /\ SpendOnly /\ pc[r] = "start" /\ Kind(r) = "resetPassword"
            /\ pc'[r] = "apply" => LinkOpen(On(r))
        BY <2>7 DEF ResetRead, At, Read, Reject, Go, SpendOnly, TypeOK
      <3>2. On(r) \in Id
        BY <3>1, JobFacts DEF OnARow
      <3>3. b = "apply" => link[On(r)].kind # "none"
        BY <2>2, <3>1, <3>2 DEF LinkOpen, LinkInv
      <3>4. QED
        BY <1>2, <2>1, <2>3, <3>1, <3>3, LinkMove
    <2>8. CASE ResetPassword(r)
      <3>1. pc[r] = "apply" /\ Kind(r) = "resetPassword" /\ On(r) \in Id
        BY <2>8, JobFacts DEF ResetPassword, At, OnARow
      <3>2. PICK u : u = link[On(r)].user
        OBVIOUS
      <3>3. CASE link' = Spent("reset", u)
        <4>1. SpendOnly /\ \A l \in Id : ~Open(l, "reset", u)'
          BY <1>1, <3>3, SpentFacts
        <4>2. SignsOut(r)' = u
          BY <1>2, <3>1, <3>2, <4>1, MoveFacts DEF SignsOut, SpendOnly
        <4>3. \A l \in Id : ~Open(l, "reset", SignsOut(r))'
          BY <4>1, <4>2 DEF Open
        <4>4. QED
          BY <1>2, <2>1, <2>3, <3>1, <4>1, <4>3, LinkMove
      <3>4. CASE link' # Spent("reset", u)
        <4>1. link' = link /\ pc'[r] = "rejected"
          BY <2>8, <3>2, <3>4 DEF ResetPassword, Reject, Go, TypeOK
        <4>2. SpendOnly
          BY <4>1 DEF SpendOnly
        <4>3. QED
          BY <1>2, <2>1, <2>2, <4>1, <4>2, LinkMove
      <3>5. QED
        BY <3>3, <3>4
    <2>9. CASE ClearLinks(r)
      <3>1. PICK u \in got[r] :
               pc[r] = "clear" /\ link' = Spent(LinkKind(r), u) /\ got' = got
        BY <2>9 DEF ClearLinks
      <3>2. PICK kind : kind = LinkKind(r)
        OBVIOUS
      <3>3. SpendOnly /\ \A l \in Id : ~Open(l, kind, u)'
        BY <1>1, <3>1, <3>2, SpentFacts
      <3>4. \A v \in got'[r] : v = u
        BY <3>1 DEF OneAccount, Ended
      <3>5. LinkKind(r)' = kind
        BY <1>2, <3>2, MoveFacts DEF LinkKind
      <3>6. \A v \in got'[r], l \in Id : ~Open(l, LinkKind(r), v)'
        BY <3>3, <3>4, <3>5 DEF Open
      <3>7. Kind(r) # "resetPassword"
        BY <3>1 DEF OnItsWay, Steps, Ended
      <3>8. QED
        BY <1>2, <2>1, <3>3, <3>6, <3>7, LinkMove
    <2>10. QED
      BY <1>2, <2>4, <2>5, <2>6, <2>7, <2>8, <2>9 DEF Links
  <1>3. ASSUME NEW r \in Req, NEW b \in Ended, Moves(r, b), Fail(r)
        PROVE  LinkInv'
    <2>1. SpendOnly /\ got' = got /\ b # "new" /\ b # "apply" /\ b # "signout"
      BY <1>3 DEF Fail, SpendOnly, Ended
    <2>2. QED
      BY <1>3, <2>1, LinkMove
  <1>4. ASSUME NEW r \in Req, NEW j \in Jobs, Submit(r, j)
        PROVE  LinkInv'
    <2>1. /\ link' = link /\ got' = got /\ met \subseteq met'
          /\ pc[r] = "free" /\ pc'[r] = "start" /\ \A q \in Req : q # r => pc'[q] = pc[q]
          /\ \A q \in Req : q # r => Kind(q)' = Kind(q) /\ On(q)' = On(q)
      BY <1>4, SubmitFacts
    <2>2. \A l \in Id : \A kind, u : Open(l, kind, u)' <=> Open(l, kind, u)
      BY <2>1 DEF Open
    <2>3. \A l \in Id : ~link'[l].used => link'[l].kind # "none" /\ link'[l].user \in Id
      BY <2>1 DEF LinkInv
    <2>4. \A l \in Req : link'[l].kind # "none" => pc'[l] = "done"
      BY <2>1 DEF LinkInv
    <2>5. \A q \in Req : Kind(q)' = "resetPassword" /\ pc'[q] \notin {"start", "rejected", "failed"} =>
             link'[On(q)'].kind # "none"
      BY <2>1 DEF LinkInv
    <2>6. \A q \in Req : pc'[q] = "new" =>
             \A u \in got'[q], l \in Id : Open(l, LinkKind(q), u)' => {l, q} \in met'
      BY <2>1, <2>2 DEF LinkInv, LinkKind
    <2>7. \A k, l \in Id : k # l /\ ~link'[k].used /\ Open(l, link[k].kind, link[k].user)' => {k, l} \in met'
      BY <2>1 DEF LinkInv, Open
    <2>8. \A q \in Req : Kind(q)' = "resetPassword" /\ pc'[q] \in {"signout", "wipe", "retireAll", "done"} =>
             \A l \in Id : Open(l, "reset", SignsOut(q))' => l \in Req /\ (l > q \/ {l, q} \in met')
      <3>1. SUFFICES ASSUME NEW q \in Req, Kind(q)' = "resetPassword",
                            pc'[q] \in {"signout", "wipe", "retireAll", "done"},
                            NEW l \in Id, Open(l, "reset", SignsOut(q))'
                     PROVE  l \in Req /\ (l > q \/ {l, q} \in met')
        OBVIOUS
      <3>2. q # r /\ Kind(q) = "resetPassword" /\ pc[q] \in {"signout", "wipe", "retireAll", "done"}
        BY <2>1, <3>1
      <3>3. Open(l, "reset", SignsOut(q))
        BY <2>1, <3>1, <3>2 DEF Open, SignsOut
      <3>4. QED
        BY <2>1, <3>2, <3>3 DEF LinkInv
    <2>9. QED
      BY <2>3, <2>4, <2>5, <2>6, <2>7, <2>8 DEF LinkInv
  <1>5. ASSUME UNCHANGED <<pc, job, got, link, met>>
        PROVE  LinkInv'
    BY <1>5 DEF LinkInv, Open, LinkKind, SignsOut, Kind, On
  <1>6. QED
    BY <1>2, <1>3, <1>4, <1>5, LinkStored, Turn DEF vars, Expire, rest

-----------------------------------------------------------------------------
(* Refresh tokens *)

\* No token appears, changes its holder or comes back to life.
Shrinks ==
    /\ live' \subseteq live /\ holder' = holder
    /\ \A t \in Id : row'[t] = row[t] \/ (row[t] # "none" /\ row'[t] = "revoked")

\* Requests for other things leave the tokens alone, and so do the steps of a reset before it
\* signs out.
LEMMA TokensAlone ==
  ASSUME OnItsWay, NEW r \in Req, Step(r), ~Issue(r), ~Record(r), ~Refresh(r), ~SignOut(r)
  PROVE  /\ UNCHANGED <<live, holder, row>>
         /\ Kind(r) \notin {"refresh", "logout", "revokeSession", "logoutAll"}
         /\ pc[r] \notin {"record", "signout", "wipe", "retireAll"}
  <1> USE DEF At, Read, Reject, Go, tokens, signin, team, rest
  <1>1. pc[r] \in {"clear", "new", "count"} =>
           Kind(r) \in {"register", "sendVerification", "forgotPassword", "updateRole", "setActive"}
    <2>1. pc[r] \in {"clear", "new", "count"} => pc[r] \in Steps(Kind(r))
      BY DEF OnItsWay, Ended
    <2>2. QED
      BY <2>1, StepsOfKinds
  <1>2. CASE Register(r)
    BY <1>2 DEF Register, RegisterCheck, RegisterCreate
  <1>3. CASE SignIn(r)
    BY <1>3 DEF SignIn, Login, CreateChallenge, MailCode, ResendRead, ResendStore
  <1>4. CASE VerifyLoginOtp(r)
    BY <1>4 DEF VerifyLoginOtp, VerifyRead, Reserve, Consume, ConsumeOthers, Remember
  <1>5. CASE ClearLinks(r) \/ NewLink(r) \/ AssertNotLastOwner(r)
    BY <1>1, <1>5 DEF ClearLinks, NewLink, AssertNotLastOwner
  <1>6. CASE Links(r) /\ ~ClearLinks(r) /\ ~NewLink(r)
    BY <1>6 DEF Links, RequestVerification, ForgotPassword, VerifyEmailRead,
                VerifyEmail, ResetRead, ResetPassword
  <1>7. CASE Invitations(r)
    BY <1>7 DEF Invitations, InviteCheck, InviteSeats, InviteCreate, InviteMail, RevokeInviteRead,
                RevokeInvite, AcceptCheck, AcceptExpired, AcceptJoin
  <1>8. CASE Team(r) /\ ~AssertNotLastOwner(r)
    BY <1>8 DEF Team, TargetRead, UpdateRole, SetActive, KeyCount, KeyCreate, KeyRevoke
  <1>9. QED
    BY <1>2, <1>3, <1>4, <1>5, <1>6, <1>7, <1>8 DEF Step

\* Only the steps "issue" and "record" bring tokens and rows; a refresh and a sign-out take away.
LEMMA OthersShrink ==
  ASSUME TypeOK, OnItsWay, TakenForGood, NEW r \in Req, Step(r), ~Issue(r), ~Record(r)
  PROVE  Shrinks /\ pc[r] # "record"
  <1> USE DEF At, Read, Reject, Go, Shrinks
  <1>1. row \in [Id -> {"none", "live", "revoked"}] /\ live \subseteq Id
    BY DEF TypeOK
  <1>2. pc[r] # "free" /\ Kind(r) \in OnARow => On(r) \in Id
    BY JobFacts
  <1>3. CASE ~Refresh(r) /\ ~SignOut(r)
    BY <1>3, TokensAlone
  <1>4. CASE RefreshGet(r) \/ RefreshUser(r) \/ RevokeRead(r) \/ ListRows(r)
    BY <1>4 DEF RefreshGet, RefreshUser, RevokeRead, ListRows, tokens
  <1>5. CASE DropToken(r) \/ Wipe(r)
    BY <1>5 DEF DropToken, Wipe
  <1>6. CASE RetireRow(r)
    BY <1>1, <1>6 DEF RetireRow
  <1>7. CASE RevokeMark(r)
    <2>1. row[On(r)] # "none"
      BY <1>7 DEF RevokeMark, TakenForGood, Rewinds
    <2>2. QED
      BY <1>1, <1>7, <2>1 DEF RevokeMark
  <1>8. CASE RetireAll(r)
    BY <1>1, <1>8 DEF RetireAll, Rows
  <1>9. QED
    BY <1>3, <1>4, <1>5, <1>6, <1>7, <1>8 DEF Refresh, SignOut

\* A request that has issued its tokens does not do so again.
LEMMA IssuedStays ==
  ASSUME TypeOK, NEW r \in Req, NEW b, Moves(r, b)
  PROVE  \A q \in Req : /\ pc[q] \in Issued => pc'[q] \in Issued
                        /\ pc[q] \in Issued \ {"record"} => pc'[q] \in Issued \ {"record"}
                        /\ pc[q] \in Ended => pc'[q] = pc[q]
  <1>1. /\ pc[r] \in Issued => b \in Issued
        /\ pc[r] \in Issued \ {"record"} => b \in Issued \ {"record"}
    BY DEF Moves, Edge, Issued, Ended
  <1>2. QED
    BY <1>1, MoveFacts

\* A step that only takes tokens away keeps what is said of where they come from.
LEMMA TokensShrink ==
  ASSUME TypeOK, TokensAreIssued, Shrinks,
         \A q \in Req : /\ pc[q] \in Issued => pc'[q] \in Issued
                        /\ pc[q] \in Issued \ {"record"} => pc'[q] \in Issued \ {"record"}
                        /\ pc[q] \in {"record", "failed", "rejected"} => pc'[q] \in {"record", "failed", "rejected"}
  PROVE  TokensAreIssued'
  <1>1. Session \in Id /\ Req \subseteq Id /\ live \subseteq Id /\ row \in [Id -> {"none", "live", "revoked"}]
    BY DEF TypeOK, Id, Old
  <1>2. \A t \in live' : t \in live /\ holder'[t] \in Id
    BY DEF TokensAreIssued, Shrinks
  <1>3. \A t \in Id : (row'[t] # "none") <=> (row[t] # "none")
    BY DEF Shrinks
  <1>4. \A t \in Req : t \in live' \/ holder'[t] # None => pc'[t] \in Issued
    BY <1>2 DEF TokensAreIssued, Shrinks
  <1>5. \A t \in Req : row'[t] # "none" => pc'[t] \in Issued \ {"record"}
    BY <1>1, <1>3 DEF TokensAreIssued
  <1>6. \A t \in live' \cap Req : row'[t] = "none" => pc'[t] \in {"record", "failed", "rejected"}
    BY <1>1, <1>2, <1>3 DEF TokensAreIssued
  <1>7. Session \in live' => row'[Session] # "none"
    BY <1>1, <1>2, <1>3 DEF TokensAreIssued
  <1>8. QED
    BY <1>2, <1>4, <1>5, <1>6, <1>7 DEF TokensAreIssued

\* What is said of where tokens come from is inductive.
LEMMA TokensKeep ==
  ASSUME TypeOK, OnItsWay, TokensAreIssued, TakenForGood, [Next]_vars
  PROVE  TokensAreIssued'
  <1>1. /\ Session \in Id /\ Session \notin Req /\ Req \subseteq Id /\ live \subseteq Id
        /\ row \in [Id -> {"none", "live", "revoked"}] /\ holder \in [Id -> Id \cup {None}]
        /\ got \in [Req -> SUBSET Id]
    BY AccountsAssumption DEF TypeOK, Id, Old
  <1>2. ASSUME NEW r \in Req, Issue(r), NEW b, Moves(r, b)
        PROVE  TokensAreIssued'
    <2>1. PICK u \in got[r] :
             /\ pc[r] = "issue" /\ live' = live \cup {r} /\ holder' = [holder EXCEPT ![r] = u]
             /\ pc' = [pc EXCEPT ![r] = "record"] /\ row' = row
      BY <1>2 DEF Issue, Go
    <2>2. /\ u \in Id /\ holder'[r] = u /\ \A t \in Id : t # r => holder'[t] = holder[t]
          /\ pc'[r] = "record" /\ \A q \in Req : q # r => pc'[q] = pc[q]
      BY <1>1, <1>2, <2>1, MoveFacts DEF TypeOK
    <2>3. \A t \in live' : holder'[t] \in Id
      BY <1>1, <2>1, <2>2 DEF TokensAreIssued
    <2>4. \A t \in Req : t \in live' \/ holder'[t] # None => pc'[t] \in Issued
      BY <1>1, <2>1, <2>2 DEF TokensAreIssued, Issued
    <2>5. \A t \in Req : row'[t] # "none" => pc'[t] \in Issued \ {"record"}
      BY <2>1, <2>2 DEF TokensAreIssued, Issued, Ended
    <2>6. \A t \in live' \cap Req : row'[t] = "none" => pc'[t] \in {"record", "failed", "rejected"}
      BY <2>1, <2>2 DEF TokensAreIssued
    <2>7. Session \in live' => row'[Session] # "none"
      BY <1>1, <2>1 DEF TokensAreIssued
    <2>8. QED
      BY <2>3, <2>4, <2>5, <2>6, <2>7 DEF TokensAreIssued
  <1>3. ASSUME NEW r \in Req, Record(r), NEW b, Moves(r, b)
        PROVE  TokensAreIssued'
    <2>1. /\ pc[r] = "record" /\ live' = live /\ holder' = holder /\ row' = [row EXCEPT ![r] = "live"]
          /\ pc'[r] \in Issued \ {"record"}
      BY <1>3 DEF Record, Go, Issued, Ended, TypeOK
    <2>2. row'[r] = "live" /\ \A t \in Id : t # r => row'[t] = row[t]
      BY <1>1, <2>1
    <2>3. \A q \in Req : q # r => pc'[q] = pc[q]
      BY <1>3, MoveFacts
    <2>4. \A t \in live' : holder'[t] \in Id
      BY <2>1 DEF TokensAreIssued
    <2>5. \A t \in Req : t \in live' \/ holder'[t] # None => pc'[t] \in Issued
      BY <2>1, <2>3 DEF TokensAreIssued
    <2>6. \A t \in Req : row'[t] # "none" => pc'[t] \in Issued \ {"record"}
      BY <1>1, <2>1, <2>2, <2>3 DEF TokensAreIssued
    <2>7. \A t \in live' \cap Req : row'[t] = "none" => pc'[t] \in {"record", "failed", "rejected"}
      BY <1>1, <2>1, <2>2, <2>3 DEF TokensAreIssued
    <2>8. Session \in live' => row'[Session] # "none"
      BY <1>1, <2>1, <2>2 DEF TokensAreIssued
    <2>9. QED
      BY <2>4, <2>5, <2>6, <2>7, <2>8 DEF TokensAreIssued
  <1>4. ASSUME NEW r \in Req, Step(r), ~Issue(r), ~Record(r), NEW b, Moves(r, b)
        PROVE  TokensAreIssued'
    <2>1. Shrinks /\ pc[r] # "record" /\ pc[r] \notin Ended
      BY <1>4, OthersShrink, MoveFacts
    <2>2. \A q \in Req : pc[q] \in {"record", "failed", "rejected"} => pc'[q] = pc[q]
      BY <1>4, <2>1, MoveFacts DEF Ended
    <2>3. QED
      BY <1>4, <2>1, <2>2, IssuedStays, TokensShrink
  <1>5. ASSUME NEW r \in Req, NEW b \in Ended, Moves(r, b), Fail(r)
        PROVE  TokensAreIssued'
    <2>1. Shrinks
      BY <1>5 DEF Fail, Shrinks, tokens
    <2>2. pc[r] = "record" => b = "failed"
      <3>1. pc[r] = "record" => Kind(r) # "logout"
        BY DEF OnItsWay, Steps, Ended
      <3>2. QED
        BY <1>5, <3>1, MoveFacts DEF Fail, Go, TypeOK
    <2>3. \A q \in Req : pc[q] \in {"record", "failed", "rejected"} => pc'[q] \in {"record", "failed", "rejected"}
      BY <1>5, <2>2, MoveFacts DEF Ended
    <2>4. QED
      BY <1>5, <2>1, <2>3, IssuedStays, TokensShrink
  <1>6. ASSUME NEW r \in Req, NEW j \in Jobs, Submit(r, j)
        PROVE  TokensAreIssued'
    <2>1. Shrinks
      BY <1>6, SubmitFacts DEF Shrinks
    <2>2. "free" \notin Issued
      BY DEF Issued, Ended
    <2>3. \A q \in Req : pc[q] # "free" => pc'[q] = pc[q]
      BY <1>6, SubmitFacts
    <2>4. QED
      BY <2>1, <2>2, <2>3, TokensShrink
  <1>7. ASSUME UNCHANGED <<pc, live, holder, row>>
        PROVE  TokensAreIssued'
    BY <1>7 DEF TokensAreIssued
  <1>8. QED
    BY <1>2, <1>3, <1>4, <1>5, <1>6, <1>7, Turn DEF vars, Expire, tokens

\* A token changes by the steps of the request that issues it, or is taken away.
LEMMA TokensChange ==
  ASSUME TypeOK, OnItsWay, TakenForGood, [Next]_vars, NEW t \in Id
  PROVE  /\ t \in live' /\ t \notin live => t \in Req /\ pc[t] = "issue"
         /\ holder'[t] # holder[t] => t \in Req /\ pc[t] = "issue"
         /\ \/ row'[t] = row[t]
            \/ row[t] # "none" /\ row'[t] = "revoked"
            \/ t \in Req /\ pc[t] = "record" /\ row'[t] = "live"
  <1>1. /\ row \in [Id -> {"none", "live", "revoked"}] /\ holder \in [Id -> Id \cup {None}]
    BY DEF TypeOK
  <1>2. CASE Shrinks
    BY <1>2 DEF Shrinks
  <1>3. ASSUME NEW r \in Req, Step(r)
        PROVE  \/ Shrinks
               \/ \E u : /\ pc[r] = "issue" /\ live' = live \cup {r} /\ row' = row
                         /\ holder' = [holder EXCEPT ![r] = u]
               \/ /\ pc[r] = "record" /\ row' = [row EXCEPT ![r] = "live"] /\ UNCHANGED <<live, holder>>
    <2>1. CASE Issue(r)
      BY <2>1 DEF Issue
    <2>2. CASE Record(r)
      BY <2>2 DEF Record
    <2>3. CASE ~Issue(r) /\ ~Record(r)
      BY <1>3, <2>3, OthersShrink
    <2>4. QED
      BY <2>1, <2>2, <2>3
  <1>4. ASSUME UNCHANGED tokens
        PROVE  Shrinks
    BY <1>4 DEF Shrinks, tokens
  <1>5. \/ \E r \in Req : Step(r)
        \/ UNCHANGED tokens
    BY Turn DEF vars, Fail, Submit, Expire
  <1>6. QED
    BY <1>1, <1>2, <1>3, <1>4, <1>5

\* The requests that take a token out of Redis, on their way to that.
LEMMA TakingSteps ==
  ASSUME TypeOK, OnItsWay, NEW r \in Req, Step(r),
         Kind(r) \in {"refresh", "revokeSession", "logout"}
  PROVE  /\ pc'[r] \in {"retire", "mark"} => On(r) \notin live'
         /\ pc[r] = "start" /\ pc'[r] \notin Rewinds => pc'[r] \in {"drop", "retire"}
         /\ pc'[r] = "drop" => On(r) \in live \/ row[On(r)] # "none"
         /\ pc'[r] = "drop" /\ Kind(r) = "refresh" => On(r) \in live
         /\ pc'[r] = "drop" /\ Kind(r) = "revokeSession" => row[On(r)] # "none"
  <1> USE DEF At, Read, Reject, Go, Rewinds
  <1>1. pc \in [Req -> (UNION {Steps(kind) : kind \in Kinds}) \cup Ended \cup {"free", "start"}]
    BY TypeParts DEF ControlType
  <1>2. CASE ~Refresh(r) /\ ~SignOut(r)
    <2>1. Issue(r) \/ Record(r)
      BY <1>2, TokensAlone
         DEF Step
    <2>2. QED
      BY <1>1, <2>1 DEF Issue, Record
  <1>3. CASE RefreshGet(r)
    BY <1>1, <1>3 DEF RefreshGet
  <1>4. CASE DropToken(r)
    BY <1>1, <1>4 DEF DropToken
  <1>5. CASE RetireRow(r)
    BY <1>1, <1>5 DEF RetireRow
  <1>6. CASE RefreshUser(r)
    BY <1>1, <1>6 DEF RefreshUser
  <1>7. CASE RevokeRead(r)
    BY <1>1, <1>7 DEF RevokeRead
  <1>8. CASE RevokeMark(r)
    BY <1>1, <1>8 DEF RevokeMark
  <1>9. CASE ListRows(r) \/ Wipe(r) \/ RetireAll(r)
    <2>1. pc[r] \in {"signout", "wipe", "retireAll"} => pc[r] \in Steps(Kind(r))
      BY DEF OnItsWay, Ended
    <2>2. QED
      BY <1>9, <2>1, StepsOfKinds DEF ListRows, Wipe, RetireAll
  <1>10. QED
    BY <1>2, <1>3, <1>4, <1>5, <1>6, <1>7, <1>8, <1>9 DEF Refresh, SignOut

\* A request that bears a token or a row bears an id.
LEMMA BearsAnId ==
  ASSUME TypeOK, NEW r \in Req, Kind(r) \in OnARow
  PROVE  On(r) \in Id /\ pc[r] # "free"
  <1>1. pc[r] # "free"
    BY DEF TypeOK, Kind, NoJob, OnARow
  <1>2. QED
    BY <1>1, JobFacts

\* A token that is out stays out: its request does not issue again.
LEMMA StaysOut ==
  ASSUME TypeOK, OnItsWay, TakenForGood, [Next]_vars, NEW r \in Req, HasTaken(r)
  PROVE  On(r) \notin live'
  <1>1. On(r) \in Id /\ On(r) \notin live
    BY BearsAnId DEF HasTaken, TakenForGood, OnARow
  <1>2. On(r) \in Req => pc[On(r)] # "issue"
    BY DEF HasTaken, TakenForGood, Rewinds, Issued, Ended
  <1>3. QED
    BY <1>1, <1>2, TokensChange

\* What a request takes out of Redis stays out.
LEMMA TakenKeeps ==
  ASSUME TypeOK, OnItsWay, TokensAreIssued, TakenForGood, [Next]_vars
  PROVE  TakenForGood'
  <1>1. \A q \in Req : Kind(q) \in {"refresh", "revokeSession", "logout"} => On(q) \in Id /\ pc[q] # "free"
    BY BearsAnId DEF OnARow
  <1>2. \A t \in Id : row[t] # "none" => row'[t] # "none"
    BY TokensChange
  <1>3. \A q \in Req : HasTaken(q) => On(q) \notin live'
    BY StaysOut
  <1>4. ASSUME NEW r \in Req, Step(r), NEW b, Moves(r, b)
        PROVE  TakenForGood'
    <2>1. /\ pc'[r] = b /\ pc[r] \notin Ended \cup {"free"} /\ b # "free" /\ b # "start"
          /\ \A q \in Req : q # r => pc'[q] = pc[q]
          /\ \A q \in Req : Kind(q)' = Kind(q) /\ On(q)' = On(q)
      BY <1>4, MoveFacts
    <2>2. \A q \in Req : Kind(q) = "logout" /\ On(q) \in Req => pc'[On(q)] \in Ended
      BY <1>4, IssuedStays DEF TakenForGood
    <2>3. \A q \in Req : Kind(q) \in {"refresh", "revokeSession"} /\ pc'[q] \notin Rewinds /\ On(q) \in Req =>
             pc'[On(q)] \in Issued
      <3>1. ASSUME NEW q \in Req, Kind(q) \in {"refresh", "revokeSession"}, pc'[q] \notin Rewinds, On(q) \in Req
            PROVE  pc[On(q)] \in Issued
        <4>1. CASE pc[q] \notin Rewinds
          BY <3>1, <4>1 DEF TakenForGood
        <4>2. CASE pc[q] \in Rewinds
          <5>1. q = r /\ pc[r] = "start"
            BY <2>1, <3>1, <4>2 DEF Rewinds, Ended
          <5>2. pc'[r] = "drop"
            <6>1. pc'[r] \in {"drop", "retire"}
              BY <1>4, <3>1, <5>1, TakingSteps
            <6>2. Edge(Kind(r), "start", pc'[r])
              BY <1>4, <2>1, <5>1 DEF Moves
            <6>3. QED
              BY <3>1, <5>1, <6>1, <6>2 DEF Edge
          <5>3. On(r) \in live \/ row[On(r)] # "none"
            BY <1>4, <3>1, <5>1, <5>2, TakingSteps
          <5>4. QED
            BY <3>1, <5>1, <5>3 DEF TokensAreIssued
        <4>3. QED
          BY <4>1, <4>2
      <3>2. QED
        BY <1>4, <3>1, IssuedStays
    <2>4. \A q \in Req : Kind(q) = "revokeSession" /\ pc'[q] \notin Rewinds => row'[On(q)] # "none"
      <3>1. ASSUME NEW q \in Req, Kind(q) = "revokeSession", pc'[q] \notin Rewinds
            PROVE  row[On(q)] # "none"
        <4>1. CASE pc[q] \notin Rewinds
          BY <3>1, <4>1 DEF TakenForGood
        <4>2. CASE pc[q] \in Rewinds
          <5>1. q = r /\ pc[r] = "start"
            BY <2>1, <3>1, <4>2 DEF Rewinds, Ended
          <5>2. Edge(Kind(r), "start", pc'[r])
            BY <1>4, <2>1, <5>1 DEF Moves
          <5>3. pc'[r] = "drop"
            BY <3>1, <5>1, <5>2 DEF Edge, Rewinds
          <5>4. QED
            BY <1>4, <3>1, <5>1, <5>3, TakingSteps
        <4>3. QED
          BY <4>1, <4>2
      <3>2. QED
        BY <1>1, <1>2, <3>1
    <2>5. ASSUME NEW q \in Req, Kind(q) \in {"refresh", "revokeSession", "logout"},
                 \/ pc'[q] \in {"retire", "mark", "user", "issue", "record"}
                 \/ pc'[q] = "done" /\ Kind(q) # "logout"
          PROVE  On(q) \notin live'
      <3>1. CASE HasTaken(q)
        BY <1>3, <3>1
      <3>2. CASE ~HasTaken(q)
        <4>1. q = r
          BY <2>1, <2>5, <3>2 DEF HasTaken
        <4>2. Edge(Kind(r), pc[r], b)
          BY <1>4 DEF Moves
        <4>3. b \in {"retire", "mark"}
          BY <2>1, <2>5, <3>2, <4>1, <4>2 DEF Edge, HasTaken, Ended
        <4>4. QED
          BY <1>4, <2>1, <2>5, <4>1, <4>3, TakingSteps
      <3>3. QED
        BY <3>1, <3>2
    <2>6. QED
      BY <2>1, <2>2, <2>3, <2>4, <2>5 DEF TakenForGood, HasTaken
  <1>5. ASSUME NEW r \in Req, NEW b \in Ended, Moves(r, b), Fail(r)
        PROVE  TakenForGood'
    <2>1. /\ pc'[r] = b /\ pc[r] \notin Ended \cup {"free"}
          /\ \A q \in Req : q # r => pc'[q] = pc[q]
          /\ \A q \in Req : Kind(q)' = Kind(q) /\ On(q)' = On(q)
      BY <1>5, MoveFacts
    <2>2. Kind(r) \in {"refresh", "revokeSession"} => b = "failed"
      BY <1>5, <2>1 DEF Fail, Go, TypeOK
    <2>3. UNCHANGED <<live, holder, row>>
      BY <1>5 DEF Fail, tokens
    <2>4. \A q \in Req : pc[q] \in Issued => pc'[q] \in Issued
      BY <1>5, IssuedStays
    <2>5. \A q \in Req : pc[q] \in Ended => pc'[q] \in Ended
      BY <1>5, IssuedStays
    <2>6. \A q \in Req : Kind(q) \in {"refresh", "revokeSession", "logout"} =>
             \/ pc'[q] = pc[q] \/ pc'[q] = "failed" \/ (Kind(q) = "logout" /\ pc'[q] \in Ended)
      BY <1>5, <2>1, <2>2
    <2>7. \A q \in Req : Kind(q) = "logout" /\ On(q) \in Req => pc'[On(q)] \in Ended
      BY <2>5 DEF TakenForGood
    <2>8. \A q \in Req : Kind(q) \in {"refresh", "revokeSession"} /\ pc'[q] \notin Rewinds /\ On(q) \in Req =>
             pc'[On(q)] \in Issued
      BY <2>4, <2>6 DEF TakenForGood, Rewinds
    <2>9. \A q \in Req : Kind(q) = "revokeSession" /\ pc'[q] \notin Rewinds => row'[On(q)] # "none"
      BY <2>3, <2>6 DEF TakenForGood, Rewinds
    <2>10. \A q \in Req : HasTaken(q)' => On(q) \notin live'
      BY <2>1, <2>3, <2>6 DEF TakenForGood, HasTaken, Ended
    <2>11. QED
      BY <2>1, <2>7, <2>8, <2>9, <2>10 DEF TakenForGood, HasTaken
  <1>6. ASSUME NEW r \in Req, NEW j \in Jobs, Submit(r, j)
        PROVE  TakenForGood'
    <2>1. /\ pc[r] = "free" /\ pc'[r] = "start" /\ \A q \in Req : q # r => pc'[q] = pc[q]
          /\ \A q \in Req : q # r => Kind(q)' = Kind(q) /\ On(q)' = On(q)
          /\ Kind(r)' = j.kind /\ On(r)' = j.on
          /\ UNCHANGED <<live, row>>
      BY <1>6, SubmitFacts
    <2>2. j.kind = "logout" /\ j.on \in Req => pc'[j.on] \in Ended
      BY <1>6, <2>1 DEF Submit, Ended
    <2>3. \A q \in Req : /\ pc[q] \in Ended => pc'[q] \in Ended
                         /\ pc[q] \in Issued => pc'[q] \in Issued
      BY <2>1 DEF Ended, Issued
    <2>4. \A q \in Req : Kind(q)' = "logout" /\ On(q)' \in Req => pc'[On(q)'] \in Ended
      BY <2>1, <2>2, <2>3 DEF TakenForGood
    <2>5. \A q \in Req : Kind(q)' \in {"refresh", "revokeSession"} /\ pc'[q] \notin Rewinds /\ On(q)' \in Req =>
             pc'[On(q)'] \in Issued
      BY <2>1, <2>3 DEF TakenForGood, Rewinds
    <2>6. \A q \in Req : Kind(q)' = "revokeSession" /\ pc'[q] \notin Rewinds => row'[On(q)'] # "none"
      BY <2>1 DEF TakenForGood, Rewinds
    <2>7. \A q \in Req : HasTaken(q)' => On(q)' \notin live'
      BY <2>1 DEF TakenForGood, HasTaken
    <2>8. QED
      BY <2>4, <2>5, <2>6, <2>7 DEF TakenForGood, HasTaken
  <1>7. ASSUME UNCHANGED <<pc, job, live, row>>
        PROVE  TakenForGood'
    BY <1>7 DEF TakenForGood, HasTaken, Kind, On
  <1>8. QED
    BY <1>4, <1>5, <1>6, <1>7, Turn DEF vars, Expire, tokens

\* The second refresh finds no token.
LEMMA RefreshesKeep ==
  ASSUME TypeOK, OnItsWay, Sequential, TakenForGood, RefreshedOnce, [Next]_vars
  PROVE  RefreshedOnce'
  <1>1. ASSUME NEW r \in Req, NEW b, Moves(r, b), Step(r) \/ (b \in Ended /\ Fail(r))
        PROVE  RefreshedOnce'
    <2>1. /\ pc'[r] = b /\ pc[r] \notin Ended \cup {"free"} /\ b # "free" /\ b # "start"
          /\ \A q \in Req : q # r => pc'[q] = pc[q]
          /\ \A q \in Req : Kind(q)' = Kind(q) /\ On(q)' = On(q)
          /\ met' = met
      BY <1>1, MoveFacts
    <2>2. SUFFICES ASSUME NEW a \in Req, NEW c \in Req, Kind(a) = "refresh", Kind(c) = "refresh",
                          On(a) = On(c), a < c, {a, c} \notin met, pc'[a] = "done"
                   PROVE  pc'[c] \in Rewinds
      BY <2>1 DEF RefreshedOnce
    <2>3. CASE a = r
      <3>1. pc[c] = "free" /\ c # r
        BY <2>1, <2>2, <2>3 DEF Sequential, Req
      <3>2. QED
        BY <2>1, <3>1 DEF Rewinds
    <2>4. CASE a # r
      <3>1. pc[a] = "done" /\ pc[c] \in Rewinds /\ On(c) \notin live
        BY <2>1, <2>2, <2>4 DEF RefreshedOnce, TakenForGood, HasTaken
      <3>2. CASE c # r
        BY <2>1, <3>1, <3>2
      <3>3. CASE c = r
        <4>1. pc[r] = "start" /\ Edge("refresh", "start", b)
          BY <1>1, <2>1, <2>2, <3>1, <3>3 DEF Rewinds, Ended, Moves
        <4>2. b = "drop" \/ b \in Rewinds
          BY <4>1 DEF Edge, Rewinds
        <4>3. Step(r) => b # "drop"
          BY <2>1, <2>2, <3>1, <3>3, TakingSteps
        <4>4. QED
          BY <1>1, <2>1, <3>3, <4>2, <4>3 DEF Ended
      <3>4. QED
        BY <3>2, <3>3
    <2>5. QED
      BY <2>3, <2>4
  <1>2. ASSUME NEW r \in Req, NEW j \in Jobs, Submit(r, j)
        PROVE  RefreshedOnce'
    <2>1. /\ pc'[r] = "start" /\ \A q \in Req : q # r => pc'[q] = pc[q]
          /\ \A q \in Req : q # r => Kind(q)' = Kind(q) /\ On(q)' = On(q)
          /\ met \subseteq met'
      BY <1>2, SubmitFacts
    <2>2. SUFFICES ASSUME NEW a \in Req, NEW c \in Req, Kind(a)' = "refresh", Kind(c)' = "refresh",
                          On(a)' = On(c)', a < c, {a, c} \notin met', pc'[a] = "done"
                   PROVE  pc'[c] \in Rewinds
      BY DEF RefreshedOnce
    <2>3. CASE c = r
      BY <2>1, <2>3 DEF Rewinds
    <2>4. CASE c # r
      <3>1. a # r
        BY <2>1, <2>2
      <3>2. /\ Kind(a) = "refresh" /\ Kind(c) = "refresh" /\ On(a) = On(c) /\ {a, c} \notin met
            /\ pc[a] = "done" /\ pc'[c] = pc[c]
        BY <2>1, <2>2, <2>4, <3>1
      <3>3. QED
        BY <2>2, <3>2 DEF RefreshedOnce
    <2>5. QED
      BY <2>3, <2>4
  <1>3. ASSUME UNCHANGED <<pc, job, met>>
        PROVE  RefreshedOnce'
    BY <1>3 DEF RefreshedOnce, Kind, On
  <1>4. QED
    BY <1>1, <1>2, <1>3, Turn DEF vars, Expire, rest

-----------------------------------------------------------------------------
(* Signing out everywhere *)

\* Whose sessions a request signs out does not change once it does: its link was there.
LEMMA SameAccount ==
  ASSUME TypeOK, OnItsWay, Sequential, OneAccount, LinkInv, [Next]_vars,
         NEW r \in Req, SignsOutAll(r), pc[r] \notin {"start", "rejected", "failed"}
  PROVE  SignsOut(r)' = SignsOut(r) /\ SignsOutAll(r)' /\ pc[r] # "free"
  <1>1. Kind(r) \in OnARow
    BY DEF SignsOutAll, OnARow
  <1>2. On(r) \in Id /\ pc[r] # "free"
    BY <1>1, BearsAnId
  <1>3. Kind(r)' = Kind(r) /\ On(r)' = On(r)
    <2>1. ASSUME NEW q \in Req, NEW b, Moves(q, b) PROVE Kind(r)' = Kind(r) /\ On(r)' = On(r)
      BY <2>1, MoveFacts
    <2>2. ASSUME NEW q \in Req, NEW j \in Jobs, Submit(q, j) PROVE Kind(r)' = Kind(r) /\ On(r)' = On(r)
      BY <1>2, <2>2, SubmitFacts
    <2>3. ASSUME UNCHANGED job PROVE Kind(r)' = Kind(r) /\ On(r)' = On(r)
      BY <2>3 DEF Kind, On
    <2>4. QED
      BY <2>1, <2>2, <2>3, Turn DEF vars, Expire
  <1>4. ASSUME Kind(r) = "resetPassword" PROVE link'[On(r)].user = link[On(r)].user
    <2>1. link[On(r)].kind # "none"
      BY <1>4 DEF LinkInv
    <2>2. link \in [Id -> LinkRow]
      BY DEF TypeOK
    <2>3. ASSUME NEW q \in Req, Links(q) PROVE link'[On(r)].user = link[On(r)].user
      <3>1. CASE NewLink(q)
        <4>1. pc[q] = "new" /\ \E x : link' = [link EXCEPT ![q] = x]
          BY <3>1 DEF NewLink
        <4>2. On(r) # q
          BY <2>1, <4>1 DEF LinkInv
        <4>3. QED
          BY <1>2, <2>2, <4>1, <4>2
      <3>2. CASE ClearLinks(q) \/ ResetPassword(q)
        <4>1. link' = link \/ \E kind, u : link' = Spent(kind, u)
          BY <3>2 DEF ClearLinks, ResetPassword, Reject
        <4>2. link' = link \/ SpendOnly
          BY <2>2, <4>1, SpentFacts
        <4>3. QED
          BY <1>2, <4>2 DEF SpendOnly
      <3>3. CASE VerifyEmail(q)
        <4>1. PICK l : link' = [link EXCEPT ![l] = [link[l] EXCEPT !.used = TRUE]]
          BY <3>3 DEF VerifyEmail
        <4>2. QED
          BY <1>2, <2>2, <4>1 DEF LinkRow
      <3>4. CASE RequestVerification(q) \/ ForgotPassword(q) \/ VerifyEmailRead(q) \/ ResetRead(q)
        BY <3>4 DEF RequestVerification, ForgotPassword, VerifyEmailRead, ResetRead, Read, Reject
      <3>5. QED
        BY <2>3, <3>1, <3>2, <3>3, <3>4 DEF Links
    <2>4. ASSUME NEW q \in Req, Step(q), ~Links(q) PROVE link' = link
      BY <2>4, LinksAlone
    <2>5. \/ \E q \in Req : Step(q)
          \/ link' = link
      BY Turn DEF vars, Fail, Submit, Expire
    <2>6. QED
      BY <2>3, <2>4, <2>5
  <1>5. QED
    BY <1>2, <1>3, <1>4 DEF SignsOut, SignsOutAll

\* The steps of signing out everywhere.
LEMMA SigningSteps ==
  ASSUME TypeOK, OnItsWay, NEW r \in Req, Step(r), SignsOutAll(r),
         pc'[r] \in {"wipe", "retireAll", "done"}
  PROVE  \/ ListRows(r) /\ pc'[r] = "wipe"
         \/ Wipe(r) /\ pc'[r] = "retireAll"
         \/ RetireAll(r) /\ pc'[r] = "done"
  <1>1. PICK b : Moves(r, b)
    BY StepMoves
  <1>2. pc'[r] = b /\ Edge(Kind(r), pc[r], b)
    BY <1>1, MoveFacts DEF Moves
  <1>3. /\ Kind(r) \in {"logoutAll", "resetPassword"}
        /\ pc[r] \in {"wipe", "retireAll", "signout"} \/ (pc[r] = "start" /\ Kind(r) = "logoutAll")
    BY <1>2 DEF SignsOutAll, Edge
  <1>4. ~Issue(r) /\ ~Record(r)
    BY <1>3 DEF Issue, Record
  <1>5. SignOut(r) \/ Refresh(r)
    BY <1>3, <1>4, TokensAlone
  <1>6. ListRows(r) \/ Wipe(r) \/ RetireAll(r)
    BY <1>3, <1>5 DEF SignOut, Refresh, RefreshGet, DropToken, RetireRow, RefreshUser, RevokeRead, RevokeMark, At
  <1>7. QED
    BY <1>6 DEF ListRows, Wipe, RetireAll, Read, Go, TypeOK

\* What a request is, it stays, once it has arrived.
LEMMA SameRequest ==
  ASSUME TypeOK, OnItsWay, [Next]_vars, NEW r \in Req, pc[r] # "free"
  PROVE  /\ Kind(r)' = Kind(r) /\ On(r)' = On(r) /\ Opt(r)' = Opt(r)
         /\ met \subseteq met' /\ pc'[r] # "free"
         /\ pc[r] \in Ended => pc'[r] = pc[r]
         /\ \A q \in Req : {q, r} \in met' => {q, r} \in met \/ pc[q] = "free"
  <1>1. ASSUME NEW q \in Req, NEW b, Moves(q, b)
        PROVE  /\ Kind(r)' = Kind(r) /\ On(r)' = On(r) /\ Opt(r)' = Opt(r) /\ met' = met
               /\ pc'[r] # "free" /\ (pc[r] \in Ended => pc'[r] = pc[r])
    BY <1>1, MoveFacts
  <1>2. ASSUME NEW q \in Req, NEW j \in Jobs, Submit(q, j)
        PROVE  /\ Kind(r)' = Kind(r) /\ On(r)' = On(r) /\ Opt(r)' = Opt(r)
               /\ met' = met \cup {{q, p} : p \in InFlight} /\ pc[q] = "free" /\ pc'[r] = pc[r]
    BY <1>2, SubmitFacts
  <1>3. ASSUME UNCHANGED <<job, pc, met>>
        PROVE  /\ Kind(r)' = Kind(r) /\ On(r)' = On(r) /\ Opt(r)' = Opt(r) /\ met' = met /\ pc'[r] = pc[r]
    BY <1>3 DEF Kind, On, Opt
  <1>4. ASSUME NEW q \in Req, NEW j \in Jobs, Submit(q, j)
        PROVE  \A p \in Req : {p, r} \in met' => {p, r} \in met \/ pc[p] = "free"
    <2>1. \A p \in Req : {p, r} \in {{q, s} : s \in InFlight} => q = p \/ q = r
      OBVIOUS
    <2>2. QED
      BY <1>2, <1>4, <2>1
  <1>5. QED
    BY <1>1, <1>2, <1>3, <1>4, Turn DEF vars, Expire, rest

\* What was before a request stays before it, and was before it when the request was there.
LEMMA SameOrder ==
  ASSUME TypeOK, OnItsWay, Sequential, [Next]_vars, NEW r \in Req, pc[r] # "free", NEW t \in Id,
         Before(t, r)'
  PROVE  /\ Before(t, r)
         /\ t \in Req => pc[t] \in Ended
  <1>1. Before(t, r)
    BY SameRequest DEF Before
  <1>2. QED
    BY <1>1, EndedBefore

\* A row under a token is revoked only by a sign-out that overlapped the request of the token.
LEMMA RevokedByOverlap ==
  ASSUME TypeOK, OnItsWay, Sequential, TokensAreIssued, TakenForGood, SignOutInv, [Next]_vars,
         NEW t \in live', row'[t] = "revoked"
  PROVE  \E q \in Req : SignsOutAll(q) /\ pc[q] # "free" /\ {t, q} \in met
  <1>1. /\ t \in Id /\ live \subseteq Id /\ live' \subseteq Id \cup Req
        /\ row \in [Id -> {"none", "live", "revoked"}]
    <2>1. live' \subseteq Id
      <3>1. live \subseteq Id /\ Req \subseteq Id
        BY DEF TypeOK, Id
      <3>2. ASSUME NEW r \in Req, Step(r) PROVE live' \subseteq live \cup {r}
        BY <3>2, OthersShrink DEF Shrinks, Issue, Record
      <3>3. live' = live \/ \E r \in Req : Step(r)
        BY Turn DEF vars, Fail, Submit, Expire, tokens
      <3>4. QED
        BY <3>1, <3>2, <3>3
    <2>2. QED
      BY <2>1 DEF TypeOK
  <1>2. t \in live
    <2>1. SUFFICES ASSUME t \notin live PROVE FALSE
      OBVIOUS
    <2>2. t \in Req /\ pc[t] = "issue"
      BY <1>1, <2>1, TokensChange
    <2>3. row[t] = "none"
      BY <1>1, <2>2 DEF TokensAreIssued, Issued, Ended
    <2>4. QED
      BY <1>1, <2>2, <2>3, TokensChange
  <1>3. CASE row[t] = "revoked"
    <2>1. PICK q \in Req : SignsOutAll(q) /\ {t, q} \in met
      BY <1>2, <1>3 DEF SignOutInv
    <2>2. pc[q] # "free"
      BY <2>1 DEF SignsOutAll, TypeOK, Kind, NoJob
    <2>3. QED
      BY <2>1, <2>2
  <1>4. CASE row[t] # "revoked"
    <2>1. PICK r \in Req : Step(r)
      BY <1>4, Turn DEF vars, Fail, Submit, Expire, tokens
    <2>2. row[t] = "live"
      BY <1>1, <1>4, TokensChange
    <2>3. ~Issue(r) /\ ~Record(r)
      BY <1>1, <1>4 DEF Issue, Record
    <2>4. Refresh(r) \/ SignOut(r)
      BY <1>4, <2>1, <2>3, TokensAlone
    <2>5. RetireRow(r) \/ RevokeMark(r) \/ RetireAll(r)
      BY <1>4, <2>4 DEF Refresh, RefreshGet, DropToken, RefreshUser, SignOut, RevokeRead, ListRows, Wipe,
                        Read, Reject, tokens
    <2>6. CASE RetireRow(r) \/ RevokeMark(r)
      <3>1. On(r) = t
        BY <1>1, <1>4, <2>6 DEF RetireRow, RevokeMark
      <3>2. pc[r] \in {"retire", "mark"} /\ Kind(r) \in {"refresh", "logout", "revokeSession"}
        <4>1. pc[r] = "retire" => pc[r] \in Steps(Kind(r))
          BY DEF OnItsWay, Ended
        <4>2. QED
          BY <2>6, <4>1, StepsOfKinds DEF RetireRow, RevokeMark, At
      <3>3. On(r) \notin live
        BY <3>2 DEF TakenForGood, HasTaken
      <3>4. QED
        BY <1>2, <3>1, <3>3
    <2>7. CASE RetireAll(r)
      <3>1. pc[r] = "retireAll" /\ holder[t] = SignsOut(r) /\ SignsOutAll(r)
        <4>1. pc[r] = "retireAll" => pc[r] \in Steps(Kind(r))
          BY DEF OnItsWay, Ended
        <4>2. QED
          BY <1>1, <1>4, <2>7, <4>1, StepsOfKinds DEF RetireAll, Rows, SignsOutAll
      <3>2. ~Before(t, r)
        BY <1>1, <1>2, <2>2, <3>1 DEF SignOutInv
      <3>3. t \in Req /\ pc[t] \in Issued /\ t # r
        BY <2>2, <3>1, <3>2 DEF Before, TokensAreIssued, Issued, Ended
      <3>4. {t, r} \in met
        <4>1. CASE t < r
          BY <3>2, <3>3, <4>1 DEF Before
        <4>2. CASE r < t
          <5>1. {r, t} \in met
            BY <3>1, <3>3, <4>2 DEF Sequential, Issued, Ended
          <5>2. {r, t} = {t, r}
            OBVIOUS
          <5>3. QED
            BY <5>1, <5>2
        <4>3. QED
          BY <3>3, <4>1, <4>2 DEF Req
      <3>5. QED
        BY <3>1, <3>4
    <2>8. QED
      BY <2>5, <2>6, <2>7
  <1>5. QED
    BY <1>3, <1>4

\* What is said of signing out everywhere is inductive.
LEMMA SignOutKeeps ==
  ASSUME TypeOK, OnItsWay, Sequential, OneAccount, LinkInv, TokensAreIssued, TakenForGood, SignOutInv,
         [Next]_vars
  PROVE  SignOutInv'
  <1>1. \A t \in live' : row'[t] = "revoked" => \E q \in Req : SignsOutAll(q)' /\ {t, q} \in met'
    <2>1. SUFFICES ASSUME NEW t \in live', row'[t] = "revoked"
                   PROVE  \E q \in Req : SignsOutAll(q)' /\ {t, q} \in met'
      OBVIOUS
    <2>2. PICK q \in Req : SignsOutAll(q) /\ pc[q] # "free" /\ {t, q} \in met
      BY <2>1, RevokedByOverlap
    <2>3. QED
      BY <2>2, SameRequest DEF SignsOutAll
  <1>2. ASSUME NEW r \in Req, NEW t \in Id, SignsOutAll(r)', Before(t, r)', holder'[t] = SignsOut(r)',
               pc'[r] \in {"wipe", "retireAll", "done"}
        PROVE  /\ pc'[r] = "wipe" /\ row'[t] = "live" => t \in got'[r]
               /\ pc'[r] = "retireAll" /\ row'[t] = "live" => t \notin live'
               /\ pc'[r] = "done" /\ t \in live' => row'[t] # "live"
    <2>1. pc[r] # "free" /\ SignsOutAll(r) /\ pc[r] \notin {"rejected", "failed"}
      <3>1. pc[r] # "free"
        <4>1. ASSUME NEW q \in Req, NEW b, Moves(q, b) PROVE pc[r] # "free"
          BY <1>2, <4>1, MoveFacts
        <4>2. ASSUME NEW q \in Req, NEW j \in Jobs, Submit(q, j) PROVE pc[r] # "free"
          BY <1>2, <4>2, SubmitFacts
        <4>3. QED
          BY <1>2, <4>1, <4>2, Turn DEF vars, Expire
      <3>2. QED
        BY <1>2, <3>1, SameRequest DEF SignsOutAll, Ended
    <2>2. Before(t, r) /\ (t \in Req => pc[t] \in Ended)
      BY <1>2, <2>1, SameOrder
    <2>3. /\ t \in live' => t \in live
          /\ holder'[t] = holder[t]
          /\ row'[t] = row[t] \/ row'[t] = "revoked"
      BY <2>2, TokensChange DEF Ended
    <2>4. pc[r] # "start" => holder[t] = SignsOut(r)
      BY <1>2, <2>1, <2>3, SameAccount
    <2>5. CASE pc'[r] = pc[r] /\ got'[r] = got[r]
      BY <1>2, <2>1, <2>2, <2>3, <2>4, <2>5 DEF SignOutInv
    <2>6. CASE Step(r)
      <3>1. row \in [Id -> {"none", "live", "revoked"}]
        BY DEF TypeOK
      <3>2. CASE ListRows(r) /\ pc'[r] = "wipe"
        <4>1. got'[r] = Rows(SignsOut(r)) /\ row' = row /\ SignsOut(r)' = SignsOut(r)
          BY <3>2 DEF ListRows, Read, SignsOut, Kind, On, tokens, TypeOK
        <4>2. QED
          BY <1>2, <2>3, <3>2, <4>1 DEF Rows
      <3>3. CASE Wipe(r) /\ pc'[r] = "retireAll"
        <4>1. pc[r] = "wipe" /\ live' = live \ got[r] /\ row' = row
          BY <3>3 DEF Wipe
        <4>2. row[t] = "live" => t \in got[r]
          BY <2>1, <2>2, <2>4, <4>1 DEF SignOutInv
        <4>3. QED
          BY <3>3, <4>1, <4>2
      <3>4. CASE RetireAll(r) /\ pc'[r] = "done"
        <4>1. pc[r] = "retireAll" /\ row' = [x \in Id |-> IF x \in Rows(SignsOut(r)) THEN "revoked" ELSE row[x]]
          BY <3>4 DEF RetireAll
        <4>2. row'[t] # "live"
          BY <2>4, <4>1 DEF Rows
        <4>3. QED
          BY <3>4, <4>2
      <3>5. QED
        BY <1>2, <2>1, <2>6, <3>2, <3>3, <3>4, SigningSteps
    <2>7. CASE ~Step(r) /\ ~(pc'[r] = pc[r] /\ got'[r] = got[r])
      <3>1. ASSUME NEW q \in Req, Step(q), NEW b, Moves(q, b) PROVE FALSE
        <4>1. q # r /\ got'[r] = got[r]
          BY <2>7, <3>1, SignInInHand, TokenInHand, LinkInHand, TeamInHand DEF Step, TakesInHand
        <4>2. QED
          BY <2>7, <3>1, <4>1, MoveFacts
      <3>2. ASSUME NEW q \in Req, NEW b \in Ended, Moves(q, b), Fail(q) PROVE FALSE
        <4>1. q = r
          BY <2>7, <3>2, MoveFacts DEF Fail
        <4>2. pc'[r] \in {"done", "failed"}
          BY <3>2, <4>1 DEF Fail, Go, TypeOK
        <4>3. pc'[r] = "failed"
          BY <2>1, <3>2, <4>1, <4>2 DEF Fail, Go, TypeOK, SignsOutAll
        <4>4. QED
          BY <1>2, <4>3
      <3>3. ASSUME NEW q \in Req, NEW j \in Jobs, Submit(q, j) PROVE FALSE
        BY <2>1, <2>7, <3>3, SubmitFacts
      <3>4. QED
        BY <2>7, <3>1, <3>2, <3>3, Turn DEF vars, Expire
    <2>8. QED
      BY <2>5, <2>6, <2>7
  <1>3. QED
    BY <1>1, <1>2 DEF SignOutInv

-----------------------------------------------------------------------------
(* Deactivated accounts *)

\* The accounts stay what they are but for the steps that create or change one.
UserSteps(r) ==
    \/ RegisterCreate(r) \/ AcceptJoin(r) \/ UpdateRole(r) \/ SetActive(r) \/ VerifyEmail(r) \/ ResetPassword(r)

\* The other steps leave the accounts alone.
LEMMA UsersAlone ==
  ASSUME NEW r \in Req, Step(r), ~UserSteps(r)
  PROVE  user' = user
  <1> USE DEF Read, Reject, UserSteps
  <1>1. CASE Issue(r) \/ Record(r) \/ Register(r)
    BY <1>1 DEF Issue, Record, Register, RegisterCheck
  <1>2. CASE SignIn(r)
    BY <1>2 DEF SignIn, Login, CreateChallenge, MailCode, ResendRead, ResendStore
  <1>3. CASE VerifyLoginOtp(r)
    BY <1>3 DEF VerifyLoginOtp, VerifyRead, Reserve, Consume, ConsumeOthers, Remember
  <1>4. CASE Refresh(r) \/ SignOut(r)
    BY <1>4 DEF Refresh, RefreshGet, DropToken, RetireRow, RefreshUser,
                SignOut, RevokeRead, RevokeMark, ListRows, Wipe, RetireAll
  <1>5. CASE Links(r)
    BY <1>5 DEF Links, RequestVerification, ForgotPassword, ClearLinks, NewLink, VerifyEmailRead, ResetRead
  <1>6. CASE Invitations(r)
    BY <1>6 DEF Invitations, InviteCheck, InviteSeats, InviteCreate, InviteMail, RevokeInviteRead,
                RevokeInvite, AcceptCheck, AcceptExpired
  <1>7. CASE Team(r)
    BY <1>7 DEF Team, TargetRead, AssertNotLastOwner, KeyCount, KeyCreate, KeyRevoke
  <1>8. QED
    BY <1>1, <1>2, <1>3, <1>4, <1>5, <1>6, <1>7 DEF Step

\* What a step does to the accounts: it creates its own, or changes another, whose role it keeps
\* unless it is given one, and whose activity it keeps unless that is what it sets.
LEMMA UserChange ==
  ASSUME TypeOK, NEW r \in Req, Step(r), NEW u \in Id
  PROVE  \/ /\ u = r /\ pc[r] \in {"create", "join"} /\ Kind(r) \in {"register", "accept"} /\ pc'[r] = "issue"
            /\ Kind(r) = "register" => user'[u].org = r
         \/ user'[u] = user[u]
         \/ /\ u = On(r) /\ Kind(r) = "updateRole" /\ pc[r] = "write"
            /\ user'[u].role = Opt(r) /\ user'[u].active = user[u].active /\ user'[u].org = user[u].org
         \/ /\ u = On(r) /\ Kind(r) = "setActive" /\ pc[r] = "write"
            /\ user'[u].role = user[u].role /\ user'[u].active = (Opt(r) = "on") /\ user'[u].org = user[u].org
         \/ user'[u].role = user[u].role /\ user'[u].active = user[u].active /\ user'[u].org = user[u].org
  <1> USE DEF At, Go
  <1>1. user \in [Id -> UserRow] /\ user[u] \in UserRow
    BY DEF TypeOK
  <1>2. pc \in [Req -> (UNION {Steps(kind) : kind \in Kinds}) \cup Ended \cup {"free", "start"}]
    BY TypeParts DEF ControlType
  <1>3. CASE RegisterCreate(r)
    <2>1. user' = [user EXCEPT ![r] = [Account(On(r)) EXCEPT !.org = r, !.pw = r]]
      BY <1>3 DEF RegisterCreate
    <2>2. u = r => user'[u].org = r
      BY <1>1, <2>1 DEF Account
    <2>3. QED
      BY <1>1, <1>2, <1>3, <2>1, <2>2 DEF RegisterCreate
  <1>4. CASE AcceptJoin(r)
    <2>1. CASE Reject(r)
      BY <2>1 DEF Reject
    <2>2. CASE ~Reject(r)
      BY <1>1, <1>2, <1>4, <2>2 DEF AcceptJoin
    <2>3. QED
      BY <2>1, <2>2
  <1>5. CASE UpdateRole(r)
    <2>1. user' = [user EXCEPT ![On(r)] = [user[On(r)] EXCEPT !.role = Opt(r)]]
      BY <1>5 DEF UpdateRole
    <2>2. u = On(r) => /\ user'[u].role = Opt(r)
                       /\ user'[u].active = user[u].active /\ user'[u].org = user[u].org
      BY <1>1, <2>1 DEF UserRow
    <2>3. QED
      BY <1>1, <1>5, <2>1, <2>2 DEF UpdateRole
  <1>6. CASE SetActive(r)
    <2>1. user' = [user EXCEPT ![On(r)] = [user[On(r)] EXCEPT !.active = (Opt(r) = "on")]]
      BY <1>6 DEF SetActive
    <2>2. u = On(r) => /\ user'[u].role = user[u].role
                       /\ user'[u].active = (Opt(r) = "on") /\ user'[u].org = user[u].org
      BY <1>1, <2>1 DEF UserRow
    <2>3. QED
      BY <1>1, <1>6, <2>1, <2>2 DEF SetActive
  <1>7. CASE VerifyEmail(r)
    <2>1. PICK v : user' = [user EXCEPT ![v] = [user[v] EXCEPT !.verified = TRUE]]
      BY <1>7 DEF VerifyEmail
    <2>2. u = v => /\ user'[u].role = user[u].role
                   /\ user'[u].active = user[u].active /\ user'[u].org = user[u].org
      BY <1>1, <2>1 DEF UserRow
    <2>3. QED
      BY <1>1, <2>1, <2>2
  <1>8. CASE ResetPassword(r)
    <2>1. PICK v : user' = user \/ user' = [user EXCEPT ![v] = [user[v] EXCEPT !.pw = r]]
      BY <1>8 DEF ResetPassword, Reject
    <2>2. u = v => /\ user'[u].role = user[u].role
                   /\ user'[u].active = user[u].active /\ user'[u].org = user[u].org
      BY <1>1, <2>1 DEF UserRow
    <2>3. QED
      BY <1>1, <2>1, <2>2
  <1>9. CASE ~UserSteps(r)
    BY <1>9, UsersAlone
  <1>10. QED
    BY <1>3, <1>4, <1>5, <1>6, <1>7, <1>8, <1>9 DEF UserSteps

\* Who is about to get a token was active when the request last looked, unless the account is new.
LEMMA CheckedBefore ==
  ASSUME TypeOK, OnItsWay, OneAccount, NEW r \in Req, Step(r), pc'[r] \in {"others", "issue"},
         NEW u \in got'[r]
  PROVE  \/ user[u].active
         \/ u = r /\ pc[r] \in {"create", "join"}
         \/ pc[r] = "others" /\ u \in got[r]
  <1> USE DEF At, Read, Reject, Go
  <1>1. pc \in [Req -> (UNION {Steps(kind) : kind \in Kinds}) \cup Ended \cup {"free", "start"}]
        /\ got \in [Req -> SUBSET Id]
    BY TypeParts DEF ControlType, DataType
  <1>2. CASE Issue(r) \/ Record(r)
    BY <1>1, <1>2 DEF Issue, Record
  <1>3. CASE Register(r)
    BY <1>1, <1>3 DEF Register, RegisterCheck, RegisterCreate
  <1>4. CASE Login(r)
    BY <1>1, <1>4 DEF Login
  <1>5. CASE SignIn(r) /\ ~Login(r)
    BY <1>1, <1>5 DEF SignIn, CreateChallenge, MailCode, ResendRead, ResendStore
  <1>6. CASE Consume(r)
    <2>1. PICK v \in got[r] : pc[r] = "consume" /\ (user[v].active \/ pc'[r] = "rejected") /\ got' = got
      BY <1>1, <1>6 DEF Consume
    <2>2. u = v
      BY <2>1 DEF OneAccount, Ended
    <2>3. QED
      BY <2>1, <2>2
  <1>7. CASE VerifyRead(r) \/ Reserve(r) \/ ConsumeOthers(r) \/ Remember(r)
    BY <1>1, <1>7 DEF VerifyRead, Reserve, ConsumeOthers, Remember
  <1>8. CASE RefreshUser(r)
    BY <1>1, <1>8 DEF RefreshUser
  <1>9. CASE (Refresh(r) /\ ~RefreshUser(r)) \/ SignOut(r)
    BY <1>1, <1>9 DEF Refresh, RefreshGet, DropToken, RetireRow,
                      SignOut, RevokeRead, RevokeMark, ListRows, Wipe, RetireAll
  <1>10. CASE Links(r)
    BY <1>1, <1>10 DEF Links, RequestVerification, ForgotPassword, ClearLinks, NewLink, VerifyEmailRead,
                       VerifyEmail, ResetRead, ResetPassword
  <1>11. CASE AcceptJoin(r)
    BY <1>1, <1>11 DEF AcceptJoin
  <1>12. CASE Invitations(r) /\ ~AcceptJoin(r)
    BY <1>1, <1>12 DEF Invitations, InviteCheck, InviteSeats, InviteCreate, InviteMail, RevokeInviteRead,
                       RevokeInvite, AcceptCheck, AcceptExpired
  <1>13. CASE Team(r)
    BY <1>1, <1>13 DEF Team, TargetRead, AssertNotLastOwner, UpdateRole, SetActive, KeyCount, KeyCreate, KeyRevoke
  <1>14. QED
    BY <1>2, <1>3, <1>4, <1>5, <1>6, <1>7, <1>8, <1>9, <1>10, <1>11, <1>12, <1>13
       DEF Step, VerifyLoginOtp

\* A request to change a role or to deactivate reads an account that is there, and then writes.
LEMMA TargetSteps ==
  ASSUME TypeOK, OnItsWay, NEW r \in Req, Step(r), Kind(r) \in {"updateRole", "setActive"},
         pc'[r] \in {"count", "write", "done"}
  PROVE  /\ pc[r] = "start" => Exists(On(r))
         /\ Kind(r) = "setActive" /\ pc'[r] = "done" => SetActive(r)
  <1> USE DEF At, Read, Reject, Go
  <1>1. pc \in [Req -> (UNION {Steps(kind) : kind \in Kinds}) \cup Ended \cup {"free", "start"}]
    BY TypeParts DEF ControlType
  <1>2. pc[r] \in {"count", "write"} \cup {"start"}
    <2>1. PICK b : Moves(r, b)
      BY StepMoves
    <2>2. QED
      BY <2>1, MoveFacts DEF Moves, Edge
  <1>3. Team(r)
    <2>1. ~Issue(r) /\ ~Record(r) /\ ~Register(r) /\ ~SignIn(r) /\ ~VerifyLoginOtp(r)
      BY <1>2 DEF Issue, Record, Register, RegisterCheck, RegisterCreate, SignIn, Login, CreateChallenge,
                  MailCode, ResendRead, ResendStore, VerifyLoginOtp, VerifyRead, Reserve, Consume,
                  ConsumeOthers, Remember
    <2>2. ~Refresh(r) /\ ~SignOut(r)
      BY <1>2 DEF Refresh, RefreshGet, DropToken, RetireRow, RefreshUser,
                  SignOut, RevokeRead, RevokeMark, ListRows, Wipe, RetireAll
    <2>3. ~Links(r)
      BY <1>2 DEF Links, RequestVerification, ForgotPassword, ClearLinks, NewLink, VerifyEmailRead,
                  VerifyEmail, ResetRead, ResetPassword
    <2>4. ~Invitations(r)
      BY <1>2 DEF Invitations, InviteCheck, InviteSeats, InviteCreate, InviteMail, RevokeInviteRead,
                  RevokeInvite, AcceptCheck, AcceptExpired, AcceptJoin
    <2>5. QED
      BY <2>1, <2>2, <2>3, <2>4 DEF Step
  <1>4. QED
    BY <1>1, <1>3 DEF Team, TargetRead, AssertNotLastOwner, UpdateRole, SetActive, KeyCount, KeyCreate, KeyRevoke

\* A request that has created its account has created it.
LEMMA MadeStays ==
  ASSUME TypeOK, OnItsWay, [Next]_vars, NEW u \in Req, Made(u)
  PROVE  Made(u)'
  <1>1. pc[u] # "free" /\ Kind(u)' = Kind(u)
    BY SameRequest DEF Made, Unmade
  <1>2. ASSUME NEW q \in Req, NEW b, Moves(q, b)
        PROVE  pc'[u] \notin Unmade
    <2>1. q = u => b \notin Unmade
      BY <1>2, MoveFacts DEF Moves, Edge, Made, Unmade
    <2>2. QED
      BY <1>2, <2>1, MoveFacts DEF Made
  <1>3. ASSUME NEW q \in Req, NEW j \in Jobs, Submit(q, j)
        PROVE  pc'[u] \notin Unmade
    BY <1>1, <1>3, SubmitFacts DEF Made
  <1>4. QED
    BY <1>1, <1>2, <1>3, Turn DEF vars, Expire, Made

\* Reactivation is asked for once and for all.
LEMMA StillReactivates ==
  ASSUME TypeOK, OnItsWay, [Next]_vars, Reactivates
  PROVE  Reactivates'
  <1>1. PICK p \in Req : Kind(p) = "setActive" /\ Opt(p) = "on"
    BY DEF Reactivates
  <1>2. pc[p] # "free"
    BY <1>1 DEF TypeOK, Kind, NoJob
  <1>3. QED
    BY <1>1, <1>2, SameRequest DEF Reactivates

\* A deactivation that has been answered was answered before, or is answered now.
LEMMA DeactivatedSince ==
  ASSUME TypeOK, OnItsWay, [Next]_vars, NEW q \in Req, Deactivated(q)'
  PROVE  /\ Kind(q) = "setActive" /\ Opt(q) = "off" /\ On(q)' = On(q) /\ On(q) \in Id /\ pc[q] # "free"
         /\ Deactivated(q) \/ (SetActive(q) /\ pc[q] \notin Ended)
  <1>1. pc[q] # "free"
    <2>1. ASSUME NEW r \in Req, NEW b, Moves(r, b) PROVE pc[q] # "free"
      BY <2>1, MoveFacts DEF Deactivated
    <2>2. ASSUME NEW r \in Req, NEW j \in Jobs, Submit(r, j) PROVE pc[q] # "free"
      BY <2>2, SubmitFacts DEF Deactivated
    <2>3. QED
      BY <2>1, <2>2, Turn DEF vars, Expire, Deactivated
  <1>2. Kind(q) = "setActive" /\ Opt(q) = "off" /\ On(q)' = On(q) /\ On(q) \in Id
    BY <1>1, SameRequest, JobFacts DEF Deactivated, OnARow
  <1>3. ASSUME ~Deactivated(q)
        PROVE  SetActive(q) /\ pc[q] \notin Ended
    <2>1. pc[q] # "done" /\ pc'[q] = "done"
      BY <1>2, <1>3 DEF Deactivated
    <2>2. PICK r \in Req : \E b : Moves(r, b) /\ (Step(r) \/ Fail(r))
      BY <1>1, <2>1, SubmitFacts, Turn DEF vars, Expire
    <2>3. r = q /\ pc[q] \notin Ended
      BY <2>1, <2>2, MoveFacts
    <2>4. ~Fail(q)
      BY <1>2, <2>1 DEF Fail, Go, TypeOK
    <2>5. QED
      BY <1>2, <2>1, <2>2, <2>3, <2>4, TargetSteps
  <1>4. QED
    BY <1>1, <1>2, <1>3

\* What is said of the accounts is inductive.
LEMMA ActiveKeeps ==
  ASSUME TypeOK, OnItsWay, Sequential, OneAccount, TokensAreIssued, TakenForGood, ActiveInv, [Next]_vars
  PROVE  ActiveInv'
  <1>1. user \in [Id -> UserRow] /\ Req \subseteq Id
    BY DEF TypeOK, Id
  <1>2. \/ \E r \in Req : Step(r)
        \/ user' = user /\ got' = got /\ live' = live /\ holder' = holder
    BY Turn DEF vars, Fail, Submit, Expire, tokens
  <1>3. ASSUME NEW u \in Req, Exists(u)'
        PROVE  Made(u)'
    <2>1. CASE Exists(u)
      BY <2>1, MadeStays DEF ActiveInv
    <2>2. CASE ~Exists(u)
      <3>1. PICK r \in Req : Step(r)
        BY <1>2, <1>3, <2>2 DEF Exists
      <3>2. CASE u = r /\ pc[r] \in {"create", "join"} /\ Kind(r) \in {"register", "accept"} /\ pc'[r] = "issue"
        BY <3>2, SameRequest DEF Made, Unmade
      <3>3. CASE u = On(r) /\ Kind(r) = "updateRole" /\ pc[r] = "write"
        BY <3>3, MadeStays DEF ActiveInv
      <3>4. CASE user'[u].role = user[u].role
        BY <1>3, <2>2, <3>4 DEF Exists
      <3>5. CASE user'[u] = user[u]
        BY <3>4, <3>5
      <3>6. QED
        BY <1>1, <3>1, <3>2, <3>3, <3>4, <3>5, UserChange
    <2>3. QED
      BY <2>1, <2>2
  <1>4. ASSUME NEW q \in Req, Kind(q)' \in {"updateRole", "setActive"},
               pc'[q] \in {"count", "write", "done"}, On(q)' \in Req
        PROVE  Made(On(q))'
    <2>1. pc[q] # "free"
      <3>1. ASSUME NEW r \in Req, NEW b, Moves(r, b) PROVE pc[q] # "free"
        BY <1>4, <3>1, MoveFacts
      <3>2. ASSUME NEW r \in Req, NEW j \in Jobs, Submit(r, j) PROVE pc[q] # "free"
        BY <1>4, <3>2, SubmitFacts
      <3>3. QED
        BY <1>4, <3>1, <3>2, Turn DEF vars, Expire
    <2>2. Kind(q) \in {"updateRole", "setActive"} /\ On(q)' = On(q) /\ On(q) \in Req
      BY <1>4, <2>1, SameRequest
    <2>3. Made(On(q))
      <3>1. CASE pc[q] \in {"count", "write", "done"}
        BY <2>2, <3>1 DEF ActiveInv
      <3>2. CASE pc[q] \notin {"count", "write", "done"}
        <4>1. PICK r \in Req : \E b : Moves(r, b) /\ (Step(r) \/ (b \in Ended /\ Fail(r)))
          BY <1>4, <2>1, <3>2, SubmitFacts, Turn DEF vars, Expire
        <4>2. r = q
          BY <1>4, <3>2, <4>1, MoveFacts
        <4>3. pc[q] = "start"
          <5>1. \E b : pc'[q] = b /\ Edge(Kind(q), pc[q], b)
            BY <4>1, <4>2, MoveFacts DEF Moves
          <5>2. QED
            BY <1>4, <2>2, <3>2, <5>1 DEF Edge
        <4>4. ~Fail(q)
          BY <1>4, <2>2 DEF Fail, Go, TypeOK
        <4>5. Exists(On(q))
          BY <1>4, <2>2, <4>1, <4>2, <4>3, <4>4, TargetSteps
        <4>6. QED
          BY <2>2, <4>5 DEF ActiveInv
      <3>3. QED
        BY <3>1, <3>2
    <2>4. QED
      BY <2>2, <2>3, MadeStays DEF Made
  <1>5. ASSUME NEW q \in Req, Deactivated(q), ~Reactivates'
        PROVE  On(q) \in Id /\ ~user'[On(q)].active /\ (On(q) \in Req => Made(On(q))) /\ ~user[On(q)].active
    <2>1. /\ On(q) \in Id /\ ~user[On(q)].active /\ (On(q) \in Req => Made(On(q)))
      BY <1>5, BearsAnId, StillReactivates DEF ActiveInv, Deactivated, OnARow
    <2>2. ASSUME NEW r \in Req, Step(r) PROVE ~user'[On(q)].active
      <3>1. ~(On(q) = r /\ pc[r] \in {"create", "join"})
        BY <2>1 DEF Made, Unmade
      <3>2. ~(Kind(r) = "setActive" /\ Opt(r) = "on")
        BY <1>5, StillReactivates DEF Reactivates
      <3>3. QED
        BY <2>1, <2>2, <3>1, <3>2, UserChange
    <2>3. QED
      BY <1>2, <2>1, <2>2
  <1>6. ASSUME NEW q \in Req, Deactivated(q)', ~Reactivates'
        PROVE  ~user'[On(q)'].active
    <2>1. CASE Deactivated(q)
      BY <1>5, <1>6, <2>1, DeactivatedSince
    <2>2. CASE SetActive(q)
      <3>1. /\ user' = [user EXCEPT ![On(q)] = [user[On(q)] EXCEPT !.active = (Opt(q) = "on")]]
            /\ On(q) \in Id /\ On(q)' = On(q) /\ Opt(q) = "off"
        BY <1>6, <2>2, DeactivatedSince DEF SetActive
      <3>2. user'[On(q)].active = FALSE
        BY <1>1, <3>1 DEF UserRow
      <3>3. QED
        BY <3>1, <3>2
    <2>3. QED
      BY <1>6, <2>1, <2>2, DeactivatedSince
  <1>7. ASSUME NEW q \in Req, NEW t \in Req, Deactivated(q)', ~Reactivates', q < t, {q, t} \notin met'
        PROVE  /\ pc'[t] \in {"others", "issue"} => On(q) \notin got'[t]
               /\ t \in live' => holder'[t] # On(q)
    <2>1. {q, t} \notin met
      BY <1>7, DeactivatedSince, SameRequest
    <2>2. CASE ~Deactivated(q)
      <3>1. SetActive(q) /\ pc[q] \notin Ended
        BY <1>7, <2>2, DeactivatedSince
      <3>2. pc[t] = "free"
        BY <1>7, <2>1, <3>1 DEF Sequential
      <3>3. Step(q) /\ t # q
        BY <1>7, <3>1 DEF Step, Team, Req
      <3>4. pc'[t] = "free"
        BY <3>2, <3>3, StepMoves, MoveFacts
      <3>5. t \notin live'
        <4>1. t \notin live
          BY <3>2 DEF TokensAreIssued, Issued, Ended
        <4>2. QED
          BY <1>1, <3>2, <4>1, TokensChange
      <3>6. QED
        BY <3>4, <3>5
    <2>3. CASE Deactivated(q)
      <3>1. /\ On(q) \in Id /\ ~user[On(q)].active /\ (On(q) \in Req => Made(On(q)))
        BY <1>5, <1>7, <2>3
      <3>2. /\ pc[t] \in {"others", "issue"} => On(q) \notin got[t]
            /\ t \in live => holder[t] # On(q)
        BY <1>7, <2>1, <2>3, StillReactivates DEF ActiveInv
      <3>3. ASSUME pc'[t] \in {"others", "issue"} PROVE On(q) \notin got'[t]
        <4>1. CASE Step(t)
          <5>1. SUFFICES ASSUME On(q) \in got'[t] PROVE FALSE
            OBVIOUS
          <5>2. ~(On(q) = t /\ pc[t] \in {"create", "join"})
            BY <3>1 DEF Made, Unmade
          <5>3. QED
            BY <3>1, <3>2, <3>3, <4>1, <5>1, <5>2, CheckedBefore
        <4>2. CASE ~Step(t)
          <5>1. ASSUME NEW r \in Req, Step(r), NEW b, Moves(r, b) PROVE pc'[t] = pc[t] /\ got'[t] = got[t]
            BY <4>2, <5>1, MoveFacts, SignInInHand, TokenInHand, LinkInHand, TeamInHand DEF Step, TakesInHand
          <5>2. ASSUME NEW r \in Req, NEW b \in Ended, Moves(r, b), Fail(r)
                PROVE  pc'[t] = pc[t] /\ got'[t] = got[t]
            BY <3>3, <5>2, MoveFacts DEF Fail, Ended
          <5>3. ASSUME NEW r \in Req, NEW j \in Jobs, Submit(r, j)
                PROVE  pc'[t] = pc[t] /\ got'[t] = got[t]
            BY <3>3, <5>3, SubmitFacts
          <5>4. pc'[t] = pc[t] /\ got'[t] = got[t]
            BY <5>1, <5>2, <5>3, Turn DEF vars, Expire
          <5>5. QED
            BY <3>2, <3>3, <5>4
        <4>3. QED
          BY <4>1, <4>2
      <3>4. ASSUME t \in live' PROVE holder'[t] # On(q)
        <4>1. CASE Issue(t)
          <5>1. PICK u \in got[t] : pc[t] = "issue" /\ holder' = [holder EXCEPT ![t] = u]
            BY <4>1 DEF Issue
          <5>2. holder'[t] = u
            BY <1>1, <5>1 DEF TypeOK
          <5>3. QED
            BY <3>2, <5>1, <5>2
        <4>2. CASE ~Issue(t)
          <5>1. ASSUME NEW r \in Req, Step(r) PROVE t \in live /\ holder'[t] = holder[t]
            <6>1. CASE Issue(r)
              <7>1. PICK u : live' = live \cup {r} /\ holder' = [holder EXCEPT ![r] = u] /\ r # t
                BY <4>2, <6>1 DEF Issue
              <7>2. QED
                BY <1>1, <3>4, <7>1 DEF TypeOK
            <6>2. CASE Record(r)
              BY <3>4, <6>2 DEF Record
            <6>3. CASE ~Issue(r) /\ ~Record(r)
              BY <3>4, <5>1, <6>3, OthersShrink DEF Shrinks
            <6>4. QED
              BY <6>1, <6>2, <6>3
          <5>2. QED
            BY <1>2, <3>2, <3>4, <5>1
        <4>3. QED
          BY <4>1, <4>2
      <3>5. QED
        BY <3>3, <3>4
    <2>4. QED
      BY <2>2, <2>3
  <1>8. \A q, t \in Req : Deactivated(q)' /\ ~Reactivates' /\ q < t /\ {q, t} \notin met' =>
           /\ pc'[t] \in {"others", "issue"} => On(q)' \notin got'[t]
           /\ t \in live' => holder'[t] # On(q)'
    BY <1>7, DeactivatedSince
  <1>9. QED
    BY <1>3, <1>4, <1>6, <1>8 DEF ActiveInv

-----------------------------------------------------------------------------
(* The team: what changes what *)

\* There are finitely many rows, hence members, open invitations and keys.
LEMMA IdIsFinite == IsFiniteSet(Id)
  <1>1. IsFiniteSet(Req)
    BY FS_Interval, AccountsAssumption DEF Req
  <1>2. IsFiniteSet({Owner} \cup {Partner} \cup {Session} \cup {Challenge} \cup {Confirm} \cup {Reset}
                    \cup {Invite} \cup {Device})
    <2>1. IsFiniteSet({Owner} \cup {Partner} \cup {Session})
      <3>1. IsFiniteSet({Owner} \cup {Partner})
        BY FS_Singleton, FS_Union
      <3>2. QED
        BY <3>1, FS_AddElement
    <2>2. IsFiniteSet({Owner} \cup {Partner} \cup {Session} \cup {Challenge} \cup {Confirm})
      <3>1. IsFiniteSet({Owner} \cup {Partner} \cup {Session} \cup {Challenge})
        BY <2>1, FS_AddElement
      <3>2. QED
        BY <3>1, FS_AddElement
    <2>3. IsFiniteSet({Owner} \cup {Partner} \cup {Session} \cup {Challenge} \cup {Confirm} \cup {Reset}
                      \cup {Invite})
      <3>1. IsFiniteSet({Owner} \cup {Partner} \cup {Session} \cup {Challenge} \cup {Confirm} \cup {Reset})
        BY <2>2, FS_AddElement
      <3>2. QED
        BY <3>1, FS_AddElement
    <2>4. QED
      BY <2>3, FS_AddElement
  <1>3. Old = {Owner} \cup {Partner} \cup {Session} \cup {Challenge} \cup {Confirm} \cup {Reset}
                    \cup {Invite} \cup {Device}
    BY DEF Old
  <1>4. QED
    BY <1>1, <1>2, <1>3, FS_Union DEF Id

\* A part of the rows is no larger than the whole.
LEMMA Part ==
  ASSUME NEW S \in SUBSET Id, NEW T \in SUBSET S
  PROVE  Cardinality(S) \in Nat /\ Cardinality(T) \in Nat /\ Cardinality(T) <= Cardinality(S)
  BY IdIsFinite, FS_Subset, FS_CardinalityType

\* One row more counts one.
LEMMA OneRow ==
  ASSUME NEW S \in SUBSET Id, NEW x
  PROVE  /\ Cardinality(S) \in Nat
         /\ Cardinality(S \cup {x}) \in Nat /\ Cardinality(S \cup {x}) <= Cardinality(S) + 1
         /\ Cardinality(S \ {x}) \in Nat
         /\ x \in S => Cardinality(S \ {x}) + 1 = Cardinality(S)
  <1>1. IsFiniteSet(S) /\ Cardinality(S) \in Nat
    BY IdIsFinite, FS_Subset, FS_CardinalityType
  <1>2. Cardinality(S \cup {x}) = IF x \in S THEN Cardinality(S) ELSE Cardinality(S) + 1
    BY <1>1, FS_AddElement
  <1>3. IsFiniteSet(S \ {x}) /\ Cardinality(S \ {x}) = IF x \in S THEN Cardinality(S) - 1 ELSE Cardinality(S)
    BY <1>1, FS_RemoveElement
  <1>4. Cardinality(S \ {x}) \in Nat
    BY <1>3, FS_CardinalityType
  <1>5. QED
    BY <1>1, <1>2, <1>3, <1>4

\* What the limits are compared with are numbers.
LEMMA CountsAreNumbers ==
  /\ UsedSeats(TRUE) \in Nat /\ Seats \in Nat
  /\ Cardinality(LiveKeys) \in Nat /\ KeyCap \in Nat
  <1>1. Members(Home) \in SUBSET Id /\ Pending \in SUBSET Id /\ LiveKeys \in SUBSET Id
    BY DEF Members, Pending, LiveKeys
  <1>2. /\ Cardinality(Members(Home)) \in Nat /\ Cardinality(Pending) \in Nat
        /\ Cardinality(LiveKeys) \in Nat
    BY <1>1, OneRow
  <1>3. QED
    BY <1>2, AccountsAssumption DEF UsedSeats

\* At most one member: the set is empty or a singleton.
LEMMA AtMostOne ==
  ASSUME NEW S, \A x, y \in S : x = y
  PROVE  Cardinality(S) <= 1
  <1>1. CASE S = {}
    BY <1>1, FS_EmptySet
  <1>2. CASE S # {}
    <2>1. PICK x \in S : TRUE
      BY <1>2
    <2>2. S = {x}
      BY <2>1
    <2>3. Cardinality({x}) = 1
      BY FS_Singleton
    <2>4. QED
      BY <2>2, <2>3
  <1>3. QED
    BY <1>1, <1>2

\* Requests that overlapped have overlapped for good.
LEMMA StillTogether ==
  ASSUME TypeOK, OnItsWay, [Next]_vars, NEW kinds, "none" \notin kinds, Together(kinds)
  PROVE  Together(kinds)'
  <1>1. PICK a \in Req : \E b \in Req : {a, b} \in met /\ a # b /\ Kind(a) \in kinds /\ Kind(b) \in kinds
    BY DEF Together
  <1>2. PICK b \in Req : {a, b} \in met /\ a # b /\ Kind(a) \in kinds /\ Kind(b) \in kinds
    BY <1>1
  <1>3. \A r \in Req : Kind(r) \in kinds => pc[r] # "free"
    BY DEF TypeOK, Kind, NoJob
  <1>4. {a, b} \in met' /\ Kind(a)' \in kinds /\ Kind(b)' \in kinds
    BY <1>2, <1>3, SameRequest
  <1>5. QED
    BY <1>2, <1>4 DEF Together

\* The steps that write invitations or keys, or move what has expired.
InviteSteps(r) ==
    InviteCheck(r) \/ InviteCreate(r) \/ RevokeInvite(r) \/ AcceptExpired(r) \/ AcceptJoin(r)

\* The other steps leave them alone.
LEMMA TeamAlone ==
  ASSUME NEW r \in Req, Step(r)
  PROVE  /\ ~InviteSteps(r) => inv' = inv
         /\ ~KeyCreate(r) /\ ~KeyRevoke(r) => key' = key
         /\ ~ResendStore(r) => expired' = expired
  <1> USE DEF Read, Reject, Go, team, rest
  <1>1. CASE Issue(r) \/ Record(r) \/ Register(r)
    BY <1>1 DEF Issue, Record, Register, RegisterCheck, RegisterCreate
  <1>2. CASE SignIn(r)
    BY <1>2 DEF SignIn, Login, CreateChallenge, MailCode, ResendRead, ResendStore
  <1>3. CASE VerifyLoginOtp(r)
    BY <1>3 DEF VerifyLoginOtp, VerifyRead, Reserve, Consume, ConsumeOthers, Remember
  <1>4. CASE Refresh(r) \/ SignOut(r)
    BY <1>4 DEF Refresh, RefreshGet, DropToken, RetireRow, RefreshUser,
                SignOut, RevokeRead, RevokeMark, ListRows, Wipe, RetireAll
  <1>5. CASE Links(r)
    BY <1>5 DEF Links, RequestVerification, ForgotPassword, ClearLinks, NewLink, VerifyEmailRead,
                VerifyEmail, ResetRead, ResetPassword
  <1>6. CASE Invitations(r)
    BY <1>6 DEF InviteSteps, Invitations, InviteCheck, InviteSeats, InviteCreate, InviteMail, RevokeInviteRead,
                RevokeInvite, AcceptCheck, AcceptExpired, AcceptJoin
  <1>7. CASE Team(r)
    BY <1>7 DEF Team, TargetRead, AssertNotLastOwner, UpdateRole, SetActive, KeyCount, KeyCreate, KeyRevoke
  <1>8. QED
    BY <1>1, <1>2, <1>3, <1>4, <1>5, <1>6, <1>7 DEF Step

\* A request about the team takes a step of the team's handlers until it has joined.
TeamKinds == {"invite", "revokeInvite", "accept", "updateRole", "setActive", "createKey"}
LEMMA TeamTurn ==
  ASSUME OnItsWay, NEW r \in Req, Step(r), Kind(r) \in TeamKinds, pc[r] \notin {"issue", "record"}
  PROVE  Invitations(r) \/ Team(r)
  <1> USE DEF At
  <1>1. pc[r] \notin {"drop", "retire", "signout", "wipe", "clear", "new", "retireAll"}
    BY DEF OnItsWay, Steps, Ended, TeamKinds
  <1>2. ~Issue(r) /\ ~Record(r)
    BY DEF Issue, Record
  <1>3. ~Register(r) /\ ~SignIn(r)
    BY DEF Register, RegisterCheck, RegisterCreate, SignIn, Login, CreateChallenge,
           MailCode, ResendRead, ResendStore, TeamKinds
  <1>4. ~VerifyLoginOtp(r)
    BY DEF VerifyLoginOtp, VerifyRead, Reserve, Consume, ConsumeOthers, Remember, TeamKinds
  <1>5. ~Refresh(r)
    BY <1>1 DEF Refresh, RefreshGet, DropToken, RetireRow, RefreshUser, TeamKinds
  <1>6. ~SignOut(r)
    BY <1>1 DEF SignOut, RevokeRead, RevokeMark, ListRows, Wipe, RetireAll, TeamKinds
  <1>7. ~Links(r)
    BY <1>1 DEF Links, RequestVerification, ForgotPassword, ClearLinks, NewLink, VerifyEmailRead,
                VerifyEmail, ResetRead, ResetPassword, TeamKinds
  <1>8. QED
    BY <1>2, <1>3, <1>4, <1>5, <1>6, <1>7 DEF Step

\* What a request about the team has just read when it goes on, having written nothing.
LEMMA TeamReads ==
  ASSUME TypeOK, OnItsWay, NEW r \in Req, Step(r), Kind(r) \in TeamKinds
  PROVE  /\ Kind(r) = "invite" /\ pc'[r] = "create" =>
               UsedSeats(TRUE) < Seats /\ UNCHANGED <<user, inv, expired>>
         /\ Kind(r) = "accept" /\ pc'[r] \in {"expire", "join"} =>
               inv[On(r)].status = "pending" /\ UNCHANGED <<user, inv, expired>>
         /\ Kind(r) = "accept" /\ pc'[r] = "join" => On(r) \notin expired
         /\ Kind(r) = "revokeInvite" /\ pc'[r] = "write" =>
               inv[On(r)].status = "pending" /\ UNCHANGED <<user, inv, expired>>
         /\ Kind(r) = "createKey" /\ pc'[r] = "create" =>
               Cardinality(LiveKeys) < KeyCap /\ key' = key
         /\ Kind(r) \in {"updateRole", "setActive"} /\ pc'[r] \in {"count", "write"} =>
               user' = user /\ (pc[r] = "start" => Exists(On(r)))
         /\ Kind(r) \in {"updateRole", "setActive"} /\ pc'[r] = "write" =>
               ~Unseats(r) \/ ~(Cardinality(Owners(Home)) <= 1)
  <1> USE DEF At, Read, Reject, Go, team, rest
  <1>1. pc \in [Req -> (UNION {Steps(kind) : kind \in Kinds}) \cup Ended \cup {"free", "start"}]
    BY TypeParts DEF ControlType
  <1>2. PICK b : Moves(r, b)
    BY StepMoves
  <1>3. pc'[r] = b /\ Edge(Kind(r), pc[r], b)
    BY <1>2, MoveFacts DEF Moves
  <1>4. CASE pc[r] \in {"issue", "record"}
    BY <1>3, <1>4 DEF Edge, TeamKinds
  <1>5. CASE Invitations(r)
    <2>1. CASE InviteCheck(r)
      BY <1>1, <2>1 DEF InviteCheck
    <2>2. CASE InviteSeats(r)
      <3>1. ~(UsedSeats(TRUE) >= Seats) => UsedSeats(TRUE) < Seats
        BY CountsAreNumbers DEF UsedSeats
      <3>2. Kind(r) = "invite" /\ (Reject(r) \/ (~(UsedSeats(TRUE) >= Seats) /\ Read(r, "create", {})))
        BY <2>2, Zenon DEF InviteSeats
      <3>3. CASE Reject(r)
        BY <1>1, <3>2, <3>3
      <3>4. CASE UsedSeats(TRUE) < Seats /\ Read(r, "create", {})
        BY <1>1, <3>2, <3>4
      <3>5. QED
        BY <3>1, <3>2, <3>3, <3>4
    <2>3. CASE InviteCreate(r)
      BY <1>1, <2>3 DEF InviteCreate
    <2>4. CASE InviteMail(r)
      BY <1>1, <2>4 DEF InviteMail
    <2>5. CASE RevokeInviteRead(r)
      BY <1>1, <2>5 DEF RevokeInviteRead
    <2>6. CASE RevokeInvite(r)
      BY <1>1, <2>6 DEF RevokeInvite
    <2>7. CASE AcceptCheck(r)
      BY <1>1, <2>7 DEF AcceptCheck
    <2>8. CASE AcceptExpired(r)
      BY <1>1, <2>8 DEF AcceptExpired
    <2>9. CASE AcceptJoin(r)
      BY <1>1, <2>9 DEF AcceptJoin
    <2>10. QED
      BY <1>5, <2>1, <2>2, <2>3, <2>4, <2>5, <2>6, <2>7, <2>8, <2>9 DEF Invitations
  <1>6. CASE Team(r) /\ Kind(r) \in {"updateRole", "setActive"}
    <2>1. TargetRead(r) \/ AssertNotLastOwner(r) \/ UpdateRole(r) \/ SetActive(r)
      BY <1>6 DEF Team, KeyCount, KeyCreate, KeyRevoke
    <2>2. CASE TargetRead(r)
      BY <1>1, <1>6, <2>2 DEF TargetRead
    <2>3. CASE AssertNotLastOwner(r)
      BY <1>1, <1>6, <2>3 DEF AssertNotLastOwner
    <2>4. CASE UpdateRole(r) \/ SetActive(r)
      BY <1>1, <1>6, <2>4 DEF UpdateRole, SetActive
    <2>5. QED
      BY <2>1, <2>2, <2>3, <2>4
  <1>7. CASE Team(r) /\ Kind(r) \notin {"updateRole", "setActive"}
    <2>1. pc[r] # "count"
      BY <1>7 DEF OnItsWay, Steps, Ended
    <2>2. KeyCount(r) \/ KeyCreate(r) \/ KeyRevoke(r)
      BY <1>7, <2>1 DEF Team, TargetRead, AssertNotLastOwner, UpdateRole, SetActive
    <2>3. CASE KeyCount(r)
      BY <1>1, <2>3, CountsAreNumbers DEF KeyCount, LiveKeys
    <2>4. CASE KeyCreate(r)
      BY <1>1, <2>4 DEF KeyCreate
    <2>5. CASE KeyRevoke(r)
      BY <1>1, <2>5 DEF KeyRevoke, TeamKinds
    <2>6. QED
      BY <2>2, <2>3, <2>4, <2>5
  <1>8. QED
    BY <1>4, <1>5, <1>6, <1>7, TeamTurn

\* A step of a request that is at one of the team's steps, or comes to it: it came there, or was there.
LEMMA ComesTo ==
  ASSUME TypeOK, OnItsWay, [Next]_vars, NEW q \in Req, pc'[q] \notin Ended \cup {"free", "start"}
  PROVE  /\ pc[q] # "free" /\ Kind(q)' = Kind(q) /\ On(q)' = On(q) /\ Opt(q)' = Opt(q)
         /\ \/ pc'[q] = pc[q]
            \/ Step(q) /\ Edge(Kind(q), pc[q], pc'[q])
  <1>1. ASSUME NEW r \in Req, NEW b, Moves(r, b), Step(r) \/ b \in Ended
        PROVE  pc[q] # "free" /\ (pc'[q] = pc[q] \/ (Step(q) /\ Edge(Kind(q), pc[q], pc'[q])))
    BY <1>1, MoveFacts DEF Moves
  <1>2. ASSUME NEW r \in Req, NEW j \in Jobs, Submit(r, j)
        PROVE  pc[q] # "free" /\ pc'[q] = pc[q]
    BY <1>2, SubmitFacts
  <1>3. pc[q] # "free" /\ (pc'[q] = pc[q] \/ (Step(q) /\ Edge(Kind(q), pc[q], pc'[q])))
    BY <1>1, <1>2, Turn DEF vars, Expire
  <1>4. QED
    BY <1>3, SameRequest

\* An account that is there stays there.
LEMMA StillExists ==
  ASSUME TypeOK, ActiveInv, [Next]_vars, OnItsWay, NEW u \in Id, Exists(u)
  PROVE  Exists(u)'
  <1>1. ASSUME NEW r \in Req, Step(r)
        PROVE  user'[u].role # "none"
    <2>1. ~(u = r /\ pc[r] \in {"create", "join"})
      BY <1>1 DEF ActiveInv, Made, Unmade
    <2>2. Kind(r) = "updateRole" /\ pc[r] = "write" => Opt(r) \in Roles /\ "none" \notin Roles
      BY JobFacts DEF Roles
    <2>3. QED
      BY <1>1, <2>1, <2>2, UserChange DEF Exists
  <1>2. user' = user => Exists(u)'
    BY DEF Exists
  <1>3. QED
    BY <1>1, <1>2, Turn DEF vars, Fail, Submit, Expire, Exists

\* What a step does to an invitation: it makes it, or says that it ran out, is revoked or accepted.
LEMMA InviteChange ==
  ASSUME TypeOK, NEW r \in Req, Step(r), NEW i \in Id
  PROVE  \/ inv'[i] = inv[i]
         \/ i = r /\ Kind(r) = "invite" /\ pc[r] = "create" /\ pc'[r] = "mail" /\ inv'[i].status = "pending"
         \/ inv[i].status = "pending" /\ i \in expired /\ inv'[i].status = "expired"
         \/ i = On(r) /\ Kind(r) = "revokeInvite" /\ pc[r] = "write" /\ inv'[i].status = "revoked"
         \/ i = On(r) /\ Kind(r) = "accept" /\ pc[r] = "expire" /\ inv'[i].status = "expired"
         \/ i = On(r) /\ Kind(r) = "accept" /\ pc[r] = "join" /\ inv'[i].status = "accepted"
  <1> USE DEF At, Go
  <1>1. inv \in [Id -> InviteRow] /\ inv[i] \in InviteRow
    BY DEF TypeOK
  <1>2. pc \in [Req -> (UNION {Steps(kind) : kind \in Kinds}) \cup Ended \cup {"free", "start"}]
    BY TypeParts DEF ControlType
  <1>3. CASE InviteCheck(r)
    <2>1. \/ inv' = inv
          \/ \E c \in Id : inv[c].status = "pending" /\ c \in expired
                           /\ inv' = [inv EXCEPT ![c] = [inv[c] EXCEPT !.status = "expired"]]
      BY <1>3 DEF InviteCheck, Reject, Read, team
    <2>2. QED
      BY <1>1, <2>1 DEF InviteRow
  <1>4. CASE InviteCreate(r)
    BY <1>1, <1>2, <1>4 DEF InviteCreate
  <1>5. CASE RevokeInvite(r)
    BY <1>1, <1>5 DEF RevokeInvite, InviteRow
  <1>6. CASE AcceptExpired(r)
    BY <1>1, <1>6 DEF AcceptExpired, InviteRow
  <1>7. CASE AcceptJoin(r)
    BY <1>1, <1>7 DEF AcceptJoin, Reject, team, InviteRow
  <1>8. CASE ~InviteSteps(r)
    BY <1>8, TeamAlone
  <1>9. QED
    BY <1>3, <1>4, <1>5, <1>6, <1>7, <1>8 DEF InviteSteps

\* Who joins accepts the invitation.
LEMMA JoiningAccepts ==
  ASSUME TypeOK, OnItsWay, NEW r \in Req, Step(r), Kind(r) = "accept", pc[r] = "join", pc'[r] = "issue"
  PROVE  On(r) \in Id /\ inv'[On(r)].status = "accepted" /\ expired' = expired
  <1> USE DEF At, Go
  <1>1. On(r) \in Id /\ inv \in [Id -> InviteRow]
    BY BearsAnId DEF TypeOK, OnARow
  <1>2. pc \in [Req -> (UNION {Steps(kind) : kind \in Kinds}) \cup Ended \cup {"free", "start"}]
    BY TypeParts DEF ControlType
  <1>3. AcceptJoin(r)
    BY TeamTurn DEF TeamKinds, Invitations, InviteCheck, InviteSeats, InviteCreate, InviteMail,
                    RevokeInviteRead, RevokeInvite, AcceptCheck, AcceptExpired, Team, TargetRead,
                    AssertNotLastOwner, UpdateRole, SetActive, KeyCount, KeyCreate, KeyRevoke
  <1>4. ~Reject(r)
    BY <1>2 DEF Reject
  <1>5. inv' = [inv EXCEPT ![On(r)] = [inv[On(r)] EXCEPT !.status = "accepted"]] /\ expired' = expired
    BY <1>3, <1>4 DEF AcceptJoin, rest
  <1>6. QED
    BY <1>1, <1>5 DEF InviteRow

\* The members of the organisation: only who accepts an invitation, or is reactivated, is a new one.
LEMMA MembersChange ==
  ASSUME TypeOK, OnItsWay, NEW r \in Req, Step(r), ~(Kind(r) = "setActive" /\ Opt(r) = "on")
  PROVE  \/ Members(Home)' \subseteq Members(Home)
         \/ /\ Members(Home)' \subseteq Members(Home) \cup {r}
            /\ Kind(r) = "accept" /\ pc[r] = "join" /\ pc'[r] = "issue"
  <1>1. Home # r
    BY AccountsAssumption
  <1>2. Kind(r) = "accept" => pc[r] # "create"
    BY DEF OnItsWay, Steps, Ended
  <1>3. ASSUME NEW u \in Members(Home)'
        PROVE  u \in Members(Home) \/ (u = r /\ Kind(r) = "accept" /\ pc[r] = "join" /\ pc'[r] = "issue")
    <2>1. u \in Id /\ user'[u].org = Home /\ user'[u].active
      BY <1>3 DEF Members
    <2>2. QED
      BY <1>1, <1>2, <2>1, UserChange DEF Members
  <1>4. QED
    BY <1>3

\* Its active owners: only a change of one's role, or a deactivation, takes one away.
LEMMA OwnersChange ==
  ASSUME TypeOK, ActiveInv, NEW r \in Req, Step(r), NEW u \in Owners(Home)
  PROVE  \/ u \in Owners(Home)'
         \/ /\ u = On(r) /\ Kind(r) \in {"updateRole", "setActive"} /\ pc[r] = "write"
            /\ Opt(r) \in {"agent", "off"}
  <1>1. u \in Id /\ user[u].org = Home /\ user[u].active /\ user[u].role = "owner"
    BY DEF Owners, Members
  <1>2. ~(u = r /\ pc[r] \in {"create", "join"})
    BY <1>1 DEF ActiveInv, Made, Unmade, Exists
  <1>3. Kind(r) = "updateRole" /\ pc[r] = "write" => Opt(r) \in {"agent", "owner"}
    BY JobFacts DEF Roles
  <1>4. Kind(r) = "setActive" /\ pc[r] = "write" => Opt(r) \in {"on", "off"}
    BY JobFacts
  <1>5. ASSUME ~(/\ u = On(r) /\ Kind(r) \in {"updateRole", "setActive"} /\ pc[r] = "write"
                 /\ Opt(r) \in {"agent", "off"})
        PROVE  user'[u].org = Home /\ user'[u].active /\ user'[u].role = "owner"
    BY <1>1, <1>2, <1>3, <1>4, <1>5, UserChange
  <1>6. QED
    BY <1>1, <1>5 DEF Owners, Members

\* The open invitations: only a request that invites opens one, a resend none; who joins closes it.
LEMMA PendingChange ==
  ASSUME TypeOK, OnItsWay, InviteInv, RenewsCodes, NEW r \in Req, Step(r)
  PROVE  /\ \/ Pending' \subseteq Pending
            \/ Pending' \subseteq Pending \cup {r} /\ Kind(r) = "invite" /\ pc[r] = "create"
         /\ Kind(r) = "accept" /\ pc[r] = "join" /\ pc'[r] = "issue" => Pending' \subseteq Pending \ {On(r)}
  <1>1. \A i \in Id : inv'[i].status = "pending" =>
           inv[i].status = "pending" \/ (i = r /\ Kind(r) = "invite" /\ pc[r] = "create")
    BY InviteChange
  <1>2. ASSUME NEW i \in Id, i \notin expired', inv[i].status = "pending"
        PROVE  i \notin expired
    <2>1. CASE ResendStore(r)
      <3>1. Kind(r) = "resend" /\ pc[r] = "send" /\ expired' = expired \ {On(r)}
        BY <2>1 DEF ResendStore, At
      <3>2. IsCode(On(r))
        BY <3>1 DEF RenewsCodes
      <3>3. On(r) # i
        BY <1>2, <3>2, AccountsAssumption DEF IsCode, InviteInv, Old
      <3>4. QED
        BY <1>2, <3>1, <3>3
    <2>2. CASE ~ResendStore(r)
      BY <1>2, <2>2, TeamAlone
    <2>3. QED
      BY <2>1, <2>2
  <1>3. \A i \in Pending' : i \in Pending \/ (i = r /\ Kind(r) = "invite" /\ pc[r] = "create")
    BY <1>1, <1>2 DEF Pending
  <1>4. ASSUME Kind(r) = "accept", pc[r] = "join", pc'[r] = "issue"
        PROVE  On(r) \notin Pending'
    BY <1>4, JoiningAccepts DEF Pending
  <1>5. QED
    BY <1>3, <1>4

-----------------------------------------------------------------------------
(* The team: what its invariants keep *)

\* Two requests of kinds that have not overlapped are not in flight at the same time.
LEMMA OneAtATime ==
  ASSUME TypeOK, Sequential, NEW r \in Req, NEW b, Moves(r, b), NEW kinds, ~Together(kinds), Kind(r) \in kinds,
         NEW q \in Req, q # r, Kind(q)' \in kinds
  PROVE  pc'[q] \in Ended \cup {"free"}
  <1>1. pc'[q] = pc[q] /\ Kind(q) \in kinds /\ pc[r] \notin Ended \cup {"free"}
    BY MoveFacts
  <1>2. pc[q] \in Ended \cup {"free"} \/ {q, r} \in met
    BY <1>1, BothInFlight
  <1>3. QED
    BY <1>1, <1>2 DEF Together

\* A request that has left the start does not come back to it.
LEMMA NeverBack ==
  ASSUME TypeOK, OnItsWay, [Next]_vars, NEW r \in Req, pc[r] \notin {"free", "start"}
  PROVE  pc'[r] \notin {"free", "start"}
  <1>1. ASSUME NEW q \in Req, NEW b, Moves(q, b) PROVE pc'[r] \notin {"free", "start"}
    BY <1>1, MoveFacts
  <1>2. ASSUME NEW q \in Req, NEW j \in Jobs, Submit(q, j) PROVE pc'[r] \notin {"free", "start"}
    BY <1>2, SubmitFacts
  <1>3. QED
    BY <1>1, <1>2, Turn DEF vars, Expire

\* A resend goes on with a code that is open.
LEMMA ResendReads ==
  ASSUME TypeOK, NEW r \in Req, Step(r), Kind(r) = "resend", pc[r] = "start", pc'[r] = "send"
  PROVE  ~code[On(r)].used
  <1> USE DEF At
  <1>1. ~Issue(r) /\ ~Record(r) /\ ~Register(r) /\ ~VerifyLoginOtp(r) /\ ~Invitations(r)
    BY DEF Issue, Record, Register, RegisterCheck, RegisterCreate, VerifyLoginOtp, VerifyRead, Reserve, Consume,
           ConsumeOthers, Remember, Invitations, InviteCheck, InviteSeats, InviteCreate, InviteMail,
           RevokeInviteRead, RevokeInvite, AcceptCheck, AcceptExpired, AcceptJoin
  <1>2. ~Refresh(r) /\ ~SignOut(r) /\ ~Links(r) /\ ~Team(r)
    BY DEF Refresh, RefreshGet, DropToken, RetireRow, RefreshUser, SignOut, RevokeRead, RevokeMark, ListRows,
           Wipe, RetireAll, Links, RequestVerification, ForgotPassword, ClearLinks, NewLink, VerifyEmailRead,
           VerifyEmail, ResetRead, ResetPassword, Team, TargetRead, AssertNotLastOwner, UpdateRole, SetActive,
           KeyCount, KeyCreate, KeyRevoke
  <1>3. ResendRead(r)
    BY <1>1, <1>2 DEF Step, SignIn, Login, CreateChallenge, MailCode, ResendStore
  <1>4. ~Reject(r)
    BY DEF Reject, Go, TypeOK
  <1>5. QED
    BY <1>3, <1>4 DEF ResendRead, CodeOpen

\* What is said of the invitations is inductive.
LEMMA InvitesKeep ==
  ASSUME TypeOK, OnItsWay, Sequential, ActiveInv, InviteInv, OwnerInv, [Next]_vars
  PROVE  InviteInv'
  <1>1. \A i \in Id, r \in Req : Step(r) =>
           \/ inv'[i] = inv[i]
           \/ inv[i].status # "none" /\ inv'[i].status \notin {"none", "pending"}
           \/ i = r /\ Kind(r) = "invite" /\ pc[r] = "create" /\ pc'[r] = "mail" /\ inv'[i].status = "pending"
    BY InviteChange DEF InviteInv
  <1>2. \/ \E r \in Req : Step(r)
        \/ inv' = inv /\ user' = user
    BY Turn DEF vars, Fail, Submit, Expire, team
  <1>3. \A i \in Id : inv[i].status # "none" => inv'[i].status # "none"
    BY <1>1, <1>2
  <1>4. ASSUME NEW i \in Id, inv'[i].status # "none"
        PROVE  \/ i = Invite
               \/ i \in Req /\ Kind(i)' = "invite" /\ pc'[i] \notin {"free", "start", "seats", "create"}
    <2>1. CASE inv[i].status # "none" /\ i # Invite
      <3>1. i \in Req /\ Kind(i) = "invite" /\ pc[i] \notin {"free", "start", "seats", "create"}
        BY <2>1 DEF InviteInv
      <3>2. Kind(i)' = "invite"
        BY <3>1, SameRequest
      <3>3. ASSUME pc'[i] \notin Ended PROVE pc'[i] \notin {"free", "start", "seats", "create"}
        <4>1. pc'[i] \notin {"free", "start"}
          BY <3>1, NeverBack
        <4>2. pc'[i] = pc[i] \/ Edge(Kind(i), pc[i], pc'[i])
          BY <3>1, <3>3, <4>1, ComesTo
        <4>3. QED
          BY <3>1, <4>1, <4>2 DEF Edge
      <3>4. QED
        BY <3>1, <3>2, <3>3 DEF Ended
    <2>2. CASE inv[i].status = "none"
      <3>1. PICK r \in Req : Step(r)
        BY <1>2, <1>4, <2>2
      <3>2. i = r /\ Kind(r) = "invite" /\ pc[r] = "create" /\ pc'[r] = "mail"
        BY <1>1, <1>4, <2>2, <3>1
      <3>3. QED
        BY <3>2, SameRequest
    <2>3. QED
      BY <2>1, <2>2
  <1>5. ASSUME NEW r \in Req,
               \/ Kind(r)' = "revokeInvite" /\ pc'[r] = "write"
               \/ Kind(r)' = "accept" /\ pc'[r] \in {"expire", "join"}
        PROVE  inv'[On(r)'].status # "none"
    <2>1. /\ Kind(r)' = Kind(r) /\ On(r)' = On(r) /\ On(r) \in Id
          /\ pc'[r] = pc[r] \/ Step(r)
      BY <1>5, ComesTo, BearsAnId DEF Ended, OnARow
    <2>2. inv[On(r)].status # "none"
      BY <1>5, <2>1, TeamReads DEF InviteInv, TeamKinds
    <2>3. QED
      BY <1>3, <2>1, <2>2
  <1>6. ASSUME NEW r \in Req, Joined(r)'
        PROVE  /\ Kind(r) = "accept" /\ On(r)' = On(r) /\ On(r) \in Id /\ pc[r] # "free"
               /\ \/ Joined(r)
                  \/ Step(r) /\ pc[r] = "join" /\ pc'[r] = "issue" /\ inv'[On(r)].status = "accepted"
    <2>1. Exists(r)' /\ Kind(r)' = "accept" /\ r \in Id
      BY <1>6 DEF Joined, Id
    <2>2. CASE ~Exists(r)
      <3>1. PICK q \in Req : Step(q)
        BY <1>2, <2>1, <2>2 DEF Exists
      <3>2. pc[r] # "free"
        <4>1. CASE pc[r] = "free"
          <5>1. r # q /\ pc'[r] = "free"
            BY <3>1, <4>1, StepMoves, MoveFacts
          <5>2. r # On(q) \/ Exists(r) \/ pc[q] # "write" \/ Kind(q) # "updateRole"
            BY DEF OwnerInv
          <5>3. QED
            BY <2>1, <2>2, <3>1, <5>1, <5>2, UserChange DEF Exists
        <4>2. QED
          BY <4>1
      <3>3. Kind(r) = "accept" /\ On(r)' = On(r) /\ On(r) \in Id
        BY <2>1, <3>2, SameRequest, BearsAnId DEF OnARow
      <3>4. ~(r = On(q) /\ Kind(q) = "updateRole" /\ pc[q] = "write")
        BY <2>2 DEF OwnerInv
      <3>5. r = q /\ pc[r] \in {"create", "join"} /\ pc'[r] = "issue"
        BY <2>1, <2>2, <3>1, <3>4, UserChange DEF Exists
      <3>6. pc[r] # "create"
        BY <3>3 DEF OnItsWay, Steps, Ended
      <3>7. QED
        BY <3>1, <3>2, <3>3, <3>5, <3>6, JoiningAccepts
    <2>3. CASE Exists(r)
      <3>1. pc[r] # "free"
        BY <2>3 DEF ActiveInv, Made, Unmade
      <3>2. QED
        BY <2>1, <2>3, <3>1, SameRequest, BearsAnId DEF Joined, OnARow
    <2>4. QED
      BY <2>2, <2>3
  <1>7. ASSUME NEW r \in Req, Joined(r)'
        PROVE  inv'[On(r)'].status \notin {"none", "pending"}
    <2>1. CASE Joined(r)
      <3>1. inv[On(r)].status \notin {"none", "pending"} /\ On(r) \in Id
        BY <1>6, <1>7, <2>1 DEF InviteInv
      <3>2. ASSUME NEW q \in Req, On(r) = q PROVE ~(Kind(q) = "invite" /\ pc[q] = "create")
        BY <3>1, <3>2, AccountsAssumption DEF InviteInv, Old
      <3>3. inv'[On(r)].status \notin {"none", "pending"}
        BY <1>1, <1>2, <3>1, <3>2
      <3>4. QED
        BY <1>6, <1>7, <3>3
    <2>2. CASE ~Joined(r)
      BY <1>6, <1>7, <2>2
    <2>3. QED
      BY <2>1, <2>2
  <1>8. ASSUME NEW r \in Req, NEW q \in Req, Joined(r)', Kind(q)' = "revokeInvite", pc'[q] = "write", On(q)' = On(r)'
        PROVE  {q, r} \in met'
    <2>1. /\ Kind(q) = "revokeInvite" /\ On(q) = On(r) /\ q # r /\ pc[q] # "free"
          /\ pc'[q] = pc[q] \/ Step(q)
      BY <1>6, <1>8, ComesTo DEF Ended
    <2>2. CASE Joined(r)
      <3>1. inv[On(r)].status # "pending"
        BY <2>2 DEF InviteInv
      <3>2. pc[q] = "write"
        BY <1>8, <2>1, <3>1, TeamReads DEF TeamKinds
      <3>3. {q, r} \in met
        BY <2>1, <2>2, <3>2 DEF InviteInv
      <3>4. QED
        BY <2>1, <3>3, SameRequest
    <2>3. CASE ~Joined(r)
      <3>1. Step(r) /\ pc[r] = "join"
        BY <1>6, <1>8, <2>3
      <3>2. pc'[q] = pc[q]
        BY <2>1, <3>1, StepMoves, MoveFacts
      <3>3. {q, r} \in met
        BY <1>8, <2>1, <3>1, <3>2, BothInFlight DEF Ended
      <3>4. QED
        BY <2>1, <3>3, SameRequest
    <2>4. QED
      BY <2>2, <2>3
  <1>9. ASSUME NEW r \in Req, Joined(r)', inv'[On(r)'].status = "revoked"
        PROVE  Together({"accept", "revokeInvite"})'
    <2>1. On(r)' = On(r) /\ On(r) \in Id /\ Joined(r) /\ Kind(r) = "accept"
      BY <1>6, <1>9
    <2>2. Together({"accept", "revokeInvite"})
      <3>1. CASE inv[On(r)].status = "revoked"
        BY <2>1, <3>1 DEF InviteInv
      <3>2. CASE inv[On(r)].status # "revoked"
        <4>1. PICK q \in Req : Step(q)
          BY <1>2, <1>9, <2>1, <3>2
        <4>2. On(r) = On(q) /\ Kind(q) = "revokeInvite" /\ pc[q] = "write"
          BY <1>9, <2>1, <3>2, <4>1, InviteChange
        <4>3. {q, r} \in met
          BY <2>1, <4>2 DEF InviteInv
        <4>4. QED
          BY <2>1, <4>2, <4>3 DEF Together
      <3>3. QED
        BY <3>1, <3>2
    <2>3. QED
      BY <2>2, StillTogether
  <1>10. QED
    BY <1>4, <1>5, <1>7, <1>8, <1>9 DEF InviteInv

\* What a resend renews stays a sign-in code.
LEMMA RenewalsKeep ==
  ASSUME TypeOK, OnItsWay, RenewsCodes, [Next]_vars
  PROVE  RenewsCodes'
  <1>1. ASSUME NEW c, IsCode(c) PROVE c = Challenge \/ (c \in Req /\ Kind(c)' = "login")
    <2>1. ASSUME c \in Req, Kind(c) = "login" PROVE Kind(c)' = "login"
      <3>1. pc[c] # "free"
        BY <2>1 DEF TypeOK, Kind, NoJob
      <3>2. QED
        BY <2>1, <3>1, SameRequest
    <2>2. QED
      BY <1>1, <2>1 DEF IsCode
  <1>2. ASSUME NEW c \in Id, ~code'[c].used
        PROVE  IsCode(c)
    <2>1. CASE ~code[c].used
      BY <2>1 DEF RenewsCodes
    <2>2. CASE code[c].used
      <3>1. PICK r \in Req : Step(r)
        BY <1>2, <2>2, Turn DEF vars, signin, Fail, Submit, Expire
      <3>2. CreateChallenge(r)
        BY <1>2, <2>2, <3>1, CodesAreSpent DEF UseOnly
      <3>3. Kind(r) = "login" /\ \E u : code' = [code EXCEPT ![r] = u]
        BY <3>2 DEF CreateChallenge, At
      <3>4. c = r
        BY <1>2, <2>2, <3>3 DEF TypeOK
      <3>5. QED
        BY <3>3, <3>4 DEF IsCode
    <2>3. QED
      BY <2>1, <2>2
  <1>3. ASSUME NEW r \in Req, Kind(r)' = "resend", pc'[r] = "send"
        PROVE  IsCode(On(r)) /\ On(r)' = On(r)
    <2>1. Kind(r) = "resend" /\ On(r)' = On(r) /\ (pc'[r] = pc[r] \/ (Step(r) /\ Edge(Kind(r), pc[r], pc'[r])))
      BY <1>3, ComesTo DEF Ended
    <2>2. CASE pc[r] = "send"
      BY <2>1, <2>2 DEF RenewsCodes
    <2>3. CASE pc[r] # "send"
      <3>1. pc[r] = "start" /\ Step(r)
        BY <1>3, <2>1, <2>3 DEF Edge
      <3>2. ~code[On(r)].used
        BY <1>3, <2>1, <3>1, ResendReads
      <3>3. On(r) \in Id
        BY <2>1, BearsAnId DEF OnARow
      <3>4. QED
        BY <2>1, <3>2, <3>3 DEF RenewsCodes
    <2>4. QED
      BY <2>2, <2>3
  <1>4. QED
    BY <1>1, <1>2, <1>3 DEF RenewsCodes, IsCode, Kind, On

\* Seats: unless requests that add overlap, or a member is reactivated, the count that was made holds.
LEMMA SeatsKeep ==
  ASSUME TypeOK, OnItsWay, Sequential, InviteInv, RenewsCodes, SeatInv, [Next]_vars
  PROVE  SeatInv'
  <1> DEFINE M == Cardinality(Members(Home))
             P == Cardinality(Pending)
             Alone == {"invite", "accept"}
  <1>1. SUFFICES ASSUME ~Together(Alone)', ~Reactivates'
                 PROVE  /\ M' + P' <= Seats
                        /\ \A q \in Req : Kind(q)' = "invite" /\ pc'[q] = "create" => M' + P' < Seats
                        /\ \A q \in Req : Kind(q)' = "accept" /\ pc'[q] = "join" =>
                              M' + Cardinality(Pending' \ {On(q)'}) < Seats
    BY DEF SeatInv, UsedSeats
  <1>2. ~Together(Alone) /\ ~Reactivates
    BY <1>1, StillTogether, StillReactivates
  <1>3. /\ M + P <= Seats
        /\ \A q \in Req : Kind(q) = "invite" /\ pc[q] = "create" => M + P < Seats
        /\ \A q \in Req : Kind(q) = "accept" /\ pc[q] = "join" => M + Cardinality(Pending \ {On(q)}) < Seats
    BY <1>2 DEF SeatInv, UsedSeats
  <1>4. /\ Members(Home) \in SUBSET Id /\ Pending \in SUBSET Id
        /\ Members(Home)' \in SUBSET Id /\ Pending' \in SUBSET Id
    BY DEF Members, Pending
  <1>5. /\ M \in Nat /\ P \in Nat /\ M' \in Nat /\ P' \in Nat /\ Seats \in Nat
        /\ \A x : Cardinality(Pending \ {x}) \in Nat /\ Cardinality(Pending' \ {x}) \in Nat
    BY <1>4, OneRow, AccountsAssumption
  <1>6. ASSUME Members(Home)' \subseteq Members(Home), Pending' \subseteq Pending
        PROVE  /\ M' + P' <= Seats
               /\ \A q \in Req : Kind(q)' = "invite" /\ pc'[q] = "create" => M' + P' < Seats
               /\ \A q \in Req : Kind(q)' = "accept" /\ pc'[q] = "join" =>
                     M' + Cardinality(Pending' \ {On(q)'}) < Seats
    <2>1. M' <= M /\ P' <= P
      BY <1>4, <1>6, Part
    <2>2. ASSUME NEW q \in Req, Kind(q)' = "invite", pc'[q] = "create"
          PROVE  M' + P' < Seats
      <3>1. Kind(q) = "invite" /\ (pc[q] = "create" \/ Step(q))
        BY <2>2, ComesTo DEF Ended
      <3>2. M + P < Seats
        BY <1>3, <2>2, <3>1, TeamReads DEF TeamKinds, UsedSeats
      <3>3. QED
        BY <1>5, <2>1, <3>2
    <2>3. ASSUME NEW q \in Req, Kind(q)' = "accept", pc'[q] = "join"
          PROVE  M' + Cardinality(Pending' \ {On(q)'}) < Seats
      <3>1. Kind(q) = "accept" /\ On(q)' = On(q) /\ (pc[q] = "join" \/ Step(q))
        BY <2>3, ComesTo DEF Ended
      <3>2. M + Cardinality(Pending \ {On(q)}) < Seats
        <4>1. CASE pc[q] = "join"
          BY <1>3, <3>1, <4>1
        <4>2. CASE Step(q) /\ pc[q] # "join"
          <5>1. inv[On(q)].status = "pending" /\ On(q) \notin expired /\ On(q) \in Id
            BY <2>3, <3>1, <4>2, TeamReads, BearsAnId DEF TeamKinds, OnARow
          <5>2. On(q) \in Pending
            BY <5>1 DEF Pending
          <5>3. Cardinality(Pending \ {On(q)}) \in Nat /\ Cardinality(Pending \ {On(q)}) + 1 = P
            BY <1>4, <5>2, OneRow
          <5>4. QED
            BY <1>3, <1>5, <5>3
        <4>3. QED
          BY <3>1, <4>1, <4>2
      <3>3. /\ Cardinality(Pending' \ {On(q)}) <= Cardinality(Pending \ {On(q)})
            /\ Cardinality(Pending' \ {On(q)}) \in Nat /\ Cardinality(Pending \ {On(q)}) \in Nat
        <4>1. Pending \ {On(q)} \in SUBSET Id /\ Pending' \ {On(q)} \in SUBSET (Pending \ {On(q)})
          BY <1>4, <1>6
        <4>2. QED
          BY <4>1, Part
      <3>4. M' + Cardinality(Pending' \ {On(q)}) < Seats
        BY <1>5, <2>1, <3>2, <3>3
      <3>5. QED
        BY <3>1, <3>4
    <2>4. QED
      BY <1>3, <1>5, <2>1, <2>2, <2>3
  <1>7. ASSUME NEW r \in Req, Step(r), Kind(r) \in Alone, pc[r] \in {"create", "join"},
               M' + P' <= Seats
        PROVE  /\ M' + P' <= Seats
               /\ \A q \in Req : Kind(q)' = "invite" /\ pc'[q] = "create" => M' + P' < Seats
               /\ \A q \in Req : Kind(q)' = "accept" /\ pc'[q] = "join" =>
                     M' + Cardinality(Pending' \ {On(q)'}) < Seats
    <2>1. PICK b : Moves(r, b)
      BY <1>7, StepMoves
    <2>2. pc'[r] = b /\ b \notin {"create", "join"}
      BY <1>7, <2>1, MoveFacts DEF Moves, Edge
    <2>3. \A q \in Req : Kind(q)' \in Alone => pc'[q] \notin {"create", "join"}
      BY <1>2, <1>7, <2>1, <2>2, OneAtATime DEF Ended
    <2>4. QED
      BY <1>7, <2>3
  <1>8. ASSUME NEW r \in Req, Step(r), ~(Members(Home)' \subseteq Members(Home))
        PROVE  Kind(r) \in Alone /\ pc[r] \in {"create", "join"} /\ M' + P' <= Seats
    <2>1. ~(Kind(r) = "setActive" /\ Opt(r) = "on")
      BY <1>2 DEF Reactivates
    <2>2. /\ Members(Home)' \subseteq Members(Home) \cup {r}
          /\ Kind(r) = "accept" /\ pc[r] = "join" /\ pc'[r] = "issue"
      BY <1>8, <2>1, MembersChange
    <2>3. M' <= M + 1
      <3>1. Members(Home) \cup {r} \in SUBSET Id
        BY <1>4 DEF Id
      <3>2. M' <= Cardinality(Members(Home) \cup {r})
        BY <2>2, <3>1, Part
      <3>3. Cardinality(Members(Home) \cup {r}) \in Nat /\ Cardinality(Members(Home) \cup {r}) <= M + 1
        BY <1>4, OneRow
      <3>4. QED
        BY <1>5, <3>2, <3>3
    <2>4. P' <= Cardinality(Pending \ {On(r)}) /\ Cardinality(Pending \ {On(r)}) \in Nat
      <3>1. Pending' \subseteq Pending \ {On(r)}
        BY <1>8, <2>2, PendingChange
      <3>2. Pending \ {On(r)} \in SUBSET Id
        BY <1>4
      <3>3. QED
        BY <3>1, <3>2, Part
    <2>5. M + Cardinality(Pending \ {On(r)}) < Seats
      BY <1>3, <2>2
    <2>6. M' + P' <= Seats
      BY <1>5, <2>3, <2>4, <2>5
    <2>7. QED
      BY <2>2, <2>6
  <1>9. ASSUME NEW r \in Req, Step(r), Members(Home)' \subseteq Members(Home), ~(Pending' \subseteq Pending)
        PROVE  Kind(r) \in Alone /\ pc[r] \in {"create", "join"} /\ M' + P' <= Seats
    <2>1. Pending' \subseteq Pending \cup {r} /\ Kind(r) = "invite" /\ pc[r] = "create"
      BY <1>9, PendingChange
    <2>2. M' <= M
      BY <1>4, <1>9, Part
    <2>3. P' <= P + 1
      <3>1. Pending \cup {r} \in SUBSET Id
        BY <1>4 DEF Id
      <3>2. P' <= Cardinality(Pending \cup {r})
        BY <2>1, <3>1, Part
      <3>3. Cardinality(Pending \cup {r}) \in Nat /\ Cardinality(Pending \cup {r}) <= P + 1
        BY <1>4, OneRow
      <3>4. QED
        BY <1>5, <3>2, <3>3
    <2>4. M + P < Seats
      BY <1>3, <2>1
    <2>5. M' + P' <= Seats
      BY <1>5, <2>2, <2>3, <2>4
    <2>6. QED
      BY <2>1, <2>5
  <1>10. CASE \E r \in Req : Step(r)
    BY <1>6, <1>7, <1>8, <1>9, <1>10
  <1>11. CASE ~\E r \in Req : Step(r)
    <2>1. user' = user /\ inv' = inv /\ expired \subseteq expired'
      BY <1>11, Turn DEF vars, rest, team, Fail, Submit, Expire
    <2>2. Members(Home)' \subseteq Members(Home) /\ Pending' \subseteq Pending
      BY <2>1 DEF Members, Pending
    <2>3. QED
      BY <1>6, <2>2
  <1>12. QED
    BY <1>10, <1>11

\* Keys: likewise.
LEMMA KeysKeep ==
  ASSUME TypeOK, OnItsWay, Sequential, KeyInv, [Next]_vars
  PROVE  KeyInv'
  <1> DEFINE K == Cardinality(LiveKeys)
  <1>1. SUFFICES ASSUME ~Together({"createKey"})'
                 PROVE  /\ K' <= KeyCap
                        /\ \A q \in Req : Kind(q)' = "createKey" /\ pc'[q] = "create" => K' < KeyCap
    BY DEF KeyInv
  <1>2. ~Together({"createKey"})
    BY <1>1, StillTogether
  <1>3. K <= KeyCap /\ \A q \in Req : Kind(q) = "createKey" /\ pc[q] = "create" => K < KeyCap
    BY <1>2 DEF KeyInv
  <1>4. LiveKeys \in SUBSET Id /\ LiveKeys' \in SUBSET Id
    BY DEF LiveKeys
  <1>5. K \in Nat /\ K' \in Nat /\ KeyCap \in Nat
    BY <1>4, OneRow, AccountsAssumption
  <1>6. ASSUME LiveKeys' \subseteq LiveKeys
        PROVE  /\ K' <= KeyCap
               /\ \A q \in Req : Kind(q)' = "createKey" /\ pc'[q] = "create" => K' < KeyCap
    <2>1. K' <= K
      BY <1>4, <1>6, Part
    <2>2. ASSUME NEW q \in Req, Kind(q)' = "createKey", pc'[q] = "create"
          PROVE  K' < KeyCap
      <3>1. Kind(q) = "createKey" /\ (pc[q] = "create" \/ Step(q))
        BY <2>2, ComesTo DEF Ended
      <3>2. K < KeyCap
        BY <1>3, <2>2, <3>1, TeamReads DEF TeamKinds
      <3>3. QED
        BY <1>5, <2>1, <3>2
    <2>3. QED
      BY <1>3, <1>5, <2>1, <2>2
  <1>7. ASSUME NEW r \in Req, KeyCreate(r)
        PROVE  /\ K' <= KeyCap
               /\ \A q \in Req : Kind(q)' = "createKey" /\ pc'[q] = "create" => K' < KeyCap
    <2>1. Kind(r) = "createKey" /\ pc[r] = "create" /\ key' = [key EXCEPT ![r] = "live"] /\ Step(r)
      BY <1>7 DEF KeyCreate, At, Step, Team
    <2>2. LiveKeys' \subseteq LiveKeys \cup {r}
      BY <2>1 DEF LiveKeys, TypeOK
    <2>3. K' <= K + 1
      <3>1. LiveKeys \cup {r} \in SUBSET Id
        BY <1>4 DEF Id
      <3>2. K' <= Cardinality(LiveKeys \cup {r})
        BY <2>2, <3>1, Part
      <3>3. Cardinality(LiveKeys \cup {r}) \in Nat /\ Cardinality(LiveKeys \cup {r}) <= K + 1
        BY <1>4, OneRow
      <3>4. QED
        BY <1>5, <3>2, <3>3
    <2>4. K' <= KeyCap
      BY <1>3, <1>5, <2>1, <2>3
    <2>5. PICK b : Moves(r, b)
      BY <2>1, StepMoves
    <2>6. pc'[r] = b /\ b # "create"
      BY <2>1, <2>5, MoveFacts DEF Moves, Edge
    <2>7. \A q \in Req : Kind(q)' = "createKey" => pc'[q] # "create"
      BY <1>2, <2>1, <2>5, <2>6, OneAtATime DEF Ended
    <2>8. QED
      BY <2>4, <2>7
  <1>8. CASE \E r \in Req : Step(r) /\ ~KeyCreate(r)
    <2>1. PICK r \in Req : Step(r) /\ ~KeyCreate(r)
      BY <1>8
    <2>2. CASE KeyRevoke(r)
      <3>1. key' = key \/ key' = [key EXCEPT ![On(r)] = "revoked"]
        BY <2>2 DEF KeyRevoke, Reject, team
      <3>2. LiveKeys' \subseteq LiveKeys
        BY <3>1 DEF LiveKeys, TypeOK
      <3>3. QED
        BY <1>6, <3>2
    <2>3. CASE ~KeyRevoke(r)
      <3>1. LiveKeys' = LiveKeys
        BY <2>1, <2>3, TeamAlone DEF LiveKeys
      <3>2. QED
        BY <1>6, <3>1
    <2>4. QED
      BY <2>2, <2>3
  <1>9. CASE ~\E r \in Req : Step(r)
    <2>1. LiveKeys' = LiveKeys
      BY <1>9, Turn DEF vars, team, Fail, Submit, Expire, LiveKeys
    <2>2. QED
      BY <1>6, <2>1
  <1>10. QED
    BY <1>7, <1>8, <1>9

\* Owners: unless changes of them overlap, one stays when another steps down or is deactivated.
LEMMA OwnersKeep ==
  ASSUME TypeOK, OnItsWay, Sequential, ActiveInv, OwnerInv, [Next]_vars
  PROVE  OwnerInv'
  <1> DEFINE Changes == {"updateRole", "setActive"}
             O == Owners(Home)
  <1>1. ASSUME NEW q \in Req, Kind(q)' \in Changes, pc'[q] \in {"count", "write"}
        PROVE  /\ Kind(q) \in Changes /\ On(q)' = On(q) /\ Opt(q)' = Opt(q) /\ On(q) \in Id
               /\ pc'[q] = pc[q] \/ (Step(q) /\ Edge(Kind(q), pc[q], pc'[q]))
    BY <1>1, ComesTo, BearsAnId DEF Ended, OnARow
  <1>2. ASSUME NEW q \in Req, Kind(q)' \in Changes, pc'[q] \in {"count", "write"}
        PROVE  user'[On(q)'].role # "none"
    <2>1. Exists(On(q))
      <3>1. CASE pc[q] \in {"count", "write"}
        BY <1>1, <1>2, <3>1 DEF OwnerInv
      <3>2. CASE pc[q] \notin {"count", "write"}
        <4>1. Step(q) /\ Edge(Kind(q), pc[q], pc'[q])
          BY <1>1, <1>2, <3>2
        <4>2. pc[q] = "start"
          BY <1>1, <1>2, <3>2, <4>1 DEF Edge
        <4>3. QED
          BY <1>1, <1>2, <4>1, <4>2, TeamReads DEF TeamKinds
      <3>3. QED
        BY <3>1, <3>2
    <2>2. QED
      BY <1>1, <1>2, <2>1, StillExists DEF Exists
  <1>3. ASSUME ~Together(Changes)'
        PROVE  /\ O' # {}
               /\ \A q \in Req : /\ Kind(q)' \in Changes /\ pc'[q] = "write"
                                 /\ Opt(q)' \in {"agent", "off"} /\ On(q)' \in O'
                                 => O' \ {On(q)'} # {}
    <2>1. ~Together(Changes)
      BY <1>3, StillTogether
    <2>2. /\ O # {}
          /\ \A q \in Req : /\ Kind(q) \in Changes /\ pc[q] = "write"
                            /\ Opt(q) \in {"agent", "off"} /\ On(q) \in O
                            => O \ {On(q)} # {}
      BY <2>1 DEF OwnerInv
    <2>3. ASSUME O \subseteq O'
          PROVE  /\ O' # {}
                 /\ \A q \in Req : /\ Kind(q)' \in Changes /\ pc'[q] = "write"
                                   /\ Opt(q)' \in {"agent", "off"} /\ On(q)' \in O'
                                   => O' \ {On(q)'} # {}
      <3>1. ASSUME NEW q \in Req, Kind(q)' \in Changes, pc'[q] = "write", Opt(q)' \in {"agent", "off"}
            PROVE  O' \ {On(q)'} # {}
        <4>1. Kind(q) \in Changes /\ On(q)' = On(q) /\ Opt(q) \in {"agent", "off"} /\ (pc[q] = "write" \/ Step(q))
          BY <1>1, <3>1
        <4>2. O \ {On(q)} # {}
          <5>1. CASE On(q) \notin O
            BY <2>2, <5>1
          <5>2. CASE On(q) \in O /\ pc[q] = "write"
            BY <2>2, <4>1, <5>2
          <5>3. CASE On(q) \in O /\ Step(q)
            <6>1. Unseats(q)
              BY <4>1, <5>3 DEF Owners, Unseats
            <6>2. ~(Cardinality(O) <= 1)
              BY <3>1, <4>1, <5>3, <6>1, TeamReads DEF TeamKinds
            <6>3. ~\A x, y \in O : x = y
              BY <6>2, AtMostOne
            <6>4. QED
              BY <6>3
          <5>4. QED
            BY <4>1, <5>1, <5>2, <5>3
        <4>3. QED
          BY <2>3, <4>1, <4>2
      <3>2. QED
        BY <2>2, <2>3, <3>1
    <2>4. CASE \E r \in Req : Step(r) /\ ~(O \subseteq O')
      <3>1. PICK r \in Req : Step(r) /\ ~(O \subseteq O')
        BY <2>4
      <3>2. PICK u \in O : u \notin O'
        BY <3>1
      <3>3. /\ u = On(r) /\ Kind(r) \in Changes /\ pc[r] = "write" /\ Opt(r) \in {"agent", "off"}
        BY <3>1, <3>2, OwnersChange
      <3>4. O \ {On(r)} \subseteq O'
        BY <3>1, OwnersChange
      <3>5. O \ {On(r)} # {}
        BY <2>2, <3>2, <3>3
      <3>6. PICK b : Moves(r, b)
        BY <3>1, StepMoves
      <3>7. pc'[r] = b /\ b # "write"
        BY <3>3, <3>6, MoveFacts DEF Moves, Edge
      <3>8. \A q \in Req : Kind(q)' \in Changes => pc'[q] # "write"
        BY <2>1, <3>3, <3>6, <3>7, OneAtATime DEF Ended
      <3>9. QED
        BY <3>4, <3>5, <3>8
    <2>5. CASE ~\E r \in Req : Step(r)
      <3>1. user' = user
        BY <2>5, Turn DEF vars, Fail, Submit, Expire
      <3>2. O = O'
        BY <3>1 DEF Owners, Members
      <3>3. QED
        BY <2>3, <3>2
    <2>6. QED
      BY <2>3, <2>4, <2>5
  <1>4. QED
    BY <1>2, <1>3 DEF OwnerInv, Exists

\* What is said of the team is inductive.
LEMMA TeamKeeps ==
  ASSUME TypeOK, OnItsWay, Sequential, ActiveInv, TeamInv, [Next]_vars
  PROVE  TeamInv'
  <1>1. InviteInv /\ RenewsCodes /\ SeatInv /\ KeyInv /\ OwnerInv
    BY DEF TeamInv
  <1>2. InviteInv' /\ RenewsCodes' /\ SeatInv'
    BY <1>1, InvitesKeep, RenewalsKeep, SeatsKeep
  <1>3. KeyInv' /\ OwnerInv'
    BY <1>1, KeysKeep, OwnersKeep
  <1>4. QED
    BY <1>2, <1>3 DEF TeamInv

-----------------------------------------------------------------------------
(* Theorems *)

\* What is there at the start fits the plan, and both accounts are owners.
LEMMA InitTeamInv ==
  ASSUME Init
  PROVE  TeamInv
  <1>1. \A r \in Req : pc[r] = "free" /\ Kind(r) = "none" /\ r \notin Old
    BY AccountsAssumption DEF Init, Kind, NoJob
  <1>2. Req \subseteq Id /\ Old \subseteq Id
    BY DEF Id
  <1>3. \A i \in Id : inv[i].status = IF i = Invite THEN "pending" ELSE "none"
    BY DEF Init, NoInvite
  <1>4. \A r \in Req : ~Exists(r)
    BY <1>1, <1>2 DEF Init, Exists, NoUser, Old
  <1>5. InviteInv
    BY <1>1, <1>3, <1>4 DEF InviteInv, Joined
  <1>6. RenewsCodes
    <2>1. \A c \in Id : ~code[c].used => c = Challenge
      BY DEF Init, NoCode
    <2>2. QED
      BY <1>1, <2>1 DEF RenewsCodes, IsCode
  <1>7. SeatInv
    <2>1. Members(Home) \subseteq {Owner} \cup {Partner}
      BY DEF Members, Init, NoUser
    <2>2. Pending \subseteq {Invite}
      BY <1>3 DEF Pending
    <2>3. Cardinality(Members(Home)) \in Nat /\ Cardinality(Members(Home)) <= 2
      <3>1. {Owner} \cup {Partner} \in SUBSET Id /\ {Owner} \in SUBSET Id
        BY <1>2 DEF Old
      <3>2. Cardinality({Owner}) = 1
        BY FS_Singleton
      <3>3. /\ Cardinality({Owner} \cup {Partner}) \in Nat
            /\ Cardinality({Owner} \cup {Partner}) <= Cardinality({Owner}) + 1
        BY <3>1, OneRow
      <3>4. /\ Cardinality(Members(Home)) \in Nat
            /\ Cardinality(Members(Home)) <= Cardinality({Owner} \cup {Partner})
        BY <2>1, <3>1, Part
      <3>5. QED
        BY <3>2, <3>3, <3>4
    <2>4. Cardinality(Pending) \in Nat /\ Cardinality(Pending) <= 1
      <3>1. {Invite} \in SUBSET Id /\ Cardinality({Invite}) = 1
        BY <1>2, FS_Singleton DEF Old
      <3>2. QED
        BY <2>2, <3>1, Part
    <2>5. Cardinality(Members(Home)) + Cardinality(Pending) <= Seats
      BY <2>3, <2>4, AccountsAssumption
    <2>6. QED
      BY <1>1, <2>5 DEF SeatInv, UsedSeats
  <1>8. KeyInv
    <2>1. LiveKeys \subseteq {Device} /\ {Device} \in SUBSET Id
      BY <1>2 DEF LiveKeys, Init, Old
    <2>2. Cardinality({Device}) = 1
      BY FS_Singleton
    <2>3. Cardinality(LiveKeys) \in Nat /\ Cardinality(LiveKeys) <= 1
      BY <2>1, <2>2, Part
    <2>4. QED
      BY <1>1, <2>3, AccountsAssumption DEF KeyInv
  <1>9. OwnerInv
    <2>1. Owner \in Owners(Home)
      BY <1>2 DEF Init, Owners, Members, Account, Old
    <2>2. QED
      BY <1>1, <2>1 DEF OwnerInv
  <1>10. QED
    BY <1>5, <1>6, <1>7, <1>8, <1>9 DEF TeamInv

\* The state at the start satisfies the invariant.
LEMMA InitAccountsInv ==
  ASSUME Init
  PROVE  AccountsInv
  <1>1. /\ pc = [r \in Req |-> "free"] /\ job = [r \in Req |-> NoJob] /\ got = [r \in Req |-> {}]
        /\ met = {} /\ expired = {} /\ faults = 0 /\ live = {Session}
    BY DEF Init
  <1>2. \A r \in Req : pc[r] = "free" /\ Kind(r) = "none" /\ got[r] = {} /\ r \notin Old
    BY <1>1, AccountsAssumption DEF Kind, NoJob
  <1>3. Old \subseteq Id /\ Req \subseteq Id /\ None \notin Id
    BY AccountsAssumption DEF Id
  <1>4. /\ holder = [i \in Id |-> IF i = Session THEN Owner ELSE None]
        /\ row = [i \in Id |-> IF i = Session THEN "live" ELSE "none"]
        /\ Session \in Id /\ Owner \in Id /\ Session \notin Req /\ Owner \notin Req
    BY <1>2, <1>3 DEF Init, Old
  <1>5. \A r \in Req : r # Owner /\ r # Partner /\ r # Session /\ r # Challenge /\ r # Confirm /\ r # Reset
    BY <1>2 DEF Old
  <1>6. \A r \in Req : user[r] = NoUser /\ code[r] = NoCode /\ link[r] = NoLink
    BY <1>3, <1>5 DEF Init
  <1>7. TypeOK
    <2>1. ControlType
      BY <1>1 DEF ControlType
    <2>2. user \in [Id -> UserRow]
      <3>1. \A i \in {Owner, Partner} : Account(i) \in UserRow
        BY DEF Account, UserRow, Emails, Roles
      <3>2. NoUser \in UserRow
        BY DEF NoUser, UserRow
      <3>3. user = [i \in Id |-> IF i \in {Owner, Partner} THEN Account(i) ELSE NoUser]
        BY DEF Init
      <3>4. QED
        BY <3>1, <3>2, <3>3
    <2>3. code \in [Id -> CodeRow]
      <3>1. /\ 0 \in 0..MaxAttempts
            /\ code = [i \in Id |-> IF i = Challenge
                                    THEN [user |-> Owner, attempts |-> 0, used |-> FALSE, mailed |-> TRUE]
                                    ELSE NoCode]
        BY AccountsAssumption DEF Init
      <3>2. [user |-> Owner, attempts |-> 0, used |-> FALSE, mailed |-> TRUE] \in CodeRow
        BY <1>4, <3>1 DEF CodeRow
      <3>3. NoCode \in CodeRow
        BY <3>1 DEF CodeRow, NoCode
      <3>4. QED
        BY <3>1, <3>2, <3>3
    <2>4. link \in [Id -> LinkRow]
      <3>1. \A kind \in {"verify", "reset"} : [kind |-> kind, user |-> Owner, used |-> FALSE] \in LinkRow
        BY <1>4 DEF LinkRow
      <3>2. NoLink \in LinkRow
        BY DEF NoLink, LinkRow
      <3>3. link = [i \in Id |-> IF i \in {Confirm, Reset}
                                 THEN [kind |-> IF i = Confirm THEN "verify" ELSE "reset",
                                       user |-> Owner, used |-> FALSE]
                                 ELSE NoLink]
        BY DEF Init
      <3>4. QED
        BY <3>1, <3>2, <3>3
    <2>5. inv \in [Id -> InviteRow]
      <3>1. [email |-> Newcomer, role |-> "agent", status |-> "pending"] \in InviteRow /\ NoInvite \in InviteRow
        BY DEF InviteRow, NoInvite, Emails, Roles
      <3>2. inv = [i \in Id |-> IF i = Invite
                                THEN [email |-> Newcomer, role |-> "agent", status |-> "pending"]
                                ELSE NoInvite]
        BY DEF Init
      <3>3. QED
        BY <3>1, <3>2
    <2>6. /\ got \in [Req -> SUBSET Id] /\ live \subseteq Id /\ expired \subseteq Id
          /\ holder \in [Id -> Id \cup {None}] /\ row \in [Id -> {"none", "live", "revoked"}]
      BY <1>1, <1>4
    <2>7. device \in [Id -> Id \cup {None}] /\ key \in [Id -> {"none", "live", "revoked"}]
      BY <1>4 DEF Init
    <2>8. faults \in 0..MaxFaults
      BY <1>1, AccountsAssumption
    <2>9. QED
      BY <2>1, <2>2, <2>3, <2>4, <2>5, <2>6, <2>7, <2>8, TypeParts DEF DataType
  <1>8. OnItsWay /\ Sequential /\ OneAccount
    BY <1>2 DEF OnItsWay, Sequential, OneAccount
  <1>9. CodeInv
    <2>1. \A c \in Id : ~code[c].used => code[c].user \in Id
      BY <1>4 DEF Init, NoCode
    <2>2. QED
      BY <1>2, <1>6, <2>1 DEF CodeInv, NoCode, Consumed
  <1>10. LinkInv
    <2>1. \A l \in Id : ~link[l].used => link[l].kind # "none" /\ link[l].user \in Id
      BY <1>4 DEF Init, NoLink
    <2>2. \A k, l \in Id : k # l /\ ~link[k].used /\ Open(l, link[k].kind, link[k].user) => {k, l} \in met
      BY DEF Init, NoLink, Open
    <2>3. QED
      BY <1>2, <1>6, <2>1, <2>2 DEF LinkInv, NoLink
  <1>11. TokensAreIssued
    BY <1>1, <1>3, <1>4 DEF TokensAreIssued
  <1>12. TakenForGood /\ RefreshedOnce
    BY <1>2 DEF TakenForGood, RefreshedOnce, HasTaken
  <1>13. SignOutInv
    BY <1>1, <1>2, <1>4 DEF SignOutInv, SignsOutAll
  <1>14. ActiveInv
    BY <1>2, <1>6 DEF ActiveInv, Exists, NoUser, Deactivated
  <1>15. QED
    BY <1>7, <1>8, <1>9, <1>10, <1>11, <1>12, <1>13, <1>14, InitTeamInv DEF AccountsInv

\* The invariant holds in every reachable state, for any numbers of requests, attempts, seats, faults
\* and expiries, and any set of requests that may arrive.
THEOREM InvariantHolds == Spec => []AccountsInv
  <1>1. Init => AccountsInv
    BY InitAccountsInv
  <1>2. AccountsInv /\ [Next]_vars => AccountsInv'
    <2>1. SUFFICES ASSUME AccountsInv, [Next]_vars PROVE AccountsInv'
      OBVIOUS
    <2>2. /\ TypeOK /\ OnItsWay /\ Sequential /\ OneAccount
          /\ CodeInv /\ LinkInv
          /\ TokensAreIssued /\ TakenForGood /\ RefreshedOnce /\ SignOutInv
          /\ ActiveInv /\ TeamInv
      BY <2>1 DEF AccountsInv
    <2>3. TypeOK' /\ OnItsWay' /\ Sequential'
      <3>1. ControlType' /\ OnItsWay' /\ Sequential'
        BY <2>1, <2>2, ControlKeeps
      <3>2. DataType'
        BY <2>1, DataKeeps
      <3>3. TypeOK'
        BY <3>1, <3>2, AllSteps DEF TypeOK, ControlType, DataType
      <3>4. QED
        BY <3>1, <3>3
    <2>4. OneAccount' /\ CodeInv' /\ LinkInv'
      BY <2>1, <2>2, OneAccountKeeps, CodesKeep, LinksKeep
    <2>5. TokensAreIssued' /\ TakenForGood' /\ RefreshedOnce'
      BY <2>1, <2>2, TokensKeep, TakenKeeps, RefreshesKeep
    <2>6. SignOutInv' /\ ActiveInv' /\ TeamInv'
      BY <2>1, <2>2, SignOutKeeps, ActiveKeeps, TeamKeeps
    <2>7. QED
      BY <2>3, <2>4, <2>5, <2>6 DEF AccountsInv
  <1>3. QED
    BY <1>1, <1>2, PTL DEF Spec

\* Every variable keeps its type.
THEOREM TypeCorrect == Spec => []TypeOK
  <1>1. AccountsInv => TypeOK
    BY DEF AccountsInv
  <1>2. QED
    BY <1>1, InvariantHolds, PTL

\* A sign-in code opens one session at most and takes no more guesses than the limit; two links of
\* a kind and an account are open together only if their requests overlapped, and a finished reset
\* leaves no older reset link open.
THEOREM SecretsWorkOnce == Spec => []SecretsHold
  <1>1. AccountsInv => SecretsHold
    <2>1. SUFFICES ASSUME AccountsInv PROVE SecretsHold
      OBVIOUS
    <2>2. CodesHold
      <3>1. ASSUME NEW c \in Id
            PROVE  /\ code[c].attempts <= MaxAttempts
                   /\ Cardinality({r \in Req : Kind(r) = "verify" /\ On(r) = c
                                      /\ pc[r] \in {"others", "issue", "record", "remember", "done"}}) <= 1
        <4>1. code[c].attempts \in 0..MaxAttempts
          BY <2>1, <3>1 DEF AccountsInv, TypeOK, CodeRow
        <4>2. code[c].attempts <= MaxAttempts
          BY <4>1, AccountsAssumption
        <4>3. CodeInv
          BY <2>1 DEF AccountsInv
        <4>4. \A r, q \in {p \in Req : Kind(p) = "verify" /\ On(p) = c
                                       /\ pc[p] \in {"others", "issue", "record", "remember", "done"}} : r = q
          BY <4>3 DEF CodeInv, Consumed
        <4>5. QED
          BY <4>2, <4>4, AtMostOne
      <3>2. QED
        BY <3>1 DEF CodesHold
    <2>3. NewestLinkOnly
      <3>1. LinkInv
        BY <2>1 DEF AccountsInv
      <3>2. QED
        BY <3>1 DEF LinkInv, NewestLinkOnly, Open
    <2>4. QED
      BY <2>2, <2>3 DEF SecretsHold
  <1>2. QED
    BY <1>1, InvariantHolds, PTL

\* A refresh token is exchanged once, but for exchanges that overlapped; nobody whose account is
\* deactivated gets a token from a request that began afterwards.
THEOREM RotationIsKept == Spec => []RotationHolds
  <1>1. AccountsInv => RotationHolds
    <2>1. SUFFICES ASSUME AccountsInv PROVE RotationHolds
      OBVIOUS
    <2>2. RefreshedOnce /\ ActiveInv
      BY <2>1 DEF AccountsInv
    <2>3. ASSUME NEW a \in Req, NEW b \in Req, a # b, Kind(a) = "refresh", Kind(b) = "refresh", On(a) = On(b),
                 pc[a] = "done", pc[b] = "done"
          PROVE  {a, b} \in met
      <3>1. a < b => {a, b} \in met
        BY <2>2, <2>3 DEF RefreshedOnce, Rewinds
      <3>2. b < a => {b, a} \in met
        BY <2>2, <2>3 DEF RefreshedOnce, Rewinds
      <3>3. {a, b} = {b, a} /\ (a < b \/ b < a)
        BY <2>3 DEF Req
      <3>4. QED
        BY <3>1, <3>2, <3>3
    <2>4. ASSUME NEW t \in live \cap Req, NEW q \in Req, Kind(q) = "setActive", Opt(q) = "off", pc[q] = "done",
                 On(q) = holder[t], q < t, {q, t} \notin met
          PROVE  Reactivates
      BY <2>2, <2>4 DEF ActiveInv, Deactivated
    <2>5. QED
      BY <2>3, <2>4 DEF RotationHolds, Reactivates
  <1>2. QED
    BY <1>1, InvariantHolds, PTL

\* The only tokens that outlive a finished sign-out are those whose request overlapped that sign-out
\* or an earlier one.
THEOREM SignOutReachesAll == Spec => []SignedOutEverywhere
  <1>1. AccountsInv => SignedOutEverywhere
    <2>1. SUFFICES ASSUME AccountsInv, NEW r \in Req, NEW t \in Id, Outlives(t, r)
                   PROVE  row[t] = "revoked" /\ \E q \in Req : SignsOutAll(q) /\ {t, q} \in met
      BY DEF SignedOutEverywhere
    <2>2. TypeOK /\ TokensAreIssued /\ SignOutInv
      BY <2>1 DEF AccountsInv
    <2>3. /\ t \in live /\ (t = Session \/ (t \in Req /\ pc[t] = "done"))
          /\ pc[r] = "done" /\ SignsOutAll(r) /\ holder[t] = SignsOut(r)
          /\ t = Session \/ (t < r /\ {t, r} \notin met)
      BY <2>1 DEF Outlives, Handed
    <2>4. Session \notin Req
      BY AccountsAssumption DEF Old
    <2>5. Before(t, r)
      BY <2>3, <2>4 DEF Before
    <2>6. row[t] # "live"
      BY <2>2, <2>3, <2>5 DEF SignOutInv
    <2>7. row[t] # "none"
      BY <2>2, <2>3 DEF TokensAreIssued
    <2>8. row[t] = "revoked"
      BY <2>2, <2>6, <2>7 DEF TypeOK
    <2>9. QED
      BY <2>2, <2>3, <2>8 DEF SignOutInv
  <1>2. QED
    BY <1>1, InvariantHolds, PTL

\* Members, open invitations and keys stay within the plan unless requests that add some overlapped
\* or a member was reactivated; an active owner stays unless changes of the owners overlapped; and
\* a revoked invitation lets nobody in unless the revocation and the acceptance overlapped.
THEOREM TeamIsKept == Spec => []TeamHolds
  <1>1. AccountsInv => TeamHolds
    <2>1. SUFFICES ASSUME AccountsInv PROVE TeamHolds
      OBVIOUS
    <2>2. InviteInv /\ SeatInv /\ KeyInv /\ OwnerInv
      BY <2>1 DEF AccountsInv, TeamInv
    <2>3. UsedSeats(TRUE) > Seats => Together({"invite", "accept"}) \/ Reactivates
      BY <2>2, CountsAreNumbers DEF SeatInv, UsedSeats
    <2>4. Cardinality(LiveKeys) > KeyCap => Together({"createKey"})
      BY <2>2, CountsAreNumbers DEF KeyInv
    <2>5. Owners(Home) = {} => Together({"updateRole", "setActive"})
      BY <2>2 DEF OwnerInv
    <2>6. \A i \in Id, r \in Req :
             Exists(r) /\ Kind(r) = "accept" /\ On(r) = i /\ inv[i].status = "revoked"
             => Together({"accept", "revokeInvite"})
      BY <2>2 DEF InviteInv, Joined
    <2>7. QED
      BY <2>3, <2>4, <2>5, <2>6 DEF TeamHolds, LiveKeys, Reactivates
  <1>2. QED
    BY <1>1, InvariantHolds, PTL

=============================================================================
