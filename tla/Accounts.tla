------------------------------- MODULE Accounts -------------------------------
(***************************************************************************)
(* Accounts of the API (apps/api): registration, the two-step sign-in,     *)
(* refresh-token rotation, signing out, e-mail verification, password      *)
(* reset, invitations and seats, roles, and API keys.                      *)
(*                                                                         *)
(* Every request is a process that walks through its handler; a step ends  *)
(* where the handler awaits Postgres or Redis and something other requests *)
(* write could change.  A row that request r creates carries r as its id.  *)
(***************************************************************************)
EXTENDS Naturals, FiniteSets

CONSTANTS
    Owner, Partner,     \* the accounts of organisation Home at the start, both owners
    Session,            \* Owner's refresh token
    Challenge,          \* Owner's pending sign-in code, mailed
    Confirm, Reset,     \* Owner's unused verification and reset links
    Invite,             \* a pending invitation of Newcomer to Home
    Device,             \* Owner's trusted device
    Newcomer, Guest,    \* e-mail addresses without an account
    Home, None,
    Areas,              \* sets of requests [kind, on, opt]: those that arrive come from one of them
    MaxReq,             \* bound: requests
    MaxAttempts,        \* LOGIN_OTP_MAX_ATTEMPTS
    Seats,              \* the plan's seats
    KeyCap,             \* MAX_ACTIVE_KEYS_PER_ORG
    MaxFaults,          \* bound: awaits that throw
    MaxExpired          \* bound: codes, links and invitations that run out

VARIABLES
    job,        \* job[r]: what request r asks for
    pc,         \* pc[r]: where its handler is
    got,        \* got[r]: what the handler read and still uses
    user,       \* User rows
    live,       \* refresh_token:<id> keys in Redis
    holder,     \* the user each of them names
    row,        \* UserSession rows
    code,       \* LoginOtpChallenge rows
    device,     \* TrustedDevice rows: the user of each
    link,       \* EmailVerificationToken and PasswordResetToken rows
    inv,        \* Invitation rows
    key,        \* ApiKey rows
    expired,    \* codes, links and invitations past their expiresAt
    met,        \* history: pairs of requests that were in flight together
    faults

tokens == <<live, holder, row>>
signin == <<code, device>>
team == <<inv, key>>
rest == <<met, expired, faults>>
vars == <<job, pc, got, user, tokens, signin, link, team, rest>>

Req == 1..MaxReq
Jobs == UNION Areas
Emails == {Owner, Partner, Newcomer, Guest}
Roles == {"agent", "owner"}
Old == {Owner, Partner, Session, Challenge, Confirm, Reset, Invite, Device}
Id == Old \cup Req

\* What a request may ask for: an address, or the row whose id (or token) it bears.
ByEmail == {"register", "login", "invite"}
OnARow == {"resend", "verify", "refresh", "logout", "revokeSession", "logoutAll", "sendVerification",
           "verifyEmail", "forgotPassword", "resetPassword", "revokeInvite", "accept", "updateRole",
           "setActive", "revokeKey"}
Kinds == ByEmail \cup OnARow \cup {"createKey"}

ASSUME AccountsAssumption ==
    /\ MaxReq \in Nat /\ MaxAttempts \in Nat \ {0} /\ MaxFaults \in Nat /\ MaxExpired \in Nat
    /\ Seats \in Nat /\ Seats >= 3 /\ KeyCap \in Nat \ {0}    \* what is there at the start fits
    /\ Old \cap Req = {} /\ None \notin Id /\ Home \notin Req /\ Challenge # Invite
    /\ \A j \in Jobs :
        /\ j.kind \in Kinds
        /\ j.kind \in ByEmail => j.on \in Emails
        /\ j.kind \in OnARow => j.on \in Id
        /\ j.kind \in {"invite", "updateRole"} => j.opt \in Roles
        /\ j.kind = "setActive" => j.opt \in {"on", "off"}

InFlight == {r \in Req : pc[r] \notin {"free", "done", "rejected", "failed"}}
Kind(r) == job[r].kind
On(r) == job[r].on
Opt(r) == job[r].opt

NoJob == [kind |-> "none", on |-> None, opt |-> None]
NoUser == [email |-> None, org |-> None, role |-> "none", active |-> FALSE,
           verified |-> FALSE, pw |-> None]
NoCode == [user |-> None, attempts |-> 0, used |-> TRUE, mailed |-> FALSE]
NoLink == [kind |-> "none", user |-> None, used |-> TRUE]
NoInvite == [email |-> None, role |-> "none", status |-> "none"]

Exists(u) == user[u].role # "none"
Members(org) == {u \in Id : user[u].org = org /\ user[u].active}
Owners(org) == {u \in Members(org) : user[u].role = "owner"}
Pending == {i \in Id : inv[i].status = "pending" /\ i \notin expired}

-----------------------------------------------------------------------------
(* State *)

UserRow == [email : Emails \cup {None}, org : {Home, None} \cup Req, role : {"none"} \cup Roles,
            active : BOOLEAN, verified : BOOLEAN, pw : Req \cup {None}]
CodeRow == [user : Id \cup {None}, attempts : 0..MaxAttempts, used : BOOLEAN, mailed : BOOLEAN]
LinkRow == [kind : {"none", "verify", "reset"}, user : Id \cup {None}, used : BOOLEAN]
InviteRow == [email : Emails \cup {None}, role : {"none"} \cup Roles,
              status : {"none", "pending", "accepted", "revoked", "expired"}]

\* The type invariant.
TypeOK ==
    /\ pc \in [Req -> {"free", "start", "create", "challenge", "mail", "issue", "record", "remember",
                       "reserve", "consume", "others", "send", "drop", "retire", "mark", "user", "wipe",
                       "retireAll", "signout", "clear", "new", "apply", "seats", "expire", "join",
                       "count", "write", "done", "rejected", "failed"}]
    /\ job \in [Req -> Jobs \cup {NoJob}]
    /\ \A r \in Req : (pc[r] = "free") = (job[r] = NoJob)
    /\ got \in [Req -> SUBSET Id]
    /\ user \in [Id -> UserRow]
    /\ live \subseteq Id /\ holder \in [Id -> Id \cup {None}]
    /\ row \in [Id -> {"none", "live", "revoked"}]
    /\ code \in [Id -> CodeRow] /\ device \in [Id -> Id \cup {None}]
    /\ link \in [Id -> LinkRow] /\ inv \in [Id -> InviteRow]
    /\ key \in [Id -> {"none", "live", "revoked"}]
    /\ expired \subseteq Id /\ faults \in 0..MaxFaults

Account(u) == [email |-> u, org |-> Home, role |-> "owner", active |-> TRUE,
               verified |-> FALSE, pw |-> None]

Init ==
    /\ job = [r \in Req |-> NoJob]
    /\ pc = [r \in Req |-> "free"]
    /\ got = [r \in Req |-> {}]
    /\ user = [i \in Id |-> IF i \in {Owner, Partner} THEN Account(i) ELSE NoUser]
    /\ live = {Session}
    /\ holder = [i \in Id |-> IF i = Session THEN Owner ELSE None]
    /\ row = [i \in Id |-> IF i = Session THEN "live" ELSE "none"]
    /\ code = [i \in Id |-> IF i = Challenge
                            THEN [user |-> Owner, attempts |-> 0, used |-> FALSE, mailed |-> TRUE]
                            ELSE NoCode]
    /\ device = [i \in Id |-> IF i = Device THEN Owner ELSE None]
    /\ link = [i \in Id |-> IF i \in {Confirm, Reset}
                            THEN [kind |-> IF i = Confirm THEN "verify" ELSE "reset",
                                  user |-> Owner, used |-> FALSE]
                            ELSE NoLink]
    /\ inv = [i \in Id |-> IF i = Invite
                           THEN [email |-> Newcomer, role |-> "agent", status |-> "pending"]
                           ELSE NoInvite]
    /\ key = [i \in Id |-> IF i = Device THEN "live" ELSE "none"]
    /\ expired = {} /\ met = {} /\ faults = 0

-----------------------------------------------------------------------------
(* Requests *)

At(r, kind, step) == pc[r] = step /\ Kind(r) = kind
Go(r, step) == pc' = [pc EXCEPT ![r] = step]

\* A request arrives; requests are numbered in the order of their arrival.  Only who was
\* answered with a refresh token can send it.
Submit(r, j) ==
    /\ pc[r] = "free" /\ \A q \in Req : q < r => pc[q] # "free"
    /\ j.kind \in {"refresh", "logout"} /\ j.on \in Req => pc[j.on] = "done"
    /\ \E area \in Areas : j \in area /\ \A q \in Req : q < r => job[q] \in area
    /\ job' = [job EXCEPT ![r] = j]
    /\ Go(r, "start")
    /\ met' = met \cup {{r, q} : q \in InFlight}
    /\ UNCHANGED <<got, user, tokens, signin, link, team, expired, faults>>

\* A handler that gives up, having written nothing in this step.
Reject(r) ==
    /\ Go(r, "rejected")
    /\ UNCHANGED <<job, got, user, tokens, signin, link, team, rest>>

\* The handler goes on, having read but written nothing.
Read(r, step, what) ==
    /\ Go(r, step)
    /\ got' = [got EXCEPT ![r] = what]
    /\ UNCHANGED <<job, user, tokens, signin, link, team, rest>>

\* An await throws.  logout answers all the same, and so do the requests that mail a link
\* once they have found the account.
Fail(r) ==
    /\ r \in InFlight /\ faults < MaxFaults
    /\ Go(r, IF \/ Kind(r) = "logout"
                \/ Kind(r) \in {"register", "sendVerification", "forgotPassword"} /\ pc[r] \in {"clear", "new"}
             THEN "done" ELSE "failed")
    /\ faults' = faults + 1
    /\ UNCHANGED <<job, got, user, tokens, signin, link, team, met, expired>>

\* Time runs out under a request that uses what expires.
Expire(i) ==
    /\ i \notin expired /\ Cardinality(expired) < MaxExpired
    /\ \E r \in InFlight : On(r) = i \/ Kind(r) = "invite"
    /\ ~code[i].used \/ ~link[i].used \/ inv[i].status = "pending"
    /\ expired' = expired \cup {i}
    /\ UNCHANGED <<job, pc, got, user, tokens, signin, link, team, met, faults>>

-----------------------------------------------------------------------------
(* Token pairs and registration *)

\* issueTokenPair: the Redis key first, then the session row.
Issue(r) ==
    \E u \in got[r] :
        /\ pc[r] = "issue"
        /\ live' = live \cup {r}
        /\ holder' = [holder EXCEPT ![r] = u]
        /\ Go(r, "record")
        /\ UNCHANGED <<job, got, user, row, signin, link, team, rest>>

Record(r) ==
    /\ pc[r] = "record"
    /\ row' = [row EXCEPT ![r] = "live"]
    /\ Go(r, IF Kind(r) = "register" THEN "clear"
             ELSE IF Kind(r) = "verify" /\ Opt(r) = "remember" THEN "remember" ELSE "done")
    /\ UNCHANGED <<job, got, user, live, holder, signin, link, team, rest>>

RegisterCheck(r) ==
    /\ At(r, "register", "start")
    /\ IF \E u \in Id : user[u].email = On(r) THEN Reject(r) ELSE Read(r, "create", {})

RegisterCreate(r) ==
    /\ At(r, "register", "create")
    /\ user' = [user EXCEPT ![r] = [Account(On(r)) EXCEPT !.org = r, !.pw = r]]
    /\ got' = [got EXCEPT ![r] = {r}]
    /\ Go(r, "issue")
    /\ UNCHANGED <<job, tokens, signin, link, team, rest>>

-----------------------------------------------------------------------------
(* Sign-in: the password, then a trusted device or a mailed code *)

Login(r) ==
    /\ At(r, "login", "start")
    /\ \/ /\ \A u \in Id : user[u].email # On(r)
          /\ Reject(r)
       \/ \E u \in {v \in Id : user[v].email = On(r)} :
            IF ~user[u].active \/ user[u].pw # None THEN Reject(r)
            ELSE Read(r, IF Opt(r) \in Id /\ device[Opt(r)] = u THEN "issue" ELSE "challenge", {u})

CreateChallenge(r) ==
    \E u \in got[r] :
        /\ At(r, "login", "challenge")
        /\ code' = [code EXCEPT ![r] = [user |-> u, attempts |-> 0, used |-> FALSE, mailed |-> FALSE]]
        /\ Go(r, "mail")
        /\ UNCHANGED <<job, got, user, tokens, device, link, team, rest>>

\* The code arrives: the one a sign-in stored under r, or a resend under the challenge.
MailCode(r) ==
    /\ pc[r] = "mail" /\ Kind(r) \in {"login", "resend"}
    /\ code' = [code EXCEPT ![IF Kind(r) = "login" THEN r ELSE On(r)].mailed = TRUE]
    /\ Go(r, "done")
    /\ UNCHANGED <<job, got, user, tokens, device, link, team, rest>>

CodeOpen(c) == ~code[c].used /\ c \notin expired

\* The cooldown may or may not be over.
ResendRead(r) ==
    /\ At(r, "resend", "start")
    /\ \/ CodeOpen(On(r)) /\ user[code[On(r)].user].active /\ Read(r, "send", {})
       \/ Reject(r)

ResendStore(r) ==
    /\ At(r, "resend", "send")
    /\ code' = [code EXCEPT ![On(r)] = [@ EXCEPT !.attempts = 0, !.mailed = FALSE]]
    /\ expired' = expired \ {On(r)}
    /\ Go(r, "mail")
    /\ UNCHANGED <<job, got, user, tokens, device, link, team, met, faults>>

\* The visitor types the code last mailed, or a wrong one; what it is compared with is the hash
\* read here, before the guess is reserved.
VerifyRead(r) ==
    /\ At(r, "verify", "start")
    /\ IF CodeOpen(On(r)) /\ code[On(r)].attempts < MaxAttempts
       THEN Read(r, "reserve", IF Opt(r) # "wrong" /\ code[On(r)].mailed THEN {code[On(r)].user} ELSE {})
       ELSE Reject(r)

\* What a read-then-increment would do.
ReserveUnchecked(r) ==
    /\ At(r, "verify", "reserve")
    /\ IF code[On(r)].used THEN Reject(r)
       ELSE /\ code' = [code EXCEPT ![On(r)].attempts = @ + 1]
            /\ Go(r, IF got[r] = {} THEN "rejected" ELSE "consume")
            /\ UNCHANGED <<job, got, user, tokens, device, link, team, rest>>
Reserve(r) ==
    /\ At(r, "verify", "reserve")
    /\ IF code[On(r)].used \/ code[On(r)].attempts >= MaxAttempts THEN Reject(r)
       ELSE /\ code' = [code EXCEPT ![On(r)].attempts = @ + 1]
            /\ Go(r, IF got[r] = {} THEN "rejected" ELSE "consume")
            /\ UNCHANGED <<job, got, user, tokens, device, link, team, rest>>

Consume(r) ==
    \E u \in got[r] :
        /\ At(r, "verify", "consume")
        /\ IF ~user[u].active \/ code[On(r)].used THEN Reject(r)
           ELSE /\ code' = [code EXCEPT ![On(r)].used = TRUE]
                /\ Go(r, "others")
                /\ UNCHANGED <<job, got, user, tokens, device, link, team, rest>>

ConsumeOthers(r) ==
    /\ At(r, "verify", "others")
    /\ code' = [c \in Id |-> IF code[c].user \in got[r] THEN [code[c] EXCEPT !.used = TRUE] ELSE code[c]]
    /\ Go(r, "issue")
    /\ UNCHANGED <<job, got, user, tokens, device, link, team, rest>>

Remember(r) ==
    \E u \in got[r] :
        /\ At(r, "verify", "remember")
        /\ device' = [device EXCEPT ![r] = u]
        /\ Go(r, "done")
        /\ UNCHANGED <<job, got, user, tokens, code, link, team, rest>>

-----------------------------------------------------------------------------
(* Rotation and signing out *)

RefreshGet(r) ==
    /\ At(r, "refresh", "start")
    /\ IF On(r) \in live THEN Read(r, "drop", {holder[On(r)]}) ELSE Reject(r)

DropTokenLate(r) ==
    /\ pc[r] = "drop" \/ At(r, "logout", "start")
    /\ Go(r, IF Kind(r) = "revokeSession" THEN "mark" ELSE "retire")
    /\ UNCHANGED <<job, got, user, tokens, signin, link, team, rest>>
DropToken(r) ==
    /\ pc[r] = "drop" \/ At(r, "logout", "start")
    /\ live' = live \ {On(r)}
    /\ Go(r, IF Kind(r) = "revokeSession" THEN "mark" ELSE "retire")
    /\ UNCHANGED <<job, got, user, holder, row, signin, link, team, rest>>

RetireRow(r) ==
    /\ pc[r] = "retire"
    /\ row' = [row EXCEPT ![On(r)] = IF @ = "live" THEN "revoked" ELSE @]
    /\ Go(r, IF Kind(r) = "refresh" THEN "user" ELSE "done")
    /\ UNCHANGED <<job, got, user, live, holder, signin, link, team, rest>>

RefreshUser(r) ==
    /\ At(r, "refresh", "user")
    /\ IF \A u \in got[r] : user[u].active THEN Read(r, "issue", got[r]) ELSE Reject(r)

RevokeRead(r) ==
    /\ At(r, "revokeSession", "start")
    /\ IF row[On(r)] # "none" THEN Read(r, "drop", {}) ELSE Reject(r)

RevokeMark(r) ==
    /\ At(r, "revokeSession", "mark")
    /\ row' = [row EXCEPT ![On(r)] = "revoked"]
    /\ Go(r, "done")
    /\ UNCHANGED <<job, got, user, live, holder, signin, link, team, rest>>

\* logoutAll, which resetPassword also calls.
SignsOut(r) == IF Kind(r) = "logoutAll" THEN On(r) ELSE link[On(r)].user
Rows(u) == {t \in Id : holder[t] = u /\ row[t] = "live"}

ListRows(r) ==
    /\ At(r, "logoutAll", "start") \/ pc[r] = "signout"
    /\ Read(r, "wipe", Rows(SignsOut(r)))

WipeNothing(r) ==
    /\ pc[r] = "wipe"
    /\ Go(r, "retireAll")
    /\ UNCHANGED <<job, got, user, tokens, signin, link, team, rest>>
Wipe(r) ==
    /\ pc[r] = "wipe"
    /\ live' = live \ got[r]
    /\ Go(r, "retireAll")
    /\ UNCHANGED <<job, got, user, holder, row, signin, link, team, rest>>

RetireAll(r) ==
    /\ pc[r] = "retireAll"
    /\ row' = [t \in Id |-> IF t \in Rows(SignsOut(r)) THEN "revoked" ELSE row[t]]
    /\ Go(r, "done")
    /\ UNCHANGED <<job, got, user, live, holder, signin, link, team, rest>>

-----------------------------------------------------------------------------
(* Verification and reset links *)

LinkOpen(l) == ~link[l].used /\ l \notin expired
LinkKind(r) == IF Kind(r) = "forgotPassword" THEN "reset" ELSE "verify"
Spent(kind, u) ==
    [l \in Id |-> IF link[l].kind = kind /\ link[l].user = u THEN [link[l] EXCEPT !.used = TRUE] ELSE link[l]]

RequestVerification(r) ==
    /\ At(r, "sendVerification", "start")
    /\ IF Exists(On(r)) /\ ~user[On(r)].verified THEN Read(r, "clear", {On(r)}) ELSE Read(r, "done", {})

ForgotPassword(r) ==
    /\ At(r, "forgotPassword", "start")
    /\ IF Exists(On(r)) /\ user[On(r)].active THEN Read(r, "clear", {On(r)}) ELSE Read(r, "done", {})

ClearLinks(r) ==
    \E u \in got[r] :
        /\ pc[r] = "clear"
        /\ link' = Spent(LinkKind(r), u)
        /\ Go(r, "new")
        /\ UNCHANGED <<job, got, user, tokens, signin, team, rest>>

\* The link is stored, then mailed: an e-mail that fails changes neither state nor answer.
NewLink(r) ==
    \E u \in got[r] :
        /\ pc[r] = "new"
        /\ link' = [link EXCEPT ![r] = [kind |-> LinkKind(r), user |-> u, used |-> FALSE]]
        /\ Go(r, "done")
        /\ UNCHANGED <<job, got, user, tokens, signin, team, rest>>

VerifyEmailRead(r) ==
    /\ At(r, "verifyEmail", "start")
    /\ IF LinkOpen(On(r)) THEN Read(r, "apply", {}) ELSE Reject(r)

VerifyEmail(r) ==
    /\ At(r, "verifyEmail", "apply")
    /\ link' = [link EXCEPT ![On(r)].used = TRUE]
    /\ user' = [user EXCEPT ![link[On(r)].user].verified = TRUE]
    /\ Go(r, "done")
    /\ UNCHANGED <<job, got, tokens, signin, team, rest>>

ResetRead(r) ==
    /\ At(r, "resetPassword", "start")
    /\ IF LinkOpen(On(r)) /\ user[link[On(r)].user].active THEN Read(r, "apply", {}) ELSE Reject(r)

ResetPassword(r) ==
    /\ At(r, "resetPassword", "apply")
    /\ IF link[On(r)].used THEN Reject(r)
       ELSE /\ link' = Spent("reset", link[On(r)].user)
            /\ user' = [user EXCEPT ![link[On(r)].user].pw = r]
            /\ Go(r, "signout")
            /\ UNCHANGED <<job, got, tokens, signin, team, rest>>

-----------------------------------------------------------------------------
(* Invitations and seats *)

UsedSeats(withPending) == Cardinality(Members(Home)) + (IF withPending THEN Cardinality(Pending) ELSE 0)

IsMember(email) == \E u \in Id : user[u].org = Home /\ user[u].email = email

\* A member or an open invitation stops it; an invitation that ran out is marked so.
InviteCheck(r) ==
    /\ At(r, "invite", "start")
    /\ LET waiting == {i \in Id : inv[i].status = "pending" /\ inv[i].email = On(r)} IN
       \/ IsMember(On(r)) /\ Reject(r)
       \/ ~IsMember(On(r)) /\ waiting = {} /\ Read(r, "seats", {})
       \/ /\ ~IsMember(On(r))
          /\ \E i \in waiting :
                IF i \notin expired THEN Reject(r)
                ELSE /\ inv' = [inv EXCEPT ![i].status = "expired"]
                     /\ Go(r, "seats")
                     /\ UNCHANGED <<job, got, user, tokens, signin, link, key, rest>>

CountsMembersOnly(r) ==
    /\ At(r, "invite", "seats")
    /\ IF UsedSeats(FALSE) >= Seats THEN Reject(r) ELSE Read(r, "create", {})
InviteSeats(r) ==
    /\ At(r, "invite", "seats")
    /\ IF UsedSeats(TRUE) >= Seats THEN Reject(r) ELSE Read(r, "create", {})

InviteCreate(r) ==
    /\ At(r, "invite", "create")
    /\ inv' = [inv EXCEPT ![r] = [email |-> On(r), role |-> Opt(r), status |-> "pending"]]
    /\ Go(r, "mail")
    /\ UNCHANGED <<job, got, user, tokens, signin, link, key, rest>>

InviteMail(r) == At(r, "invite", "mail") /\ Read(r, "done", {})

RevokeInviteRead(r) ==
    /\ At(r, "revokeInvite", "start")
    /\ IF inv[On(r)].status = "pending" THEN Read(r, "write", {}) ELSE Reject(r)

RevokeInvite(r) ==
    /\ At(r, "revokeInvite", "write")
    /\ inv' = [inv EXCEPT ![On(r)].status = "revoked"]
    /\ Go(r, "done")
    /\ UNCHANGED <<job, got, user, tokens, signin, link, key, rest>>

\* The last of the reads before the password is hashed; the unique e-mail decides again below.
AcceptCheck(r) ==
    /\ At(r, "accept", "start")
    /\ IF inv[On(r)].status # "pending" THEN Reject(r)
       ELSE IF On(r) \in expired THEN Read(r, "expire", {})
       ELSE IF IsMember(inv[On(r)].email) \/ UsedSeats(FALSE) >= Seats THEN Reject(r)
       ELSE Read(r, "join", {})

AcceptExpired(r) ==
    /\ At(r, "accept", "expire")
    /\ inv' = [inv EXCEPT ![On(r)].status = "expired"]
    /\ Go(r, "rejected")
    /\ UNCHANGED <<job, got, user, tokens, signin, link, key, rest>>

AcceptJoin(r) ==
    /\ At(r, "accept", "join")
    /\ IF IsMember(inv[On(r)].email) THEN Reject(r)
       ELSE /\ user' = [user EXCEPT ![r] = [Account(inv[On(r)].email) EXCEPT !.role = inv[On(r)].role, !.pw = r]]
            /\ inv' = [inv EXCEPT ![On(r)].status = "accepted"]
            /\ got' = [got EXCEPT ![r] = {r}]
            /\ Go(r, "issue")
            /\ UNCHANGED <<job, tokens, signin, link, key, rest>>

-----------------------------------------------------------------------------
(* Roles, deactivation and API keys *)

Unseats(r) == user[On(r)].role = "owner" /\ Opt(r) \in {"agent", "off"}

TargetRead(r) ==
    /\ pc[r] = "start" /\ Kind(r) \in {"updateRole", "setActive"}
    /\ IF ~Exists(On(r)) THEN Reject(r) ELSE Read(r, IF Unseats(r) THEN "count" ELSE "write", {})

AssertNotLastOwner(r) ==
    /\ pc[r] = "count"
    /\ IF Cardinality(Owners(Home)) <= 1 THEN Reject(r) ELSE Read(r, "write", {})

UpdateRole(r) ==
    /\ At(r, "updateRole", "write")
    /\ user' = [user EXCEPT ![On(r)].role = Opt(r)]
    /\ Go(r, "done")
    /\ UNCHANGED <<job, got, tokens, signin, link, team, rest>>

SetActive(r) ==
    /\ At(r, "setActive", "write")
    /\ user' = [user EXCEPT ![On(r)].active = (Opt(r) = "on")]
    /\ Go(r, "done")
    /\ UNCHANGED <<job, got, tokens, signin, link, team, rest>>

KeyCount(r) ==
    /\ At(r, "createKey", "start")
    /\ IF Cardinality({k \in Id : key[k] = "live"}) >= KeyCap THEN Reject(r) ELSE Read(r, "create", {})

KeyCreate(r) ==
    /\ At(r, "createKey", "create")
    /\ key' = [key EXCEPT ![r] = "live"]
    /\ Go(r, "done")
    /\ UNCHANGED <<job, got, user, tokens, signin, link, inv, rest>>

KeyRevoke(r) ==
    /\ At(r, "revokeKey", "start")
    /\ IF key[On(r)] = "none" THEN Reject(r)
       ELSE /\ key' = [key EXCEPT ![On(r)] = "revoked"]
            /\ Go(r, "done")
            /\ UNCHANGED <<job, got, user, tokens, signin, link, inv, rest>>

-----------------------------------------------------------------------------
(* Specification *)

Register(r) == RegisterCheck(r) \/ RegisterCreate(r)
SignIn(r) == Login(r) \/ CreateChallenge(r) \/ MailCode(r) \/ ResendRead(r) \/ ResendStore(r)
VerifyLoginOtp(r) == VerifyRead(r) \/ Reserve(r) \/ Consume(r) \/ ConsumeOthers(r) \/ Remember(r)
Refresh(r) == RefreshGet(r) \/ DropToken(r) \/ RetireRow(r) \/ RefreshUser(r)
SignOut(r) == RevokeRead(r) \/ RevokeMark(r) \/ ListRows(r) \/ Wipe(r) \/ RetireAll(r)
Links(r) ==
    \/ RequestVerification(r) \/ ForgotPassword(r) \/ ClearLinks(r) \/ NewLink(r)
    \/ VerifyEmailRead(r) \/ VerifyEmail(r) \/ ResetRead(r) \/ ResetPassword(r)
Invitations(r) ==
    \/ InviteCheck(r) \/ InviteSeats(r) \/ InviteCreate(r) \/ InviteMail(r)
    \/ RevokeInviteRead(r) \/ RevokeInvite(r) \/ AcceptCheck(r) \/ AcceptExpired(r) \/ AcceptJoin(r)
Team(r) ==
    \/ TargetRead(r) \/ AssertNotLastOwner(r) \/ UpdateRole(r) \/ SetActive(r)
    \/ KeyCount(r) \/ KeyCreate(r) \/ KeyRevoke(r)

Step(r) ==
    \/ Issue(r) \/ Record(r) \/ Register(r) \/ SignIn(r) \/ VerifyLoginOtp(r)
    \/ Refresh(r) \/ SignOut(r) \/ Links(r) \/ Invitations(r) \/ Team(r)

Next ==
    \/ \E r \in Req : Step(r) \/ Fail(r) \/ \E j \in Jobs : Submit(r, j)
    \/ \E i \in Id : Expire(i)

Spec == Init /\ [][Next]_vars

-----------------------------------------------------------------------------
(* Properties *)

Together(kinds) == \E a, b \in Req : {a, b} \in met /\ a # b /\ Kind(a) \in kinds /\ Kind(b) \in kinds
Handed == {t \in Id : t = Session \/ (t \in Req /\ pc[t] = "done")}

\* "Logout everywhere" and "All existing sessions are revoked after a successful password reset"
\* (auth.service.ts): once such a request is answered, no refresh token of the account works that
\* had been handed out before it began.
SignsOutAll(r) == Kind(r) \in {"logoutAll", "resetPassword"}
Outlives(t, r) ==
    /\ t \in live \cap Handed /\ pc[r] = "done" /\ SignsOutAll(r) /\ holder[t] = SignsOut(r)
    /\ t = Session \/ (t < r /\ {t, r} \notin met)
LogoutIsEverywhere == \A r \in Req, t \in Id : ~Outlives(t, r)

\* The only tokens a finished sign-out leaves behind are those whose sign-in overlapped it or an
\* earlier sign-out, which marked their rows revoked while they stayed in Redis.
SignedOutEverywhere ==
    \A r \in Req, t \in Id : Outlives(t, r) =>
        row[t] = "revoked" /\ \E q \in Req : SignsOutAll(q) /\ {t, q} \in met

\* A sign-in code opens one session at most, and takes no more guesses than the limit,
\* however many submissions arrive at the same moment.
CodesHold ==
    \A c \in Id :
        /\ code[c].attempts <= MaxAttempts
        /\ Cardinality({r \in Req : Kind(r) = "verify" /\ On(r) = c
                                    /\ pc[r] \in {"others", "issue", "record", "remember", "done"}}) <= 1

\* A refresh token is exchanged once: a second exchange of it can only have overlapped the first.
\* And nobody whose account is deactivated gets a token from a request that began afterwards.
RotationHolds ==
    /\ \A a, b \in Req :
        /\ a # b /\ Kind(a) = "refresh" /\ Kind(b) = "refresh" /\ On(a) = On(b)
        /\ pc[a] = "done" /\ pc[b] = "done"
        => {a, b} \in met
    /\ \A t \in live \cap Req, q \in Req :
        /\ Kind(q) = "setActive" /\ Opt(q) = "off" /\ pc[q] = "done"
        /\ On(q) = holder[t] /\ q < t /\ {q, t} \notin met
        => \E p \in Req : Kind(p) = "setActive" /\ Opt(p) = "on"

\* Members and open invitations stay within the plan's seats, unless two requests that add some
\* overlapped or a member was reactivated (which counts nothing); likewise the API keys. An
\* organisation keeps an active owner, and a revoked invitation lets nobody in, unless two changes
\* of its owners, or the revocation and the acceptance, overlapped.
TeamHolds ==
    /\ UsedSeats(TRUE) > Seats =>
        \/ Together({"invite", "accept"})
        \/ \E r \in Req : Kind(r) = "setActive" /\ Opt(r) = "on"
    /\ Cardinality({k \in Id : key[k] = "live"}) > KeyCap => Together({"createKey"})
    /\ Owners(Home) = {} => Together({"updateRole", "setActive"})
    /\ \A i \in Id, r \in Req :
        Exists(r) /\ Kind(r) = "accept" /\ On(r) = i /\ inv[i].status = "revoked"
        => Together({"accept", "revokeInvite"})

\* Only the newest link of a kind works, unless the requests that mailed the two overlapped; and
\* a finished reset leaves no older reset link open.
NewestLinkOnly ==
    /\ \A k, l \in Id :
        /\ k # l /\ ~link[k].used /\ ~link[l].used
        /\ link[k].kind = link[l].kind /\ link[k].user = link[l].user
        => {k, l} \in met
    /\ \A r \in Req :
        pc[r] = "done" /\ Kind(r) = "resetPassword" =>
            \A l \in Id : ~link[l].used /\ link[l].kind = "reset" /\ link[l].user = SignsOut(r)
                          => l \in Req /\ (l > r \/ {l, r} \in met)

\* What is sent to an e-mail address works once: codes and links, however many arrive at the same
\* moment (auth.service).
SecretsHold == CodesHold /\ NewestLinkOnly

\* "every organization must have at least one active owner" (users.service.ts).
EveryOrgHasAnOwner == Owners(Home) # {}

=============================================================================
