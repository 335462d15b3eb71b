------------------------------ MODULE MCAccounts ------------------------------
(* One organisation of two owners with one of each row, and three requests of any kinds. *)
EXTENDS Accounts

J(kind, on, opt) == [kind |-> kind, on |-> on, opt |-> opt]

Deactivate == J("setActive", Owner, "off")
Sessions ==
    {J("login", Owner, Device), J("refresh", Session, None), J("logoutAll", Owner, None),
     J("revokeSession", Session, None), J("resetPassword", Reset, None), Deactivate}
Rotation == {J("refresh", Session, None), J("logout", Session, None), J("logoutAll", Owner, None)}
Codes ==
    {J("login", Owner, None), J("resend", Challenge, None), J("verify", Challenge, "remember"),
     J("verify", Challenge, "wrong")}
MailedLinks ==
    {J("register", Newcomer, None), J("sendVerification", Owner, None), J("verifyEmail", Confirm, None),
     J("forgotPassword", Owner, None), J("resetPassword", Reset, None)}
Joining ==
    {J("invite", Newcomer, "agent"), J("invite", Guest, "agent"), J("revokeInvite", Invite, None),
     J("accept", Invite, None)}
Staff == {J("updateRole", Owner, "agent"), J("setActive", Partner, "off"), J("setActive", Partner, "on"),
          J("invite", Guest, "agent")}
Keys == {J("createKey", Home, None), J("revokeKey", Device, None)}
MCAreas == {Sessions, Rotation, Codes, MailedLinks, Joining, Staff, Keys}
=============================================================================
