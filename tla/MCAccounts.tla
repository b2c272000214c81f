----------------------------- MODULE MCAccounts -----------------------------
(* Small instances: the operations each of the server's two slots may serve. *)
EXTENDS BrowserSession

Ops(person, admin) == [c \in Slot |-> IF c = "c1" THEN person ELSE admin]
Roles == [admins |-> "ADMIN"]
TwoGrants == {{"view"}, {"modify"}}

Invitation == [seed |-> FALSE, ops |->
    Ops({"invitePassword", "inviteTotp", "inviteEnable"}, {"create", "resend", "update", "remove"})]
TwoFactor == [seed |-> TRUE, ops |->
    Ops({"login", "verifyTotp", "setupTotp", "enableTotp", "disableTotp"}, {"resetTotp"})]
Sessions == [seed |-> TRUE, ops |->
    Ops({"login", "refresh", "logout", "changePassword"}, {"wrongPassword", "refresh", "remove"})]
Profiles == [seed |-> TRUE, ops |-> Ops({"profile", "update"}, {"update", "remove"})]

Browser == [seed |-> TRUE, ops |-> Ops({"login", "tab"}, {"changePassword"})]

All == {Invitation, TwoFactor, Sessions, Profiles, Browser}
=============================================================================
