------------------------------ MODULE Accounts ------------------------------
(* The accounts of the console: sign-in, sessions, two-factor codes,        *)
(* invitations, profiles and the role derived from them.                    *)
(*                                                                          *)
(* A request reads the rows it needs, decides, and then writes them one     *)
(* await at a time.  A call is therefore one action that reads and tests    *)
(* (the operation's own), leaving the list of its writes, and one Write per *)
(* awaited statement.  The writes carry the values computed when the rows   *)
(* were read, as they do in the code.  A request the code refuses changes   *)
(* nothing and is no step.                                                  *)
EXTENDS Naturals, Sequences

CONSTANTS
    User,           \* e-mail addresses
    SeedUser,       \* the one ADMIN_EMAIL names
    Profile,        \* profile rows
    SystemRole,     \* the roles of those the seed creates
    Grants,         \* the sets of rights an operator may tick
    Secret,         \* authenticator secrets
    Code,           \* backup codes
    Slot,           \* requests the server can have in hand at once
    MaxTokens, MaxInvites, MaxFailed, MaxRestarts,
    Workloads       \* operations each slot may serve, and whether ADMIN_PASSWORD is set

None == "none"
Role == {"VIEWER", "OPERATOR", "ADMIN"}
Right == {"view", "modify", "manage"}
Invite == 1..MaxInvites
Session == 1..MaxTokens
SystemProfile == DOMAIN SystemRole
NoRow == [present |-> FALSE]

Operation == {"login", "wrongPassword", "verifyTotp", "refresh", "logout", "setupTotp", "enableTotp",
              "disableTotp", "changePassword", "invitePassword", "inviteTotp",
              "inviteEnable", "create", "update", "resend", "resetTotp", "remove",
              "profile", "tab"}

ASSUME AccountsAssumption ==
    /\ SeedUser \in User
    /\ SystemRole \in [SystemProfile -> Role] /\ SystemProfile \subseteq Profile
    /\ \E p \in SystemProfile : SystemRole[p] = "ADMIN"
    /\ Grants \subseteq SUBSET Right
    /\ None \notin Secret \cup User
    /\ {MaxTokens, MaxInvites, MaxRestarts} \subseteq Nat /\ MaxFailed \in Nat \ {0}
    /\ Workloads \subseteq [ops: [Slot -> SUBSET Operation], seed: BOOLEAN]

VARIABLES
    user,      \* the row of each address, or NoRow
    profile,   \* the row of each profile, or NoRow
    session,   \* the refresh tokens that are neither revoked nor expired
    held,      \* what the person of each account holds: links, tokens, secret
    issued,    \* number of invitations and of refresh tokens drawn so far
    call,      \* the request in each slot
    crossed,   \* what two calls in hand at once both wrote, or a restart
               \* left half written
    restarts,
    workload

accountVars == <<user, profile, session, held, issued, call, crossed, restarts, workload>>

-----------------------------------------------------------------------------
(* Rows *)

\* modify and delete imply view; the legacy role follows from the rights.
Normalised(g) == IF g \cap {"modify", "manage"} # {} THEN g \cup {"view"} ELSE g

DeriveRole(g) ==
    IF "manage" \in g THEN "ADMIN" ELSE IF "modify" \in g THEN "OPERATOR" ELSE "VIEWER"

ProfileRow(g, system, role) ==
    [present |-> TRUE, isSystem |-> system, baseRole |-> role, permissions |-> Normalised(g)]

SystemRow(p) ==
    LET role == SystemRole[p] IN
    ProfileRow(CASE role = "ADMIN" -> Right
                 [] role = "OPERATOR" -> {"view", "modify"}
                 [] OTHER -> {"view"}, TRUE, role)

NewUser(p, role) ==
    [present |-> TRUE, isActive |-> TRUE, passwordHash |-> FALSE, totpSecret |-> None,
     totpEnabled |-> FALSE, totpBackupCodes |-> {}, failedLoginCount |-> 0,
     locked |-> FALSE, inviteTokenHash |-> 0, inviteLive |-> FALSE,
     role |-> role, profileId |-> p]

\* ensureAdminUser(): an absent administrator is created, with the password.
Seeded(rows) ==
    IF rows[SeedUser].present THEN rows
    ELSE [rows EXCEPT ![SeedUser] =
            [NewUser(CHOOSE p \in SystemProfile : SystemRole[p] = "ADMIN", "ADMIN")
                EXCEPT !.passwordHash = TRUE]]

NothingHeld == [links |-> {}, setups |-> {}, pending |-> FALSE, access |-> FALSE, app |-> None]

NoCall == [op |-> None, user |-> None, todo |-> <<>>, result |-> 0]

Init ==
    /\ workload \in Workloads
    /\ user = LET none == [u \in User |-> NoRow] IN IF workload.seed THEN Seeded(none) ELSE none
    /\ profile = [p \in Profile |-> IF p \in SystemProfile THEN SystemRow(p) ELSE NoRow]
    /\ session = [s \in Session |-> NoRow]
    /\ held = [u \in User |-> NothingHeld]
    /\ issued = [invites |-> 0, tokens |-> 0]
    /\ call = [c \in Slot |-> NoCall]
    /\ crossed = {}
    /\ restarts = 0

-----------------------------------------------------------------------------
(* Calls *)

\* What each operation writes that another may have read.
Touches(op) ==
    CASE op \in {"refresh", "tab"} -> {"rotation"}
      [] op \in {"setupTotp", "enableTotp", "disableTotp", "resetTotp",
                 "inviteTotp", "inviteEnable"} -> {"totp"}
      [] op \in {"create", "update", "profile"} -> {"role"}
      [] OTHER -> {}

Ready(c, op) == call[c] = NoCall /\ op \in workload.ops[c]

InHand(c) == call[c] # NoCall

Begin(c, op, u, todo) ==
    /\ call' = [call EXCEPT ![c] = [op |-> op, user |-> u, todo |-> todo, result |-> 0]]
    /\ crossed' = crossed \cup UNION {Touches(op) \cap Touches(call[d].op) :
                                        d \in {x \in Slot \ {c} : InHand(x)}}

Reads == UNCHANGED <<user, profile, session, held, restarts, workload>>
ReadsOnly == Reads /\ UNCHANGED issued

\* The statements a call awaits.
Set(columns)      == [write |-> "user", columns |-> columns]
Give(field, what) == [write |-> "give", field |-> field, what |-> what]
Issue(s, origin)  == [write |-> "issue", token |-> s, origin |-> origin]
Other(kind, what) == [write |-> kind, what |-> what]

ResetCount == Set([failedLoginCount |-> 0, locked |-> FALSE])

\* A random token, new each time; that of a sign-in is its own origin.
NewToken == issued.tokens + 1
DrawsToken ==
    Reads /\ issued.tokens < MaxTokens /\ issued' = [issued EXCEPT !.tokens = NewToken]

IssueTokens(origin) == <<Issue(NewToken, origin), ResetCount>>

NewInvite == issued.invites + 1
DrawsInvite ==
    Reads /\ issued.invites < MaxInvites /\ issued' = [issued EXCEPT !.invites = NewInvite]

IssueInvite ==
    <<Set([inviteTokenHash |-> NewInvite, inviteLive |-> TRUE]), Give("links", NewInvite)>>

-----------------------------------------------------------------------------
(* Sign-in and sessions *)

CountFailure(row) ==
    LET n == IF row.failedLoginCount < MaxFailed THEN row.failedLoginCount + 1 ELSE MaxFailed
    IN Set([failedLoginCount |-> n, locked |-> n >= MaxFailed])

MayLogIn(u) ==
    user[u].present /\ user[u].isActive /\ ~user[u].locked /\ user[u].passwordHash

WrongPassword(c) ==
    \E u \in User :
        /\ Ready(c, "wrongPassword") /\ MayLogIn(u)
        /\ Begin(c, "wrongPassword", u, <<CountFailure(user[u])>>)
        /\ ReadsOnly

Login(c) ==
    \E u \in User :
        /\ Ready(c, "login") /\ MayLogIn(u)
        /\ \/ /\ user[u].totpEnabled
              /\ Begin(c, "login", u, <<Give("pending", TRUE)>>) /\ ReadsOnly
           \/ /\ ~user[u].totpEnabled
              /\ Begin(c, "login", u, IssueTokens(NewToken)) /\ DrawsToken

\* A code of the authenticator, or a backup code, which is then taken off.
VerifyTotp(c) ==
    \E u \in User :
        /\ Ready(c, "verifyTotp") /\ held[u].pending /\ user[u].present
        /\ user[u].totpSecret # None
        /\ \/ /\ held[u].app = user[u].totpSecret
              /\ Begin(c, "verifyTotp", u, IssueTokens(NewToken))
           \/ \E k \in user[u].totpBackupCodes :
                Begin(c, "verifyTotp", u,
                      <<Set([totpBackupCodes |-> user[u].totpBackupCodes \ {k}])>>
                          \o IssueTokens(NewToken))
        /\ DrawsToken

Refreshable(s) == session[s].present /\ user[session[s].user].isActive

\* Mutant: the new token first, then the old one is revoked.
RefreshTokenIssuesFirst(c, s) ==
    /\ Refreshable(s)
    /\ Begin(c, "refresh", session[s].user,
             IssueTokens(session[s].origin) \o <<Other("revoke", {s})>>)
    /\ DrawsToken

\* Rotation: the token presented is revoked, then another one is issued.
RefreshToken(c, s) ==
    /\ Refreshable(s)
    /\ Begin(c, "refresh", session[s].user,
             <<Other("revoke", {s})>> \o IssueTokens(session[s].origin))
    /\ DrawsToken

Refresh(c) == \E s \in Session : Ready(c, "refresh") /\ RefreshToken(c, s)

\* The guard of the calls below: an access token, read back from the row.
Authenticated(u) == held[u].access /\ user[u].present /\ user[u].isActive

Logout(c) ==
    \E s \in Session :
        /\ Ready(c, "logout") /\ session[s].present /\ Authenticated(session[s].user)
        /\ Begin(c, "logout", session[s].user, <<Other("revoke", {s})>>)
        /\ ReadsOnly

-----------------------------------------------------------------------------
(* Two-factor codes and password *)

\* Mutant: "2FA déjà activée" is not tested.
SetupTotpAnyway(c) ==
    \E u \in User, x \in Secret :
        /\ Ready(c, "setupTotp") /\ Authenticated(u)
        /\ x # user[u].totpSecret
        /\ Begin(c, "setupTotp", u, <<Set([totpSecret |-> x]), Give("app", x)>>)
        /\ ReadsOnly

SetupTotp(c) ==
    \E u \in User, x \in Secret :
        /\ Ready(c, "setupTotp") /\ Authenticated(u) /\ ~user[u].totpEnabled
        /\ x # user[u].totpSecret
        /\ Begin(c, "setupTotp", u, <<Set([totpSecret |-> x]), Give("app", x)>>)
        /\ ReadsOnly

\* The person's authenticator answers for the secret the row holds.
CodeMatches(u) == user[u].totpSecret # None /\ held[u].app = user[u].totpSecret

EnableTotp(c) ==
    \E u \in User :
        /\ Ready(c, "enableTotp") /\ Authenticated(u) /\ CodeMatches(u)
        /\ Begin(c, "enableTotp", u, <<Set([totpEnabled |-> TRUE, totpBackupCodes |-> Code])>>)
        /\ ReadsOnly

TotpOff == Set([totpEnabled |-> FALSE, totpSecret |-> None, totpBackupCodes |-> {}])

DisableTotp(c) ==
    \E u \in User :
        /\ Ready(c, "disableTotp") /\ Authenticated(u) /\ user[u].passwordHash
        /\ Begin(c, "disableTotp", u, <<TotpOff>>)
        /\ ReadsOnly

ChangePassword(c) ==
    \E u \in User :
        /\ Ready(c, "changePassword") /\ Authenticated(u) /\ user[u].passwordHash
        /\ Begin(c, "changePassword", u,
                 <<Set([passwordHash |-> TRUE]), Other("revokeAll", u)>>)
        /\ ReadsOnly

-----------------------------------------------------------------------------
(* Invitations *)

\* findInviteUser(): the link is the one of the row, and has not expired.
Invited(u, i) == user[u].present /\ user[u].inviteTokenHash = i /\ user[u].isActive
                                 /\ user[u].inviteLive

CompleteInvitePassword(c) ==
    \E u \in User : \E i \in held[u].links :
        /\ Ready(c, "invitePassword") /\ Invited(u, i) /\ ~user[u].totpEnabled
        /\ Begin(c, "invitePassword", u, <<Set([passwordHash |-> TRUE]), Give("setups", i)>>)
        /\ ReadsOnly

ResumeInvite(c) ==
    \E u \in User : \E i \in held[u].links :
        /\ Ready(c, "invitePassword") /\ Invited(u, i) /\ ~user[u].totpEnabled
        /\ user[u].passwordHash
        /\ Begin(c, "invitePassword", u, <<Give("setups", i)>>)
        /\ ReadsOnly

\* verifyInviteJwt(): the setup token is that of the row's present link.
SetupVerified(u, i) == Invited(u, i) /\ user[u].passwordHash

\* Mutant: a secret already drawn is not drawn again.
SetupInviteTotpOnce(c) ==
    \E u \in User, x \in Secret : \E i \in held[u].setups :
        /\ Ready(c, "inviteTotp") /\ SetupVerified(u, i) /\ user[u].totpSecret = None
        /\ Begin(c, "inviteTotp", u, <<Set([totpSecret |-> x]), Give("app", x)>>)
        /\ ReadsOnly

SetupInviteTotp(c) ==
    \E u \in User, x \in Secret : \E i \in held[u].setups :
        /\ Ready(c, "inviteTotp") /\ SetupVerified(u, i) /\ ~user[u].totpEnabled
        /\ x # user[u].totpSecret
        /\ Begin(c, "inviteTotp", u, <<Set([totpSecret |-> x]), Give("app", x)>>)
        /\ ReadsOnly

EnableInviteTotp(c) ==
    \E u \in User : \E i \in held[u].setups :
        /\ Ready(c, "inviteEnable") /\ SetupVerified(u, i) /\ CodeMatches(u)
        /\ Begin(c, "inviteEnable", u,
                 <<Set([totpEnabled |-> TRUE, totpBackupCodes |-> Code,
                        inviteTokenHash |-> 0, inviteLive |-> FALSE])>> \o IssueTokens(NewToken))
        /\ DrawsToken

-----------------------------------------------------------------------------
(* Administration *)

CreateUser(c) ==
    \E u \in User, p \in Profile :
        /\ Ready(c, "create") /\ ~user[u].present /\ profile[p].present
        /\ Begin(c, "create", u, <<Other("create", NewUser(p, profile[p].baseRole))>>
                                     \o IssueInvite)
        /\ DrawsInvite

ResendInvite(c) ==
    \E u \in User :
        /\ Ready(c, "resend") /\ user[u].present
        /\ ~(user[u].totpEnabled /\ user[u].passwordHash /\ user[u].inviteTokenHash = 0)
        /\ Begin(c, "resend", u, IssueInvite)
        /\ DrawsInvite

\* Another profile, or a switch that writes back the role and profile it read.
UpdateUser(c) ==
    \E u \in User :
        /\ Ready(c, "update") /\ user[u].present
        /\ \/ \E p \in Profile :
                /\ profile[p].present
                /\ Begin(c, "update", u,
                         <<Set([profileId |-> p, role |-> profile[p].baseRole])>>)
           \/ \E active \in BOOLEAN :
                Begin(c, "update", u, <<Set([isActive |-> active, profileId |-> user[u].profileId,
                                             role |-> user[u].role])>>)
        /\ ReadsOnly

ResetTotp(c) ==
    \E u \in User :
        /\ Ready(c, "resetTotp") /\ user[u].present
        /\ Begin(c, "resetTotp", u, <<TotpOff, Other("revokeAll", u)>>)
        /\ ReadsOnly

RemoveUser(c) ==
    \E u \in User :
        /\ Ready(c, "remove") /\ user[u].present
        /\ Begin(c, "remove", u, <<Other("delete", u)>>)
        /\ ReadsOnly

\* A row created, updated or deleted: `exists` is what the statement needs.
SaveProfile(p, exists, row) == [write |-> "profile", id |-> p, exists |-> exists, row |-> row]

CreateProfile(c) ==
    \E p \in Profile, g \in Grants :
        /\ Ready(c, "profile") /\ ~profile[p].present
        /\ Begin(c, "profile", None,
                 <<SaveProfile(p, FALSE, ProfileRow(g, FALSE, DeriveRole(Normalised(g))))>>)
        /\ ReadsOnly

\* Mutant: the users of the profile keep the role they had.
UpdateProfileAlone(c) ==
    \E p \in Profile, g \in Grants :
        LET role == IF profile[p].isSystem THEN profile[p].baseRole
                    ELSE DeriveRole(Normalised(g))
        IN /\ Ready(c, "profile") /\ profile[p].present
           /\ Begin(c, "profile", None,
                    <<SaveProfile(p, TRUE, ProfileRow(g, profile[p].isSystem, role))>>)
           /\ ReadsOnly

\* "Keep user.role in sync": the profile first, then the users that bear it.
UpdateProfile(c) ==
    \E p \in Profile, g \in Grants :
        LET role == IF profile[p].isSystem THEN profile[p].baseRole
                    ELSE DeriveRole(Normalised(g))
        IN /\ Ready(c, "profile") /\ profile[p].present
           /\ Begin(c, "profile", None,
                    <<SaveProfile(p, TRUE, ProfileRow(g, profile[p].isSystem, role)),
                      [write |-> "sync", id |-> p, role |-> role]>>)
           /\ ReadsOnly

Bearers(p) == {u \in User : user[u].present /\ user[u].profileId = p}

RemoveProfile(c) ==
    \E p \in Profile :
        /\ Ready(c, "profile") /\ profile[p].present
        /\ ~profile[p].isSystem /\ Bearers(p) = {}
        /\ Begin(c, "profile", None, <<SaveProfile(p, TRUE, NoRow)>>)
        /\ ReadsOnly

-----------------------------------------------------------------------------
(* The awaited statements *)

Head1(c) == Head(call[c].todo)
Awaits(c, kind) == call[c].todo # <<>> /\ Head1(c).write = kind

Goes(c) == call' = [call EXCEPT ![c].todo = Tail(@)]

\* The statement throws: the request ends there.
Throws(c) ==
    /\ call' = [call EXCEPT ![c].todo = <<>>]
    /\ UNCHANGED <<user, profile, session, held>>

Merged(row, columns) ==
    [f \in DOMAIN row |-> IF f \in DOMAIN columns THEN columns[f] ELSE row[f]]

\* An update of some columns, which the foreign key of the profile may refuse.
WriteUser(c) ==
    LET u == call[c].user
        columns == Head1(c).columns
    IN
    /\ Awaits(c, "user")
    /\ IF user[u].present
          /\ ("profileId" \in DOMAIN columns => profile[columns.profileId].present)
       THEN /\ user' = [user EXCEPT ![u] = Merged(@, columns)]
            /\ Goes(c)
            /\ UNCHANGED <<profile, session, held>>
       ELSE Throws(c)
    /\ UNCHANGED <<issued, crossed, restarts, workload>>

\* What the answer, or the mail, brings the person; a mail may fail.
Brought(holding, g) ==
    CASE g.field = "links"  -> [holding EXCEPT !.links = @ \cup {g.what}]
      [] g.field = "setups" -> [holding EXCEPT !.setups = @ \cup {g.what}]
      [] g.field = "app"    -> [holding EXCEPT !.app = g.what]
      [] OTHER              -> [holding EXCEPT !.pending = TRUE]

WriteGive(c) ==
    LET g == Head1(c)
    IN /\ Awaits(c, "give")
       /\ \/ /\ held' = [held EXCEPT ![call[c].user] = Brought(@, g)]
             /\ Goes(c)
             /\ UNCHANGED <<user, profile, session>>
          \/ g.field = "links" /\ Throws(c)
       /\ UNCHANGED <<issued, crossed, restarts, workload>>

IssueToken(c) ==
    LET u == call[c].user IN
    /\ Awaits(c, "issue")
    /\ IF user[u].present
       THEN /\ session' = [session EXCEPT ![Head1(c).token] =
                             [present |-> TRUE, user |-> u, origin |-> Head1(c).origin]]
            /\ call' = [call EXCEPT ![c].todo = Tail(@), ![c].result = Head1(c).token]
            /\ held' = [held EXCEPT ![u].access = TRUE, ![u].pending = FALSE]
            /\ UNCHANGED <<user, profile>>
       ELSE Throws(c)
    /\ UNCHANGED <<issued, crossed, restarts, workload>>

Revoke(c) ==
    /\ Awaits(c, "revoke") \/ Awaits(c, "revokeAll")
    /\ session' = [s \in Session |->
         IF \/ Awaits(c, "revoke") /\ s \in Head1(c).what
            \/ Awaits(c, "revokeAll") /\ session[s].present /\ session[s].user = Head1(c).what
         THEN NoRow ELSE session[s]]
    /\ Goes(c)
    /\ UNCHANGED <<user, profile, held, issued, crossed, restarts, workload>>

\* The address is unique; a profile may have gone meanwhile.
InsertUser(c) ==
    LET u == call[c].user IN
    /\ Awaits(c, "create")
    /\ IF ~user[u].present /\ profile[Head1(c).what.profileId].present
       THEN /\ user' = [user EXCEPT ![u] = Head1(c).what]
            /\ Goes(c)
            /\ UNCHANGED <<profile, session, held>>
       ELSE Throws(c)
    /\ UNCHANGED <<issued, crossed, restarts, workload>>

\* Mutant: the tokens stay.
DeleteUserAlone(c) ==
    LET u == call[c].user IN
    /\ Awaits(c, "delete")
    /\ user' = [user EXCEPT ![u] = NoRow]
    /\ held' = [held EXCEPT ![u] = NothingHeld]
    /\ call' = [call EXCEPT ![c].todo = <<>>]
    /\ UNCHANGED <<profile, session, issued, crossed, restarts, workload>>

\* The sessions go with the row, in cascade.  What other requests still await
\* for it throws or changes nothing, and what the person holds names a row
\* that is gone: an account created again has another identifier.
DeleteUser(c) ==
    LET u == call[c].user IN
    /\ Awaits(c, "delete")
    /\ user' = [user EXCEPT ![u] = NoRow]
    /\ session' = [s \in Session |-> IF session[s].present /\ session[s].user = u
                                     THEN NoRow ELSE session[s]]
    /\ held' = [held EXCEPT ![u] = NothingHeld]
    /\ call' = [d \in Slot |-> IF call[d].user = u /\ ~Awaits(d, "create")
                               THEN [call[d] EXCEPT !.todo = <<>>] ELSE call[d]]
    /\ UNCHANGED <<profile, issued, crossed, restarts, workload>>

\* ON DELETE RESTRICT: a profile somebody bears is not deleted.
WriteProfile(c) ==
    LET w == Head1(c) IN
    /\ Awaits(c, "profile")
    /\ IF profile[w.id].present = w.exists /\ (w.row = NoRow => Bearers(w.id) = {})
       THEN /\ profile' = [profile EXCEPT ![w.id] = w.row]
            /\ Goes(c)
            /\ UNCHANGED <<user, session, held>>
       ELSE Throws(c)
    /\ UNCHANGED <<issued, crossed, restarts, workload>>

SyncRoles(c) ==
    /\ Awaits(c, "sync")
    /\ user' = [u \in User |-> IF u \in Bearers(Head1(c).id)
                               THEN [user[u] EXCEPT !.role = Head1(c).role] ELSE user[u]]
    /\ Goes(c)
    /\ UNCHANGED <<profile, session, held, issued, crossed, restarts, workload>>

Statement(c) ==
    \/ WriteUser(c) \/ WriteGive(c) \/ IssueToken(c) \/ Revoke(c) \/ InsertUser(c)
    \/ DeleteUser(c) \/ WriteProfile(c) \/ SyncRoles(c)

\* The answer leaves and the slot is free.
Answer(c) ==
    /\ InHand(c) /\ call[c].todo = <<>>
    /\ call' = [call EXCEPT ![c] = NoCall]
    /\ UNCHANGED <<user, profile, session, held, issued, crossed, restarts, workload>>

-----------------------------------------------------------------------------
(* Time and restarts *)

LockExpires(u) ==
    /\ user[u].present /\ user[u].locked
    /\ user' = [user EXCEPT ![u].locked = FALSE]
    /\ UNCHANGED <<profile, session, held, issued, call, crossed, restarts, workload>>

InviteExpires(u) ==
    /\ user[u].present /\ user[u].inviteLive
    /\ user' = [user EXCEPT ![u].inviteLive = FALSE]
    /\ UNCHANGED <<profile, session, held, issued, call, crossed, restarts, workload>>

SessionExpires(s) ==
    /\ session[s].present
    /\ session' = [session EXCEPT ![s] = NoRow]
    /\ UNCHANGED <<user, profile, held, issued, call, crossed, restarts, workload>>

\* The short-lived tokens: access, second factor, invitation set-up.  Minutes
\* or hours, they outlive the request that brings them.
TokensExpire(u) ==
    /\ \A c \in Slot : call[c].user # u
    /\ \/ held[u].access /\ held' = [held EXCEPT ![u].access = FALSE]
       \/ held[u].pending /\ held' = [held EXCEPT ![u].pending = FALSE]
       \/ held[u].setups # {} /\ held' = [held EXCEPT ![u].setups = {}]
    /\ UNCHANGED <<user, profile, session, issued, call, crossed, restarts, workload>>

\* The process stops between two statements; on its way up it runs the seed.
Restart ==
    /\ restarts < MaxRestarts
    /\ restarts' = restarts + 1
    /\ call' = [c \in Slot |-> NoCall]
    /\ crossed' = IF \E c \in Slot : Awaits(c, "sync") THEN crossed \cup {"role"} ELSE crossed
    /\ user' = IF workload.seed THEN Seeded(user) ELSE user
    /\ UNCHANGED <<profile, session, held, issued, workload>>

Request(c) ==
    \/ Login(c) \/ WrongPassword(c) \/ VerifyTotp(c) \/ Refresh(c) \/ Logout(c)
    \/ SetupTotp(c) \/ EnableTotp(c) \/ DisableTotp(c) \/ ChangePassword(c)
    \/ CompleteInvitePassword(c) \/ ResumeInvite(c) \/ SetupInviteTotp(c) \/ EnableInviteTotp(c)
    \/ CreateUser(c) \/ ResendInvite(c) \/ UpdateUser(c) \/ ResetTotp(c) \/ RemoveUser(c)
    \/ CreateProfile(c) \/ UpdateProfile(c) \/ RemoveProfile(c)

Clock ==
    \/ \E u \in User : LockExpires(u) \/ InviteExpires(u) \/ TokensExpire(u)
    \/ \E s \in Session : SessionExpires(s)

Next == (\E c \in Slot : Request(c) \/ Statement(c) \/ Answer(c)) \/ Clock \/ Restart

Spec == Init /\ [][Next]_accountVars

\* The event loop runs what a request awaits; an invited person goes on with
\* the pages the link opens, again if the first try came to nothing.
Fairness ==
    \A c \in Slot :
        /\ WF_accountVars(Statement(c) \/ Answer(c))
        /\ SF_accountVars(CompleteInvitePassword(c) \/ ResumeInvite(c))
        /\ SF_accountVars(SetupInviteTotp(c))
        /\ SF_accountVars(EnableInviteTotp(c))

FairSpec == Spec /\ Fairness

-----------------------------------------------------------------------------
(* Properties *)

UserRow ==
    [present: {TRUE}, isActive: BOOLEAN, passwordHash: BOOLEAN, totpSecret: Secret \cup {None},
     totpEnabled: BOOLEAN, totpBackupCodes: SUBSET Code, failedLoginCount: 0..MaxFailed,
     locked: BOOLEAN, inviteTokenHash: Invite \cup {0}, inviteLive: BOOLEAN,
     role: Role, profileId: Profile]

\* Every row and every token names rows that exist: what the foreign keys of
\* the schema promise of accounts, profiles and sessions.
TypeOK ==
    /\ user \in [User -> UserRow \cup {NoRow}]
    /\ \A p \in Profile : profile[p].present => profile[p].baseRole \in Role
    /\ \A u \in User : user[u].present => profile[user[u].profileId].present
    /\ \A s \in Session : session[s].present => user[session[s].user].present
    /\ held \in [User -> [links: SUBSET Invite, setups: SUBSET Invite, pending: BOOLEAN,
                          access: BOOLEAN, app: Secret \cup {None}]]
    /\ issued \in [invites: 0..MaxInvites, tokens: 0..MaxTokens]
    /\ restarts \in 0..MaxRestarts

\* An account with two-factor sign-in on holds the secret its person's
\* authenticator answers for, unless two calls on it overlapped.
TotpUsable ==
    "totp" \notin crossed =>
        \A u \in User : user[u].present /\ user[u].totpEnabled => CodeMatches(u)

\* Rotation: a sign-in has one live token at most, restarts included, unless
\* two refreshes overlapped.
OneTokenPerSignIn ==
    "rotation" \notin crossed =>
        \A s, t \in Session :
            session[s].present /\ session[t].present /\ session[s].origin = session[t].origin
                => s = t

\* The role the @Roles guards read is the one of the profile, and that of a
\* profile of one's own follows from its rights, between calls and unless
\* two of them overlapped or one was cut short.
RolesInSync ==
    "role" \notin crossed /\ (\A c \in Slot : "role" \notin Touches(call[c].op)) =>
        \A u \in User :
            LET p == profile[user[u].profileId] IN
            user[u].present => /\ user[u].role = p.baseRole
                               /\ ~p.isSystem => user[u].role = DeriveRole(p.permissions)

\* An invitation whose link reached its person does not stay open for ever:
\* it leads to an account with two-factor sign-in, or expires, or is replaced.
InvitationOpen(u) ==
    /\ user[u].present /\ user[u].isActive /\ user[u].inviteLive
    /\ user[u].inviteTokenHash \in held[u].links
    /\ ~user[u].totpEnabled

InvitationLeadsIn == \A u \in User : []<>~InvitationOpen(u)
=============================================================================
