--------------------------- MODULE AccountsProofs ---------------------------
(***************************************************************************)
(* Proofs about Accounts, alone and under the browser of BrowserSession,   *)
(* for any users, profiles, rights, secrets, slots, tabs and bounds.       *)
(***************************************************************************)
EXTENDS BrowserSession, SequenceTheorems, TLAPS

-----------------------------------------------------------------------------
(* What each operation may still have to write *)

Columns(columns) == [write: {"user"}, columns: columns]
Gift(field, what) == [write: {"give"}, field: {field}, what: what]

Counting  == Columns([failedLoginCount: 0..MaxFailed, locked: BOOLEAN])
Issuing   == [write: {"issue"}, token: Session, origin: Session]
Revoking  == [write: {"revoke"}, what: SUBSET Session]
RevokingAll == [write: {"revokeAll"}, what: User]
Spending  == Columns([totpBackupCodes: SUBSET Code])
Password  == Columns([passwordHash: {TRUE}])
Drawing   == Columns([totpSecret: Secret]) \cup Gift("app", Secret)
Enabling  == Columns([totpEnabled: {TRUE}, totpBackupCodes: {Code}]
                       \cup [totpEnabled: {TRUE}, totpBackupCodes: {Code},
                             inviteTokenHash: {0}, inviteLive: {FALSE}])
Resetting == Columns([totpEnabled: {FALSE}, totpSecret: {None}, totpBackupCodes: {{}}])
Inviting  == Columns([inviteTokenHash: Invite, inviteLive: {TRUE}]) \cup Gift("links", Invite)
Assigning == Columns([profileId: Profile, role: Role]
                       \cup [isActive: BOOLEAN, profileId: Profile, role: Role])
Creating  == [write: {"create"}, what: {r \in UserRow : ~r.totpEnabled}]
Deleting  == [write: {"delete"}, what: User]

\* The role of a profile that is not the system's follows from its rights.
ProfileRows ==
    {r \in [present: {TRUE}, isSystem: BOOLEAN, baseRole: Role, permissions: SUBSET Right] :
        ~r.isSystem => r.baseRole = DeriveRole(r.permissions)}

\* The profiles of the seed stay, with the role they have.
Lasts(p, row) == row.present /\ row.isSystem /\ row.baseRole = SystemRole[p]

Saving ==
    {w \in [write: {"profile"}, id: Profile, exists: BOOLEAN, row: ProfileRows \cup {NoRow}] :
        w.id \in SystemProfile => Lasts(w.id, w.row)}
Syncing == [write: {"sync"}, id: Profile, role: Role]

Writes(op) ==
    CASE op = "login" -> Issuing \cup Counting \cup Gift("pending", {TRUE})
      [] op = "wrongPassword" -> Counting
      [] op = "verifyTotp" -> Issuing \cup Counting \cup Spending
      [] op = "refresh" -> Issuing \cup Counting \cup Revoking
      [] op = "logout" -> Revoking
      [] op \in {"setupTotp", "inviteTotp"} -> Drawing
      [] op = "enableTotp" -> Enabling
      [] op = "inviteEnable" -> Enabling \cup Issuing \cup Counting
      [] op \in {"disableTotp", "resetTotp"} -> Resetting \cup RevokingAll
      [] op = "changePassword" -> Password \cup RevokingAll
      [] op = "invitePassword" -> Password \cup Gift("setups", Invite)
      [] op = "create" -> Creating \cup Inviting
      [] op = "resend" -> Inviting
      [] op = "update" -> Assigning
      [] op = "remove" -> Deleting
      [] op = "profile" -> Saving \cup Syncing
      [] OTHER -> {}

AnyWrite == UNION {Writes(op) : op \in Operation}
CallState == [op: Operation \cup {None}, user: User \cup {None}, todo: Seq(AnyWrite),
              result: 0..MaxTokens]

\* A call awaits what its operation writes, on the row of somebody unless it is
\* about a profile.
Plausible(k) ==
    /\ k.todo \in Seq(Writes(k.op))
    /\ k.user = None <=> k.op \in {None, "profile"}

SessionRow == [present: {TRUE}, user: User, origin: Session]

TypeInv ==
    /\ TypeOK
    /\ workload \in Workloads
    /\ profile \in [Profile -> ProfileRows \cup {NoRow}]
    /\ \A p \in SystemProfile : Lasts(p, profile[p])
    /\ session \in [Session -> SessionRow \cup {NoRow}]
    /\ call \in [Slot -> CallState]
    /\ \A c \in Slot : Plausible(call[c])

-----------------------------------------------------------------------------
(* The rotation of refresh tokens *)

IssuesAt(c, i) == i \in 1..Len(call[c].todo) /\ call[c].todo[i].write = "issue"
OriginAt(c, i) == call[c].todo[i].origin
\* The live tokens of the sign-in a call issues for.
LiveFor(c, i) == {s \in Session : session[s].present /\ session[s].origin = OriginAt(c, i)}

\* Every origin was drawn, and a call issues one token.
OriginsDrawn ==
    /\ \A s \in Session : session[s].present => session[s].origin <= issued.tokens
    /\ \A c \in Slot, i \in Nat : IssuesAt(c, i) => OriginAt(c, i) <= issued.tokens
    /\ \A c \in Slot, i, j \in Nat : IssuesAt(c, i) /\ IssuesAt(c, j) => i = j

\* One refresh is in hand at most, a sign-in issues the first token of its
\* origin, a rotation revokes the one there is before it issues another, and no
\* two calls issue for the same origin.
Rotates ==
    "rotation" \notin crossed =>
        /\ \A s, t \in Session : session[s].present /\ session[t].present
                                   /\ session[s].origin = session[t].origin => s = t
        /\ \A c, d \in Slot : call[c].op = "refresh" /\ call[d].op = "refresh" => c = d
        /\ \A c \in Slot, i \in Nat : IssuesAt(c, i) =>
              /\ call[c].op # "refresh" => LiveFor(c, i) = {}
              /\ \A s \in LiveFor(c, i) :
                    \E j \in 1..(i - 1) : call[c].todo[j] = Other("revoke", {s})
              /\ \A d \in Slot, j \in Nat :
                    IssuesAt(d, j) /\ OriginAt(d, j) = OriginAt(c, i) => d = c

TokenInv == OriginsDrawn /\ Rotates

-----------------------------------------------------------------------------
(* The secret of the authenticator *)

DrawOps == {"setupTotp", "inviteTotp"}
EnableOps == {"enableTotp", "inviteEnable"}
TotpOps == DrawOps \cup EnableOps \cup {"disableTotp", "resetTotp"}

EnablesAt(c, i) == i \in 1..Len(call[c].todo) /\ call[c].todo[i] \in Enabling

\* One call on two-factor sign-in is in hand at most: it draws a secret for an
\* account that has it off, or turns it on for one whose codes match.
TotpInv ==
    "totp" \notin crossed =>
        /\ \A u \in User : user[u].present /\ user[u].totpEnabled => CodeMatches(u)
        /\ \A c, d \in Slot : call[c].op \in TotpOps /\ call[d].op \in TotpOps => c = d
        /\ \A c \in Slot, u \in User : call[c].user = u =>
              /\ call[c].op \in DrawOps /\ user[u].present => ~user[u].totpEnabled
              /\ \A i \in Nat : EnablesAt(c, i) => user[u].present /\ CodeMatches(u)

-----------------------------------------------------------------------------
(* The role and its profile *)

RoleOps == {"create", "update", "profile"}

Sync(p, role) == [write |-> "sync", id |-> p, role |-> role]

\* The stages of a call on a profile.
ProfileStage(c) ==
    \/ call[c].todo = <<>>
    \/ \E p \in Profile, row \in ProfileRows : call[c].todo = <<SaveProfile(p, FALSE, row)>>
    \/ \E p \in Profile : call[c].todo = <<SaveProfile(p, TRUE, NoRow)>>
    \/ \E p \in Profile, row \in ProfileRows :
          call[c].todo = <<SaveProfile(p, TRUE, row), Sync(p, row.baseRole)>>
    \/ \E p \in Profile : call[c].todo = <<Sync(p, profile[p].baseRole)>>

\* A call that changes a profile has still to bring its role to who bears it.
Syncs(c, p) == call[c].op = "profile" /\ call[c].todo = <<Sync(p, profile[p].baseRole)>>

\* The role a row will be given is that of the profile it will be given.
Assigns(w) ==
    /\ w \in Creating => (profile[w.what.profileId].present =>
                            w.what.role = profile[w.what.profileId].baseRole)
    /\ w \in Assigning => (profile[w.columns.profileId].present =>
                             w.columns.role = profile[w.columns.profileId].baseRole)

AssignsAt(c, i) == i \in 1..Len(call[c].todo) => Assigns(call[c].todo[i])

RoleInv ==
    "role" \notin crossed =>
        /\ \A u \in User : user[u].present =>
              \/ user[u].role = profile[user[u].profileId].baseRole
              \/ \E c \in Slot : Syncs(c, user[u].profileId)
        /\ \A c, d \in Slot : call[c].op \in RoleOps /\ call[d].op \in RoleOps => c = d
        /\ \A c \in Slot : call[c].op = "profile" => ProfileStage(c)
        /\ \A c \in Slot, i \in Nat : AssignsAt(c, i)

-----------------------------------------------------------------------------
(* The statements of an operation *)

UserWrites == Counting \cup Spending \cup Password \cup Drawing \cup Enabling \cup Resetting
                \cup Inviting \cup Assigning

\* A statement is one of a few, and tells what kind it is.
LEMMA WriteKinds ==
    ASSUME NEW op, NEW w \in Writes(op)
    PROVE  /\ w.write = "user" => w \in UserWrites
           /\ w.write = "give" =>
                  (\/ w.field = "links" /\ w.what \in Invite
                   \/ w.field = "setups" /\ w.what \in Invite
                   \/ w.field = "app" /\ w.what \in Secret
                   \/ w.field = "pending")
           /\ w.write = "issue" => w \in Issuing
           /\ w.write = "revoke" => w \in Revoking
           /\ w.write = "revokeAll" => w \in RevokingAll
           /\ w.write = "create" => w \in Creating
           /\ w.write = "delete" => w \in Deleting
           /\ w.write = "profile" => w \in Saving
           /\ w.write = "sync" => w \in Syncing
<1>1. CASE w \in Issuing \cup Counting \cup Spending \cup Revoking \cup RevokingAll \cup Password
  BY <1>1 DEF UserWrites, Issuing, Counting, Spending, Revoking, RevokingAll, Password, Columns
<1>2. CASE w \in Drawing \cup Enabling \cup Resetting
  BY <1>2 DEF UserWrites, Drawing, Enabling, Resetting, Columns, Gift
<1>3. CASE w \in Inviting \cup Assigning
  BY <1>3 DEF UserWrites, Inviting, Assigning, Columns, Gift
<1>4. CASE w \in Gift("pending", {TRUE}) \cup Gift("setups", Invite)
  BY <1>4 DEF Gift
<1>5. CASE w \in Creating \cup Deleting \cup Saving \cup Syncing
  BY <1>5 DEF Creating, Deleting, Saving, Syncing
<1> QED BY <1>1, <1>2, <1>3, <1>4, <1>5 DEF Writes

\* The columns of an update, and what they take.
LEMMA ColumnsOf ==
    ASSUME NEW w, w.write = "user"
    PROVE  /\ w \in Counting => /\ DOMAIN w.columns = {"failedLoginCount", "locked"}
                                /\ w.columns.failedLoginCount \in 0..MaxFailed
                                /\ w.columns.locked \in BOOLEAN
           /\ w \in Spending => /\ DOMAIN w.columns = {"totpBackupCodes"}
                                /\ w.columns.totpBackupCodes \in SUBSET Code
           /\ w \in Password => /\ DOMAIN w.columns = {"passwordHash"}
                                /\ w.columns.passwordHash = TRUE
           /\ w \in Drawing => /\ DOMAIN w.columns = {"totpSecret"}
                               /\ w.columns.totpSecret \in Secret
           /\ w \in Enabling =>
                  /\ \/ DOMAIN w.columns = {"totpEnabled", "totpBackupCodes"}
                     \/ /\ DOMAIN w.columns = {"totpEnabled", "totpBackupCodes",
                                              "inviteTokenHash", "inviteLive"}
                        /\ w.columns.inviteTokenHash = 0 /\ w.columns.inviteLive = FALSE
                  /\ w.columns.totpEnabled = TRUE /\ w.columns.totpBackupCodes = Code
           /\ w \in Resetting =>
                  /\ DOMAIN w.columns = {"totpEnabled", "totpSecret", "totpBackupCodes"}
                  /\ w.columns.totpEnabled = FALSE /\ w.columns.totpSecret = None
                  /\ w.columns.totpBackupCodes = {}
           /\ w \in Inviting => /\ DOMAIN w.columns = {"inviteTokenHash", "inviteLive"}
                                /\ w.columns.inviteTokenHash \in Invite
                                /\ w.columns.inviteLive = TRUE
           /\ w \in Assigning =>
                  /\ \/ DOMAIN w.columns = {"profileId", "role"}
                     \/ /\ DOMAIN w.columns = {"isActive", "profileId", "role"}
                        /\ w.columns.isActive \in BOOLEAN
                  /\ w.columns.profileId \in Profile /\ w.columns.role \in Role
<1>1. w \in Counting => /\ DOMAIN w.columns = {"failedLoginCount", "locked"}
                       /\ w.columns.failedLoginCount \in 0..MaxFailed /\ w.columns.locked \in BOOLEAN
  BY DEF Counting, Columns
<1>2. /\ w \in Spending => /\ DOMAIN w.columns = {"totpBackupCodes"}
                           /\ w.columns.totpBackupCodes \in SUBSET Code
      /\ w \in Password => DOMAIN w.columns = {"passwordHash"} /\ w.columns.passwordHash = TRUE
  BY DEF Spending, Password, Columns
<1>3. w \in Drawing => DOMAIN w.columns = {"totpSecret"} /\ w.columns.totpSecret \in Secret
  BY DEF Drawing, Columns, Gift
<1>4. w \in Enabling =>
        /\ \/ DOMAIN w.columns = {"totpEnabled", "totpBackupCodes"}
           \/ /\ DOMAIN w.columns = {"totpEnabled", "totpBackupCodes", "inviteTokenHash", "inviteLive"}
              /\ w.columns.inviteTokenHash = 0 /\ w.columns.inviteLive = FALSE
        /\ w.columns.totpEnabled = TRUE /\ w.columns.totpBackupCodes = Code
  BY DEF Enabling, Columns
<1>5. w \in Resetting => /\ DOMAIN w.columns = {"totpEnabled", "totpSecret", "totpBackupCodes"}
                        /\ w.columns.totpEnabled = FALSE /\ w.columns.totpSecret = None
                        /\ w.columns.totpBackupCodes = {}
  BY DEF Resetting, Columns
<1>6. w \in Inviting => /\ DOMAIN w.columns = {"inviteTokenHash", "inviteLive"}
                       /\ w.columns.inviteTokenHash \in Invite /\ w.columns.inviteLive = TRUE
  BY DEF Inviting, Columns, Gift
<1>7. w \in Assigning => /\ \/ DOMAIN w.columns = {"profileId", "role"}
                           \/ /\ DOMAIN w.columns = {"isActive", "profileId", "role"}
                              /\ w.columns.isActive \in BOOLEAN
                        /\ w.columns.profileId \in Profile /\ w.columns.role \in Role
  BY DEF Assigning, Columns
<1> QED BY <1>1, <1>2, <1>3, <1>4, <1>5, <1>6, <1>7

\* Few of them turn two-factor sign-in on or off.
LEMMA SwitchColumn ==
    ASSUME NEW w \in Counting \cup Spending \cup Password \cup Drawing \cup Assigning \cup Inviting,
           w.write = "user"
    PROVE  "totpEnabled" \notin DOMAIN w.columns
<1>1. CASE w \in Counting
  BY <1>1 DEF Counting, Columns
<1>2. CASE w \in Spending
  BY <1>2 DEF Spending, Columns
<1>3. CASE w \in Password
  BY <1>3 DEF Password, Columns
<1>4. CASE w \in Drawing
  BY <1>4 DEF Drawing, Columns, Gift
<1>5. CASE w \in Assigning
  BY <1>5 DEF Assigning, Columns
<1>6. CASE w \in Inviting
  <2>1. w \notin Gift("links", Invite)
    BY DEF Gift
  <2>2. w \in Columns([inviteTokenHash: Invite, inviteLive: {TRUE}])
    BY <1>6, <2>1 DEF Inviting
  <2> QED BY <2>2 DEF Columns
<1> QED BY <1>1, <1>2, <1>3, <1>4, <1>5, <1>6

Fields == {"present", "isActive", "passwordHash", "totpSecret", "totpEnabled", "totpBackupCodes",
           "failedLoginCount", "locked", "inviteTokenHash", "inviteLive", "role", "profileId"}

\* An update leaves a row a row, and touches the columns it names.
LEMMA MergedTyped ==
    ASSUME NEW row \in UserRow, NEW w \in UserWrites, w.write = "user"
    PROVE  /\ Merged(row, w.columns) \in UserRow
           /\ \A f \in Fields : Merged(row, w.columns)[f] =
                                 IF f \in DOMAIN w.columns THEN w.columns[f] ELSE row[f]
<1> DEFINE cols == w.columns
<1>1. DOMAIN row = Fields
  BY DEF UserRow, Fields
<1>2. Merged(row, cols) = [f \in Fields |-> IF f \in DOMAIN cols THEN cols[f] ELSE row[f]]
  BY <1>1 DEF Merged
<1>3. CASE w \in Counting \cup Spending \cup Password
  <2>1. CASE w \in Counting
    <3>1. /\ DOMAIN cols = {"failedLoginCount", "locked"}
          /\ cols.failedLoginCount \in 0..MaxFailed /\ cols.locked \in BOOLEAN
      BY <2>1, ColumnsOf
    <3>2. Merged(row, cols) =
            [row EXCEPT !.failedLoginCount = cols.failedLoginCount, !.locked = cols.locked]
      BY <1>2, <3>1 DEF Fields, UserRow
    <3>3. Merged(row, cols) \in UserRow
      BY <3>1, <3>2 DEF UserRow
    <3> QED BY <1>2, <3>3
  <2>2. CASE w \in Spending
    BY <1>2, <2>2, ColumnsOf DEF Fields, UserRow
  <2>3. CASE w \in Password
    BY <1>2, <2>3, ColumnsOf DEF Fields, UserRow
  <2> QED BY <1>3, <2>1, <2>2, <2>3
<1>4. CASE w \in Drawing
  BY <1>2, <1>4, ColumnsOf DEF Fields, UserRow
<1>5. CASE w \in Enabling
  BY <1>2, <1>5, ColumnsOf, ZenonT(30) DEF Fields, UserRow
<1>6. CASE w \in Resetting
  BY <1>2, <1>6, ColumnsOf DEF Fields, UserRow
<1>7. CASE w \in Inviting
  BY <1>2, <1>7, ColumnsOf DEF Fields, UserRow
<1>8. CASE w \in Assigning
  BY <1>2, <1>8, ColumnsOf DEF Fields, UserRow
<1> QED BY <1>3, <1>4, <1>5, <1>6, <1>7, <1>8 DEF UserWrites

-----------------------------------------------------------------------------
(* Calls *)

\* Each operation writes what it writes.
LEMMA WritesOf ==
    /\ Writes("login") = Issuing \cup Counting \cup Gift("pending", {TRUE})
    /\ Writes("wrongPassword") = Counting
    /\ Writes("verifyTotp") = Issuing \cup Counting \cup Spending
    /\ Writes("refresh") = Issuing \cup Counting \cup Revoking
    /\ Writes("logout") = Revoking
    /\ Writes("setupTotp") = Drawing /\ Writes("inviteTotp") = Drawing
    /\ Writes("enableTotp") = Enabling
    /\ Writes("inviteEnable") = Enabling \cup Issuing \cup Counting
    /\ Writes("disableTotp") = Resetting \cup RevokingAll
    /\ Writes("resetTotp") = Resetting \cup RevokingAll
    /\ Writes("changePassword") = Password \cup RevokingAll
    /\ Writes("invitePassword") = Password \cup Gift("setups", Invite)
    /\ Writes("create") = Creating \cup Inviting
    /\ Writes("resend") = Inviting
    /\ Writes("update") = Assigning
    /\ Writes("remove") = Deleting
    /\ Writes("profile") = Saving \cup Syncing
    /\ Writes(None) = {}
  BY DEF Writes, None

\* What a call awaits comes from its operation, and so does what is left of it.
LEMMA HeadTyped ==
    ASSUME TypeInv, NEW c \in Slot, call[c].todo # <<>>
    PROVE  /\ Head1(c) \in Writes(call[c].op) /\ Head1(c) = call[c].todo[1]
           /\ Tail(call[c].todo) \in Seq(Writes(call[c].op))
           /\ Len(Tail(call[c].todo)) = Len(call[c].todo) - 1
           /\ \A i \in 1..Len(Tail(call[c].todo)) : Tail(call[c].todo)[i] = call[c].todo[i + 1]
           /\ call[c].op \in Operation
<1>1. call[c].todo \in Seq(Writes(call[c].op)) /\ call[c].op \in Operation \cup {None}
  BY DEF TypeInv, Plausible, CallState
<1>2. call[c].op # None
  BY <1>1, WritesOf
<1>3. Head(call[c].todo) = call[c].todo[1]
  BY <1>1
<1> QED BY <1>1, <1>2, <1>3, HeadTailProperties DEF Head1

\* A call that awaits something else, and had another answer, is still a call.
LEMMA CallMoves ==
    ASSUME TypeInv, NEW c \in Slot, NEW todo \in Seq(Writes(call[c].op)), NEW n \in 0..MaxTokens,
           call' = [call EXCEPT ![c] = [call[c] EXCEPT !.todo = todo, !.result = n]]
    PROVE  /\ call' \in [Slot -> CallState] /\ \A d \in Slot : Plausible(call'[d])
           /\ \A d \in Slot : call'[d].op = call[d].op /\ call'[d].user = call[d].user
           /\ \A d \in Slot \ {c} : call'[d] = call[d]
           /\ call'[c].todo = todo
<1>1. call[c] \in CallState /\ Plausible(call[c])
  BY DEF TypeInv
<1>2. Writes(call[c].op) \subseteq AnyWrite
  BY <1>1, WritesOf DEF CallState, AnyWrite
<1>3. todo \in Seq(AnyWrite)
  BY <1>2
<1> DEFINE k == [call[c] EXCEPT !.todo = todo, !.result = n]
<1>4. k \in CallState /\ k.op = call[c].op /\ k.user = call[c].user /\ k.todo = todo
  BY <1>1, <1>3 DEF CallState
<1>5. Plausible(k)
  BY <1>1, <1>4 DEF Plausible
<1> HIDE DEF k
<1>6. call' = [call EXCEPT ![c] = k] /\ call \in [Slot -> CallState] /\ \A d \in Slot : Plausible(call[d])
  BY DEF TypeInv, k
<1> QED BY <1>4, <1>5, <1>6

\* A statement done leaves the others.
LEMMA GoesTyped ==
    ASSUME TypeInv, NEW c \in Slot, call[c].todo # <<>>, Goes(c)
    PROVE  /\ call' \in [Slot -> CallState] /\ \A d \in Slot : Plausible(call'[d])
           /\ \A d \in Slot : call'[d].op = call[d].op /\ call'[d].user = call[d].user
           /\ \A d \in Slot \ {c} : call'[d] = call[d]
           /\ call'[c].todo = Tail(call[c].todo)
<1>1. call[c] \in CallState /\ call \in [Slot -> CallState]
  BY DEF TypeInv
<1>2. Tail(call[c].todo) \in Seq(Writes(call[c].op))
  BY HeadTyped
<1>3. [call[c] EXCEPT !.todo = Tail(@)] =
        [call[c] EXCEPT !.todo = Tail(call[c].todo), !.result = call[c].result]
  BY <1>1 DEF CallState
<1>4. call' = [call EXCEPT ![c] =
                 [call[c] EXCEPT !.todo = Tail(call[c].todo), !.result = call[c].result]]
  BY <1>1, <1>3 DEF Goes
<1>5. call[c].result \in 0..MaxTokens
  BY <1>1 DEF CallState
<1> QED BY <1>2, <1>4, <1>5, CallMoves

\* A call whose statement throws has nothing left to await.
LEMMA ThrowsTyped ==
    ASSUME TypeInv, NEW c \in Slot, Throws(c)
    PROVE  /\ call' \in [Slot -> CallState] /\ \A d \in Slot : Plausible(call'[d])
           /\ \A d \in Slot : call'[d].op = call[d].op /\ call'[d].user = call[d].user
           /\ \A d \in Slot \ {c} : call'[d] = call[d]
           /\ call'[c].todo = <<>>
           /\ UNCHANGED <<user, profile, session, held>>
<1>1. call[c] \in CallState /\ call \in [Slot -> CallState]
  BY DEF TypeInv
<1>2. <<>> \in Seq(Writes(call[c].op))
  OBVIOUS
<1>3. [call[c] EXCEPT !.todo = <<>>] = [call[c] EXCEPT !.todo = <<>>, !.result = call[c].result]
  BY <1>1 DEF CallState
<1>4. call' = [call EXCEPT ![c] = [call[c] EXCEPT !.todo = <<>>, !.result = call[c].result]]
  BY <1>1, <1>3 DEF Throws
<1>5. call[c].result \in 0..MaxTokens
  BY <1>1 DEF CallState
<1>6. UNCHANGED <<user, profile, session, held>>
  BY DEF Throws
<1> QED BY <1>2, <1>4, <1>5, <1>6, CallMoves

-----------------------------------------------------------------------------
(* What a request begins *)

InSync(u) == user[u].present => user[u].role = profile[user[u].profileId].baseRole

\* No token, the first of a sign-in, or the next of one.
DrawsFor(op, todo) ==
    \/ /\ op # "refresh" /\ issued'.tokens = issued.tokens
       /\ \A i \in 1..Len(todo) : todo[i].write # "issue"
    \/ /\ op # "refresh" /\ issued'.tokens = NewToken
       /\ \/ todo = IssueTokens(NewToken)
          \/ \E w \in UserWrites : w.write = "user" /\ todo = <<w>> \o IssueTokens(NewToken)
    \/ /\ op = "refresh" /\ issued'.tokens = NewToken
       /\ \E s \in Session : /\ session[s].present
                             /\ todo = <<Other("revoke", {s})>> \o IssueTokens(session[s].origin)

ProfilePlan(todo) ==
    \/ \E p \in Profile, row \in ProfileRows : todo = <<SaveProfile(p, FALSE, row)>>
    \/ \E p \in Profile : todo = <<SaveProfile(p, TRUE, NoRow)>>
    \/ \E p \in Profile, row \in ProfileRows :
          todo = <<SaveProfile(p, TRUE, row), Sync(p, row.baseRole)>>

\* A request in a free slot, and what its guards and the rows it reads make sure of.
Opening(c, op, u, todo) ==
    /\ op \in Operation /\ u \in User \cup {None} /\ (u = None <=> op = "profile")
    /\ todo \in Seq(Writes(op))
    /\ call[c] = NoCall /\ Begin(c, op, u, todo) /\ Reads
    /\ issued' \in [invites: 0..MaxInvites, tokens: 0..MaxTokens]
    /\ DrawsFor(op, todo)
    /\ op \in DrawOps => ~user[u].totpEnabled
    /\ op \in EnableOps => user[u].present /\ CodeMatches(u)
    /\ op = "profile" => ProfilePlan(todo)
    /\ op \in {"create", "update"} /\ InSync(u) => \A i \in 1..Len(todo) : Assigns(todo[i])

Opens(c) == \E op, u, todo : Opening(c, op, u, todo)

\* Users and slots are none of the marks for their absence.
LEMMA Marks == None \notin User /\ None \notin Secret /\ MaxTokens \in Nat /\ MaxInvites \in Nat
  BY AccountsAssumption

\* The rows that are present.
LEMMA Rows ==
    ASSUME TypeInv
    PROVE  /\ \A u \in User : user[u].present => user[u] \in UserRow
           /\ \A s \in Session : session[s].present =>
                 /\ session[s] \in SessionRow
                 /\ session[s].user \in User /\ session[s].origin \in Session
           /\ \A p \in Profile : profile[p].present =>
                 /\ profile[p] \in ProfileRows
                 /\ profile[p].isSystem \in BOOLEAN /\ profile[p].baseRole \in Role
                 /\ profile[p].permissions \in SUBSET Right
<1>1. ASSUME NEW u \in User, user[u].present PROVE user[u] \in UserRow
  BY <1>1 DEF TypeInv, TypeOK, NoRow
<1>2. ASSUME NEW s \in Session, session[s].present PROVE session[s] \in SessionRow
  <2>1. session[s] \in SessionRow \cup {NoRow}
    BY DEF TypeInv
  <2> QED BY <1>2, <2>1 DEF NoRow
<1>3. ASSUME NEW p \in Profile, profile[p].present PROVE profile[p] \in ProfileRows
  <2>1. profile[p] \in ProfileRows \cup {NoRow}
    BY DEF TypeInv
  <2> QED BY <1>3, <2>1 DEF NoRow
<1>4. \A r \in SessionRow : r.user \in User /\ r.origin \in Session
  BY DEF SessionRow
<1>5. \A r \in ProfileRows :
        r.isSystem \in BOOLEAN /\ r.baseRole \in Role /\ r.permissions \in SUBSET Right
  BY DEF ProfileRows
<1> QED BY <1>1, <1>2, <1>3, <1>4, <1>5

\* The statements a request builds are among those of its operation.
LEMMA Built ==
    /\ ResetCount \in Counting /\ ResetCount.write = "user"
    /\ \A row \in UserRow : CountFailure(row) \in Counting /\ CountFailure(row).write = "user"
    /\ \A n, o \in Session : Issue(n, o) \in Issuing /\ Issue(n, o).write = "issue"
    /\ \A x \in Secret : Set([totpSecret |-> x]) \in Drawing /\ Give("app", x) \in Drawing
    /\ TotpOff \in Resetting
    /\ \A i \in Invite : /\ Set([inviteTokenHash |-> i, inviteLive |-> TRUE]) \in Inviting
                         /\ Give("links", i) \in Inviting
                         /\ Give("setups", i) \in Gift("setups", Invite)
    /\ Give("pending", TRUE) \in Gift("pending", {TRUE})
    /\ \A u \in User : Other("revokeAll", u) \in RevokingAll /\ Other("delete", u) \in Deleting
    /\ \A s \in Session : Other("revoke", {s}) \in Revoking
    /\ Set([passwordHash |-> TRUE]) \in Password
<1>1. ResetCount \in Counting /\ ResetCount.write = "user"
  BY AccountsAssumption DEF ResetCount, Set, Counting, Columns
<1>2. ASSUME NEW row \in UserRow
      PROVE  CountFailure(row) \in Counting /\ CountFailure(row).write = "user"
  <2> DEFINE n == IF row.failedLoginCount < MaxFailed THEN row.failedLoginCount + 1 ELSE MaxFailed
  <2>1. n \in 0..MaxFailed /\ (n >= MaxFailed) \in BOOLEAN
    BY AccountsAssumption DEF UserRow
  <2>2. CountFailure(row) = Set([failedLoginCount |-> n, locked |-> n >= MaxFailed])
    BY DEF CountFailure
  <2> HIDE DEF n
  <2> QED BY <2>1, <2>2 DEF Set, Counting, Columns
<1>3. \A n, o \in Session : Issue(n, o) \in Issuing /\ Issue(n, o).write = "issue"
  BY DEF Issue, Issuing
<1>4. \A x \in Secret : Set([totpSecret |-> x]) \in Drawing /\ Give("app", x) \in Drawing
  BY DEF Set, Give, Drawing, Columns, Gift
<1>5. TotpOff \in Resetting
  BY DEF TotpOff, Set, Resetting, Columns
<1>6. \A i \in Invite : /\ Set([inviteTokenHash |-> i, inviteLive |-> TRUE]) \in Inviting
                        /\ Give("links", i) \in Inviting
                        /\ Give("setups", i) \in Gift("setups", Invite)
  BY DEF Set, Give, Inviting, Columns, Gift
<1>7. Give("pending", TRUE) \in Gift("pending", {TRUE})
  BY DEF Give, Gift
<1>8. /\ \A u \in User : Other("revokeAll", u) \in RevokingAll /\ Other("delete", u) \in Deleting
      /\ \A s \in Session : Other("revoke", {s}) \in Revoking
  BY DEF Other, RevokingAll, Deleting, Revoking
<1>9. Set([passwordHash |-> TRUE]) \in Password
  BY DEF Set, Password, Columns
<1> QED BY <1>1, <1>2, <1>3, <1>4, <1>5, <1>6, <1>7, <1>8, <1>9

\* A request on the row of somebody that assigns no role.
LEMMA PersonOpens ==
    ASSUME TypeInv, NEW c \in Slot, NEW u \in User,
           NEW op \in Operation \ RoleOps, NEW todo \in Seq(Writes(op)),
           call[c] = NoCall, Begin(c, op, u, todo), Reads,
           issued' \in [invites: 0..MaxInvites, tokens: 0..MaxTokens], DrawsFor(op, todo),
           op \in DrawOps => ~user[u].totpEnabled,
           op \in EnableOps => user[u].present /\ CodeMatches(u)
    PROVE  Opens(c)
<1>1. u # None /\ op # "profile" /\ op \notin {"create", "update"}
  BY Marks DEF RoleOps
<1> QED BY <1>1 DEF Opens, Opening

\* One that draws no token either.
LEMMA PlainOpens ==
    ASSUME TypeInv, NEW c \in Slot, NEW u \in User,
           NEW op \in Operation \ (RoleOps \cup {"refresh"}), NEW todo \in Seq(Writes(op)),
           Ready(c, op), Begin(c, op, u, todo), ReadsOnly,
           op \in DrawOps => ~user[u].totpEnabled,
           op \in EnableOps => user[u].present /\ CodeMatches(u),
           \A i \in 1..Len(todo) : todo[i].write # "issue"
    PROVE  Opens(c)
<1>1. issued' \in [invites: 0..MaxInvites, tokens: 0..MaxTokens] /\ issued'.tokens = issued.tokens
  BY DEF TypeInv, TypeOK, ReadsOnly
<1>2. DrawsFor(op, todo) /\ Reads /\ call[c] = NoCall
  BY <1>1 DEF DrawsFor, ReadsOnly, Ready
<1> QED BY <1>1, <1>2, PersonOpens

\* A new token is one of the sessions there may be.
LEMMA TokenDrawn ==
    ASSUME TypeInv, DrawsToken
    PROVE  /\ NewToken \in Session /\ Reads
           /\ issued' \in [invites: 0..MaxInvites, tokens: 0..MaxTokens]
           /\ issued'.tokens = NewToken
<1>1. issued \in [invites: 0..MaxInvites, tokens: 0..MaxTokens] /\ issued.tokens < MaxTokens
  BY DEF TypeInv, TypeOK, DrawsToken
<1>2. NewToken \in Session /\ NewToken \in 0..MaxTokens
  BY <1>1, Marks DEF NewToken, Session
<1>3. issued' = [issued EXCEPT !.tokens = NewToken] /\ Reads
  BY DEF DrawsToken
<1> HIDE DEF NewToken
<1> QED BY <1>1, <1>2, <1>3

\* The statements of a sign-in and of a rotation.
LEMMA IssueTokensTyped ==
    ASSUME TypeInv, NEW o \in Session, NEW n \in Session, NewToken = n, NEW w, NEW S,
           Issuing \cup Counting \subseteq S
    PROVE  /\ IssueTokens(o) = <<Issue(n, o), ResetCount>> /\ IssueTokens(o) \in Seq(S)
           /\ <<w>> \o IssueTokens(o) = <<w, Issue(n, o), ResetCount>>
           /\ w \in S => <<w>> \o IssueTokens(o) \in Seq(S)
<1>1. IssueTokens(o) = <<Issue(n, o), ResetCount>>
  BY DEF IssueTokens
<1>2. Issue(n, o) \in S /\ ResetCount \in S
  BY Built
<1>3. ASSUME NEW a, NEW b PROVE <<w>> \o <<a, b>> = <<w, a, b>>
  <2> DEFINE T == {w, a, b}
             q == <<w>> \o <<a, b>>
  <2>1. <<w>> \in Seq(T) /\ <<a, b>> \in Seq(T) /\ <<w, a, b>> \in Seq(T)
    OBVIOUS
  <2>2. /\ q \in Seq(T) /\ Len(q) = 3
        /\ q[1] = w /\ q[2] = a /\ q[3] = b
    BY <2>1, ConcatProperties
  <2>3. \A i \in 1..3 : q[i] = <<w, a, b>>[i]
    BY <2>2
  <2> HIDE DEF q, T
  <2> QED BY <2>1, <2>2, <2>3, SeqEqual DEF q
<1> HIDE DEF ResetCount
<1> QED BY <1>1, <1>2, <1>3

\* A sign-in by password.
LEMMA LoginOpens == ASSUME TypeInv, NEW c \in Slot, Login(c) PROVE Opens(c)
<1>1. PICK u \in User :
        /\ Ready(c, "login") /\ MayLogIn(u)
        /\ \/ /\ user[u].totpEnabled
              /\ Begin(c, "login", u, <<Give("pending", TRUE)>>) /\ ReadsOnly
           \/ /\ ~user[u].totpEnabled
              /\ Begin(c, "login", u, IssueTokens(NewToken)) /\ DrawsToken
  BY DEF Login
<1>2. "login" \in Operation \ (TotpOps \cup RoleOps \cup {"refresh"})
  BY DEF Operation, TotpOps, DrawOps, EnableOps, RoleOps
<1>3. CASE Begin(c, "login", u, <<Give("pending", TRUE)>>) /\ ReadsOnly
  <2>1. /\ <<Give("pending", TRUE)>> \in Seq(Writes("login"))
        /\ \A i \in 1..Len(<<Give("pending", TRUE)>>) : <<Give("pending", TRUE)>>[i].write # "issue"
    BY Built, WritesOf DEF Give
  <2> QED BY <1>1, <1>2, <1>3, <2>1, PlainOpens DEF TotpOps
<1>4. CASE Begin(c, "login", u, IssueTokens(NewToken)) /\ DrawsToken
  <2>1. IssueTokens(NewToken) \in Seq(Writes("login"))
    BY <1>4, TokenDrawn, IssueTokensTyped, WritesOf
  <2>2. DrawsFor("login", IssueTokens(NewToken))
    BY <1>4, TokenDrawn DEF DrawsFor
  <2> QED BY <1>1, <1>2, <1>4, <2>1, <2>2, TokenDrawn, PersonOpens DEF TotpOps, Ready
<1> QED BY <1>1, <1>3, <1>4

\* A failed one is counted.
LEMMA WrongPasswordOpens == ASSUME TypeInv, NEW c \in Slot, WrongPassword(c) PROVE Opens(c)
<1>1. PICK u \in User : /\ Ready(c, "wrongPassword") /\ MayLogIn(u)
                        /\ Begin(c, "wrongPassword", u, <<CountFailure(user[u])>>)
                        /\ ReadsOnly
  BY DEF WrongPassword
<1>2. "wrongPassword" \in Operation \ (TotpOps \cup RoleOps \cup {"refresh"})
  BY DEF Operation, TotpOps, DrawOps, EnableOps, RoleOps
<1>3. user[u] \in UserRow
  BY <1>1 DEF MayLogIn, TypeInv, TypeOK, NoRow
<1>4. CountFailure(user[u]) \in Counting /\ CountFailure(user[u]).write = "user"
  BY <1>3, Built
<1>5. /\ <<CountFailure(user[u])>> \in Seq(Writes("wrongPassword"))
      /\ \A i \in 1..Len(<<CountFailure(user[u])>>) : <<CountFailure(user[u])>>[i].write # "issue"
  BY <1>4, WritesOf
<1> QED BY <1>1, <1>2, <1>5, PlainOpens DEF TotpOps

\* The second factor of a sign-in.
LEMMA VerifyTotpOpens == ASSUME TypeInv, NEW c \in Slot, VerifyTotp(c) PROVE Opens(c)
<1>1. PICK u \in User :
        /\ Ready(c, "verifyTotp") /\ user[u].present
        /\ \/ Begin(c, "verifyTotp", u, IssueTokens(NewToken))
           \/ \E k \in user[u].totpBackupCodes :
                Begin(c, "verifyTotp", u,
                      <<Set([totpBackupCodes |-> user[u].totpBackupCodes \ {k}])>>
                          \o IssueTokens(NewToken))
        /\ DrawsToken
  BY DEF VerifyTotp
<1>2. "verifyTotp" \in Operation \ (TotpOps \cup RoleOps \cup {"refresh"})
  BY DEF Operation, TotpOps, DrawOps, EnableOps, RoleOps
<1>3. CASE Begin(c, "verifyTotp", u, IssueTokens(NewToken))
  <2>1. IssueTokens(NewToken) \in Seq(Writes("verifyTotp"))
    BY <1>1, TokenDrawn, IssueTokensTyped, WritesOf
  <2>2. DrawsFor("verifyTotp", IssueTokens(NewToken))
    BY <1>1, TokenDrawn DEF DrawsFor
  <2> QED BY <1>1, <1>2, <1>3, <2>1, <2>2, TokenDrawn, PersonOpens DEF TotpOps, Ready
<1>4. ASSUME NEW k \in user[u].totpBackupCodes,
             Begin(c, "verifyTotp", u,
                   <<Set([totpBackupCodes |-> user[u].totpBackupCodes \ {k}])>>
                       \o IssueTokens(NewToken))
      PROVE  Opens(c)
  <2> DEFINE w == Set([totpBackupCodes |-> user[u].totpBackupCodes \ {k}])
             todo == <<w>> \o IssueTokens(NewToken)
  <2>1. user[u] \in UserRow
    BY <1>1 DEF TypeInv, TypeOK, NoRow
  <2>2. w \in Spending /\ w.write = "user"
    BY <2>1 DEF Set, Spending, Columns, UserRow
  <2> HIDE DEF w
  <2>3. w \in Writes("verifyTotp") /\ w \in UserWrites
    BY <2>2, WritesOf DEF UserWrites
  <2>4. todo \in Seq(Writes("verifyTotp"))
    BY <1>1, <2>3, TokenDrawn, IssueTokensTyped, WritesOf
  <2>5. DrawsFor("verifyTotp", todo)
    BY <1>1, <2>2, <2>3, TokenDrawn DEF DrawsFor
  <2>6. Begin(c, "verifyTotp", u, todo)
    BY <1>4 DEF w
  <2> HIDE DEF todo
  <2> QED BY <1>1, <1>2, <2>4, <2>5, <2>6, TokenDrawn, PersonOpens DEF TotpOps, Ready
<1> QED BY <1>1, <1>3, <1>4

\* A rotation.
LEMMA RefreshOpens ==
    ASSUME TypeInv, NEW c \in Slot, call[c] = NoCall, NEW s \in Session, RefreshToken(c, s)
    PROVE  Opens(c)
<1> DEFINE w == Other("revoke", {s})
           todo == <<w>> \o IssueTokens(session[s].origin)
<1>1. /\ session[s].present /\ DrawsToken
      /\ Begin(c, "refresh", session[s].user, todo)
  BY DEF RefreshToken, Refreshable
<1>2. "refresh" \in Operation \ (TotpOps \cup RoleOps)
  BY DEF Operation, TotpOps, DrawOps, EnableOps, RoleOps
<1>3. session[s].user \in User /\ session[s].origin \in Session
  BY <1>1, Rows
<1>4. w \in Writes("refresh")
  BY Built, WritesOf
<1>5. todo \in Seq(Writes("refresh"))
  BY <1>1, <1>3, <1>4, TokenDrawn, IssueTokensTyped, WritesOf
<1>6. DrawsFor("refresh", todo)
  BY <1>1, TokenDrawn DEF DrawsFor
<1> HIDE DEF todo
<1> QED BY <1>1, <1>2, <1>3, <1>5, <1>6, TokenDrawn, PersonOpens DEF TotpOps

\* A sign-out.
LEMMA LogoutOpens == ASSUME TypeInv, NEW c \in Slot, Logout(c) PROVE Opens(c)
<1>1. PICK s \in Session :
        /\ Ready(c, "logout") /\ session[s].present
        /\ Begin(c, "logout", session[s].user, <<Other("revoke", {s})>>)
        /\ ReadsOnly
  BY DEF Logout
<1>2. "logout" \in Operation \ (TotpOps \cup RoleOps \cup {"refresh"})
  BY DEF Operation, TotpOps, DrawOps, EnableOps, RoleOps
<1>3. session[s].user \in User
  BY <1>1, Rows
<1>4. /\ <<Other("revoke", {s})>> \in Seq(Writes("logout"))
      /\ \A i \in 1..Len(<<Other("revoke", {s})>>) : <<Other("revoke", {s})>>[i].write # "issue"
  BY Built, WritesOf DEF Other
<1> QED BY <1>1, <1>2, <1>3, <1>4, PlainOpens DEF TotpOps

\* A secret is drawn for an account that has two-factor sign-in off.
LEMMA DrawOpens ==
    ASSUME TypeInv, NEW c \in Slot, SetupTotp(c) \/ SetupInviteTotp(c)
    PROVE  Opens(c)
<1>1. PICK op \in DrawOps, u \in User, x \in Secret :
        /\ Ready(c, op) /\ ~user[u].totpEnabled
        /\ Begin(c, op, u, <<Set([totpSecret |-> x]), Give("app", x)>>)
        /\ ReadsOnly
  BY DEF SetupTotp, SetupInviteTotp, DrawOps
<1> DEFINE todo == <<Set([totpSecret |-> x]), Give("app", x)>>
<1>2. op \in Operation \ (RoleOps \cup {"refresh"}) /\ op \notin EnableOps
  BY DEF Operation, DrawOps, EnableOps, RoleOps
<1>3. Writes(op) = Drawing
  BY WritesOf DEF DrawOps
<1>4. todo \in Seq(Writes(op)) /\ \A i \in 1..Len(todo) : todo[i].write # "issue"
  <2>1. Set([totpSecret |-> x]).write = "user" /\ Give("app", x).write = "give"
    BY DEF Set, Give
  <2> QED BY <1>3, <2>1, Built
<1> QED BY <1>1, <1>2, <1>4, PlainOpens

\* Two-factor sign-in is turned on by a code that matches.
LEMMA EnableOpens ==
    ASSUME TypeInv, NEW c \in Slot, EnableTotp(c) \/ EnableInviteTotp(c)
    PROVE  Opens(c)
<1>1. CASE EnableTotp(c)
  <2> DEFINE w == Set([totpEnabled |-> TRUE, totpBackupCodes |-> Code])
  <2>1. PICK u \in User : /\ Ready(c, "enableTotp") /\ user[u].present /\ CodeMatches(u)
                          /\ Begin(c, "enableTotp", u, <<w>>)
                          /\ ReadsOnly
    BY <1>1 DEF EnableTotp, Authenticated
  <2>2. "enableTotp" \in Operation \ (RoleOps \cup {"refresh"}) /\ "enableTotp" \notin DrawOps
    BY DEF Operation, DrawOps, RoleOps
  <2>3. w \in Enabling /\ w.write = "user"
    BY DEF Set, Enabling, Columns
  <2> HIDE DEF w
  <2>4. <<w>> \in Seq(Writes("enableTotp")) /\ \A i \in 1..Len(<<w>>) : <<w>>[i].write # "issue"
    BY <2>3, WritesOf
  <2> QED BY <2>1, <2>2, <2>4, PlainOpens
<1>2. CASE EnableInviteTotp(c)
  <2> DEFINE w == Set([totpEnabled |-> TRUE, totpBackupCodes |-> Code,
                       inviteTokenHash |-> 0, inviteLive |-> FALSE])
             todo == <<w>> \o IssueTokens(NewToken)
  <2>1. PICK u \in User : /\ Ready(c, "inviteEnable") /\ user[u].present /\ CodeMatches(u)
                          /\ Begin(c, "inviteEnable", u, todo)
                          /\ DrawsToken
    BY <1>2 DEF EnableInviteTotp, SetupVerified, Invited
  <2>2. "inviteEnable" \in Operation \ (RoleOps \cup {"refresh"}) /\ "inviteEnable" \notin DrawOps
    BY DEF Operation, DrawOps, RoleOps
  <2>3. w \in Enabling /\ w.write = "user"
    BY DEF Set, Enabling, Columns
  <2> HIDE DEF w
  <2>4. w \in Writes("inviteEnable") /\ w \in UserWrites
    BY <2>3, WritesOf DEF UserWrites
  <2>5. todo \in Seq(Writes("inviteEnable"))
    BY <2>1, <2>4, TokenDrawn, IssueTokensTyped, WritesOf
  <2>6. DrawsFor("inviteEnable", todo)
    BY <2>1, <2>2, <2>3, <2>4, TokenDrawn DEF DrawsFor
  <2> HIDE DEF todo
  <2> QED BY <2>1, <2>2, <2>5, <2>6, TokenDrawn, PersonOpens DEF Ready
<1> QED BY <1>1, <1>2

\* It is turned off, by its person or by an administrator; a password changes.
LEMMA OffOpens ==
    ASSUME TypeInv, NEW c \in Slot, DisableTotp(c) \/ ResetTotp(c) \/ ChangePassword(c)
    PROVE  Opens(c)
<1>1. CASE DisableTotp(c)
  <2>1. PICK u \in User : /\ Ready(c, "disableTotp") /\ Begin(c, "disableTotp", u, <<TotpOff>>)
                          /\ ReadsOnly
    BY <1>1 DEF DisableTotp
  <2>2. /\ "disableTotp" \in Operation \ (RoleOps \cup {"refresh"})
        /\ "disableTotp" \notin DrawOps /\ "disableTotp" \notin EnableOps
    BY DEF Operation, DrawOps, EnableOps, RoleOps
  <2>3. TotpOff.write = "user"
    BY DEF TotpOff, Set
  <2>4. /\ <<TotpOff>> \in Seq(Writes("disableTotp"))
        /\ \A i \in 1..Len(<<TotpOff>>) : <<TotpOff>>[i].write # "issue"
    BY <2>3, Built, WritesOf
  <2> QED BY <2>1, <2>2, <2>4, PlainOpens
<1>2. CASE ResetTotp(c)
  <2>1. PICK u \in User : /\ Ready(c, "resetTotp")
                          /\ Begin(c, "resetTotp", u, <<TotpOff, Other("revokeAll", u)>>)
                          /\ ReadsOnly
    BY <1>2 DEF ResetTotp
  <2> DEFINE todo == <<TotpOff, Other("revokeAll", u)>>
  <2>2. /\ "resetTotp" \in Operation \ (RoleOps \cup {"refresh"})
        /\ "resetTotp" \notin DrawOps /\ "resetTotp" \notin EnableOps
    BY DEF Operation, DrawOps, EnableOps, RoleOps
  <2>3. TotpOff.write = "user" /\ Other("revokeAll", u).write = "revokeAll"
    BY DEF TotpOff, Set, Other
  <2>4. todo \in Seq(Writes("resetTotp")) /\ \A i \in 1..Len(todo) : todo[i].write # "issue"
    BY <2>3, Built, WritesOf
  <2> QED BY <2>1, <2>2, <2>4, PlainOpens
<1>3. CASE ChangePassword(c)
  <2>1. PICK u \in User :
          /\ Ready(c, "changePassword")
          /\ Begin(c, "changePassword", u,
                   <<Set([passwordHash |-> TRUE]), Other("revokeAll", u)>>)
          /\ ReadsOnly
    BY <1>3 DEF ChangePassword
  <2> DEFINE todo == <<Set([passwordHash |-> TRUE]), Other("revokeAll", u)>>
  <2>2. /\ "changePassword" \in Operation \ (RoleOps \cup {"refresh"})
        /\ "changePassword" \notin DrawOps /\ "changePassword" \notin EnableOps
    BY DEF Operation, DrawOps, EnableOps, RoleOps
  <2>3. Set([passwordHash |-> TRUE]).write = "user" /\ Other("revokeAll", u).write = "revokeAll"
    BY DEF Set, Other
  <2>4. todo \in Seq(Writes("changePassword")) /\ \A i \in 1..Len(todo) : todo[i].write # "issue"
    BY <2>3, Built, WritesOf
  <2> QED BY <2>1, <2>2, <2>4, PlainOpens
<1> QED BY <1>1, <1>2, <1>3

\* What a link gives before it is a person's; a person that leaves.
LEMMA InviteOpens ==
    ASSUME TypeInv, NEW c \in Slot,
           CompleteInvitePassword(c) \/ ResumeInvite(c) \/ RemoveUser(c)
    PROVE  Opens(c)
<1>1. CASE CompleteInvitePassword(c) \/ ResumeInvite(c)
  <2>1. PICK u \in User, i \in Invite :
          /\ Ready(c, "invitePassword")
          /\ \/ Begin(c, "invitePassword", u, <<Set([passwordHash |-> TRUE]), Give("setups", i)>>)
             \/ Begin(c, "invitePassword", u, <<Give("setups", i)>>)
          /\ ReadsOnly
    <3>1. \A u \in User : held[u].links \subseteq Invite
      BY DEF TypeInv, TypeOK
    <3> QED BY <1>1, <3>1 DEF CompleteInvitePassword, ResumeInvite
  <2>3. /\ "invitePassword" \in Operation \ (RoleOps \cup {"refresh"})
        /\ "invitePassword" \notin DrawOps /\ "invitePassword" \notin EnableOps
    BY DEF Operation, DrawOps, EnableOps, RoleOps
  <2> DEFINE w == Set([passwordHash |-> TRUE])
             g == Give("setups", i)
  <2>4. ASSUME NEW todo \in {<<w, g>>, <<g>>}
        PROVE  todo \in Seq(Writes("invitePassword")) /\ \A k \in 1..Len(todo) : todo[k].write # "issue"
    <3>1. w.write = "user" /\ g.write = "give"
      BY DEF Set, Give
    <3>2. w \in Writes("invitePassword") /\ g \in Writes("invitePassword")
      BY Built, WritesOf
    <3> HIDE DEF w, g
    <3>3. CASE todo = <<w, g>>
      BY <3>1, <3>2, <3>3
    <3>4. CASE todo = <<g>>
      BY <3>1, <3>2, <3>4
    <3> QED BY <3>3, <3>4
  <2> QED BY <2>1, <2>3, <2>4, PlainOpens
<1>2. CASE RemoveUser(c)
  <2>1. PICK u \in User : /\ Ready(c, "remove") /\ Begin(c, "remove", u, <<Other("delete", u)>>)
                          /\ ReadsOnly
    BY <1>2 DEF RemoveUser
  <2>2. /\ "remove" \in Operation \ (RoleOps \cup {"refresh"})
        /\ "remove" \notin DrawOps /\ "remove" \notin EnableOps
    BY DEF Operation, DrawOps, EnableOps, RoleOps
  <2>3. Other("delete", u).write = "delete"
    BY DEF Other
  <2>4. /\ <<Other("delete", u)>> \in Seq(Writes("remove"))
        /\ \A i \in 1..Len(<<Other("delete", u)>>) : <<Other("delete", u)>>[i].write # "issue"
    BY <2>3, Built, WritesOf
  <2> QED BY <2>1, <2>2, <2>4, PlainOpens
<1> QED BY <1>1, <1>2

\* Rows with a role, and the switches of two-factor sign-in, belong to the
\* operations that write them.
LEMMA Apart ==
    ASSUME NEW op, NEW w \in Writes(op)
    PROVE  /\ w \in Creating => op = "create"
           /\ w \in Assigning => op = "update"
           /\ w \in Enabling => op \in EnableOps
           /\ w \in Drawing => op \in DrawOps
           /\ w \in Resetting => op \in {"disableTotp", "resetTotp"}
<1>1. /\ w \in Creating => w.write = "create"
      /\ w \in Assigning \cup Enabling \cup Resetting => w.write = "user"
      /\ w \in Drawing => w.write = "user" \/ (w.write = "give" /\ w.field = "app")
  BY DEF Creating, Assigning, Enabling, Resetting, Drawing, Columns, Gift
<1>2. CASE w \in Creating
  <2>1. w.write = "create"
    BY <1>2 DEF Creating
  <2>2. w \notin Issuing \cup Counting \cup Spending \cup Revoking \cup RevokingAll \cup Deleting
                   \cup Saving \cup Syncing \cup Password
    BY <2>1 DEF Issuing, Counting, Spending, Revoking, RevokingAll, Deleting, Saving, Syncing,
                Password, Columns
  <2>3. w \notin Drawing \cup Enabling \cup Resetting \cup Inviting \cup Assigning
                   \cup Gift("pending", {TRUE}) \cup Gift("setups", Invite)
    BY <2>1 DEF Drawing, Enabling, Resetting, Inviting, Assigning, Columns, Gift
  <2> QED BY <1>1, <2>1, <2>2, <2>3 DEF Writes
<1>3. CASE w \in Assigning
  <2>1. w.write = "user"
    BY <1>1, <1>3
  <2>2. w \notin Issuing \cup Revoking \cup RevokingAll \cup Deleting
                   \cup Saving \cup Syncing \cup Creating
    BY <2>1 DEF Issuing, Revoking, RevokingAll, Deleting, Saving, Syncing, Creating
  <2>3. w \notin Gift("pending", {TRUE}) \cup Gift("setups", Invite)
    BY <2>1 DEF Gift
  <2>4. w \notin Counting \cup Spending \cup Password \cup Drawing \cup Enabling \cup Resetting
                   \cup Inviting
    BY <1>3, <2>1, ColumnsOf
  <2> QED BY <1>1, <1>3, <2>2, <2>3, <2>4 DEF Writes
<1>4. CASE w \in Enabling
  <2>1. w.write = "user"
    BY <1>1, <1>4
  <2>2. w \notin Issuing \cup Revoking \cup RevokingAll \cup Deleting
                   \cup Saving \cup Syncing \cup Creating
    BY <2>1 DEF Issuing, Revoking, RevokingAll, Deleting, Saving, Syncing, Creating
  <2>3. w \notin Gift("pending", {TRUE}) \cup Gift("setups", Invite)
    BY <2>1 DEF Gift
  <2>4. w \notin Counting \cup Spending \cup Password \cup Drawing \cup Assigning \cup Resetting
                   \cup Inviting
    <3>1. "totpEnabled" \in DOMAIN w.columns /\ w.columns.totpEnabled = TRUE
      BY <1>4, <2>1, ColumnsOf
    <3>2. w \in Counting \cup Spending \cup Password \cup Drawing \cup Assigning \cup Inviting
            => "totpEnabled" \notin DOMAIN w.columns
      BY <2>1, SwitchColumn
    <3>3. w \in Resetting => w.columns.totpEnabled = FALSE
      BY <2>1, ColumnsOf
    <3> QED BY <3>1, <3>2, <3>3
  <2> QED BY <1>1, <1>4, <2>2, <2>3, <2>4 DEF Writes, EnableOps
<1>5. CASE w \in Drawing
  <2>1. w.write = "user" \/ (w.write = "give" /\ w.field = "app")
    BY <1>1, <1>5
  <2>2. w \notin Issuing \cup Revoking \cup RevokingAll \cup Deleting
                   \cup Saving \cup Syncing \cup Creating
    BY <2>1 DEF Issuing, Revoking, RevokingAll, Deleting, Saving, Syncing, Creating
  <2>3. w \notin Gift("pending", {TRUE}) \cup Gift("setups", Invite) \cup Gift("links", Invite)
    BY <2>1 DEF Gift
  <2>4. w.write = "user" => w \notin Counting \cup Spending \cup Password \cup Enabling
                                       \cup Assigning \cup Resetting \cup Inviting
    BY <1>5, ColumnsOf
  <2>5. w.write = "give" => w \notin Counting \cup Spending \cup Password \cup Enabling
                                       \cup Assigning \cup Resetting \cup Inviting
    BY <2>3 DEF Counting, Spending, Password, Enabling, Assigning, Resetting, Inviting, Columns
  <2> QED BY <1>1, <1>5, <2>1, <2>2, <2>3, <2>4, <2>5 DEF Writes, DrawOps
<1>6. CASE w \in Resetting
  <2>1. w.write = "user"
    BY <1>1, <1>6
  <2>2. w \notin Issuing \cup Revoking \cup RevokingAll \cup Deleting
                   \cup Saving \cup Syncing \cup Creating
    BY <2>1 DEF Issuing, Revoking, RevokingAll, Deleting, Saving, Syncing, Creating
  <2>3. w \notin Gift("pending", {TRUE}) \cup Gift("setups", Invite)
    BY <2>1 DEF Gift
  <2>4. w \notin Counting \cup Spending \cup Password \cup Drawing \cup Assigning \cup Enabling
                   \cup Inviting
    <3>1. "totpEnabled" \in DOMAIN w.columns /\ w.columns.totpEnabled = FALSE
      BY <1>6, <2>1, ColumnsOf
    <3>2. w \in Counting \cup Spending \cup Password \cup Drawing \cup Assigning \cup Inviting
            => "totpEnabled" \notin DOMAIN w.columns
      BY <2>1, SwitchColumn
    <3>3. w \in Enabling => w.columns.totpEnabled = TRUE
      BY <2>1, ColumnsOf
    <3> QED BY <3>1, <3>2, <3>3
  <2> QED BY <1>1, <1>6, <2>2, <2>3, <2>4 DEF Writes
<1> QED BY <1>2, <1>3, <1>4, <1>5, <1>6

\* A statement before others.
LEMMA Prepended ==
    ASSUME NEW S, NEW w \in S, NEW q \in Seq(S)
    PROVE  /\ <<w>> \o q \in Seq(S) /\ Len(<<w>> \o q) = Len(q) + 1
           /\ (<<w>> \o q)[1] = w
           /\ \A i \in 1..Len(q) : (<<w>> \o q)[i + 1] = q[i]
<1>1. <<w>> \in Seq(S) /\ Len(<<w>>) = 1 /\ <<w>>[1] = w /\ Len(q) \in Nat
  OBVIOUS
<1> QED BY <1>1, ConcatProperties

\* A new link is one of the invitations there may be.
LEMMA InviteDrawn ==
    ASSUME TypeInv, DrawsInvite
    PROVE  /\ NewInvite \in Invite /\ Reads
           /\ issued' \in [invites: 0..MaxInvites, tokens: 0..MaxTokens]
           /\ issued'.tokens = issued.tokens
<1>1. issued \in [invites: 0..MaxInvites, tokens: 0..MaxTokens] /\ issued.invites < MaxInvites
  BY DEF TypeInv, TypeOK, DrawsInvite
<1>2. NewInvite \in Invite /\ NewInvite \in 0..MaxInvites
  BY <1>1, Marks DEF NewInvite, Invite
<1>3. issued' = [issued EXCEPT !.invites = NewInvite] /\ Reads
  BY DEF DrawsInvite
<1> HIDE DEF NewInvite
<1> QED BY <1>1, <1>2, <1>3

\* The statements of an invitation.
LEMMA IssueInviteTyped ==
    ASSUME NewInvite \in Invite, NEW S, Inviting \subseteq S
    PROVE  /\ IssueInvite \in Seq(S) /\ Len(IssueInvite) = 2
           /\ IssueInvite[1].write = "user" /\ IssueInvite[2].write = "give"
           /\ \A i \in 1..2 : IssueInvite[i].write # "issue"
<1> DEFINE w == Set([inviteTokenHash |-> NewInvite, inviteLive |-> TRUE])
           g == Give("links", NewInvite)
<1>1. w \in S /\ g \in S
  BY Built
<1>2. w.write = "user" /\ g.write = "give"
  BY DEF Set, Give
<1>3. IssueInvite = <<w, g>>
  BY DEF IssueInvite
<1> HIDE DEF w, g
<1> QED BY <1>1, <1>2, <1>3

\* An invitation is sent again.
LEMMA ResendOpens == ASSUME TypeInv, NEW c \in Slot, ResendInvite(c) PROVE Opens(c)
<1>1. PICK u \in User : Ready(c, "resend") /\ Begin(c, "resend", u, IssueInvite) /\ DrawsInvite
  BY DEF ResendInvite
<1>2. /\ "resend" \in Operation \ RoleOps /\ "resend" # "refresh"
      /\ "resend" \notin DrawOps /\ "resend" \notin EnableOps
  BY DEF Operation, DrawOps, EnableOps, RoleOps
<1>3. /\ NewInvite \in Invite /\ Reads
      /\ issued' \in [invites: 0..MaxInvites, tokens: 0..MaxTokens]
      /\ issued'.tokens = issued.tokens
  BY <1>1, InviteDrawn
<1>4. /\ IssueInvite \in Seq(Writes("resend"))
      /\ \A i \in 1..Len(IssueInvite) : IssueInvite[i].write # "issue"
  BY <1>3, IssueInviteTyped, WritesOf
<1>5. DrawsFor("resend", IssueInvite)
  BY <1>2, <1>3, <1>4 DEF DrawsFor
<1> QED BY <1>1, <1>2, <1>3, <1>4, <1>5, PersonOpens DEF Ready

\* A row with the role of its profile, and an invitation.
LEMMA CreateOpens == ASSUME TypeInv, NEW c \in Slot, CreateUser(c) PROVE Opens(c)
<1>1. PICK u \in User, p \in Profile :
        /\ Ready(c, "create") /\ profile[p].present
        /\ Begin(c, "create", u, <<Other("create", NewUser(p, profile[p].baseRole))>> \o IssueInvite)
        /\ DrawsInvite
  BY DEF CreateUser
<1> DEFINE w == Other("create", NewUser(p, profile[p].baseRole))
           todo == <<w>> \o IssueInvite
<1>2. /\ NewInvite \in Invite /\ Reads
      /\ issued' \in [invites: 0..MaxInvites, tokens: 0..MaxTokens]
      /\ issued'.tokens = issued.tokens
  BY <1>1, InviteDrawn
<1>3. /\ w \in Creating /\ w.write = "create"
      /\ w.what.profileId = p /\ w.what.role = profile[p].baseRole
  <2>1. profile[p].baseRole \in Role
    BY <1>1, Rows
  <2>2. NewUser(p, profile[p].baseRole) \in UserRow
    BY <2>1, AccountsAssumption DEF NewUser, UserRow
  <2> QED BY <2>2 DEF Other, Creating, NewUser
<1> HIDE DEF w
<1>4. /\ todo \in Seq(Writes("create")) /\ Len(todo) = 3
      /\ todo[1] = w /\ todo[2] = IssueInvite[1] /\ todo[3] = IssueInvite[2]
      /\ \A i \in 1..3 : todo[i].write # "issue"
  <2>1. IssueInvite \in Seq(Writes("create")) /\ <<w>> \in Seq(Writes("create"))
    BY <1>2, <1>3, IssueInviteTyped, WritesOf
  <2>2. Len(IssueInvite) = 2 /\ \A i \in 1..2 : IssueInvite[i].write # "issue"
    BY <1>2, IssueInviteTyped
  <2>3. todo \in Seq(Writes("create")) /\ Len(todo) = 3
        /\ todo[1] = w /\ todo[2] = IssueInvite[1] /\ todo[3] = IssueInvite[2]
    <3>1. w \in Writes("create")
      BY <1>3, WritesOf
    <3>2. /\ todo \in Seq(Writes("create")) /\ Len(todo) = Len(IssueInvite) + 1 /\ todo[1] = w
          /\ \A i \in 1..Len(IssueInvite) : todo[i + 1] = IssueInvite[i]
      BY <2>1, <3>1, Prepended
    <3> QED BY <2>2, <3>2
  <2> QED BY <1>3, <2>2, <2>3
<1>5. DrawsFor("create", todo)
  BY <1>2, <1>4 DEF DrawsFor
<1>6. \A i \in 1..Len(todo) : Assigns(todo[i])
  <2>1. \A i \in 1..3 : todo[i] \notin Assigning
    BY <1>4, Apart
  <2>2. todo[2] \notin Creating /\ todo[3] \notin Creating
    BY <1>2, <1>4, IssueInviteTyped DEF Creating
  <2> QED BY <1>3, <1>4, <2>1, <2>2 DEF Assigns
<1>7. u # None /\ "create" \in Operation /\ "create" \notin DrawOps /\ "create" \notin EnableOps
  BY Marks DEF Operation, DrawOps, EnableOps
<1>8. Begin(c, "create", u, todo)
  BY <1>1 DEF w
<1> HIDE DEF todo
<1> QED BY <1>1, <1>2, <1>4, <1>5, <1>6, <1>7, <1>8 DEF Opens, Opening, Ready

\* A role written back is that of the profile, if it was when it was read.
LEMMA UpdateOpens == ASSUME TypeInv, NEW c \in Slot, UpdateUser(c) PROVE Opens(c)
<1>1. "update" \in Operation /\ "update" \notin DrawOps /\ "update" \notin EnableOps
  BY DEF Operation, DrawOps, EnableOps
<1>2. PICK u \in User :
        /\ Ready(c, "update") /\ user[u].present
        /\ \/ \E p \in Profile :
                /\ profile[p].present
                /\ Begin(c, "update", u, <<Set([profileId |-> p, role |-> profile[p].baseRole])>>)
           \/ \E active \in BOOLEAN :
                Begin(c, "update", u, <<Set([isActive |-> active, profileId |-> user[u].profileId,
                                             role |-> user[u].role])>>)
        /\ ReadsOnly
  BY DEF UpdateUser
<1>3. PICK w \in Assigning : /\ w.write = "user" /\ (InSync(u) => Assigns(w))
                             /\ Begin(c, "update", u, <<w>>)
  <2>1. \A w : w.write = "user" => w \notin Creating
    BY DEF Creating
  <2>2. ASSUME NEW p \in Profile, profile[p].present
        PROVE  LET w == Set([profileId |-> p, role |-> profile[p].baseRole]) IN
               w \in Assigning /\ w.write = "user" /\ Assigns(w)
    <3>1. profile[p].baseRole \in Role
      BY <2>2, Rows
    <3> QED BY <2>1, <3>1 DEF Set, Assigning, Columns, Assigns
  <2>3. ASSUME NEW active \in BOOLEAN
        PROVE  LET w == Set([isActive |-> active, profileId |-> user[u].profileId,
                             role |-> user[u].role]) IN
               w \in Assigning /\ w.write = "user" /\ (InSync(u) => Assigns(w))
    <3>1. user[u] \in UserRow
      BY <1>2, Rows
    <3>2. user[u].profileId \in Profile /\ user[u].role \in Role
      BY <3>1 DEF UserRow
    <3> QED BY <1>2, <2>1, <3>2 DEF Set, Assigning, Columns, Assigns, InSync
  <2> QED BY <1>2, <2>2, <2>3
<1>4. /\ <<w>> \in Seq(Writes("update")) /\ \A i \in 1..Len(<<w>>) : <<w>>[i].write # "issue"
      /\ InSync(u) => \A i \in 1..Len(<<w>>) : Assigns(<<w>>[i])
  BY <1>3, WritesOf
<1>5. /\ issued' \in [invites: 0..MaxInvites, tokens: 0..MaxTokens] /\ issued'.tokens = issued.tokens
      /\ Reads
  BY <1>2 DEF TypeInv, TypeOK, ReadsOnly
<1>6. DrawsFor("update", <<w>>)
  BY <1>4, <1>5 DEF DrawsFor
<1> DEFINE todo == <<w>>
<1> HIDE DEF todo
<1>7. Opening(c, "update", u, todo)
  BY <1>1, <1>2, <1>3, <1>4, <1>5, <1>6, Marks DEF Opening, Ready, todo
<1> QED BY <1>7 DEF Opens

\* A profile is created, deleted, or changed and then its bearers with it.
LEMMA ProfileOpens ==
    ASSUME TypeInv, NEW c \in Slot, CreateProfile(c) \/ UpdateProfile(c) \/ RemoveProfile(c)
    PROVE  Opens(c)
<1>1. \A g \in Grants : Normalised(g) \in SUBSET Right /\ DeriveRole(Normalised(g)) \in Role
  BY AccountsAssumption DEF Normalised, DeriveRole, Right, Role
<1>2. \A p \in SystemProfile : profile[p].present /\ Lasts(p, profile[p])
  BY DEF TypeInv, Lasts
<1>3. PICK todo \in Seq(Writes("profile")) :
        /\ Ready(c, "profile") /\ Begin(c, "profile", None, todo) /\ ReadsOnly
        /\ ProfilePlan(todo) /\ \A i \in 1..Len(todo) : todo[i].write # "issue"
  <2>1. CASE CreateProfile(c)
    <3>1. PICK p \in Profile, g \in Grants :
            /\ Ready(c, "profile") /\ ~profile[p].present
            /\ Begin(c, "profile", None,
                     <<SaveProfile(p, FALSE, ProfileRow(g, FALSE, DeriveRole(Normalised(g))))>>)
            /\ ReadsOnly
      BY <2>1 DEF CreateProfile
    <3> DEFINE row == ProfileRow(g, FALSE, DeriveRole(Normalised(g)))
               w == SaveProfile(p, FALSE, row)
    <3>2. row \in ProfileRows
      BY <1>1 DEF ProfileRow, ProfileRows
    <3> HIDE DEF row
    <3>3. w \in Saving /\ w.write = "profile"
      BY <1>2, <3>1, <3>2 DEF SaveProfile, Saving
    <3>4. ProfilePlan(<<w>>)
      BY <3>2 DEF ProfilePlan
    <3>5. Begin(c, "profile", None, <<w>>)
      BY <3>1 DEF row
    <3> HIDE DEF w
    <3>6. <<w>> \in Seq(Writes("profile")) /\ \A i \in 1..Len(<<w>>) : <<w>>[i].write # "issue"
      BY <3>3, WritesOf
    <3> QED BY <3>1, <3>4, <3>5, <3>6
  <2>2. CASE UpdateProfile(c)
    <3>1. PICK p \in Profile, g \in Grants :
            LET role == IF profile[p].isSystem THEN profile[p].baseRole
                        ELSE DeriveRole(Normalised(g))
            IN /\ Ready(c, "profile") /\ profile[p].present
               /\ Begin(c, "profile", None,
                        <<SaveProfile(p, TRUE, ProfileRow(g, profile[p].isSystem, role)),
                          [write |-> "sync", id |-> p, role |-> role]>>)
               /\ ReadsOnly
      BY <2>2 DEF UpdateProfile
    <3> DEFINE role == IF profile[p].isSystem THEN profile[p].baseRole
                       ELSE DeriveRole(Normalised(g))
               row == ProfileRow(g, profile[p].isSystem, role)
               w == SaveProfile(p, TRUE, row)
               v == Sync(p, role)
    <3>2. profile[p].isSystem \in BOOLEAN /\ profile[p].baseRole \in Role
      BY <3>1, Rows
    <3>3. role \in Role /\ (~profile[p].isSystem => role = DeriveRole(Normalised(g)))
                        /\ (profile[p].isSystem => role = profile[p].baseRole)
      BY <1>1, <3>2
    <3> HIDE DEF role
    <3>4. row \in ProfileRows /\ row.baseRole = role /\ (p \in SystemProfile => Lasts(p, row))
      BY <1>1, <1>2, <3>2, <3>3 DEF ProfileRow, ProfileRows, Lasts
    <3> HIDE DEF row
    <3>5. w \in Saving /\ w.write = "profile"
      BY <3>4 DEF SaveProfile, Saving
    <3>6. v \in Syncing /\ v.write = "sync" /\ v = Sync(p, row.baseRole)
      BY <3>3, <3>4 DEF Sync, Syncing
    <3>7. ProfilePlan(<<w, v>>)
      BY <3>4, <3>6 DEF ProfilePlan
    <3>8. Begin(c, "profile", None, <<w, v>>)
      BY <3>1 DEF row, role, Sync
    <3> HIDE DEF w, v
    <3>9. <<w, v>> \in Seq(Writes("profile")) /\ \A i \in 1..Len(<<w, v>>) : <<w, v>>[i].write # "issue"
      BY <3>5, <3>6, WritesOf
    <3> QED BY <3>1, <3>7, <3>8, <3>9
  <2>3. CASE RemoveProfile(c)
    <3>1. PICK p \in Profile :
            /\ Ready(c, "profile") /\ ~profile[p].isSystem
            /\ Begin(c, "profile", None, <<SaveProfile(p, TRUE, NoRow)>>)
            /\ ReadsOnly
      BY <2>3 DEF RemoveProfile
    <3> DEFINE w == SaveProfile(p, TRUE, NoRow)
    <3>2. p \notin SystemProfile
      BY <1>2, <3>1 DEF Lasts
    <3>3. w \in Saving /\ w.write = "profile"
      BY <3>2 DEF SaveProfile, Saving
    <3>4. ProfilePlan(<<w>>)
      BY DEF ProfilePlan
    <3> HIDE DEF w
    <3>5. <<w>> \in Seq(Writes("profile")) /\ \A i \in 1..Len(<<w>>) : <<w>>[i].write # "issue"
      BY <3>3, WritesOf
    <3> QED BY <3>1, <3>4, <3>5 DEF w
  <2> QED BY <2>1, <2>2, <2>3
<1>4. /\ issued' \in [invites: 0..MaxInvites, tokens: 0..MaxTokens] /\ issued'.tokens = issued.tokens
      /\ Reads
  BY <1>3 DEF TypeInv, TypeOK, ReadsOnly
<1>5. "profile" \in Operation /\ "profile" \notin DrawOps /\ "profile" \notin EnableOps
  BY DEF Operation, DrawOps, EnableOps
<1>6. Opening(c, "profile", None, todo)
  BY <1>3, <1>4, <1>5 DEF Opening, DrawsFor, Ready
<1> QED BY <1>6 DEF Opens

\* So every request, that of a tab included, opens a call.
LEMMA RequestOpens ==
    ASSUME TypeInv, NEW c \in Slot,
           Request(c) \/ (call[c] = NoCall /\ \E s \in Session : RefreshToken(c, s))
    PROVE  Opens(c)
  BY LoginOpens, WrongPasswordOpens, VerifyTotpOpens, RefreshOpens, LogoutOpens, DrawOpens,
     EnableOpens, OffOpens, InviteOpens, ResendOpens, CreateOpens, UpdateOpens, ProfileOpens
     DEF Request, Refresh, Ready

-----------------------------------------------------------------------------
(* Types *)

\* The seed adds the administrator, with the role of the profile, if it is absent.
LEMMA SeededTyped ==
    ASSUME NEW rows, \A u \in User : rows[u] \in UserRow \cup {NoRow},
           NEW profiles, \A p \in SystemProfile : Lasts(p, profiles[p]),
           rows \in [User -> UserRow \cup {NoRow}]
    PROVE  /\ Seeded(rows) \in [User -> UserRow \cup {NoRow}]
           /\ \A u \in User : rows[u].present => Seeded(rows)[u] = rows[u]
           /\ \A u \in User : Seeded(rows)[u].present /\ ~rows[u].present =>
                 /\ Seeded(rows)[u].profileId \in SystemProfile
                 /\ profiles[Seeded(rows)[u].profileId].present
                 /\ Seeded(rows)[u].role = profiles[Seeded(rows)[u].profileId].baseRole
                 /\ ~Seeded(rows)[u].totpEnabled
<1>1. CASE rows[SeedUser].present
  BY <1>1 DEF Seeded
<1>2. CASE ~rows[SeedUser].present
  <2> DEFINE admins == CHOOSE p \in SystemProfile : SystemRole[p] = "ADMIN"
             row == [NewUser(admins, "ADMIN") EXCEPT !.passwordHash = TRUE]
  <2>1. admins \in SystemProfile /\ SystemRole[admins] = "ADMIN" /\ admins \in Profile
    BY AccountsAssumption
  <2>2. Seeded(rows) = [rows EXCEPT ![SeedUser] = row]
    BY <1>2 DEF Seeded
  <2> HIDE DEF admins
  <2>3. /\ row \in UserRow /\ row.profileId = admins /\ row.role = "ADMIN" /\ ~row.totpEnabled
    <3>1. /\ NewUser(admins, "ADMIN") \in UserRow
          /\ NewUser(admins, "ADMIN").profileId = admins
          /\ NewUser(admins, "ADMIN").role = "ADMIN" /\ ~NewUser(admins, "ADMIN").totpEnabled
      BY <2>1, AccountsAssumption DEF NewUser, UserRow, Role
    <3> QED BY <3>1 DEF UserRow
  <2> HIDE DEF row
  <2>4. SeedUser \in User
    BY AccountsAssumption
  <2>5. profiles[admins].present /\ profiles[admins].baseRole = "ADMIN"
    BY <2>1 DEF Lasts
  <2> QED BY <1>2, <2>1, <2>2, <2>3, <2>4, <2>5
<1> QED BY <1>1, <1>2

\* The state the server starts in has its type.
LEMMA InitTyped == Init => TypeInv
<1> SUFFICES ASSUME Init PROVE TypeInv
  OBVIOUS
<1>1. \A p \in SystemProfile : SystemRow(p) \in ProfileRows /\ Lasts(p, SystemRow(p))
  BY AccountsAssumption DEF SystemRow, ProfileRow, ProfileRows, Lasts, Normalised, Right, Role
<1>2. /\ profile \in [Profile -> ProfileRows \cup {NoRow}]
      /\ \A p \in SystemProfile : Lasts(p, profile[p])
  BY <1>1, AccountsAssumption DEF Init
<1>3. /\ user \in [User -> UserRow \cup {NoRow}]
      /\ \A u \in User : user[u].present => profile[user[u].profileId].present
  <2> DEFINE none == [u \in User |-> NoRow]
  <2>1. none \in [User -> UserRow \cup {NoRow}] /\ \A u \in User : ~none[u].present
    BY DEF NoRow
  <2>2. user = none \/ user = Seeded(none)
    BY DEF Init
  <2> HIDE DEF none
  <2> QED BY <1>2, <2>1, <2>2, SeededTyped
<1>4. call \in [Slot -> CallState] /\ \A c \in Slot : Plausible(call[c])
  <2>1. NoCall \in CallState
    BY Marks DEF NoCall, CallState
  <2>2. Plausible(NoCall)
    BY DEF NoCall, Plausible
  <2> QED BY <2>1, <2>2 DEF Init
<1>5. /\ held \in [User -> [links: SUBSET Invite, setups: SUBSET Invite, pending: BOOLEAN,
                            access: BOOLEAN, app: Secret \cup {None}]]
      /\ issued \in [invites: 0..MaxInvites, tokens: 0..MaxTokens]
      /\ restarts \in 0..MaxRestarts
  BY AccountsAssumption DEF Init, NothingHeld
<1>6. session \in [Session -> SessionRow \cup {NoRow}] /\ \A s \in Session : ~session[s].present
  BY DEF Init, NoRow
<1>7. \A p \in Profile : profile[p].present => profile[p].baseRole \in Role
  <2>1. \A r \in ProfileRows : r.baseRole \in Role
    BY DEF ProfileRows
  <2> QED BY <1>2, <2>1 DEF NoRow
<1>8. workload \in Workloads
  BY DEF Init
<1> QED BY <1>2, <1>3, <1>4, <1>5, <1>6, <1>7, <1>8 DEF TypeInv, TypeOK

\* A request that opens a call keeps the types, and the other calls.
LEMMA OpeningTyped ==
    ASSUME TypeInv, NEW c \in Slot, NEW op, NEW u, NEW todo, Opening(c, op, u, todo)
    PROVE  /\ TypeInv'
           /\ call'[c] = [op |-> op, user |-> u, todo |-> todo, result |-> 0]
           /\ \A d \in Slot \ {c} : call'[d] = call[d]
<1> DEFINE k == [op |-> op, user |-> u, todo |-> todo, result |-> 0]
<1>1. call' = [call EXCEPT ![c] = k] /\ Reads
  BY DEF Opening, Begin
<1>2. k \in CallState /\ Plausible(k)
  <2>1. Writes(op) \subseteq AnyWrite /\ op \in Operation
    BY DEF AnyWrite, Opening
  <2>2. todo \in Seq(Writes(op)) /\ todo \in Seq(AnyWrite)
    BY <2>1 DEF Opening
  <2>3. op # None
    BY <2>1 DEF Operation, None
  <2> QED BY <2>1, <2>2, <2>3, Marks DEF Opening, CallState, Plausible
<1> HIDE DEF k
<1>3. /\ call' \in [Slot -> CallState] /\ \A d \in Slot : Plausible(call'[d])
      /\ call'[c] = k /\ \A d \in Slot \ {c} : call'[d] = call[d]
  BY <1>1, <1>2 DEF TypeInv
<1>4. issued' \in [invites: 0..MaxInvites, tokens: 0..MaxTokens]
  BY DEF Opening
<1>5. TypeInv'
  BY <1>1, <1>3, <1>4 DEF TypeInv, TypeOK, Reads
<1> QED BY <1>3, <1>5 DEF k

\* Statements about somebody are awaited by a call about somebody.
LEMMA AwaitsPerson ==
    ASSUME TypeInv, NEW c \in Slot, call[c].todo # <<>>, Head1(c).write \notin {"profile", "sync"}
    PROVE  call[c].user \in User
<1>1. call[c].op # "profile"
  <2>1. \A w \in Saving \cup Syncing : w.write \in {"profile", "sync"}
    BY DEF Saving, Syncing
  <2> QED BY <2>1, HeadTyped, WritesOf
<1>2. call[c] \in CallState /\ Plausible(call[c]) /\ call[c].op \in Operation
  BY HeadTyped DEF TypeInv
<1>3. call[c].op # None
  BY <1>2 DEF Operation, None
<1> QED BY <1>1, <1>2, <1>3 DEF CallState, Plausible

\* The columns of a row are written, or the row or its profile is gone.
LEMMA WriteUserTyped ==
    ASSUME TypeInv, NEW c \in Slot, WriteUser(c)
    PROVE  /\ TypeInv'
           /\ call[c].todo # <<>> /\ Head1(c).write = "user" /\ Head1(c) \in UserWrites
           /\ call[c].user \in User
           /\ \/ /\ user[call[c].user].present /\ Goes(c)
                 /\ user' = [user EXCEPT ![call[c].user] = Merged(@, Head1(c).columns)]
                 /\ user'[call[c].user].present
                 /\ UNCHANGED <<profile, session, held>>
              \/ Throws(c)
           /\ UNCHANGED <<issued, crossed, restarts, workload>>
<1> DEFINE u == call[c].user
           w == Head1(c)
<1>1. call[c].todo # <<>> /\ w.write = "user" /\ w \in UserWrites /\ u \in User
  BY HeadTyped, WriteKinds, AwaitsPerson DEF WriteUser, Awaits
<1>2. UNCHANGED <<issued, crossed, restarts, workload>>
  BY DEF WriteUser
<1>3. CASE Throws(c)
  BY <1>1, <1>2, <1>3, ThrowsTyped DEF TypeInv, TypeOK
<1>4. CASE ~Throws(c)
  <2>1. /\ user[u].present
        /\ "profileId" \in DOMAIN w.columns => profile[w.columns.profileId].present
        /\ user' = [user EXCEPT ![u] = Merged(@, w.columns)]
        /\ Goes(c) /\ UNCHANGED <<profile, session, held>>
    BY <1>4 DEF WriteUser
  <2> DEFINE row == Merged(user[u], w.columns)
  <2>2. user[u] \in UserRow
    BY <1>1, <2>1, Rows
  <2>3. row \in UserRow
    BY <1>1, <2>2, MergedTyped
  <2>4. row.profileId = IF "profileId" \in DOMAIN w.columns THEN w.columns.profileId
                                                            ELSE user[u].profileId
    BY <1>1, <2>2, MergedTyped DEF Fields
  <2>5. row.present
    BY <2>3 DEF UserRow
  <2>6. profile[row.profileId].present
    BY <1>1, <2>1, <2>4 DEF TypeInv, TypeOK
  <2> HIDE DEF row, u, w
  <2>7. /\ user' = [user EXCEPT ![u] = row] /\ user \in [User -> UserRow \cup {NoRow}]
    BY <2>1 DEF TypeInv, TypeOK, row
  <2>8. /\ user' \in [User -> UserRow \cup {NoRow}] /\ user'[u] = row
        /\ \A v \in User : v # u => user'[v] = user[v]
    BY <1>1, <2>3, <2>7
  <2>9. /\ call' \in [Slot -> CallState] /\ \A d \in Slot : Plausible(call'[d])
    BY <1>1, <2>1, GoesTyped
  <2>10. /\ \A v \in User : user'[v].present => profile[user'[v].profileId].present
         /\ \A s \in Session : session[s].present => user'[session[s].user].present
    BY <2>5, <2>6, <2>8, Rows DEF TypeInv, TypeOK
  <2>11. TypeInv'
    BY <1>2, <2>1, <2>8, <2>9, <2>10 DEF TypeInv, TypeOK
  <2> QED BY <1>1, <1>2, <2>1, <2>5, <2>8, <2>11 DEF u, w
<1> QED BY <1>3, <1>4

\* What the person is given is a link, a set-up, a secret, or the second factor.
LEMMA WriteGiveTyped ==
    ASSUME TypeInv, NEW c \in Slot, WriteGive(c)
    PROVE  /\ TypeInv'
           /\ call[c].todo # <<>> /\ Head1(c).write = "give" /\ call[c].user \in User
           /\ \/ /\ Goes(c) /\ UNCHANGED <<user, profile, session>>
                 /\ \A v \in User : held'[v].app # held[v].app =>
                       v = call[c].user /\ Head1(c).field = "app"
              \/ Throws(c)
           /\ UNCHANGED <<issued, crossed, restarts, workload>>
<1> DEFINE u == call[c].user
           g == Head1(c)
           after == Brought(held[u], g)
<1>1. /\ call[c].todo # <<>> /\ g.write = "give" /\ u \in User
      /\ \/ g.field = "links" /\ g.what \in Invite
         \/ g.field = "setups" /\ g.what \in Invite
         \/ g.field = "app" /\ g.what \in Secret
         \/ g.field = "pending"
  BY HeadTyped, WriteKinds, AwaitsPerson DEF WriteGive, Awaits
<1>2. UNCHANGED <<issued, crossed, restarts, workload>>
  BY DEF WriteGive
<1>3. CASE Throws(c)
  BY <1>1, <1>2, <1>3, ThrowsTyped DEF TypeInv, TypeOK
<1>4. CASE ~Throws(c)
  <2>1. /\ held' = [held EXCEPT ![u] = after]
        /\ Goes(c) /\ UNCHANGED <<user, profile, session>>
    BY <1>4 DEF WriteGive
  <2> DEFINE Holding == [links: SUBSET Invite, setups: SUBSET Invite, pending: BOOLEAN,
                         access: BOOLEAN, app: Secret \cup {None}]
  <2>2. held \in [User -> Holding]
    BY DEF TypeInv, TypeOK
  <2>3. held[u] \in Holding
    BY <1>1, <2>2
  <2>4. after \in Holding /\ (g.field # "app" => after.app = held[u].app)
    <3> HIDE DEF g, u
    <3>1. CASE g.field = "links"
      BY <1>1, <2>3, <3>1 DEF Brought
    <3>2. CASE g.field = "setups"
      BY <1>1, <2>3, <3>2 DEF Brought
    <3>3. CASE g.field = "app"
      BY <1>1, <2>3, <3>3 DEF Brought
    <3>4. CASE g.field = "pending"
      BY <1>1, <2>3, <3>4 DEF Brought
    <3> QED BY <1>1, <3>1, <3>2, <3>3, <3>4
  <2> HIDE DEF after
  <2>5. /\ held' \in [User -> Holding]
        /\ \A v \in User : held'[v].app # held[v].app => v = u /\ g.field = "app"
    BY <1>1, <2>1, <2>2, <2>4
  <2>6. call' \in [Slot -> CallState] /\ \A d \in Slot : Plausible(call'[d])
    BY <1>1, <2>1, GoesTyped
  <2>7. TypeInv'
    BY <1>2, <2>1, <2>5, <2>6 DEF TypeInv, TypeOK
  <2> QED BY <1>1, <1>2, <2>1, <2>5, <2>7
<1> QED BY <1>3, <1>4

\* A token is issued to somebody there is.
LEMMA IssueTokenTyped ==
    ASSUME TypeInv, NEW c \in Slot, IssueToken(c)
    PROVE  /\ TypeInv'
           /\ call[c].todo # <<>> /\ Head1(c).write = "issue" /\ Head1(c) \in Issuing
           /\ call[c].user \in User
           /\ \/ /\ session' = [session EXCEPT ![Head1(c).token] =
                                  [present |-> TRUE, user |-> call[c].user,
                                   origin |-> Head1(c).origin]]
                 /\ user[call[c].user].present
                 /\ call'[c].todo = Tail(call[c].todo)
                 /\ \A d \in Slot : call'[d].op = call[d].op /\ call'[d].user = call[d].user
                 /\ \A d \in Slot \ {c} : call'[d] = call[d]
                 /\ \A v \in User : held'[v].app = held[v].app
                 /\ UNCHANGED <<user, profile>>
              \/ Throws(c)
           /\ UNCHANGED <<issued, crossed, restarts, workload>>
<1> DEFINE u == call[c].user
           w == Head1(c)
<1>1. /\ call[c].todo # <<>> /\ w.write = "issue" /\ w \in Issuing /\ u \in User
      /\ w.token \in Session /\ w.origin \in Session
  <2>1. call[c].todo # <<>> /\ w.write = "issue" /\ w \in Issuing /\ u \in User
    BY HeadTyped, WriteKinds, AwaitsPerson DEF IssueToken, Awaits
  <2> QED BY <2>1 DEF Issuing
<1>2. UNCHANGED <<issued, crossed, restarts, workload>>
  BY DEF IssueToken
<1>3. CASE Throws(c)
  BY <1>1, <1>2, <1>3, ThrowsTyped DEF TypeInv, TypeOK
<1>4. CASE ~Throws(c)
  <2> DEFINE row == [present |-> TRUE, user |-> u, origin |-> w.origin]
             Holding == [links: SUBSET Invite, setups: SUBSET Invite, pending: BOOLEAN,
                         access: BOOLEAN, app: Secret \cup {None}]
  <2>1. /\ user[u].present
        /\ session' = [session EXCEPT ![w.token] = row]
        /\ call' = [call EXCEPT ![c].todo = Tail(@), ![c].result = w.token]
        /\ held' = [held EXCEPT ![u].access = TRUE, ![u].pending = FALSE]
        /\ UNCHANGED <<user, profile>>
    BY <1>4 DEF IssueToken
  <2>2. row \in SessionRow
    BY <1>1 DEF SessionRow
  <2>3. row.user = u
    OBVIOUS
  <2>4. call \in [Slot -> CallState] /\ w.token \in 0..MaxTokens
    BY <1>1, Marks DEF TypeInv, Session
  <2>5. call' = [call EXCEPT ![c] = [call[c] EXCEPT !.todo = Tail(call[c].todo), !.result = w.token]]
    BY <2>1, <2>4 DEF CallState
  <2>6. /\ call' \in [Slot -> CallState] /\ \A d \in Slot : Plausible(call'[d])
        /\ \A d \in Slot : call'[d].op = call[d].op /\ call'[d].user = call[d].user
        /\ \A d \in Slot \ {c} : call'[d] = call[d]
        /\ call'[c].todo = Tail(call[c].todo)
    BY <1>1, <2>4, <2>5, HeadTyped, CallMoves
  <2>7. held \in [User -> Holding]
    BY DEF TypeInv, TypeOK
  <2>8. held' \in [User -> Holding] /\ \A v \in User : held'[v].app = held[v].app
    <3> DEFINE after == [held[u] EXCEPT !.access = TRUE, !.pending = FALSE]
    <3>1. held[u] \in Holding
      BY <1>1, <2>7
    <3>2. held' = [held EXCEPT ![u] = after]
      BY <1>1, <2>1, <2>7
    <3>3. after \in Holding /\ after.app = held[u].app
      BY <3>1
    <3> HIDE DEF after
    <3> QED BY <1>1, <2>7, <3>2, <3>3
  <2> HIDE DEF row, Holding, w, u
  <2>9. session \in [Session -> SessionRow \cup {NoRow}]
    BY DEF TypeInv
  <2>10. /\ session' \in [Session -> SessionRow \cup {NoRow}]
         /\ \A s \in Session : session'[s].present => user[session'[s].user].present
    BY <1>1, <2>1, <2>2, <2>3, <2>9 DEF TypeInv, TypeOK
  <2>11. TypeInv'
    BY <1>2, <2>1, <2>6, <2>8, <2>10 DEF TypeInv, TypeOK, Holding
  <2> QED BY <1>1, <1>2, <2>1, <2>6, <2>8, <2>11 DEF row, w, u
<1> QED BY <1>3, <1>4

\* Tokens are revoked.
LEMMA RevokeTyped ==
    ASSUME TypeInv, NEW c \in Slot, Revoke(c)
    PROVE  /\ TypeInv'
           /\ call[c].todo # <<>> /\ Head1(c).write \in {"revoke", "revokeAll"} /\ Goes(c)
           /\ \A s \in Session : session'[s] = session[s] \/ session'[s] = NoRow
           /\ Head1(c).write = "revoke" => \A s \in Head1(c).what : session'[s] = NoRow
           /\ UNCHANGED <<user, profile, held, issued, crossed, restarts, workload>>
<1>1. call[c].todo # <<>> /\ Head1(c).write \in {"revoke", "revokeAll"} /\ Goes(c)
  BY DEF Revoke, Awaits
<1>2. UNCHANGED <<user, profile, held, issued, crossed, restarts, workload>>
  BY DEF Revoke
<1>3. Head1(c).write = "revoke" => Head1(c).what \subseteq Session
  <2>1. \A w \in Revoking : w.what \subseteq Session
    BY DEF Revoking
  <2> QED BY <1>1, <2>1, HeadTyped, WriteKinds
<1>4. /\ session' \in [Session -> SessionRow \cup {NoRow}]
      /\ \A s \in Session : session'[s] = session[s] \/ session'[s] = NoRow
      /\ Head1(c).write = "revoke" => \A s \in Head1(c).what : session'[s] = NoRow
  BY <1>1, <1>3 DEF Revoke, Awaits, TypeInv
<1>5. call' \in [Slot -> CallState] /\ \A d \in Slot : Plausible(call'[d])
  BY <1>1, GoesTyped
<1>6. \A s \in Session : session'[s].present => user[session'[s].user].present
  BY <1>4 DEF TypeInv, TypeOK, NoRow
<1>7. TypeInv'
  BY <1>2, <1>4, <1>5, <1>6 DEF TypeInv, TypeOK
<1> QED BY <1>1, <1>2, <1>4, <1>7

\* A row is inserted, unless the address is taken or the profile gone.
LEMMA InsertUserTyped ==
    ASSUME TypeInv, NEW c \in Slot, InsertUser(c)
    PROVE  /\ TypeInv'
           /\ call[c].todo # <<>> /\ Head1(c) \in Creating /\ call[c].user \in User
           /\ call[c].op = "create" /\ Head1(c).what \in UserRow
           /\ \/ /\ ~user[call[c].user].present /\ Goes(c)
                 /\ profile[Head1(c).what.profileId].present
                 /\ user' = [user EXCEPT ![call[c].user] = Head1(c).what]
                 /\ UNCHANGED <<profile, session, held>>
              \/ Throws(c)
           /\ UNCHANGED <<issued, crossed, restarts, workload>>
<1> DEFINE u == call[c].user
           row == Head1(c).what
<1>1. /\ call[c].todo # <<>> /\ Head1(c) \in Creating /\ u \in User /\ row \in UserRow
      /\ call[c].op = "create"
  <2>1. call[c].todo # <<>> /\ Head1(c) \in Creating /\ u \in User
    BY HeadTyped, WriteKinds, AwaitsPerson DEF InsertUser, Awaits
  <2> QED BY <2>1, HeadTyped, Apart DEF Creating
<1>2. UNCHANGED <<issued, crossed, restarts, workload>>
  BY DEF InsertUser
<1>3. CASE Throws(c)
  BY <1>1, <1>2, <1>3, ThrowsTyped DEF TypeInv, TypeOK
<1>4. CASE ~Throws(c)
  <2>1. /\ ~user[u].present /\ profile[row.profileId].present
        /\ user' = [user EXCEPT ![u] = row]
        /\ Goes(c) /\ UNCHANGED <<profile, session, held>>
    BY <1>4 DEF InsertUser
  <2>2. row.present
    BY <1>1 DEF UserRow
  <2>3. call' \in [Slot -> CallState] /\ \A d \in Slot : Plausible(call'[d])
    BY <1>1, <2>1, GoesTyped
  <2> HIDE DEF u, row
  <2>4. /\ user' \in [User -> UserRow \cup {NoRow}] /\ user'[u] = row
        /\ \A v \in User : v # u => user'[v] = user[v]
    BY <1>1, <2>1 DEF TypeInv, TypeOK
  <2>5. /\ \A v \in User : user'[v].present => profile[user'[v].profileId].present
        /\ \A s \in Session : session[s].present => user'[session[s].user].present
    BY <2>1, <2>2, <2>4, Rows DEF TypeInv, TypeOK
  <2>6. TypeInv'
    BY <1>2, <2>1, <2>3, <2>4, <2>5 DEF TypeInv, TypeOK
  <2> QED BY <1>1, <1>2, <2>1, <2>6 DEF u, row
<1> QED BY <1>3, <1>4

\* A row goes with its tokens, and with what other calls await about it.
LEMMA DeleteUserTyped ==
    ASSUME TypeInv, NEW c \in Slot, DeleteUser(c)
    PROVE  /\ TypeInv'
           /\ call[c].user \in User /\ Head1(c).write = "delete"
           /\ user' = [user EXCEPT ![call[c].user] = NoRow]
           /\ \A s \in Session : session'[s] = session[s] \/ session'[s] = NoRow
           /\ held' = [held EXCEPT ![call[c].user] = NothingHeld]
           /\ \A d \in Slot : call'[d].op = call[d].op /\ call'[d].user = call[d].user
           /\ \A d \in Slot : call'[d] # call[d] =>
                 call'[d].todo = <<>> /\ call[d].user = call[c].user
           /\ \A d \in Slot : call[d].user = call[c].user /\ call'[d].todo # <<>>
                                => call[d].op = "create"
           /\ UNCHANGED <<profile, issued, crossed, restarts, workload>>
<1> DEFINE u == call[c].user
<1>1. call[c].todo # <<>> /\ Head1(c).write = "delete" /\ u \in User
  BY AwaitsPerson DEF DeleteUser, Awaits
<1>2. UNCHANGED <<profile, issued, crossed, restarts, workload>>
  BY DEF DeleteUser
<1>3. /\ user' = [user EXCEPT ![u] = NoRow]
      /\ session' = [s \in Session |-> IF session[s].present /\ session[s].user = u
                                       THEN NoRow ELSE session[s]]
      /\ held' = [held EXCEPT ![u] = NothingHeld]
      /\ call' = [d \in Slot |-> IF call[d].user = u /\ ~Awaits(d, "create")
                                 THEN [call[d] EXCEPT !.todo = <<>>] ELSE call[d]]
  BY DEF DeleteUser
<1>4. ASSUME NEW k \in CallState, Plausible(k)
      PROVE  /\ [k EXCEPT !.todo = <<>>] \in CallState /\ Plausible([k EXCEPT !.todo = <<>>])
             /\ [k EXCEPT !.todo = <<>>].todo = <<>> /\ [k EXCEPT !.todo = <<>>].op = k.op
             /\ [k EXCEPT !.todo = <<>>].user = k.user
  <2>1. <<>> \in Seq(AnyWrite) /\ <<>> \in Seq(Writes(k.op))
    OBVIOUS
  <2> QED BY <1>4, <2>1 DEF CallState, Plausible
<1>5. /\ call' \in [Slot -> CallState] /\ \A d \in Slot : Plausible(call'[d])
      /\ \A d \in Slot : call'[d].op = call[d].op /\ call'[d].user = call[d].user
      /\ \A d \in Slot : call'[d] # call[d] => call'[d].todo = <<>> /\ call[d].user = u
  BY <1>3, <1>4 DEF TypeInv
<1>6. ASSUME NEW d \in Slot, call[d].user = u, call'[d].todo # <<>> PROVE call[d].op = "create"
  <2>1. Awaits(d, "create")
    BY <1>3, <1>4, <1>6 DEF TypeInv
  <2> QED BY <2>1, HeadTyped, WriteKinds, Apart DEF Awaits
<1> HIDE DEF u
<1>7. /\ session' \in [Session -> SessionRow \cup {NoRow}]
      /\ \A s \in Session : session'[s] = session[s] \/ session'[s] = NoRow
      /\ \A s \in Session : session'[s].present =>
            session[s].present /\ session[s].user # u /\ session'[s] = session[s]
  BY <1>3 DEF TypeInv, NoRow
<1>8. /\ user' \in [User -> UserRow \cup {NoRow}] /\ ~user'[u].present
      /\ \A v \in User : v # u => user'[v] = user[v]
  BY <1>1, <1>3 DEF TypeInv, TypeOK, NoRow
<1>9. /\ \A v \in User : user'[v].present => profile[user'[v].profileId].present
      /\ \A s \in Session : session'[s].present => user'[session'[s].user].present
  BY <1>7, <1>8, Rows DEF TypeInv, TypeOK
<1>10. held' \in [User -> [links: SUBSET Invite, setups: SUBSET Invite, pending: BOOLEAN,
                           access: BOOLEAN, app: Secret \cup {None}]]
  BY <1>1, <1>3 DEF TypeInv, TypeOK, NothingHeld
<1>11. TypeInv'
  BY <1>2, <1>5, <1>7, <1>8, <1>9, <1>10 DEF TypeInv, TypeOK
<1> QED BY <1>1, <1>2, <1>3, <1>5, <1>6, <1>7, <1>11 DEF u

\* A profile that somebody bears stays, and those of the seed stay what they are.
LEMMA WriteProfileTyped ==
    ASSUME TypeInv, NEW c \in Slot, WriteProfile(c)
    PROVE  /\ TypeInv'
           /\ call[c].todo # <<>> /\ Head1(c) \in Saving /\ call[c].op = "profile"
           /\ Head1(c).id \in Profile
           /\ \/ /\ profile[Head1(c).id].present = Head1(c).exists
                 /\ Head1(c).row = NoRow => Bearers(Head1(c).id) = {}
                 /\ profile' = [profile EXCEPT ![Head1(c).id] = Head1(c).row]
                 /\ Goes(c) /\ UNCHANGED <<user, session, held>>
              \/ Throws(c)
           /\ UNCHANGED <<issued, crossed, restarts, workload>>
<1> DEFINE w == Head1(c)
<1>1. /\ call[c].todo # <<>> /\ w \in Saving /\ w.id \in Profile
      /\ w.row \in ProfileRows \cup {NoRow} /\ (w.id \in SystemProfile => Lasts(w.id, w.row))
  <2>1. call[c].todo # <<>> /\ w \in Saving
    BY HeadTyped, WriteKinds DEF WriteProfile, Awaits
  <2> QED BY <2>1 DEF Saving
<1>2. UNCHANGED <<issued, crossed, restarts, workload>>
  BY DEF WriteProfile
<1>3. call[c].op = "profile"
  <2>1. w.write = "profile"
    BY DEF WriteProfile, Awaits
  <2>2. w \notin Issuing \cup Revoking \cup RevokingAll \cup Deleting \cup Creating
    BY <2>1 DEF Issuing, Revoking, RevokingAll, Deleting, Creating
  <2>3. w \notin Counting \cup Spending \cup Password \cup Enabling \cup Resetting \cup Assigning
    BY <2>1 DEF Counting, Spending, Password, Enabling, Resetting, Assigning, Columns
  <2>4. w \notin Drawing \cup Inviting \cup Gift("pending", {TRUE}) \cup Gift("setups", Invite)
    BY <2>1 DEF Drawing, Inviting, Columns, Gift
  <2>5. w \in Writes(call[c].op)
    BY <1>1, HeadTyped
  <2> HIDE DEF w
  <2> QED BY <2>2, <2>3, <2>4, <2>5 DEF Writes
<1>4. CASE Throws(c)
  BY <1>1, <1>2, <1>3, <1>4, ThrowsTyped DEF TypeInv, TypeOK
<1>5. CASE ~Throws(c)
  <2>1. /\ profile[w.id].present = w.exists
        /\ w.row = NoRow => Bearers(w.id) = {}
        /\ profile' = [profile EXCEPT ![w.id] = w.row]
        /\ Goes(c) /\ UNCHANGED <<user, session, held>>
    BY <1>5 DEF WriteProfile
  <2>2. call' \in [Slot -> CallState] /\ \A d \in Slot : Plausible(call'[d])
    BY <1>1, <2>1, GoesTyped
  <2>3. \A r \in ProfileRows : r.present /\ r.baseRole \in Role
    BY DEF ProfileRows
  <2> HIDE DEF w
  <2>4. /\ profile' \in [Profile -> ProfileRows \cup {NoRow}] /\ profile'[w.id] = w.row
        /\ \A p \in Profile : p # w.id => profile'[p] = profile[p]
    BY <1>1, <2>1 DEF TypeInv
  <2>5. \A p \in SystemProfile : Lasts(p, profile'[p])
    BY <1>1, <2>4, AccountsAssumption DEF TypeInv
  <2>6. \A p \in Profile : profile'[p].present => profile'[p].baseRole \in Role
    BY <2>3, <2>4 DEF NoRow
  <2>7. ASSUME NEW v \in User, user[v].present PROVE profile'[user[v].profileId].present
    <3>1. user[v].profileId \in Profile /\ profile[user[v].profileId].present
      <4>1. user[v] \in UserRow
        BY <2>7, Rows
      <4> QED BY <2>7, <4>1 DEF UserRow, TypeInv, TypeOK
    <3>2. CASE user[v].profileId = w.id
      <4>1. w.row # NoRow
        BY <2>1, <2>7, <3>2 DEF Bearers
      <4> QED BY <1>1, <2>3, <2>4, <3>2, <4>1
    <3> QED BY <2>4, <3>1, <3>2
  <2>8. TypeInv'
    BY <1>2, <2>1, <2>2, <2>4, <2>5, <2>6, <2>7 DEF TypeInv, TypeOK
  <2> QED BY <1>1, <1>2, <1>3, <2>1, <2>8 DEF w
<1> QED BY <1>4, <1>5

\* Who bears the profile takes its role.
LEMMA SyncRolesTyped ==
    ASSUME TypeInv, NEW c \in Slot, SyncRoles(c)
    PROVE  /\ TypeInv'
           /\ call[c].todo # <<>> /\ Head1(c) \in Syncing /\ call[c].op = "profile"
           /\ Goes(c) /\ UNCHANGED <<profile, session, held, issued, crossed, restarts, workload>>
           /\ \A u \in User :
                 /\ user'[u].present = user[u].present
                 /\ user[u].present =>
                       /\ user'[u].profileId = user[u].profileId
                       /\ user'[u].totpEnabled = user[u].totpEnabled
                       /\ user'[u].totpSecret = user[u].totpSecret
                       /\ user'[u].role = IF user[u].profileId = Head1(c).id
                                          THEN Head1(c).role ELSE user[u].role
<1> DEFINE w == Head1(c)
<1>1. call[c].todo # <<>> /\ w \in Syncing /\ w.id \in Profile /\ w.role \in Role
  <2>1. call[c].todo # <<>> /\ w \in Syncing
    BY HeadTyped, WriteKinds DEF SyncRoles, Awaits
  <2> QED BY <2>1 DEF Syncing
<1>2. call[c].op = "profile"
  <2>1. w.write = "sync"
    BY DEF SyncRoles, Awaits
  <2>2. w \notin Issuing \cup Revoking \cup RevokingAll \cup Deleting \cup Creating
    BY <2>1 DEF Issuing, Revoking, RevokingAll, Deleting, Creating
  <2>3. w \notin Counting \cup Spending \cup Password \cup Enabling \cup Resetting \cup Assigning
    BY <2>1 DEF Counting, Spending, Password, Enabling, Resetting, Assigning, Columns
  <2>4. w \notin Drawing \cup Inviting \cup Gift("pending", {TRUE}) \cup Gift("setups", Invite)
    BY <2>1 DEF Drawing, Inviting, Columns, Gift
  <2>5. w \in Writes(call[c].op)
    BY <1>1, HeadTyped
  <2> HIDE DEF w
  <2> QED BY <2>2, <2>3, <2>4, <2>5 DEF Writes
<1>3. /\ Goes(c) /\ UNCHANGED <<profile, session, held, issued, crossed, restarts, workload>>
      /\ user' = [u \in User |-> IF u \in Bearers(w.id)
                                 THEN [user[u] EXCEPT !.role = w.role] ELSE user[u]]
  BY DEF SyncRoles
<1>4. ASSUME NEW row \in UserRow
      PROVE  LET new == [row EXCEPT !.role = w.role] IN
             /\ new \in UserRow /\ new.present /\ row.present /\ new.profileId = row.profileId
             /\ new.totpEnabled = row.totpEnabled /\ new.totpSecret = row.totpSecret
             /\ new.role = w.role
  BY <1>1, <1>4 DEF UserRow
<1> HIDE DEF w
<1>5. ASSUME NEW u \in User
      PROVE  /\ user'[u] \in UserRow \cup {NoRow}
             /\ user'[u].present = user[u].present
             /\ user[u].present =>
                   /\ user'[u].profileId = user[u].profileId
                   /\ user'[u].totpEnabled = user[u].totpEnabled
                   /\ user'[u].totpSecret = user[u].totpSecret
                   /\ user'[u].role = IF user[u].profileId = w.id THEN w.role ELSE user[u].role
  <2>1. CASE u \in Bearers(w.id)
    <3>1. user[u].present /\ user[u].profileId = w.id /\ user[u] \in UserRow
      BY <2>1, Rows DEF Bearers
    <3>2. user'[u] = [user[u] EXCEPT !.role = w.role]
      BY <1>3, <2>1
    <3> QED BY <1>4, <3>1, <3>2
  <2>2. CASE u \notin Bearers(w.id)
    <3>1. user[u] \in UserRow \cup {NoRow}
      BY DEF TypeInv, TypeOK
    <3>2. user'[u] = user[u]
      BY <1>3, <2>2
    <3> QED BY <2>2, <3>1, <3>2 DEF Bearers
  <2> QED BY <2>1, <2>2
<1>6. call' \in [Slot -> CallState] /\ \A d \in Slot : Plausible(call'[d])
  BY <1>1, <1>3, GoesTyped
<1>7. user' \in [User -> UserRow \cup {NoRow}]
  <2>1. DOMAIN user' = User /\ user' = [u \in User |-> user'[u]]
    BY <1>3
  <2> QED BY <1>5, <2>1
<1>8. /\ \A v \in User : user'[v].present => profile[user'[v].profileId].present
      /\ \A s \in Session : session[s].present => user'[session[s].user].present
  BY <1>5, Rows DEF TypeInv, TypeOK
<1>9. TypeInv'
  BY <1>3, <1>6, <1>7, <1>8 DEF TypeInv, TypeOK
<1> QED BY <1>1, <1>2, <1>3, <1>5, <1>9 DEF w

\* A call that is answered leaves its slot free.
LEMMA FreesTyped ==
    ASSUME TypeInv, NEW c \in Slot, call' = [call EXCEPT ![c] = NoCall],
           UNCHANGED <<user, profile, session, held, issued, crossed, restarts, workload>>
    PROVE  /\ TypeInv'
           /\ call'[c] = NoCall /\ \A d \in Slot \ {c} : call'[d] = call[d]
<1>1. NoCall \in CallState /\ Plausible(NoCall)
  <2>1. NoCall \in CallState
    BY Marks DEF NoCall, CallState
  <2>2. Plausible(NoCall)
    BY DEF NoCall, Plausible
  <2> QED BY <2>1, <2>2
<1>2. /\ call' \in [Slot -> CallState] /\ \A d \in Slot : Plausible(call'[d])
      /\ call'[c] = NoCall /\ \A d \in Slot \ {c} : call'[d] = call[d]
  BY <1>1 DEF TypeInv
<1> QED BY <1>2 DEF TypeInv, TypeOK

\* Time ends locks, links, sessions and the short-lived tokens.
LEMMA ClockTyped ==
    ASSUME TypeInv, Clock
    PROVE  /\ TypeInv' /\ UNCHANGED <<profile, issued, call, crossed, restarts, workload>>
           /\ \A s \in Session : session'[s] = session[s] \/ session'[s] = NoRow
           /\ \A u \in User :
                 /\ user'[u].present = user[u].present /\ held'[u].app = held[u].app
                 /\ user[u].present => /\ user'[u].role = user[u].role
                                       /\ user'[u].profileId = user[u].profileId
                                       /\ user'[u].totpEnabled = user[u].totpEnabled
                                       /\ user'[u].totpSecret = user[u].totpSecret
<1> DEFINE Holding == [links: SUBSET Invite, setups: SUBSET Invite, pending: BOOLEAN,
                       access: BOOLEAN, app: Secret \cup {None}]
           Same(a, b) == /\ a.role = b.role /\ a.profileId = b.profileId
                         /\ a.totpEnabled = b.totpEnabled /\ a.totpSecret = b.totpSecret
<1>1. ASSUME NEW u \in User, LockExpires(u) \/ InviteExpires(u)
      PROVE  /\ user' \in [User -> UserRow \cup {NoRow}]
             /\ \A v \in User : /\ user'[v].present = user[v].present
                                /\ user[v].present => Same(user'[v], user[v])
             /\ UNCHANGED <<profile, session, held, issued, call, crossed, restarts, workload>>
  <2>1. user[u] \in UserRow /\ user[u].present /\ user \in [User -> UserRow \cup {NoRow}]
    BY <1>1, Rows DEF LockExpires, InviteExpires, TypeInv, TypeOK
  <2>2. PICK row \in UserRow : /\ user' = [user EXCEPT ![u] = row] /\ row.present
                               /\ Same(row, user[u])
    <3>1. CASE LockExpires(u)
      <4> DEFINE row == [user[u] EXCEPT !.locked = FALSE]
      <4>1. row \in UserRow /\ row.present /\ Same(row, user[u])
        BY <2>1 DEF UserRow
      <4>2. user' = [user EXCEPT ![u] = row]
        BY <2>1, <3>1 DEF LockExpires
      <4> QED BY <4>1, <4>2
    <3>2. CASE InviteExpires(u)
      <4> DEFINE row == [user[u] EXCEPT !.inviteLive = FALSE]
      <4>1. row \in UserRow /\ row.present /\ Same(row, user[u])
        BY <2>1 DEF UserRow
      <4>2. user' = [user EXCEPT ![u] = row]
        BY <2>1, <3>2 DEF InviteExpires
      <4> QED BY <4>1, <4>2
    <3> QED BY <1>1, <3>1, <3>2
  <2>3. user' \in [User -> UserRow \cup {NoRow}] /\ user'[u] = row
        /\ \A v \in User : v # u => user'[v] = user[v]
    BY <2>1, <2>2
  <2> QED BY <1>1, <2>1, <2>2, <2>3 DEF LockExpires, InviteExpires
<1>2. ASSUME NEW u \in User, TokensExpire(u)
      PROVE  /\ held' \in [User -> Holding] /\ \A v \in User : held'[v].app = held[v].app
             /\ UNCHANGED <<user, profile, session, issued, call, crossed, restarts, workload>>
  <2>1. held \in [User -> Holding] /\ held[u] \in Holding
    BY DEF TypeInv, TypeOK
  <2>2. PICK h \in Holding : held' = [held EXCEPT ![u] = h] /\ h.app = held[u].app
    <3>1. CASE held' = [held EXCEPT ![u].access = FALSE]
      <4> DEFINE h == [held[u] EXCEPT !.access = FALSE]
      <4>1. held' = [held EXCEPT ![u] = h]
        BY <2>1, <3>1
      <4>2. h \in Holding /\ h.app = held[u].app
        BY <2>1
      <4> QED BY <4>1, <4>2
    <3>2. CASE held' = [held EXCEPT ![u].pending = FALSE]
      <4> DEFINE h == [held[u] EXCEPT !.pending = FALSE]
      <4>1. held' = [held EXCEPT ![u] = h]
        BY <2>1, <3>2
      <4>2. h \in Holding /\ h.app = held[u].app
        BY <2>1
      <4> QED BY <4>1, <4>2
    <3>3. CASE held' = [held EXCEPT ![u].setups = {}]
      <4> DEFINE h == [held[u] EXCEPT !.setups = {}]
      <4>1. held' = [held EXCEPT ![u] = h]
        BY <2>1, <3>3
      <4>2. h \in Holding /\ h.app = held[u].app
        BY <2>1
      <4> QED BY <4>1, <4>2
    <3> QED BY <1>2, <3>1, <3>2, <3>3 DEF TokensExpire
  <2> HIDE DEF Holding
  <2> QED BY <1>2, <2>1, <2>2 DEF TokensExpire
<1>3. ASSUME NEW s \in Session, SessionExpires(s)
      PROVE  /\ session' \in [Session -> SessionRow \cup {NoRow}]
             /\ \A t \in Session : session'[t] = session[t] \/ session'[t] = NoRow
             /\ UNCHANGED <<user, profile, held, issued, call, crossed, restarts, workload>>
  BY <1>3 DEF SessionExpires, TypeInv
<1>4. CASE \E u \in User : LockExpires(u) \/ InviteExpires(u)
  <2>1. /\ \A v \in User : user'[v].present => profile[user'[v].profileId].present
        /\ \A s \in Session : session[s].present => user'[session[s].user].present
    BY <1>1, <1>4, Rows DEF TypeInv, TypeOK
  <2> QED BY <1>1, <1>4, <2>1 DEF TypeInv, TypeOK
<1>5. CASE \E u \in User : TokensExpire(u)
  BY <1>2, <1>5 DEF TypeInv, TypeOK
<1>6. CASE \E s \in Session : SessionExpires(s)
  <2>1. \A s \in Session : session'[s].present => user[session'[s].user].present
    BY <1>3, <1>6 DEF TypeInv, TypeOK, NoRow
  <2> QED BY <1>3, <1>6, <2>1 DEF TypeInv, TypeOK
<1> QED BY <1>4, <1>5, <1>6 DEF Clock

\* A restart forgets the calls; the seed may add the administrator.
LEMMA RestartTyped ==
    ASSUME TypeInv, Restart
    PROVE  /\ TypeInv' /\ UNCHANGED <<profile, session, held, issued, workload>>
           /\ \A c \in Slot : call'[c] = NoCall
           /\ crossed \subseteq crossed'
           /\ "role" \notin crossed' => \A c \in Slot : ~Awaits(c, "sync")
           /\ \A u \in User : user[u].present => user'[u] = user[u]
           /\ \A u \in User : user'[u].present /\ ~user[u].present =>
                 /\ user'[u].role = profile[user'[u].profileId].baseRole
                 /\ ~user'[u].totpEnabled
<1>1. /\ user \in [User -> UserRow \cup {NoRow}] /\ \A p \in SystemProfile : Lasts(p, profile[p])
  BY DEF TypeInv, TypeOK
<1>2. /\ user' \in [User -> UserRow \cup {NoRow}]
      /\ \A u \in User : user[u].present => user'[u] = user[u]
      /\ \A u \in User : user'[u].present /\ ~user[u].present =>
            /\ profile[user'[u].profileId].present
            /\ user'[u].role = profile[user'[u].profileId].baseRole
            /\ ~user'[u].totpEnabled
  <2>1. CASE user' = user
    BY <1>1, <2>1
  <2>2. CASE user' = Seeded(user)
    BY <1>1, <2>2, SeededTyped
  <2> QED BY <2>1, <2>2 DEF Restart
<1>3. /\ UNCHANGED <<profile, session, held, issued, workload>> /\ crossed \subseteq crossed'
      /\ "role" \notin crossed' => \A c \in Slot : ~Awaits(c, "sync")
      /\ call' = [c \in Slot |-> NoCall]
  BY DEF Restart
<1>4. restarts' \in 0..MaxRestarts
  BY AccountsAssumption DEF Restart, TypeInv, TypeOK
<1>5. call' \in [Slot -> CallState] /\ \A c \in Slot : Plausible(call'[c])
  <2>1. NoCall \in CallState
    BY Marks DEF NoCall, CallState
  <2>2. Plausible(NoCall)
    BY DEF NoCall, Plausible
  <2> QED BY <1>3, <2>1, <2>2
<1>6. /\ \A v \in User : user'[v].present => profile[user'[v].profileId].present
      /\ \A s \in Session : session[s].present => user'[session[s].user].present
  BY <1>2, Rows DEF TypeInv, TypeOK
<1>7. TypeInv'
  BY <1>2, <1>3, <1>4, <1>5, <1>6 DEF TypeInv, TypeOK
<1> QED BY <1>2, <1>3, <1>7

-----------------------------------------------------------------------------
(* What a step leaves of the calls *)

\* A call awaits what it did, or one statement less, or nothing any more.
Moves(d) ==
    /\ call'[d].op = call[d].op /\ call'[d].user = call[d].user
    /\ \/ call'[d].todo = call[d].todo
       \/ call'[d].todo = <<>>
       \/ call[d].todo # <<>> /\ call'[d].todo = Tail(call[d].todo)

SessionsEnd == \A s \in Session : session'[s] = session[s] \/ session'[s] = NoRow

\* The statements that are left are the first ones less one or none.
LEMMA Shifted ==
    ASSUME TypeInv, NEW d \in Slot, Moves(d) \/ call'[d] = NoCall
    PROVE  \E n \in {0, 1} :
              /\ \A i \in 1..Len(call'[d].todo) :
                    i + n \in 1..Len(call[d].todo) /\ call'[d].todo[i] = call[d].todo[i + n]
              /\ n = 1 => call[d].todo # <<>> /\ call'[d].todo = Tail(call[d].todo)
                            /\ Head1(d) = call[d].todo[1]
<1>1. call[d].todo \in Seq(Writes(call[d].op))
  BY DEF TypeInv, Plausible
<1>2. CASE call'[d].todo = call[d].todo
  <2>1. \A i \in 1..Len(call'[d].todo) :
           i + 0 \in 1..Len(call[d].todo) /\ call'[d].todo[i] = call[d].todo[i + 0]
    BY <1>1, <1>2
  <2> QED BY <2>1
<1>3. CASE call'[d].todo = <<>>
  BY <1>3
<1>4. CASE call[d].todo # <<>> /\ call'[d].todo = Tail(call[d].todo)
  <2>1. \A i \in 1..Len(call'[d].todo) :
           i + 1 \in 1..Len(call[d].todo) /\ call'[d].todo[i] = call[d].todo[i + 1]
    BY <1>1, <1>4, HeadTyped
  <2> QED BY <1>4, <2>1, HeadTyped
<1> QED BY <1>2, <1>3, <1>4 DEF Moves, NoCall

\* A statement moves its own call; a deletion stops others too.
LEMMA StatementMoves ==
    ASSUME TypeInv, NEW c \in Slot, Statement(c)
    PROVE  /\ TypeInv' /\ \A d \in Slot : Moves(d)
           /\ UNCHANGED <<issued, crossed, restarts, workload>>
           /\ call[c].todo # <<>>
           /\ \A d \in Slot \ {c} : call'[d] = call[d] \/ call'[d].todo = <<>>
           /\ ~IssueToken(c) => SessionsEnd
           /\ Head1(c).write = "revoke" => \A s \in Head1(c).what : session'[s] = NoRow
<1>1. Goes(c) /\ call[c].todo # <<>> => \A d \in Slot : Moves(d)
  BY GoesTyped DEF Moves
<1>2. Throws(c) => \A d \in Slot : Moves(d)
  BY ThrowsTyped DEF Moves
<1>3. Throws(c) => SessionsEnd
  BY DEF Throws, SessionsEnd
<1>4. /\ Goes(c) /\ call[c].todo # <<>> => \A d \in Slot \ {c} : call'[d] = call[d]
      /\ Throws(c) => \A d \in Slot \ {c} : call'[d] = call[d]
  BY GoesTyped, ThrowsTyped
<1>5. CASE WriteUser(c)
  BY <1>1, <1>2, <1>3, <1>4, <1>5, WriteUserTyped DEF SessionsEnd
<1>6. CASE WriteGive(c)
  BY <1>1, <1>2, <1>3, <1>4, <1>6, WriteGiveTyped DEF SessionsEnd
<1>7. CASE IssueToken(c)
  BY <1>1, <1>2, <1>3, <1>4, <1>7, IssueTokenTyped DEF Moves
<1>8. CASE Revoke(c)
  BY <1>1, <1>4, <1>8, RevokeTyped DEF SessionsEnd
<1>9. CASE InsertUser(c)
  <2>1. Head1(c).write = "create"
    BY <1>9 DEF InsertUser, Awaits
  <2> QED BY <1>1, <1>2, <1>3, <1>4, <1>9, <2>1, InsertUserTyped DEF SessionsEnd
<1>10. CASE DeleteUser(c)
  <2>1. \A d \in Slot : Moves(d)
    BY <1>10, DeleteUserTyped DEF Moves
  <2>2. call[c].todo # <<>>
    BY <1>10 DEF DeleteUser, Awaits
  <2> QED BY <1>10, <2>1, <2>2, DeleteUserTyped DEF SessionsEnd, DeleteUser, Awaits, IssueToken
<1>11. CASE WriteProfile(c)
  <2>1. Head1(c).write = "profile"
    BY <1>11 DEF WriteProfile, Awaits
  <2> QED BY <1>1, <1>2, <1>3, <1>4, <1>11, <2>1, WriteProfileTyped DEF SessionsEnd
<1>12. CASE SyncRoles(c)
  <2>1. Head1(c).write = "sync"
    BY <1>12 DEF SyncRoles, Awaits
  <2> QED BY <1>1, <1>4, <1>12, <2>1, SyncRolesTyped DEF SessionsEnd
<1> QED BY <1>5, <1>6, <1>7, <1>8, <1>9, <1>10, <1>11, <1>12 DEF Statement

\* A step of the server, whoever asked for it.
AccountStep ==
    \/ \E c \in Slot : Opens(c) \/ Statement(c) \/ (Returned(c) /\ Frees(c) /\ ServerRests)
    \/ Clock \/ Restart \/ UNCHANGED accountVars

\* Every step keeps the types.
LEMMA TypeStep == ASSUME TypeInv, AccountStep PROVE TypeInv'
<1>1. CASE \E c \in Slot : Opens(c)
  BY <1>1, OpeningTyped DEF Opens
<1>2. CASE \E c \in Slot : Statement(c)
  BY <1>2, StatementMoves
<1>3. CASE \E c \in Slot : Returned(c) /\ Frees(c) /\ ServerRests
  BY <1>3, FreesTyped DEF Frees, ServerRests
<1>4. CASE Clock \/ Restart
  BY <1>4, ClockTyped, RestartTyped
<1>5. CASE UNCHANGED accountVars
  BY <1>5 DEF accountVars, TypeInv, TypeOK, Plausible
<1> QED BY <1>1, <1>2, <1>3, <1>4, <1>5 DEF AccountStep

\* The steps of Accounts are steps of the server.
LEMMA NextIsStep == ASSUME TypeInv, [Next]_accountVars PROVE AccountStep
  BY RequestOpens DEF Next, AccountStep, Answer, Returned, InHand, Frees, ServerRests

-----------------------------------------------------------------------------
(* One token per sign-in *)

\* Sessions that end and calls that go on keep the rotation in order: what a
\* refresh has not revoked yet it still awaits.
LEMMA TokensShrink ==
    ASSUME TypeInv, TokenInv, crossed \subseteq crossed', issued'.tokens = issued.tokens,
           SessionsEnd,
           \A d \in Slot : Moves(d) \/ call'[d] = NoCall,
           \A d \in Slot, s \in Session :
              call[d].todo # <<>> /\ call'[d].todo = Tail(call[d].todo)
                /\ Head1(d) = Other("revoke", {s}) /\ call'[d].todo \notin {<<>>, call[d].todo}
                => session'[s] = NoRow
    PROVE  TokenInv'
<1>1. \A s \in Session : session'[s].present => session[s].present /\ session'[s] = session[s]
  BY DEF SessionsEnd, NoRow
<1>2. ASSUME NEW c \in Slot, NEW i \in Nat, NEW k \in Nat, OriginAt(c, i)' = OriginAt(c, k)
      PROVE  LiveFor(c, i)' \subseteq LiveFor(c, k) /\ \A s \in LiveFor(c, i)' : session'[s].present
  BY <1>1, <1>2 DEF LiveFor
<1>3. ASSUME NEW d \in Slot
      PROVE  \E n \in {0, 1} :
                /\ \A i \in Nat : IssuesAt(d, i)' => /\ IssuesAt(d, i + n)
                                                     /\ OriginAt(d, i)' = OriginAt(d, i + n)
                                                     /\ i + n \in Nat
                /\ \A i \in Nat : IssuesAt(d, i)' /\ n = 1 =>
                      /\ call[d].todo # <<>> /\ call'[d].todo = Tail(call[d].todo)
                      /\ Head1(d) = call[d].todo[1]
                /\ \A i \in Nat : IssuesAt(d, i)' => /\ call'[d].op = call[d].op
                                                     /\ \A j \in 1..Len(call'[d].todo) :
                                                           call'[d].todo[j] = call[d].todo[j + n]
  <2>1. PICK n \in {0, 1} :
              /\ \A i \in 1..Len(call'[d].todo) :
                    i + n \in 1..Len(call[d].todo) /\ call'[d].todo[i] = call[d].todo[i + n]
              /\ n = 1 => call[d].todo # <<>> /\ call'[d].todo = Tail(call[d].todo)
                            /\ Head1(d) = call[d].todo[1]
    BY Shifted
  <2>2. call'[d] = NoCall => \A i \in Nat : ~IssuesAt(d, i)'
    BY DEF NoCall, IssuesAt
  <2>3. \A i \in Nat : IssuesAt(d, i)' => /\ IssuesAt(d, i + n)
                                           /\ OriginAt(d, i)' = OriginAt(d, i + n)
                                           /\ i + n \in Nat
    BY <2>1 DEF IssuesAt, OriginAt
  <2>4. \A i \in Nat : IssuesAt(d, i)' => call'[d].op = call[d].op
    BY <2>2 DEF Moves
  <2> QED BY <2>1, <2>3, <2>4
<1>4. OriginsDrawn'
  <2>1. \A s \in Session : session'[s].present => session'[s].origin <= issued'.tokens
    BY <1>1 DEF TokenInv, OriginsDrawn
  <2>2. \A c \in Slot, i \in Nat : IssuesAt(c, i)' => OriginAt(c, i)' <= issued'.tokens
    BY <1>3 DEF TokenInv, OriginsDrawn
  <2>3. ASSUME NEW c \in Slot, NEW i \in Nat, NEW j \in Nat, IssuesAt(c, i)', IssuesAt(c, j)'
        PROVE  i = j
    <3>1. PICK n \in {0, 1} : IssuesAt(c, i + n) /\ IssuesAt(c, j + n) /\ {i + n, j + n} \subseteq Nat
      BY <1>3, <2>3
    <3>2. i + n = j + n
      BY <3>1 DEF TokenInv, OriginsDrawn
    <3> QED BY <3>2
  <2> QED BY <2>1, <2>2, <2>3 DEF OriginsDrawn
<1>5. Rotates'
  <2> SUFFICES ASSUME "rotation" \notin crossed'
               PROVE  /\ \A s, t \in Session :
                            session'[s].present /\ session'[t].present
                              /\ session'[s].origin = session'[t].origin => s = t
                      /\ \A c, d \in Slot :
                            call'[c].op = "refresh" /\ call'[d].op = "refresh" => c = d
                      /\ \A c \in Slot, i \in Nat : IssuesAt(c, i)' =>
                            /\ call'[c].op # "refresh" => LiveFor(c, i)' = {}
                            /\ \A s \in LiveFor(c, i)' :
                                  \E j \in 1..(i - 1) : call'[c].todo[j] = Other("revoke", {s})
                            /\ \A d \in Slot, j \in Nat :
                                  IssuesAt(d, j)' /\ OriginAt(d, j)' = OriginAt(c, i)' => d = c
    BY DEF Rotates
  <2>1. "rotation" \notin crossed
    OBVIOUS
  <2>2. /\ \A s, t \in Session : session[s].present /\ session[t].present
                                   /\ session[s].origin = session[t].origin => s = t
        /\ \A c, d \in Slot : call[c].op = "refresh" /\ call[d].op = "refresh" => c = d
        /\ \A c \in Slot, i \in Nat : IssuesAt(c, i) =>
              /\ call[c].op # "refresh" => LiveFor(c, i) = {}
              /\ \A s \in LiveFor(c, i) :
                    \E j \in 1..(i - 1) : call[c].todo[j] = Other("revoke", {s})
              /\ \A d \in Slot, j \in Nat :
                    IssuesAt(d, j) /\ OriginAt(d, j) = OriginAt(c, i) => d = c
    BY <2>1 DEF TokenInv, Rotates
  <2>3. \A s, t \in Session : session'[s].present /\ session'[t].present
                                /\ session'[s].origin = session'[t].origin => s = t
    BY <1>1, <2>2
  <2>4. \A c, d \in Slot : call'[c].op = "refresh" /\ call'[d].op = "refresh" => c = d
    BY <2>2 DEF Moves, NoCall, None
  <2>5. ASSUME NEW c \in Slot, NEW i \in Nat, IssuesAt(c, i)'
        PROVE  /\ call'[c].op # "refresh" => LiveFor(c, i)' = {}
               /\ \A s \in LiveFor(c, i)' :
                     \E j \in 1..(i - 1) : call'[c].todo[j] = Other("revoke", {s})
               /\ \A d \in Slot, j \in Nat :
                     IssuesAt(d, j)' /\ OriginAt(d, j)' = OriginAt(c, i)' => d = c
    <3>1. PICK n \in {0, 1} :
            /\ IssuesAt(c, i + n) /\ OriginAt(c, i)' = OriginAt(c, i + n) /\ i + n \in Nat
            /\ n = 1 => /\ call[c].todo # <<>> /\ call'[c].todo = Tail(call[c].todo)
                        /\ Head1(c) = call[c].todo[1]
            /\ call'[c].op = call[c].op
            /\ \A j \in 1..Len(call'[c].todo) : call'[c].todo[j] = call[c].todo[j + n]
      BY <1>3, <2>5
    <3>2. call'[c].op # "refresh" => LiveFor(c, i)' = {}
      BY <1>2, <2>2, <3>1
    <3>3. ASSUME NEW s \in LiveFor(c, i)' PROVE \E j \in 1..(i - 1) : call'[c].todo[j] = Other("revoke", {s})
      <4>1. s \in LiveFor(c, i + n) /\ s \in Session /\ session'[s].present
        BY <1>2, <3>1, <3>3 DEF LiveFor
      <4>2. PICK k \in 1..(i + n - 1) : call[c].todo[k] = Other("revoke", {s})
        <5> DEFINE m == i + n
        <5>1. m \in Nat /\ IssuesAt(c, m) /\ s \in LiveFor(c, m)
          BY <3>1, <4>1
        <5> HIDE DEF m
        <5>2. \E k \in 1..(m - 1) : call[c].todo[k] = Other("revoke", {s})
          BY <2>2, <5>1
        <5> QED BY <5>2 DEF m
      <4>3. CASE n = 0
        <5>1. i \in 1..Len(call'[c].todo) /\ Len(call'[c].todo) \in Nat
          BY <2>5 DEF IssuesAt
        <5> QED BY <3>1, <4>2, <4>3, <5>1
      <4>4. CASE n = 1
        <5>1. /\ call[c].todo # <<>> /\ call'[c].todo = Tail(call[c].todo)
              /\ Head1(c) = call[c].todo[1]
          BY <3>1, <4>4
        <5>2. i \in 1..Len(call'[c].todo)
          BY <2>5 DEF IssuesAt
        <5>3. Len(call[c].todo) \in Nat
          <6>1. call[c].todo \in Seq(Writes(call[c].op))
            BY DEF TypeInv, Plausible
          <6> QED BY <6>1
        <5>4. Len(call'[c].todo) = Len(call[c].todo) - 1
          BY <5>1, HeadTyped
        <5>5. call'[c].todo # call[c].todo /\ call'[c].todo # <<>>
          BY <5>2, <5>3, <5>4
        <5>6. k # 1
          <6>1. SUFFICES ASSUME k = 1 PROVE FALSE
            OBVIOUS
          <6>2. Head1(c) = Other("revoke", {s})
            BY <4>2, <5>1, <6>1
          <6>3. session'[s] = NoRow
            BY <4>1, <5>1, <5>5, <6>2
          <6> QED BY <4>1, <6>3 DEF NoRow
        <5>7. k - 1 \in 1..(i - 1) /\ k - 1 \in 1..Len(call'[c].todo) /\ (k - 1) + n = k
          BY <4>2, <4>4, <5>2, <5>3, <5>4, <5>6
        <5> QED BY <3>1, <4>2, <5>7
      <4> QED BY <4>3, <4>4
    <3>4. ASSUME NEW d \in Slot, NEW j \in Nat, IssuesAt(d, j)', OriginAt(d, j)' = OriginAt(c, i)'
          PROVE  d = c
      <4>1. PICK m \in {0, 1} : IssuesAt(d, j + m) /\ OriginAt(d, j)' = OriginAt(d, j + m) /\ j + m \in Nat
        BY <1>3, <3>4
      <4> QED BY <2>2, <3>1, <3>4, <4>1
    <3> QED BY <3>1, <3>2, <3>3, <3>4
  <2> QED BY <2>3, <2>4, <2>5
<1> QED BY <1>4, <1>5 DEF TokenInv

\* A token is issued when its sign-in has no live one, and no call is to issue
\* another.
LEMMA TokensIssued ==
    ASSUME TypeInv, TokenInv, NEW c \in Slot, IssueToken(c), ~Throws(c)
    PROVE  TokenInv'
<1> DEFINE w == Head1(c)
           row == [present |-> TRUE, user |-> call[c].user, origin |-> w.origin]
<1>1. /\ call[c].todo # <<>> /\ w.write = "issue" /\ w.token \in Session /\ w.origin \in Session
      /\ session' = [session EXCEPT ![w.token] = row]
      /\ call'[c].todo = Tail(call[c].todo)
      /\ \A d \in Slot : call'[d].op = call[d].op
      /\ \A d \in Slot \ {c} : call'[d] = call[d]
      /\ UNCHANGED <<issued, crossed>>
  BY IssueTokenTyped DEF Issuing
<1>2. row.present /\ row.origin = w.origin
  OBVIOUS
<1> HIDE DEF row
<1>3. /\ session'[w.token] = row /\ \A s \in Session : s # w.token => session'[s] = session[s]
      /\ session \in [Session -> SessionRow \cup {NoRow}]
  BY <1>1 DEF TypeInv
<1>4. /\ IssuesAt(c, 1) /\ OriginAt(c, 1) = w.origin
      /\ \A i \in 1..Len(call'[c].todo) :
            call'[c].todo[i] = call[c].todo[i + 1] /\ i + 1 \in 1..Len(call[c].todo) /\ i + 1 # 1
  <2>1. /\ w = call[c].todo[1] /\ Len(Tail(call[c].todo)) = Len(call[c].todo) - 1
        /\ \A i \in 1..Len(Tail(call[c].todo)) : Tail(call[c].todo)[i] = call[c].todo[i + 1]
    BY <1>1, HeadTyped
  <2>2. Len(call[c].todo) \in Nat /\ Len(call[c].todo) # 0
    <3>1. call[c].todo \in Seq(Writes(call[c].op))
      BY DEF TypeInv, Plausible
    <3> QED BY <1>1, <3>1
  <2> QED BY <1>1, <2>1, <2>2 DEF IssuesAt, OriginAt
<1> HIDE DEF w
<1>5. \A i \in Nat : ~IssuesAt(c, i)'
  <2> SUFFICES ASSUME NEW i \in Nat, IssuesAt(c, i)' PROVE FALSE
    OBVIOUS
  <2>1. IssuesAt(c, i + 1) /\ i + 1 \in Nat /\ i + 1 # 1
    BY <1>4 DEF IssuesAt
  <2> QED BY <1>4, <2>1 DEF TokenInv, OriginsDrawn
<1>6. \A d \in Slot \ {c}, i \in Nat : /\ IssuesAt(d, i)' = IssuesAt(d, i)
                                       /\ OriginAt(d, i)' = OriginAt(d, i)
  BY <1>1 DEF IssuesAt, OriginAt
<1>7. OriginsDrawn'
  <2>1. w.origin <= issued.tokens
    BY <1>4 DEF TokenInv, OriginsDrawn
  <2>2. \A s \in Session : session'[s].present => session'[s].origin <= issued'.tokens
    BY <1>1, <1>2, <1>3, <2>1 DEF TokenInv, OriginsDrawn
  <2> QED BY <1>1, <1>5, <1>6, <2>2 DEF TokenInv, OriginsDrawn
<1>8. ASSUME "rotation" \notin crossed' PROVE Rotates'
  <2>1. "rotation" \notin crossed
    BY <1>1, <1>8
  <2>2. /\ \A s, t \in Session : session[s].present /\ session[t].present
                                   /\ session[s].origin = session[t].origin => s = t
        /\ \A d, e \in Slot : call[d].op = "refresh" /\ call[e].op = "refresh" => d = e
        /\ \A d \in Slot, i \in Nat : IssuesAt(d, i) =>
              /\ call[d].op # "refresh" => LiveFor(d, i) = {}
              /\ \A s \in LiveFor(d, i) :
                    \E j \in 1..(i - 1) : call[d].todo[j] = Other("revoke", {s})
              /\ \A e \in Slot, j \in Nat :
                    IssuesAt(e, j) /\ OriginAt(e, j) = OriginAt(d, i) => e = d
    BY <2>1 DEF TokenInv, Rotates
  <2>3. \A s \in Session : ~(session[s].present /\ session[s].origin = w.origin)
    <3>1. \A s \in LiveFor(c, 1) : \E j \in 1..(1 - 1) : call[c].todo[j] = Other("revoke", {s})
      BY <1>4, <2>2
    <3> QED BY <1>4, <3>1 DEF LiveFor
  <2>4. \A s, t \in Session : session'[s].present /\ session'[t].present
                                /\ session'[s].origin = session'[t].origin => s = t
    BY <1>2, <1>3, <2>2, <2>3
  <2>5. ASSUME NEW d \in Slot, NEW i \in Nat, IssuesAt(d, i)'
        PROVE  /\ call'[d].op # "refresh" => LiveFor(d, i)' = {}
               /\ \A s \in LiveFor(d, i)' :
                     \E j \in 1..(i - 1) : call'[d].todo[j] = Other("revoke", {s})
               /\ \A e \in Slot, j \in Nat :
                     IssuesAt(e, j)' /\ OriginAt(e, j)' = OriginAt(d, i)' => e = d
    <3>1. d # c /\ IssuesAt(d, i) /\ OriginAt(d, i)' = OriginAt(d, i) /\ call'[d] = call[d]
      BY <1>1, <1>5, <1>6, <2>5
    <3>2. OriginAt(d, i) # w.origin
      BY <1>4, <2>2, <3>1
    <3>3. LiveFor(d, i)' \subseteq LiveFor(d, i)
      BY <1>2, <1>3, <3>1, <3>2 DEF LiveFor
    <3>4. \A e \in Slot, j \in Nat : IssuesAt(e, j)' => /\ IssuesAt(e, j)
                                                       /\ OriginAt(e, j)' = OriginAt(e, j)
      BY <1>5, <1>6
    <3> QED BY <2>2, <3>1, <3>3, <3>4
  <2> QED BY <1>1, <2>2, <2>4, <2>5 DEF Rotates
<1> QED BY <1>7, <1>8 DEF TokenInv, Rotates

\* A sign-in draws an origin of its own; a refresh takes that of the token it
\* is to revoke, which no other call does unless two refreshes overlap.
LEMMA TokensOpened ==
    ASSUME TypeInv, TokenInv, NEW c \in Slot, NEW op, NEW u, NEW todo, Opening(c, op, u, todo)
    PROVE  TokenInv'
<1>1. /\ call'[c].op = op /\ call'[c].todo = todo
      /\ \A d \in Slot \ {c} : call'[d] = call[d]
  <2>1. /\ call'[c] = [op |-> op, user |-> u, todo |-> todo, result |-> 0]
        /\ \A d \in Slot \ {c} : call'[d] = call[d]
    BY OpeningTyped
  <2> QED BY <2>1
<1>2. UNCHANGED session /\ call[c] = NoCall /\ DrawsFor(op, todo) /\ Begin(c, op, u, todo)
  BY DEF Opening, Reads
<1>3. issued.tokens \in Nat /\ \A s \in Session : session[s].present => session[s].origin \in Session
  BY Marks, Rows DEF TypeInv, TypeOK
<1>4. \A i \in Nat : ~IssuesAt(c, i)
  BY <1>2 DEF NoCall, IssuesAt
<1>5. \A d \in Slot \ {c}, i \in Nat :
        /\ IssuesAt(d, i)' = IssuesAt(d, i) /\ OriginAt(d, i)' = OriginAt(d, i)
        /\ LiveFor(d, i)' = LiveFor(d, i)
  BY <1>1, <1>2 DEF IssuesAt, OriginAt, LiveFor
<1>6. CASE issued'.tokens = issued.tokens /\ op # "refresh"
           /\ \A i \in 1..Len(todo) : todo[i].write # "issue"
  <2>1. \A i \in Nat : ~IssuesAt(c, i)'
    BY <1>1, <1>6 DEF IssuesAt
  <2>2. OriginsDrawn'
    BY <1>2, <1>5, <1>6, <2>1 DEF TokenInv, OriginsDrawn
  <2>3. crossed \subseteq crossed'
    BY <1>2 DEF Begin
  <2>4. \A d \in Slot : call'[d].op = "refresh" => d # c /\ call[d].op = "refresh"
    BY <1>1, <1>6
  <2>5. Rotates'
    <3> SUFFICES ASSUME "rotation" \notin crossed' PROVE Rotates'
      BY DEF Rotates
    <3> QED BY <1>1, <1>2, <1>5, <2>1, <2>3, <2>4 DEF TokenInv, Rotates
  <2> QED BY <2>2, <2>5 DEF TokenInv
<1>7. CASE issued'.tokens = NewToken
  <2> DEFINE First(k, o) == /\ \A i \in Nat : IssuesAt(c, i)' <=> i = k
                            /\ OriginAt(c, k)' = o
  <2>1. NewToken = issued.tokens + 1 /\ NewToken \in Session
    <3>1. issued'.tokens \in 0..MaxTokens
      BY DEF Opening
    <3> QED BY <1>3, <1>7, <3>1, Marks DEF NewToken, Session
  <2>2. \A o \in Session : Issue(NewToken, o).write = "issue" /\ Issue(NewToken, o).origin = o
    BY DEF Issue
  <2>3. ResetCount.write # "issue"
    BY Built
  <2>4. ASSUME NEW o \in Session, call'[c].todo = <<Issue(NewToken, o), ResetCount>>
        PROVE  First(1, o)
    BY <2>2, <2>3, <2>4 DEF IssuesAt, OriginAt
  <2>5. ASSUME NEW o \in Session, NEW w, w.write # "issue",
               call'[c].todo = <<w, Issue(NewToken, o), ResetCount>>
        PROVE  First(2, o)
    BY <2>2, <2>3, <2>5 DEF IssuesAt, OriginAt
  <2>6. \A o \in Session : /\ IssueTokens(o) = <<Issue(NewToken, o), ResetCount>>
                           /\ \A w : <<w>> \o IssueTokens(o) = <<w, Issue(NewToken, o), ResetCount>>
    BY <2>1, IssueTokensTyped
  <2>7. ASSUME NEW k \in {1, 2}, NEW o \in Nat, First(k, o), o <= NewToken
        PROVE  OriginsDrawn'
    <3>1. \A s \in Session : session'[s].present => session'[s].origin <= issued'.tokens
      <4>1. \A s \in Session : session[s].present =>
               session[s].origin \in Nat /\ session[s].origin <= issued.tokens
        BY <1>3 DEF TokenInv, OriginsDrawn, Session
      <4> QED BY <1>2, <1>3, <1>7, <2>1, <4>1
    <3>2. ASSUME NEW d \in Slot, NEW i \in Nat, IssuesAt(d, i)'
          PROVE  OriginAt(d, i)' <= issued'.tokens /\ \A j \in Nat : IssuesAt(d, j)' => i = j
      <4>1. CASE d = c
        BY <1>7, <2>7, <3>2, <4>1
      <4>2. CASE d # c
        <5>1. IssuesAt(d, i) /\ OriginAt(d, i)' = OriginAt(d, i)
              /\ \A j \in Nat : IssuesAt(d, j)' => IssuesAt(d, j)
          BY <1>5, <3>2, <4>2
        <5>2. OriginAt(d, i) <= issued.tokens /\ OriginAt(d, i) \in Nat
          <6>1. call[d].todo[i] \in Writes(call[d].op) /\ call[d].todo[i].write = "issue"
            BY <5>1 DEF IssuesAt, TypeInv, Plausible
          <6>2. call[d].todo[i] \in Issuing
            BY <6>1, WriteKinds
          <6> QED BY <5>1, <6>2 DEF Issuing, OriginAt, Session, TokenInv, OriginsDrawn
        <5> QED BY <1>3, <1>7, <2>1, <5>1, <5>2 DEF TokenInv, OriginsDrawn
      <4> QED BY <4>1, <4>2
    <3> HIDE DEF First
    <3> QED BY <3>1, <3>2 DEF OriginsDrawn
  <2>8. ASSUME NEW k \in {1, 2}, NEW o \in Nat, First(k, o),
                op = "refresh" => \A d \in Slot \ {c} : call[d].op # "refresh",
                op # "refresh" => LiveFor(c, k)' = {},
                \A s \in LiveFor(c, k)' :
                   \E j \in 1..(k - 1) : call'[c].todo[j] = Other("revoke", {s}),
                \A d \in Slot \ {c}, i \in Nat : IssuesAt(d, i) => OriginAt(d, i) # o
         PROVE  Rotates'
    <3> SUFFICES ASSUME "rotation" \notin crossed' PROVE Rotates'
      BY DEF Rotates
    <3>1. "rotation" \notin crossed
      BY <1>2 DEF Begin
    <3>2. /\ \A s, t \in Session : session[s].present /\ session[t].present
                                     /\ session[s].origin = session[t].origin => s = t
          /\ \A d, e \in Slot : call[d].op = "refresh" /\ call[e].op = "refresh" => d = e
          /\ \A d \in Slot, i \in Nat : IssuesAt(d, i) =>
                /\ call[d].op # "refresh" => LiveFor(d, i) = {}
                /\ \A s \in LiveFor(d, i) :
                      \E j \in 1..(i - 1) : call[d].todo[j] = Other("revoke", {s})
                /\ \A e \in Slot, j \in Nat :
                      IssuesAt(e, j) /\ OriginAt(e, j) = OriginAt(d, i) => e = d
      BY <3>1 DEF TokenInv, Rotates
    <3>3. \A d, e \in Slot : call'[d].op = "refresh" /\ call'[e].op = "refresh" => d = e
      BY <1>1, <2>8, <3>2
    <3>4. ASSUME NEW d \in Slot, NEW i \in Nat, IssuesAt(d, i)'
          PROVE  /\ call'[d].op # "refresh" => LiveFor(d, i)' = {}
                 /\ \A s \in LiveFor(d, i)' :
                       \E j \in 1..(i - 1) : call'[d].todo[j] = Other("revoke", {s})
                 /\ \A e \in Slot, j \in Nat :
                       IssuesAt(e, j)' /\ OriginAt(e, j)' = OriginAt(d, i)' => e = d
      <4>1. CASE d = c
        <5>1. i = k /\ OriginAt(d, i)' = o
          BY <2>8, <3>4, <4>1
        <5>2. \A e \in Slot, j \in Nat : IssuesAt(e, j)' /\ OriginAt(e, j)' = o => e = c
          BY <1>5, <2>8
        <5> QED BY <1>1, <2>8, <4>1, <5>1, <5>2
      <4>2. CASE d # c
        <5>1. /\ IssuesAt(d, i) /\ OriginAt(d, i)' = OriginAt(d, i) /\ call'[d] = call[d]
              /\ LiveFor(d, i)' = LiveFor(d, i) /\ OriginAt(d, i) # o
          BY <1>1, <1>5, <2>8, <3>4, <4>2
        <5>2. ASSUME NEW e \in Slot, NEW j \in Nat, IssuesAt(e, j)', OriginAt(e, j)' = OriginAt(d, i)'
              PROVE  e = d
          <6>1. e # c
            BY <2>8, <5>1, <5>2
          <6> QED BY <1>5, <3>2, <5>1, <5>2, <6>1
        <5> QED BY <3>2, <5>1, <5>2
      <4> QED BY <4>1, <4>2
    <3> HIDE DEF First
    <3> QED BY <1>2, <3>2, <3>3, <3>4 DEF Rotates
  <2>9. CASE op # "refresh"
    <3>1. PICK k \in {1, 2} : First(k, NewToken)
      <4>1. CASE todo = IssueTokens(NewToken)
        BY <1>1, <2>1, <2>4, <2>6, <4>1
      <4>2. CASE \E w \in UserWrites : w.write = "user" /\ todo = <<w>> \o IssueTokens(NewToken)
        <5>1. PICK w \in UserWrites : w.write = "user" /\ todo = <<w>> \o IssueTokens(NewToken)
          BY <4>2
        <5>2. call'[c].todo = <<w, Issue(NewToken, NewToken), ResetCount>> /\ w.write # "issue"
          BY <1>1, <2>1, <2>6, <5>1
        <5> QED BY <2>1, <2>5, <5>2
      <4>3. issued'.tokens # issued.tokens
        BY <1>3, <1>7, <2>1
      <4>4. \/ todo = IssueTokens(NewToken)
            \/ \E w \in UserWrites : w.write = "user" /\ todo = <<w>> \o IssueTokens(NewToken)
        BY <1>2, <2>9, <4>3 DEF DrawsFor
      <4> HIDE DEF First
      <4> QED BY <4>1, <4>2, <4>4
    <3>2. LiveFor(c, k)' = {}
      <4>1. \A s \in Session : session[s].present => session[s].origin # NewToken
        <5> SUFFICES ASSUME NEW s \in Session, session[s].present
                     PROVE  session[s].origin # NewToken
          OBVIOUS
        <5>1. session[s].origin <= issued.tokens /\ session[s].origin \in Nat
          BY <1>3 DEF TokenInv, OriginsDrawn, Session
        <5> QED BY <1>3, <2>1, <5>1
      <4>2. OriginAt(c, k)' = NewToken
        BY <3>1
      <4>3. LiveFor(c, k)' = {s \in Session : session'[s].present /\ session'[s].origin = OriginAt(c, k)'}
        BY DEF LiveFor
      <4> HIDE DEF First
      <4> QED BY <1>2, <4>1, <4>2, <4>3
    <3>3. \A d \in Slot \ {c}, i \in Nat : IssuesAt(d, i) => OriginAt(d, i) # NewToken
      <4> SUFFICES ASSUME NEW d \in Slot \ {c}, NEW i \in Nat, IssuesAt(d, i), OriginAt(d, i) = NewToken
                   PROVE  FALSE
        OBVIOUS
      <4>1. NewToken <= issued.tokens
        BY DEF TokenInv, OriginsDrawn
      <4> QED BY <1>3, <2>1, <4>1
    <3>4. LiveFor(c, k)' = {} =>
            \A s \in LiveFor(c, k)' : \E j \in 1..(k - 1) : call'[c].todo[j] = Other("revoke", {s})
      OBVIOUS
    <3>5. OriginsDrawn' /\ Rotates'
      <4> HIDE DEF First
      <4> QED BY <1>3, <2>1, <2>9, <2>7, <2>8, <3>1, <3>2, <3>3, <3>4
    <3> QED BY <3>5 DEF TokenInv
  <2>10. CASE op = "refresh"
    <3>1. PICK s \in Session : /\ session[s].present
                               /\ todo = <<Other("revoke", {s})>> \o IssueTokens(session[s].origin)
      BY <1>2, <2>10 DEF DrawsFor
    <3> DEFINE o == session[s].origin
    <3>2. /\ call'[c].todo = <<Other("revoke", {s}), Issue(NewToken, o), ResetCount>>
          /\ o \in Session /\ Other("revoke", {s}).write # "issue"
      BY <1>1, <1>3, <2>6, <3>1 DEF Other
    <3>3. First(2, o) /\ call'[c].todo[1] = Other("revoke", {s})
      BY <2>5, <3>2
    <3>4. o \in Nat /\ o <= NewToken
      BY <1>3, <2>1, <3>1 DEF Session, TokenInv, OriginsDrawn
    <3>5. OriginsDrawn'
      <4> HIDE DEF First
      <4> QED BY <2>7, <3>3, <3>4
    <3>6. ASSUME "rotation" \notin crossed' PROVE Rotates'
      <4>1. "rotation" \notin crossed /\ \A d \in Slot \ {c} : call[d].op # "refresh"
        <5>1. ASSUME NEW d \in Slot \ {c}, call[d].op = "refresh" PROVE FALSE
          <6>1. InHand(d) /\ "rotation" \in Touches(op) \cap Touches(call[d].op)
            BY <2>10, <5>1 DEF Touches, InHand, NoCall, None
          <6> QED BY <1>2, <3>6, <6>1 DEF Begin
        <5> QED BY <1>2, <3>6, <5>1 DEF Begin
      <4>2. /\ \A t \in Session : session[t].present /\ session[t].origin = o => s = t
            /\ \A d \in Slot, i \in Nat : IssuesAt(d, i) /\ call[d].op # "refresh" => LiveFor(d, i) = {}
        BY <3>1, <4>1 DEF TokenInv, Rotates
      <4>3. \A d \in Slot \ {c}, i \in Nat : IssuesAt(d, i) => OriginAt(d, i) # o
        BY <3>1, <4>1, <4>2 DEF LiveFor
      <4>4. \A t \in LiveFor(c, 2)' : \E j \in 1..(2 - 1) : call'[c].todo[j] = Other("revoke", {t})
        <5>1. \A t \in LiveFor(c, 2)' : t = s
          BY <1>2, <3>3, <4>2 DEF LiveFor
        <5> QED BY <3>3, <5>1
      <4> HIDE DEF First
      <4> QED BY <2>10, <2>8, <3>3, <3>4, <4>1, <4>3, <4>4
    <3> QED BY <3>5, <3>6 DEF TokenInv, Rotates
  <2> QED BY <2>9, <2>10
<1> QED BY <1>2, <1>6, <1>7 DEF DrawsFor

\* Every step keeps the order of the rotation.
LEMMA TokenStep == ASSUME TypeInv, TokenInv, AccountStep PROVE TokenInv'
<1>1. CASE \E c \in Slot : Opens(c)
  BY <1>1, TokensOpened DEF Opens
<1>2. ASSUME NEW c \in Slot, Statement(c) PROVE TokenInv'
  <2>1. CASE IssueToken(c) /\ ~Throws(c)
    BY <2>1, TokensIssued
  <2>2. CASE ~IssueToken(c) \/ Throws(c)
    <3>1. /\ \A d \in Slot : Moves(d)
          /\ \A d \in Slot \ {c} : call'[d] = call[d] \/ call'[d].todo = <<>>
          /\ issued' = issued /\ crossed' = crossed
          /\ Head1(c).write = "revoke" => \A s \in Head1(c).what : session'[s] = NoRow
          /\ ~IssueToken(c) => SessionsEnd
      BY <1>2, StatementMoves
    <3>2. SessionsEnd
      BY <2>2, <3>1 DEF Throws, SessionsEnd
    <3>3. ASSUME NEW d \in Slot, NEW s \in Session, call[d].todo # <<>>,
                 call'[d].todo = Tail(call[d].todo), Head1(d) = Other("revoke", {s}),
                 call'[d].todo \notin {<<>>, call[d].todo}
          PROVE  session'[s] = NoRow
      <4>1. d = c
        BY <3>1, <3>3
      <4>2. Head1(c).write = "revoke" /\ s \in Head1(c).what
        BY <3>3, <4>1 DEF Other
      <4> QED BY <3>1, <4>2
    <3> QED BY <3>1, <3>2, <3>3, TokensShrink
  <2> QED BY <2>1, <2>2
<1>3. CASE \E c \in Slot : Returned(c) /\ Frees(c) /\ ServerRests
  <2>1. PICK c \in Slot : Returned(c) /\ Frees(c) /\ ServerRests
    BY <1>3
  <2>2. \A d \in Slot : call'[d] = NoCall \/ call'[d] = call[d]
    BY <2>1, FreesTyped DEF Frees, ServerRests
  <2>3. \A d \in Slot : /\ Moves(d) \/ call'[d] = NoCall
                        /\ call'[d].todo \in {<<>>, call[d].todo}
    BY <2>2 DEF Moves, NoCall
  <2> QED BY <2>1, <2>3, TokensShrink DEF ServerRests, SessionsEnd
<1>4. CASE Clock
  BY <1>4, ClockTyped, TokensShrink DEF SessionsEnd, Moves
<1>5. CASE Restart
  <2>1. \A d \in Slot : call'[d] = NoCall /\ call'[d].todo = <<>>
    BY <1>5, RestartTyped DEF NoCall
  <2> QED BY <1>5, <2>1, RestartTyped, TokensShrink DEF SessionsEnd
<1>6. CASE UNCHANGED accountVars
  BY <1>6, TokensShrink DEF accountVars, SessionsEnd, Moves
<1> QED BY <1>1, <1>2, <1>3, <1>4, <1>5, <1>6 DEF AccountStep

-----------------------------------------------------------------------------
(* Two-factor sign-in that its person can pass *)

\* Turning it on is awaited by the calls that do so, and its statement too.
LEMMA EnablesKept ==
    ASSUME TypeInv, NEW d \in Slot, Moves(d) \/ call'[d] = NoCall, NEW i \in Nat, EnablesAt(d, i)'
    PROVE  /\ \E k \in Nat : EnablesAt(d, k)
           /\ call'[d].op = call[d].op /\ call'[d].user = call[d].user
<1>1. PICK n \in {0, 1} :
        \A j \in 1..Len(call'[d].todo) :
           j + n \in 1..Len(call[d].todo) /\ call'[d].todo[j] = call[d].todo[j + n]
  BY Shifted
<1>2. EnablesAt(d, i + n) /\ i + n \in Nat
  BY <1>1 DEF EnablesAt
<1>3. call'[d] # NoCall
  BY DEF EnablesAt, NoCall
<1> QED BY <1>2, <1>3 DEF Moves

\* A call that awaits turning it on is one of those that do.
LEMMA EnablesOp ==
    ASSUME TypeInv, NEW d \in Slot, NEW i \in Nat, EnablesAt(d, i)
    PROVE  call[d].op \in EnableOps
<1>1. call[d].todo[i] \in Writes(call[d].op) /\ call[d].todo[i] \in Enabling
  BY DEF EnablesAt, TypeInv, Plausible
<1> QED BY <1>1, Apart

SameTotp(u) == /\ user'[u].totpEnabled = user[u].totpEnabled
               /\ user'[u].totpSecret = user[u].totpSecret

\* A step that changes no secret and no switch, and adds rows with two-factor
\* sign-in off.
LEMMA TotpShrink ==
    ASSUME TypeInv, TotpInv, crossed \subseteq crossed',
           \A d \in Slot : Moves(d) \/ call'[d] = NoCall,
           \A u \in User : user'[u].present /\ user[u].present =>
              SameTotp(u) /\ held'[u].app = held[u].app,
           \A u \in User : user'[u].present /\ ~user[u].present => ~user'[u].totpEnabled,
           \A u \in User : user[u].present /\ ~user'[u].present =>
              \A d \in Slot, i \in Nat : call[d].user = u => ~EnablesAt(d, i)'
    PROVE  TotpInv'
<1> SUFFICES ASSUME "totp" \notin crossed' PROVE TotpInv'
  BY DEF TotpInv
<1>1. /\ \A u \in User : user[u].present /\ user[u].totpEnabled => CodeMatches(u)
      /\ \A c, d \in Slot : call[c].op \in TotpOps /\ call[d].op \in TotpOps => c = d
      /\ \A c \in Slot, u \in User : call[c].user = u =>
            /\ call[c].op \in DrawOps /\ user[u].present => ~user[u].totpEnabled
            /\ \A i \in Nat : EnablesAt(c, i) => user[u].present /\ CodeMatches(u)
  BY DEF TotpInv
<1>2. None \notin TotpOps /\ DrawOps \subseteq TotpOps
  BY DEF TotpOps, DrawOps, EnableOps, None
<1>3. \A d \in Slot : call'[d].op \in TotpOps => /\ call'[d].op = call[d].op
                                                 /\ call'[d].user = call[d].user
  BY <1>2 DEF Moves, NoCall
<1>4. \A u \in User : user'[u].present /\ user'[u].totpEnabled => CodeMatches(u)'
  BY <1>1 DEF CodeMatches, SameTotp
<1>5. \A c, d \in Slot : call'[c].op \in TotpOps /\ call'[d].op \in TotpOps => c = d
  BY <1>1, <1>3
<1>6. ASSUME NEW c \in Slot, NEW u \in User, call'[c].user = u
      PROVE  /\ call'[c].op \in DrawOps /\ user'[u].present => ~user'[u].totpEnabled
             /\ \A i \in Nat : EnablesAt(c, i)' => user'[u].present /\ CodeMatches(u)'
  <2>1. call'[c].op \in DrawOps /\ user'[u].present => ~user'[u].totpEnabled
    BY <1>1, <1>2, <1>3, <1>6 DEF SameTotp
  <2>2. ASSUME NEW i \in Nat, EnablesAt(c, i)' PROVE user'[u].present /\ CodeMatches(u)'
    <3>1. call[c].user = u /\ user[u].present /\ CodeMatches(u)
      BY <1>1, <1>6, <2>2, EnablesKept
    <3>2. user'[u].present
      BY <2>2, <3>1
    <3> QED BY <3>1, <3>2 DEF CodeMatches, SameTotp
  <2> QED BY <2>1, <2>2
<1> QED BY <1>4, <1>5, <1>6 DEF TotpInv

\* A call on two-factor sign-in that goes on, with no other in hand.
LEMMA TotpAlone ==
    ASSUME TypeInv, TotpInv, NEW c \in Slot, call[c].op \in TotpOps, "totp" \notin crossed,
           crossed' = crossed, \A d \in Slot : Moves(d), NEW u \in User, call[c].user = u,
           user[u].present => user'[u].present,
           \A v \in User \ {u} : user'[v] = user[v] /\ held'[v].app = held[v].app,
           user'[u].present /\ user'[u].totpEnabled => CodeMatches(u)',
           call[c].op \in DrawOps /\ user'[u].present => ~user'[u].totpEnabled,
           \A i \in Nat : EnablesAt(c, i)' => user'[u].present /\ CodeMatches(u)'
    PROVE  TotpInv'
<1>1. /\ \A v \in User : user[v].present /\ user[v].totpEnabled => CodeMatches(v)
      /\ \A d \in Slot : call[d].op \in TotpOps => c = d
  BY DEF TotpInv
<1>2. \A v \in User : user'[v].present /\ user'[v].totpEnabled => CodeMatches(v)'
  BY <1>1 DEF CodeMatches
<1>3. \A d \in Slot : call'[d].op = call[d].op /\ call'[d].user = call[d].user
  BY DEF Moves
<1>4. \A d \in Slot : call'[d].op \in TotpOps => d = c
  BY <1>1, <1>3
<1>5. DrawOps \subseteq TotpOps /\ EnableOps \subseteq TotpOps
  BY DEF TotpOps
<1>6. \A d \in Slot, i \in Nat : EnablesAt(d, i)' => d = c
  BY <1>1, <1>5, EnablesKept, EnablesOp
<1> QED BY <1>2, <1>3, <1>4, <1>5, <1>6 DEF TotpInv

\* A request on two-factor sign-in is alone, or the calls have overlapped.
LEMMA TotpOpened ==
    ASSUME TypeInv, TotpInv, NEW c \in Slot, NEW op, NEW u, NEW todo, Opening(c, op, u, todo)
    PROVE  TotpInv'
<1> SUFFICES ASSUME "totp" \notin crossed' PROVE TotpInv'
  BY DEF TotpInv
<1>1. /\ call'[c] = [op |-> op, user |-> u, todo |-> todo, result |-> 0]
      /\ \A d \in Slot \ {c} : call'[d] = call[d]
  BY OpeningTyped
<1>2. call'[c].op = op /\ call'[c].user = u /\ call'[c].todo = todo
  BY <1>1
<1>3. /\ UNCHANGED <<user, held>> /\ Begin(c, op, u, todo) /\ todo \in Seq(Writes(op))
      /\ op \in DrawOps => ~user[u].totpEnabled
      /\ op \in EnableOps => user[u].present /\ CodeMatches(u)
  BY DEF Opening, Reads
<1>4. "totp" \notin crossed
  BY <1>3 DEF Begin
<1>5. /\ \A v \in User : user[v].present /\ user[v].totpEnabled => CodeMatches(v)
      /\ \A d, e \in Slot : call[d].op \in TotpOps /\ call[e].op \in TotpOps => d = e
      /\ \A d \in Slot, v \in User : call[d].user = v =>
            /\ call[d].op \in DrawOps /\ user[v].present => ~user[v].totpEnabled
            /\ \A i \in Nat : EnablesAt(d, i) => user[v].present /\ CodeMatches(v)
  BY <1>4 DEF TotpInv
<1>6. \A v : CodeMatches(v)' <=> CodeMatches(v)
  BY <1>3 DEF CodeMatches
<1>7. ASSUME op \in TotpOps, NEW d \in Slot \ {c}, call[d].op \in TotpOps PROVE FALSE
  <2>1. Touches(op) = {"totp"} /\ Touches(call[d].op) = {"totp"}
    BY <1>7 DEF Touches, TotpOps, DrawOps, EnableOps
  <2>2. InHand(d)
    BY <1>7 DEF InHand, NoCall, TotpOps, DrawOps, EnableOps, None
  <2>3. d \in {x \in Slot \ {c} : InHand(x)}
    BY <1>7, <2>2
  <2>4. crossed' = crossed \cup UNION {Touches(op) \cap Touches(call[e].op) :
                                         e \in {x \in Slot \ {c} : InHand(x)}}
    BY <1>3 DEF Begin
  <2> QED BY <2>1, <2>3, <2>4
<1>8. \A d, e \in Slot : call'[d].op \in TotpOps /\ call'[e].op \in TotpOps => d = e
  BY <1>1, <1>2, <1>5, <1>7
<1>9. ASSUME NEW i \in Nat, EnablesAt(c, i)' PROVE op \in EnableOps
  <2>1. todo[i] \in Writes(op) /\ todo[i] \in Enabling
    BY <1>2, <1>3, <1>9 DEF EnablesAt
  <2> QED BY <2>1, Apart
<1>10. \A d \in Slot \ {c}, i \in Nat : EnablesAt(d, i)' <=> EnablesAt(d, i)
  BY <1>1 DEF EnablesAt
<1>11. ASSUME NEW d \in Slot, NEW v \in User, call'[d].user = v
       PROVE  /\ call'[d].op \in DrawOps /\ user'[v].present => ~user'[v].totpEnabled
              /\ \A i \in Nat : EnablesAt(d, i)' => user'[v].present /\ CodeMatches(v)'
  <2>1. CASE d = c
    BY <1>2, <1>3, <1>6, <1>9, <1>11, <2>1
  <2>2. CASE d # c
    BY <1>1, <1>3, <1>5, <1>6, <1>10, <1>11, <2>2
  <2> QED BY <2>1, <2>2
<1> QED BY <1>3, <1>5, <1>6, <1>8, <1>11 DEF TotpInv

\* A statement: a secret changes while sign-in is by password alone, and the
\* switch goes on with codes that match.
LEMMA TotpStated ==
    ASSUME TypeInv, TotpInv, NEW c \in Slot, Statement(c)
    PROVE  TotpInv'
<1>1. /\ \A d \in Slot : Moves(d)
      /\ crossed' = crossed /\ TypeInv' /\ call[c].todo # <<>>
      /\ \A d \in Slot \ {c} : call'[d] = call[d] \/ call'[d].todo = <<>>
  BY StatementMoves
<1>2. SUFFICES ASSUME "totp" \notin crossed PROVE TotpInv'
  BY <1>1 DEF TotpInv
<1>3. Head1(c) \in Writes(call[c].op)
  BY <1>1, HeadTyped
<1> DEFINE w == Head1(c)
<1>4. CASE UNCHANGED user /\ \A v \in User : held'[v].app = held[v].app
  BY <1>1, <1>4, TotpShrink DEF SameTotp
<1>5. CASE Throws(c)
  BY <1>4, <1>5 DEF Throws
<1>6. CASE WriteUser(c) /\ ~Throws(c)
  <2>1. PICK u \in User :
          /\ call[c].user = u /\ user[u].present /\ Goes(c) /\ user'[u].present
          /\ user' = [user EXCEPT ![u] = Merged(@, w.columns)]
          /\ UNCHANGED held /\ w.write = "user" /\ w \in UserWrites
    BY <1>6, WriteUserTyped
  <2> HIDE DEF w
  <2>2. user[u] \in UserRow /\ user \in [User -> UserRow \cup {NoRow}]
    BY <2>1, Rows DEF TypeInv, TypeOK
  <2>3. /\ \A v \in User : v # u => user'[v] = user[v]
        /\ user'[u] = Merged(user[u], w.columns)
    BY <2>1, <2>2
  <2>4. \A f \in Fields : user'[u][f] = IF f \in DOMAIN w.columns THEN w.columns[f] ELSE user[u][f]
    BY <2>1, <2>2, <2>3, MergedTyped
  <2>5. /\ user'[u].totpEnabled = IF "totpEnabled" \in DOMAIN w.columns THEN w.columns.totpEnabled
                                                                       ELSE user[u].totpEnabled
        /\ user'[u].totpSecret = IF "totpSecret" \in DOMAIN w.columns THEN w.columns.totpSecret
                                                                     ELSE user[u].totpSecret
    BY <2>4 DEF Fields
  <2>6. CASE w \in Counting \cup Spending \cup Password \cup Inviting \cup Assigning
    <3>1. "totpEnabled" \notin DOMAIN w.columns /\ "totpSecret" \notin DOMAIN w.columns
      <4>1. CASE w \in Counting
        BY <4>1 DEF Counting, Columns
      <4>2. CASE w \in Spending
        BY <4>2 DEF Spending, Columns
      <4>3. CASE w \in Password
        BY <2>1, <4>3, ColumnsOf
      <4>4. CASE w \in Inviting
        BY <2>1, <4>4, ColumnsOf
      <4>5. CASE w \in Assigning
        BY <4>5 DEF Assigning, Columns
      <4> QED BY <2>6, <4>1, <4>2, <4>3, <4>4, <4>5
    <3>2. SameTotp(u)
      BY <2>5, <3>1 DEF SameTotp
    <3> QED BY <1>1, <2>1, <2>3, <3>2, TotpShrink DEF SameTotp
  <2>7. /\ \A v \in User \ {u} : user'[v] = user[v] /\ held'[v].app = held[v].app
        /\ call[c].user = u
    BY <2>1, <2>3
  <2>8. CASE w \in Drawing
    <3>1. call[c].op \in DrawOps /\ call[c].op \in TotpOps /\ call[c].op \notin EnableOps
      BY <1>3, <2>8, Apart DEF TotpOps, DrawOps, EnableOps, w
    <3>2. ~user[u].totpEnabled
      BY <1>2, <2>1, <2>7, <3>1 DEF TotpInv
    <3>3. ~user'[u].totpEnabled
      BY <2>1, <2>5, <2>8, <3>2, ColumnsOf
    <3>4. \A i \in Nat : ~EnablesAt(c, i)'
      BY <1>1, <3>1, EnablesKept, EnablesOp
    <3> QED BY <1>1, <1>2, <2>1, <2>7, <3>1, <3>3, <3>4, TotpAlone
  <2>9. CASE w \in Resetting
    <3>1. call[c].op \in TotpOps /\ call[c].op \notin EnableOps
      BY <1>3, <2>9, Apart DEF TotpOps, EnableOps, w
    <3>2. ~user'[u].totpEnabled
      BY <2>1, <2>5, <2>9, ColumnsOf
    <3>3. \A i \in Nat : ~EnablesAt(c, i)'
      BY <1>1, <3>1, EnablesKept, EnablesOp
    <3> QED BY <1>1, <1>2, <2>1, <2>7, <3>1, <3>2, <3>3, TotpAlone
  <2>10. CASE w \in Enabling
    <3>1. call[c].op \in EnableOps /\ call[c].op \in TotpOps /\ call[c].op \notin DrawOps
      BY <1>3, <2>10, Apart DEF TotpOps, DrawOps, EnableOps, w
    <3>2. EnablesAt(c, 1)
      <4>1. call[c].todo \in Seq(Writes(call[c].op)) /\ w = call[c].todo[1]
        BY <1>1, HeadTyped DEF TypeInv, Plausible, w
      <4> QED BY <1>1, <2>10, <4>1 DEF EnablesAt
    <3>3. CodeMatches(u)
      BY <1>2, <2>1, <2>7, <3>2 DEF TotpInv
    <3>4. user'[u].totpSecret = user[u].totpSecret
      BY <2>1, <2>5, <2>10, ColumnsOf
    <3>5. CodeMatches(u)'
      <4>1. user'[u].totpSecret # None /\ held'[u].app = user'[u].totpSecret
        BY <2>1, <3>3, <3>4 DEF CodeMatches
      <4> QED BY <4>1 DEF CodeMatches
    <3> QED BY <1>1, <1>2, <2>1, <2>7, <3>1, <3>5, TotpAlone
  <2> QED BY <2>1, <2>6, <2>8, <2>9, <2>10 DEF UserWrites
<1>7. CASE WriteGive(c) /\ ~Throws(c)
  <2>1. PICK u \in User :
          /\ call[c].user = u /\ Goes(c) /\ UNCHANGED <<user, session>> /\ w.write = "give"
          /\ \A v \in User : held'[v].app # held[v].app => v = u /\ w.field = "app"
    BY <1>7, WriteGiveTyped
  <2>2. CASE w.field = "app"
    <3>1. w \in Drawing
      <4>1. w \notin Gift("pending", {TRUE}) \cup Gift("setups", Invite) \cup Gift("links", Invite)
        BY <2>2 DEF Gift
      <4>2. w \notin Issuing \cup Counting \cup Spending \cup Revoking \cup RevokingAll
                       \cup Deleting \cup Saving \cup Syncing \cup Password \cup Creating
        BY <2>1 DEF Issuing, Counting, Spending, Revoking, RevokingAll, Deleting, Saving, Syncing,
                    Password, Creating, Columns
      <4>3. w \notin Enabling \cup Resetting \cup Assigning \cup Inviting
        BY <2>1, <4>1 DEF Enabling, Resetting, Assigning, Inviting, Columns
      <4> HIDE DEF w
      <4> QED BY <1>3, <4>1, <4>2, <4>3 DEF Writes, w
    <3>2. call[c].op \in DrawOps /\ call[c].op \in TotpOps /\ call[c].op \notin EnableOps
      BY <1>3, <3>1, Apart DEF TotpOps, DrawOps, EnableOps
    <3>3. user[u].present => ~user[u].totpEnabled
      BY <1>2, <2>1, <3>2 DEF TotpInv
    <3>4. \A i \in Nat : ~EnablesAt(c, i)'
      BY <1>1, <3>2, EnablesKept, EnablesOp
    <3> HIDE DEF w
    <3> QED BY <1>1, <1>2, <2>1, <3>2, <3>3, <3>4, TotpAlone
  <2>3. CASE w.field # "app"
    BY <1>4, <2>1, <2>3
  <2> QED BY <2>2, <2>3
<1>8. CASE IssueToken(c) /\ ~Throws(c)
  BY <1>4, <1>8, IssueTokenTyped
<1>9. CASE Revoke(c)
  BY <1>4, <1>9, RevokeTyped
<1>10. CASE InsertUser(c) /\ ~Throws(c)
  <2>1. PICK u \in User :
          /\ ~user[u].present /\ user' = [user EXCEPT ![u] = w.what] /\ UNCHANGED held
          /\ w \in Creating /\ user \in [User -> UserRow \cup {NoRow}]
    BY <1>10, InsertUserTyped DEF TypeInv, TypeOK
  <2>2. ~w.what.totpEnabled
    BY <2>1 DEF Creating
  <2> HIDE DEF w
  <2>3. /\ user'[u] = w.what /\ \A v \in User : v # u => user'[v] = user[v]
    BY <2>1
  <2> QED BY <1>1, <2>1, <2>2, <2>3, TotpShrink DEF SameTotp
<1>11. CASE DeleteUser(c)
  <2>1. PICK u \in User :
          /\ user' = [user EXCEPT ![u] = NoRow]
          /\ held' = [held EXCEPT ![u] = NothingHeld]
          /\ user \in [User -> UserRow \cup {NoRow}] /\ DOMAIN held = User
          /\ \A d \in Slot : call[d].user = u /\ call'[d].todo # <<>> => call[d].op = "create"
    BY <1>11, DeleteUserTyped DEF TypeInv, TypeOK
  <2>2. \A d \in Slot, i \in Nat : call[d].user = u => ~EnablesAt(d, i)'
    <3> SUFFICES ASSUME NEW d \in Slot, NEW i \in Nat, call[d].user = u, EnablesAt(d, i)'
                 PROVE  FALSE
      OBVIOUS
    <3>1. call'[d].todo # <<>>
      BY DEF EnablesAt
    <3>2. call[d].op \in EnableOps
      BY <1>1, EnablesKept, EnablesOp
    <3> QED BY <2>1, <3>1, <3>2 DEF EnableOps
  <2>3. /\ ~user'[u].present
        /\ \A v \in User : v # u => user'[v] = user[v] /\ held'[v] = held[v]
    BY <2>1 DEF NoRow
  <2> QED BY <1>1, <2>2, <2>3, TotpShrink DEF SameTotp
<1>12. CASE WriteProfile(c) /\ ~Throws(c)
  BY <1>4, <1>12, WriteProfileTyped
<1>13. CASE SyncRoles(c)
  BY <1>1, <1>13, SyncRolesTyped, TotpShrink DEF SameTotp
<1> QED BY <1>5, <1>6, <1>7, <1>8, <1>9, <1>10, <1>11, <1>12, <1>13 DEF Statement

\* Every step leaves two-factor sign-in passable.
LEMMA TotpStep == ASSUME TypeInv, TotpInv, AccountStep PROVE TotpInv'
<1>1. CASE \E c \in Slot : Opens(c)
  BY <1>1, TotpOpened DEF Opens
<1>2. CASE \E c \in Slot : Statement(c)
  BY <1>2, TotpStated
<1>3. CASE \E c \in Slot : Returned(c) /\ Frees(c) /\ ServerRests
  <2>1. PICK c \in Slot : Returned(c) /\ Frees(c) /\ ServerRests
    BY <1>3
  <2>2. \A d \in Slot : call'[d] = NoCall \/ call'[d] = call[d]
    BY <2>1, FreesTyped DEF Frees, ServerRests
  <2>3. \A d \in Slot : Moves(d) \/ call'[d] = NoCall
    BY <2>2 DEF Moves
  <2> QED BY <2>1, <2>3, TotpShrink DEF ServerRests, SameTotp
<1>4. CASE Clock
  BY <1>4, ClockTyped, TotpShrink DEF SameTotp, Moves
<1>5. CASE Restart
  <2>1. \A d \in Slot : call'[d] = NoCall
    BY <1>5, RestartTyped
  <2> QED BY <1>5, <2>1, RestartTyped, TotpShrink DEF SameTotp
<1>6. CASE UNCHANGED accountVars
  BY <1>6, TotpShrink DEF accountVars, SameTotp, Moves
<1> QED BY <1>1, <1>2, <1>3, <1>4, <1>5, <1>6 DEF AccountStep

-----------------------------------------------------------------------------
(* The role of a user and of its profile *)

\* Who calls about somebody does not call about a profile.
LEMMA PersonOrProfile ==
    ASSUME TypeInv, NEW c \in Slot, call[c].user \in User
    PROVE  call[c].op # "profile"
  BY Marks DEF TypeInv, Plausible

\* A role is given by the calls that create a user or assign a profile.
LEMMA AssignsElse ==
    ASSUME TypeInv, NEW c \in Slot, call[c].op \notin {"create", "update"},
           NEW i \in 1..Len(call[c].todo)
    PROVE  call[c].todo[i] \notin Creating \cup Assigning
<1>1. call[c].todo[i] \in Writes(call[c].op)
  BY DEF TypeInv, Plausible
<1> QED BY <1>1, Apart

SameRole(u) == user'[u].role = user[u].role /\ user'[u].profileId = user[u].profileId

\* A step that leaves the profiles, and gives no role but that of the profile.
LEMMA RoleShrink ==
    ASSUME TypeInv, RoleInv, crossed \subseteq crossed', "role" \notin crossed', profile' = profile,
           \A d \in Slot : Moves(d) \/ call'[d] = NoCall,
           \A d \in Slot : call'[d].op = "profile" => call'[d].todo \in {call[d].todo, <<>>},
           \A d \in Slot, p \in Profile : Syncs(d, p) => call'[d] = call[d],
           \A u \in User : user'[u].present =>
              \/ user'[u].role = profile[user'[u].profileId].baseRole
              \/ user[u].present /\ SameRole(u)
    PROVE  RoleInv'
<1>1. /\ \A u \in User : user[u].present =>
            \/ user[u].role = profile[user[u].profileId].baseRole
            \/ \E c \in Slot : Syncs(c, user[u].profileId)
      /\ \A c, d \in Slot : call[c].op \in RoleOps /\ call[d].op \in RoleOps => c = d
      /\ \A c \in Slot : call[c].op = "profile" => ProfileStage(c)
      /\ \A c \in Slot, i \in Nat : AssignsAt(c, i)
  BY DEF RoleInv
<1>2. \A d \in Slot, p \in Profile : Syncs(d, p) => Syncs(d, p)'
  BY DEF Syncs
<1>3. \A u \in User : user[u].present => user[u].profileId \in Profile
  <2>1. \A row \in UserRow : row.profileId \in Profile
    BY DEF UserRow
  <2> QED BY <2>1, Rows
<1>4. ASSUME NEW u \in User, user'[u].present
      PROVE  \/ user'[u].role = profile'[user'[u].profileId].baseRole
             \/ \E c \in Slot : Syncs(c, user[u].profileId)' /\ user'[u].profileId = user[u].profileId
  BY <1>1, <1>2, <1>3, <1>4 DEF SameRole
<1>5. \A d \in Slot : call'[d].op \in RoleOps => call'[d].op = call[d].op
  BY DEF Moves, NoCall, RoleOps, None
<1>6. \A c, d \in Slot : call'[c].op \in RoleOps /\ call'[d].op \in RoleOps => c = d
  BY <1>1, <1>5
<1>7. ASSUME NEW c \in Slot, call'[c].op = "profile" PROVE ProfileStage(c)'
  <2>1. call[c].op = "profile" /\ call'[c].todo \in {call[c].todo, <<>>}
    BY <1>5, <1>7 DEF RoleOps
  <2>2. ProfileStage(c)
    BY <1>1, <2>1
  <2> QED BY <2>1, <2>2 DEF ProfileStage
<1>8. ASSUME NEW c \in Slot, NEW i \in Nat PROVE AssignsAt(c, i)'
  <2> SUFFICES ASSUME i \in 1..Len(call'[c].todo) PROVE AssignsAt(c, i)'
    BY DEF AssignsAt
  <2>1. PICK n \in {0, 1} : i + n \in 1..Len(call[c].todo) /\ call'[c].todo[i] = call[c].todo[i + n]
    BY Shifted
  <2>2. AssignsAt(c, i + n)
    BY <1>1
  <2> QED BY <2>1, <2>2 DEF AssignsAt, Assigns
<1>9. \A u \in User : user'[u].present =>
        \/ user'[u].role = profile'[user'[u].profileId].baseRole
        \/ \E c \in Slot : Syncs(c, user[u].profileId)'
  BY <1>4
<1> QED BY <1>6, <1>7, <1>8, <1>9 DEF RoleInv

\* A request that gives a role is alone, and gives that of the profile it read.
LEMMA RoleOpened ==
    ASSUME TypeInv, RoleInv, NEW c \in Slot, NEW op, NEW u, NEW todo, Opening(c, op, u, todo)
    PROVE  RoleInv'
<1> SUFFICES ASSUME "role" \notin crossed' PROVE RoleInv'
  BY DEF RoleInv
<1>1. /\ call'[c] = [op |-> op, user |-> u, todo |-> todo, result |-> 0]
      /\ \A d \in Slot \ {c} : call'[d] = call[d]
  BY OpeningTyped
<1>2. call'[c].op = op /\ call'[c].user = u /\ call'[c].todo = todo
  BY <1>1
<1>3. /\ UNCHANGED <<user, profile>> /\ Begin(c, op, u, todo) /\ todo \in Seq(Writes(op))
      /\ op = "profile" => ProfilePlan(todo)
      /\ op \in {"create", "update"} /\ InSync(u) => \A i \in 1..Len(todo) : Assigns(todo[i])
      /\ call[c] = NoCall /\ u \in User \cup {None} /\ (u = None <=> op = "profile")
  BY DEF Opening, Reads
<1>4. "role" \notin crossed
  BY <1>3 DEF Begin
<1>5. /\ \A v \in User : user[v].present =>
            \/ user[v].role = profile[user[v].profileId].baseRole
            \/ \E d \in Slot : Syncs(d, user[v].profileId)
      /\ \A d, e \in Slot : call[d].op \in RoleOps /\ call[e].op \in RoleOps => d = e
      /\ \A d \in Slot : call[d].op = "profile" => ProfileStage(d)
      /\ \A d \in Slot, i \in Nat : AssignsAt(d, i)
  BY <1>4 DEF RoleInv
<1>6. ASSUME op \in RoleOps, NEW d \in Slot \ {c}, call[d].op \in RoleOps PROVE FALSE
  <2>1. Touches(op) = {"role"} /\ Touches(call[d].op) = {"role"}
    BY <1>6 DEF Touches, RoleOps
  <2>2. d \in {x \in Slot \ {c} : InHand(x)}
    BY <1>6 DEF InHand, NoCall, RoleOps, None
  <2>3. crossed' = crossed \cup UNION {Touches(op) \cap Touches(call[e].op) :
                                         e \in {x \in Slot \ {c} : InHand(x)}}
    BY <1>3 DEF Begin
  <2> QED BY <2>1, <2>2, <2>3
<1>7. call[c].op = None
  BY <1>3 DEF NoCall
<1>8. \A d, e \in Slot : call'[d].op \in RoleOps /\ call'[e].op \in RoleOps => d = e
  BY <1>1, <1>2, <1>5, <1>6
<1>9. \A v \in User : user'[v].present =>
         \/ user'[v].role = profile'[user'[v].profileId].baseRole
         \/ \E d \in Slot : Syncs(d, user[v].profileId)'
  <2>1. \A d \in Slot : \A p : Syncs(d, p) => Syncs(d, p)'
    BY <1>1, <1>3, <1>7 DEF Syncs, None
  <2> QED BY <1>3, <1>5, <2>1
<1>10. ASSUME NEW d \in Slot, call'[d].op = "profile" PROVE ProfileStage(d)'
  <2>1. CASE d = c
    BY <1>2, <1>3, <1>10, <2>1 DEF ProfilePlan, ProfileStage
  <2>2. CASE d # c
    <3>1. ProfileStage(d) /\ call'[d] = call[d]
      BY <1>1, <1>5, <1>10, <2>2
    <3> QED BY <1>3, <3>1 DEF ProfileStage
  <2> QED BY <2>1, <2>2
<1>11. ASSUME NEW d \in Slot, NEW i \in Nat PROVE AssignsAt(d, i)'
  <2>1. CASE d # c
    <3>1. AssignsAt(d, i) /\ call'[d] = call[d]
      BY <1>1, <1>5, <2>1
    <3> QED BY <1>3, <3>1 DEF AssignsAt, Assigns
  <2>2. CASE d = c /\ op \notin {"create", "update"}
    <3>1. \A j \in 1..Len(todo) : todo[j] \in Writes(op)
      BY <1>3
    <3>2. \A j \in 1..Len(todo) : todo[j] \notin Creating /\ todo[j] \notin Assigning
      BY <2>2, <3>1, Apart
    <3> QED BY <1>2, <2>2, <3>2 DEF AssignsAt, Assigns
  <2>3. CASE d = c /\ op \in {"create", "update"}
    <3>1. \A e \in Slot : \A p : ~Syncs(e, p)
      BY <1>6, <1>7, <2>3 DEF Syncs, RoleOps, None
    <3>2. u \in User
      BY <1>3, <2>3
    <3>3. InSync(u)
      BY <1>5, <3>1, <3>2 DEF InSync
    <3>4. \A j \in 1..Len(todo) : Assigns(todo[j])
      BY <1>3, <2>3, <3>3
    <3> QED BY <1>2, <1>3, <2>3, <3>4 DEF AssignsAt, Assigns
  <2> QED BY <2>1, <2>2, <2>3
<1> QED BY <1>8, <1>9, <1>10, <1>11 DEF RoleInv

\* A call about somebody: a row takes the role of the profile it takes.
LEMMA RolePerson ==
    ASSUME TypeInv, RoleInv, NEW c \in Slot, Statement(c), call[c].user \in User,
           "role" \notin crossed
    PROVE  RoleInv'
<1>1. /\ TypeInv' /\ \A d \in Slot : Moves(d)
      /\ crossed' = crossed /\ call[c].todo # <<>>
      /\ \A d \in Slot \ {c} : call'[d] = call[d] \/ call'[d].todo = <<>>
  BY StatementMoves
<1>2. call[c].op # "profile"
  BY PersonOrProfile
<1>3. \A d \in Slot : call'[d].op = "profile" =>
         d # c /\ call'[d].todo \in {call[d].todo, <<>>}
  BY <1>1, <1>2 DEF Moves
<1>4. Head1(c) \in Writes(call[c].op) /\ AssignsAt(c, 1)
  BY <1>1, HeadTyped DEF RoleInv
<1>5. Assigns(Head1(c))
  <2>1. call[c].todo \in Seq(Writes(call[c].op)) /\ Head1(c) = call[c].todo[1]
    BY <1>1, HeadTyped DEF TypeInv, Plausible
  <2> QED BY <1>1, <1>4, <2>1 DEF AssignsAt
<1>6. \A d \in Slot, p \in Profile : Syncs(d, p) => call'[d] = call[d]
  <2> SUFFICES ASSUME NEW d \in Slot, NEW p \in Profile, Syncs(d, p), call'[d] # call[d]
               PROVE  FALSE
    OBVIOUS
  <2>1. d # c /\ call[d].op = "profile"
    BY <1>2 DEF Syncs
  <2>2. call[d].user = None
    BY <2>1 DEF TypeInv, Plausible
  <2>3. CASE DeleteUser(c)
    BY <2>2, <2>3, DeleteUserTyped, Marks
  <2>4. CASE ~DeleteUser(c)
    <3>1. (Goes(c) \/ Throws(c)) => call'[d] = call[d]
      BY <1>1, <2>1, GoesTyped, ThrowsTyped
    <3>2. CASE WriteUser(c) \/ WriteGive(c)
      BY <3>1, <3>2 DEF WriteUser, WriteGive
    <3>3. CASE IssueToken(c)
      BY <2>1, <3>1, <3>3, IssueTokenTyped
    <3>4. CASE Revoke(c) \/ InsertUser(c) \/ WriteProfile(c) \/ SyncRoles(c)
      BY <3>1, <3>4 DEF Revoke, InsertUser, WriteProfile, SyncRoles
    <3> QED BY <2>4, <3>1, <3>2, <3>3, <3>4 DEF Statement
  <2> QED BY <2>3, <2>4
<1>7. CASE UNCHANGED <<user, profile>>
  BY <1>1, <1>3, <1>6, <1>7, RoleShrink DEF SameRole
<1>8. CASE Throws(c)
  BY <1>7, <1>8 DEF Throws
<1>9. CASE WriteUser(c) /\ ~Throws(c)
  <2> DEFINE w == Head1(c)
  <2>1. PICK u \in User :
          /\ call[c].user = u /\ user[u].present /\ user'[u].present
          /\ user' = [user EXCEPT ![u] = Merged(@, w.columns)]
          /\ UNCHANGED profile /\ w.write = "user" /\ w \in UserWrites
    BY <1>9, WriteUserTyped
  <2>2. user[u] \in UserRow /\ user \in [User -> UserRow \cup {NoRow}]
    BY <2>1, Rows DEF TypeInv, TypeOK
  <2>3. Assigns(w)
    BY <1>5
  <2> HIDE DEF w
  <2>4. /\ \A v \in User : v # u => user'[v] = user[v]
        /\ user'[u] = Merged(user[u], w.columns)
    BY <2>1, <2>2
  <2>5. \A f \in Fields : user'[u][f] = IF f \in DOMAIN w.columns THEN w.columns[f] ELSE user[u][f]
    BY <2>1, <2>2, <2>4, MergedTyped
  <2>6. /\ user'[u].role = IF "role" \in DOMAIN w.columns THEN w.columns.role ELSE user[u].role
        /\ user'[u].profileId = IF "profileId" \in DOMAIN w.columns THEN w.columns.profileId
                                                                   ELSE user[u].profileId
    BY <2>5 DEF Fields
  <2>7. CASE w \in Assigning
    <3>1. /\ "role" \in DOMAIN w.columns /\ "profileId" \in DOMAIN w.columns
      BY <2>1, <2>7, ColumnsOf
    <3>2. profile[user'[u].profileId].present
      BY <1>1, <2>1 DEF TypeInv, TypeOK
    <3>3. user'[u].role = profile[user'[u].profileId].baseRole
      BY <2>3, <2>6, <2>7, <3>1, <3>2 DEF Assigns
    <3> QED BY <1>1, <1>3, <1>6, <2>1, <2>4, <3>3, RoleShrink DEF SameRole
  <2>8. CASE w \notin Assigning
    <3>1. "role" \notin DOMAIN w.columns /\ "profileId" \notin DOMAIN w.columns
      <4>1. CASE w \in Counting \cup Spending \cup Password
        BY <4>1 DEF Counting, Spending, Password, Columns
      <4>2. CASE w \in Drawing \cup Resetting
        BY <2>1, <4>2 DEF Drawing, Resetting, Columns, Gift
      <4>3. CASE w \in Enabling
        BY <4>3 DEF Enabling, Columns
      <4>4. CASE w \in Inviting
        <5>1. w \notin Gift("links", Invite)
          BY <2>1 DEF Gift
        <5>2. w \in Columns([inviteTokenHash: Invite, inviteLive: {TRUE}])
          BY <4>4, <5>1 DEF Inviting
        <5> QED BY <5>2 DEF Columns
      <4> QED BY <2>1, <2>8, <4>1, <4>2, <4>3, <4>4 DEF UserWrites
    <3>2. SameRole(u)
      BY <2>6, <3>1 DEF SameRole
    <3> QED BY <1>1, <1>3, <1>6, <2>1, <2>4, <3>2, RoleShrink DEF SameRole
  <2> QED BY <2>7, <2>8
<1>10. CASE InsertUser(c) /\ ~Throws(c)
  <2> DEFINE w == Head1(c)
  <2>1. PICK u \in User :
          /\ call[c].user = u /\ profile[w.what.profileId].present
          /\ user' = [user EXCEPT ![u] = w.what] /\ w \in Creating
          /\ UNCHANGED profile /\ user \in [User -> UserRow \cup {NoRow}]
    BY <1>10, InsertUserTyped DEF TypeInv, TypeOK
  <2>2. w.what.role = profile[w.what.profileId].baseRole
    BY <1>5, <2>1 DEF Assigns
  <2> HIDE DEF w
  <2>3. user'[u] = w.what /\ \A v \in User : v # u => user'[v] = user[v]
    BY <2>1
  <2> QED BY <1>1, <1>3, <1>6, <2>1, <2>2, <2>3, RoleShrink DEF SameRole
<1>11. CASE DeleteUser(c)
  <2>1. PICK u \in User : user' = [user EXCEPT ![u] = NoRow] /\ UNCHANGED profile
    BY <1>11, DeleteUserTyped
  <2>2. \A v \in User : user'[v].present => user'[v] = user[v]
    BY <2>1 DEF NoRow, TypeInv, TypeOK
  <2> QED BY <1>1, <1>3, <1>6, <2>1, <2>2, RoleShrink DEF SameRole
<1>12. CASE WriteGive(c) /\ ~Throws(c)
  BY <1>7, <1>12, WriteGiveTyped
<1>13. CASE IssueToken(c) /\ ~Throws(c)
  BY <1>7, <1>13, IssueTokenTyped
<1>14. CASE Revoke(c)
  BY <1>7, <1>14, RevokeTyped
<1>15. ~WriteProfile(c) /\ ~SyncRoles(c)
  BY <1>2, WriteProfileTyped, SyncRolesTyped
<1> QED BY <1>8, <1>9, <1>10, <1>11, <1>12, <1>13, <1>14, <1>15 DEF Statement

\* A call on a profile: nobody bears one that is created or deleted, who bears
\* one that changes is given its role next, and no other call gives one meanwhile.
LEMMA RoleProfile ==
    ASSUME TypeInv, RoleInv, NEW c \in Slot, WriteProfile(c) \/ SyncRoles(c), "role" \notin crossed
    PROVE  RoleInv'
<1>1. /\ TypeInv' /\ \A d \in Slot : Moves(d)
      /\ crossed' = crossed /\ call[c].todo # <<>>
  BY StatementMoves DEF Statement
<1>2. call[c].op = "profile"
  BY WriteProfileTyped, SyncRolesTyped
<1>3. \A d \in Slot \ {c} : call'[d] = call[d]
  BY <1>1, GoesTyped, ThrowsTyped DEF WriteProfile, SyncRoles
<1>4. /\ \A u \in User : user[u].present =>
            \/ user[u].role = profile[user[u].profileId].baseRole
            \/ Syncs(c, user[u].profileId)
      /\ \A d \in Slot : call[d].op \in RoleOps => d = c
      /\ ProfileStage(c)
  BY <1>2 DEF RoleInv, Syncs, RoleOps
<1>5. \A d \in Slot : call'[d].op = call[d].op
  BY <1>1 DEF Moves
<1>6. ASSUME NEW d \in Slot, NEW i \in Nat PROVE AssignsAt(d, i)'
  <2> SUFFICES ASSUME i \in 1..Len(call'[d].todo) PROVE AssignsAt(d, i)'
    BY DEF AssignsAt
  <2>1. PICK n \in {0, 1} : i + n \in 1..Len(call[d].todo) /\ call'[d].todo[i] = call[d].todo[i + n]
    BY <1>1, Shifted
  <2>2. call[d].op \notin {"create", "update"}
    BY <1>2, <1>4 DEF RoleOps
  <2>3. call[d].todo[i + n] \notin Creating \cup Assigning
    BY <2>1, <2>2, AssignsElse
  <2> QED BY <2>1, <2>3 DEF AssignsAt, Assigns
<1>7. SUFFICES ASSUME TRUE
               PROVE  /\ \A u \in User : user'[u].present =>
                            \/ user'[u].role = profile'[user'[u].profileId].baseRole
                            \/ Syncs(c, user[u].profileId)'
                      /\ ProfileStage(c)'
  <2>1. \A d \in Slot : call'[d].op \in RoleOps => d = c
    BY <1>4, <1>5
  <2>2. "profile" \in RoleOps
    BY DEF RoleOps
  <2> QED BY <1>6, <2>1, <2>2 DEF RoleInv
<1>8. \A u \in User : user[u].present => /\ user[u].profileId \in Profile
                                         /\ profile[user[u].profileId].present
  <2>1. \A row \in UserRow : row.profileId \in Profile
    BY DEF UserRow
  <2> QED BY <2>1, Rows DEF TypeInv, TypeOK
<1>9. CASE WriteProfile(c)
  <2>1. /\ Head1(c) \in Saving /\ Head1(c) = call[c].todo[1]
        /\ \/ /\ profile[Head1(c).id].present = Head1(c).exists
              /\ Head1(c).row = NoRow => Bearers(Head1(c).id) = {}
              /\ profile' = [profile EXCEPT ![Head1(c).id] = Head1(c).row]
              /\ call'[c].todo = Tail(call[c].todo) /\ UNCHANGED user
           \/ call'[c].todo = <<>> /\ UNCHANGED <<user, profile>>
    BY <1>1, <1>9, WriteProfileTyped, GoesTyped, ThrowsTyped, HeadTyped
  <2>2. \A p, r : Sync(p, r) \notin Saving
    BY DEF Sync, Saving
  <2>3. \A p \in Profile : \A r : call[c].todo # <<Sync(p, r)>>
    BY <2>1, <2>2
  <2>4. \A u \in User : user[u].present => user[u].role = profile[user[u].profileId].baseRole
    BY <1>4, <1>8, <2>3 DEF Syncs
  <2>5. CASE call'[c].todo = <<>> /\ UNCHANGED <<user, profile>>
    BY <2>4, <2>5 DEF ProfileStage
  <2>6. PICK p \in Profile, e \in BOOLEAN, row \in ProfileRows \cup {NoRow} :
          /\ call[c].todo[1] = SaveProfile(p, e, row)
          /\ \/ call[c].todo = <<SaveProfile(p, FALSE, row)>> /\ ~e
             \/ call[c].todo = <<SaveProfile(p, TRUE, NoRow)>> /\ row = NoRow
             \/ call[c].todo = <<SaveProfile(p, TRUE, row), Sync(p, row.baseRole)>>
    <3>1. CASE \E p \in Profile, row \in ProfileRows : call[c].todo = <<SaveProfile(p, FALSE, row)>>
      <4>1. PICK p \in Profile, row \in ProfileRows : call[c].todo = <<SaveProfile(p, FALSE, row)>>
        BY <3>1
      <4>2. call[c].todo[1] = SaveProfile(p, FALSE, row)
        BY <4>1
      <4> QED BY <4>1, <4>2
    <3>2. CASE \E p \in Profile : call[c].todo = <<SaveProfile(p, TRUE, NoRow)>>
      <4>1. PICK p \in Profile : call[c].todo = <<SaveProfile(p, TRUE, NoRow)>>
        BY <3>2
      <4>2. call[c].todo[1] = SaveProfile(p, TRUE, NoRow)
        BY <4>1
      <4> QED BY <4>1, <4>2
    <3>3. CASE \E p \in Profile, row \in ProfileRows :
                  call[c].todo = <<SaveProfile(p, TRUE, row), Sync(p, row.baseRole)>>
      <4>1. PICK p \in Profile, row \in ProfileRows :
              call[c].todo = <<SaveProfile(p, TRUE, row), Sync(p, row.baseRole)>>
        BY <3>3
      <4>2. call[c].todo[1] = SaveProfile(p, TRUE, row)
        BY <4>1
      <4> QED BY <4>1, <4>2
    <3> QED BY <1>1, <1>4, <2>3, <3>1, <3>2, <3>3 DEF ProfileStage
  <2>7. Head1(c).id = p /\ Head1(c).exists = e /\ Head1(c).row = row
    BY <2>1, <2>6 DEF SaveProfile
  <2>8. CASE /\ profile[p].present = e /\ (row = NoRow => Bearers(p) = {})
             /\ profile' = [profile EXCEPT ![p] = row]
             /\ call'[c].todo = Tail(call[c].todo) /\ UNCHANGED user
    <3>1. profile'[p] = row /\ \A q \in Profile : q # p => profile'[q] = profile[q]
      BY <2>8 DEF TypeInv
    <3>2. \A u \in User : user'[u].present /\ user'[u].profileId # p =>
             user'[u].role = profile'[user'[u].profileId].baseRole
      BY <1>8, <2>4, <2>8, <3>1
    <3>3. CASE call[c].todo = <<SaveProfile(p, FALSE, row)>> /\ ~e
      <4>1. \A u \in User : user[u].present => user[u].profileId # p
        BY <1>8, <2>8, <3>3
      <4>2. call'[c].todo = <<>>
        BY <2>8, <3>3
      <4> QED BY <2>8, <3>2, <4>1, <4>2 DEF ProfileStage
    <3>4. CASE call[c].todo = <<SaveProfile(p, TRUE, NoRow)>> /\ row = NoRow
      <4>1. \A u \in User : user[u].present => user[u].profileId # p
        BY <2>8, <3>4 DEF Bearers
      <4>2. call'[c].todo = <<>>
        BY <2>8, <3>4
      <4> QED BY <2>8, <3>2, <4>1, <4>2 DEF ProfileStage
    <3>5. CASE call[c].todo = <<SaveProfile(p, TRUE, row), Sync(p, row.baseRole)>>
      <4>1. call'[c].todo = <<Sync(p, row.baseRole)>>
        BY <2>8, <3>5
      <4>2. Syncs(c, p)'
        BY <1>2, <1>5, <3>1, <4>1 DEF Syncs
      <4>3. ProfileStage(c)'
        BY <3>1, <4>1 DEF ProfileStage
      <4>4. \A u \in User : user'[u].profileId = p => Syncs(c, user[u].profileId)'
        BY <4>2 DEF Syncs
      <4> QED BY <3>2, <4>3, <4>4
    <3> QED BY <2>6, <3>3, <3>4, <3>5
  <2> QED BY <2>1, <2>5, <2>7, <2>8
<1>10. CASE SyncRoles(c)
  <2>1. /\ Head1(c) \in Syncing /\ Head1(c) = call[c].todo[1] /\ UNCHANGED profile
        /\ call'[c].todo = Tail(call[c].todo)
        /\ \A u \in User :
              /\ user'[u].present = user[u].present
              /\ user[u].present =>
                    /\ user'[u].profileId = user[u].profileId
                    /\ user'[u].role = IF user[u].profileId = Head1(c).id
                                       THEN Head1(c).role ELSE user[u].role
    BY <1>1, <1>10, SyncRolesTyped, GoesTyped, HeadTyped
  <2>2. \A p, e, r : SaveProfile(p, e, r) \notin Syncing
    BY DEF SaveProfile, Syncing
  <2>3. PICK p \in Profile : call[c].todo = <<Sync(p, profile[p].baseRole)>>
    <3>1. \A p, e, r : call[c].todo[1] # SaveProfile(p, e, r)
      BY <2>1, <2>2
    <3> DEFINE save(p, e, r) == SaveProfile(p, e, r)
    <3> HIDE DEF save
    <3>2. ASSUME NEW p, NEW e, NEW r, NEW v
          PROVE  call[c].todo # <<save(p, e, r)>> /\ call[c].todo # <<save(p, e, r), v>>
      <4>1. call[c].todo[1] # save(p, e, r)
        BY <3>1 DEF save
      <4> QED BY <4>1
    <3>3. ASSUME NEW p, NEW e, NEW r, NEW v
          PROVE  /\ call[c].todo # <<SaveProfile(p, e, r)>>
                 /\ call[c].todo # <<SaveProfile(p, e, r), v>>
      BY <3>2 DEF save
    <3> QED BY <1>1, <1>4, <3>2, <3>3 DEF ProfileStage
  <2>4. Head1(c).id = p /\ Head1(c).role = profile[p].baseRole /\ call'[c].todo = <<>>
    BY <2>1, <2>3 DEF Sync
  <2>5. \A q : Syncs(c, q) => q = p
    BY <2>3 DEF Syncs, Sync
  <2>6. \A u \in User : user'[u].present => user'[u].role = profile'[user'[u].profileId].baseRole
    BY <1>4, <2>1, <2>4, <2>5
  <2> QED BY <2>4, <2>6 DEF ProfileStage
<1> QED BY <1>9, <1>10

\* Every step keeps roles and profiles together.
LEMMA RoleStep == ASSUME TypeInv, RoleInv, AccountStep PROVE RoleInv'
<1> SUFFICES ASSUME "role" \notin crossed' PROVE RoleInv'
  BY DEF RoleInv
<1>1. CASE \E c \in Slot : Opens(c)
  BY <1>1, RoleOpened DEF Opens
<1>2. ASSUME NEW c \in Slot, Statement(c) PROVE RoleInv'
  <2>1. "role" \notin crossed /\ call[c].todo # <<>>
    BY <1>2, StatementMoves
  <2>2. CASE WriteProfile(c) \/ SyncRoles(c)
    BY <2>1, <2>2, RoleProfile
  <2>3. CASE ~(WriteProfile(c) \/ SyncRoles(c))
    <3>1. Head1(c).write \notin {"profile", "sync"}
      BY <1>2, <2>3 DEF Statement, Awaits, WriteUser, WriteGive, IssueToken, Revoke, InsertUser,
                        DeleteUser
    <3> QED BY <1>2, <2>1, <3>1, AwaitsPerson, RolePerson
  <2> QED BY <2>2, <2>3
<1>3. CASE \E c \in Slot : Returned(c) /\ Frees(c) /\ ServerRests
  <2>1. PICK c \in Slot : Returned(c) /\ Frees(c) /\ ServerRests
    BY <1>3
  <2>2. call'[c] = NoCall /\ \A d \in Slot \ {c} : call'[d] = call[d]
    BY <2>1, FreesTyped DEF Frees, ServerRests
  <2>3. \A d \in Slot : /\ Moves(d) \/ call'[d] = NoCall
                        /\ call'[d].todo \in {call[d].todo, <<>>}
    BY <2>2 DEF Moves, NoCall
  <2>4. \A d \in Slot, p \in Profile : Syncs(d, p) => call'[d] = call[d]
    BY <2>1, <2>2 DEF Syncs, Returned
  <2> QED BY <2>1, <2>3, <2>4, RoleShrink DEF ServerRests, SameRole
<1>4. CASE Clock
  BY <1>4, ClockTyped, RoleShrink DEF SameRole, Moves
<1>5. CASE Restart
  <2>1. \A d \in Slot : call'[d] = NoCall /\ call'[d].todo = <<>>
    BY <1>5, RestartTyped DEF NoCall
  <2>2. \A d \in Slot, p \in Profile : ~Syncs(d, p)
    <3> SUFFICES ASSUME NEW d \in Slot, NEW p \in Profile, Syncs(d, p) PROVE FALSE
      OBVIOUS
    <3> DEFINE w == Sync(p, profile[p].baseRole)
    <3>1. call[d].todo = <<w>> /\ w.write = "sync"
      BY DEF Syncs, Sync
    <3> HIDE DEF w
    <3>2. Awaits(d, "sync")
      BY <3>1 DEF Awaits, Head1
    <3> QED BY <1>5, <3>2, RestartTyped
  <2> QED BY <1>5, <2>1, <2>2, RestartTyped, RoleShrink DEF SameRole
<1>6. CASE UNCHANGED accountVars
  BY <1>6, RoleShrink DEF accountVars, SameRole, Moves
<1> QED BY <1>1, <1>2, <1>3, <1>4, <1>5, <1>6 DEF AccountStep

-----------------------------------------------------------------------------
(* The theorems, of the accounts alone and under a browser *)

AccountInv == TypeInv /\ TokenInv /\ TotpInv /\ RoleInv

\* The server starts with no token, no call, and the administrator at most.
LEMMA InitInv == Init => AccountInv
<1> SUFFICES ASSUME Init PROVE AccountInv
  OBVIOUS
<1>1. TypeInv
  BY InitTyped
<1>2. /\ \A c \in Slot : call[c] = NoCall /\ call[c].todo = <<>> /\ call[c].op = None
      /\ \A s \in Session : ~session[s].present
  BY DEF Init, NoCall, NoRow
<1>3. \A u \in User : user[u].present => /\ ~user[u].totpEnabled
                                         /\ user[u].role = profile[user[u].profileId].baseRole
  <2> DEFINE none == [u \in User |-> NoRow]
  <2>1. none \in [User -> UserRow \cup {NoRow}] /\ \A u \in User : ~none[u].present
    BY DEF NoRow
  <2>2. user = none \/ user = Seeded(none)
    BY DEF Init
  <2>3. \A p \in SystemProfile : Lasts(p, profile[p])
    BY <1>1 DEF TypeInv
  <2> HIDE DEF none
  <2> QED BY <2>1, <2>2, <2>3, SeededTyped
<1>4. TokenInv
  <2>1. \A c \in Slot, i \in Nat : ~IssuesAt(c, i)
    BY <1>2 DEF IssuesAt
  <2> QED BY <1>2, <2>1 DEF TokenInv, OriginsDrawn, Rotates, None
<1>5. TotpInv
  <2>1. \A c \in Slot, i \in Nat : ~EnablesAt(c, i)
    BY <1>2 DEF EnablesAt
  <2> QED BY <1>2, <1>3, <2>1 DEF TotpInv, TotpOps, DrawOps, EnableOps, None
<1>6. RoleInv
  <2>1. \A c \in Slot, i \in Nat : AssignsAt(c, i)
    BY <1>2 DEF AssignsAt
  <2> QED BY <1>2, <1>3, <2>1 DEF RoleInv, RoleOps, None
<1> QED BY <1>1, <1>4, <1>5, <1>6 DEF AccountInv

\* What the browser stores names a token, or none.
StoredOK == stored \in [token: 0..MaxTokens, access: {"fresh", "due", "dead"}, origin: Nat]

\* A step of the console is one of the server, or none, and stores a token.
LEMMA ConsoleIsStep ==
    ASSUME TypeInv, StoredOK, [ConsoleNext]_vars
    PROVE  AccountStep /\ StoredOK'
<1>1. stored.token \in 0..MaxTokens /\ stored.token \in Nat /\ MaxTokens \in Nat
  BY Marks DEF StoredOK
<1>2. NothingStored \in [token: 0..MaxTokens, access: {"fresh", "due", "dead"}, origin: Nat]
  BY <1>1 DEF NothingStored
<1>3. ASSUME NEW c \in Slot, Stores(call[c].result), call[c].result # 0 PROVE StoredOK'
  <2>1. call[c].result \in 0..MaxTokens
    BY DEF TypeInv, CallState
  <2>2. call[c].result \in Session
    BY <1>1, <1>3, <2>1 DEF Session
  <2>3. session[call[c].result].present => session[call[c].result].origin \in Nat
    BY <2>2, Rows DEF Session
  <2> QED BY <1>3, <2>1, <2>3 DEF Stores, StoredOK
<1>4. ASSUME NEW c \in Slot, Returned(c), Frees(c), ServerRests PROVE AccountStep
  BY <1>4 DEF AccountStep
<1>5. UNCHANGED accountVars => AccountStep
  BY DEF AccountStep
<1>6. CASE ServerStep
  <2>1. ASSUME NEW c \in Slot, Answer(c) PROVE AccountStep
    BY <2>1 DEF AccountStep, Answer, Returned, InHand, Frees, ServerRests
  <2> QED BY <1>6, <2>1, RequestOpens DEF ServerStep, AccountStep, browserVars, StoredOK
<1>7. CASE ServerRestart
  BY <1>7 DEF ServerRestart, AccountStep, StoredOK
<1>8. CASE \E c \in Slot : SignIn(c)
  BY <1>3, <1>4, <1>8 DEF SignIn
<1>9. CASE SignOut
  BY <1>2, <1>5, <1>9 DEF SignOut, StoredOK
<1>10. CASE AccessAges
  BY <1>5, <1>10 DEF AccessAges, StoredOK
<1>11. ASSUME NEW t \in Tab, TabStep(t) PROVE AccountStep /\ StoredOK'
  <2>1. CASE \E r \in Pending : Fetch(t, r) \/ Send(t, r)
    BY <1>5, <2>1 DEF Fetch, Send, StoredOK
  <2>2. ASSUME NEW c \in Slot, StartRefresh(t, c) PROVE AccountStep /\ StoredOK'
    <3>1. StoredOK'
      BY <2>2 DEF StartRefresh, StoredOK
    <3>2. CASE Ready(c, "tab") /\ RefreshToken(c, stored.token)
      <4>1. stored.token \in Session
        BY <1>1, <2>2 DEF StartRefresh, SignedIn, Session
      <4>2. call[c] = NoCall /\ \E s \in Session : RefreshToken(c, s)
        BY <3>2, <4>1 DEF Ready
      <4> QED BY <3>1, <4>2, RequestOpens DEF AccountStep
    <3> QED BY <1>5, <2>2, <3>1, <3>2 DEF StartRefresh
  <2>3. CASE Refreshed(t)
    BY <1>3, <1>4, <2>3 DEF Refreshed
  <2>4. CASE RefreshFails(t)
    BY <1>4, <2>4 DEF RefreshFails, StoredOK
  <2>5. CASE GiveUp(t)
    BY <1>2, <1>5, <2>5 DEF GiveUp, StoredOK
  <2> QED BY <1>11, <2>1, <2>2, <2>3, <2>4, <2>5 DEF TabStep
<1>12. CASE UNCHANGED vars
  BY <1>5, <1>12 DEF vars, browserVars, StoredOK
<1> QED BY <1>6, <1>7, <1>8, <1>9, <1>10, <1>11, <1>12 DEF ConsoleNext

\* The four parts of the invariant hold in every state of the accounts, whether
\* requests come on their own or from the tabs of a browser.
THEOREM AccountInvariant == (Spec => []AccountInv) /\ (ConsoleSpec => []AccountInv)
<1>1. ASSUME AccountInv, AccountStep PROVE AccountInv'
  BY <1>1, TypeStep, TokenStep, TotpStep, RoleStep DEF AccountInv
<1>2. Spec => []AccountInv
  <2>1. AccountInv /\ [Next]_accountVars => AccountInv'
    BY <1>1, NextIsStep DEF AccountInv
  <2> QED BY <2>1, InitInv, PTL DEF Spec
<1>3. ConsoleSpec => []AccountInv
  <2>1. ConsoleInit => AccountInv /\ StoredOK
    <3>1. ConsoleInit => StoredOK
      BY Marks DEF ConsoleInit, BrowserInit, NothingStored, StoredOK
    <3> QED BY <3>1, InitInv DEF ConsoleInit
  <2>2. AccountInv /\ StoredOK /\ [ConsoleNext]_vars => AccountInv' /\ StoredOK'
    BY <1>1, ConsoleIsStep DEF AccountInv
  <2> QED BY <2>1, <2>2, PTL DEF ConsoleSpec
<1> QED BY <1>2, <1>3

\* Every row, token and call has its type, and every row and token names rows
\* that exist: whatever two calls write of what they read before, and whatever
\* a restart leaves undone, no foreign key dangles.
THEOREM AccountsTypeCorrect == (Spec => []TypeOK) /\ (ConsoleSpec => []TypeOK)
<1>1. AccountInv => TypeOK
  BY DEF AccountInv, TypeInv
<1> QED BY <1>1, AccountInvariant, PTL

\* Rotation: no history of calls, restarts and refreshes of several tabs leaves
\* a sign-in with two live refresh tokens, unless two refreshes overlapped.
THEOREM TokensRotate == (Spec => []OneTokenPerSignIn) /\ (ConsoleSpec => []OneTokenPerSignIn)
<1>1. AccountInv => OneTokenPerSignIn
  BY DEF AccountInv, TokenInv, Rotates, OneTokenPerSignIn
<1> QED BY <1>1, AccountInvariant, PTL

\* Nobody is locked out by two-factor sign-in: the secret of an account that has
\* it on is the one its person's authenticator holds, unless two calls about it
\* overlapped.
THEOREM TotpStaysUsable == (Spec => []TotpUsable) /\ (ConsoleSpec => []TotpUsable)
<1>1. AccountInv => TotpUsable
  BY DEF AccountInv, TotpInv, TotpUsable
<1> QED BY <1>1, AccountInvariant, PTL

\* The role that @Roles reads is the one of the user's profile, and so follows
\* from its rights if the profile is not the system's, when no call that changes
\* either is in hand and none overlapped or was cut short.
THEOREM RolesFollowProfiles == (Spec => []RolesInSync) /\ (ConsoleSpec => []RolesInSync)
<1>1. AccountInv => RolesInSync
  <2> SUFFICES ASSUME AccountInv, "role" \notin crossed,
                      \A c \in Slot : "role" \notin Touches(call[c].op),
                      NEW u \in User, user[u].present
               PROVE  LET p == profile[user[u].profileId] IN
                      /\ user[u].role = p.baseRole
                      /\ ~p.isSystem => user[u].role = DeriveRole(p.permissions)
    BY DEF RolesInSync
  <2>1. \A c \in Slot : call[c].op # "profile"
    BY DEF Touches
  <2>2. user[u].role = profile[user[u].profileId].baseRole
    BY <2>1 DEF AccountInv, RoleInv, Syncs
  <2>3. user[u].profileId \in Profile /\ profile[user[u].profileId].present
    <3>1. \A row \in UserRow : row.profileId \in Profile
      BY DEF UserRow
    <3> QED BY <3>1, Rows DEF AccountInv, TypeInv, TypeOK
  <2>4. profile[user[u].profileId] \in ProfileRows
    BY <2>3, Rows DEF AccountInv
  <2> QED BY <2>2, <2>4 DEF ProfileRows
<1> QED BY <1>1, AccountInvariant, PTL

-----------------------------------------------------------------------------
(* The session a single tab keeps *)

\* One tab, and nobody else refreshes tokens or removes accounts.
OneTab ==
    /\ \A t, v \in Tab : t = v
    /\ \A w \in Workloads : (\E d \in Slot : "tab" \in w.ops[d]) =>
          \A c \in Slot : w.ops[c] \cap {"refresh", "remove"} = {}

Browsing == \E d \in Slot : "tab" \in workload.ops[d]

\* The token a call has issued, or is to issue.
Names(c, s) == call[c].result = s \/ \E i \in Nat : IssuesAt(c, i) /\ call[c].todo[i].token = s

\* The refresh in hand is the one the tab awaits.
Alone ==
    /\ \A c \in Slot : call[c].op = "refresh" <=> \E t \in Tab : inFlight[t] = c
    /\ \A c \in Slot : call[c].op \notin {"remove", "tab"}
    /\ "rotation" \notin crossed

\* A refresh issues its token.
Answered ==
    \A c \in Slot : call[c].op = "refresh" =>
        /\ user[call[c].user].present
        /\ call[c].result # 0 \/ \E i \in Nat : IssuesAt(c, i)

\* The token of a call is new: the tab has not stored it, no other call has it, and
\* it is the origin of no other token.
Named ==
    /\ \A c \in Slot, i \in Nat : IssuesAt(c, i) => call[c].result = 0
    /\ \A c \in Slot, s \in Session : Names(c, s) =>
          /\ s <= issued.tokens /\ s # stored.token
          /\ \A x \in Session : session[x].present /\ session[x].origin = s => x = s
          /\ \A d \in Slot : Names(d, s) => d = c
          /\ \A d \in Slot, j \in Nat : IssuesAt(d, j) /\ OriginAt(d, j) = s => d = c

\* The token of a refresh that is done and not yet taken.
Fresh(s) == \E c \in Slot : call[c].op = "refresh" /\ call[c].result = s

\* What is left of the sign-in of the tab is the token it stores, or the one its
\* refresh brings, unless a refresh was lost.
Kept ==
    SignedIn =>
        /\ stored.token <= issued.tokens /\ stored.origin <= issued.tokens
        /\ ~trouble =>
              /\ \A s \in Session : session[s].present /\ session[s].origin = stored.origin
                                      => s = stored.token \/ Fresh(s)
              /\ \A c \in Slot, i \in Nat : IssuesAt(c, i) /\ OriginAt(c, i) = stored.origin
                                              => call[c].op = "refresh"

TabInv ==
    /\ StoredOK
    /\ inFlight \in [Tab -> Slot \cup {None, Failed}]
    /\ ~Browsing => stored = NothingStored /\ \A t \in Tab : inFlight[t] = None
    /\ Browsing => Alone /\ Answered /\ Named /\ Kept

\* A call goes on, with the answer it had, or ends.
GoesOn(d) == Moves(d) /\ call'[d].result = call[d].result
Shrinks == /\ SessionsEnd /\ issued' = issued
           /\ \A d \in Slot : GoesOn(d) \/ call'[d] = NoCall

\* What a call issues after such a step it was to issue before.
LEMMA IssueLeft ==
    ASSUME TypeInv, Shrinks, NEW c \in Slot
    PROVE  /\ \A i \in Nat : IssuesAt(c, i)' =>
                 /\ call'[c].op = call[c].op /\ call'[c].result = call[c].result
                 /\ \E k \in Nat : /\ IssuesAt(c, k) /\ OriginAt(c, i)' = OriginAt(c, k)
                                   /\ call'[c].todo[i].token = call[c].todo[k].token
           /\ \A s \in Session : Names(c, s)' => Names(c, s)
<1>1. PICK n \in {0, 1} : \A i \in 1..Len(call'[c].todo) :
          i + n \in 1..Len(call[c].todo) /\ call'[c].todo[i] = call[c].todo[i + n]
  BY Shifted DEF Shrinks, GoesOn
<1>2. ASSUME NEW i \in Nat, IssuesAt(c, i)'
      PROVE  /\ call'[c].op = call[c].op /\ call'[c].result = call[c].result
             /\ \E k \in Nat : /\ IssuesAt(c, k) /\ OriginAt(c, i)' = OriginAt(c, k)
                               /\ call'[c].todo[i].token = call[c].todo[k].token
  <2>1. call'[c] # NoCall
    BY <1>2 DEF IssuesAt, NoCall
  <2>2. i + n \in Nat /\ IssuesAt(c, i + n) /\ call'[c].todo[i] = call[c].todo[i + n]
    BY <1>1, <1>2 DEF IssuesAt
  <2> QED BY <2>1, <2>2 DEF Shrinks, GoesOn, Moves, OriginAt
<1>3. ASSUME NEW s \in Session, Names(c, s)' PROVE Names(c, s)
  <2>1. call'[c] = NoCall => call'[c].result \notin Session
    BY DEF NoCall, Session
  <2> QED BY <1>2, <1>3, <2>1 DEF Names, Shrinks, GoesOn
<1> QED BY <1>2, <1>3

\* A token left after such a step is as it was.
LEMMA SessionLeft ==
    ASSUME Shrinks, NEW s \in Session, session'[s].present
    PROVE  session[s].present /\ session'[s] = session[s]
  BY DEF Shrinks, SessionsEnd, NoRow

\* Tokens named stay new.
LEMMA NamedShrinks ==
    ASSUME TypeInv, Named, Shrinks,
           \A c \in Slot, s \in Session : Names(c, s)' => s # stored'.token
    PROVE  Named'
<1>1. \A c \in Slot, i \in Nat : IssuesAt(c, i)' => call'[c].result = 0
  BY IssueLeft DEF Named
<1>2. ASSUME NEW c \in Slot, NEW s \in Session, Names(c, s)'
      PROVE  /\ s <= issued'.tokens /\ s # stored'.token
             /\ \A x \in Session : session'[x].present /\ session'[x].origin = s => x = s
             /\ \A d \in Slot : Names(d, s)' => d = c
             /\ \A d \in Slot, j \in Nat : IssuesAt(d, j)' /\ OriginAt(d, j)' = s => d = c
  <2>1. Names(c, s)
    BY <1>2, IssueLeft
  <2>2. issued' = issued
    BY DEF Shrinks
  <2>3. \A x \in Session : session'[x].present /\ session'[x].origin = s => x = s
    BY <2>1, SessionLeft DEF Named
  <2>4. \A d \in Slot : Names(d, s)' => d = c
    BY <2>1, IssueLeft DEF Named
  <2>5. \A d \in Slot, j \in Nat : IssuesAt(d, j)' /\ OriginAt(d, j)' = s => d = c
    BY <2>1, IssueLeft DEF Named
  <2> QED BY <1>2, <2>1, <2>2, <2>3, <2>4, <2>5 DEF Named
<1> QED BY <1>1, <1>2 DEF Named

\* So does what the tab keeps, if it stores what it did and no refresh is dropped.
LEMMA KeptShrinks ==
    ASSUME TypeInv, Kept, Shrinks, UNCHANGED stored, trouble => trouble',
           ~trouble' => \A d \in Slot : call'[d] = NoCall => call[d].op # "refresh" \/ call[d].result = 0
    PROVE  Kept'
<1>1. SignedIn' = SignedIn /\ issued' = issued
  BY DEF SignedIn, Shrinks
<1>2. ASSUME SignedIn, ~trouble', NEW s \in Session, session'[s].present,
             session'[s].origin = stored.origin
      PROVE  s = stored.token \/ Fresh(s)'
  <2>1. s = stored.token \/ Fresh(s)
    <3>1. session[s].present /\ session[s].origin = stored.origin
      BY <1>2, SessionLeft
    <3> QED BY <1>2, <3>1 DEF Kept
  <2>2. ASSUME NEW c \in Slot, call[c].op = "refresh", call[c].result = s PROVE Fresh(s)'
    <3>1. s # 0
      BY DEF Session
    <3>2. call'[c].op = "refresh" /\ call'[c].result = s
      BY <1>2, <2>2, <3>1 DEF Shrinks, GoesOn, Moves
    <3> QED BY <3>2 DEF Fresh
  <2> QED BY <2>1, <2>2 DEF Fresh
<1>3. ASSUME SignedIn, ~trouble', NEW c \in Slot, NEW i \in Nat, IssuesAt(c, i)',
             OriginAt(c, i)' = stored.origin
      PROVE  call'[c].op = "refresh"
  <2>1. PICK k \in Nat : IssuesAt(c, k) /\ OriginAt(c, k) = stored.origin
    BY <1>3, IssueLeft
  <2> QED BY <1>3, <2>1, IssueLeft DEF Kept
<1> QED BY <1>1, <1>2, <1>3 DEF Kept

\* Only the statement that issues the token of a call sets its answer.
LEMMA AnswerStays ==
    ASSUME TypeInv, NEW c \in Slot, Goes(c) \/ Throws(c)
    PROVE  \A d \in Slot : call'[d].result = call[d].result
<1>1. call \in [Slot -> CallState] /\ call[c] \in CallState
  BY DEF TypeInv
<1>2. \A todo : [call[c] EXCEPT !.todo = todo].result = call[c].result
  BY <1>1 DEF CallState
<1>3. CASE Goes(c)
  <2>1. call' = [call EXCEPT ![c] = [call[c] EXCEPT !.todo = Tail(call[c].todo)]]
    BY <1>1, <1>3 DEF Goes, CallState
  <2> QED BY <1>1, <1>2, <2>1
<1>4. CASE Throws(c)
  <2>1. call' = [call EXCEPT ![c] = [call[c] EXCEPT !.todo = <<>>]]
    BY <1>1, <1>4 DEF Throws
  <2> QED BY <1>1, <1>2, <2>1
<1> QED BY <1>3, <1>4

Issued(c) == IssueToken(c) /\ user[call[c].user].present

\* A statement that issues no token names none that was not named.
LEMMA StatementAnswers ==
    ASSUME TypeInv, NEW c \in Slot, Statement(c), ~Issued(c)
    PROVE  Shrinks
<1>1. \A d \in Slot : call'[d].result = call[d].result
  <2>1. CASE DeleteUser(c)
    <3>1. call \in [Slot -> CallState]
      BY DEF TypeInv
    <3>2. \A d \in Slot : [call[d] EXCEPT !.todo = <<>>].result = call[d].result
      BY <3>1 DEF CallState
    <3>3. \A d \in Slot : call'[d] = call[d] \/ call'[d] = [call[d] EXCEPT !.todo = <<>>]
      BY <2>1 DEF DeleteUser
    <3> QED BY <3>2, <3>3
  <2>2. CASE IssueToken(c)
    <3>1. Throws(c)
      BY <2>2 DEF Issued, IssueToken
    <3> QED BY <3>1, AnswerStays
  <2>3. CASE Revoke(c)
    BY <2>3, AnswerStays DEF Revoke
  <2>4. CASE ~DeleteUser(c) /\ ~IssueToken(c) /\ ~Revoke(c)
    <3>1. Goes(c) \/ Throws(c)
      BY <2>4, WriteUserTyped, WriteGiveTyped, InsertUserTyped, WriteProfileTyped, SyncRolesTyped
         DEF Statement
    <3> QED BY <3>1, AnswerStays
  <2> QED BY <2>1, <2>2, <2>3, <2>4
<1>2. SessionsEnd
  <2>1. CASE IssueToken(c)
    <3>1. Throws(c)
      BY <2>1 DEF Issued, IssueToken
    <3> QED BY <3>1 DEF Throws, SessionsEnd
  <2> QED BY <2>1, StatementMoves
<1> QED BY <1>1, <1>2, StatementMoves DEF Shrinks, GoesOn

\* A token issued: the one the call had to issue, for its sign-in.
LEMMA IssuedOne ==
    ASSUME TypeInv, TokenInv, NEW c \in Slot, Issued(c)
    PROVE  \E n, o \in Session :
              /\ IssuesAt(c, 1) /\ call[c].todo[1].token = n /\ OriginAt(c, 1) = o
              /\ session'[n].present /\ session'[n].origin = o
              /\ \A s \in Session : s # n => session'[s] = session[s]
              /\ call'[c].result = n /\ \A i \in Nat : ~IssuesAt(c, i)'
              /\ \A d \in Slot : call'[d].op = call[d].op /\ call'[d].user = call[d].user
              /\ \A d \in Slot \ {c} : call'[d] = call[d]
              /\ UNCHANGED <<user, issued, crossed, workload>>
<1> DEFINE w == Head1(c)
           u == call[c].user
           row == [present |-> TRUE, user |-> u, origin |-> w.origin]
           rest == [call[c] EXCEPT !.todo = Tail(call[c].todo), !.result = w.token]
<1>1. /\ call[c].todo # <<>> /\ w.write = "issue" /\ w.token \in Session /\ w.origin \in Session
      /\ UNCHANGED <<issued, crossed, workload>>
  BY IssueTokenTyped DEF Issued, Issuing
<1>2. call[c] \in CallState /\ call \in [Slot -> CallState] /\ session \in [Session -> SessionRow \cup {NoRow}]
  BY DEF TypeInv
<1>3. /\ session' = [session EXCEPT ![w.token] = row]
      /\ call' = [call EXCEPT ![c].todo = Tail(@), ![c].result = w.token]
      /\ UNCHANGED user
  BY DEF Issued, IssueToken
<1>4. call' = [call EXCEPT ![c] = rest]
  BY <1>2, <1>3 DEF CallState
<1>5. /\ rest.todo = Tail(call[c].todo) /\ rest.result = w.token
      /\ rest.op = call[c].op /\ rest.user = call[c].user
  BY <1>2 DEF CallState
<1>6. row.present /\ row.origin = w.origin
  OBVIOUS
<1> HIDE DEF rest, row
<1>7. /\ call'[c] = rest /\ \A d \in Slot \ {c} : call'[d] = call[d]
      /\ session'[w.token] = row /\ \A s \in Session : s # w.token => session'[s] = session[s]
  BY <1>1, <1>2, <1>3, <1>4
<1>8. w = call[c].todo[1] /\ 1 \in 1..Len(call[c].todo)
  <2>1. call[c].todo \in Seq(Writes(call[c].op))
    BY DEF TypeInv, Plausible
  <2> QED BY <1>1, <2>1, HeadTyped
<1>9. ASSUME NEW i \in Nat, IssuesAt(c, i)' PROVE FALSE
  <2>1. i \in 1..Len(Tail(call[c].todo)) /\ Tail(call[c].todo)[i].write = "issue"
    BY <1>5, <1>7, <1>9 DEF IssuesAt
  <2>2. i + 1 \in 1..Len(call[c].todo) /\ call[c].todo[i + 1] = Tail(call[c].todo)[i]
    <3>1. Len(call[c].todo) \in Nat
      <4>1. call[c].todo \in Seq(Writes(call[c].op))
        BY DEF TypeInv, Plausible
      <4> QED BY <4>1
    <3> QED BY <1>1, <2>1, <3>1, HeadTyped
  <2>3. IssuesAt(c, i + 1) /\ IssuesAt(c, 1) /\ i + 1 \in Nat /\ i + 1 # 1
    BY <1>1, <1>8, <2>1, <2>2 DEF IssuesAt
  <2> QED BY <2>3 DEF TokenInv, OriginsDrawn
<1>10. IssuesAt(c, 1) /\ call[c].todo[1].token = w.token /\ OriginAt(c, 1) = w.origin
  BY <1>1, <1>8 DEF IssuesAt, OriginAt
<1>11. \A d \in Slot : call'[d].op = call[d].op /\ call'[d].user = call[d].user
  BY <1>5, <1>7
<1> HIDE DEF w
<1> QED BY <1>1, <1>3, <1>5, <1>6, <1>7, <1>9, <1>10, <1>11

\* A token issued is the new one its call named.
LEMMA NamedIssued ==
    ASSUME TypeInv, TokenInv, Named, NEW c \in Slot, Issued(c), UNCHANGED stored
    PROVE  Named'
<1>1. PICK n, o \in Session :
        /\ IssuesAt(c, 1) /\ call[c].todo[1].token = n /\ OriginAt(c, 1) = o
        /\ session'[n].present /\ session'[n].origin = o
        /\ \A s \in Session : s # n => session'[s] = session[s]
        /\ call'[c].result = n /\ \A i \in Nat : ~IssuesAt(c, i)'
        /\ \A d \in Slot \ {c} : call'[d] = call[d]
        /\ UNCHANGED issued
  BY IssuedOne
<1>2. \A s \in Session : Names(c, s)' <=> s = n
  BY <1>1 DEF Names
<1>3. Names(c, n)
  BY <1>1 DEF Names
<1>4. ASSUME NEW d \in Slot PROVE \A s \in Session : Names(d, s)' => Names(d, s)
  BY <1>1, <1>2, <1>3 DEF Names, IssuesAt
<1>5. \A d \in Slot, i \in Nat : IssuesAt(d, i)' =>
         /\ d # c /\ IssuesAt(d, i) /\ OriginAt(d, i)' = OriginAt(d, i)
         /\ call'[d].result = call[d].result
  BY <1>1 DEF IssuesAt, OriginAt
<1>6. ASSUME NEW d \in Slot, NEW s \in Session, Names(d, s)'
      PROVE  /\ s <= issued'.tokens /\ s # stored'.token
             /\ \A x \in Session : session'[x].present /\ session'[x].origin = s => x = s
             /\ \A e \in Slot : Names(e, s)' => e = d
             /\ \A e \in Slot, j \in Nat : IssuesAt(e, j)' /\ OriginAt(e, j)' = s => e = d
  <2>1. Names(d, s)
    BY <1>4, <1>6
  <2>2. ASSUME NEW x \in Session, session'[x].present, session'[x].origin = s PROVE x = s
    <3>1. CASE x = n
      <4>1. d = c
        BY <1>1, <2>1, <2>2, <3>1 DEF Named
      <4> QED BY <1>2, <1>6, <3>1, <4>1
    <3>2. CASE x # n
      BY <1>1, <2>1, <2>2, <3>2 DEF Named
    <3> QED BY <3>1, <3>2
  <2>3. \A e \in Slot : Names(e, s)' => e = d
    BY <1>4, <2>1 DEF Named
  <2>4. \A e \in Slot, j \in Nat : IssuesAt(e, j)' /\ OriginAt(e, j)' = s => e = d
    BY <1>5, <2>1 DEF Named
  <2> QED BY <1>1, <2>1, <2>2, <2>3, <2>4 DEF Named
<1>7. \A d \in Slot, i \in Nat : IssuesAt(d, i)' => call'[d].result = 0
  BY <1>5 DEF Named
<1> QED BY <1>6, <1>7 DEF Named

\* It is of the sign-in of the tab only if the tab's refresh brings it.
LEMMA KeptIssued ==
    ASSUME TypeInv, TokenInv, Named, Kept, NEW c \in Slot, Issued(c), UNCHANGED <<stored, trouble>>
    PROVE  Kept'
<1>1. PICK n, o \in Session :
        /\ IssuesAt(c, 1) /\ call[c].todo[1].token = n /\ OriginAt(c, 1) = o
        /\ session'[n].present /\ session'[n].origin = o
        /\ \A s \in Session : s # n => session'[s] = session[s]
        /\ call'[c].result = n /\ \A i \in Nat : ~IssuesAt(c, i)'
        /\ \A d \in Slot : call'[d].op = call[d].op
        /\ \A d \in Slot \ {c} : call'[d] = call[d]
        /\ UNCHANGED issued
  BY IssuedOne
<1>2. ASSUME SignedIn, ~trouble, NEW s \in Session, session'[s].present,
             session'[s].origin = stored.origin
      PROVE  s = stored.token \/ Fresh(s)'
  <2>1. CASE s = n
    <3>1. call[c].op = "refresh"
      BY <1>1, <1>2, <2>1 DEF Kept
    <3> QED BY <1>1, <2>1, <3>1 DEF Fresh
  <2>2. CASE s # n
    <3>1. s = stored.token \/ Fresh(s)
      BY <1>1, <1>2, <2>2 DEF Kept
    <3>2. ASSUME NEW d \in Slot, call[d].op = "refresh", call[d].result = s PROVE Fresh(s)'
      <4>1. d # c
        <5>1. call[c].result = 0 /\ s # 0
          BY <1>1 DEF Named, Session
        <5> QED BY <3>2, <5>1
      <4> QED BY <1>1, <3>2, <4>1 DEF Fresh
    <3> QED BY <3>1, <3>2 DEF Fresh
  <2> QED BY <2>1, <2>2
<1>3. \A d \in Slot, i \in Nat : IssuesAt(d, i)' =>
         /\ IssuesAt(d, i) /\ OriginAt(d, i)' = OriginAt(d, i) /\ call'[d].op = call[d].op
  BY <1>1 DEF IssuesAt, OriginAt
<1>4. SignedIn' = SignedIn /\ issued' = issued
  BY <1>1 DEF SignedIn
<1> QED BY <1>2, <1>3, <1>4 DEF Kept

\* A call that begins: its answer is to come, and its token, if it is to issue one, is
\* the next, of a sign-in of its own or of the one that the tab stores.
Begun(c) ==
    /\ call[c] = NoCall /\ call'[c].result = 0
    /\ \A d \in Slot \ {c} : call'[d] = call[d]
    /\ UNCHANGED session
    /\ issued'.tokens \in Nat /\ issued.tokens <= issued'.tokens
    /\ \A i \in Nat : IssuesAt(c, i)' =>
          /\ call'[c].todo[i].token = issued.tokens + 1 /\ issued'.tokens = issued.tokens + 1
          /\ \/ OriginAt(c, i)' = issued.tokens + 1
             \/ /\ call'[c].op = "refresh"
                /\ stored.token \in Session /\ session[stored.token].present
                /\ OriginAt(c, i)' = session[stored.token].origin

\* A call that begins has named nothing before; the others name what they did.
LEMMA BegunElse ==
    ASSUME NEW c \in Slot, Begun(c)
    PROVE  /\ \A i \in Nat : ~IssuesAt(c, i)
           /\ \A s \in Session : ~Names(c, s)
           /\ \A d \in Slot \ {c}, i \in Nat : /\ IssuesAt(d, i)' = IssuesAt(d, i)
                                               /\ OriginAt(d, i)' = OriginAt(d, i)
           /\ \A d \in Slot \ {c}, s \in Session : Names(d, s)' = Names(d, s)
<1>1. call[c] = NoCall /\ \A d \in Slot \ {c} : call'[d] = call[d]
  BY DEF Begun
<1>2. \A i \in Nat : ~IssuesAt(c, i)
  BY <1>1 DEF IssuesAt, NoCall
<1>3. \A s \in Session : ~Names(c, s)
  BY <1>1, <1>2 DEF Names, NoCall, Session
<1>4. \A d \in Slot \ {c}, i \in Nat : /\ IssuesAt(d, i)' = IssuesAt(d, i)
                                       /\ OriginAt(d, i)' = OriginAt(d, i)
  BY <1>1 DEF IssuesAt, OriginAt
<1>5. \A d \in Slot \ {c}, s \in Session : Names(d, s)' = Names(d, s)
  BY <1>1 DEF Names, IssuesAt
<1> QED BY <1>2, <1>3, <1>4, <1>5

\* The token of a call that begins is new.
LEMMA NamedBegins ==
    ASSUME TypeInv, TokenInv, Named, StoredOK, stored.token <= issued.tokens, NEW c \in Slot, Begun(c),
           UNCHANGED stored
    PROVE  Named'
<1> DEFINE n == issued.tokens + 1
<1>1. /\ issued.tokens \in Nat /\ stored.token \in Nat /\ issued'.tokens \in Nat
      /\ issued.tokens <= issued'.tokens /\ session' = session /\ Session \subseteq Nat
  BY Marks DEF TypeInv, TypeOK, StoredOK, Begun, Session
<1>2. \A s \in Session : session[s].present => session[s].origin \in Nat /\ session[s].origin <= issued.tokens
  BY Rows DEF TokenInv, OriginsDrawn, Session
<1>3. \A i \in Nat : IssuesAt(c, i)' =>
          /\ call'[c].todo[i].token = n /\ issued'.tokens = n
          /\ \/ OriginAt(c, i)' = n
             \/ /\ stored.token \in Session /\ session[stored.token].present
                /\ OriginAt(c, i)' = session[stored.token].origin
  BY DEF Begun
<1>4. call'[c].result = 0
  BY DEF Begun
<1>5. \A s \in Session : Names(c, s)' => s = n /\ issued'.tokens = n
  BY <1>3, <1>4 DEF Names, Session
<1> HIDE DEF n
<1>6. ASSUME NEW d \in Slot, NEW s \in Session, Names(d, s)'
      PROVE  /\ s <= issued'.tokens /\ s # stored'.token
             /\ \A x \in Session : session'[x].present /\ session'[x].origin = s => x = s
             /\ \A e \in Slot : Names(e, s)' => e = d
             /\ \A e \in Slot, j \in Nat : IssuesAt(e, j)' /\ OriginAt(e, j)' = s => e = d
  <2>1. CASE d = c
    <3>1. s = n /\ issued'.tokens = n /\ n > issued.tokens /\ n \in Nat
      BY <1>1, <1>5, <1>6, <2>1 DEF n
    <3>2. ASSUME NEW x \in Session, session'[x].present PROVE session'[x].origin # s
      <4>1. session[x].origin \in Nat /\ session[x].origin <= issued.tokens
        BY <1>1, <1>2, <3>2
      <4>2. session'[x].origin <= issued.tokens
        BY <1>1, <4>1
      <4> QED BY <1>1, <3>1, <4>2
    <3>3. \A e \in Slot : Names(e, s)' => e = d
      <4>1. \A e \in Slot \ {c} : Names(e, s)' => s <= issued.tokens
        BY BegunElse DEF Named
      <4> QED BY <1>1, <2>1, <3>1, <4>1
    <3>4. \A e \in Slot, j \in Nat : IssuesAt(e, j)' /\ OriginAt(e, j)' = s => e = d
      <4>1. \A e \in Slot \ {c}, j \in Nat : IssuesAt(e, j)' => OriginAt(e, j)' <= issued.tokens
        BY BegunElse DEF TokenInv, OriginsDrawn
      <4> QED BY <1>1, <2>1, <3>1, <4>1
    <3> QED BY <1>1, <3>1, <3>2, <3>3, <3>4
  <2>2. CASE d # c
    <3>1. Names(d, s)
      BY <1>6, <2>2, BegunElse
    <3>2. s <= issued.tokens /\ s # stored.token /\ s # n /\ s \in Nat
      BY <1>1, <3>1 DEF Named, n
    <3>3. \A e \in Slot : Names(e, s)' => e = d
      <4>1. ~Names(c, s)'
        BY <1>5, <3>2
      <4> QED BY <3>1, <4>1, BegunElse DEF Named
    <3>4. ASSUME NEW e \in Slot, NEW j \in Nat, IssuesAt(e, j)', OriginAt(e, j)' = s PROVE e = d
      <4>1. CASE e = c
        <5>1. stored.token \in Session /\ session[stored.token].present /\ session[stored.token].origin = s
          BY <1>3, <3>2, <3>4, <4>1
        <5> QED BY <3>1, <3>2, <5>1 DEF Named
      <4>2. CASE e # c
        BY <3>1, <3>4, <4>2, BegunElse DEF Named
      <4> QED BY <4>1, <4>2
    <3>5. \A x \in Session : session'[x].present /\ session'[x].origin = s => x = s
      BY <1>1, <3>1 DEF Named
    <3> QED BY <1>1, <3>2, <3>3, <3>4, <3>5
  <2> QED BY <2>1, <2>2
<1>7. \A d \in Slot, i \in Nat : IssuesAt(d, i)' => call'[d].result = 0
  <2>1. \A d \in Slot \ {c} : call'[d] = call[d]
    BY DEF Begun
  <2> QED BY <1>4, <2>1, BegunElse DEF Named
<1> QED BY <1>6, <1>7 DEF Named

\* A call that begins leaves the tab what it keeps.
LEMMA KeptBegins ==
    ASSUME TypeInv, Kept, StoredOK, NEW c \in Slot, Begun(c), UNCHANGED <<stored, trouble>>
    PROVE  Kept'
<1>1. /\ issued.tokens \in Nat /\ stored.token \in Nat /\ stored.origin \in Nat
      /\ issued'.tokens \in Nat /\ issued.tokens <= issued'.tokens /\ session' = session
      /\ call[c] = NoCall /\ \A d \in Slot \ {c} : call'[d] = call[d]
  BY Marks DEF TypeInv, TypeOK, StoredOK, Begun
<1>2. SignedIn' = SignedIn
  BY DEF SignedIn
<1>3. ASSUME NEW s \in Session, Fresh(s) PROVE Fresh(s)'
  BY <1>1, <1>3 DEF Fresh, NoCall, None
<1>4. SignedIn => stored.token <= issued.tokens /\ stored.origin <= issued.tokens
  BY DEF Kept
<1>5. ASSUME SignedIn, ~trouble, NEW d \in Slot, NEW i \in Nat, IssuesAt(d, i)',
             OriginAt(d, i)' = stored.origin
      PROVE  call'[d].op = "refresh"
  <2>1. CASE d = c
    BY <1>1, <1>4, <1>5, <2>1 DEF Begun
  <2>2. CASE d # c
    <3>1. IssuesAt(d, i) /\ OriginAt(d, i) = stored.origin /\ call'[d] = call[d]
      BY <1>1, <1>5, <2>2, BegunElse
    <3> QED BY <1>5, <3>1 DEF Kept
  <2> QED BY <2>1, <2>2
<1>6. SignedIn => stored.token <= issued'.tokens /\ stored.origin <= issued'.tokens
  BY <1>1, <1>4
<1> QED BY <1>1, <1>2, <1>3, <1>5, <1>6 DEF Kept

\* A request is one of those its slot may serve.
LEMMA RequestServed ==
    ASSUME TypeInv, NEW c \in Slot, Request(c)
    PROVE  call'[c].op \in workload.ops[c] \ {"tab"}
<1>1. call \in [Slot -> CallState]
  BY DEF TypeInv
<1>2. \A op, u, todo : Begin(c, op, u, todo) => call'[c].op = op
  BY <1>1 DEF Begin
<1>3. Login(c) => call'[c].op \in workload.ops[c] \ {"tab"}
  BY <1>2 DEF Login, Ready
<1>4. WrongPassword(c) \/ VerifyTotp(c) => call'[c].op \in workload.ops[c] \ {"tab"}
  BY <1>2 DEF WrongPassword, VerifyTotp, Ready
<1>5. Refresh(c) \/ Logout(c) => call'[c].op \in workload.ops[c] \ {"tab"}
  BY <1>2 DEF Refresh, RefreshToken, Logout, Ready
<1>6. SetupTotp(c) \/ EnableTotp(c) \/ DisableTotp(c) \/ ChangePassword(c)
        => call'[c].op \in workload.ops[c] \ {"tab"}
  BY <1>2 DEF SetupTotp, EnableTotp, DisableTotp, ChangePassword, Ready
<1>7. CompleteInvitePassword(c) \/ ResumeInvite(c) \/ SetupInviteTotp(c) \/ EnableInviteTotp(c)
        => call'[c].op \in workload.ops[c] \ {"tab"}
  BY <1>2 DEF CompleteInvitePassword, ResumeInvite, SetupInviteTotp, EnableInviteTotp, Ready
<1>8. CreateUser(c) \/ ResendInvite(c) \/ ResetTotp(c) \/ RemoveUser(c)
        => call'[c].op \in workload.ops[c] \ {"tab"}
  BY <1>2 DEF CreateUser, ResendInvite, ResetTotp, RemoveUser, Ready
<1>9. UpdateUser(c) => call'[c].op \in workload.ops[c] \ {"tab"}
  BY <1>2 DEF UpdateUser, Ready
<1>10. CreateProfile(c) \/ UpdateProfile(c) \/ RemoveProfile(c)
        => call'[c].op \in workload.ops[c] \ {"tab"}
  BY <1>2 DEF CreateProfile, UpdateProfile, RemoveProfile, Ready
<1> QED BY <1>3, <1>4, <1>5, <1>6, <1>7, <1>8, <1>9, <1>10 DEF Request

\* The statements of a sign-in and of a rotation issue one token.
LEMMA FirstIssue ==
    ASSUME TypeInv, NEW c \in Slot, NEW o \in Session, NewToken \in Session, NEW w, w.write # "issue",
           \/ call'[c].todo = IssueTokens(o)
           \/ call'[c].todo = <<w>> \o IssueTokens(o)
    PROVE  /\ \A i \in Nat : IssuesAt(c, i)' =>
                 call'[c].todo[i].token = NewToken /\ OriginAt(c, i)' = o
           /\ \E i \in Nat : IssuesAt(c, i)'
<1>1. PICK n \in Session : n = NewToken
  OBVIOUS
<1>2. /\ IssueTokens(o) = <<Issue(n, o), ResetCount>>
      /\ <<w>> \o IssueTokens(o) = <<w, Issue(n, o), ResetCount>>
  BY <1>1, IssueTokensTyped
<1>3. Issue(n, o).write = "issue" /\ Issue(n, o).token = n /\ Issue(n, o).origin = o
  BY DEF Issue
<1>4. ResetCount.write # "issue"
  BY Built
<1>5. CASE call'[c].todo = <<Issue(n, o), ResetCount>>
  BY <1>1, <1>3, <1>4, <1>5 DEF IssuesAt, OriginAt
<1>6. CASE call'[c].todo = <<w, Issue(n, o), ResetCount>>
  BY <1>1, <1>3, <1>4, <1>6 DEF IssuesAt, OriginAt
<1> QED BY <1>2, <1>5, <1>6

\* A request that is no refresh begins a call, for a sign-in of its own.
LEMMA RequestBegins ==
    ASSUME TypeInv, NEW c \in Slot, Request(c), call'[c].op # "refresh"
    PROVE  /\ Begun(c) /\ UNCHANGED <<user, workload>>
           /\ "rotation" \in crossed' => "rotation" \in crossed
<1>1. PICK op, u, todo : Opening(c, op, u, todo)
  BY RequestOpens DEF Opens
<1>2. /\ call'[c] = [op |-> op, user |-> u, todo |-> todo, result |-> 0]
      /\ \A d \in Slot \ {c} : call'[d] = call[d]
  BY <1>1, OpeningTyped
<1>3. /\ call'[c].op = op /\ call'[c].todo = todo /\ call'[c].result = 0
      /\ op \notin {"refresh", "tab"}
  BY <1>2, RequestServed
<1>4. /\ call[c] = NoCall /\ Begin(c, op, u, todo) /\ DrawsFor(op, todo)
      /\ UNCHANGED <<user, session, workload>>
  BY <1>1 DEF Opening, Reads
<1>5. issued.tokens \in Nat /\ issued'.tokens \in 0..MaxTokens /\ MaxTokens \in Nat
  BY <1>1, Marks DEF TypeInv, TypeOK, Opening
<1>6. ASSUME issued'.tokens = issued.tokens, \A i \in 1..Len(todo) : todo[i].write # "issue"
      PROVE  Begun(c)
  <2>1. \A i \in Nat : ~IssuesAt(c, i)'
    BY <1>3, <1>6 DEF IssuesAt
  <2> QED BY <1>2, <1>3, <1>4, <1>5, <1>6, <2>1 DEF Begun
<1>7. ASSUME issued'.tokens = NewToken,
             \/ todo = IssueTokens(NewToken)
             \/ \E w \in UserWrites : w.write = "user" /\ todo = <<w>> \o IssueTokens(NewToken)
      PROVE  Begun(c)
  <2>1. NewToken \in Session /\ NewToken = issued.tokens + 1
    BY <1>5, <1>7 DEF NewToken, Session
  <2>2. \A i \in Nat : IssuesAt(c, i)' =>
           call'[c].todo[i].token = NewToken /\ OriginAt(c, i)' = NewToken
    <3>1. CASE todo = IssueTokens(NewToken)
      BY <1>3, <2>1, <3>1, Built, FirstIssue
    <3>2. CASE \E w \in UserWrites : w.write = "user" /\ todo = <<w>> \o IssueTokens(NewToken)
      BY <1>3, <2>1, <3>2, FirstIssue
    <3> QED BY <1>7, <3>1, <3>2
  <2>3. issued.tokens <= issued'.tokens /\ issued'.tokens \in Nat
    BY <1>5, <1>7, <2>1
  <2> QED BY <1>2, <1>3, <1>4, <1>7, <2>1, <2>2, <2>3 DEF Begun
<1>8. "rotation" \in crossed' => "rotation" \in crossed
  <2>1. "rotation" \notin Touches(op)
    BY <1>3 DEF Touches
  <2> QED BY <1>4, <2>1 DEF Begin
<1> QED BY <1>3, <1>4, <1>6, <1>7, <1>8 DEF DrawsFor

\* The refresh of a tab begins a call for the sign-in of the token it presents.
LEMMA RefreshBegins ==
    ASSUME TypeInv, StoredOK, NEW c \in Slot, call[c] = NoCall, SignedIn,
           RefreshToken(c, stored.token)
    PROVE  /\ Begun(c) /\ UNCHANGED <<user, workload>>
           /\ call'[c].op = "refresh" /\ \E i \in Nat : IssuesAt(c, i)'
           /\ call'[c].user \in User /\ user[call'[c].user].present
           /\ (\A d \in Slot \ {c} : call[d].op \notin {"refresh", "tab"}) =>
                 ("rotation" \in crossed' => "rotation" \in crossed)
<1> DEFINE s == stored.token
           w == Other("revoke", {s})
           todo == <<w>> \o IssueTokens(session[s].origin)
<1>1. s \in Session
  BY Marks DEF StoredOK, SignedIn, Session
<1>2. /\ session[s].present /\ DrawsToken
      /\ Begin(c, "refresh", session[s].user, todo)
  BY DEF RefreshToken, Refreshable
<1>3. session[s].user \in User /\ session[s].origin \in Session
  BY <1>1, <1>2, Rows
<1>4. user[session[s].user].present
  BY <1>1, <1>2 DEF TypeInv, TypeOK
<1>5. /\ NewToken \in Session /\ issued'.tokens = NewToken /\ UNCHANGED <<user, session, workload>>
  BY <1>2, TokenDrawn DEF Reads
<1>6. w.write # "issue"
  BY DEF Other
<1> HIDE DEF w
<1>7. /\ call'[c] = [op |-> "refresh", user |-> session[s].user, todo |-> todo, result |-> 0]
      /\ \A d \in Slot \ {c} : call'[d] = call[d]
  BY <1>2 DEF Begin, TypeInv
<1>8. /\ call'[c].op = "refresh" /\ call'[c].user = session[s].user
      /\ call'[c].todo = todo /\ call'[c].result = 0
  BY <1>7
<1>9. /\ \A i \in Nat : IssuesAt(c, i)' =>
            call'[c].todo[i].token = NewToken /\ OriginAt(c, i)' = session[s].origin
      /\ \E i \in Nat : IssuesAt(c, i)'
  BY <1>3, <1>5, <1>6, <1>8, FirstIssue
<1>10. /\ issued.tokens \in Nat /\ NewToken = issued.tokens + 1 /\ issued'.tokens \in Nat
       /\ issued.tokens <= issued'.tokens
  <2>1. issued.tokens \in Nat
    BY Marks DEF TypeInv, TypeOK
  <2> QED BY <1>5, <2>1 DEF NewToken
<1>11. Begun(c)
  BY <1>1, <1>2, <1>5, <1>7, <1>8, <1>9, <1>10 DEF Begun
<1>12. (\A d \in Slot \ {c} : call[d].op \notin {"refresh", "tab"}) =>
          ("rotation" \in crossed' => "rotation" \in crossed)
  <2> SUFFICES ASSUME \A d \in Slot \ {c} : call[d].op \notin {"refresh", "tab"}, "rotation" \in crossed'
               PROVE  "rotation" \in crossed
    OBVIOUS
  <2>1. ASSUME NEW d \in Slot \ {c} PROVE "rotation" \notin Touches(call[d].op)
    BY DEF Touches
  <2> QED BY <1>2, <2>1 DEF Begin
<1> QED BY <1>3, <1>4, <1>5, <1>8, <1>9, <1>11, <1>12

\* A row goes only with the statement of a removal.
LEMMA OnlyRemovalDeletes ==
    ASSUME TypeInv, NEW c \in Slot, DeleteUser(c)
    PROVE  call[c].op = "remove"
<1>1. Head1(c) \in Writes(call[c].op) /\ Head1(c).write = "delete" /\ call[c].op \in Operation
  <2>1. call[c].todo # <<>>
    BY DEF DeleteUser, Awaits
  <2> QED BY <2>1, HeadTyped, DeleteUserTyped
<1>2. /\ \A w \in Issuing \cup Revoking \cup RevokingAll \cup Creating \cup Saving \cup Syncing :
            w.write # "delete"
      /\ \A w \in UserWrites : w.write # "delete"
      /\ \A f, S : \A w \in Gift(f, S) : w.write # "delete"
  BY DEF Issuing, Revoking, RevokingAll, Creating, Saving, Syncing, UserWrites, Counting, Spending,
         Password, Drawing, Enabling, Resetting, Inviting, Assigning, Columns, Gift
<1>3. \A w \in Inviting \cup Drawing : w.write # "delete"
  BY DEF Inviting, Drawing, Columns, Gift
<1>4. \A w \in Counting \cup Spending \cup Password \cup Enabling \cup Resetting \cup Assigning :
         w.write # "delete"
  BY <1>2 DEF UserWrites
<1> QED BY <1>1, <1>2, <1>3, <1>4 DEF Writes

\* Statements of other calls than a removal keep every account.
LEMMA UsersStay ==
    ASSUME TypeInv, NEW c \in Slot, Statement(c), call[c].op # "remove"
    PROVE  \A u \in User : user[u].present => user'[u].present
<1>1. user \in [User -> UserRow \cup {NoRow}]
  BY DEF TypeInv, TypeOK
<1>2. CASE WriteUser(c)
  BY <1>1, <1>2, WriteUserTyped DEF Throws
<1>3. CASE InsertUser(c)
  <2>1. \A row \in UserRow : row.present
    BY DEF UserRow
  <2> QED BY <1>1, <1>3, <2>1, InsertUserTyped DEF Throws
<1>4. CASE SyncRoles(c)
  BY <1>4, SyncRolesTyped
<1>5. CASE WriteGive(c) \/ IssueToken(c) \/ Revoke(c) \/ WriteProfile(c)
  BY <1>5, WriteGiveTyped, IssueTokenTyped, RevokeTyped, WriteProfileTyped DEF Throws
<1> QED BY <1>2, <1>3, <1>4, <1>5, OnlyRemovalDeletes DEF Statement

\* Nor does another statement touch the calls of others.
LEMMA OtherCallsStay ==
    ASSUME TypeInv, NEW c \in Slot, Statement(c), ~DeleteUser(c)
    PROVE  \A d \in Slot \ {c} : call'[d] = call[d]
<1>1. call[c].todo # <<>>
  BY StatementMoves
<1>2. Goes(c) \/ Throws(c) => \A d \in Slot \ {c} : call'[d] = call[d]
  BY <1>1, GoesTyped, ThrowsTyped
<1> QED BY <1>2, WriteUserTyped, WriteGiveTyped, IssueTokenTyped, RevokeTyped, InsertUserTyped,
           WriteProfileTyped, SyncRolesTyped DEF Statement

\* No statement of a refresh throws, so that it comes to issue its token.
LEMMA RefreshAnswers ==
    ASSUME TypeInv, TokenInv, NEW c \in Slot, Statement(c), call[c].op = "refresh",
           user[call[c].user].present, call[c].result # 0 \/ \E i \in Nat : IssuesAt(c, i)
    PROVE  call'[c].result # 0 \/ \E i \in Nat : IssuesAt(c, i)'
<1> DEFINE w == Head1(c)
<1>1. /\ call[c].todo # <<>> /\ w \in Issuing \cup Counting \cup Revoking /\ w = call[c].todo[1]
  BY StatementMoves, HeadTyped, WritesOf
<1>2. \A x \in Issuing \cup Counting \cup Revoking : x.write \in {"issue", "user", "revoke"}
  BY DEF Issuing, Counting, Revoking, Columns
<1>3. CASE w.write = "issue"
  <2>1. Issued(c)
    BY <1>1, <1>3 DEF Issued, Statement, WriteUser, WriteGive, IssueToken, Revoke, InsertUser, DeleteUser,
                      WriteProfile, SyncRoles, Awaits
  <2>2. PICK n \in Session : call'[c].result = n
    BY <2>1, IssuedOne
  <2> QED BY <2>2 DEF Session
<1>4. CASE w.write \in {"user", "revoke"}
  <2>1. Goes(c)
    <3>1. CASE w.write = "revoke"
      BY <1>1, <3>1 DEF Statement, WriteUser, WriteGive, IssueToken, Revoke, InsertUser, DeleteUser,
                        WriteProfile, SyncRoles, Awaits
    <3>2. CASE w.write = "user"
      <4>1. WriteUser(c)
        BY <1>1, <3>2 DEF Statement, WriteUser, WriteGive, IssueToken, Revoke, InsertUser, DeleteUser,
                          WriteProfile, SyncRoles, Awaits
      <4>2. w \in Counting
        BY <1>1, <3>2 DEF Issuing, Revoking
      <4>3. "profileId" \notin DOMAIN w.columns
        <5>1. DOMAIN w.columns = {"failedLoginCount", "locked"}
          <6> HIDE DEF w
          <6> QED BY <3>2, <4>2, ColumnsOf
        <5> QED BY <5>1
      <4> QED BY <4>1, <4>3 DEF WriteUser
    <3> QED BY <1>4, <3>1, <3>2
  <2>2. call'[c].todo = Tail(call[c].todo) /\ call'[c].result = call[c].result
    BY <1>1, <2>1, GoesTyped, AnswerStays
  <2>3. ASSUME NEW i \in Nat, IssuesAt(c, i) PROVE \E k \in Nat : IssuesAt(c, k)'
    <3>1. i # 1 /\ i \in 1..Len(call[c].todo) /\ Len(call[c].todo) \in Nat
      <4>1. call[c].todo \in Seq(Writes(call[c].op))
        BY DEF TypeInv, Plausible
      <4> QED BY <1>1, <1>4, <2>3, <4>1 DEF IssuesAt
    <3>2. i - 1 \in Nat /\ i - 1 \in 1..Len(Tail(call[c].todo)) /\ (i - 1) + 1 = i
      BY <1>1, <3>1, HeadTyped
    <3>3. Tail(call[c].todo)[i - 1] = call[c].todo[i]
      BY <1>1, <3>2, HeadTyped
    <3>4. IssuesAt(c, i - 1)'
      BY <2>2, <2>3, <3>2, <3>3 DEF IssuesAt
    <3> QED BY <3>2, <3>4
  <2> QED BY <2>2, <2>3
<1> QED BY <1>1, <1>2, <1>3, <1>4

Body == Alone /\ Answered /\ Named /\ Kept

\* While a tab is open nothing else refreshes tokens or removes accounts.
LEMMA OnlyTheTab ==
    ASSUME OneTab, TypeInv, Browsing, NEW c \in Slot
    PROVE  workload.ops[c] \cap {"refresh", "remove"} = {}
  BY DEF OneTab, TypeInv, Browsing

\* A token stored is named by its call no more, and is what is left of its sign-in.
LEMMA TakenStored ==
    ASSUME TypeInv, TokenInv, Alone, Named, NEW c \in Slot, Returned(c), Frees(c), ServerRests,
           call[c].result # 0, Stores(call[c].result)
    PROVE  Named' /\ Kept'
<1> DEFINE s == call[c].result
<1>1. s \in Session
  <2>1. s \in 0..MaxTokens
    BY DEF TypeInv, CallState
  <2> QED BY <2>1, Marks DEF Session
<1>2. call'[c] = NoCall /\ \A d \in Slot \ {c} : call'[d] = call[d]
  BY FreesTyped DEF Frees, ServerRests
<1>3. Shrinks
  BY <1>2 DEF Shrinks, SessionsEnd, GoesOn, Moves, ServerRests
<1>4. stored'.token = s /\ stored'.origin = IF session[s].present THEN session[s].origin ELSE s
  BY DEF Stores
<1>5. Names(c, s)
  BY DEF Names
<1> HIDE DEF s
<1>6. ASSUME NEW d \in Slot, NEW x \in Session, Names(d, x)' PROVE x # stored'.token
  <2>1. d # c
    BY <1>2, <1>6 DEF Names, IssuesAt, NoCall, Session
  <2>2. Names(d, x)
    BY <1>3, <1>6, IssueLeft
  <2> QED BY <1>1, <1>4, <1>5, <2>1, <2>2 DEF Named
<1>7. Named'
  BY <1>3, <1>6, NamedShrinks
<1>8. \A d \in Slot, i \in Nat : IssuesAt(d, i)' =>
         /\ d # c /\ IssuesAt(d, i) /\ OriginAt(d, i)' = OriginAt(d, i) /\ call'[d] = call[d]
  BY <1>2 DEF IssuesAt, OriginAt, NoCall
<1>9. UNCHANGED <<session, issued>>
  BY DEF ServerRests
<1>10. Kept'
  <2>1. CASE session[s].present
    <3>1. \A x \in Session : session[x].present /\ session[x].origin = stored'.origin => x = s
      BY <1>1, <1>4, <2>1 DEF TokenInv, Rotates, Alone
    <3>2. ASSUME NEW d \in Slot, NEW i \in Nat, IssuesAt(d, i), OriginAt(d, i) = stored'.origin
          PROVE  call[d].op = "refresh"
      <4>1. s \in LiveFor(d, i)
        BY <1>1, <1>4, <2>1, <3>2 DEF LiveFor
      <4> QED BY <3>2, <4>1 DEF TokenInv, Rotates, Alone
    <3>3. s <= issued.tokens /\ stored'.origin <= issued.tokens
      BY <1>1, <1>4, <1>5, <2>1 DEF Named, TokenInv, OriginsDrawn
    <3> QED BY <1>4, <1>8, <1>9, <3>1, <3>2, <3>3 DEF Kept
  <2>2. CASE ~session[s].present
    <3>1. \A x \in Session : session[x].present => session[x].origin # s
      BY <1>1, <1>5, <2>2 DEF Named
    <3>2. \A d \in Slot, i \in Nat : IssuesAt(d, i)' => OriginAt(d, i)' # s
      BY <1>1, <1>5, <1>8 DEF Named
    <3>3. s <= issued.tokens
      BY <1>1, <1>5 DEF Named
    <3> QED BY <1>4, <1>9, <2>2, <3>1, <3>2, <3>3 DEF Kept
  <2> QED BY <2>1, <2>2
<1> QED BY <1>7, <1>10

\* A request of the server, none of them a refresh.
LEMMA RequestKeeps ==
    ASSUME OneTab, TypeInv, TokenInv, StoredOK, Browsing, Body, NEW c \in Slot, Request(c),
           UNCHANGED browserVars
    PROVE  Body'
<1>1. call'[c].op \notin {"refresh", "remove", "tab"}
  BY OnlyTheTab, RequestServed
<1>2. /\ Begun(c) /\ UNCHANGED <<user, workload>> /\ "rotation" \notin crossed'
      /\ UNCHANGED <<stored, inFlight, trouble>>
  BY <1>1, RequestBegins DEF Body, Alone, browserVars
<1>3. call[c].op # "refresh" /\ \A d \in Slot \ {c} : call'[d] = call[d]
  BY <1>2 DEF Begun, NoCall, None
<1>4. Alone'
  BY <1>1, <1>2, <1>3 DEF Body, Alone
<1>5. Answered'
  BY <1>1, <1>2, <1>3, BegunElse DEF Body, Answered
<1>6. stored.token <= issued.tokens
  BY Marks DEF Body, Kept, SignedIn, TypeInv, TypeOK
<1> QED BY <1>2, <1>4, <1>5, <1>6, NamedBegins, KeptBegins DEF Body

\* A statement of a call, the tab's or another.
LEMMA StatementKeeps ==
    ASSUME TypeInv, TokenInv, Body, NEW c \in Slot, Statement(c), UNCHANGED browserVars
    PROVE  Body'
<1>1. /\ \A d \in Slot : Moves(d) /\ call'[d].op = call[d].op /\ call'[d].user = call[d].user
      /\ \A d \in Slot \ {c} : call'[d] = call[d] \/ call'[d].todo = <<>>
      /\ UNCHANGED <<crossed, workload, stored, inFlight, trouble>>
  BY StatementMoves DEF Moves, browserVars
<1>2. Alone'
  BY <1>1 DEF Body, Alone
<1>3. call[c].op # "remove"
  BY DEF Body, Alone
<1>4. \A d \in Slot \ {c} : call'[d] = call[d]
  <2>1. ~DeleteUser(c)
    BY <1>3, OnlyRemovalDeletes
  <2> QED BY <2>1, OtherCallsStay
<1>5. Answered'
  <2> SUFFICES ASSUME NEW d \in Slot, call'[d].op = "refresh"
               PROVE  /\ user'[call'[d].user].present
                      /\ call'[d].result # 0 \/ \E i \in Nat : IssuesAt(d, i)'
    BY DEF Answered
  <2>1. /\ user[call[d].user].present /\ call[d].op = "refresh" /\ call'[d].user = call[d].user
        /\ call[d].result # 0 \/ \E i \in Nat : IssuesAt(d, i)
    BY <1>1 DEF Body, Answered
  <2>2. call[d].user \in User
    <3>1. call[d] \in CallState /\ Plausible(call[d])
      BY DEF TypeInv
    <3> QED BY <2>1, <3>1 DEF CallState, Plausible, None
  <2>3. user'[call'[d].user].present
    BY <1>3, <2>1, <2>2, UsersStay
  <2>4. CASE d = c
    BY <2>1, <2>3, <2>4, RefreshAnswers
  <2>5. CASE d # c
    <3>1. call'[d] = call[d]
      BY <1>4, <2>5
    <3> QED BY <2>1, <2>3, <3>1 DEF IssuesAt
  <2> QED BY <2>4, <2>5
<1>6. CASE Issued(c)
  BY <1>1, <1>2, <1>5, <1>6, NamedIssued, KeptIssued DEF Body
<1>7. CASE ~Issued(c)
  <2>1. Shrinks
    BY <1>7, StatementAnswers
  <2>2. \A d \in Slot, s \in Session : Names(d, s)' => s # stored'.token
    BY <1>1, <2>1, IssueLeft DEF Body, Named
  <2>3. \A d \in Slot : call'[d] = NoCall => call[d].op # "refresh"
    BY <1>1 DEF NoCall, None
  <2> QED BY <1>1, <1>2, <1>5, <2>1, <2>2, <2>3, NamedShrinks, KeptShrinks DEF Body
<1> QED BY <1>6, <1>7

\* A call that is done with leaves no trace in the others.
LEMMA FreedOne ==
    ASSUME TypeInv, NEW c \in Slot, Frees(c), ServerRests
    PROVE  /\ Shrinks /\ call'[c] = NoCall /\ \A d \in Slot \ {c} : call'[d] = call[d]
           /\ Answered => Answered'
           /\ call'[c].op # "refresh" /\ call'[c].op \notin {"remove", "tab"}
<1>1. call'[c] = NoCall /\ \A d \in Slot \ {c} : call'[d] = call[d]
  BY FreesTyped DEF Frees, ServerRests
<1>2. Shrinks
  BY <1>1 DEF Shrinks, SessionsEnd, GoesOn, Moves, ServerRests
<1>3. call'[c].op # "refresh" /\ call'[c].op \notin {"remove", "tab"}
  BY <1>1 DEF NoCall, None
<1>4. Answered => Answered'
  <2>1. \A d \in Slot \ {c}, i \in Nat : IssuesAt(d, i) => IssuesAt(d, i)'
    BY <1>1 DEF IssuesAt
  <2>2. user' = user
    BY DEF ServerRests
  <2> QED BY <1>1, <1>3, <2>1, <2>2 DEF Answered
<1> QED BY <1>1, <1>2, <1>3, <1>4

\* The answer of a call the tab does not await.
LEMMA AnswerKeeps ==
    ASSUME TypeInv, Body, NEW c \in Slot \ OwnSlots, Answer(c), UNCHANGED browserVars
    PROVE  Body'
<1>1. Frees(c) /\ ServerRests /\ UNCHANGED <<stored, inFlight, trouble>>
  BY DEF Answer, Frees, ServerRests, browserVars
<1>2. call[c].op # "refresh"
  BY DEF Body, Alone, OwnSlots
<1>3. Alone'
  BY <1>1, <1>2, FreedOne DEF Body, Alone, ServerRests
<1>4. Named'
  BY <1>1, FreedOne, IssueLeft, NamedShrinks DEF Body, Named
<1>5. Kept'
  BY <1>1, <1>2, FreedOne, KeptShrinks DEF Body, NoCall, None
<1> QED BY <1>1, <1>3, <1>4, <1>5, FreedOne DEF Body

\* A sign-in stores a token nobody else names.
LEMMA SignInKeeps ==
    ASSUME TypeInv, TokenInv, Body, NEW c \in Slot, SignIn(c)
    PROVE  Body'
<1>1. /\ Returned(c) /\ Frees(c) /\ ServerRests /\ call[c].result # 0 /\ Stores(call[c].result)
      /\ call[c].op # "refresh" /\ UNCHANGED inFlight
  BY DEF SignIn
<1>2. Alone'
  BY <1>1, FreedOne DEF Body, Alone, ServerRests
<1> QED BY <1>1, <1>2, FreedOne, TakenStored DEF Body

\* The tab has its answer, or its refresh failed: none is in hand then.
LEMMA RefreshEnds ==
    ASSUME OneTab, TypeInv, Alone, NEW t \in Tab, NEW c \in Slot, inFlight[t] = c,
           Frees(c), ServerRests, NEW x \in {None, Failed},
           inFlight \in [Tab -> Slot \cup {None, Failed}], inFlight' = [inFlight EXCEPT ![t] = x]
    PROVE  Alone'
<1>1. \A v \in Tab : inFlight'[v] \notin Slot
  BY BrowserAssumption DEF OneTab
<1>2. \A d \in Slot : call[d].op = "refresh" => d = c
  BY DEF OneTab, Alone
<1> QED BY <1>1, <1>2, FreedOne DEF Alone, ServerRests

\* A refresh that is done hands its token to the tab.
LEMMA RefreshedKeeps ==
    ASSUME OneTab, TypeInv, TokenInv, TabInv, Body, NEW t \in Tab, Refreshed(t)
    PROVE  Body'
<1>1. PICK c \in Slot : /\ inFlight[t] = c /\ Returned(c) /\ call[c].result # 0
                        /\ Stores(call[c].result) /\ inFlight' = [inFlight EXCEPT ![t] = None]
                        /\ Frees(c) /\ ServerRests
  BY DEF Refreshed
<1>2. Alone'
  BY <1>1, RefreshEnds DEF Body, TabInv
<1> QED BY <1>1, <1>2, FreedOne, TakenStored DEF Body

\* A refresh fails only when the network loses it.
LEMMA RefreshFailsKeeps ==
    ASSUME OneTab, TypeInv, TabInv, Body, NEW t \in Tab, RefreshFails(t)
    PROVE  Body' /\ trouble'
<1>1. PICK c \in Slot : /\ inFlight[t] = c /\ Returned(c)
                        /\ call[c].result = 0 \/ trouble'
                        /\ inFlight' = [inFlight EXCEPT ![t] = Failed]
                        /\ Frees(c) /\ ServerRests /\ UNCHANGED stored
  BY DEF RefreshFails
<1>2. trouble'
  <2>1. call[c].op = "refresh" /\ \A i \in Nat : ~IssuesAt(c, i)
    BY <1>1 DEF Body, Alone, Returned, IssuesAt
  <2> QED BY <1>1, <2>1 DEF Body, Answered
<1>3. Alone'
  BY <1>1, RefreshEnds DEF Body, TabInv
<1>4. Named'
  BY <1>1, FreedOne, IssueLeft, NamedShrinks DEF Body, Named
<1>5. Kept'
  BY <1>1, <1>2, FreedOne, KeptShrinks DEF Body
<1> QED BY <1>1, <1>2, <1>3, <1>4, <1>5, FreedOne DEF Body

\* The tab alone: the storage is cleared or kept, and no refresh is in hand but
\* those there were.
LEMMA TabAlone ==
    ASSUME TypeInv, Body, UNCHANGED accountVars, trouble => trouble',
           \/ UNCHANGED stored
           \/ stored' = NothingStored
           \/ stored'.token = stored.token /\ stored'.origin = stored.origin,
           \A c \in Slot : (\E t \in Tab : inFlight'[t] = c) <=> (\E t \in Tab : inFlight[t] = c)
    PROVE  Body'
<1>1. UNCHANGED <<user, session, issued, call, crossed, workload>>
  BY DEF accountVars
<1>2. Alone' /\ Answered'
  BY <1>1 DEF Body, Alone, Answered, IssuesAt
<1>3. Shrinks
  BY <1>1 DEF Shrinks, SessionsEnd, GoesOn, Moves
<1>4. ASSUME NEW c \in Slot, NEW s \in Session, Names(c, s)' PROVE s # stored'.token
  <2>1. s # stored.token /\ s # 0
    BY <1>3, <1>4, IssueLeft DEF Body, Named, Session
  <2> QED BY <2>1 DEF NothingStored
<1>5. Named'
  BY <1>3, <1>4, NamedShrinks DEF Body
<1>6. Kept'
  <2>1. CASE stored' = NothingStored
    BY <2>1 DEF Kept, SignedIn, NothingStored
  <2>2. CASE stored'.token = stored.token /\ stored'.origin = stored.origin
    BY <1>1, <2>2 DEF Body, Kept, SignedIn, Fresh, IssuesAt, OriginAt
  <2> QED BY <2>1, <2>2
<1> QED BY <1>2, <1>5, <1>6 DEF Body

\* A refresh of the tab: the only one in hand.
LEMMA StartKeeps ==
    ASSUME OneTab, TypeInv, TokenInv, TabInv, Body, NEW t \in Tab, NEW c \in Slot, StartRefresh(t, c)
    PROVE  Body'
<1>1. /\ inFlight[t] = None /\ SignedIn /\ UNCHANGED stored
      /\ \A v \in Tab : v = t
      /\ inFlight \in [Tab -> Slot \cup {None, Failed}]
      /\ None \notin Slot /\ Failed \notin Slot
  BY BrowserAssumption DEF StartRefresh, OneTab, TabInv
<1>2. \A d \in Slot : call[d].op \notin {"refresh", "tab"}
  BY <1>1 DEF Body, Alone
<1>3. CASE Ready(c, "tab") /\ RefreshToken(c, stored.token) /\ inFlight' = [inFlight EXCEPT ![t] = c]
           /\ UNCHANGED trouble
  <2>1. call[c] = NoCall /\ StoredOK
    BY <1>3 DEF Ready, TabInv
  <2>2. /\ Begun(c) /\ UNCHANGED <<user, workload>>
        /\ call'[c].op = "refresh" /\ \E i \in Nat : IssuesAt(c, i)'
        /\ user[call'[c].user].present
        /\ "rotation" \notin crossed'
    BY <1>1, <1>2, <1>3, <2>1, RefreshBegins DEF Body, Alone
  <2>3. inFlight'[t] = c /\ \A d \in Slot \ {c} : call'[d] = call[d]
    BY <1>1, <1>3, <2>2 DEF Begun
  <2>4. Alone'
    BY <1>1, <1>2, <2>2, <2>3 DEF Body, Alone
  <2>5. Answered'
    BY <1>2, <2>2, <2>3 DEF Answered
  <2>6. stored.token <= issued.tokens
    BY <1>1 DEF Body, Kept
  <2> QED BY <1>1, <1>3, <2>1, <2>2, <2>4, <2>5, <2>6, NamedBegins, KeptBegins DEF Body
<1>4. CASE UNCHANGED accountVars /\ (trouble => trouble') /\ inFlight' = [inFlight EXCEPT ![t] = Failed]
  <2>1. \A d \in Slot, v \in Tab : inFlight[v] # d /\ inFlight'[v] # d
    BY <1>1, <1>4
  <2> QED BY <1>1, <1>4, <2>1, TabAlone
<1> QED BY <1>3, <1>4 DEF StartRefresh

\* Giving up leaves the tab alone, with its session or without.
LEMMA GiveUpKeeps ==
    ASSUME OneTab, TypeInv, TabInv, Body, NEW t \in Tab, GiveUp(t)
    PROVE  Body'
<1>1. /\ inFlight[t] \in {None, Failed} /\ inFlight' = [inFlight EXCEPT ![t] = None]
      /\ UNCHANGED <<accountVars, trouble>> /\ stored' \in {stored, NothingStored}
      /\ \A v \in Tab : v = t
      /\ inFlight \in [Tab -> Slot \cup {None, Failed}]
      /\ None \notin Slot /\ Failed \notin Slot
  BY BrowserAssumption DEF GiveUp, OneTab, TabInv
<1>2. \A d \in Slot, v \in Tab : inFlight[v] # d /\ inFlight'[v] # d
  BY <1>1
<1> QED BY <1>1, <1>2, TabAlone

\* Sessions end in time, and a restart cuts every call.
LEMMA ClockKeeps == ASSUME TypeInv, Body, Clock, UNCHANGED browserVars PROVE Body'
<1>1. /\ UNCHANGED <<issued, call, crossed, workload, stored, inFlight, trouble>>
      /\ SessionsEnd /\ \A u \in User : user'[u].present = user[u].present
  BY ClockTyped DEF SessionsEnd, browserVars
<1>2. Shrinks
  BY <1>1 DEF Shrinks, GoesOn, Moves
<1>3. Alone'
  BY <1>1 DEF Body, Alone
<1>4. Answered'
  <2>1. \A d \in Slot : call[d].op = "refresh" => call[d].user \in User
    BY DEF TypeInv, CallState, Plausible, None
  <2> QED BY <1>1, <2>1 DEF Body, Answered, IssuesAt
<1>5. Named'
  BY <1>1, <1>2, IssueLeft, NamedShrinks DEF Body, Named
<1>6. Kept'
  <2>1. \A d \in Slot : call'[d] = NoCall => call[d].op # "refresh" \/ call[d].result = 0
    BY <1>1 DEF NoCall
  <2> QED BY <1>1, <1>2, <2>1, KeptShrinks DEF Body
<1> QED BY <1>3, <1>4, <1>5, <1>6 DEF Body

\* A restart drops the refresh in flight, which the tab counts as lost.
LEMMA RestartKeeps == ASSUME TypeInv, TabInv, Body, ServerRestart PROVE Body'
<1>1. /\ \A d \in Slot : call'[d] = NoCall
      /\ UNCHANGED <<session, issued, workload, stored>> /\ Restart
      /\ inFlight' = [t \in Tab |-> IF inFlight[t] \in Slot THEN Failed ELSE inFlight[t]]
      /\ trouble' = (trouble \/ \E t \in Tab : inFlight[t] \in Slot)
  BY RestartTyped DEF ServerRestart
<1>2. Shrinks
  BY <1>1 DEF Shrinks, SessionsEnd
<1>3. \A d \in Slot : call'[d].op = None /\ d # Failed
  BY <1>1, BrowserAssumption DEF NoCall
<1>4. Alone'
  <2>1. "rotation" \notin crossed'
    BY <1>1 DEF Restart, Body, Alone
  <2> QED BY <1>1, <1>3, <2>1 DEF Alone, None
<1>5. Answered'
  BY <1>3 DEF Answered, None
<1>6. Named'
  BY <1>1, <1>2, IssueLeft, NamedShrinks DEF Body, Named
<1>7. Kept'
  <2>1. ~trouble' => \A d \in Slot : call[d].op # "refresh"
    BY <1>1 DEF Body, Alone
  <2> QED BY <1>1, <1>2, <2>1, KeptShrinks DEF Body
<1> QED BY <1>4, <1>5, <1>6, <1>7 DEF Body

\* Where no slot serves a tab nobody signs in.
LEMMA NobodySignsIn ==
    ASSUME TypeInv, TabInv, ~Browsing, [ConsoleNext]_vars
    PROVE  stored' = NothingStored /\ \A t \in Tab : inFlight'[t] = None
<1>1. ~SignedIn /\ stored = NothingStored /\ None \notin Slot /\ \A t \in Tab : inFlight[t] = None
  BY BrowserAssumption DEF TabInv, SignedIn, NothingStored
<1>2. inFlight \in [Tab -> Slot \cup {None, Failed}]
  BY DEF TabInv
<1>3. \A c \in Slot : ~SignIn(c)
  BY DEF SignIn, Browsing
<1>4. ~SignOut /\ ~AccessAges
  BY <1>1 DEF SignOut, AccessAges
<1>5. CASE ServerStep \/ UNCHANGED vars
  BY <1>1, <1>5 DEF ServerStep, vars, browserVars
<1>6. CASE ServerRestart
  BY <1>1, <1>6 DEF ServerRestart
<1>7. ASSUME NEW t \in Tab, TabStep(t)
      PROVE  stored' = NothingStored /\ \A v \in Tab : inFlight'[v] = None
  <2>1. (\A r \in Pending : ~Fetch(t, r)) /\ (\A c \in Slot : ~StartRefresh(t, c))
    BY <1>1 DEF Fetch, StartRefresh
  <2>2. ~Refreshed(t) /\ ~RefreshFails(t)
    BY <1>1 DEF Refreshed, RefreshFails
  <2>3. CASE \E r \in Pending : Send(t, r)
    BY <1>1, <2>3 DEF Send
  <2>4. CASE GiveUp(t)
    <3>1. inFlight' = [inFlight EXCEPT ![t] = None] /\ stored' = NothingStored
      BY <1>1, <2>4 DEF GiveUp
    <3> QED BY <1>1, <1>2, <3>1
  <2> QED BY <1>7, <2>1, <2>2, <2>3, <2>4 DEF TabStep
<1> QED BY <1>3, <1>4, <1>5, <1>6, <1>7 DEF ConsoleNext

\* What a tab awaits stays typed, and the workload stays the same.
LEMMA InFlightTyped ==
    ASSUME TabInv, [ConsoleNext]_vars
    PROVE  /\ inFlight' \in [Tab -> Slot \cup {None, Failed}]
           /\ UNCHANGED workload
<1>1. inFlight \in [Tab -> Slot \cup {None, Failed}]
  BY DEF TabInv
<1>2. CASE ServerStep
  <2>1. UNCHANGED inFlight
    BY <1>2 DEF ServerStep, browserVars
  <2>2. ASSUME NEW c \in Slot, Request(c) PROVE UNCHANGED workload
    BY <2>2 DEF Request, Login, WrongPassword, VerifyTotp, Refresh, RefreshToken, Logout, SetupTotp,
           EnableTotp, DisableTotp, ChangePassword, CompleteInvitePassword, ResumeInvite, SetupInviteTotp,
           EnableInviteTotp, CreateUser, ResendInvite, UpdateUser, ResetTotp, RemoveUser, CreateProfile,
           UpdateProfile, RemoveProfile, ReadsOnly, DrawsToken, DrawsInvite, Reads
  <2>3. ASSUME NEW c \in Slot, Statement(c) PROVE UNCHANGED workload
    BY <2>3 DEF Statement, WriteUser, WriteGive, IssueToken, Revoke, InsertUser, DeleteUser,
           WriteProfile, SyncRoles
  <2>4. Clock => UNCHANGED workload
    BY DEF Clock, LockExpires, InviteExpires, TokensExpire, SessionExpires
  <2> QED BY <1>1, <1>2, <2>1, <2>2, <2>3, <2>4 DEF ServerStep, Answer
<1>3. CASE ServerRestart
  BY <1>1, <1>3 DEF ServerRestart, Restart
<1>4. CASE (\E c \in Slot : SignIn(c)) \/ SignOut \/ AccessAges \/ UNCHANGED vars
  BY <1>1, <1>4 DEF SignIn, SignOut, AccessAges, ServerRests, accountVars, browserVars, vars
<1>5. ASSUME NEW t \in Tab, TabStep(t)
      PROVE  inFlight' \in [Tab -> Slot \cup {None, Failed}] /\ UNCHANGED workload
  <2>1. \A r \in Pending : Fetch(t, r) \/ Send(t, r) => UNCHANGED <<inFlight, workload>>
    BY DEF Fetch, Send, accountVars
  <2>2. ASSUME NEW c \in Slot, StartRefresh(t, c)
        PROVE  inFlight' \in [Tab -> Slot \cup {None, Failed}] /\ UNCHANGED workload
    BY <1>1, <2>2 DEF StartRefresh, RefreshToken, DrawsToken, Reads, accountVars
  <2>3. CASE Refreshed(t)
    BY <1>1, <2>3 DEF Refreshed, ServerRests
  <2>4. CASE RefreshFails(t)
    BY <1>1, <2>4 DEF RefreshFails, ServerRests
  <2>5. CASE GiveUp(t)
    BY <1>1, <2>5 DEF GiveUp, accountVars
  <2> QED BY <1>1, <1>5, <2>1, <2>2, <2>3, <2>4, <2>5 DEF TabStep
<1> QED BY <1>2, <1>3, <1>4, <1>5 DEF ConsoleNext

\* Every step of the console keeps the invariant of its tab.
LEMMA TabStays ==
    ASSUME OneTab, TypeInv, TokenInv, TabInv, [ConsoleNext]_vars
    PROVE  TabInv'
<1>1. StoredOK /\ StoredOK'
  BY ConsoleIsStep DEF TabInv
<1>2. Browsing' = Browsing
  BY InFlightTyped DEF Browsing
<1>3. ASSUME Browsing PROVE Body'
  <2>1. Body
    BY <1>3 DEF TabInv, Body
  <2>2. CASE ServerStep
    <3>1. UNCHANGED browserVars
      BY <2>2 DEF ServerStep
    <3> QED BY <1>1, <1>3, <2>1, <2>2, <3>1, RequestKeeps, StatementKeeps, AnswerKeeps, ClockKeeps
               DEF ServerStep
  <2>3. CASE ServerRestart
    BY <2>1, <2>3, RestartKeeps
  <2>4. CASE \E c \in Slot : SignIn(c)
    BY <2>1, <2>4, SignInKeeps
  <2>5. CASE SignOut
    BY <2>1, <2>5, TabAlone DEF SignOut
  <2>6. CASE AccessAges
    <3>1. stored'.token = stored.token /\ stored'.origin = stored.origin
      BY <1>1, <2>6 DEF AccessAges, StoredOK
    <3> QED BY <2>1, <2>6, <3>1, TabAlone DEF AccessAges
  <2>7. ASSUME NEW t \in Tab, TabStep(t) PROVE Body'
    <3>1. ASSUME NEW r \in Pending, Fetch(t, r) \/ Send(t, r) PROVE Body'
      BY <2>1, <3>1, TabAlone DEF Fetch, Send
    <3> QED BY <2>1, <2>7, <3>1, StartKeeps, RefreshedKeeps, RefreshFailsKeeps, GiveUpKeeps DEF TabStep
  <2>8. CASE UNCHANGED vars
    BY <2>1, <2>8, TabAlone DEF vars, browserVars
  <2> QED BY <2>2, <2>3, <2>4, <2>5, <2>6, <2>7, <2>8 DEF ConsoleNext
<1> QED BY <1>1, <1>2, <1>3, InFlightTyped, NobodySignsIn DEF TabInv, Body

\* A tab alone, whose requests and keep-alive share its refreshes, loses its session
\* only with the last token of its sign-in or with its account, or when the network
\* or a restart lost a refresh: where no account is removed and no other client
\* refreshes tokens, and whatever signs in, out, expires or is revoked meanwhile.
THEOREM SessionStays == OneTab => (ConsoleSpec => SessionKept)
<1> SUFFICES ASSUME OneTab PROVE ConsoleSpec => SessionKept
  OBVIOUS
<1> DEFINE Step == \A t \in Tab : inFlight[t] # Failed /\ inFlight'[t] = Failed /\ ~trouble' =>
              \A s \in Session : session[s].present /\ session[s].origin = stored.origin
                                   => ~user[session[s].user].isActive
<1>1. ConsoleInit => TabInv
  <2> SUFFICES ASSUME ConsoleInit PROVE TabInv
    OBVIOUS
  <2>1. /\ stored = NothingStored /\ inFlight = [t \in Tab |-> None] /\ crossed = {}
        /\ \A c \in Slot : call[c] = NoCall /\ call[c].result = 0 /\ call[c].op = None
        /\ \A s \in Session : ~session[s].present
    BY DEF ConsoleInit, BrowserInit, Init, NoCall, NoRow
  <2>2. \A c \in Slot, i \in Nat : ~IssuesAt(c, i)
    BY <2>1 DEF IssuesAt, NoCall
  <2>3. \A c \in Slot, s \in Session : ~Names(c, s)
    BY <2>1, <2>2 DEF Names, Session
  <2>4. StoredOK
    BY <2>1, Marks DEF StoredOK, NothingStored
  <2>5. Alone
    BY <2>1, BrowserAssumption DEF Alone, None
  <2> QED BY <2>1, <2>2, <2>3, <2>4, <2>5 DEF TabInv, Answered, Named, Kept, SignedIn, NothingStored, None
<1>2. AccountInv /\ TabInv /\ [ConsoleNext]_vars => TabInv'
  BY TabStays DEF AccountInv
<1>3. AccountInv /\ TabInv /\ [ConsoleNext]_vars => [Step]_vars
  <2> SUFFICES ASSUME AccountInv, TabInv, ConsoleNext, NEW t \in Tab, inFlight[t] # Failed,
                      inFlight'[t] = Failed, ~trouble', NEW s \in Session, session[s].present,
                      session[s].origin = stored.origin
               PROVE  ~user[session[s].user].isActive
    OBVIOUS
  <2>1. /\ TypeInv /\ TokenInv /\ inFlight \in [Tab -> Slot \cup {None, Failed}]
        /\ None # Failed /\ None \notin Slot /\ Failed \notin Slot
        /\ \A v \in Tab : v = t
    BY BrowserAssumption DEF AccountInv, TabInv, OneTab, None, Failed
  <2>2. Browsing /\ Body
    <3>1. Browsing
      BY <2>1, NobodySignsIn
    <3> QED BY <3>1 DEF TabInv, Body
  <2>3. PICK c \in Slot : StartRefresh(t, c)
    <3>1. ~RefreshFails(t)
      BY <2>1, <2>2, RefreshFailsKeeps
    <3>2. ~Refreshed(t) /\ ~GiveUp(t) /\ \A r \in Pending : ~Fetch(t, r) /\ ~Send(t, r)
      BY <2>1 DEF Refreshed, GiveUp, Fetch, Send
    <3>3. ~ServerStep /\ ~SignOut /\ ~AccessAges /\ \A c \in Slot : ~SignIn(c)
      BY <2>1 DEF ServerStep, browserVars, SignOut, AccessAges, SignIn
    <3>4. ~ServerRestart
      BY <2>1 DEF ServerRestart
    <3> QED BY <2>1, <3>1, <3>2, <3>3, <3>4 DEF ConsoleNext, TabStep
  <2>4. SignedIn /\ ~Refreshable(stored.token) /\ ~trouble /\ inFlight[t] = None
    BY <2>1, <2>3 DEF StartRefresh
  <2>5. ~Fresh(s)
    BY <2>1, <2>2, <2>4 DEF Fresh, Body, Alone
  <2>6. s = stored.token
    BY <2>2, <2>4, <2>5 DEF Body, Kept
  <2> QED BY <2>4, <2>6 DEF Refreshable
<1> QED BY <1>1, <1>2, <1>3, AccountInvariant, PTL DEF ConsoleSpec, SessionKept
=============================================================================
