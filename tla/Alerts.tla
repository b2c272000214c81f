------------------------------- MODULE Alerts -------------------------------
(***************************************************************************)
(* The alert life cycle of backend/src/alerts/alerts.service.ts.           *)
(*                                                                         *)
(* Every await on the database is an action of its own: Node.js runs the   *)
(* handlers on one thread, and another handler runs between two awaits.    *)
(* No call opens a transaction.  A SLOT is a call in flight; the constants *)
(* say which slots run which calls, so one slot for all of them is a       *)
(* server that handles one call at a time, and two are racing handlers.    *)
(*                                                                         *)
(* A row abstracts title, severity and message: a fingerprint stands for   *)
(* title|serverId|websiteId, and a query on a resource and a part of the   *)
(* title is the set of fingerprints it selects (Wheres).                   *)
(***************************************************************************)
EXTENDS Naturals, FiniteSets

CONSTANTS
    AlertId,        \* ids of alert rows (uuids: never used twice)
    NoAlert,        \* "no row in hand"
    Upgraded,       \* ids of the rows an earlier version may have left
    Fingerprint,    \* the incidents an alert can be about
    Wheres,         \* the sets of fingerprints a resolving query selects
    Raisers,        \* slots running create()
    Closers,        \* slots running onIssueResolved / forceClose / autoClose
    Operators,      \* slots running close() and addNote()
    Ackers,         \* slots running acknowledge()
    Migrators,      \* slots running migrateLegacyStatuses()
    Deleters,       \* slots running onResourceDeleted()
    MaxTime,        \* bound on the clock
    MaxCalls,       \* bound on the number of calls made
    MaxCrashes      \* bound on the number of process restarts

Slots == Raisers \cup Closers \cup Operators \cup Ackers \cup Migrators \cup Deleters

ASSUME NoAlertAssumption == NoAlert \notin AlertId
ASSUME UpgradedAssumption == Upgraded \subseteq AlertId
ASSUME WheresAssumption == Wheres \subseteq SUBSET Fingerprint
ASSUME BoundsAssumption == MaxTime \in Nat \ {0} /\ MaxCalls \in Nat /\ MaxCrashes \in Nat
ASSUME SlotsAssumption == IsFiniteSet(Slots)

VARIABLES
    alerts,     \* the Alert table
    events,     \* the AlertEvent table: number of events per alert and action
    outbox,     \* the dispatches handed to the notification service
    calls,      \* the calls in flight, one per slot
    now,        \* the clock
    made,       \* number of calls made (bounds the model)
    crashes,    \* number of restarts (bounds the model)
    closings    \* history: number of writes of status CLOSED per alert

vars == <<alerts, events, outbox, calls, now, made, crashes, closings>>

OpenStatus == {"ACTIVE", "ACKNOWLEDGED", "PENDING_CLOSE"}
Stored == OpenStatus \cup {"CLOSED"}
Status == Stored \cup {"UNUSED", "DELETED"}
Origin == {"none", "auto", "manual", "disabled"}
Action == {"CREATED", "REOPENED", "CLOSED", "ACKNOWLEDGED", "NOTE", "RESOURCE_DELETED"}
Kind == {"none", "raise", "resolve", "disable", "autoClose", "migrate",
         "close", "note", "acknowledge", "delete"}
Step == {"idle", "findOpen", "refresh", "findClosed", "reopen", "insert",
         "logReopened", "logCreated", "find", "write", "logClosed", "logNote",
         "logAcknowledged", "logRemoved", "delete"}

\* closedAt = 0 is a null closedAt.  "hashed" tells a fingerprint computed by
\* the service from the md5 one the migration wrote on older rows, which no
\* create() ever computes again.
Row == [fp: Fingerprint, hashed: BOOLEAN, status: Status, acknowledged: BOOLEAN,
        resolved: BOOLEAN, closedAt: 0..MaxTime, origin: Origin, occurrenceCount: Nat]

\* seen is history: how often the row in hand had been closed when the call
\* read it.
Call == [step: Step, kind: Kind, where: SUBSET Fingerprint, since: 0..MaxTime,
         id: AlertId \cup {NoAlert}, pending: BOOLEAN, keepAck: BOOLEAN,
         at: 0..MaxTime, todo: SUBSET AlertId, live: SUBSET AlertId, seen: Nat]

Idle == [step |-> "idle", kind |-> "none", where |-> {}, since |-> 0, id |-> NoAlert,
         pending |-> FALSE, keepAck |-> FALSE, at |-> 0, todo |-> {}, live |-> {},
         seen |-> 0]

UnusedRow(f) == [fp |-> f, hashed |-> TRUE, status |-> "UNUSED", acknowledged |-> FALSE,
                 resolved |-> FALSE, closedAt |-> 0, origin |-> "none",
                 occurrenceCount |-> 0]

-----------------------------------------------------------------------------
(* Queries *)

IsOpen(a) == alerts[a].status \in OpenStatus
IsStored(a) == alerts[a].status \in Stored

\* Rows create() can find: same fingerprint, as the service computes it.
Matching(F) == {a \in AlertId : IsStored(a) /\ alerts[a].hashed /\ alerts[a].fp \in F}
\* Rows a where clause on resource and title selects.
Selected(F) == {a \in AlertId : IsStored(a) /\ alerts[a].fp \in F}
Open(S) == {a \in S : IsOpen(a)}
NewestClosed(F) ==
    {a \in Matching(F) \ Open(Matching(F)) :
        \A b \in Matching(F) \ Open(Matching(F)) : alerts[b].closedAt <= alerts[a].closedAt}

\* prisma update / delete / event insert on a row that is gone throws.
Gone(a) == alerts[a].status = "DELETED"

-----------------------------------------------------------------------------
(* Rows left by earlier versions of the service, and the initial state *)

UpgradedRow(f, r) ==
    /\ r.fp = f /\ r.occurrenceCount = 1 /\ r.closedAt = 0 /\ r.origin = "none"
    /\ \/ r.status = "ACTIVE" /\ ~r.acknowledged /\ ~r.resolved
       \/ r.status = "ACKNOWLEDGED" /\ r.acknowledged /\ ~r.resolved
       \/ r.status = "PENDING_CLOSE" /\ r.hashed /\ ~r.resolved
       \/ r.status = "CLOSED" /\ ~r.hashed /\ r.resolved

InitialRow(f) ==
    {UnusedRow(f)} \cup
    {r \in [fp: {f}, hashed: BOOLEAN, status: Stored, acknowledged: BOOLEAN,
            resolved: BOOLEAN, closedAt: {0}, origin: {"none"}, occurrenceCount: {1}] :
        UpgradedRow(f, r)}

OneHashedRowEach ==
    \A a, b \in AlertId :
        /\ IsStored(a) /\ IsStored(b)
        /\ alerts[a].hashed /\ alerts[b].hashed
        /\ alerts[a].fp = alerts[b].fp
        => a = b

Init ==
    /\ alerts \in [AlertId -> UNION {InitialRow(f) : f \in Fingerprint}]
    /\ \A a \in AlertId \ Upgraded : alerts[a].status = "UNUSED"
    /\ OneHashedRowEach
    /\ events = [a \in AlertId |-> [k \in Action |-> 0]]
    /\ outbox = {}
    /\ calls = [p \in Slots |-> Idle]
    /\ now = 1
    /\ made = 0
    /\ crashes = 0
    /\ closings = [a \in AlertId |-> 0]

-----------------------------------------------------------------------------
(* How a call moves, writes and logs *)

At(p, s) == calls[p].step = s
Goto(p, c) == calls' = [calls EXCEPT ![p] = c]
Return(p) == Goto(p, Idle)
Begin(p, c) ==
    /\ At(p, "idle")
    /\ made < MaxCalls
    /\ made' = made + 1
    /\ Goto(p, c)
    /\ UNCHANGED <<alerts, events, outbox, now, crashes, closings>>

\* A write that throws because the row is gone ends the call.
Throw(p) ==
    /\ Return(p)
    /\ UNCHANGED <<alerts, events, outbox, now, made, crashes, closings>>

Log(a, k) == events' = [events EXCEPT ![a][k] = @ + 1]

\* void this.notifications.dispatchForAlert(...), not awaited.
Dispatch(a, trigger) ==
    outbox' = outbox \cup {[id |-> a, trigger |-> trigger, occ |-> alerts[a].occurrenceCount]}

-----------------------------------------------------------------------------
(* create(): find the open row, else the newest closed one, else insert *)

RaiseBegin(p) ==
    /\ p \in Raisers
    /\ \E f \in Fingerprint, since \in 0..now :
         Begin(p, [Idle EXCEPT !.step = "findOpen", !.kind = "raise",
                               !.where = {f}, !.since = since])

\* Mutant: the query forgets the PENDING_CLOSE rows.
FindOpenActiveOnly(p) ==
    /\ At(p, "findOpen")
    /\ LET open == {a \in Matching(calls[p].where) : alerts[a].status = "ACTIVE"} IN
         \/ /\ open = {}
            /\ Goto(p, [calls[p] EXCEPT !.step = "findClosed"])
         \/ \E a \in open :
              Goto(p, [calls[p] EXCEPT
                         !.step = "refresh", !.id = a, !.seen = closings[a],
                         !.keepAck = alerts[a].acknowledged])
    /\ UNCHANGED <<alerts, events, outbox, now, made, crashes, closings>>

FindOpen(p) ==
    /\ At(p, "findOpen")
    /\ LET open == Open(Matching(calls[p].where)) IN
         \/ /\ open = {}
            /\ Goto(p, [calls[p] EXCEPT !.step = "findClosed"])
         \/ \E a \in open :
              Goto(p, [calls[p] EXCEPT
                         !.step = "refresh", !.id = a, !.seen = closings[a],
                         !.pending = alerts[a].status = "PENDING_CLOSE",
                         !.keepAck = alerts[a].status = "ACTIVE" /\ alerts[a].acknowledged])
    /\ UNCHANGED <<alerts, events, outbox, now, made, crashes, closings>>

\* The update of the row that was open when FindOpen read it.  It sets the
\* status and leaves resolved, closedAt and origin as they are.
RefreshedRow(r, keepAck) ==
    [r EXCEPT !.status = "ACTIVE",
              !.acknowledged = IF keepAck THEN @ ELSE FALSE]

Refresh(p) ==
    LET a == calls[p].id IN
    /\ At(p, "refresh")
    /\ \/ Gone(a) /\ Throw(p)
       \/ /\ ~Gone(a)
          /\ alerts' = [alerts EXCEPT ![a] = RefreshedRow(@, calls[p].keepAck)]
          /\ IF calls[p].pending
               THEN Goto(p, [calls[p] EXCEPT !.step = "logReopened"])
               ELSE Return(p)
          /\ UNCHANGED <<events, outbox, now, made, crashes, closings>>

\* A close at or after the start of the incident sticks: create() returns.
Sticks(r, since) == since # 0 /\ r.closedAt # 0 /\ r.closedAt >= since

\* Mutant: the sticky close is forgotten.
FindClosedNeverSticks(p) ==
    /\ At(p, "findClosed")
    /\ LET newest == NewestClosed(calls[p].where) IN
         \/ newest = {} /\ Goto(p, [calls[p] EXCEPT !.step = "insert"])
         \/ \E a \in newest : Goto(p, [calls[p] EXCEPT !.step = "reopen", !.id = a,
                                                          !.seen = closings[a]])
    /\ UNCHANGED <<alerts, events, outbox, now, made, crashes, closings>>

FindClosed(p) ==
    /\ At(p, "findClosed")
    /\ LET newest == NewestClosed(calls[p].where) IN
         \/ /\ newest = {}
            /\ Goto(p, [calls[p] EXCEPT !.step = "insert"])
         \/ \E a \in newest :
              IF Sticks(alerts[a], calls[p].since)
                THEN Return(p)
                ELSE Goto(p, [calls[p] EXCEPT !.step = "reopen", !.id = a,
                                              !.seen = closings[a]])
    /\ UNCHANGED <<alerts, events, outbox, now, made, crashes, closings>>

\* Mutant: the reopening update forgets to count.
ReopenedRowUncounted(r) ==
    [r EXCEPT !.status = "ACTIVE", !.resolved = FALSE, !.closedAt = 0,
              !.origin = "none", !.acknowledged = FALSE]

ReopenedRow(r) ==
    [r EXCEPT !.status = "ACTIVE", !.resolved = FALSE, !.closedAt = 0,
              !.origin = "none", !.acknowledged = FALSE, !.occurrenceCount = @ + 1]

Reopen(p) ==
    LET a == calls[p].id IN
    /\ At(p, "reopen")
    /\ \/ Gone(a) /\ Throw(p)
       \/ /\ ~Gone(a)
          /\ alerts' = [alerts EXCEPT ![a] = ReopenedRow(@)]
          /\ Goto(p, [calls[p] EXCEPT !.step = "logReopened"])
          /\ UNCHANGED <<events, outbox, now, made, crashes, closings>>

Insert(p) ==
    /\ At(p, "insert")
    /\ \E a \in AlertId, f \in calls[p].where :
         /\ alerts[a].status = "UNUSED"
         /\ alerts' = [alerts EXCEPT ![a] = [UnusedRow(f) EXCEPT !.status = "ACTIVE",
                                                                 !.occurrenceCount = 1]]
         /\ Goto(p, [calls[p] EXCEPT !.step = "logCreated", !.id = a])
    /\ UNCHANGED <<events, outbox, now, made, crashes, closings>>

LogReopened(p) ==
    LET a == calls[p].id IN
    /\ At(p, "logReopened")
    /\ \/ Gone(a) /\ Throw(p)
       \/ /\ ~Gone(a)
          /\ Log(a, "REOPENED")
          /\ Dispatch(a, "occurrence")
          /\ Return(p)
          /\ UNCHANGED <<alerts, now, made, crashes, closings>>

LogCreated(p) ==
    LET a == calls[p].id IN
    /\ At(p, "logCreated")
    /\ \/ Gone(a) /\ Throw(p)
       \/ /\ ~Gone(a)
          /\ Log(a, "CREATED")
          /\ Dispatch(a, "created")
          /\ Return(p)
          /\ UNCHANGED <<alerts, now, made, crashes, closings>>

-----------------------------------------------------------------------------
(* Automatic closing: one read of the open rows, then one write and one    *)
(* event per row                                                           *)

ResolveBegin(p) ==
    /\ p \in Closers
    /\ \E F \in Wheres, k \in {"resolve", "disable", "autoClose"} :
         Begin(p, [Idle EXCEPT !.step = "find", !.kind = k, !.where = F])

FindToClose(p) ==
    LET todo == Open(Selected(calls[p].where)) IN
    /\ At(p, "find")
    /\ calls[p].kind \in {"resolve", "disable", "autoClose"}
    /\ IF todo = {}
         THEN Return(p)
         ELSE Goto(p, [calls[p] EXCEPT !.step = "write", !.todo = todo, !.at = now])
    /\ UNCHANGED <<alerts, events, outbox, now, made, crashes, closings>>

\* The cron (every minute) and getSummary: the acknowledged rows in one
\* update, then the PENDING_CLOSE rows one by one.
MigrateBegin(p) ==
    /\ p \in Migrators
    /\ At(p, "idle")
    /\ made < MaxCalls
    /\ made' = made + 1
    /\ alerts' = [a \in AlertId |->
                    IF alerts[a].status = "ACKNOWLEDGED"
                      THEN [alerts[a] EXCEPT !.status = "ACTIVE", !.acknowledged = FALSE]
                      ELSE alerts[a]]
    /\ Goto(p, [Idle EXCEPT !.step = "find", !.kind = "migrate", !.at = now])
    /\ UNCHANGED <<events, outbox, now, crashes, closings>>

FindPending(p) ==
    LET todo == {a \in AlertId : alerts[a].status = "PENDING_CLOSE"} IN
    /\ At(p, "find")
    /\ calls[p].kind = "migrate"
    /\ IF todo = {}
         THEN Return(p)
         ELSE Goto(p, [calls[p] EXCEPT !.step = "write", !.todo = todo])
    /\ UNCHANGED <<alerts, events, outbox, now, made, crashes, closings>>

\* Mutants: a status the enum lacks; a closing time the update forgets.
ClosedRowResolved(r, kind, at) == [r EXCEPT !.status = "RESOLVED", !.resolved = TRUE, !.closedAt = at]
ClosedRowUnstamped(r, kind, at) ==
    [r EXCEPT !.status = "CLOSED", !.resolved = TRUE,
              !.closedAt = IF kind = "autoClose" THEN @ ELSE IF kind = "disable" THEN now ELSE at]

\* What each caller of a closing update writes.  onIssueResolved and the
\* migration use the time of their read, the others the time of the write.
ClosedRow(r, kind, at) ==
    [r EXCEPT
       !.status = "CLOSED",
       !.resolved = TRUE,
       !.closedAt = IF kind \in {"resolve", "migrate", "close"} THEN at ELSE now,
       !.acknowledged = IF kind = "resolve" THEN FALSE ELSE @,
       !.origin = CASE kind = "close" -> "manual"
                    [] kind = "disable" -> "disabled"
                    [] kind = "migrate" -> IF @ = "none" THEN "auto" ELSE @
                    [] OTHER -> "auto"]

CloseWrite(p) ==
    /\ At(p, "write")
    /\ \E a \in calls[p].todo :
         \/ Gone(a) /\ Throw(p)
         \/ /\ ~Gone(a)
            /\ alerts' = [alerts EXCEPT ![a] = ClosedRow(@, calls[p].kind, calls[p].at)]
            /\ closings' = [closings EXCEPT ![a] = @ + 1]
            /\ Goto(p, [calls[p] EXCEPT !.step = "logClosed", !.id = a, !.todo = @ \ {a}])
            /\ UNCHANGED <<events, outbox, now, made, crashes>>

\* Mutants: only the last row of the loop has its event; the loop ends at once.
LogClosedLastOnly(p) ==
    LET a == calls[p].id IN
    /\ At(p, "logClosed")
    /\ IF calls[p].todo = {} THEN Log(a, "CLOSED") /\ Return(p)
       ELSE UNCHANGED events /\ Goto(p, [calls[p] EXCEPT !.step = "write", !.id = NoAlert])
    /\ UNCHANGED <<alerts, outbox, now, made, crashes, closings>>

LogClosedFirstOnly(p) ==
    /\ At(p, "logClosed")
    /\ Log(calls[p].id, "CLOSED")
    /\ Return(p)
    /\ UNCHANGED <<alerts, outbox, now, made, crashes, closings>>

\* After the event: the next row of the loop, the operator's note, or done.
LogClosed(p) ==
    LET a == calls[p].id IN
    /\ At(p, "logClosed")
    /\ \/ Gone(a) /\ Throw(p)
       \/ /\ ~Gone(a)
          /\ Log(a, "CLOSED")
          /\ \/ calls[p].todo # {} /\ Goto(p, [calls[p] EXCEPT !.step = "write", !.id = NoAlert])
             \/ calls[p].todo = {} /\ Return(p)
             \/ calls[p].kind = "close" /\ Goto(p, [calls[p] EXCEPT !.step = "logNote"])
          /\ UNCHANGED <<alerts, outbox, now, made, crashes, closings>>

-----------------------------------------------------------------------------
(* Operators *)

\* close(): findUnique and its two refusals, then the update of CloseWrite.
CloseByHand(p) ==
    /\ p \in Operators
    /\ \E a \in AlertId :
         /\ IsOpen(a)
         /\ Begin(p, [Idle EXCEPT !.step = "write", !.kind = "close",
                                  !.todo = {a}, !.at = now])

AddNote(p) ==
    /\ p \in Operators
    /\ \E a \in AlertId :
         /\ IsStored(a)
         /\ Begin(p, [Idle EXCEPT !.step = "logNote", !.kind = "note", !.id = a])

LogNote(p) ==
    LET a == calls[p].id IN
    /\ At(p, "logNote")
    /\ \/ Gone(a) /\ Throw(p)
       \/ /\ ~Gone(a)
          /\ Log(a, "NOTE")
          /\ Return(p)
          /\ UNCHANGED <<alerts, outbox, now, made, crashes, closings>>

AcknowledgeBegin(p) ==
    /\ p \in Ackers
    /\ \E a \in AlertId :
         /\ IsOpen(a)
         /\ Begin(p, [Idle EXCEPT !.step = "write", !.kind = "acknowledge", !.id = a,
                                  !.seen = closings[a]])

Acknowledge(p) ==
    LET a == calls[p].id IN
    /\ At(p, "write")
    /\ calls[p].kind = "acknowledge"
    /\ \/ Gone(a) /\ Throw(p)
       \/ /\ ~Gone(a)
          /\ alerts' = [alerts EXCEPT ![a].acknowledged = TRUE, ![a].status = "ACTIVE"]
          /\ Goto(p, [calls[p] EXCEPT !.step = "logAcknowledged"])
          /\ UNCHANGED <<events, outbox, now, made, crashes, closings>>

LogAcknowledged(p) ==
    LET a == calls[p].id IN
    /\ At(p, "logAcknowledged")
    /\ \/ Gone(a) /\ Throw(p)
       \/ /\ ~Gone(a)
          /\ Log(a, "ACKNOWLEDGED")
          /\ Return(p)
          /\ UNCHANGED <<alerts, outbox, now, made, crashes, closings>>

-----------------------------------------------------------------------------
(* onResourceDeleted(): every row of the resource, open or not *)

DeleteBegin(p) ==
    /\ p \in Deleters
    /\ \E F \in Wheres :
         Begin(p, [Idle EXCEPT !.step = "find", !.kind = "delete", !.where = F])

FindToDelete(p) ==
    LET todo == Selected(calls[p].where) IN
    /\ At(p, "find")
    /\ calls[p].kind = "delete"
    /\ IF todo = {}
         THEN Return(p)
         ELSE Goto(p, [calls[p] EXCEPT !.step = "delete", !.todo = todo, !.live = Open(todo)])
    /\ UNCHANGED <<alerts, events, outbox, now, made, crashes, closings>>

\* Next row of the loop: a CLOSED event first if the row was open when read.
DeleteNext(p) ==
    /\ At(p, "delete")
    /\ calls[p].id = NoAlert
    /\ \E a \in calls[p].todo :
         \/ Gone(a) /\ Throw(p)
         \/ /\ ~Gone(a)
            /\ IF a \in calls[p].live THEN Log(a, "CLOSED") ELSE UNCHANGED events
            /\ Goto(p, [calls[p] EXCEPT !.step = "logRemoved", !.id = a, !.todo = @ \ {a}])
            /\ UNCHANGED <<alerts, outbox, now, made, crashes, closings>>

LogRemoved(p) ==
    LET a == calls[p].id IN
    /\ At(p, "logRemoved")
    /\ \/ Gone(a) /\ Throw(p)
       \/ /\ ~Gone(a)
          /\ Log(a, "RESOURCE_DELETED")
          /\ Goto(p, [calls[p] EXCEPT !.step = "delete"])
          /\ UNCHANGED <<alerts, outbox, now, made, crashes, closings>>

\* The snapshot on the events and the delete; the events outlive the row.
DeleteRow(p) ==
    LET a == calls[p].id IN
    /\ At(p, "delete")
    /\ a # NoAlert
    /\ \/ Gone(a) /\ Throw(p)
       \/ /\ ~Gone(a)
          /\ alerts' = [alerts EXCEPT ![a].status = "DELETED"]
          /\ IF calls[p].todo = {}
               THEN Return(p)
               ELSE Goto(p, [calls[p] EXCEPT !.id = NoAlert])
          /\ UNCHANGED <<events, outbox, now, made, crashes, closings>>

-----------------------------------------------------------------------------
(* Time, restarts and the specification *)

Tick ==
    /\ now < MaxTime
    /\ now' = now + 1
    /\ UNCHANGED <<alerts, events, outbox, calls, made, crashes, closings>>

\* A restart of the backend loses the calls in flight and keeps the tables.
Crash ==
    /\ crashes < MaxCrashes
    /\ \E p \in Slots : ~At(p, "idle")
    /\ crashes' = crashes + 1
    /\ calls' = [p \in Slots |-> Idle]
    /\ UNCHANGED <<alerts, events, outbox, now, made, closings>>

BeginCall(p) ==
    \/ RaiseBegin(p) \/ ResolveBegin(p) \/ MigrateBegin(p) \/ CloseByHand(p)
    \/ AddNote(p) \/ AcknowledgeBegin(p) \/ DeleteBegin(p)

Continue(p) ==
    \/ FindOpen(p) \/ Refresh(p) \/ FindClosed(p) \/ Reopen(p) \/ Insert(p)
    \/ LogReopened(p) \/ LogCreated(p)
    \/ FindToClose(p) \/ FindPending(p) \/ CloseWrite(p) \/ LogClosed(p)
    \/ LogNote(p) \/ Acknowledge(p) \/ LogAcknowledged(p)
    \/ FindToDelete(p) \/ DeleteNext(p) \/ LogRemoved(p) \/ DeleteRow(p)

Next == (\E p \in Slots : BeginCall(p) \/ Continue(p)) \/ Tick \/ Crash

Spec == Init /\ [][Next]_vars

\* The event loop runs the continuation of every settled await.
FairSpec == Spec /\ \A p \in Slots : WF_vars(Continue(p))

-----------------------------------------------------------------------------
(* Properties *)

TypeOK ==
    /\ alerts \in [AlertId -> Row]
    /\ events \in [AlertId -> [Action -> Nat]]
    /\ outbox \subseteq [id: AlertId, trigger: {"created", "occurrence"}, occ: Nat]
    /\ calls \in [Slots -> Call]
    /\ now \in 1..MaxTime
    /\ made \in 0..MaxCalls
    /\ crashes \in 0..MaxCrashes
    /\ closings \in [AlertId -> Nat]

\* However the calls interleave, a closed alert of this version of the service
\* carries its closing time and the resolved flag: the availability report and
\* the "newest closed row" query of create() read them.
ClosedIsStamped ==
    \A a \in AlertId :
        alerts[a].status = "CLOSED" /\ alerts[a].hashed
            => alerts[a].resolved /\ alerts[a].closedAt # 0

\* An incident has at most one alert row, open or closed: create() refreshes
\* or reopens the row it has and inserts only when there is none.
OneRowPerIncident == OneHashedRowEach

Writers(a, s) == {p \in Slots : At(p, s) /\ calls[p].id = a}

\* The history is complete: every write that closes an alert is followed by its
\* CLOSED event, and every new occurrence by its REOPENED event, except the ones
\* a restart cut off: at most one per slot and restart.
TransitionsLogged ==
    \A a \in AlertId :
        LET lost(step) == Cardinality(Writers(a, step)) + crashes * Cardinality(Slots) IN
        /\ ~Gone(a) => closings[a] <= events[a]["CLOSED"] + lost("logClosed")
        /\ IsStored(a) => alerts[a].occurrenceCount
                              <= 1 + events[a]["REOPENED"] + lost("logReopened")

\* "manual close must stick until a newer failure", however the handlers race:
\* a closed alert comes back only by a create() whose incident began after the
\* closing, or by a create() or an acknowledgement that read the row before
\* the closing was written.  The code has no guard against those two: the
\* comment on the query of create() holds up to that window and no further.
CloseSticks ==
    [][\A a \in AlertId :
         alerts[a].status = "CLOSED" /\ alerts'[a].status = "ACTIVE"
         => \E p \in Slots :
              /\ calls[p].id = a /\ calls'[p] # calls[p]
              /\ \/ calls[p].kind = "raise" /\ ~Sticks(alerts[a], calls[p].since)
                 \/ calls[p].kind \in {"raise", "acknowledge"} /\ closings[a] # calls[p].seen]_vars

\* Every row an automatic closing found open is closed by its loop, whatever
\* the other handlers do to it meanwhile; only a restart, or the removal of a
\* row, cuts the loop short.
FoundIsClosed ==
    \A p \in Closers, a \in AlertId :
        (a \in calls[p].todo /\ calls[p].kind = "resolve")
            ~> (alerts[a].status = "CLOSED" \/ crashes > 0 \/ \E b \in AlertId : Gone(b))

-----------------------------------------------------------------------------
(* The rows as incidents *)

RowsOf(f) == Matching({f})
PhaseOf(f) == CASE RowsOf(f) = {} -> "none"
                [] Open(RowsOf(f)) # {} -> "open"
                [] OTHER -> "closed"
SilencedOf(f) == \E a \in RowsOf(f) : alerts[a].status = "ACTIVE" /\ alerts[a].acknowledged
OccurrencesOf(f) == IF RowsOf(f) = {} THEN 0
                    ELSE alerts[CHOOSE a \in RowsOf(f) : TRUE].occurrenceCount

Incidents == INSTANCE Incident WITH
    phase <- [f \in Fingerprint |-> PhaseOf(f)],
    silenced <- [f \in Fingerprint |-> SilencedOf(f)],
    occurrences <- [f \in Fingerprint |-> OccurrencesOf(f)]

\* One call at a time, restarts included, the rows behave as incidents.
ImplementsIncident == Incidents!IncidentSpec
=============================================================================
