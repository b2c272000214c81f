---------------------------- MODULE ServerHealth ----------------------------
(***************************************************************************)
(* The health of the supervised servers.  An agent pushes its metrics      *)
(* about every minute (recordMetrics of backend/src/agent/agent.service.ts)*)
(* while a cron tick of backend/src/monitoring/monitoring.service.ts looks *)
(* for servers that went silent; both write the status and both call the   *)
(* alert service.  A push works on the Server row its guard read, a tick   *)
(* on the rows it read when it started.                                    *)
(*                                                                         *)
(* The clock counts in agent intervals.  The servers here are those of     *)
(* profile LINUX: what a push does more on Plesk and Proxmox hosts lies    *)
(* between RecordMetrics and ReadHeartbeats and touches other titles.      *)
(***************************************************************************)
EXTENDS Naturals, FiniteSets

CONSTANTS
    Server,         \* supervised servers
    Pingers,        \* servers for which something calls POST /agent/heartbeat
    NoServer,       \* "no server in hand"
    Crons,          \* slots for checkServerHeartbeats ticks in progress
    Operators,      \* slots for operators' requests in progress
    OfflineAfter,   \* SERVER_OFFLINE_AFTER_MS
    AlertAfter,     \* SERVER_OFFLINE_ALERT_AFTER_MS
    MaxGap,         \* HEARTBEAT_MAX_GAP_MS
    RecoverStreak,  \* ALERT_RECOVER_STREAK
    MaxTickAge,     \* longest time a cron tick takes
    MaxRestarts     \* bound on the number of restarts of the backend

ASSUME NoServerAssumption == NoServer \notin Server
ASSUME PingersAssumption == Pingers \subseteq Server
ASSUME ThresholdsAssumption ==
    /\ OfflineAfter \in Nat /\ AlertAfter \in Nat /\ OfflineAfter < AlertAfter
    /\ MaxGap \in Nat \ {0} /\ RecoverStreak \in Nat \ {0}
    /\ MaxTickAge \in Nat /\ MaxGap + MaxTickAge <= OfflineAfter
    /\ MaxRestarts \in Nat

VARIABLES
    load,       \* environment: what the next metrics of each server will show
    server,     \* the Server rows
    metrics,    \* the newest ServerMetric rows of each server
    open,       \* titles of the open alerts about each server
    pushes,     \* the recordMetrics call in progress for each server
    crons,      \* the cron ticks in progress
    requests,   \* the operators' requests in progress
    restarts    \* number of restarts (bounds the model)

vars == <<load, server, metrics, open, pushes, crons, requests, restarts>>

Status == {"UNKNOWN", "ONLINE", "DEGRADED", "OFFLINE"}
Title == {"offline", "degraded"}
Never == AlertAfter + 1         \* the silence of a null lastSeenAt

\* silence: time since lastSeenAt, counted up to AlertAfter.  metrics: the
\* length of the chain of newest rows without a long gap, and the time since
\* the newest.  seen: the silence as the tick's snapshot of lastSeenAt tells it.
IdlePush == [step |-> "idle", status |-> "UNKNOWN", previous |-> "UNKNOWN"]
IdleCron == [step |-> "idle", todo |-> {}, seen |-> [s \in Server |-> Never],
             offline |-> {}, server |-> NoServer, age |-> 0]

Init ==
    /\ load \in [Server -> {"normal", "high"}]
    /\ server = [s \in Server |-> [exists |-> TRUE, status |-> "UNKNOWN", silence |-> Never]]
    /\ metrics = [s \in Server |-> [chain |-> 0, age |-> MaxGap + 1]]
    /\ open = [s \in Server |-> {}]
    /\ pushes = [s \in Server |-> IdlePush]
    /\ crons = [c \in Crons |-> IdleCron]
    /\ requests = [o \in Operators |-> NoServer]
    /\ restarts = 0

Change(s) ==
    /\ \E l \in {"normal", "high"} \ {load[s]} : load' = [load EXCEPT ![s] = l]
    /\ UNCHANGED <<server, metrics, open, pushes, crons, requests, restarts>>

\* One agent interval goes by; a tick in progress does not outlive MaxTickAge.
Older(silence) == IF silence < AlertAfter THEN silence + 1 ELSE silence
Minute ==
    /\ \A c \in Crons : crons[c].step # "idle" => crons[c].age < MaxTickAge
    /\ server' = [s \in Server |-> [server[s] EXCEPT !.silence = Older(@)]]
    /\ metrics' = [s \in Server |-> [metrics[s] EXCEPT !.age = IF @ <= MaxGap THEN @ + 1 ELSE @]]
    /\ crons' = [c \in Crons |->
                   IF crons[c].step = "idle" THEN crons[c]
                   ELSE [crons[c] EXCEPT !.age = @ + 1,
                                         !.seen = [s \in Server |-> Older(@[s])]]]
    /\ UNCHANGED <<load, open, pushes, requests, restarts>>

-----------------------------------------------------------------------------
(* recordMetrics and heartbeat *)

AtPush(s, step) == pushes[s].step = step
GotoPush(s, step) == pushes' = [pushes EXCEPT ![s].step = step]
ReturnPush(s) == pushes' = [pushes EXCEPT ![s] = IdlePush]

DetermineStatus(l) == IF l = "high" THEN "DEGRADED" ELSE "ONLINE"

\* The guard reads the row; an agent waits for its interval between pushes.
PushBegin(s) ==
    /\ AtPush(s, "idle")
    /\ server[s].exists
    /\ metrics[s].age >= 1
    /\ pushes' = [pushes EXCEPT ![s] = [step |-> "record", status |-> DetermineStatus(load[s]),
                                        previous |-> server[s].status]]
    /\ UNCHANGED <<load, server, metrics, open, crons, requests, restarts>>

\* Mutant: the update forgets lastSeenAt.
RecordedServerUnseen(row, status) == [row EXCEPT !.status = status]
RecordedServer(row, status) == [row EXCEPT !.status = status, !.silence = 0]

\* Mutant: the query without its "take".
ChainedUncut(m) == [chain |-> IF m.age > MaxGap THEN 1 ELSE m.chain + 1, age |-> 0]

\* The new row continues the chain of metrics if it comes soon enough.
Chained(m) ==
    LET before == IF m.age > MaxGap THEN 0 ELSE m.chain IN
    [chain |-> IF before < RecoverStreak THEN before + 1 ELSE before, age |-> 0]

\* The transaction: the metric and the row together, or nothing.
RecordMetrics(s) ==
    /\ AtPush(s, "record")
    /\ \/ ~server[s].exists /\ ReturnPush(s) /\ UNCHANGED <<server, metrics>>
       \/ /\ server[s].exists
          /\ server' = [server EXCEPT ![s] = RecordedServer(@, pushes[s].status)]
          /\ metrics' = [metrics EXCEPT ![s] = Chained(@)]
          /\ GotoPush(s, IF pushes[s].status = "ONLINE" THEN "recent" ELSE "raise")
    /\ UNCHANGED <<load, open, crons, requests, restarts>>

\* Mutant: one heartbeat is enough.
HasConsecutiveHeartbeatsAtOnce(s) == metrics[s].chain >= 1
HasConsecutiveHeartbeats(s) == metrics[s].chain >= RecoverStreak

\* The last part of a push that found the server ONLINE.
AfterHeartbeats(s) ==
    IF pushes[s].previous = "DEGRADED" THEN GotoPush(s, "resolve") ELSE ReturnPush(s)

ReadHeartbeats(s) ==
    /\ AtPush(s, "recent")
    /\ IF HasConsecutiveHeartbeats(s) THEN GotoPush(s, "recover") ELSE AfterHeartbeats(s)
    /\ UNCHANGED <<load, server, metrics, open, crons, requests, restarts>>

\* onIssueResolved on a server that is gone selects nothing.
Without(s, t) == [open EXCEPT ![s] = IF server[s].exists THEN @ \ {t} ELSE @]

ResolveOffline(s) ==
    /\ AtPush(s, "recover")
    /\ open' = Without(s, "offline")
    /\ AfterHeartbeats(s)
    /\ UNCHANGED <<load, server, metrics, crons, requests, restarts>>

ResolveDegraded(s) ==
    /\ AtPush(s, "resolve")
    /\ open' = Without(s, "degraded")
    /\ ReturnPush(s)
    /\ UNCHANGED <<load, server, metrics, crons, requests, restarts>>

\* A new alert on a server that is gone violates its foreign key.
RaiseDegraded(s) ==
    /\ AtPush(s, "raise")
    /\ open' = [open EXCEPT ![s] = IF server[s].exists THEN @ \cup {"degraded"} ELSE @]
    /\ ReturnPush(s)
    /\ UNCHANGED <<load, server, metrics, crons, requests, restarts>>

\* POST /agent/heartbeat: no metric, and ONLINE whatever the row said.
Heartbeat(s) ==
    /\ s \in Pingers
    /\ server[s].exists
    /\ server' = [server EXCEPT ![s].silence = 0, ![s].status = "ONLINE"]
    /\ UNCHANGED <<load, metrics, open, pushes, crons, requests, restarts>>

-----------------------------------------------------------------------------
(* checkServerHeartbeats *)

AtCron(c, step) == crons[c].step = step
SetCron(c, t) == crons' = [crons EXCEPT ![c] = t]

\* Next server of the loop, or the end of the tick.
NextServer(t) == IF t.todo = {} THEN IdleCron ELSE [t EXCEPT !.step = "next", !.server = NoServer]

CronTick(c) ==
    LET seen == {s \in Server : server[s].exists /\ server[s].silence # Never} IN
    /\ AtCron(c, "idle")
    /\ SetCron(c, NextServer([IdleCron EXCEPT
                    !.todo = seen,
                    !.seen = [s \in Server |-> server[s].silence],
                    !.offline = {s \in seen : server[s].status = "OFFLINE"}]))
    /\ UNCHANGED <<load, server, metrics, open, pushes, requests, restarts>>

Accused(t, s) == t.seen[s] >= AlertAfter

\* Mutant: a server already OFFLINE is left alone.
CheckServerOnce(c) ==
    /\ AtCron(c, "next")
    /\ \E s \in crons[c].todo :
         LET t == [crons[c] EXCEPT !.todo = @ \ {s}, !.server = s] IN
         SetCron(c, IF t.seen[s] > OfflineAfter /\ s \notin t.offline
                    THEN [t EXCEPT !.step = "mark"] ELSE NextServer(t))
    /\ UNCHANGED <<load, server, metrics, open, pushes, requests, restarts>>

\* The clock is read in the loop, lastSeenAt and status are the snapshot's.
CheckServer(c) ==
    /\ AtCron(c, "next")
    /\ \E s \in crons[c].todo :
         LET t == [crons[c] EXCEPT !.todo = @ \ {s}, !.server = s] IN
         SetCron(c, IF t.seen[s] <= OfflineAfter THEN NextServer(t)
                    ELSE IF s \notin t.offline THEN [t EXCEPT !.step = "mark"]
                    ELSE IF Accused(t, s) THEN [t EXCEPT !.step = "alert"]
                    ELSE NextServer(t))
    /\ UNCHANGED <<load, server, metrics, open, pushes, requests, restarts>>

\* An update or an alert about a server that is gone throws, and nothing
\* catches it: the tick ends there.
MarkOffline(c) ==
    LET s == crons[c].server IN
    /\ AtCron(c, "mark")
    /\ \/ ~server[s].exists /\ SetCron(c, IdleCron) /\ UNCHANGED server
       \/ /\ server[s].exists
          /\ server' = [server EXCEPT ![s].status = "OFFLINE"]
          /\ SetCron(c, IF Accused(crons[c], s) THEN [crons[c] EXCEPT !.step = "alert"]
                        ELSE NextServer(crons[c]))
    /\ UNCHANGED <<load, metrics, open, pushes, requests, restarts>>

AlertOffline(c) ==
    LET s == crons[c].server IN
    /\ AtCron(c, "alert")
    /\ \/ ~server[s].exists /\ SetCron(c, IdleCron) /\ UNCHANGED open
       \/ /\ server[s].exists
          /\ open' = [open EXCEPT ![s] = @ \cup {"offline"}]
          /\ SetCron(c, NextServer(crons[c]))
    /\ UNCHANGED <<load, server, metrics, pushes, requests, restarts>>

-----------------------------------------------------------------------------
(* Operators, restarts and the specification *)

\* ServersService.remove(): the alerts first, then the row and, in cascade,
\* its metrics.
Remove(o) ==
    /\ requests[o] = NoServer
    /\ \E s \in Server :
         /\ server[s].exists
         /\ open' = [open EXCEPT ![s] = {}]
         /\ requests' = [requests EXCEPT ![o] = s]
    /\ UNCHANGED <<load, server, metrics, pushes, crons, restarts>>

DeleteServer(o) ==
    LET s == requests[o] IN
    /\ s # NoServer
    /\ server' = [server EXCEPT ![s].exists = FALSE]
    /\ metrics' = [metrics EXCEPT ![s].chain = 0]
    /\ requests' = [requests EXCEPT ![o] = NoServer]
    /\ UNCHANGED <<load, open, pushes, crons, restarts>>

CloseByHand(o) ==
    /\ requests[o] = NoServer
    /\ \E s \in Server, t \in Title :
         t \in open[s] /\ open' = [open EXCEPT ![s] = @ \ {t}]
    /\ UNCHANGED <<load, server, metrics, pushes, crons, requests, restarts>>

Restart ==
    /\ restarts < MaxRestarts
    /\ restarts' = restarts + 1
    /\ pushes' = [s \in Server |-> IdlePush]
    /\ crons' = [c \in Crons |-> IdleCron]
    /\ requests' = [o \in Operators |-> NoServer]
    /\ UNCHANGED <<load, server, metrics, open>>

PushStep(s) ==
    RecordMetrics(s) \/ ReadHeartbeats(s) \/ ResolveOffline(s) \/ ResolveDegraded(s) \/ RaiseDegraded(s)
CronStep(c) == CheckServer(c) \/ MarkOffline(c) \/ AlertOffline(c)

Next ==
    \/ \E s \in Server : Change(s) \/ PushBegin(s) \/ PushStep(s) \/ Heartbeat(s)
    \/ \E c \in Crons : CronTick(c) \/ CronStep(c)
    \/ \E o \in Operators : Remove(o) \/ DeleteServer(o) \/ CloseByHand(o)
    \/ Minute
    \/ Restart

Spec == Init /\ [][Next]_vars

\* Time goes by, the cron fires, and the event loop runs every continuation.
\* Agents need not push, operators need not do anything.
FairSpec ==
    /\ Spec
    /\ WF_vars(Minute)
    /\ \A s \in Server : WF_vars(PushStep(s))
    /\ \A c \in Crons : WF_vars(CronTick(c)) /\ WF_vars(CronStep(c))
    /\ \A o \in Operators : WF_vars(DeleteServer(o))

-----------------------------------------------------------------------------
(* Properties *)

PushState == [step: {"idle", "record", "recent", "recover", "resolve", "raise"},
              status: Status, previous: Status]
CronState == [step: {"idle", "next", "mark", "alert"}, todo: SUBSET Server,
              seen: [Server -> 0..Never], offline: SUBSET Server,
              server: Server \cup {NoServer}, age: 0..MaxTickAge]

TypeOK ==
    /\ load \in [Server -> {"normal", "high"}]
    /\ server \in [Server -> [exists: BOOLEAN, status: Status, silence: 0..Never]]
    /\ metrics \in [Server -> [chain: 0..RecoverStreak, age: 0..(MaxGap + 1)]]
    /\ open \in [Server -> SUBSET Title]
    /\ pushes \in [Server -> PushState]
    /\ crons \in [Crons -> CronState]
    /\ requests \in [Operators -> Server \cup {NoServer}]
    /\ restarts \in 0..MaxRestarts

Steady(s) == metrics[s].chain >= RecoverStreak /\ metrics[s].age <= MaxGap

\* "Alert only after confirmed silence": a tick never accuses a server whose
\* last heartbeats form a tight chain, whatever its snapshot said of it.
SteadyServerNotAccused ==
    [][\A s \in Server : "offline" \in open'[s] \ open[s] => ~Steady(s)]_vars

\* An outage ends only when the agent "has reported successfully several
\* times in a row", unless an operator ends it.
RecoveryConfirmed ==
    [][\A s \in Server :
         pushes'[s] # pushes[s] /\ "offline" \in open[s] \ open'[s]
             => metrics[s].chain >= RecoverStreak]_vars

\* The agent keeps pushing without a long gap.
Reporting(s) == server[s].exists /\ metrics[s].age <= MaxGap

\* Trouble that lasts is alerted, again and again if operators close the alert: a
\* server that stays silent is shown OFFLINE and has its outage alert, one that
\* reports a high load has its load alert.  A server that reports again, under a
\* normal load, ends up ONLINE for good and without outage alert, although ticks
\* with old snapshots may still be writing.
AlertsFollowReports ==
    \A s \in Server :
        /\ <>[](server[s].exists /\ server[s].silence \in (OfflineAfter + 1)..AlertAfter)
             => <>[](server[s].status = "OFFLINE") /\ []<>("offline" \in open[s])
        /\ <>[](Reporting(s) /\ load[s] = "high") => []<>("degraded" \in open[s])
        /\ <>[](Reporting(s) /\ load[s] = "normal")
             => <>[](server[s].status = "ONLINE" /\ "offline" \notin open[s])

=============================================================================
