# Havet Supervision: a verification project in TLA+

Havet Supervision watches servers, websites and Proxmox backups, and audits the
security posture of websites. It keeps *alerts*, one row per incident, opened and
closed by many independent handlers; it keeps accounts, and shows everything on a
console. This project models the parts of it whose correctness depends on order:
of awaits, cron ticks, pushes, threads, restarts. It also models the pure
computations that turn what was measured into figures and findings.

Sources are named relative to the repository: `backend/…` (NestJS, PostgreSQL
through Prisma), `services/websec-bridge` and `services/websec-audit` (Python),
`agent/` (Go), `frontend/` (Next.js).

## 1. The system

| Component | State it keeps | Operations | Correct when |
|---|---|---|---|
| Alert service `backend/src/alerts` | `Alert`, `AlertEvent` rows | `create`, `onIssueResolved`, `forceClose*`, `autoClose*`, `close`, `acknowledge`, `addNote`, `onResourceDeleted`, `migrateLegacyStatuses` | one row per incident; a manual close and an acknowledgement last; history and stamps agree with the rows |
| Website monitoring `backend/src/monitoring`, `websites` | `Website`, `WebsiteCheck` rows | minute cron, probe, enable/disable, remove | alerts need N consecutive checks; an outage or a recovery that lasts always wins |
| Server health `backend/src/agent`, `monitoring`, `servers` | `Server`, `ServerMetric` rows | `POST /agent/metrics`, `POST /agent/heartbeat`, heartbeat cron, remove | silence is alerted, reporting ends it, a steady server is never accused |
| Proxmox backups `agent.service.ts` | `ProxmoxVm`, `ProxmoxBackup` rows | evaluation on each push | failed, missing and long backups are alerted as long as they last |
| Inventory `agent.service.ts:169-357`, `websites`, `servers`, `agent/main.go` | agent-owned `Website` and `ProxmoxVm` rows, exclusions | sync, prune, edits and removals by operators, service alerts | what was removed stays out, what is on the host comes to be shown |
| Cyber audits `backend/src/cyber` | `CyberScanSchedule`, `CyberExternalTarget` rows, a flag in memory | minute cron, manual scan, target and schedule edits, purges | scans keep their distance, included targets are scanned again and again, removed ones leave no results |
| WebSec bridge `services/websec-bridge` | `_scan_state` in memory | start, status, delete | one scan at a time, its progress never goes back |
| WebSec audit `services/websec-audit` | scan runs, findings, their statuses | scan, score, save, verify, set a status, delete, prune | nothing is alleged that was not measured; what comes back is open again; an operator's decision stays |
| Accounts `backend/src/auth`, `users`, `profiles`, `permissions` | `User`, `RefreshToken`, `Profile` rows | login, second factor, refresh, invitations, profiles | accounts stay usable, a sign-in has one live token, roles follow profiles |
| Console session `frontend/src/lib/api.ts` | tokens in `localStorage`, a shared refresh | requests, retries, keep-alive | a tab never loses its session to its own refreshes |
| NOC and dashboard `backend/src/noc`, `dashboard` | none | queries | the screen follows what lasts; figures agree with the rows |
| Notifications | rules, SMTP settings | `dispatchForAlert` | every transition is handed over |
| System health, settings, audit log, seed | none, or one row | queries | — |
| Report pages, mail, command line, deployment | — | I/O, presentation | — |

How they interact. Agents push to the backend; the push handler, two crons and
the operators' requests all call the alert service, which writes the tables and
hands mails to the notifications without waiting for them. The same pushes carry
the inventory of Plesk and Proxmox hosts, which creates and deletes the rows that
operators also edit. Removing a server or a website removes its alerts and,
through `onTargetRemoved`, its audit results. The backend starts scans on the
bridge over HTTP; the bridge runs each scan in a thread, the thread feeds a pool
of workers, and workers report progress into the bridge's state under a lock.
Results live in a database of the audit library that the bridge and the audit
dashboard both write, and that the backend reads and purges through the bridge.
The NOC screen reads the rows that all of these write.

What is hard. The backend is one Node.js process: a handler runs alone until its
next `await`, then any other handler may run. Hardly any two statements share a
transaction. Crons are not re-entrant-safe by themselves: `checkWebsites` may
overlap itself, `runScheduledScans` protects itself by a flag. The push handler
works on the `Server` row its guard read, crons on the rows they read when they
started, a Plesk sync on the exclusions of its start. An agent gives up on a push
after 30 seconds and sends another while the first goes on. Containers restart
(`restart: unless-stopped`) and lose memory. Calls between the processes fail
before or after they took effect. `PROJECT.json` lists each hazard at the line
where it bites, with the properties that would show it.

## 2. The modules

```
Incident             what the alert service promises, per incident
Alerts               the alert service, statement by statement  -> refines Incident
AlertsProofs         TLAPS: types, invariants, history, closings; a serial one refines Incident
WebsiteMonitoring    the website cron and its alerts
WebsiteMonitoringProofs  TLAPS: types, availability alerts confirmed
Noc                  what the screens compute from the rows (operators only)
NocOverMonitoring    Noc over the rows WebsiteMonitoring writes
ServerHealth         pushes, heartbeats and the heartbeat cron
ServerHealthProofs   TLAPS: types, no steady server accused, recoveries confirmed
ProxmoxBackups       the evaluation of vzdump jobs
ProxmoxBackupsProofs TLAPS: types, closed failures stay closed
Inventory            sites, guests and services reported by agents
InventoryProofs      TLAPS: types, one row per guest, sites by hand spared, removals last
CyberScans           scheduler + bridge + worker pool + purges
CyberScansProofs     TLAPS: types, idle bridge clean, scans keep their distance
Accounts             sign-in, tokens, second factor, invitations, profiles
BrowserSession       the tabs of a browser, composed with Accounts
AccountsProofs       TLAPS: tokens rotate, second factor, roles; what one tab keeps
Scanners             what each check reports of a site (operators only)
Scoring              findings and controls from the reports (operators only)
AuditStore           runs, findings marked fixed, statuses, over Scanners and Scoring
AuditStoreProofs     TLAPS: honesty of every check, the properties of AuditStore
MC*                  instances for TLC
```

The monitoring modules see the alert service one call per step, as a set of open
titles; `Alerts` looks inside those calls. That split is what keeps each module
checkable, and what it loses is named below: an interleaving *inside* an alert
call with a second handler of the same incident is examined in `Alerts` only.

Modules with a variable `world` hold several small instances in one run: the
initial state picks a *world* (which answers may occur, what operators may ask
for, how many ticks or pushes may overlap) and no action changes it. Each
world is a question small enough to explore fully.

### Incident, Alerts

`Incident` has three functions over fingerprints: a phase (none, open, closed), a
silence and a count of occurrences, and four actions.

`Alerts` has the `Alert` table (`alerts`), the counts of `AlertEvent` rows
(`events`), the mails handed over (`outbox`) and one record per call in flight
(`calls`). A *slot* is a handler; the constants say which slots run which calls.
One slot for everything is a service that handles one call at a time, two slots
race. Each `await` on the database is one action:

| Code | Actions |
|---|---|
| `create` (`alerts.service.ts:184-309`) | `RaiseBegin`, `FindOpen`, `Refresh`, `FindClosed`, `Reopen`, `Insert`, `LogReopened`, `LogCreated` |
| `onIssueResolved`, `forceCloseForWebsite`, `autoCloseResolvedByTitle` | `ResolveBegin`, `FindToClose`, `CloseWrite`, `LogClosed` |
| `migrateLegacyStatuses`, by a cron of every minute and by each `getSummary` | `MigrateBegin`, `FindPending`, `CloseWrite`, `LogClosed` |
| `close`, `addNote`, `acknowledge` | `CloseByHand`, `CloseWrite`, `LogClosed`; `AddNote`, `LogNote`; `AcknowledgeBegin`, `Acknowledge`, `LogAcknowledged` |
| `onResourceDeleted` | `DeleteBegin`, `FindToDelete`, `DeleteNext`, `LogRemoved`, `DeleteRow` |
| the clock, a restart | `Tick`, `Crash` |

A statement on a row that is gone throws, and ends the call where the code does
not catch it. A fingerprint stands for title, server and website; a query on a
resource and a part of a title is the set of fingerprints it selects (`Wheres`).
The initial states are those the `alert_workflow` migration leaves: rows with the
old md5 fingerprint are never found by `create()` again, and are told apart by
`hashed`.

### WebsiteMonitoring, Noc, NocOverMonitoring

`website`, `checks` (newest rows), `open` (titles of open alerts by site),
`orphans` (open alerts whose site was deleted under them: `Alert.website` is
`SetNull` at `schema.prisma:248`), the ticks in progress with the snapshot each
works on, operators' requests, and the environment (`answer`, `cert`). A removal
deletes the alerts and then the row; a tick that raises one in between leaves an
orphan, which nothing but an operator closes. Sites are on a server, and there is
no restart here: every tick reads its sites afresh. A tick is `Minute`, then per
due site `Probe`, `RecordCheck`, `UpdateSite`, `ReadRecent` and one `CallAlerts`
per alert call, in the order of `monitoring.service.ts:57-305`. HTTP codes are
reduced to one of each class that `website-status.util.ts` tells apart (0 is no
answer), latency to "slow or not", days before expiry to the classes compared with.

`Noc` has no state: it is the status of hosts and fleet, the open alerts, the
counts, the history of a day and the availability of a month, as functions of the
rows read by `noc.service.ts`, and the counts of `dashboard.service.ts`. Null is
kept as null: a site without a stored code is in no list that compares codes.
`NocOverMonitoring` instantiates it with the rows of `WebsiteMonitoring`, so that
a property can speak of the screen after a history of checks. Its alerts carry the
server of their site, as `create()` writes it: an orphan has a server and no site,
and so counts for the host (`noc.service.ts:63`).

### ServerHealth

`server` (status, time since `lastSeenAt`), `metrics` (length of the chain of
close heartbeats, age of the newest), `open`, and the push, cron tick and request
in progress. `PushBegin` is the guard's read; `RecordMetrics`, `ReadHeartbeats`,
`ResolveOffline`, `ResolveDegraded`, `RaiseDegraded` follow the handler;
`CronTick`, `CheckServer`, `MarkOffline`, `AlertOffline` the cron. Time is counted
in agent intervals and capped where no comparison of the code sees further.

### ProxmoxBackups

`jobs` (what happened on the host), `rows` (what the last report told), `vms`,
`ages` (which jobs are past 6 h, 48 h, 7 days), `alerts`, and the `push` in
progress with the alert calls it has left, in groups: those of one job after the
other, those for labels with no long job, those for guests (`Left` drops the groups
with nothing more to call). A date is a number of jobs started by then, which keeps
every comparison of dates that the code makes.

### Inventory

`host` is what there is on the machine and what of it can be read; `Push` is what
`collectMetrics` of the agent sends of it (an inventory that cannot be read is left
out, a storage that hangs is skipped for a while). A push then takes the steps of
the handler: `ReadExclusions`, and per site `FindSite`, `RenameSite`, `CreateSite`;
`ListAgentSites`, `PruneSite`; `ServiceAlert`; on a Proxmox host `UpsertVm`,
`VmMetric`, `DeleteOtherVms`, `UpsertBackup`. Operators enter, edit and remove
sites (`RemoveSite`, `WriteExclusions`, `DeleteSite`), remove and re-create the
server. A statement on a row deleted meanwhile throws and ends the push (`Throw`).
Titles of service alerts are kept as words, since the code looks for one inside
another. `remembered` is history: the removed items whose exclusion was written and
not overwritten by another removal that had read the list before, which is the
update that `websites.service.ts:91-100` may lose with two operators. A `steady`
world is a host whose sites do not change. On a Proxmox host the rows are guests,
which no operator edits (`WorldsAssumption`); that an operator gives a site to
another server is left out.

### CyberScans

`targets`, `schedule`, the tick flag, ticks and requests in progress, the orphan
list of a running sync, and on the other side the bridge (`scan`), the pool
(`work`) and the saved `results`. Ticks go through `Minute`, `TickStatus`,
`TickCollect`, `TickPost`, `TickRecord`; the bridge through `StartScan`, `PickUp`,
`SiteStart`, `Scanned`, `SiteDone`, `Save`, `Finish`. A call may fail before or
after it took effect. An exception of the scan thread may come before the pool,
while the sites are handed to it, between two of them and after all (`Abort`); the
scan then ends when the workers have (`PoolLeft`: leaving the pool waits for them).
The clock may be set back (`Elapse(shift)`, by `Hour`): the times of that hour come
again, `lastDailySlot` remembers one of them, so one daily time in that hour is
scanned once and two are scanned twice each.

### Accounts, BrowserSession

`user`, `profile` and `session` are the tables; `held` is what persons hold (links
received by mail, pending tokens, the secret in their authenticator). A request is
one action that reads and tests, and leaves the list of its writes in `call`; each
`Statement` is one awaited write, carrying the values computed when the rows were
read. The clock expires locks, invitations and tokens; `Restart` ends every call
in flight. `crossed` remembers which promises two overlapping calls, or a call cut
short, have voided: the code has no transaction that would keep them, so the
properties speak of the calls that do not overlap, and say so.

`BrowserSession` adds `localStorage` (`stored`), the refresh a tab awaits
(`inFlight`) and its requests (`fetching`); its refreshes are `RefreshToken` calls
in the server's slots. An answer may be lost on the way in either direction.

### Scanners, Scoring, AuditStore

A site is a condition: what is true of it (`traits`), who answers (the application,
an interstitial that can be passed, a challenge, nobody), what can be found wrong
with that challenge (`front`), what the site answers for a path it does not have,
and which requests fail this time (`lost`). `Scanners` gives what each check of
`services/websec-audit/scanners` reports of it; Nuclei and ZAP talk to whatever
answers, and report the `front` of a challenge as the site's own. `Scoring` gives
the findings the rubrics make of a report, the penalties with the caps beyond which
findings are dropped, the filter by confidence, and which controls are held to be
met. `AuditStore` has the saved `runs`, the numbers of the runs of `others` sites,
the `ledger` of statuses by finding, and a `job` per auditor (the bridge and the
dashboard share the database): `StartScan`, `ScanTarget`, `SaveRun`, `VerifyRead`,
`VerifyWrite`, `Prune`, `Finish`, and the failures of each; `SetFindingStatus`,
`DeleteSiteResults`, `RestartDashboard`. The run is committed before
`_auto_verify_fixes` reads, and the rows it reads are committed later. Pruning
counts the runs of every site, as `prune_history` does, and may go by age as well:
dates are reduced to a cutoff among the run numbers. `missed` is history: the
findings that came in a run which no verification compared in its turn.

## 3. The runs

Every run is small on purpose. Each bound was raised until the case it is meant
for happened, and for every property the run catches at least one plausible bug
of the code: those are the definitions commented *Mutant* in the modules.

| Run | Instance | Shows |
|---|---|---|
| `alerts_serial` | 2 incidents, 2 ids, one slot, 4 calls, 1 restart | one call at a time, restarts included: one row per incident, and the service implements `Incident` |
| `alerts_race` | 1 incident, 2 ids, two slots that run anything, 3 calls, 1 restart | closed rows stay stamped, every transition has its event but for those a restart cut off, a closing loop closes all it found, and a closed alert comes back only for a newer incident or by a call that had read it before it was closed |
| `web` | 1 site; worlds of one tick with an operator (answers vary, or certificates do), and of two ticks that overlap | alerts wait for the confirmed streaks, what lasts wins, certificate alerts follow the certificate, its last day included, and the NOC screen follows what lasts, alerts of removed sites included |
| `servers` | 1 server, pushes and heartbeats, one cron, an operator, 1 restart | silence and load alerted, reporting ends it, steady servers never accused |
| `proxmox` | 1 VM and the unnamed one, 2 jobs, manual closes | alerts appear, end and stay closed as they should |
| `proxmox_failure_hidden` | violation, 3 jobs | failure, success, failure: the last failure is not alerted |
| `cyber` | 2 sites, 1 worker, two daily times and an interval, clocks set back, an operator, 1 failure, exception or restart | scans keep their distance, a bridge that is free is idle, targets are scanned again and again, orphans purged |
| `accounts` | 1 user, 2 profiles, 2 slots, 3 tokens, 2 invitations, 1 restart, 1 tab; worlds for invitations, the second factor, sessions, profiles and the browser | accounts stay usable, a sign-in keeps one token, roles follow profiles, invitations do not stay open, a tab keeps its session |
| `inventory` | 2 items, 4 rows, 2 pushes, 2 operators; eight worlds, of a Plesk or a Proxmox host | a removed site stays out unless another removal overwrote its exclusion, one entered by hand is spared, and what is on the host comes to be shown, pushes overlapping or not |
| `inventory_services` | violation | a service that runs again keeps its alert |
| `audit` | 2 auditors, 3 runs (4 with other sites), 1 kept; worlds where the site changes, is audited between other sites or has its runs grow old, and one for every condition between the checks and the site | nothing is alleged but the three named mistakes, what comes back is open again unless its verification was lost, overtaken or had nothing to compare with, decisions stay unless read before they were made |
| `audit_fixed` | violation | a finding that is still true is recorded as fixed |

Runs marked *violation* are disagreements between a document or a comment of the
repository and the code; `PROJECT.json` quotes both under `findings`.

`MCWebsiteMonitoring` also checks the pure operators of `Noc` as assumptions that
TLC evaluates over bounded inputs: the downtime of a set of intervals against a
count of the minutes in any of them, the merging of intervals against a reference
definition, the bounds of an availability, the counts, and the history of a day.

Bounds and why they are enough for what is asked:

* Two fingerprints let a `Wheres` query select more than one row; two ids let a
  second row for the same incident appear, which is what `OneRowPerIncident`
  excludes. Three calls are one that reads, one that interferes, one that
  follows. `Tick` gives closings and incident starts an order; two dates are
  enough for before, at and after.
* Streaks of 2 in `web` (3 in the code) are the least where a streak can be
  broken in its middle by the other tick.
* In `servers`, `MaxGap = 1`, `OfflineAfter = 2`, `AlertAfter = 4` keep the order
  of the code's 2.5, 5 and 7 minutes against one push a minute, and `RecoverStreak`
  is the code's 3. `MaxGap + MaxTickAge <= OfflineAfter` is an assumption (2.5
  minutes of slack in the code): a cron tick that works on its snapshot for longer
  is what `SteadyServerNotAccused` does not survive.
* Two jobs give failure-then-success and success-then-failure; the violation needs
  three.
* In `cyber` a day of 2 minutes, both of them daily times, an interval of 1 and a
  clock set back by 2 give every meeting of the daily and interval triggers, and
  the hour in which two daily times come again; one worker and two sites leave a
  site waiting while the other is at work. `Steady` are targets the operators leave
  alone, so that the liveness properties have something that stays. The tick slots
  are two although the flag keeps them apart, otherwise the flag would not be
  tested.
* In `accounts` three tokens are one sign-in with two rotations, or two sign-ins;
  two invitations are one and its replacement; two failures before the lock (five
  in the code) keep one that counts and one that locks.
* In `inventory` two host names let an edit turn one site into the other, and four
  row ids are what two overlapping pushes can create of two sites. Two operators are
  two removals that overlap, on a host that keeps its sites.
* In `audit` three runs are a finding that appears, goes and comes back; one run
  kept means that pruning happens in each of them, and four runs that one of
  another site comes between two of this one. Worlds in which only the messages
  change have one auditor, the dashboard.

`CHECK_DEADLOCK FALSE` is used where calls, tokens or runs are bounded and a
system nobody calls any more is not stuck: the two alert runs, `accounts` and the
two audit runs.

Symmetry is used in `alerts_serial` only (fresh ids, fingerprints): safety
properties, and no action names one of them.

Fairness. `WF` on the continuation of each await or call: Node.js runs every
settled continuation, calls time out. `WF` on the crons: Nest fires them every
minute as long as the process lives. `WF` on time in `ServerHealth` and
`CyberScans`, and on the daily certificate check. On worker threads: scanners
have time-outs. In `ProxmoxBackups` and `Inventory` on pushes, because the
properties there are about a host that is up; in `ServerHealth` not on pushes (an
agent may go silent), only on the steps of one that arrived. In `Accounts`, `SF` on
the pages of an invited person, who tries again until the page answers: that is
the assumption of `InvitationLeadsIn`, not a fact of the code. Never on operators,
failures or restarts. `OrphansArePurged` assumes, in the property itself, that the
overview page is opened from time to time: nothing else starts that sync.
`AuditStore` has safety properties only and no fairness.

## 4. The proofs

`AlertsProofs` proves, for every set of ids, fingerprints, handlers and queries
and every bound, from the assumptions `Alerts` names (`NoAlert` is no id,
`Upgraded` and `Wheres` are of their kind, the bounds are numbers, slots are
finitely many):

* `TypeCorrect`: `Spec => []TypeOK`. `TypeOK` is not inductive alone: a call
  about to write a row must hold a row, or the write is to no row. The invariant
  is `TypeInv == TypeOK /\ CallsHoldRows`, where `CallsHoldRows` says so for every
  step that writes. One lemma per action.
* `ClosedAlwaysStamped`: `Spec => []ClosedIsStamped`, under *any* interleaving of
  handlers. Its invariant `StampInv` says the same of every row and adds
  `StampReady`: a call that will close with a date it read earlier holds one that
  is not null.
* `OneRowWithOneRaiser`: with at most one handler that raises, and none that
  acknowledges (`OneRaiser`), `OneRowPerIncident` holds, however many handlers
  close, remove or migrate. The invariant `OneRowInv` says what a raising call
  still knows after its reads: that there is no row, or no open one, stays true
  until it writes, since only a raising call inserts and only it or a late
  acknowledgement brings a row back to life. With two raisers the property is
  false: nothing in the schema forbids the second row, and the code relies on
  crons and pushes not meeting.
* `EveryTransitionLogged`: `Spec => []TransitionsLogged`, under any interleaving.
  The invariant `LogInv` counts, for every row that still exists, its closings and
  occurrences against its events and the slots about to log one (`Lost`); a restart
  adds all the slots to what may be missing, every other step moves one from
  "about to be logged" to "logged" or leaves the counts alone.
* `SerialImplementsIncident`: with one call at a time (`Serial`: at most one slot,
  as in the run `alerts_serial`), `Spec => ImplementsIncident`: each step maps to
  a step of `Incident` on one fingerprint, or to a stutter. The invariant
  `SerialInv` says that a fingerprint has at most one row (`OneHashedRowEach`) and
  what a call in hand knows (`Knows`): what it read still holds when it writes.
  Restarts between two statements are included.
* `OneRowWhenSerial`: from the same invariant, `OneRowPerIncident` also with
  acknowledgements.
* `ClosesStick`: `Spec => CloseSticks`, under *any* interleaving. A closed alert
  comes back only by a `create()` whose incident began after the closing, or by a
  `create()` or an acknowledgement that had read the row before the closing was
  written. Each call remembers how often its row had been closed when it read it
  (`seen`, history). The invariant `SeenInv` says that a call about to refresh,
  acknowledge or reopen holds a count no greater than the present one, and that as
  long as they are equal the row is still as the code found it: not closed, or
  closed with a date that lets this incident reopen it.

`AuditStoreProofs` proves, for every site (its traits need not be those the checks
know), every set of failed requests, any auditors, worlds and number of kept runs,
`KeepRuns = 0` included, from `AuditorsAssumption` (the dashboard is an auditor),
`KeepAssumption` and `WorldsAssumption` (the auditors of a world are auditors, its
bounds are numbers):

* `ScoreSiteHonest`: whichever checks ran and whatever confidence is asked for, the
  result names as exposed only what is true of the site or one of the three mistakes
  that `Mistaken` lists, and holds a control to be met or not only where the check
  behind it got through (`Measured`). One lemma per check says that its report names
  only what was seen; lemmas on the rubrics say that naming, charging with caps and
  filtering change no claim.
* `NothingIsAlleged`: `Spec => []NothingAlleged`. The invariant `IInv` carries that
  of the result from the scan to the save (`ResultHonest`, per auditor), beside the
  shape of the store and what a verifier is about to write (`PlanSound`).
* `ManualStatusIsKept`: `Spec => ManualStatusKept`, from the same invariant, without
  any case left out: an operator's status is changed by an operator, with the
  deletion of the site, or by a verification that had read the row before he decided
  (`Overtaken`), and this one writes what its own scan saw. `PlanSound` says that a
  plan never has a row that was an operator's when it was read, calls fixed only
  what the scan did not see, and open only what it saw.
* `TypeCorrect`: `TypeInv` adds to `IInv` and `TypeOK` that the runs saved and the
  auditors that have a scan or a save in hand are no more than the scans started
  (`Counted`): a save is not guarded by the bound, its scan was.
* `ReopenedWhenBack`: `Spec => []FixedReopens`. The invariant `ReopenInv` rests on
  `Turns`: pending verifications have numbers of their own (`Numbered`, `Distinct`)
  and carry the findings of their run as long as it is kept (`Carried`); retention
  never removes a run and keeps an older one (`Kept`); what a verification that
  overtook an older one has seen is among the `missed` (`Overtaking`); and a
  finding of the newest run that has been verified, which a verifier once fixed, is
  missed or about to be reopened (`TopOpens`). It rests on `Coherent` too: whether
  a finding is a remark goes with its code, for every check and every site, so no
  finding can escape the comparison of keys by having been a remark before
  (`ScoreSiteCoherent`).

`CyberScansProofs` proves, for any sites, ticks, operators, workers, interval,
times of day and bound on failures, from `BoundsAssumption`:

* `TypeCorrect`: `TypeOK` is inductive as it stands; one lemma per action.
* `IdleBridgeIsClean`: `Spec => []IdleBridgeIsIdle`, exceptions of the scan thread
  at any moment included. The invariant `PoolInv` ties the progress the bridge
  reports of a site to what its worker has come to (`Agrees`), and the pool to the
  stage of the scan: workers are at work only while the scan goes on, or while an
  exception on its way out waits for them. `SettledForGood` follows from the same
  invariant: a worker that can still send an event has no settled site.
* `DistanceKept`: `Spec => ScansKeepDistance`, for clocks set back by any number of
  minutes up to a day and any set of daily times. `DistanceInv` says that the flag
  keeps ticks apart (`TicksApart`) and, as long as no call has failed and nothing
  was restarted, that a tick on its way still has the reason it was fired for
  (`Due`) and that the row knows of every scan but the one about to be recorded
  (`Known`): what it remembers of the daily times is the last slot that was
  scanned, no more.

`ServerHealthProofs` proves, for any servers, ticks, operators, restarts and
every threshold that `ThresholdsAssumption` allows:

* `TypeCorrect`: types of the ticks need `Grounds`, that a tick about to mark or
  alert has a server in hand, so both are proved together (`HealthInvariant`).
* `SteadyNeverAccused`: `Spec => SteadyServerNotAccused`, under one hypothesis
  more, `Prompt == MaxTickAge + 1 < RecoverStreak`: a tick is over before a
  silent server can have sent the metrics of a whole recovery (in the run a tick
  takes one interval and a recovery three metrics). The invariant `HealthInv`
  says that a metric is never younger than the silence (`Punctual`) and that a
  server which was silent when a tick read its row has since sent at most one
  metric, and one for each minute of the tick (`Late`). An accused server was
  silent (`Grounds`), so its chain is short.
* `RecoveryAlwaysConfirmed`: `Spec => RecoveryConfirmed`. Between the count and
  the resolution only a removal shortens a chain, and then the row is gone and
  nothing is resolved (`Streak`).

`WebsiteMonitoringProofs` proves, for any sites, ticks, operators, worlds and
streak lengths, from the assumptions of the module (`TicksAssumption`: a process
has finitely many ticks in hand, so that "one tick" can be counted):

* `TypeCorrect`: `Spec => []TypeOK`, where `TypeOK` also says that only existing
  sites have alerts of their own and only deleted ones leave orphans. The invariant
  `TypeInv` adds that a tick which probed has a site and a verdict in hand
  (`InHand`), and a request of an operator a site (`Addressed`).
* `Confirmed`: `Spec => AvailabilityConfirmed`. The invariant `ConfirmInv` says
  that, with one tick at a time, the newest rows of a site still bear out what
  the tick is about to call (`BorneOut`), or the site is gone: operators remove
  rows of checks only with their site.

`ProxmoxBackupsProofs` proves, for any guests (finitely many, `VmAssumption`: they
are those of one host), overlapping labels, alerts that operators close and number
of jobs:

* `TypeCorrect`: `Spec => []TypeOK`. `TypeOK` is not inductive alone: a push that
  is calling must have a call to make. `PushInv` adds `PlanGrounded`.
* `ClosingsStick`: `Spec => ClosedFailureStaysClosed`. `PlanGrounded` says that a
  planned call which raises a failure carries the start of a job that is in the
  table, failed, and of that guest: the table changes only before the next
  evaluation, and the plan is gone by then. What remains is that `create()`
  compares that start with the closing.

`InventoryProofs` proves, for any items, rows, operators, worlds and any number of
pushes that overlap, from the assumptions of the module (there is an item; guests
are entered and removed by nobody):

* `TypeCorrect`: `Spec => []TypeOK`, with the one row per guest that `TypeOK` asks
  for. `InventoryInv` says what a push or a request holds for its next statement,
  and that a push only takes the steps of its host's profile (`Sound`): a push
  inserts a site without looking again, which is why it matters that only a Plesk
  host takes that step. A guest is inserted where none is found in one statement,
  so two pushes leave one row.
* `HandmadeSitesStay`: `Spec => ManualSitesSpared`. What a push is about to prune
  was the agent's when it listed it, and still is if it exists: no row changes its
  source and no id is given twice (`RowsStep`).
* `RemovedSitesStayRemoved`: `Spec => RemovedStaysRemoved`, for any number of
  operators and pushes that overlap: a sync creates no site whose exclusion was
  written when it read the list, but for one that a later write of an older list
  dropped. The invariant `Owes` says that the list on the server holds all that is
  `remembered`, that what an operator is about to write holds all that it has not
  missed, and that a push is not about to create what was remembered when it read.

`AccountsProofs` proves first four invariants of the accounts, each for `Spec`, in
which calls come as they like, and for `ConsoleSpec`, in which the tabs of a
browser make them: a step of either is an `AccountStep` (`NextIsStep`,
`ConsoleIsStep`), and each invariant is shown once for those. They hold for any
users, profiles, rights, secrets, slots, tabs and bounds.

* `AccountsTypeCorrect`: `TypeInv` says which statements a call of each operation
  may still have to run (`Writes`), so that a merge of columns leaves a row a row;
  and that the profiles of the seed stay (`Lasts`).
* `TokensRotate`: `[]OneTokenPerSignIn`. `TokenInv` says that every origin was
  drawn (`OriginsDrawn`), and until two refreshes overlap, that a sign-in issues
  the first token of its origin and a refresh revokes the one there is before it
  issues another (`Rotates`).
* `TotpStaysUsable`: `[]TotpUsable`. `TotpInv`: until two calls about it overlap,
  a call that draws a secret does so for an account with the second factor off,
  and one that turns it on does so for one whose codes match.
* `RolesFollowProfiles`: `[]RolesInSync`. `RoleInv`: until two calls about roles
  overlap, or a restart comes between a profile and its copies, a user has the
  role of its profile or a call is about to copy it (`Syncs`); a call on a profile
  is at one of five stages (`ProfileStage`), and what a call gives a user is the
  role of the profile it gives (`Assigns`).

Then, for `ConsoleSpec`:

* `SessionStays`: `OneTab => (ConsoleSpec => SessionKept)`. A refresh of the tab
  that the network did not lose fails only when its sign-in has no token left or
  its account is out. `OneTab` is one tab, and no other client that refreshes
  tokens or removes accounts where the tab works; the server restarts, and tokens
  expire, are revoked and handed out to others, as they like. `TabInv` says that
  a refresh in hand is the one the tab awaits (`Alone`), and that it has its token
  or is about to (`Answered`); that the token a call names is new (`Named`); and
  that what is left of the tab's sign-in is the token it stores or the one its
  refresh brings (`Kept`). TLC confirmed `TabInv` first, for a tab beside calls
  that sign in and out and set the second factor up. With two tabs the
  property is false: they share the stored tokens, and not the refresh in flight.

Only model-checked: every liveness property, `FoundIsClosed` (a leads-to) among
them; and everything of the modules not named above. Liveness and `ENABLED` are out
of reach of the prover. The arithmetic of `Noc` (merged intervals, downtime) is a
fold over data: induction on it is out of reach too, and TLC compares it with
reference definitions on bounded inputs.

## 5. What is not modelled

* Message texts, mail contents, percentages, layout; the pages of the console
  other than its session; the report pages, the mail and the command line of the
  audit library, its live monitor and its schedule file.
* `dispatchForAlert`: SMTP, rule matching and templates. A dispatch is one element
  of `outbox`.
* The risk rules and the overview's aggregation of `backend/src/cyber`.
* Which permission opens which page; request throttling.
* The failure of a single statement of the database other than on a row that is
  gone; a restart stands for it, since both end the call where it is.
* `batch_timeout` of `run_scans`, which the bridge never passes; discovery; port
  scans and screenshots, which score nothing.
* Settings of the schedule that change while a tick runs.
* The score, the grade and the compliance of frameworks of an audit: no property
  uses them.
* Retention from the command line of the audit library (`main.py:296-301`): the
  dashboard's and that one call the same `prune_history`.
* In `AuditStore` run ids are taken to grow: SQLite may give the id of a deleted
  newest run again. Retention by age alone is a `KeepRuns` no smaller than the
  number of runs, and `AUDIT_PRUNE_DAYS=0` a cutoff at the newest run.
* Everything listed with `not_modelled` in `PROJECT.json`: wiring, input
  validation, deployment scripts, for which there is no state to speak of.

Some comments claim more than the code keeps. The properties state what it does
keep, the runs reach the interleaving that breaks the comment, and the case is named
in the property instead of being left out of the model:

* "manual close must stick until a newer failure" (`alerts.service.ts:190-193`):
  `create()` reads the open row, an operator closes it, and the write of line 252
  makes it active again. `CloseSticks` allows that call and no other.
* "remember exclusion so the next inventory sync does not recreate them"
  (`websites.service.ts:86`): two removals read `pleskExcludedUrls`, both write it,
  and the next sync creates the site of the first again. `RemovedStaysRemoved`.
* "a human's decision is never overwritten by a scan" (`db/models.py:158-160`, also
  334-335 and 700): the verifier reads a row, an operator sets its status, and the
  commit writes the status of the scan and leaves `verified_by` as `manual`.
  `ManualStatusKept`.
* "an auto-fixed finding that reappears is re-opened" (`db/models.py:333-334`): not
  when the verification was lost, when one of a newer run ran before it, or when
  runs of other sites made `prune_history` (`db/models.py:868-880`) remove the run
  to compare with. `FixedReopens`.
* "A path is only reported when its response differs from the control"
  (`scanners/misconfig.py:23-29`): when both control requests fail, a page that
  looks like any file exposes every path. `NothingAlleged`, `Mistaken`.
* "nothing about the site's security posture may be inferred" from a mitigation
  page (`scanners/_http.py:178-180`): Nuclei and ZAP scan whatever answers and their
  findings are confirmed. `NothingAlleged`, `Mistaken`.

Observations made on the way, not turned into runs because no document says
otherwise, or because they are minor:

*Alerts and monitoring.* An outage alert stays open while its site is DEGRADED
(`monitoring.service.ts:182`); a load alert stays open when its server went OFFLINE
first (`agent.service.ts:135`). An interval of one minute gives a check every two
(`lastExternalCheckAt` is written after the probe and compared at the next tick).
An alert raised while its site is removed keeps its server and holds the host in
alarm. No expiry alert is raised on the last day of a certificate. The alert of a
VM taken out of the inventory is never closed; the prefix match on titles makes VM
10 reach the alerts of VM 100. One notification rule whose mail fails ends the loop
over the rules.

*NOC.* A site that is enabled again shows its old status until the first check. A
reopened alert keeps `createdAt`, so the downtime of its two outages counts the
time between. A site that is down and has no server makes no host critical.
`lastStatusCode` keeps its value when a probe got no answer.

*Inventory.* `Website.url` has no unique constraint: overlapping pushes create a
site twice and neither row is pruned. Nothing in the API takes an exclusion back.
The agent's sites of a removed server stay, detached, and a re-created server gets
them a second time. Renaming an agent's site, or editing its URL, is undone by the
next sync. A VM whose tags cannot be read is reported although its tag excludes it.
A sync that meets a deleted row ends its push, with the metrics saved and the
alerts not evaluated.

*Accounts.* Two failed logins at once count as one; the count is not reset when a
lock expires. A new invitation replaces the old one's hash before its mail is sent.
Signing out on the console does not revoke the token. The sign-in page takes six
digits, so a backup code of eight hexadecimal characters cannot be typed. A
refresh that fails for the network after a 401 signs the user out. Two tabs share
the stored tokens and not the refresh in flight: one of them can lose the session.
Two refreshes of one token that overlap leave two tokens, and one that overlaps a
password change survives it. Completing an invitation revokes no session.
Switching an account on or off writes back the profile that was read. The seeded
administrator's empty last name makes every update of it fail validation.

*Audit.* With `AUDIT_MIN_CONFIDENCE=confirmed`, as deployed, every finding on a
product's version is dropped and the control "no known CVEs" passes. The header and
mail-record checks count as covered when they only failed (`engine.py:613-614`
against `586-587`), so their controls pass. One failed request makes a site "down".
Messages of certificates, outages and exploited vulnerabilities vary, so each
variant is a new finding and the old one "fixed". Beyond the cap of 60 a product's
findings vanish and are marked fixed. A site whose scan raises is saved with no
finding, and everything "fixed". A verification that fails is not tried again.

*Cyber audits.* With two daily times in the hour that comes twice, each is scanned
twice: `lastDailySlot` remembers one (`cyber.service.ts:704`, `736`).

## 6. Plan

Done, most important first: `Alerts` and `Incident`, `WebsiteMonitoring`,
`ServerHealth`, `ProxmoxBackups`, `CyberScans`, `Accounts` under `BrowserSession`,
`Inventory` and the audit library, all with proofs; `Noc` without.

Next:

1. A composition of `ServerHealth` with the alert calls of `Alerts`, where a push
   and the cron raise and close the same incident statement by statement.
2. Notifications: the loop over the rules, the settings it reads and the failure
   of one mail.
3. The risk rules of `backend/src/cyber`, as operators against a reference.
