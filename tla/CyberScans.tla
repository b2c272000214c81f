----------------------------- MODULE CyberScans -----------------------------
(***************************************************************************)
(* The web audits: the schedule, the manual scans and the purges of        *)
(* backend/src/cyber/cyber.service.ts, the bridge that runs one scan at a  *)
(* time in a thread of its own (services/websec-bridge/bridge_api.py) and  *)
(* the pool of workers behind it (run_scans and run_audit of               *)
(* services/websec-audit/core/audit.py).                                   *)
(*                                                                         *)
(* The backend and the bridge are two processes: a call of the bridge is a *)
(* step of its own, may fail, and acts on what the backend read before.    *)
(* Scores, percentages and pages of results are left out; so are the       *)
(* check events, which repeat the status that site_start has set.          *)
(***************************************************************************)
EXTENDS Naturals, FiniteSets

CONSTANTS
    Site,           \* URLs that may be targets
    Steady,         \* the ones among them that operators leave alone
    Ticks,          \* slots for runScheduledScans ticks in progress
    Operators,      \* slots for operators' requests in progress
    Workers,        \* AUDIT_WORKERS: sites scanned at the same time
    Interval,       \* intervalMinutes; 0 for none
    Day,            \* minutes of a day
    Hour,           \* minutes by which the wall clock may be set back
    DailyTimes,     \* dailyTimes
    NoSlot,         \* a daily slot that cannot come again: none, or one of a day gone by
    MaxFaults       \* bound on failed calls, exceptions of the scan and restarts

ASSUME SteadyAssumption == Steady \subseteq Site
ASSUME BoundsAssumption ==
    /\ Workers \in Nat \ {0} /\ Day \in Nat \ {0} /\ MaxFaults \in Nat
    /\ Interval \in Nat /\ DailyTimes \subseteq 0..(Day - 1)
    /\ Hour \in 1..Day /\ NoSlot \notin 0..(Day - 1)

VARIABLES
    targets,        \* Website and CyberExternalTarget rows: the inventory, and what is to scan
    schedule,       \* the CyberScanSchedule row
    clock,          \* minute of the day
    scheduleTickRunning,
    ticks,          \* the ticks in progress
    requests,       \* the operators' requests in progress
    sync,           \* the orphans that the inventory sync in progress has yet to purge
    scan,           \* _scan_state of the bridge and the thread behind it
    work,           \* the pool: what the worker of each site is doing
    results,        \* sites with rows in the audit database
    started,        \* history: minutes since a tick last started a scan, and the
                    \* last daily slot a tick started one for
    faults          \* failures so far (bounds the model)

backend == <<schedule, clock, scheduleTickRunning, ticks, started>>
bridge == <<scan, work, results>>
vars == <<targets, schedule, clock, scheduleTickRunning, ticks, requests, sync,
          scan, work, results, started, faults>>

\* A daily slot is the minute of the day, as long as that day lasts.
IdleTick == [step |-> "idle", trigger |-> "none", slot |-> NoSlot, sites |-> {}]
IdleRequest == [step |-> "idle", sites |-> {}]
IdleScan == [running |-> FALSE, stage |-> "idle", error |-> FALSE,
             status |-> [s \in Site |-> "none"]]
NoWork == [s \in Site |-> "none"]
NoStart == [since |-> Interval, slot |-> NoSlot]

Init ==
    /\ targets \in [inventory: {Site}, enabled: {E \in SUBSET Site : Steady \subseteq E}, excluded: {{}}]
    /\ schedule = [age |-> Interval, lastDailySlot |-> NoSlot]
    /\ clock = 0
    /\ scheduleTickRunning = FALSE
    /\ ticks = [p \in Ticks |-> IdleTick]
    /\ requests = [o \in Operators |-> IdleRequest]
    /\ sync = {}
    /\ scan = IdleScan /\ work = NoWork
    /\ results = {}
    /\ started = NoStart
    /\ faults = 0

Fault == faults < MaxFaults /\ faults' = faults + 1
ScanSites == {s \in Site : scan.status[s] # "none"}

-----------------------------------------------------------------------------
(* The bridge *)

\* Mutant: the flag is not tested.
FreeUnchecked == TRUE
Free == ~scan.running

\* start_scan: one scan at a time, decided and seeded under the lock; the
\* thread it starts hands the sites to the pool at once.
StartScan(S) ==
    /\ Free
    /\ scan' = [running |-> TRUE, stage |-> "sites", error |-> FALSE,
                status |-> [s \in Site |-> IF s \in S THEN "queued" ELSE "none"]]
    /\ work' = [s \in Site |-> IF s \in S THEN "waiting" ELSE "none"]

Active == {s \in Site : work[s] \in {"starting", "checking"}}

\* A worker takes a site, and pauses before it reports the start.
PickUp(s) ==
    /\ work[s] = "waiting" /\ Cardinality(Active) < Workers
    /\ work' = [work EXCEPT ![s] = "starting"]
    /\ UNCHANGED <<targets, backend, requests, sync, scan, results, faults>>

SiteStart(s) ==
    /\ work[s] = "starting"
    /\ work' = [work EXCEPT ![s] = "checking"]
    /\ scan' = [scan EXCEPT !.status[s] = "scanning"]
    /\ UNCHANGED <<targets, backend, requests, sync, results, faults>>

\* scan_site returns or raises: either way its future is done.
Scanned(s) ==
    /\ work[s] = "checking"
    /\ work' = [work EXCEPT ![s] = "ended"]
    /\ UNCHANGED <<targets, backend, requests, sync, scan, results, faults>>

\* The thread of the scan collects the futures as they end: done, or in error.
SiteDone(s) ==
    /\ scan.stage = "sites" /\ work[s] = "ended"
    /\ work' = [work EXCEPT ![s] = "collected"]
    /\ scan' = [scan EXCEPT !.status[s] = "settled"]
    /\ UNCHANGED <<targets, backend, requests, sync, results, faults>>

PoolDone == work # NoWork /\ \A s \in Site : work[s] \in {"none", "collected"}

\* save_run: sites that ended in error are saved too.
Save ==
    /\ scan.stage = "sites" /\ PoolDone
    /\ scan' = [scan EXCEPT !.stage = "saved"]
    /\ results' = results \cup ScanSites
    /\ UNCHANGED <<targets, backend, requests, sync, work, faults>>

\* An exception of the scan thread: before the pool, while it hands the sites to
\* the pool (the rest are never scanned), between two sites that it collects, in
\* save_run or after it.
Abort ==
    /\ Fault
    /\ scan.stage \in {"sites", "saved"}
    /\ \E U \in SUBSET {s \in Site : work[s] = "waiting"} :
         /\ U # {} => \A s \in Site : work[s] # "collected"
         /\ work' = [s \in Site |-> IF s \in U THEN "none" ELSE work[s]]
    /\ scan' = [scan EXCEPT !.stage = "aborted"]
    /\ UNCHANGED <<targets, backend, requests, sync, results>>

\* The pool is left only when every site it was handed has been scanned.
\* Mutant: it is shut down without waiting.
PoolLeftAtOnce == TRUE
PoolLeft == \A s \in Site : work[s] \in {"none", "ended", "collected"}

\* Mutant: the except branch leaves the flag set.
EndedIfSaved ==
    [scan EXCEPT !.running = (scan.stage = "aborted"), !.stage = "idle",
                 !.error = (scan.stage = "aborted")]
Ended == [scan EXCEPT !.running = FALSE, !.stage = "idle", !.error = (scan.stage = "aborted")]

Finish ==
    /\ \/ scan.stage = "saved"
       \/ scan.stage = "aborted" /\ PoolLeft
    /\ scan' = Ended
    /\ UNCHANGED <<targets, backend, requests, sync, work, results, faults>>

-----------------------------------------------------------------------------
(* runScheduledScans *)

Trigger(time, row) ==
    CASE time \in DailyTimes /\ row.lastDailySlot # time -> "daily"
      [] Interval > 0 /\ row.age >= Interval -> "interval"
      [] OTHER -> "none"

EndTick(p) == ticks' = [ticks EXCEPT ![p] = IdleTick] /\ scheduleTickRunning' = FALSE

\* Mutant: ticks may overlap.
MayTickAlways == TRUE
MayTick == ~scheduleTickRunning

\* Mutant: the age is not capped.
OlderUncapped(age) == age + 1
Older(age) == IF age < Interval THEN age + 1 ELSE age

\* A minute goes by, or the wall clock is set back by an hour, within the day: then
\* its times come again.  After midnight no slot of the day before does.
Midnight(shift) == clock + 1 - shift = Day
Time(shift) == (clock + 1 - shift) % Day
Kept(shift, slot) == IF Midnight(shift) THEN NoSlot ELSE slot

Elapse(shift) ==
    /\ clock' = Time(shift)
    /\ schedule' = [age |-> Older(schedule.age), lastDailySlot |-> Kept(shift, schedule.lastDailySlot)]
    /\ started' = [since |-> Older(started.since), slot |-> Kept(shift, started.slot)]

Aged(shift) == [p \in Ticks |-> [ticks[p] EXCEPT !.slot = Kept(shift, @)]]

\* The cron fires; a tick still running takes its turn away.
IdleTicks == {p \in Ticks : ticks[p].step = "idle"}
Fired(trigger) ==
    [step |-> "status", trigger |-> trigger,
     slot |-> IF trigger = "daily" THEN clock' ELSE NoSlot, sites |-> {}]

Minute ==
    \E shift \in {n \in {0, Hour} : clock + 1 >= n} :
      /\ Elapse(shift)
      /\ LET trigger == Trigger(clock', schedule') IN
           IF MayTick /\ IdleTicks # {} /\ trigger # "none"
             THEN /\ ticks' = [Aged(shift) EXCEPT ![CHOOSE p \in IdleTicks : TRUE] = Fired(trigger)]
                  /\ scheduleTickRunning' = TRUE
             ELSE ticks' = Aged(shift) /\ UNCHANGED scheduleTickRunning
      /\ UNCHANGED <<targets, requests, sync, bridge, faults>>

\* A bridge that does not answer is taken for an idle one.
TickStatus(p) ==
    /\ ticks[p].step = "status"
    /\ \/ Free /\ ticks' = [ticks EXCEPT ![p].step = "collect"]
          /\ UNCHANGED <<scheduleTickRunning, faults>>
       \/ ~Free /\ EndTick(p) /\ UNCHANGED faults
       \/ ~Free /\ Fault /\ ticks' = [ticks EXCEPT ![p].step = "collect"]
          /\ UNCHANGED scheduleTickRunning
    /\ UNCHANGED <<targets, schedule, clock, requests, sync, bridge, started>>

Included == targets.enabled \ targets.excluded

TickCollect(p) ==
    /\ ticks[p].step = "collect"
    /\ IF Included = {} THEN EndTick(p)
         ELSE /\ ticks' = [ticks EXCEPT ![p].step = "post", ![p].sites = Included]
              /\ UNCHANGED scheduleTickRunning
    /\ UNCHANGED <<targets, schedule, clock, requests, sync, bridge, started, faults>>

\* A tick for the interval leaves the last daily slot as it is.
SlotAfter(t, slot) == IF t.trigger = "daily" THEN t.slot ELSE slot
StartedBy(t) == [since |-> 0, slot |-> SlotAfter(t, started.slot)]

\* The scan starts, or is refused (409), or the call fails, before or after
\* the bridge took it.
TickPost(p) ==
    /\ ticks[p].step = "post"
    /\ \/ /\ StartScan(ticks[p].sites) /\ started' = StartedBy(ticks[p])
          /\ ticks' = [ticks EXCEPT ![p].step = "record", ![p].sites = {}]
          /\ UNCHANGED <<scheduleTickRunning, faults>>
       \/ ~Free /\ EndTick(p) /\ UNCHANGED <<scan, work, started, faults>>
       \/ Fault /\ EndTick(p) /\ UNCHANGED <<scan, work, started>>
       \/ Fault /\ StartScan(ticks[p].sites) /\ started' = StartedBy(ticks[p]) /\ EndTick(p)
    /\ UNCHANGED <<targets, schedule, clock, requests, sync, results>>

Recorded(t) == [age |-> 0, lastDailySlot |-> SlotAfter(t, schedule.lastDailySlot)]

TickRecord(p) ==
    /\ ticks[p].step = "record"
    /\ schedule' = Recorded(ticks[p])
    /\ EndTick(p)
    /\ UNCHANGED <<targets, clock, requests, sync, bridge, started, faults>>

-----------------------------------------------------------------------------
(* The operators *)

AtRequest(o, step) == requests[o].step = step
SetRequest(o, r) == requests' = [requests EXCEPT ![o] = r]
Unserved == <<backend, sync, bridge, faults>>

\* startScan(): the exclusions are those of the automatic scans only.
ManualScan(o) ==
    /\ AtRequest(o, "idle") /\ targets.enabled # {}
    /\ SetRequest(o, [step |-> "post", sites |-> targets.enabled])
    /\ UNCHANGED <<targets, Unserved>>

PostScan(o) ==
    /\ AtRequest(o, "post")
    /\ \/ StartScan(requests[o].sites) /\ UNCHANGED faults
       \/ ~Free /\ UNCHANGED <<scan, work, faults>>
       \/ Fault /\ UNCHANGED <<scan, work>>
    /\ SetRequest(o, IdleRequest)
    /\ UNCHANGED <<targets, backend, sync, results>>

\* addExternal, or a website that is created or supervised again.
AddTarget(o) ==
    /\ AtRequest(o, "idle")
    /\ \E s \in Site \ targets.inventory :
         targets' = [targets EXCEPT !.inventory = @ \cup {s}, !.enabled = @ \cup {s}]
    /\ UNCHANGED <<requests, Unserved>>

\* setWebsiteScan and updateExternal.
SetEnabled(o) ==
    /\ AtRequest(o, "idle")
    /\ \E s \in targets.inventory \ Steady :
         targets' = [targets EXCEPT !.enabled = IF s \in @ THEN @ \ {s} ELSE @ \cup {s}]
    /\ UNCHANGED <<requests, Unserved>>

\* updateAutomation with a list of exclusions: one target must be left.
SetExcluded(o) ==
    /\ AtRequest(o, "idle")
    /\ \E X \in SUBSET (Site \ Steady) :
         /\ targets.enabled # {} => targets.enabled \ X # {}
         /\ targets' = [targets EXCEPT !.excluded = X]
    /\ UNCHANGED <<requests, Unserved>>

\* A website whose supervision is disabled leaves the inventory at once.
Unwatch(o) ==
    /\ AtRequest(o, "idle")
    /\ \E s \in targets.inventory \ Steady :
         targets' = [targets EXCEPT !.inventory = @ \ {s}, !.enabled = @ \ {s}]
    /\ UNCHANGED <<requests, Unserved>>

\* A row is deleted, then onTargetRemoved cleans up behind it.
RemoveTarget(o) ==
    /\ AtRequest(o, "idle")
    /\ \E s \in targets.inventory \ Steady :
         /\ targets' = [targets EXCEPT !.inventory = @ \ {s}, !.enabled = @ \ {s}]
         /\ SetRequest(o, [step |-> "exclusions", sites |-> {s}])
    /\ UNCHANGED Unserved

CleanExclusions(o) ==
    /\ AtRequest(o, "exclusions")
    /\ \/ targets' = [targets EXCEPT !.excluded = @ \ requests[o].sites] /\ UNCHANGED faults
       \/ Fault /\ UNCHANGED targets
    /\ SetRequest(o, [requests[o] EXCEPT !.step = "purge"])
    /\ UNCHANGED <<backend, sync, bridge>>

\* Its failure is only logged.
PurgeRemoved(o) ==
    /\ AtRequest(o, "purge")
    /\ \/ results' = results \ requests[o].sites /\ UNCHANGED faults
       \/ Fault /\ UNCHANGED results
    /\ SetRequest(o, IdleRequest)
    /\ UNCHANGED <<targets, backend, sync, scan, work>>

-----------------------------------------------------------------------------
(* syncResultsWithTargets, started by the overview page *)

\* Mutant: only targets known to be excluded are looked at.
OrphansExcluded == results \cap targets.excluded
Orphans == results \ targets.inventory

\* The inventory and the list of results are read together; the sync that
\* finds no orphan, or no list, does nothing.
SyncBegin ==
    /\ sync = {} /\ Orphans # {}
    /\ sync' = Orphans
    /\ UNCHANGED <<targets, backend, requests, bridge, faults>>

\* A failure is only logged, and the loop goes on.
SyncPurge ==
    /\ \E s \in sync :
         /\ sync' = sync \ {s}
         /\ \/ results' = results \ {s} /\ UNCHANGED faults
            \/ Fault /\ UNCHANGED results
    /\ UNCHANGED <<targets, backend, requests, scan, work>>

-----------------------------------------------------------------------------
(* Restarts *)

RestartBackend ==
    /\ Fault
    /\ ticks' = [p \in Ticks |-> IdleTick] /\ scheduleTickRunning' = FALSE
    /\ requests' = [o \in Operators |-> IdleRequest]
    /\ sync' = {}
    /\ UNCHANGED <<targets, schedule, clock, started, bridge>>

\* The state of a scan is in memory only.
RestartBridge ==
    /\ Fault
    /\ scan' = IdleScan /\ work' = NoWork
    /\ UNCHANGED <<targets, backend, requests, sync, results>>

-----------------------------------------------------------------------------
WorkerStep(s) == PickUp(s) \/ SiteStart(s) \/ Scanned(s) \/ SiteDone(s)
ScanStep == Save \/ Finish
TickStep(p) == TickStatus(p) \/ TickCollect(p) \/ TickPost(p) \/ TickRecord(p)
RequestStep(o) == PostScan(o) \/ CleanExclusions(o) \/ PurgeRemoved(o)
Request(o) ==
    \/ ManualScan(o) \/ AddTarget(o) \/ SetEnabled(o)
    \/ SetExcluded(o) \/ Unwatch(o) \/ RemoveTarget(o)

Next ==
    \/ ScanStep \/ Abort \/ \E s \in Site : WorkerStep(s)
    \/ Minute \/ \E p \in Ticks : TickStep(p)
    \/ \E o \in Operators : Request(o) \/ RequestStep(o)
    \/ SyncBegin \/ SyncPurge
    \/ RestartBackend \/ RestartBridge

Spec == Init /\ [][Next]_vars

\* Time goes by and the cron fires; threads run, scanners end (they time out),
\* and the event loop runs every continuation.  Nobody need open the overview.
FairSpec ==
    /\ Spec
    /\ WF_vars(Minute) /\ WF_vars(ScanStep) /\ WF_vars(SyncPurge)
    /\ \A s \in Site : WF_vars(WorkerStep(s))
    /\ \A p \in Ticks : WF_vars(TickStep(p))
    /\ \A o \in Operators : WF_vars(RequestStep(o))

-----------------------------------------------------------------------------
(* Properties *)

Slot == 0..(Day - 1) \cup {NoSlot}
Tick == [step: {"idle", "status", "collect", "post", "record"},
         trigger: {"none", "daily", "interval"}, slot: Slot, sites: SUBSET Site]
RequestState == [step: {"idle", "post", "exclusions", "purge"}, sites: SUBSET Site]
ScanState == [running: BOOLEAN, stage: {"idle", "sites", "saved", "aborted"}, error: BOOLEAN,
              status: [Site -> {"none", "queued", "scanning", "settled"}]]
WorkState == {"none", "waiting", "starting", "checking", "ended", "collected"}

TypeOK ==
    /\ targets \in [inventory: SUBSET Site, enabled: SUBSET Site, excluded: SUBSET Site]
    /\ schedule \in [age: 0..Interval, lastDailySlot: Slot]
    /\ clock \in 0..(Day - 1)
    /\ scheduleTickRunning \in BOOLEAN
    /\ ticks \in [Ticks -> Tick]
    /\ requests \in [Operators -> RequestState]
    /\ sync \subseteq Site
    /\ scan \in ScanState
    /\ work \in [Site -> WorkState]
    /\ results \subseteq Site
    /\ started \in [since: 0..Interval, slot: Slot]
    /\ faults \in 0..MaxFaults

Settled(s) == scan.status[s] = "settled"

\* "status: queued -> scanning -> done | error": while a scan runs, no late
\* event moves a finished site back, nor does another scan take its place.
SettledStaysSettled ==
    [][\A s \in Site :
         scan.running /\ scan'.running /\ Settled(s) => scan'.status[s] = scan.status[s]]_vars

\* When the bridge says that no scan runs, no worker is at work on the last one, be
\* it that an exception ended it: the next scan starts from a clean pool.  A site
\* that is not settled then belongs to a scan that reported an error.
IdleBridgeIsIdle ==
    ~scan.running => /\ \A s \in Site : work[s] \in {"none", "ended", "collected"}
                     /\ ~scan.error => \A s \in ScanSites : Settled(s)

\* Scheduled scans keep their distance: a tick that finds the interval over starts
\* a scan only if none was started within it, and one for a daily slot only if the
\* last slot scanned was another, unless a failure or a restart hid that scan.  So
\* a time that comes twice when the clock is set back gives one scan, as long as no
\* other daily time came in between.
ScansKeepDistance ==
    [][\A p \in Ticks :
         ticks[p].step = "post" /\ ticks'[p].step = "record" =>
           /\ ticks[p].trigger = "interval" => started.since >= Interval \/ faults > 0
           /\ ticks[p].trigger = "daily" => \/ ticks[p].slot = NoSlot
                                            \/ ticks[p].slot # started.slot
                                            \/ faults > 0]_vars

\* A target that stays included is scanned, and saved, again and again.
TargetsAreScanned ==
    \A s \in Site :
        <>[](s \in Included) => []<>(scan.stage = "saved" /\ s \in ScanSites)

\* "Purge WebSec rows that no longer belong to any current target": if the
\* overview is opened sooner or later, the results of a site that stays out of
\* the inventory end up purged, although a scan of the site may have been
\* running when it was removed.
OrphansArePurged ==
    WF_vars(SyncBegin) =>
        \A s \in Site : <>[](s \notin targets.inventory) => <>[](s \notin results)
=============================================================================
