-------------------------- MODULE CyberScansProofs --------------------------
(***************************************************************************)
(* Proofs about CyberScans for every set of sites, ticks, operators and    *)
(* workers, every schedule and every bound on the failures.                *)
(***************************************************************************)
EXTENDS CyberScans, TLAPS

\* An exception has ended the scan, or will when its workers are through.
Failing == scan.error \/ scan.stage = "aborted"

\* What the progress shows of a site is what its worker has come to; a scan that
\* fails may leave it queued and never hand it to one.
Agrees(s) ==
    /\ scan.status[s] = "none" => work[s] = "none"
    /\ work[s] = "none" => scan.status[s] = "none" \/ (Failing /\ scan.status[s] = "queued")
    /\ work[s] \in {"waiting", "starting"} => scan.status[s] = "queued"
    /\ work[s] \in {"checking", "ended"} => scan.status[s] = "scanning"
    /\ work[s] = "collected" => Settled(s)

\* The pool works only between the start of a scan and its save, or the moment an
\* aborted scan has left it.
AtRest(s) == work[s] \in {"none", "ended", "collected"}
PoolInv ==
    /\ scan.running <=> scan.stage # "idle"
    /\ scan.stage \in {"idle", "saved"} => \A s \in Site : AtRest(s)
    /\ scan.stage \in {"saved", "idle"} /\ ~scan.error => \A s \in Site : work[s] # "ended"
    /\ scan.error => scan.stage = "idle"
    /\ \A s \in Site : Agrees(s)

\* The flag keeps the ticks apart.
TicksApart ==
    /\ \A p \in Ticks : ticks[p].step # "idle" => scheduleTickRunning
    /\ \A p, q \in Ticks : ticks[p].step # "idle" /\ ticks[q].step # "idle" => p = q

\* A tick on its way to a scan still has the reason it was fired for.
Due(p) ==
    ticks[p].step \in {"status", "collect", "post"} =>
        /\ ticks[p].trigger = "interval" => started.since >= Interval
        /\ ticks[p].trigger = "daily" => ticks[p].slot = NoSlot \/ ticks[p].slot # started.slot

\* The row knows of every scan a tick started, but for the one about to be
\* recorded.
RecordsDaily(p) == ticks[p].step = "record" /\ ticks[p].trigger = "daily"
Known ==
    /\ (\A p \in Ticks : ticks[p].step # "record") => schedule.age <= started.since
    /\ (\A p \in Ticks : ~RecordsDaily(p)) => started.slot = schedule.lastDailySlot
    /\ \A p \in Ticks : RecordsDaily(p) => started.slot = ticks[p].slot

DistanceInv == TicksApart /\ (faults = 0 => Known /\ \A p \in Ticks : Due(p))

-----------------------------------------------------------------------------
(* Types *)

\* What nobody uses has a type as well.
LEMMA IdleTyped ==
    /\ IdleTick \in Tick
    /\ IdleRequest \in RequestState
    /\ IdleScan \in ScanState
  BY DEF IdleTick, IdleRequest, IdleScan, Tick, RequestState, ScanState, Slot

\* The state the processes start in has its type.
LEMMA InitTyped == Init => TypeOK
<1> SUFFICES ASSUME Init PROVE TypeOK
  OBVIOUS
<1>1. targets \in [inventory: SUBSET Site, enabled: SUBSET Site, excluded: SUBSET Site]
  BY DEF Init
<1>2. /\ schedule \in [age: 0..Interval, lastDailySlot: Slot]
      /\ started \in [since: 0..Interval, slot: Slot]
  BY BoundsAssumption DEF Init, NoStart, Slot
<1>3. clock \in 0..(Day - 1) /\ faults \in 0..MaxFaults
  BY BoundsAssumption DEF Init
<1> QED BY <1>1, <1>2, <1>3, IdleTyped DEF Init, TypeOK, NoWork, WorkState

\* A fault counts up to the bound.
LEMMA FaultCounts == ASSUME TypeOK, Fault PROVE faults' \in 0..MaxFaults /\ faults' > 0
  BY BoundsAssumption DEF TypeOK, Fault

\* The bridge takes a scan.
LEMMA StartTyped ==
    ASSUME TypeOK, NEW S \in SUBSET Site, StartScan(S)
    PROVE  /\ scan' \in ScanState
           /\ work' \in [Site -> WorkState]
  BY DEF StartScan, ScanState, WorkState

\* A worker's events write states the progress has a name for.
LEMMA WorkerTyped == ASSUME TypeOK, NEW s \in Site, WorkerStep(s) PROVE TypeOK'
<1>1. CASE PickUp(s)
  BY <1>1 DEF PickUp, TypeOK, ScanState, WorkState, backend
<1>2. CASE SiteStart(s)
  BY <1>2 DEF SiteStart, TypeOK, ScanState, WorkState, backend
<1>3. CASE Scanned(s)
  BY <1>3 DEF Scanned, TypeOK, ScanState, WorkState, backend
<1>4. CASE SiteDone(s)
  BY <1>4 DEF SiteDone, TypeOK, ScanState, WorkState, backend
<1> QED BY <1>1, <1>2, <1>3, <1>4 DEF WorkerStep

\* So do the save and the end of a scan.
LEMMA ScanTyped == ASSUME TypeOK, ScanStep PROVE TypeOK'
<1>1. CASE Save
  BY <1>1 DEF Save, TypeOK, ScanState, backend, ScanSites
<1>2. CASE Finish
  BY <1>2 DEF Finish, Ended, TypeOK, ScanState, WorkState, backend
<1> QED BY <1>1, <1>2 DEF ScanStep

\* An exception of the scan thread drops sites, or none.
LEMMA AbortTyped == ASSUME TypeOK, Abort PROVE TypeOK'
<1>1. faults' \in 0..MaxFaults
  BY FaultCounts DEF Abort
<1>2. scan' \in ScanState
  BY DEF Abort, TypeOK, ScanState
<1>3. work' \in [Site -> WorkState]
  <2>1. PICK U : work' = [s \in Site |-> IF s \in U THEN "none" ELSE work[s]]
    BY DEF Abort
  <2> QED BY <2>1 DEF TypeOK, WorkState
<1> QED BY <1>1, <1>2, <1>3 DEF Abort, TypeOK, backend

\* The shifts of the clock.
Shift == {n \in {0, Hour} : clock + 1 >= n}

\* Ages are capped at the interval, the clock at the day.
LEMMA ElapseTyped ==
    ASSUME TypeOK, NEW shift \in Shift, Elapse(shift)
    PROVE  /\ schedule' \in [age: 0..Interval, lastDailySlot: Slot]
           /\ started' \in [since: 0..Interval, slot: Slot]
           /\ clock' \in 0..(Day - 1)
<1>1. \A n \in 0..Interval : Older(n) \in 0..Interval
  BY BoundsAssumption DEF Older
<1>2. Time(shift) \in 0..(Day - 1)
  <2>1. clock + 1 - shift \in Nat
    BY BoundsAssumption DEF TypeOK, Shift
  <2> QED BY <2>1, BoundsAssumption DEF Time
<1>3. \A slot \in Slot : Kept(shift, slot) \in Slot
  BY DEF Kept, Slot
<1> QED BY <1>1, <1>2, <1>3 DEF Elapse, TypeOK

\* A tick may lose its slot and is a tick still.
LEMMA WithSlot ==
    ASSUME NEW t \in Tick, NEW n \in Slot
    PROVE  LET u == [t EXCEPT !.slot = n]
           IN u \in Tick /\ u.slot = n /\ u.step = t.step /\ u.trigger = t.trigger
  BY DEF Tick

\* Ticks in progress age, and nothing else of them changes.
LEMMA AgedTyped ==
    ASSUME TypeOK, NEW shift \in Shift
    PROVE  /\ Aged(shift) \in [Ticks -> Tick]
           /\ \A p \in Ticks : /\ Aged(shift)[p].step = ticks[p].step
                               /\ Aged(shift)[p].trigger = ticks[p].trigger
                               /\ Aged(shift)[p].slot = Kept(shift, ticks[p].slot)
<1>1. Aged(shift) = [p \in Ticks |-> [ticks[p] EXCEPT !.slot = Kept(shift, ticks[p].slot)]]
  BY DEF Aged
<1>2. ASSUME NEW p \in Ticks
      PROVE  /\ Aged(shift)[p] \in Tick
             /\ Aged(shift)[p].slot = Kept(shift, ticks[p].slot)
             /\ Aged(shift)[p].step = ticks[p].step
             /\ Aged(shift)[p].trigger = ticks[p].trigger
  <2>1. ticks[p] \in Tick
    BY DEF TypeOK, Tick
  <2>2. Kept(shift, ticks[p].slot) \in Slot
    BY <2>1 DEF Kept, Slot, Tick
  <2>3. Aged(shift)[p] = [ticks[p] EXCEPT !.slot = Kept(shift, ticks[p].slot)]
    BY <1>1
  <2> QED BY <2>1, <2>2, <2>3, WithSlot
<1>3. Aged(shift) \in [Ticks -> Tick]
  BY <1>1, <1>2
<1> QED BY <1>2, <1>3

\* A minute that goes by fires a tick, or only ages the ticks.
Fires(shift, p, trigger) ==
    /\ scheduleTickRunning = FALSE /\ scheduleTickRunning' = TRUE
    /\ trigger = Trigger(clock', schedule')
    /\ ticks' = [Aged(shift) EXCEPT ![p] = Fired(trigger)]

\* The cron fires at most one tick, and only when none runs.
LEMMA MinuteFires ==
    ASSUME TypeOK, Minute
    PROVE  \E shift \in Shift :
              /\ Elapse(shift)
              /\ \/ ticks' = Aged(shift) /\ UNCHANGED scheduleTickRunning
                 \/ \E p \in Ticks, trigger \in {"daily", "interval"} : Fires(shift, p, trigger)
              /\ UNCHANGED <<targets, requests, sync, bridge, faults>>
<1>1. PICK shift \in Shift :
         /\ Elapse(shift)
         /\ LET trigger == Trigger(clock', schedule') IN
              IF MayTick /\ IdleTicks # {} /\ trigger # "none"
                THEN /\ ticks' = [Aged(shift) EXCEPT ![CHOOSE p \in IdleTicks : TRUE] = Fired(trigger)]
                     /\ scheduleTickRunning' = TRUE
                ELSE ticks' = Aged(shift) /\ UNCHANGED scheduleTickRunning
         /\ UNCHANGED <<targets, requests, sync, bridge, faults>>
  BY DEF Minute, Shift
<1>2. CASE ~(MayTick /\ IdleTicks # {} /\ Trigger(clock', schedule') # "none")
  BY <1>1, <1>2
<1>3. CASE MayTick /\ IdleTicks # {} /\ Trigger(clock', schedule') # "none"
  <2> DEFINE p == CHOOSE q \in IdleTicks : TRUE
             trigger == Trigger(clock', schedule')
  <2>1. p \in Ticks
    BY <1>3 DEF IdleTicks
  <2>2. trigger \in {"daily", "interval"}
    BY <1>3 DEF Trigger
  <2>3. ticks' = [Aged(shift) EXCEPT ![p] = Fired(trigger)] /\ scheduleTickRunning' = TRUE
    BY <1>1, <1>3
  <2>4. scheduleTickRunning = FALSE
    BY <1>3 DEF MayTick, TypeOK
  <2>5. Fires(shift, p, trigger)
    BY <2>3, <2>4 DEF Fires
  <2> HIDE DEF p, trigger
  <2> QED BY <1>1, <2>1, <2>2, <2>5
<1> QED BY <1>2, <1>3

\* The tick that is fired is one, and keeps its time as its slot.
LEMMA FiredTyped ==
    ASSUME NEW trigger \in {"daily", "interval"}, clock' \in 0..(Day - 1)
    PROVE  /\ Fired(trigger) \in Tick /\ Fired(trigger).step = "status"
           /\ Fired(trigger).trigger = trigger
           /\ trigger = "daily" => Fired(trigger).slot = clock'
<1> DEFINE slot == IF trigger = "daily" THEN clock' ELSE NoSlot
<1>1. slot \in Slot /\ (trigger = "daily" => slot = clock')
  BY DEF Slot
<1>2. Fired(trigger) = [step |-> "status", trigger |-> trigger, slot |-> slot, sites |-> {}]
  BY DEF Fired
<1> HIDE DEF slot
<1> QED BY <1>1, <1>2 DEF Tick

\* A minute leaves ticks.
LEMMA MinuteTyped == ASSUME TypeOK, Minute PROVE TypeOK'
<1>1. PICK shift \in Shift :
              /\ Elapse(shift)
              /\ \/ ticks' = Aged(shift) /\ UNCHANGED scheduleTickRunning
                 \/ \E p \in Ticks, trigger \in {"daily", "interval"} : Fires(shift, p, trigger)
              /\ UNCHANGED <<targets, requests, sync, bridge, faults>>
  BY MinuteFires
<1>2. ticks' \in [Ticks -> Tick]
  <2>1. ASSUME NEW p \in Ticks, NEW trigger \in {"daily", "interval"}, Fires(shift, p, trigger)
        PROVE  ticks' \in [Ticks -> Tick]
    <3>1. Fired(trigger) \in Tick
      BY <1>1, ElapseTyped, FiredTyped
    <3>2. ticks' = [Aged(shift) EXCEPT ![p] = Fired(trigger)]
      BY <2>1 DEF Fires
    <3> QED BY <3>1, <3>2, AgedTyped
  <2> QED BY <1>1, <2>1, AgedTyped
<1>3. scheduleTickRunning' \in BOOLEAN
  BY <1>1 DEF Fires, TypeOK
<1> QED BY <1>1, <1>2, <1>3, ElapseTyped DEF TypeOK, bridge

\* A tick that ends is an idle one.
LEMMA EndTyped ==
    ASSUME TypeOK, NEW p \in Ticks, EndTick(p)
    PROVE  ticks' \in [Ticks -> Tick] /\ scheduleTickRunning' \in BOOLEAN
  BY IdleTyped DEF EndTick, TypeOK

\* Each step of a tick leaves a tick.
LEMMA TickTyped == ASSUME TypeOK, NEW p \in Ticks, TickStep(p) PROVE TypeOK'
<1>1. CASE TickStatus(p)
  <2>1. ticks' \in [Ticks -> Tick] /\ scheduleTickRunning' \in BOOLEAN
    BY <1>1, EndTyped DEF TickStatus, TypeOK, Tick
  <2>2. faults' \in 0..MaxFaults
    BY <1>1, FaultCounts DEF TickStatus, TypeOK
  <2> QED BY <1>1, <2>1, <2>2 DEF TickStatus, TypeOK, bridge
<1>2. CASE TickCollect(p)
  <2>1. ticks' \in [Ticks -> Tick] /\ scheduleTickRunning' \in BOOLEAN
    BY <1>2, EndTyped DEF TickCollect, TypeOK, Tick, Included
  <2> QED BY <1>2, <2>1 DEF TickCollect, TypeOK, bridge
<1>3. CASE TickPost(p)
  <2>1. ticks' \in [Ticks -> Tick] /\ scheduleTickRunning' \in BOOLEAN
    BY <1>3, EndTyped DEF TickPost, TypeOK, Tick
  <2>2. faults' \in 0..MaxFaults
    BY <1>3, FaultCounts DEF TickPost, TypeOK
  <2>3. scan' \in ScanState /\ work' \in [Site -> WorkState]
    <3>1. ticks[p].sites \in SUBSET Site
      BY DEF TypeOK, Tick
    <3> QED BY <1>3, <3>1, StartTyped DEF TickPost, TypeOK
  <2>4. started' \in [since: 0..Interval, slot: Slot]
    <3> DEFINE slot == SlotAfter(ticks[p], started.slot)
    <3>1. slot \in Slot
      BY DEF TypeOK, Tick, SlotAfter
    <3>2. started' = started \/ started' = [since |-> 0, slot |-> slot]
      BY <1>3 DEF TickPost, StartedBy
    <3> HIDE DEF slot
    <3> QED BY <3>1, <3>2, BoundsAssumption DEF TypeOK
  <2> QED BY <1>3, <2>1, <2>2, <2>3, <2>4 DEF TickPost, TypeOK
<1>4. CASE TickRecord(p)
  <2>1. ticks' \in [Ticks -> Tick] /\ scheduleTickRunning' \in BOOLEAN
    BY <1>4, EndTyped DEF TickRecord
  <2>2. schedule' \in [age: 0..Interval, lastDailySlot: Slot]
    <3> DEFINE slot == SlotAfter(ticks[p], schedule.lastDailySlot)
    <3>1. slot \in Slot
      BY DEF TypeOK, Tick, SlotAfter
    <3>2. schedule' = [age |-> 0, lastDailySlot |-> slot]
      BY <1>4 DEF TickRecord, Recorded
    <3> HIDE DEF slot
    <3> QED BY <3>1, <3>2, BoundsAssumption
  <2> QED BY <1>4, <2>1, <2>2 DEF TickRecord, TypeOK, bridge
<1> QED BY <1>1, <1>2, <1>3, <1>4 DEF TickStep

\* What operators ask for edits the inventory within the sites.
LEMMA RequestTyped == ASSUME TypeOK, NEW o \in Operators, Request(o) PROVE TypeOK'
<1> DEFINE Targets == [inventory: SUBSET Site, enabled: SUBSET Site, excluded: SUBSET Site]
<1>1. ASSUME NEW r \in RequestState, SetRequest(o, r) PROVE requests' \in [Operators -> RequestState]
  BY <1>1 DEF SetRequest, TypeOK
<1>2. CASE ManualScan(o)
  <2>1. [step |-> "post", sites |-> targets.enabled] \in RequestState
    BY DEF TypeOK, RequestState
  <2> QED BY <1>1, <1>2, <2>1 DEF ManualScan, TypeOK, Unserved, backend, bridge
<1>3. CASE RemoveTarget(o)
  <2>1. PICK s \in Site :
          /\ targets' = [targets EXCEPT !.inventory = @ \ {s}, !.enabled = @ \ {s}]
          /\ SetRequest(o, [step |-> "exclusions", sites |-> {s}])
    BY <1>3 DEF RemoveTarget, TypeOK
  <2>2. [step |-> "exclusions", sites |-> {s}] \in RequestState
    BY DEF RequestState
  <2>3. targets' \in Targets
    BY <2>1 DEF TypeOK
  <2> QED BY <1>1, <1>3, <2>1, <2>2, <2>3 DEF RemoveTarget, TypeOK, Unserved, backend, bridge
<1>4. CASE AddTarget(o) \/ SetEnabled(o) \/ SetExcluded(o) \/ Unwatch(o)
  <2>1. ASSUME AddTarget(o) PROVE targets' \in Targets
    <3>1. PICK s \in Site : targets' = [targets EXCEPT !.inventory = @ \cup {s}, !.enabled = @ \cup {s}]
      BY <2>1 DEF AddTarget
    <3> QED BY <3>1 DEF TypeOK
  <2>2. ASSUME SetEnabled(o) PROVE targets' \in Targets
    <3>1. PICK s \in Site :
            targets' = [targets EXCEPT !.enabled = IF s \in @ THEN @ \ {s} ELSE @ \cup {s}]
      BY <2>2 DEF SetEnabled, TypeOK
    <3>2. PICK E \in SUBSET Site : targets' = [targets EXCEPT !.enabled = E]
      BY <3>1 DEF TypeOK
    <3> QED BY <3>2 DEF TypeOK
  <2>3. ASSUME SetExcluded(o) PROVE targets' \in Targets
    BY <2>3 DEF SetExcluded, TypeOK
  <2>4. ASSUME Unwatch(o) PROVE targets' \in Targets
    <3>1. PICK s \in Site : targets' = [targets EXCEPT !.inventory = @ \ {s}, !.enabled = @ \ {s}]
      BY <2>4 DEF Unwatch, TypeOK
    <3> QED BY <3>1 DEF TypeOK
  <2>5. targets' \in Targets
    BY <1>4, <2>1, <2>2, <2>3, <2>4
  <2>6. UNCHANGED <<requests, Unserved>>
    BY <1>4 DEF AddTarget, SetEnabled, SetExcluded, Unwatch
  <2> QED BY <2>5, <2>6 DEF TypeOK, Unserved, backend, bridge
<1> QED BY <1>2, <1>3, <1>4 DEF Request

\* The second half of their requests does, too.
LEMMA RequestStepTyped == ASSUME TypeOK, NEW o \in Operators, RequestStep(o) PROVE TypeOK'
<1>1. requests' \in [Operators -> RequestState]
  BY IdleTyped DEF RequestStep, PostScan, CleanExclusions, PurgeRemoved, SetRequest, TypeOK, RequestState
<1>2. faults' \in 0..MaxFaults
  BY FaultCounts DEF RequestStep, PostScan, CleanExclusions, PurgeRemoved, TypeOK
<1>3. CASE PostScan(o)
  <2>1. requests[o].sites \in SUBSET Site
    BY DEF TypeOK, RequestState
  <2>2. scan' \in ScanState /\ work' \in [Site -> WorkState]
    BY <1>3, <2>1, StartTyped DEF PostScan, TypeOK
  <2> QED BY <1>1, <1>2, <1>3, <2>2 DEF PostScan, TypeOK, backend
<1>4. CASE CleanExclusions(o)
  <2>1. targets' \in [inventory: SUBSET Site, enabled: SUBSET Site, excluded: SUBSET Site]
    BY <1>4 DEF CleanExclusions, TypeOK
  <2> QED BY <1>1, <1>2, <1>4, <2>1 DEF CleanExclusions, TypeOK, backend, bridge
<1>5. CASE PurgeRemoved(o)
  <2>1. results' \subseteq Site
    BY <1>5 DEF PurgeRemoved, TypeOK
  <2> QED BY <1>1, <1>2, <1>5, <2>1 DEF PurgeRemoved, TypeOK, backend
<1> QED BY <1>3, <1>4, <1>5 DEF RequestStep

\* What is purged was a result.
LEMMA SyncTyped == ASSUME TypeOK, SyncBegin \/ SyncPurge PROVE TypeOK'
<1>1. CASE SyncBegin
  BY <1>1 DEF SyncBegin, Orphans, TypeOK, backend, bridge
<1>2. CASE SyncPurge
  <2>1. faults' \in 0..MaxFaults
    BY <1>2, FaultCounts DEF SyncPurge, TypeOK
  <2> QED BY <1>2, <2>1 DEF SyncPurge, TypeOK, backend
<1> QED BY <1>1, <1>2

\* A restart leaves what the processes start with.
LEMMA RestartTyped == ASSUME TypeOK, RestartBackend \/ RestartBridge PROVE TypeOK'
<1>1. faults' \in 0..MaxFaults
  BY FaultCounts DEF RestartBackend, RestartBridge
<1>2. CASE RestartBackend
  BY <1>1, <1>2, IdleTyped DEF RestartBackend, TypeOK, bridge
<1>3. CASE RestartBridge
  BY <1>1, <1>3, IdleTyped DEF RestartBridge, TypeOK, backend, NoWork, WorkState
<1> QED BY <1>2, <1>3

\* Every step keeps the types.
LEMMA NextTyped == ASSUME TypeOK, [Next]_vars PROVE TypeOK'
<1>1. CASE UNCHANGED vars
  BY <1>1 DEF vars, TypeOK
<1> QED BY <1>1, WorkerTyped, ScanTyped, AbortTyped, MinuteTyped, TickTyped, RequestTyped, RequestStepTyped,
           SyncTyped, RestartTyped DEF Next

\* Every variable keeps its type: no call, late event or restart leaves the
\* bridge, the pool or the schedule in a state the code has no name for.
THEOREM TypeCorrect == Spec => []TypeOK
  BY InitTyped, NextTyped, PTL DEF Spec

-----------------------------------------------------------------------------
(* The pool and the progress of a scan *)

\* Nothing is scanned at first.
LEMMA InitPool == Init => PoolInv
  BY DEF Init, PoolInv, Agrees, AtRest, Failing, IdleScan, NoWork

\* A scan that starts queues its sites and puts them before the pool.
LEMMA StartPool ==
    ASSUME TypeOK, NEW S \in SUBSET Site, StartScan(S) PROVE PoolInv'
  BY DEF StartScan, PoolInv, Agrees, Settled, Failing, TypeOK

\* A site in a worker's hands is a site of a scan that is not over.
LEMMA WorkerPool ==
    ASSUME TypeOK, PoolInv, NEW s \in Site, WorkerStep(s) PROVE PoolInv'
<1>1. /\ work[s] \notin {"none", "collected"} /\ Agrees(s)
      /\ scan.stage \in {"sites", "aborted"} /\ ~scan.error
  <2>1. work[s] \notin {"none", "collected"} /\ (work[s] = "ended" => scan.stage = "sites")
    BY DEF WorkerStep, PickUp, SiteStart, Scanned, SiteDone
  <2> QED BY <2>1 DEF PoolInv, AtRest, TypeOK, ScanState
<1>2. scan'.running = scan.running /\ scan'.stage = scan.stage /\ scan'.error = scan.error
  BY DEF WorkerStep, PickUp, SiteStart, Scanned, SiteDone, TypeOK, ScanState
<1>3. \A r \in Site \ {s} : work'[r] = work[r] /\ scan'.status[r] = scan.status[r]
  BY DEF WorkerStep, PickUp, SiteStart, Scanned, SiteDone, TypeOK, ScanState
<1>4. Agrees(s)'
  BY <1>1 DEF WorkerStep, PickUp, SiteStart, Scanned, SiteDone, TypeOK, ScanState, Agrees, Settled
<1>5. \A r \in Site \ {s} : Agrees(r)'
  BY <1>2, <1>3 DEF PoolInv, Agrees, Settled, Failing
<1> QED BY <1>1, <1>2, <1>4, <1>5 DEF PoolInv

\* A scan is saved when the pool is done, and ends when the pool is left.
LEMMA ScanPool == ASSUME TypeOK, PoolInv, ScanStep PROVE PoolInv'
<1>1. work' = work /\ scan'.status = scan.status
  BY DEF ScanStep, Save, Finish, Ended, TypeOK, ScanState
<1>2. CASE Save
  <2>1. scan'.stage = "saved" /\ scan'.error = scan.error /\ scan'.running = scan.running
    BY <1>2 DEF Save, TypeOK, ScanState
  <2>2. \A s \in Site : work[s] \in {"none", "collected"}
    BY <1>2 DEF Save, PoolDone
  <2>3. scan.stage = "sites" /\ scan.running /\ ~scan.error
    BY <1>2 DEF Save, PoolInv
  <2>4. \A s \in Site : Agrees(s)'
    BY <1>1, <2>1, <2>3 DEF PoolInv, Agrees, Settled, Failing
  <2> QED BY <1>1, <2>1, <2>2, <2>3, <2>4 DEF PoolInv, AtRest
<1>3. CASE Finish
  <2>1. scan'.stage = "idle" /\ ~scan'.running /\ (scan'.error <=> scan.stage = "aborted")
    BY <1>3 DEF Finish, Ended, TypeOK, ScanState
  <2>2. scan.stage \in {"saved", "aborted"} /\ ~scan.error
    BY <1>3 DEF Finish, PoolInv
  <2>3. \A s \in Site : AtRest(s)
    BY <1>3 DEF Finish, PoolLeft, PoolInv, AtRest
  <2>4. \A s \in Site : Agrees(s)'
    BY <1>1, <2>1, <2>2 DEF PoolInv, Agrees, Settled, Failing
  <2>5. scan.stage = "saved" => \A s \in Site : work[s] # "ended"
    BY <2>2 DEF PoolInv
  <2> QED BY <1>1, <2>1, <2>2, <2>3, <2>4, <2>5 DEF PoolInv, AtRest
<1> QED BY <1>2, <1>3 DEF ScanStep

\* A scan that fails leaves its workers to themselves.
LEMMA AbortPool == ASSUME TypeOK, PoolInv, Abort PROVE PoolInv'
<1>1. /\ scan.stage \in {"sites", "saved"} /\ ~scan.error /\ scan.running
      /\ scan'.stage = "aborted" /\ scan'.error = scan.error
      /\ scan'.running = scan.running /\ scan'.status = scan.status
  BY DEF Abort, PoolInv, TypeOK, ScanState
<1>2. \A s \in Site : \/ work'[s] = work[s]
                      \/ work[s] = "waiting" /\ work'[s] = "none"
  BY DEF Abort
<1>3. \A s \in Site : Agrees(s)'
  BY <1>1, <1>2 DEF PoolInv, Agrees, Settled, Failing
<1> QED BY <1>1, <1>3 DEF PoolInv

\* What the backend does to the bridge is to start a scan, or nothing.
LEMMA BackendPool ==
    ASSUME TypeOK, Minute \/ (\E p \in Ticks : TickStep(p))
                   \/ (\E o \in Operators : Request(o) \/ RequestStep(o))
                   \/ SyncBegin \/ SyncPurge \/ RestartBackend
    PROVE  UNCHANGED <<scan, work>> \/ \E S \in SUBSET Site : StartScan(S)
<1>1. ASSUME NEW p \in Ticks, TickStep(p)
      PROVE  UNCHANGED <<scan, work>> \/ \E S \in SUBSET Site : StartScan(S)
  <2>1. ticks[p].sites \in SUBSET Site
    BY DEF TypeOK, Tick
  <2> QED BY <1>1, <2>1 DEF TickStep, TickStatus, TickCollect, TickPost, TickRecord, bridge
<1>2. ASSUME NEW o \in Operators, RequestStep(o)
      PROVE  UNCHANGED <<scan, work>> \/ \E S \in SUBSET Site : StartScan(S)
  <2>1. requests[o].sites \in SUBSET Site
    BY DEF TypeOK, RequestState
  <2> QED BY <1>2, <2>1 DEF RequestStep, PostScan, CleanExclusions, PurgeRemoved, bridge
<1>3. ASSUME NEW o \in Operators, Request(o) PROVE UNCHANGED <<scan, work>>
  BY <1>3 DEF Request, ManualScan, AddTarget, SetEnabled, SetExcluded, Unwatch, RemoveTarget,
              Unserved, bridge
<1>4. ASSUME Minute \/ SyncBegin \/ SyncPurge \/ RestartBackend PROVE UNCHANGED <<scan, work>>
  BY <1>4 DEF Minute, SyncBegin, SyncPurge, RestartBackend, bridge
<1> QED BY <1>1, <1>2, <1>3, <1>4

\* Every step keeps the pool and the progress together.
LEMMA NextPool == ASSUME TypeOK, PoolInv, [Next]_vars PROVE PoolInv'
<1>1. CASE UNCHANGED <<scan, work>>
  BY <1>1 DEF PoolInv, Agrees, AtRest, Settled, Failing
<1>2. CASE RestartBridge
  BY <1>2 DEF RestartBridge, PoolInv, Agrees, AtRest, Failing, IdleScan, NoWork
<1> QED BY <1>1, <1>2, StartPool, WorkerPool, ScanPool, AbortPool, BackendPool DEF Next, vars

\* The pool works only for a scan that runs or is about to fail, and the progress
\* shows its work.
THEOREM PoolInvariant == Spec => []PoolInv
  BY InitPool, NextPool, TypeCorrect, PTL DEF Spec

\* When the bridge says that no scan runs, no worker is at work, although an
\* exception may have ended the scan before, during or after the pool; and unless
\* one has, every site of the last scan is settled.
THEOREM IdleBridgeIsClean == Spec => []IdleBridgeIsIdle
<1>1. ASSUME PoolInv, ~scan.running
      PROVE  /\ scan.stage = "idle" /\ \A s \in Site : AtRest(s)
             /\ ~scan.error => \A s \in ScanSites : Settled(s)
  <2>1. scan.stage = "idle"
    BY <1>1 DEF PoolInv
  <2>2. ASSUME ~scan.error, NEW s \in ScanSites PROVE Settled(s)
    <3>1. s \in Site /\ scan.status[s] # "none"
      BY DEF ScanSites
    <3>2. work[s] = "collected"
      BY <1>1, <2>1, <2>2, <3>1 DEF PoolInv, Agrees, AtRest, Failing
    <3> QED BY <1>1, <3>1, <3>2 DEF PoolInv, Agrees
  <2> QED BY <1>1, <2>1, <2>2 DEF PoolInv
<1>2. PoolInv => IdleBridgeIsIdle
  BY <1>1 DEF IdleBridgeIsIdle, AtRest
<1> QED BY <1>2, PoolInvariant, PTL

\* While a scan runs nothing moves a finished site back.
THEOREM SettledForGood == Spec => SettledStaysSettled
<1> DEFINE Stays == \A s \in Site : scan.running /\ scan'.running /\ Settled(s)
                                        => scan'.status[s] = scan.status[s]
<1>1. ASSUME TypeOK, PoolInv, [Next]_vars PROVE Stays
  <2>1. ASSUME NEW s \in Site, WorkerStep(s) PROVE Stays
    <3>1. ~Settled(s)
      BY <1>1, <2>1 DEF PoolInv, Agrees, Settled, WorkerStep, PickUp, SiteStart, Scanned, SiteDone
    <3>2. \A r \in Site \ {s} : scan'.status[r] = scan.status[r]
      BY <1>1, <2>1 DEF WorkerStep, PickUp, SiteStart, Scanned, SiteDone, TypeOK, ScanState
    <3> QED BY <3>1, <3>2
  <2>2. CASE ScanStep
    BY <1>1, <2>2 DEF ScanStep, Save, Finish, Ended, TypeOK, ScanState
  <2>6. CASE Abort
    BY <1>1, <2>6 DEF Abort, TypeOK, ScanState
  <2>3. CASE UNCHANGED <<scan, work>>
    BY <2>3
  <2>4. ASSUME NEW S \in SUBSET Site, StartScan(S) PROVE Stays
    BY <2>4 DEF StartScan, Free
  <2>5. CASE RestartBridge
    BY <2>5 DEF RestartBridge, IdleScan
  <2> HIDE DEF Stays
  <2> QED BY <1>1, <2>1, <2>2, <2>3, <2>4, <2>5, <2>6, BackendPool DEF Next, vars
<1>2. Spec => [][Stays]_vars
  BY <1>1, TypeCorrect, PoolInvariant, PTL DEF Spec
<1> QED BY <1>2 DEF SettledStaysSettled

-----------------------------------------------------------------------------
(* The distance between scheduled scans *)

\* The row is as old as the last scan at first.
LEMMA InitDistance == Init => DistanceInv
  BY BoundsAssumption DEF Init, DistanceInv, TicksApart, Known, Due, RecordsDaily, IdleTick, NoStart

\* Ages grow alike, and no further than the interval.
LEMMA OlderAlike ==
    ASSUME NEW m \in 0..Interval, NEW n \in 0..Interval
    PROVE  /\ m <= n => Older(m) <= Older(n)
           /\ m >= Interval => Older(m) >= Interval
  BY BoundsAssumption DEF Older

\* Without a tick in progress the row knows of every scan.
LEMMA AllKnown ==
    ASSUME TypeOK, Known, scheduleTickRunning = FALSE, TicksApart
    PROVE  schedule.age <= started.since /\ started.slot = schedule.lastDailySlot
  BY DEF Known, TicksApart, RecordsDaily

\* When a minute goes by, what the row knows and what is due grow older alike.
LEMMA MinuteDistance == ASSUME TypeOK, DistanceInv, Minute PROVE DistanceInv'
<1>1. PICK shift \in Shift :
              /\ Elapse(shift)
              /\ \/ ticks' = Aged(shift) /\ UNCHANGED scheduleTickRunning
                 \/ \E p \in Ticks, trigger \in {"daily", "interval"} : Fires(shift, p, trigger)
              /\ UNCHANGED <<targets, requests, sync, bridge, faults>>
  BY MinuteFires
<1>2. /\ schedule'.age = Older(schedule.age) /\ started'.since = Older(started.since)
      /\ schedule'.lastDailySlot = Kept(shift, schedule.lastDailySlot)
      /\ started'.slot = Kept(shift, started.slot)
  BY <1>1 DEF Elapse
<1>3. /\ schedule.age <= started.since => schedule'.age <= started'.since
      /\ started.since >= Interval => started'.since >= Interval
  BY <1>2, OlderAlike DEF TypeOK
<1>4. CASE ticks' = Aged(shift) /\ UNCHANGED scheduleTickRunning
  <2>1. \A p \in Ticks : /\ ticks'[p].step = ticks[p].step
                         /\ ticks'[p].trigger = ticks[p].trigger
                         /\ ticks'[p].slot = Kept(shift, ticks[p].slot)
    BY <1>4, AgedTyped
  <2>2. TicksApart'
    BY <1>4, <2>1 DEF DistanceInv, TicksApart
  <2>3. ASSUME faults = 0 PROVE Known'
    BY <1>2, <1>3, <2>1, <2>3 DEF DistanceInv, Known, RecordsDaily
  <2>4. ASSUME faults = 0, NEW p \in Ticks PROVE Due(p)'
    BY <1>2, <1>3, <2>1, <2>4 DEF DistanceInv, Due, Kept
  <2> QED BY <1>1, <2>2, <2>3, <2>4 DEF DistanceInv
<1>5. ASSUME NEW p \in Ticks, NEW trigger \in {"daily", "interval"}, Fires(shift, p, trigger)
      PROVE  DistanceInv'
  <2>1. /\ \A q \in Ticks : ticks[q].step = "idle"
        /\ scheduleTickRunning = FALSE /\ scheduleTickRunning' = TRUE
    BY <1>5 DEF Fires, DistanceInv, TicksApart
  <2>2. /\ ticks'[p].step = "status" /\ ticks'[p].trigger = trigger
        /\ trigger = "daily" => ticks'[p].slot = clock'
        /\ \A q \in Ticks \ {p} : ticks'[q].step = "idle"
    BY <1>1, <1>5, <2>1, AgedTyped, ElapseTyped, FiredTyped DEF Fires
  <2>3. TicksApart'
    BY <2>1, <2>2 DEF TicksApart
  <2>4. ASSUME faults = 0
        PROVE  schedule'.age <= started'.since /\ started'.slot = schedule'.lastDailySlot
    BY <1>2, <1>3, <2>1, <2>4, AllKnown DEF DistanceInv
  <2>5. ASSUME faults = 0 PROVE Known'
    BY <2>2, <2>4, <2>5 DEF Known, RecordsDaily
  <2>6. /\ trigger = "daily" => schedule'.lastDailySlot # clock'
        /\ trigger = "interval" => schedule'.age >= Interval
    BY <1>5 DEF Fires, Trigger
  <2>7. schedule'.age \in 0..Interval /\ started'.since \in 0..Interval
    BY <1>1, ElapseTyped
  <2>8. ASSUME faults = 0, NEW q \in Ticks PROVE Due(q)'
    BY <2>2, <2>4, <2>6, <2>7, <2>8, BoundsAssumption DEF Due
  <2> QED BY <1>1, <2>3, <2>5, <2>8 DEF DistanceInv
<1> QED BY <1>1, <1>4, <1>5

\* A tick that ends leaves none in progress.
LEMMA EndAlone ==
    ASSUME TypeOK, TicksApart, NEW p \in Ticks, ticks[p].step # "idle", EndTick(p)
    PROVE  scheduleTickRunning' = FALSE /\ \A q \in Ticks : ticks'[q].step = "idle"
  BY DEF EndTick, TicksApart, IdleTick, TypeOK

\* A step of a tick that goes on concerns no other tick.
LEMMA StepAlone ==
    ASSUME TypeOK, TicksApart, NEW p \in Ticks, ticks[p].step # "idle",
           NEW t \in Tick, ticks' = [ticks EXCEPT ![p] = t],
           scheduleTickRunning' = scheduleTickRunning
    PROVE  /\ TicksApart' /\ ticks'[p] = t
           /\ \A q \in Ticks \ {p} : ticks[q].step = "idle" /\ ticks'[q].step = "idle"
<1>1. ticks'[p] = t /\ \A q \in Ticks \ {p} : ticks'[q] = ticks[q] /\ ticks[q].step = "idle"
  BY DEF TypeOK, TicksApart
<1>2. scheduleTickRunning'
  BY DEF TicksApart
<1>3. \A q \in Ticks \ {p} : ticks'[q].step = "idle"
  BY <1>1
<1>4. TicksApart'
  BY <1>2, <1>3 DEF TicksApart
<1> QED BY <1>1, <1>3, <1>4

\* A tick that gives up leaves the row as it is.
LEMMA GiveUpDistance ==
    ASSUME TypeOK, DistanceInv, NEW p \in Ticks, ticks[p].step \in {"status", "collect", "post"},
           EndTick(p), UNCHANGED <<schedule, started>>, faults' = faults
    PROVE  DistanceInv'
<1>1. scheduleTickRunning' = FALSE /\ \A q \in Ticks : ticks'[q].step = "idle"
  BY EndAlone DEF DistanceInv
<1>2. \A q \in Ticks : ticks[q].step # "record" /\ ~RecordsDaily(q)
  BY DEF DistanceInv, TicksApart, RecordsDaily
<1>3. TicksApart' /\ \A q \in Ticks : Due(q)'
  BY <1>1 DEF TicksApart, Due
<1>4. ASSUME faults = 0 PROVE Known'
  BY <1>1, <1>2, <1>4 DEF DistanceInv, Known, RecordsDaily
<1> QED BY <1>3, <1>4 DEF DistanceInv

\* A tick that goes on to its scan keeps its reason.
LEMMA GoOnDistance ==
    ASSUME TypeOK, DistanceInv, NEW p \in Ticks, ticks[p].step \in {"status", "collect"},
           NEW t \in Tick, ticks' = [ticks EXCEPT ![p] = t], t.step \in {"collect", "post"},
           t.trigger = ticks[p].trigger, t.slot = ticks[p].slot,
           UNCHANGED <<schedule, started, scheduleTickRunning>>, faults' = faults
    PROVE  DistanceInv'
<1>1. /\ TicksApart' /\ ticks'[p] = t
      /\ \A q \in Ticks \ {p} : ticks[q].step = "idle" /\ ticks'[q].step = "idle"
  BY StepAlone DEF DistanceInv
<1>2. ASSUME faults = 0 PROVE Known'
  BY <1>1, <1>2 DEF DistanceInv, Known, RecordsDaily
<1>3. ASSUME faults = 0, NEW q \in Ticks PROVE Due(q)'
  BY <1>1, <1>3 DEF DistanceInv, Due
<1> QED BY <1>1, <1>2, <1>3 DEF DistanceInv

\* After a fault only the flag is relied on.
LEMMA FaultDistance ==
    ASSUME TypeOK, TicksApart', Fault PROVE DistanceInv'
  BY FaultCounts DEF DistanceInv

\* The bridge is asked, or the fault is counted.
LEMMA StatusDistance == ASSUME TypeOK, DistanceInv, NEW p \in Ticks, TickStatus(p) PROVE DistanceInv'
<1> DEFINE t == [ticks[p] EXCEPT !.step = "collect"]
<1>1. t \in Tick /\ t.step = "collect" /\ t.trigger = ticks[p].trigger /\ t.slot = ticks[p].slot
  BY DEF TypeOK, Tick
<1>2. ticks[p].step = "status" /\ UNCHANGED <<schedule, started>>
  BY DEF TickStatus
<1>3. \/ ticks' = [ticks EXCEPT ![p] = t] /\ UNCHANGED <<scheduleTickRunning, faults>>
      \/ EndTick(p) /\ UNCHANGED faults
      \/ ticks' = [ticks EXCEPT ![p] = t] /\ Fault /\ UNCHANGED scheduleTickRunning
  BY DEF TickStatus
<1> HIDE DEF t
<1>4. CASE ticks' = [ticks EXCEPT ![p] = t] /\ UNCHANGED <<scheduleTickRunning, faults>>
  BY <1>1, <1>2, <1>4, GoOnDistance
<1>5. CASE EndTick(p) /\ UNCHANGED faults
  BY <1>2, <1>5, GiveUpDistance
<1>6. CASE ticks' = [ticks EXCEPT ![p] = t] /\ Fault /\ UNCHANGED scheduleTickRunning
  <2>1. TicksApart'
    BY <1>1, <1>2, <1>6, StepAlone DEF DistanceInv
  <2> QED BY <1>6, <2>1, FaultDistance
<1> QED BY <1>3, <1>4, <1>5, <1>6

\* The targets are collected for the same reason.
LEMMA CollectDistance == ASSUME TypeOK, DistanceInv, NEW p \in Ticks, TickCollect(p) PROVE DistanceInv'
<1> DEFINE t == [ticks[p] EXCEPT !.step = "post", !.sites = Included]
<1>1. t \in Tick /\ t.step = "post" /\ t.trigger = ticks[p].trigger /\ t.slot = ticks[p].slot
  BY DEF TypeOK, Tick, Included
<1>2. ticks[p].step = "collect" /\ UNCHANGED <<schedule, started, faults>>
  BY DEF TickCollect
<1>3. \/ ticks' = [ticks EXCEPT ![p] = t] /\ UNCHANGED scheduleTickRunning
      \/ EndTick(p)
  BY DEF TickCollect
<1> HIDE DEF t
<1> QED BY <1>1, <1>2, <1>3, GoOnDistance, GiveUpDistance

\* The scan that starts is the one the row does not know yet.
LEMMA PostDistance == ASSUME TypeOK, DistanceInv, NEW p \in Ticks, TickPost(p) PROVE DistanceInv'
<1> DEFINE t == [ticks[p] EXCEPT !.step = "record", !.sites = {}]
<1>1. t \in Tick /\ t.step = "record" /\ t.trigger = ticks[p].trigger /\ t.slot = ticks[p].slot
  BY DEF TypeOK, Tick
<1>2. ticks[p].step = "post" /\ schedule' = schedule
  BY DEF TickPost
<1>3. \/ /\ ticks' = [ticks EXCEPT ![p] = t] /\ started' = StartedBy(ticks[p])
         /\ UNCHANGED <<scheduleTickRunning, faults>>
      \/ EndTick(p) /\ UNCHANGED <<started, faults>>
      \/ EndTick(p) /\ Fault
  BY DEF TickPost
<1> HIDE DEF t
<1>4. CASE /\ ticks' = [ticks EXCEPT ![p] = t] /\ started' = StartedBy(ticks[p])
           /\ UNCHANGED <<scheduleTickRunning, faults>>
  <2>1. /\ TicksApart' /\ ticks'[p] = t
        /\ \A q \in Ticks \ {p} : ticks[q].step = "idle" /\ ticks'[q].step = "idle"
    BY <1>1, <1>2, <1>4, StepAlone DEF DistanceInv
  <2>2. started'.slot = IF ticks[p].trigger = "daily" THEN ticks[p].slot ELSE started.slot
    BY <1>4 DEF StartedBy, SlotAfter
  <2>3. ASSUME faults = 0 PROVE started.slot = schedule.lastDailySlot
    BY <1>2, <2>1, <2>3 DEF DistanceInv, Known, RecordsDaily
  <2>4. ASSUME faults = 0 PROVE Known'
    BY <1>1, <1>2, <2>1, <2>2, <2>3, <2>4 DEF Known, RecordsDaily
  <2>5. \A q \in Ticks : Due(q)'
    BY <1>1, <2>1 DEF Due
  <2> QED BY <1>4, <2>1, <2>4, <2>5 DEF DistanceInv
<1>5. CASE EndTick(p) /\ UNCHANGED <<started, faults>>
  BY <1>2, <1>5, GiveUpDistance
<1>6. CASE EndTick(p) /\ Fault
  <2>1. TicksApart'
    BY <1>2, <1>6, EndAlone DEF DistanceInv, TicksApart
  <2> QED BY <1>6, <2>1, FaultDistance
<1> QED BY <1>3, <1>4, <1>5, <1>6

\* Now the row knows it.
LEMMA RecordDistance == ASSUME TypeOK, DistanceInv, NEW p \in Ticks, TickRecord(p) PROVE DistanceInv'
<1>1. ticks[p].step = "record" /\ EndTick(p) /\ UNCHANGED <<started, faults>>
  BY DEF TickRecord
<1>2. scheduleTickRunning' = FALSE /\ \A q \in Ticks : ticks'[q].step = "idle"
  BY <1>1, EndAlone DEF DistanceInv
<1>3. /\ schedule'.age = 0
      /\ schedule'.lastDailySlot = IF ticks[p].trigger = "daily" THEN ticks[p].slot
                                                              ELSE schedule.lastDailySlot
  BY DEF TickRecord, Recorded, SlotAfter
<1>4. started.since >= 0
  BY BoundsAssumption DEF TypeOK
<1>5. ASSUME faults = 0 PROVE started.slot = schedule'.lastDailySlot
  BY <1>1, <1>3, <1>5 DEF DistanceInv, Known, TicksApart, RecordsDaily
<1>6. ASSUME faults = 0 PROVE Known'
  BY <1>1, <1>2, <1>3, <1>4, <1>5, <1>6, BoundsAssumption DEF Known, RecordsDaily, TypeOK
<1>7. TicksApart' /\ \A q \in Ticks : Due(q)'
  BY <1>2 DEF TicksApart, Due
<1> QED BY <1>1, <1>6, <1>7 DEF DistanceInv

\* Nothing but ticks, the minute and restarts bears on the distance.
LEMMA NextDistance == ASSUME TypeOK, DistanceInv, [Next]_vars PROVE DistanceInv'
<1>1. CASE UNCHANGED <<ticks, scheduleTickRunning, schedule, started>>
  <2>1. faults' = 0 => faults = 0
    <3>1. faults' = faults \/ Fault
      BY DEF Next, vars, WorkerStep, PickUp, SiteStart, Scanned, SiteDone, ScanStep, Save, Finish,
             Abort, Minute, TickStep, TickStatus, TickCollect, TickPost, TickRecord, Request, ManualScan,
             AddTarget, SetEnabled, SetExcluded, Unwatch, RemoveTarget, Unserved, RequestStep,
             PostScan, CleanExclusions, PurgeRemoved, SyncBegin, SyncPurge, RestartBackend,
             RestartBridge
    <3> QED BY <3>1, FaultCounts
  <2>2. UNCHANGED <<TicksApart, Known>> /\ \A p \in Ticks : Due(p)' = Due(p)
    BY <1>1 DEF TicksApart, Known, RecordsDaily, Due
  <2> QED BY <2>1, <2>2 DEF DistanceInv
<1>2. CASE Minute
  BY <1>2, MinuteDistance
<1>3. ASSUME NEW p \in Ticks, TickStep(p) PROVE DistanceInv'
  BY <1>3, StatusDistance, CollectDistance, PostDistance, RecordDistance DEF TickStep
<1>4. CASE RestartBackend
  <2>1. TicksApart'
    BY <1>4 DEF RestartBackend, TicksApart, IdleTick
  <2> QED BY <1>4, <2>1, FaultDistance DEF RestartBackend
<1>5. ASSUME \/ \E s \in Site : WorkerStep(s)
             \/ \E o \in Operators : Request(o) \/ RequestStep(o)
             \/ ScanStep \/ Abort \/ SyncBegin \/ SyncPurge \/ RestartBridge \/ UNCHANGED vars
      PROVE  UNCHANGED <<ticks, scheduleTickRunning, schedule, started>>
  BY <1>5 DEF vars, WorkerStep, PickUp, SiteStart, Scanned, SiteDone, ScanStep, Save, Finish,
              Abort, Request, ManualScan, AddTarget, SetEnabled, SetExcluded, Unwatch, RemoveTarget,
              Unserved, RequestStep, PostScan, CleanExclusions, PurgeRemoved, SyncBegin, SyncPurge,
              RestartBridge, backend
<1> QED BY <1>1, <1>2, <1>3, <1>4, <1>5 DEF Next

\* Ticks never meet, and without failures each still has its reason when it
\* starts a scan.
THEOREM DistanceInvariant == Spec => []DistanceInv
  BY InitDistance, NextDistance, TypeCorrect, PTL DEF Spec

\* No scheduled scan starts within the interval after another, and no daily slot
\* gives two in a row, unless a failure or a restart hid the first.
THEOREM DistanceKept == Spec => ScansKeepDistance
<1> DEFINE Apart == \A p \in Ticks :
                        ticks[p].step = "post" /\ ticks'[p].step = "record" =>
                            /\ ticks[p].trigger = "interval" => started.since >= Interval \/ faults > 0
                            /\ ticks[p].trigger = "daily" =>
                                 \/ ticks[p].slot = NoSlot
                                 \/ ticks[p].slot # started.slot
                                 \/ faults > 0
<1>1. ASSUME TypeOK, DistanceInv PROVE Apart
  <2>1. faults = 0 \/ faults > 0
    BY <1>1, BoundsAssumption DEF TypeOK
  <2> QED BY <1>1, <2>1 DEF DistanceInv, Due
<1>2. Spec => [][Apart]_vars
  BY <1>1, TypeCorrect, DistanceInvariant, PTL DEF Spec
<1> QED BY <1>2 DEF ScansKeepDistance
=============================================================================
