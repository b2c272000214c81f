--------------------------- MODULE ProxmoxBackups ---------------------------
(***************************************************************************)
(* What a push of a Proxmox agent adds: the inventory of guests, the table *)
(* of vzdump jobs and the alerts about them (syncProxmoxVms,               *)
(* syncProxmoxBackups and evaluateProxmoxBackupAlerts of                   *)
(* backend/src/agent/agent.service.ts).                                    *)
(*                                                                         *)
(* Jobs are numbered in the order they start: a date is the number of jobs *)
(* started by then, which keeps every comparison of dates the code makes.  *)
(* The alert service is seen through create() and onIssueResolved() with   *)
(* the sticky closing of Alerts.tla, one call per step.                    *)
(***************************************************************************)
EXTENDS Naturals, Sequences, FiniteSets, SequencesExt

CONSTANTS
    Vm,             \* guests of the host
    NoVm,           \* the vmid of a job whose guest could not be told ("VM ?")
    Containing,     \* Containing[v]: the labels whose text begins with the label of v
    JobLabels,      \* the labels of the jobs the host runs
    HandClosed,     \* the titles of the alerts operators close
    MaxJobs         \* bound on the number of jobs

Label == Vm \cup {NoVm}

ASSUME VmAssumption == IsFiniteSet(Vm)
ASSUME NoVmAssumption == NoVm \notin Vm
ASSUME ContainingAssumption ==
    Containing \in [Label -> SUBSET Label] /\ \A v \in Label : v \in Containing[v]
ASSUME JobLabelsAssumption == JobLabels \subseteq Label
ASSUME HandClosedAssumption == HandClosed \subseteq {"failed", "warning", "long", "missing"}
ASSUME BoundsAssumption == MaxJobs \in Nat

VARIABLES
    jobs,       \* environment: the vzdump jobs of the host, oldest first
    ages,       \* how many jobs started more than 6 h, 48 h, 7 days ago
    rows,       \* the ProxmoxBackup table, oldest first
    vms,        \* the ProxmoxVm table
    alerts,     \* the alert of each title and label
    push        \* the push in progress

vars == <<jobs, ages, rows, vms, alerts, push>>

Title == {"failed", "warning", "long", "missing"}
Job == [vm: Label, status: {"running", "ok", "failed", "warning"}]
Call == [op: {"create", "resolve"}, title: Title, vm: Label, since: 0..MaxJobs]

IdlePush == [step |-> "idle", plan |-> <<>>]

Init ==
    /\ jobs = <<>>
    /\ ages = [long |-> 0, stale |-> 0, week |-> 0]
    /\ rows = <<>>
    /\ vms = {}
    /\ alerts = [t \in Title |-> [v \in Label |-> [open |-> FALSE, closedAt |-> 0]]]
    /\ push = IdlePush

-----------------------------------------------------------------------------
(* The host *)

StartJob ==
    /\ Len(jobs) < MaxJobs
    /\ \E v \in JobLabels : jobs' = Append(jobs, [vm |-> v, status |-> "running"])
    /\ UNCHANGED <<ages, rows, vms, alerts, push>>

EndJob ==
    /\ \E i \in 1..Len(jobs), st \in {"ok", "failed", "warning"} :
         jobs[i].status = "running" /\ jobs' = [jobs EXCEPT ![i].status = st]
    /\ UNCHANGED <<ages, rows, vms, alerts, push>>

Age ==
    /\ \/ ages.long < Len(jobs) /\ ages' = [ages EXCEPT !.long = @ + 1]
       \/ ages.stale < ages.long /\ ages' = [ages EXCEPT !.stale = @ + 1]
       \/ ages.week < ages.stale /\ ages' = [ages EXCEPT !.week = @ + 1]
    /\ UNCHANGED <<jobs, rows, vms, alerts, push>>

-----------------------------------------------------------------------------
(* evaluateProxmoxBackupAlerts: the calls one evaluation makes, in order *)

Create(t, v, since) == [op |-> "create", title |-> t, vm |-> v, since |-> since]
Resolve(t, v) == [op |-> "resolve", title |-> t, vm |-> v, since |-> 0]

Bad(r) == r.status \in {"failed", "warning"}
OkAfter(i, v) == \E j \in (i + 1)..Len(rows) : rows[j].status = "ok" /\ rows[j].vm = v

\* A newer success of the same guest, or of any guest for a job without vmid.
RecoveredSince(i) ==
    \/ rows[i].vm # NoVm /\ OkAfter(i, rows[i].vm)
    \/ rows[i].vm = NoVm /\ \E v \in Vm : OkAfter(i, v)

Recent(i) == i > ages.week \/ rows[i].status = "running"
TooLong(i) == rows[i].status = "running" /\ i <= ages.long

\* Mutant: a failed job is alerted whatever came after it.
JobCallsUnrecovered(i) ==
    IF Bad(rows[i]) THEN <<Create(rows[i].status, rows[i].vm, i)>>
    ELSE IF TooLong(i) THEN <<Create("long", rows[i].vm, 0)>> ELSE <<>>

JobCalls(i) ==
    CASE ~Recent(i) -> <<>>
      [] Recent(i) /\ Bad(rows[i]) ->
           IF RecoveredSince(i)
             THEN <<Resolve("failed", rows[i].vm), Resolve("warning", rows[i].vm)>>
             ELSE <<Create(rows[i].status, rows[i].vm, i)>>
      [] OTHER -> IF TooLong(i) THEN <<Create("long", rows[i].vm, 0)>> ELSE <<>>

NoLongerLong ==
    {rows[i].vm : i \in {j \in 1..Len(rows) : Recent(j)}}
        \ {rows[i].vm : i \in {j \in 1..Len(rows) : TooLong(j)}}

HasBaseline(v) == \E i \in 1..Len(rows) : rows[i].vm = v
FreshOk(v) == \E i \in (ages.stale + 1)..Len(rows) : rows[i].vm = v /\ rows[i].status = "ok"

\* Mutant: any success ever known counts as fresh.
MissingCallAnySuccess(v) ==
    IF HasBaseline(v) /\ ~\E i \in 1..Len(rows) : rows[i].vm = v /\ rows[i].status = "ok"
      THEN Create("missing", v, 0) ELSE Resolve("missing", v)
MissingCall(v) ==
    IF HasBaseline(v) /\ ~FreshOk(v) THEN Create("missing", v, 0) ELSE Resolve("missing", v)

\* One group of calls per job, one for the jobs that ended, one for the guests.
Evaluation ==
    [i \in 1..Len(rows) |-> JobCalls(i)]
        \o <<SetToSeq({Resolve("long", v) : v \in NoLongerLong}),
             SetToSeq({MissingCall(v) : v \in vms})>>

\* The plan from its next call on: a group that gives none, or no other, passes by.
Left(plan) ==
    LET todo == {i \in DOMAIN plan : plan[i] # <<>>}
    IN IF todo = {} THEN <<>> ELSE SubSeq(plan, Min(todo), Len(plan))

\* After the last call the push ends.
Pushing(plan) ==
    LET left == Left(plan)
    IN IF left = <<>> THEN IdlePush ELSE [step |-> "call", plan |-> left]

-----------------------------------------------------------------------------
(* The push *)

\* The report of the agent: its jobs and any guests.  A list the agent could
\* not collect is left out, and the backend then keeps what it has.
Sync ==
    /\ push.step = "idle"
    /\ rows' \in {rows, jobs}
    /\ vms' \in SUBSET Vm
    /\ push' = [push EXCEPT !.step = "evaluate"]
    /\ UNCHANGED <<jobs, ages, alerts>>

Evaluate ==
    /\ push.step = "evaluate"
    /\ \E plan \in {Evaluation} : push' = Pushing(plan)
    /\ UNCHANGED <<jobs, ages, rows, vms, alerts>>

\* Mutant: a closing dated a job too late.
ClosedLate(a) == [open |-> FALSE, closedAt |-> IF a.open THEN Len(jobs) + 1 ELSE a.closedAt]
Closed(a) == IF a.open THEN [open |-> FALSE, closedAt |-> Len(jobs)] ELSE a

\* Mutant: the start of the incident is not looked at.
SticksNever(a, since) == FALSE
Sticks(a, since) == since # 0 /\ a.closedAt # 0 /\ a.closedAt >= since

Reported(a, since) ==
    IF ~a.open /\ Sticks(a, since) THEN a ELSE [open |-> TRUE, closedAt |-> 0]

\* create() refreshes, reopens or inserts, unless the closing sticks;
\* onIssueResolved() closes every open alert whose title contains the text.
CallAlerts ==
    LET c == Head(Head(push.plan))
    IN
    /\ push.step = "call"
    /\ \/ /\ c.op = "create"
          /\ alerts' = [alerts EXCEPT ![c.title][c.vm] = Reported(@, c.since)]
       \/ /\ c.op = "resolve"
          /\ alerts' = [alerts EXCEPT ![c.title] = [v \in Label |->
                          IF v \in Containing[c.vm] THEN Closed(@[v]) ELSE @[v]]]
    /\ \E plan \in {[push.plan EXCEPT ![1] = Tail(@)]} : push' = Pushing(plan)
    /\ UNCHANGED <<jobs, ages, rows, vms>>

CloseByHand ==
    /\ \E t \in HandClosed, v \in Label :
         alerts[t][v].open /\ alerts' = [alerts EXCEPT ![t][v] = Closed(@)]
    /\ UNCHANGED <<jobs, ages, rows, vms, push>>

PushStep == Evaluate \/ CallAlerts
Next ==
    \/ StartJob \/ EndJob \/ Age
    \/ Sync \/ PushStep \/ CloseByHand

Spec == Init /\ [][Next]_vars

\* The host stays up: its agent keeps pushing, and the event loop runs every
\* continuation.
FairSpec == Spec /\ WF_vars(Sync) /\ WF_vars(PushStep)

-----------------------------------------------------------------------------
(* Properties *)

Jobs(n) == UNION {[1..k -> Job] : k \in 0..n}

TypeOK ==
    /\ jobs \in Jobs(MaxJobs) /\ rows \in Jobs(MaxJobs)
    /\ vms \subseteq Vm
    /\ ages \in [long: 0..MaxJobs, stale: 0..MaxJobs, week: 0..MaxJobs]
    /\ alerts \in [Title -> [Label -> [open: BOOLEAN, closedAt: 0..MaxJobs]]]
    /\ push \in [step: {"idle", "evaluate", "call"}, plan: Seq(Seq(Call))]

\* "manual close must stick until a newer failure": an alert about failed jobs
\* comes back only for a job started after it was closed.
ClosedFailureStaysClosed ==
    [][\A t \in {"failed", "warning"}, v \in Label :
         alerts'[t][v].open /\ ~alerts[t][v].open
           => \E i \in (alerts[t][v].closedAt + 1)..Len(rows) : Bad(rows[i]) /\ rows[i].vm = v]_vars

RecentlyBad(v) == {i \in (ages.week + 1)..Len(rows) : Bad(rows[i]) /\ rows[i].vm = v}

\* Once a newer job succeeded after every recent failure, the failure alerts end;
\* and a guest with a fresh success is not alerted as missing one.
RecoveryEndsAlerts ==
    \A v \in Label :
        /\ <>[](RecentlyBad(v) # {} /\ \A i \in RecentlyBad(v) : RecoveredSince(i))
             => <>[](~alerts["failed"][v].open /\ ~alerts["warning"][v].open)
        /\ v \in Vm => (<>[](v \in vms /\ FreshOk(v)) => <>[]~alerts["missing"][v].open)

Long(v) == \E i \in 1..Len(rows) : TooLong(i) /\ rows[i].vm = v

\* What lasts is alerted, again and again if operators close the alert: a guest
\* once backed up and without success for 48 hours, and a job that runs for more
\* than six hours, whose alert ends when it does whatever other jobs of the guest do.
LastingTroubleIsAlerted ==
    \A v \in Label :
        /\ v \in Vm => (<>[](v \in vms /\ HasBaseline(v) /\ ~FreshOk(v)) => []<>alerts["missing"][v].open)
        /\ <>[]Long(v) => []<>alerts["long"][v].open
        /\ <>[](~Long(v) /\ \E i \in 1..Len(rows) : Recent(i) /\ rows[i].vm = v)
             => <>[]~alerts["long"][v].open

\* "Backup failed: CRITICAL": a guest whose last jobs failed, with no success
\* since, is alerted unless an operator closes the alert.
FailedBackupIsAlerted ==
    \A v \in Vm :
        <>[](\E i \in RecentlyBad(v) : rows[i].status = "failed" /\ ~RecoveredSince(i))
            => []<>alerts["failed"][v].open
=============================================================================
