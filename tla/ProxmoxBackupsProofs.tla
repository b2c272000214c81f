------------------------ MODULE ProxmoxBackupsProofs ------------------------
(***************************************************************************)
(* Proofs about ProxmoxBackups, for any guests, overlaps of their labels,  *)
(* alerts closed by hand and bound on the jobs.                            *)
(***************************************************************************)
EXTENDS ProxmoxBackups, SequenceTheorems, FiniteSetTheorems, TLAPS

-----------------------------------------------------------------------------
(* The sequences of a plan *)

LEMMA LeastOfSome ==
    ASSUME NEW S, S \subseteq Nat, S # {}
    PROVE  Min(S) \in S /\ \A y \in S : Min(S) <= y
<1>1. PICK x \in S : \A y \in S : ~(<<y, x>> \in OpToRel(<, Nat))
    BY WFMin, NatLessThanWellFounded
<1>2. \A y \in S : ~(y < x)
    BY <1>1 DEF OpToRel
<1>3. \A y \in S : x <= y
    BY <1>2
<1> QED
    BY <1>3 DEF Min

LEMMA EnumerationType ==
    ASSUME NEW S, IsFiniteSet(S)
    PROVE  SetToSeq(S) \in Seq(S)
<1>1. Cardinality(S) \in Nat /\ ExistsBijection(1..Cardinality(S), S)
    BY FS_CardinalityType
<1>2. PICK f \in [1..Cardinality(S) -> S] : IsInjective(f)
    BY <1>1 DEF ExistsBijection, Bijection, Injection
<1>3. SetToSeq(S) \in [1..Cardinality(S) -> S]
    BY <1>2 DEF SetToSeq
<1> QED
    BY <1>1, <1>3

LEMMA LeftType ==
    ASSUME NEW S, NEW plan \in Seq(Seq(S))
    PROVE  /\ Left(plan) \in Seq(Seq(S))
           /\ Left(plan) # <<>> => Left(plan)[1] # <<>>
<1> DEFINE todo == {i \in DOMAIN plan : plan[i] # <<>>}
<1>1. CASE todo = {}
    BY <1>1 DEF Left
<1>2. CASE todo # {}
    <2>1. Left(plan) = SubSeq(plan, Min(todo), Len(plan))
        BY <1>2 DEF Left
    <2>2. todo \subseteq 1..Len(plan)
        OBVIOUS
    <2>3. Min(todo) \in todo
        <3>1. todo \subseteq Nat
            BY <2>2
        <3> HIDE DEF todo
        <3> QED
            BY <1>2, <3>1, LeastOfSome
    <2>4. Min(todo) \in 1..Len(plan) /\ plan[Min(todo)] # <<>>
        BY <2>3
    <2> HIDE DEF todo
    <2> DEFINE m == Min(todo)
    <2>5. m \in Int /\ Len(plan) \in Int /\ m <= Len(plan) /\ m >= 1 /\ plan[m] # <<>>
        BY <2>4
    <2>6. \A i \in m..Len(plan) : plan[i] \in Seq(S)
        BY <2>5
    <2> HIDE DEF m
    <2> DEFINE left == SubSeq(plan, m, Len(plan))
    <2>7. left \in Seq(Seq(S))
        BY <2>5, <2>6, SubSeqProperties
    <2>8. \A i \in 1..Len(plan) - m + 1 : left[i] = plan[m + i - 1]
        BY <2>5, <2>6, SubSeqProperties
    <2>9. left[1] = plan[m]
        <3>1. 1 \in 1..Len(plan) - m + 1 /\ m + 1 - 1 = m
            BY <2>5
        <3> HIDE DEF left
        <3> QED
            BY <2>8, <3>1
    <2> QED
        BY <2>1, <2>5, <2>7, <2>9 DEF m
<1> QED
    BY <1>1, <1>2

LEMMA TailStays ==
    ASSUME NEW S, NEW plan \in Seq(Seq(S)), plan # <<>>, plan[1] # <<>>
    PROVE  /\ Head(Head(plan)) \in S
           /\ [plan EXCEPT ![1] = Tail(@)] \in Seq(Seq(S))
<1>1. 1 \in 1..Len(plan) /\ plan[1] \in Seq(S) /\ Head(plan) = plan[1]
    OBVIOUS
<1>2. Head(plan[1]) \in S /\ Tail(plan[1]) \in Seq(S)
    BY <1>1, HeadTailProperties
<1>3. [plan EXCEPT ![1] = Tail(plan[1])] \in Seq(Seq(S))
    BY <1>1, <1>2, ExceptSeq
<1> QED
    BY <1>1, <1>2, <1>3

LEMMA JobsAreSequences ==
    ASSUME NEW n \in Nat
    PROVE  \A s : s \in Jobs(n) <=> s \in Seq(Job) /\ Len(s) <= n
<1>1. ASSUME NEW s \in Jobs(n) PROVE s \in Seq(Job) /\ Len(s) <= n
    <2>1. PICK k \in 0..n : s \in [1..k -> Job]
        BY <1>1 DEF Jobs
    <2> QED
        BY <2>1
<1>2. ASSUME NEW s \in Seq(Job), Len(s) <= n PROVE s \in Jobs(n)
    <2>1. Len(s) \in 0..n /\ s \in [1..Len(s) -> Job]
        BY <1>2
    <2> QED
        BY <2>1 DEF Jobs
<1> QED
    BY <1>1, <1>2

-----------------------------------------------------------------------------
(* The inductive invariant *)

\* A call that raises an alert about failed jobs is about a job of the table.
Grounded ==
    {c \in Call : c.op = "create" /\ c.title \in {"failed", "warning"} =>
        c.since \in 1..Len(rows) /\ Bad(rows[c.since]) /\ rows[c.since].vm = c.vm}

\* A push that calls has a call to make; any other has no plan.
PlanGrounded ==
    /\ push.plan \in Seq(Seq(Grounded))
    /\ push.plan # <<>> <=> push.step = "call"
    /\ push.plan # <<>> => push.plan[1] # <<>>

PushInv == TypeOK /\ PlanGrounded

LEMMA GroundedCalls == Grounded \subseteq Call
    BY DEF Grounded

LEMMA PlanTyped ==
    ASSUME NEW plan \in Seq(Seq(Grounded))
    PROVE  plan \in Seq(Seq(Call))
<1>1. \A g \in Seq(Grounded) : g \in Seq(Call)
    BY GroundedCalls
<1> QED
    BY <1>1

\* What Pushing leaves is a push.
LEMMA PushingGrounded ==
    ASSUME NEW plan \in Seq(Seq(Grounded))
    PROVE  /\ Pushing(plan) \in [step: {"idle", "call"}, plan: Seq(Seq(Grounded))]
           /\ Pushing(plan).plan # <<>> <=> Pushing(plan).step = "call"
           /\ Pushing(plan).plan # <<>> => Pushing(plan).plan[1] # <<>>
<1>1. Left(plan) \in Seq(Seq(Grounded)) /\ (Left(plan) # <<>> => Left(plan)[1] # <<>>)
    BY LeftType
<1>2. CASE Left(plan) = <<>>
    <2>1. Pushing(plan) = [step |-> "idle", plan |-> <<>>]
        BY <1>2 DEF Pushing, IdlePush
    <2> QED
        BY <2>1
<1>3. CASE Left(plan) # <<>>
    <2>1. Pushing(plan) = [step |-> "call", plan |-> Left(plan)]
        BY <1>3 DEF Pushing
    <2> QED
        BY <1>1, <1>3, <2>1
<1> QED
    BY <1>2, <1>3

-----------------------------------------------------------------------------
(* What an evaluation plans *)

LEMMA LabelsAreFinite == IsFiniteSet(Label)
<1>1. IsFiniteSet({NoVm})
    BY FS_Singleton
<1> QED
    BY <1>1, VmAssumption, FS_Union DEF Label

LEMMA ImagesAreFinite ==
    ASSUME NEW S, IsFiniteSet(S), NEW f, DOMAIN f = S
    PROVE  IsFiniteSet({f[x] : x \in S})
<1>1. f \in Surjection(S, {f[x] : x \in S}) \/ [x \in S |-> f[x]] \in Surjection(S, {f[x] : x \in S})
    BY DEF Surjection
<1> QED
    BY <1>1, FS_Surjection

LEMMA CallsAreGrounded ==
    /\ \A t \in Title, v \in Label : Resolve(t, v) \in Grounded
    /\ \A v \in Label : Create("long", v, 0) \in Grounded /\ Create("missing", v, 0) \in Grounded
<1>1. 0 \in 0..MaxJobs
    BY BoundsAssumption
<1>2. \A t \in Title, v \in Label : Resolve(t, v) \in Grounded
    BY <1>1 DEF Resolve, Grounded, Call
<1>3. \A v \in Label : Create("long", v, 0) \in Grounded /\ Create("missing", v, 0) \in Grounded
    BY <1>1 DEF Create, Grounded, Call, Title
<1> QED
    BY <1>2, <1>3

LEMMA RowsType ==
    ASSUME TypeOK
    PROVE  /\ rows \in Seq(Job) /\ Len(rows) \in Nat /\ Len(rows) <= MaxJobs
           /\ \A i \in 1..Len(rows) : rows[i] \in Job /\ rows[i].vm \in Label
<1>1. rows \in Seq(Job) /\ Len(rows) <= MaxJobs
    BY BoundsAssumption, JobsAreSequences DEF TypeOK
<1>2. \A i \in 1..Len(rows) : rows[i] \in Job
    BY <1>1
<1>3. \A i \in 1..Len(rows) : rows[i].vm \in Label
    BY <1>2 DEF Job
<1>4. Len(rows) \in Nat
    BY <1>1
<1> QED
    BY <1>1, <1>2, <1>3, <1>4

LEMMA JobCallsGrounded ==
    ASSUME TypeOK, NEW i \in 1..Len(rows)
    PROVE  JobCalls(i) \in Seq(Grounded)
<1>1. rows[i].vm \in Label /\ i \in 0..MaxJobs
    BY RowsType, BoundsAssumption
<1>2. Resolve("failed", rows[i].vm) \in Grounded /\ Resolve("warning", rows[i].vm) \in Grounded
    BY <1>1, CallsAreGrounded DEF Title
<1>3. Create("long", rows[i].vm, 0) \in Grounded
    BY <1>1, CallsAreGrounded
<1>4. ASSUME Bad(rows[i]) PROVE Create(rows[i].status, rows[i].vm, i) \in Grounded
    <2>1. Create(rows[i].status, rows[i].vm, i) \in Call
        BY <1>1, <1>4 DEF Create, Call, Title, Bad
    <2> QED
        BY <1>4, <2>1 DEF Create, Grounded
<1>5. CASE ~Recent(i)
    BY <1>5 DEF JobCalls
<1>6. CASE Recent(i) /\ Bad(rows[i])
    <2>1. CASE RecoveredSince(i)
        <3>1. JobCalls(i) = <<Resolve("failed", rows[i].vm), Resolve("warning", rows[i].vm)>>
            BY <1>6, <2>1 DEF JobCalls
        <3> QED
            BY <1>2, <3>1
    <2>2. CASE ~RecoveredSince(i)
        <3>1. JobCalls(i) = <<Create(rows[i].status, rows[i].vm, i)>>
            BY <1>6, <2>2 DEF JobCalls
        <3> QED
            BY <1>4, <1>6, <3>1
    <2> QED
        BY <2>1, <2>2
<1>7. CASE Recent(i) /\ ~Bad(rows[i])
    <2>1. JobCalls(i) = IF TooLong(i) THEN <<Create("long", rows[i].vm, 0)>> ELSE <<>>
        BY <1>7 DEF JobCalls
    <2> QED
        BY <1>3, <2>1
<1> QED
    BY <1>5, <1>6, <1>7

LEMMA EvaluationGrounded ==
    ASSUME TypeOK
    PROVE  Evaluation \in Seq(Seq(Grounded))
<1> DEFINE perJob == [i \in 1..Len(rows) |-> JobCalls(i)]
           ended == {Resolve("long", v) : v \in NoLongerLong}
           guests == {MissingCall(v) : v \in vms}
<1>1. perJob \in Seq(Seq(Grounded))
    BY JobCallsGrounded, RowsType
<1>2. SetToSeq(ended) \in Seq(Grounded)
    <2>1. NoLongerLong \subseteq Label
        BY RowsType DEF NoLongerLong
    <2>2. IsFiniteSet(NoLongerLong)
        BY <2>1, LabelsAreFinite, FS_Subset
    <2> DEFINE f == [v \in NoLongerLong |-> Resolve("long", v)]
    <2>3. IsFiniteSet({f[v] : v \in NoLongerLong})
        BY <2>2, ImagesAreFinite
    <2>4. ended = {f[v] : v \in NoLongerLong}
        OBVIOUS
    <2>5. ended \subseteq Grounded
        BY <2>1, CallsAreGrounded DEF Title
    <2>6. SetToSeq(ended) \in Seq(ended)
        BY <2>3, <2>4, EnumerationType
    <2> HIDE DEF ended
    <2> QED
        BY <2>5, <2>6
<1>3. SetToSeq(guests) \in Seq(Grounded)
    <2>1. vms \subseteq Vm /\ IsFiniteSet(vms)
        BY VmAssumption, FS_Subset DEF TypeOK
    <2> DEFINE f == [v \in vms |-> MissingCall(v)]
    <2>2. IsFiniteSet({f[v] : v \in vms})
        BY <2>1, ImagesAreFinite
    <2>3. guests = {f[v] : v \in vms}
        OBVIOUS
    <2>4. guests \subseteq Grounded
        <3>1. vms \subseteq Label
            BY <2>1 DEF Label
        <3> QED
            BY <3>1, CallsAreGrounded DEF MissingCall, Title
    <2>5. SetToSeq(guests) \in Seq(guests)
        BY <2>2, <2>3, EnumerationType
    <2> HIDE DEF guests
    <2> QED
        BY <2>4, <2>5
<1>4. Evaluation = perJob \o <<SetToSeq(ended), SetToSeq(guests)>>
    BY DEF Evaluation
<1> HIDE DEF perJob, ended, guests
<1>5. <<SetToSeq(ended), SetToSeq(guests)>> \in Seq(Seq(Grounded))
    BY <1>2, <1>3
<1> QED
    BY <1>1, <1>4, <1>5, ConcatProperties

-----------------------------------------------------------------------------
(* The invariant is inductive *)

LEMMA AlertRows ==
    ASSUME TypeOK, NEW t \in Title, NEW v \in Label
    PROVE  /\ alerts[t][v] \in [open: BOOLEAN, closedAt: 0..MaxJobs]
           /\ Closed(alerts[t][v]) \in [open: BOOLEAN, closedAt: 0..MaxJobs]
           /\ \A since : Reported(alerts[t][v], since) \in [open: BOOLEAN, closedAt: 0..MaxJobs]
<1>1. alerts[t][v] \in [open: BOOLEAN, closedAt: 0..MaxJobs]
    BY DEF TypeOK
<1>2. 0 \in 0..MaxJobs /\ Len(jobs) \in 0..MaxJobs
    BY BoundsAssumption, JobsAreSequences DEF TypeOK
<1>3. Closed(alerts[t][v]) \in [open: BOOLEAN, closedAt: 0..MaxJobs]
    BY <1>1, <1>2 DEF Closed
<1>4. \A since : Reported(alerts[t][v], since) \in [open: BOOLEAN, closedAt: 0..MaxJobs]
    BY <1>1, <1>2 DEF Reported
<1> QED
    BY <1>1, <1>3, <1>4

\* Nothing that leaves the table of jobs and the push alone disturbs the plan.
LEMMA PlanKept ==
    ASSUME PlanGrounded, UNCHANGED <<rows, push>>
    PROVE  PlanGrounded'
<1>1. Grounded' = Grounded
    BY DEF Grounded, Call, Bad
<1> QED
    BY <1>1 DEF PlanGrounded

\* The step of a push that sets what Pushing leaves of a plan.
LEMMA PushingKeeps ==
    ASSUME NEW plan \in Seq(Seq(Grounded)), push' = Pushing(plan), UNCHANGED rows
    PROVE  /\ push' \in [step: {"idle", "evaluate", "call"}, plan: Seq(Seq(Call))]
           /\ PlanGrounded'
<1>1. Grounded' = Grounded
    BY DEF Grounded, Call, Bad
<1>2. /\ push' \in [step: {"idle", "call"}, plan: Seq(Seq(Grounded))]
      /\ push'.plan # <<>> <=> push'.step = "call"
      /\ push'.plan # <<>> => push'.plan[1] # <<>>
    BY PushingGrounded
<1>3. push'.plan \in Seq(Seq(Grounded)) /\ push'.step \in {"idle", "evaluate", "call"}
    BY <1>2
<1>4. push'.plan \in Seq(Seq(Call))
    BY <1>3, PlanTyped
<1>5. push' = [step |-> push'.step, plan |-> push'.plan]
    BY <1>2
<1>6. push' \in [step: {"idle", "evaluate", "call"}, plan: Seq(Seq(Call))]
    BY <1>3, <1>4, <1>5
<1> QED
    BY <1>1, <1>2, <1>3, <1>6 DEF PlanGrounded

LEMMA InitPush == Init => PushInv
<1> SUFFICES ASSUME Init PROVE PushInv
    OBVIOUS
<1>1. jobs \in Jobs(MaxJobs) /\ rows \in Jobs(MaxJobs)
    <2>1. <<>> \in Seq(Job) /\ Len(<<>>) <= MaxJobs
        BY BoundsAssumption
    <2>2. <<>> \in Jobs(MaxJobs)
        BY <2>1, BoundsAssumption, JobsAreSequences
    <2> QED
        BY <2>2 DEF Init
<1>2. 0 \in 0..MaxJobs
    BY BoundsAssumption
<1>3. /\ vms \subseteq Vm
      /\ ages \in [long: 0..MaxJobs, stale: 0..MaxJobs, week: 0..MaxJobs]
      /\ alerts \in [Title -> [Label -> [open: BOOLEAN, closedAt: 0..MaxJobs]]]
    BY <1>2 DEF Init
<1>4. push \in [step: {"idle", "evaluate", "call"}, plan: Seq(Seq(Call))]
    BY DEF Init, IdlePush
<1>5. PlanGrounded
    BY DEF Init, IdlePush, PlanGrounded
<1> QED
    BY <1>1, <1>3, <1>4, <1>5 DEF PushInv, TypeOK

LEMMA StartJobKeeps == PushInv /\ StartJob => PushInv'
<1> SUFFICES ASSUME PushInv, StartJob PROVE PushInv'
    OBVIOUS
<1>1. PICK v \in JobLabels : jobs' = Append(jobs, [vm |-> v, status |-> "running"])
    BY DEF StartJob
<1>2. [vm |-> v, status |-> "running"] \in Job
    BY JobLabelsAssumption DEF Job
<1>3. jobs \in Seq(Job) /\ Len(jobs) < MaxJobs
    BY BoundsAssumption, JobsAreSequences DEF StartJob, PushInv, TypeOK
<1>4. jobs' \in Seq(Job) /\ Len(jobs') = Len(jobs) + 1
    BY <1>1, <1>2, <1>3
<1>5. jobs' \in Jobs(MaxJobs)
    BY <1>3, <1>4, BoundsAssumption, JobsAreSequences
<1>6. TypeOK'
    BY <1>5 DEF StartJob, PushInv, TypeOK
<1> QED
    BY <1>6, PlanKept DEF StartJob, PushInv

LEMMA EndJobKeeps == PushInv /\ EndJob => PushInv'
<1> SUFFICES ASSUME PushInv, EndJob PROVE PushInv'
    OBVIOUS
<1>1. PICK i \in 1..Len(jobs), st \in {"ok", "failed", "warning"} :
          jobs' = [jobs EXCEPT ![i].status = st]
    BY DEF EndJob
<1>2. jobs \in Seq(Job) /\ Len(jobs) <= MaxJobs
    BY BoundsAssumption, JobsAreSequences DEF PushInv, TypeOK
<1>3. [jobs[i] EXCEPT !.status = st] \in Job
    <2>1. jobs[i] \in Job
        BY <1>2
    <2> QED
        BY <2>1 DEF Job
<1>4. jobs' = [jobs EXCEPT ![i] = [jobs[i] EXCEPT !.status = st]]
    BY <1>1
<1>5. jobs' \in Seq(Job) /\ Len(jobs') = Len(jobs)
    BY <1>2, <1>3, <1>4, ExceptSeq
<1>6. jobs' \in Jobs(MaxJobs)
    BY <1>2, <1>5, BoundsAssumption, JobsAreSequences
<1>7. TypeOK'
    BY <1>6 DEF EndJob, PushInv, TypeOK
<1> QED
    BY <1>7, PlanKept DEF EndJob, PushInv

LEMMA AgeKeeps == PushInv /\ Age => PushInv'
<1> SUFFICES ASSUME PushInv, Age PROVE PushInv'
    OBVIOUS
<1>1. Len(jobs) \in Nat /\ Len(jobs) <= MaxJobs
    BY BoundsAssumption, JobsAreSequences DEF PushInv, TypeOK
<1>2. ages \in [long: 0..MaxJobs, stale: 0..MaxJobs, week: 0..MaxJobs]
    BY DEF PushInv, TypeOK
<1>3. ages' \in [long: 0..MaxJobs, stale: 0..MaxJobs, week: 0..MaxJobs]
    <2>1. CASE ages.long < Len(jobs) /\ ages' = [ages EXCEPT !.long = @ + 1]
        BY <1>1, <1>2, <2>1, BoundsAssumption
    <2>2. CASE ages.stale < ages.long /\ ages' = [ages EXCEPT !.stale = @ + 1]
        BY <1>2, <2>2, BoundsAssumption
    <2>3. CASE ages.week < ages.stale /\ ages' = [ages EXCEPT !.week = @ + 1]
        BY <1>2, <2>3, BoundsAssumption
    <2> QED
        BY <2>1, <2>2, <2>3 DEF Age
<1>4. TypeOK'
    BY <1>3 DEF Age, PushInv, TypeOK
<1> QED
    BY <1>4, PlanKept DEF Age, PushInv

LEMMA SyncKeeps == PushInv /\ Sync => PushInv'
<1> SUFFICES ASSUME PushInv, Sync PROVE PushInv'
    OBVIOUS
<1>1. push.step = "idle" /\ push.plan = <<>>
    BY DEF Sync, PushInv, PlanGrounded
<1>2. push' = [step |-> "evaluate", plan |-> <<>>]
    BY <1>1 DEF Sync, PushInv, TypeOK
<1>3. rows' \in Jobs(MaxJobs)
    BY DEF Sync, PushInv, TypeOK
<1>4. push' \in [step: {"idle", "evaluate", "call"}, plan: Seq(Seq(Call))]
    BY <1>2
<1>5. vms' \subseteq Vm
    BY DEF Sync
<1>6. TypeOK'
    BY <1>3, <1>4, <1>5 DEF Sync, PushInv, TypeOK
<1>7. PlanGrounded'
    BY <1>2 DEF PlanGrounded
<1> QED
    BY <1>6, <1>7 DEF PushInv

LEMMA EvaluateKeeps == PushInv /\ Evaluate => PushInv'
<1> SUFFICES ASSUME PushInv, Evaluate PROVE PushInv'
    OBVIOUS
<1>1. Evaluation \in Seq(Seq(Grounded))
    BY EvaluationGrounded DEF PushInv
<1>2. push' = Pushing(Evaluation) /\ UNCHANGED rows
    BY DEF Evaluate
<1>3. /\ push' \in [step: {"idle", "evaluate", "call"}, plan: Seq(Seq(Call))]
      /\ PlanGrounded'
    BY <1>1, <1>2, PushingKeeps
<1>4. TypeOK'
    BY <1>3 DEF Evaluate, PushInv, TypeOK
<1> QED
    BY <1>3, <1>4 DEF PushInv

LEMMA CallAlertsKeeps == PushInv /\ CallAlerts => PushInv'
<1> SUFFICES ASSUME PushInv, CallAlerts PROVE PushInv'
    OBVIOUS
<1> DEFINE c == Head(Head(push.plan))
           left == [push.plan EXCEPT ![1] = Tail(@)]
<1>1. push.plan \in Seq(Seq(Grounded)) /\ push.plan # <<>> /\ push.plan[1] # <<>>
    BY DEF CallAlerts, PushInv, PlanGrounded
<1>2. c \in Grounded /\ left \in Seq(Seq(Grounded))
    BY <1>1, TailStays
<1>3. push' = Pushing(left) /\ UNCHANGED rows
    BY DEF CallAlerts
<1>4. /\ push' \in [step: {"idle", "evaluate", "call"}, plan: Seq(Seq(Call))]
      /\ PlanGrounded'
    <2> HIDE DEF left
    <2> QED
        BY <1>2, <1>3, PushingKeeps
<1>5. c.title \in Title /\ c.vm \in Label
    BY <1>2, GroundedCalls DEF Call
<1>6. alerts \in [Title -> [Label -> [open: BOOLEAN, closedAt: 0..MaxJobs]]]
    BY DEF PushInv, TypeOK
<1>7. alerts' \in [Title -> [Label -> [open: BOOLEAN, closedAt: 0..MaxJobs]]]
    <2>1. CASE alerts' = [alerts EXCEPT ![c.title][c.vm] = Reported(@, c.since)]
        <3> DEFINE row == Reported(alerts[c.title][c.vm], c.since)
        <3>1. row \in [open: BOOLEAN, closedAt: 0..MaxJobs]
            BY <1>5, AlertRows DEF PushInv
        <3>2. alerts' = [alerts EXCEPT ![c.title][c.vm] = row]
            BY <2>1
        <3> HIDE DEF row, c
        <3> QED
            BY <1>6, <3>1, <3>2
    <2>2. CASE alerts' = [alerts EXCEPT ![c.title] = [v \in Label |->
                            IF v \in Containing[c.vm] THEN Closed(@[v]) ELSE @[v]]]
        <3> DEFINE title == c.title
                   closings == [v \in Label |-> IF v \in Containing[c.vm]
                                  THEN Closed(alerts[title][v]) ELSE alerts[title][v]]
        <3>1. \A v \in Label :
                  /\ alerts[title][v] \in [open: BOOLEAN, closedAt: 0..MaxJobs]
                  /\ Closed(alerts[title][v]) \in [open: BOOLEAN, closedAt: 0..MaxJobs]
            BY <1>5, AlertRows DEF PushInv
        <3>2. closings \in [Label -> [open: BOOLEAN, closedAt: 0..MaxJobs]]
            <4> HIDE DEF title, c
            <4> QED
                BY <3>1
        <3>3. alerts' = [alerts EXCEPT ![title] = closings]
            BY <2>2
        <3> HIDE DEF closings, title
        <3> QED
            BY <1>6, <3>2, <3>3
    <2> QED
        BY <2>1, <2>2 DEF CallAlerts
<1>8. TypeOK'
    BY <1>4, <1>7 DEF CallAlerts, PushInv, TypeOK
<1> QED
    BY <1>4, <1>8 DEF PushInv

LEMMA CloseByHandKeeps == PushInv /\ CloseByHand => PushInv'
<1> SUFFICES ASSUME PushInv, CloseByHand PROVE PushInv'
    OBVIOUS
<1>1. PICK t \in HandClosed, v \in Label : alerts' = [alerts EXCEPT ![t][v] = Closed(@)]
    BY DEF CloseByHand
<1>2. t \in Title
    BY HandClosedAssumption DEF Title
<1>3. Closed(alerts[t][v]) \in [open: BOOLEAN, closedAt: 0..MaxJobs]
    BY <1>2, AlertRows DEF PushInv
<1>4. alerts \in [Title -> [Label -> [open: BOOLEAN, closedAt: 0..MaxJobs]]]
    BY DEF PushInv, TypeOK
<1>5. alerts' \in [Title -> [Label -> [open: BOOLEAN, closedAt: 0..MaxJobs]]]
    BY <1>1, <1>2, <1>3, <1>4
<1>6. TypeOK'
    BY <1>5 DEF CloseByHand, PushInv, TypeOK
<1> QED
    BY <1>6, PlanKept DEF CloseByHand, PushInv

LEMMA PushInvariant == Spec => []PushInv
<1>1. PushInv /\ [Next]_vars => PushInv'
    <2> SUFFICES ASSUME PushInv, [Next]_vars PROVE PushInv'
        OBVIOUS
    <2>1. CASE UNCHANGED vars
        <3>1. TypeOK'
            BY <2>1 DEF vars, PushInv, TypeOK
        <3> QED
            BY <2>1, <3>1, PlanKept DEF vars, PushInv
    <2> QED
        BY <2>1, StartJobKeeps, EndJobKeeps, AgeKeeps, SyncKeeps, EvaluateKeeps,
           CallAlertsKeeps, CloseByHandKeeps DEF Next, PushStep
<1> QED
    BY InitPush, <1>1, PTL DEF Spec

-----------------------------------------------------------------------------
(* The results *)

\* Whatever the host reports and operators close, the jobs, the ages, the table,
\* the alerts and the plan of the push keep their shapes (the whole push of
\* agent.service.ts).
THEOREM TypeCorrect == Spec => []TypeOK
BY PushInvariant, PTL DEF PushInv

\* An alert about failed jobs is raised or comes back only for a job of the table
\* that failed, about the guest of the alert, started after the alert was last
\* closed: a manual closing sticks until a newer failure (incidentSince of
\* evaluateProxmoxBackupAlerts against the closing that create() finds).
THEOREM ClosingsStick == Spec => ClosedFailureStaysClosed
<1> DEFINE Step ==
        \A t \in {"failed", "warning"}, v \in Label :
            alerts'[t][v].open /\ ~alerts[t][v].open
              => \E i \in (alerts[t][v].closedAt + 1)..Len(rows) :
                    Bad(rows[i]) /\ rows[i].vm = v
<1>1. PushInv /\ [Next]_vars => [Step]_vars
    <2> SUFFICES ASSUME PushInv, Next,
                        NEW t \in {"failed", "warning"}, NEW v \in Label,
                        alerts'[t][v].open, ~alerts[t][v].open
                 PROVE  \E i \in (alerts[t][v].closedAt + 1)..Len(rows) :
                            Bad(rows[i]) /\ rows[i].vm = v
        OBVIOUS
    <2>1. t \in Title /\ alerts \in [Title -> [Label -> [open: BOOLEAN, closedAt: 0..MaxJobs]]]
        BY DEF Title, PushInv, TypeOK
    <2>2. ~UNCHANGED alerts
        OBVIOUS
    <2>3. ~CloseByHand
        <3> SUFFICES ASSUME NEW u \in HandClosed, NEW w \in Label,
                            alerts' = [alerts EXCEPT ![u][w] = Closed(@)]
                     PROVE  FALSE
            BY DEF CloseByHand
        <3>1. u \in Title
            BY HandClosedAssumption DEF Title
        <3>2. ~Closed(alerts[u][w]).open
            BY <2>1, <3>1 DEF Closed
        <3> QED
            BY <2>1, <3>1, <3>2
    <2>4. CallAlerts
        BY <2>2, <2>3 DEF Next, StartJob, EndJob, Age, Sync, PushStep, Evaluate
    <2> DEFINE c == Head(Head(push.plan))
    <2>5. c \in Grounded
        BY <2>4, TailStays DEF CallAlerts, PushInv, PlanGrounded
    <2>6. c.title \in Title /\ c.vm \in Label
        BY <2>5, GroundedCalls DEF Call
    <2>7. c.op = "create" /\ alerts' = [alerts EXCEPT ![c.title][c.vm] = Reported(@, c.since)]
        <3>1. CASE alerts' = [alerts EXCEPT ![c.title] = [w \in Label |->
                                IF w \in Containing[c.vm] THEN Closed(@[w]) ELSE @[w]]]
            <4>1. alerts'[t][v] \in {alerts[t][v], Closed(alerts[t][v])}
                <5> HIDE DEF c
                <5> QED
                    BY <2>1, <2>6, <3>1
            <4> QED
                BY <4>1 DEF Closed
        <3> QED
            BY <2>4, <3>1 DEF CallAlerts
    <2> HIDE DEF c
    <2>8. c.title = t /\ c.vm = v
        BY <2>1, <2>6, <2>7
    <2>9. Reported(alerts[t][v], c.since).open
        BY <2>1, <2>7, <2>8
    <2>10. c.since \in 1..Len(rows) /\ Bad(rows[c.since]) /\ rows[c.since].vm = v
        BY <2>5, <2>7, <2>8 DEF Grounded
    <2>11. ~Sticks(alerts[t][v], c.since)
        BY <2>9 DEF Reported
    <2>12. alerts[t][v].closedAt \in Nat
        BY <2>1, BoundsAssumption
    <2>13. alerts[t][v].closedAt < c.since
        BY <2>10, <2>11, <2>12 DEF Sticks
    <2>14. c.since \in (alerts[t][v].closedAt + 1)..Len(rows)
        BY <2>10, <2>12, <2>13
    <2> QED
        BY <2>10, <2>14
<1> QED
    BY <1>1, PushInvariant, PTL DEF Spec, ClosedFailureStaysClosed

=============================================================================
