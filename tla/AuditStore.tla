----------------------------- MODULE AuditStore -----------------------------
(***************************************************************************)
(* The audits of one site, from the scan to the ledger of what was fixed:  *)
(* core/audit.py (scan, score, save), db/models.py (runs, findings marked  *)
(* fixed or reopened by comparing a run with the one before, statuses set  *)
(* by an operator, deletion, pruning) and dashboard/scan_manager.py.  The  *)
(* dashboard and the bridge may audit the same site at once: they share    *)
(* the database and nothing else.  runs holds the results of this site by  *)
(* run; others are the runs that hold results of other sites only, which   *)
(* retention counts with them.                                             *)
(*                                                                         *)
(* site, day and world are the surroundings: the condition the site is in, *)
(* the day (the messages about a certificate name it), and the conditions  *)
(* it goes through.  missed is a history variable: the keys of the         *)
(* findings that came when no verification compared them in turn.          *)
(***************************************************************************)
EXTENDS Scoring

CONSTANTS
    Auditors,       \* who audits: "dashboard", "bridge"
    Worlds,         \* [sites: the conditions of the site, floor: the confidence asked for,
                    \*  deep: whether the engines run, auditors: who audits,
                    \*  others: whether other sites are audited alone, aging: whether
                    \*  runs are pruned by their age (AUDIT_PRUNE_DAYS), and the
                    \*  bounds runs, manual, deletes, restarts on what happens]
    KeepRuns        \* AUDIT_PRUNE_KEEP_RUNS

ASSUME AuditorsAssumption == "dashboard" \in Auditors
ASSUME KeepAssumption == KeepRuns \in Nat
ASSUME WorldsAssumption == \A w \in Worlds :
    w.auditors \subseteq Auditors /\ {w.runs, w.manual, w.deletes, w.restarts} \subseteq Nat

VARIABLES world, site, day, runs, others, ledger, job, panel, used, missed
vars == <<world, site, day, runs, others, ledger, job, panel, used, missed>>

Empty == [k \in {} |-> {}]
NoRow == [status |-> "none", by |-> "none"]
Row(key) == IF key \in DOMAIN ledger THEN ledger[key] ELSE NoRow

Job(step, result, run, plan) == [step |-> step, result |-> result, run |-> run, plan |-> plan]
Idle == Job("idle", Empty, 0, {})
Quiet == [running |-> FALSE, error |-> FALSE, reload |-> FALSE, site |-> "none"]

TypeOK ==
    /\ world \in Worlds /\ site \in world.sites /\ day \in {"day1", "day2"}
    /\ DOMAIN runs \subseteq 1..used.runs /\ others \subseteq 1..used.runs \ DOMAIN runs
    /\ \A key \in DOMAIN ledger : ledger[key] \in
           [status : {"open", "fixed"}, by : {"auto", "manual"}]
    /\ \A a \in Auditors :
           job[a].step \in {"idle", "scan", "save", "verify", "write", "prune", "failed", "done"}
    /\ panel \in [running : BOOLEAN, error : BOOLEAN, reload : BOOLEAN,
                  site : {"none", "queued", "done", "error"}]
    /\ used \in [runs : 0..world.runs, started : 0..world.runs, manual : 0..world.manual,
                 deletes : 0..world.deletes, restarts : 0..world.restarts]
    /\ \A key \in missed : key = <<key[1], key[2], key[3]>>

Init ==
    /\ world \in Worlds /\ site \in world.sites /\ day = "day1"
    /\ runs = Empty /\ others = {} /\ ledger = Empty
    /\ job = [a \in Auditors |-> Idle] /\ panel = Quiet
    /\ used = [runs |-> 0, started |-> 0, manual |-> 0, deletes |-> 0, restarts |-> 0]
    /\ missed = {}

\* The verifications that have a saved run and have not ended.
Pending(a) == job[a].step \in {"verify", "write"}

To(a, step, plan) == job' = [job EXCEPT ![a] = Job(step, @.result, @.run, plan)]

-----------------------------------------------------------------------------
(* The surroundings *)

Change ==
    /\ site' \in world.sites \ {site}
    /\ UNCHANGED <<world, day, runs, others, ledger, job, panel, used, missed>>

NextDay ==
    /\ day = "day1" /\ day' = "day2"
    /\ UNCHANGED <<world, site, runs, others, ledger, job, panel, used, missed>>

-----------------------------------------------------------------------------
(* An audit *)

\* A request or the schedule starts a scan of the dashboard, unless one runs.
StartScan(a) ==
    /\ IF a = "dashboard" THEN ~panel.running ELSE job[a].step = "idle"
    /\ used.started < world.runs
    /\ used' = [used EXCEPT !.started = @ + 1]
    /\ job' = [job EXCEPT ![a] = Job("scan", Empty, 0, {})]
    /\ panel' = IF a = "dashboard" THEN [Quiet EXCEPT !.running = TRUE, !.site = "queued"] ELSE panel
    /\ UNCHANGED <<world, site, day, runs, others, ledger, missed>>

\* The list of targets cannot be read: no site is shown, and the audit fails.
StartWithoutTargets ==
    /\ ~panel.running /\ used.started < world.runs
    /\ used' = [used EXCEPT !.started = @ + 1]
    /\ job' = [job EXCEPT !["dashboard"] = Job("failed", Empty, 0, {})]
    /\ panel' = [Quiet EXCEPT !.running = TRUE, !.error = TRUE]
    /\ UNCHANGED <<world, site, day, runs, others, ledger, missed>>

Enabled == IF world.deep THEN Core \cup Engine ELSE Core

\* A check that raises leaves the site without any report, and the site is
\* scored all the same.
ScanTarget(a) ==
    /\ job[a].step = "scan"
    /\ \E raised \in BOOLEAN :
        LET reports == ScanSite(site)
            scan == IF raised THEN Empty ELSE [k \in Enabled |-> reports[k]]
        IN /\ job' = [job EXCEPT ![a] = Job("save", ScoreSite(scan, site, day, world.floor), 0, {})]
           /\ panel' = IF a = "dashboard"
                       THEN [panel EXCEPT !.site = IF raised THEN "error" ELSE "done"] ELSE panel
    /\ UNCHANGED <<world, site, day, runs, others, ledger, used, missed>>

\* The run is committed before anything is verified.
SaveRun(a) ==
    /\ job[a].step = "save"
    /\ used' = [used EXCEPT !.runs = @ + 1]
    /\ runs' = [r \in DOMAIN runs \cup {used.runs + 1} |->
                    IF r = used.runs + 1 THEN job[a].result ELSE runs[r]]
    /\ job' = [job EXCEPT ![a] = Job("verify", @.result, used.runs + 1, {})]
    /\ UNCHANGED <<world, site, day, others, ledger, panel, missed>>

SaveFails(a) ==
    /\ job[a].step = "save"
    /\ To(a, "failed", {})
    /\ panel' = IF a = "dashboard" THEN [panel EXCEPT !.error = TRUE] ELSE panel
    /\ UNCHANGED <<world, site, day, runs, others, ledger, used, missed>>

\* A run of other sites, by the bridge or from the command line: it takes a
\* number, and leaves this site as it is.
OtherRun ==
    /\ world.others /\ used.started < world.runs
    /\ used' = [used EXCEPT !.started = @ + 1, !.runs = @ + 1]
    /\ others' = others \cup {used.runs + 1}
    /\ UNCHANGED <<world, site, day, runs, ledger, job, panel, missed>>

Before(run) == {r \in DOMAIN runs : r < run}

\* Plausible slips, for the mutants: an operator's decision is not spared; what
\* came back is not reopened.
PlanOverOperator(delta) ==
    {[key |-> Key(f), seen |-> Row(Key(f)), status |-> "fixed"] : f \in delta.resolved}
    \cup {[key |-> Key(f), seen |-> Row(Key(f)), status |-> "open"] :
        f \in {g \in delta.new : Row(Key(g)).status = "fixed"}}
PlanWithoutReopening(delta) ==
    {[key |-> Key(f), seen |-> Row(Key(f)), status |-> "fixed"] :
        f \in {g \in delta.resolved : Row(Key(g)).by # "manual"}}

\* What the verifier will write, from the rows it reads: a finding that is gone
\* becomes fixed, one that came back is reopened, a row of an operator stays.
Plan(delta) ==
    {[key |-> Key(f), seen |-> Row(Key(f)), status |-> "fixed"] :
        f \in {g \in delta.resolved : Row(Key(g)).by # "manual"}}
    \cup {[key |-> Key(f), seen |-> Row(Key(f)), status |-> "open"] :
        f \in {g \in delta.new : Row(Key(g)) = [status |-> "fixed", by |-> "auto"]}}

\* History: the oldest verification that has not ended is in turn.  Out of turn
\* it compares for nothing; in turn it misses what a verifier once fixed when no
\* earlier run is left, and sees again what is new.
Current(a) == Keys(Actionable(job[a].result.findings))
InTurn(a) == \A b \in Auditors : Pending(b) => job[b].run >= job[a].run
Unread(run) == \E b \in Auditors : job[b].step = "verify" /\ job[b].run = run
FixedByItself(key) == Row(key) = [status |-> "fixed", by |-> "auto"]
NowMissed(a, delta) ==
    IF ~InTurn(a) THEN missed \cup Current(a)
    ELSE IF Before(job[a].run) = {} THEN missed \cup {key \in Current(a) : FixedByItself(key)}
    ELSE IF \A r \in DOMAIN runs : r > job[a].run => Unread(r) THEN missed \ Keys(delta.new)
    ELSE missed

\* The rows are read one after the other, and a database that is not locked by
\* its readers lets any of them change before the commit.
VerifyRead(a) ==
    /\ job[a].step = "verify"
    /\ LET before == Before(job[a].run)
           delta == DiffFindings(job[a].result.findings,
                                 IF before = {} THEN {} ELSE runs[Max(before)].findings)
       IN /\ IF before = {} THEN To(a, "prune", {}) ELSE To(a, "write", Plan(delta))
          /\ missed' = NowMissed(a, delta)
    /\ UNCHANGED <<world, site, day, runs, others, ledger, panel, used>>

\* An insertion meets no row of its key, an update meets its row.
Fits(plan) == \A p \in plan : (p.seen = NoRow) <=> (p.key \notin DOMAIN ledger)

\* Another slip: the row is written as it was read.
WrittenAsRead(p) == [p.seen EXCEPT !.status = p.status]

\* Only the columns that were changed are written.
Written(p) ==
    IF p.seen = NoRow THEN [status |-> p.status, by |-> "auto"]
    ELSE [ledger[p.key] EXCEPT !.status = IF p.seen.status # p.status THEN p.status ELSE @]

VerifyWrite(a) ==
    /\ job[a].step = "write"
    /\ Fits(job[a].plan)
    /\ LET planned == {p.key : p \in job[a].plan}
       IN ledger' = [key \in planned \cup DOMAIN ledger |->
              IF key \in planned THEN Written(CHOOSE p \in job[a].plan : p.key = key)
              ELSE ledger[key]]
    /\ To(a, "prune", {})
    /\ UNCHANGED <<world, site, day, runs, others, panel, used, missed>>

\* Whatever fails is rolled back and forgotten: the run is saved.
VerifyFails(a) ==
    /\ Pending(a)
    /\ To(a, "prune", {})
    /\ missed' = missed \cup Current(a)
    /\ UNCHANGED <<world, site, day, runs, others, ledger, panel, used>>

\* Retention counts the runs of every site, and spares those above a cutoff if
\* it also goes by age.
AllRuns == DOMAIN runs \cup others
Newest(n) == {r \in AllRuns : Cardinality({q \in AllRuns : q > r}) < n}
Cutoffs == 0..(IF world.aging THEN used.runs ELSE 0)

\* Of the auditors only the dashboard prunes, and it lets no failure show.
Prune(a) ==
    /\ job[a].step = "prune"
    /\ \E kept \in {AllRuns} \cup
            {{r \in Newest(KeepRuns) : r > cutoff} : cutoff \in IF a = "dashboard" THEN Cutoffs ELSE {}} :
        /\ runs' = [r \in DOMAIN runs \cap kept |-> runs[r]]
        /\ others' = others \cap kept
    /\ To(a, "done", {})
    /\ UNCHANGED <<world, site, day, ledger, panel, used, missed>>

Finish(a) ==
    /\ job[a].step \in {"failed", "done"}
    /\ job' = [job EXCEPT ![a] = Idle]
    /\ panel' = IF a = "dashboard"
                THEN [panel EXCEPT !.running = FALSE, !.reload = ~panel.error] ELSE panel
    /\ UNCHANGED <<world, site, day, runs, others, ledger, used, missed>>

-----------------------------------------------------------------------------
(* The dashboard's pages, and the rest of the store *)

\* The first poll after a scan that succeeded reloads the page, no other does.
ConsumeReload ==
    /\ panel.reload /\ ~panel.running
    /\ panel' = [panel EXCEPT !.reload = FALSE]
    /\ UNCHANGED <<world, site, day, runs, others, ledger, job, used, missed>>

\* The page of a site offers the findings of its newest run.
Shown == IF DOMAIN runs = {} THEN {} ELSE Actionable(runs[Max(DOMAIN runs)].findings)

SetFindingStatus(key, status) ==
    /\ used.manual < world.manual
    /\ used' = [used EXCEPT !.manual = @ + 1]
    /\ ledger' = [k \in DOMAIN ledger \cup {key} |->
                      IF k = key THEN [status |-> status, by |-> "manual"] ELSE ledger[k]]
    /\ UNCHANGED <<world, site, day, runs, others, job, panel, missed>>

\* The rows of the runs themselves stay.
DeleteSiteResults ==
    /\ used.deletes < world.deletes
    /\ DOMAIN runs # {} \/ DOMAIN ledger # {}
    /\ runs' = Empty /\ others' = AllRuns /\ ledger' = Empty /\ missed' = {}
    /\ used' = [used EXCEPT !.deletes = @ + 1]
    /\ UNCHANGED <<world, site, day, job, panel>>

\* The scan runs in a daemon thread: it dies with the process.
RestartDashboard ==
    /\ used.restarts < world.restarts
    /\ used' = [used EXCEPT !.restarts = @ + 1]
    /\ job' = [job EXCEPT !["dashboard"] = Idle] /\ panel' = Quiet
    /\ missed' = missed \cup IF Pending("dashboard") THEN Current("dashboard") ELSE {}
    /\ UNCHANGED <<world, site, day, runs, others, ledger>>

-----------------------------------------------------------------------------

AuditStep(a) ==
    \/ StartScan(a) \/ ScanTarget(a) \/ SaveRun(a) \/ SaveFails(a)
    \/ VerifyRead(a) \/ VerifyWrite(a) \/ VerifyFails(a) \/ Prune(a) \/ Finish(a)

Next ==
    \/ Change \/ NextDay
    \/ \E a \in world.auditors : AuditStep(a)
    \/ StartWithoutTargets \/ OtherRun \/ ConsumeReload \/ DeleteSiteResults \/ RestartDashboard
    \/ \E f \in Shown, status \in {"open", "fixed"} : SetFindingStatus(Key(f), status)

Spec == Init /\ [][Next]_vars

-----------------------------------------------------------------------------
(* Properties *)

\* What is true of a site that was scanned, and what it is mistaken for: one
\* request that fails is taken for a site that is down; a page that looks like any
\* file, where both requests for paths that cannot exist failed, for the files
\* (misconfig.py:23-29 says without exception that a path is only reported when its
\* response differs from that of such a path); and a challenge, by the engines, for
\* the site (nothing "may be inferred" from it, says _http.py:178-180).
Truth(s) == s.traits \cup {t \in {"down"} : Silent(s)}
Mistaken(s) ==
    {t \in {"down"} : "availability" \in s.lost}
    \cup {t \in Path : s.page = "lookalike" /\ "controls" \in s.lost}
    \cup {t \in s.front : Detected(s)}

Honest(findings, s) ==
    \A f \in Actionable(findings) : IsExposed(f) => f.about \in Truth(s) \cup Mistaken(s)

\* The checks that a site can be judged by: those that fail without an answer
\* got one.  Availability, DNS and aliases are judged by what was answered, and
\* headers unless a challenge did, even when the request failed.
Judged(s) ==
    {"availability", "dns_auth", "takeover"}
    \cup {k \in {"tls"} : ~Silent(s) /\ "tls" \notin s.lost}
    \cup {k \in {"headers"} : ~Fetch(s, k).blocked}
    \cup {k \in {"misconfig", "cve"} : Reached(Fetch(s, k))}
Measured(result) ==
    \A c \in DOMAIN Controls :
        result.controls[c] # "not_assessed" => Controls[c].scanner \in Judged(result.site)

\* What could not be measured counts neither against a site nor for it: a finding
\* that is said to be exposed, other than an informational one, is true of the
\* site when it was scanned, or one of the three mistakes above; and a control is
\* held to be met or not only where the check behind it got through to the site.
NothingAlleged ==
    \A r \in DOMAIN runs : Honest(runs[r].findings, runs[r].site) /\ Measured(runs[r])

\* A finding that comes back is open again: once every verification has ended, a
\* finding of the newest run that a verifier once fixed is still marked so only
\* when the verification that should have seen it come back was lost, ran before
\* an older one had ended, or had no earlier run left to compare with.
FixedReopens ==
    (\A a \in Auditors : ~Pending(a)) =>
        \A f \in Shown : FixedByItself(Key(f)) => Key(f) \in missed

\* An operator's status is changed by an operator, with the deletion of the site,
\* or by a verification that read the row before he decided: that one then writes
\* what its scan saw under the operator's name, against what db/models.py:158-160
\* says.  Nothing else overwrites it.
Overtaken(key) ==
    \E a \in Auditors : \E p \in job[a].plan :
        /\ job[a].step = "write" /\ job'[a].step = "prune"
        /\ p.key = key /\ p.seen # NoRow /\ p.seen.by # "manual"
        /\ ledger'[key] = [status |-> p.status, by |-> "manual"]
        /\ p.status = (IF key \in Current(a) THEN "open" ELSE "fixed")
ManualStatusKept ==
    [][\A key \in DOMAIN ledger \cap DOMAIN ledger' :
           ledger[key].by = "manual" /\ ledger'[key] # ledger[key]
               => used'.manual # used.manual \/ Overtaken(key)]_vars

\* "a finding present in the previous scan but absent from the just-saved run
\* has evidently been fixed" (db/models.py:330): what is marked as fixed by the
\* verifier was not there when the newest run was scanned.
FixedIsGone ==
    missed = {} /\ DOMAIN runs # {} =>
        \A key \in DOMAIN ledger :
            FixedByItself(key) => key[2] \notin Truth(runs[Max(DOMAIN runs)].site)
=============================================================================
