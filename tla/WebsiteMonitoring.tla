------------------------- MODULE WebsiteMonitoring -------------------------
(***************************************************************************)
(* The website checks of backend/src/monitoring/monitoring.service.ts: a   *)
(* cron tick every minute takes a snapshot of the enabled sites, probes    *)
(* the ones that are due one after the other, records each check and turns *)
(* streaks of checks and certificate results into alerts.  Nothing stops a *)
(* tick from starting while an earlier one still runs: a slot of Ticks is  *)
(* a tick in progress.  Operators disable, enable and remove sites and     *)
(* close alerts meanwhile (backend/src/websites/websites.service.ts).      *)
(*                                                                         *)
(* Each call on the alert service is one step here; Alerts.tla looks       *)
(* inside it.  The site's answers and its certificate are the environment. *)
(* Every site is on a server.                                              *)
(***************************************************************************)
EXTENDS Naturals, Sequences, FiniteSets

CONSTANTS
    Site,           \* websites
    NoSite,         \* "no site in hand"
    Ticks,          \* slots for checkWebsites ticks in progress
    Operators,      \* slots for operators' requests in progress
    Worlds,         \* the surroundings the checks may run in: records of World
    Interval,       \* checkInterval, in minutes
    FailStreak,     \* ALERT_FAIL_STREAK
    RecoverStreak   \* ALERT_RECOVER_STREAK

Code == {0, 200, 404, 500, 503}     \* 0: no HTTP answer at all
Response == [code: Code, slow: BOOLEAN, keyword: BOOLEAN]
Certificate == {"valid", "soon", "lastday", "broken", "timeout"}

\* What surrounds the service in a behaviour: how many ticks may overlap, who
\* operates it, what a probe may meet, the states a certificate may be in, and
\* the sites that answer from another host (their SSL is probed each time).
World == [ticks: SUBSET Ticks, operators: SUBSET Operators, responses: SUBSET Response,
          certificates: SUBSET Certificate, redirected: SUBSET Site]

ASSUME NoSiteAssumption == NoSite \notin Site
ASSUME TicksAssumption == IsFiniteSet(Ticks)
ASSUME WorldsAssumption == Worlds \subseteq World
ASSUME StreaksAssumption ==
    Interval \in Nat \ {0} /\ FailStreak \in Nat \ {0} /\ RecoverStreak \in Nat \ {0}

VARIABLES
    world,      \* the surroundings, chosen once
    answer,     \* environment: what each site answers now
    cert,       \* environment: each site's certificate now
    website,    \* the Website rows
    checks,     \* the newest WebsiteCheck rows of each site, newest first
    open,       \* titles of the open alerts about each site
    orphans,    \* the open alerts whose site was deleted under them
    ticks,      \* the ticks in progress
    requests    \* the operators' requests in progress

vars == <<world, answer, cert, website, checks, open, orphans, ticks, requests>>

Title == {"offline", "degraded", "chain", "invalid", "expiry"}
SiteStatus == {"UP", "DEGRADED", "DOWN", "UNKNOWN"}
Days == {"null", "zero", "soon", "enough"}   \* sslDaysRemaining against sslAlertDays
MaxStreak == IF FailStreak >= RecoverStreak THEN FailStreak ELSE RecoverStreak

-----------------------------------------------------------------------------
(* website-status.util.ts and the verdicts of the probe *)

ProbeOk(r) == ((r.code >= 200 /\ r.code < 500) \/ r.code = 503) /\ r.keyword

IsMaintenance(code) == code = 503

AvailabilityStatus(r) ==
    IF IsMaintenance(r.code) THEN "DEGRADED"
    ELSE IF r.code >= 500 \/ ~ProbeOk(r) THEN "DOWN"
    ELSE IF r.code >= 400 \/ r.slow THEN "DEGRADED"
    ELSE "UP"

\* What probeSsl resolves to; "none" stands for a check without SSL probe.
NoSsl == [probed |-> FALSE, valid |-> "unset", chain |-> "unset", days |-> "null"]
SslResult(c) ==
    [probed |-> TRUE,
     valid |-> IF c \in {"broken", "timeout"} THEN "false" ELSE "true",
     chain |-> CASE c = "broken" -> "false" [] c = "timeout" -> "unset" [] OTHER -> "true",
     days |-> CASE c = "valid" -> "enough" [] c = "soon" -> "soon"
                [] c = "lastday" -> "zero" [] OTHER -> "null"]
SslHealthy(ssl) == ssl.probed /\ ssl.valid # "false" /\ ssl.chain # "false"

\* countLeadingStreak: leading rows of a newest-first list that satisfy a test.
Down(c) == c.status = "DOWN"
Degraded(c) == c.status = "DEGRADED" /\ ~IsMaintenance(c.code)
Recovered(c) == c.status = "UP" \/ IsMaintenance(c.code)
LeadingStreak(rows, Test(_)) ==
    Cardinality({n \in 1..Len(rows) : \A i \in 1..n : Test(rows[i])})

-----------------------------------------------------------------------------
(* The alert calls one check makes, in order *)

Create(t) == [op |-> "create", title |-> t]
Resolve(t) == [op |-> "resolve", title |-> t]

\* Mutants: one check too few before an alert; a recovery that forgets the outage.
AvailabilityCallsHasty(c, recent) ==
    CASE Down(c) ->
           IF LeadingStreak(recent, Down) >= FailStreak - 1
             THEN <<Create("offline"), Resolve("degraded")>> ELSE <<>>
      [] OTHER -> <<>>
AvailabilityCallsForgetful(c, recent) ==
    CASE Down(c) -> IF LeadingStreak(recent, Down) >= FailStreak THEN <<Create("offline")>> ELSE <<>>
      [] Degraded(c) -> IF LeadingStreak(recent, Degraded) >= FailStreak THEN <<Create("degraded")>> ELSE <<>>
      [] Recovered(c) ->
           IF LeadingStreak(recent, Recovered) >= RecoverStreak THEN <<Resolve("degraded")>> ELSE <<>>

AvailabilityCalls(c, recent) ==
    CASE Down(c) ->
           IF LeadingStreak(recent, Down) >= FailStreak
             THEN <<Create("offline"), Resolve("degraded")>> ELSE <<>>
      [] Degraded(c) ->
           IF LeadingStreak(recent, Degraded) >= FailStreak
             THEN <<Create("degraded")>> ELSE <<>>
      [] Recovered(c) ->
           IF LeadingStreak(recent, Recovered) >= RecoverStreak
             THEN <<Resolve("offline"), Resolve("degraded")>> ELSE <<>>

ChainCalls(ssl) ==
    IF ssl.chain = "false" THEN <<Create("chain")>>
    ELSE IF SslHealthy(ssl) THEN <<Resolve("chain")>> ELSE <<>>

InvalidCalls(ssl) ==
    IF ssl.valid = "false" THEN <<Create("invalid")>>
    ELSE IF SslHealthy(ssl) THEN <<Resolve("invalid")>> ELSE <<>>

\* Mutant: the last day counts as far from the end.
ExpiryCallsZeroEnough(ssl, knownDays) ==
    LET days == IF ssl.days # "null" THEN ssl.days ELSE knownDays IN
    IF days = "soon" THEN <<Create("expiry")>>
    ELSE IF ssl.probed THEN <<Resolve("expiry")>> ELSE <<>>

\* The days come from this check's certificate, else from the row as the
\* tick read it; zero days is neither "soon" nor "enough".
ExpiryCalls(ssl, knownDays) ==
    LET days == IF ssl.days # "null" THEN ssl.days ELSE knownDays IN
    IF days = "soon" THEN <<Create("expiry")>>
    ELSE IF ssl.probed /\ days \in {"null", "enough"} THEN <<Resolve("expiry")>> ELSE <<>>

-----------------------------------------------------------------------------

IdleTick == [step |-> "idle", todo |-> {}, known |-> [s \in Site |-> "null"],
             sslDue |-> {}, site |-> NoSite, result |-> [status |-> "UNKNOWN", code |-> 0],
             ssl |-> NoSsl, plan |-> <<>>]
IdleRequest == [step |-> "idle", site |-> NoSite]

Init ==
    /\ world \in Worlds
    /\ answer \in [Site -> world.responses]
    /\ cert \in [Site -> world.certificates]
    /\ website = [s \in Site |-> [exists |-> TRUE, monitoringEnabled |-> TRUE,
                                  status |-> "UNKNOWN", code |-> 0, days |-> "null",
                                  age |-> Interval, sslDue |-> TRUE]]
    /\ checks = [s \in Site |-> <<>>]
    /\ open = [s \in Site |-> {}]
    /\ orphans = {}
    /\ ticks = [p \in Ticks |-> IdleTick]
    /\ requests = [o \in Operators |-> IdleRequest]

\* The world changes.
Change(s) ==
    /\ \/ \E r \in world.responses : r # answer[s] /\ answer' = [answer EXCEPT ![s] = r] /\ UNCHANGED cert
       \/ \E c \in world.certificates : c # cert[s] /\ cert' = [cert EXCEPT ![s] = c] /\ UNCHANGED answer
    /\ UNCHANGED <<world, website, checks, open, orphans, ticks, requests>>

\* 24 hours since the last SSL check of the site.
SslDay(s) ==
    /\ ~website[s].sslDue
    /\ website' = [website EXCEPT ![s].sslDue = TRUE]
    /\ UNCHANGED <<world, answer, cert, checks, open, orphans, ticks, requests>>

-----------------------------------------------------------------------------
(* The tick *)

AtTick(p, step) == ticks[p].step = step
SetTick(p, t) == ticks' = [ticks EXCEPT ![p] = t]

\* isHttpCheckDue.  age counts the minute marks that followed the last check,
\* which ended a moment after a mark of its own: at the mark number Interval
\* the elapsed time is a hair under or over checkInterval, so the verdict is
\* open; at the next one the site is due.
MustBeDue == {s \in Site : website[s].age + 1 > Interval}
MayBeDue == {s \in Site : website[s].age + 1 >= Interval}
Enabled == {s \in Site : website[s].exists /\ website[s].monitoringEnabled}

\* A minute mark: every age grows and the cron starts a tick, which reads the
\* enabled sites once.
Minute(p) ==
    /\ AtTick(p, "idle")
    /\ \E jitter \in SUBSET (MayBeDue \ MustBeDue) :
         LET todo == (MustBeDue \cup jitter) \cap Enabled IN
         SetTick(p, [IdleTick EXCEPT
                       !.step = IF todo = {} THEN "idle" ELSE "next",
                       !.todo = todo,
                       !.known = [s \in Site |-> website[s].days],
                       !.sslDue = {s \in Site : website[s].sslDue}])
    /\ website' = [s \in Site |-> [website[s] EXCEPT !.age = IF @ < Interval THEN @ + 1 ELSE @]]
    /\ UNCHANGED <<world, answer, cert, checks, open, orphans, requests>>

\* The SSL probe runs once a day, and at every check of a redirected site.
ProbesSsl(t, s) == s \in t.sslDue \/ (s \in world.redirected /\ ProbeOk(answer[s]))

\* probeHttp and probeSslCertificate.  Every site is https with sslEnabled.
Probe(p) ==
    /\ AtTick(p, "next")
    /\ \E s \in ticks[p].todo :
         SetTick(p, [ticks[p] EXCEPT
                       !.step = "record", !.site = s, !.todo = @ \ {s},
                       !.result = [status |-> AvailabilityStatus(answer[s]), code |-> answer[s].code],
                       !.ssl = IF ProbesSsl(ticks[p], s) THEN SslResult(cert[s]) ELSE NoSsl])
    /\ UNCHANGED <<world, answer, cert, website, checks, open, orphans, requests>>

NextSite(t) ==
    IF t.todo = {} THEN IdleTick
    ELSE [t EXCEPT !.step = "next", !.site = NoSite, !.plan = <<>>, !.ssl = NoSsl,
                   !.result = IdleTick.result]

\* A write about a site that is gone throws; the tick logs it and goes on.
SiteGone(p) == ~website[ticks[p].site].exists
Skip(p) ==
    /\ SetTick(p, NextSite(ticks[p]))
    /\ UNCHANGED <<world, answer, cert, website, checks, open, orphans, requests>>

\* Mutant: the query without its "take".
AllRows(rows) == rows
FirstRows(rows) == SubSeq(rows, 1, IF Len(rows) < MaxStreak THEN Len(rows) ELSE MaxStreak)

RecordCheck(p) ==
    /\ AtTick(p, "record")
    /\ \/ SiteGone(p) /\ Skip(p)
       \/ /\ ~SiteGone(p)
          /\ checks' = [checks EXCEPT ![ticks[p].site] = FirstRows(<<ticks[p].result>> \o @)]
          /\ SetTick(p, [ticks[p] EXCEPT !.step = "update"])
          /\ UNCHANGED <<world, answer, cert, website, open, orphans, requests>>

\* What the check does not know, a code or the days of a certificate, leaves
\* the stored one as it is.
Updated(row, t) ==
    [row EXCEPT !.status = t.result.status, !.age = 0,
                !.code = IF t.result.code = 0 THEN row.code ELSE t.result.code,
                !.days = IF t.ssl.days # "null" THEN t.ssl.days ELSE row.days,
                !.sslDue = IF t.ssl.probed THEN FALSE ELSE row.sslDue]

UpdateSite(p) ==
    LET t == ticks[p] IN
    /\ AtTick(p, "update")
    /\ \/ SiteGone(p) /\ Skip(p)
       \/ /\ ~SiteGone(p)
          /\ website' = [website EXCEPT ![t.site] = Updated(@, t)]
          /\ SetTick(p, [t EXCEPT !.step = "recent"])
          /\ UNCHANGED <<world, answer, cert, checks, open, orphans, requests>>

\* The newest checks are read once; everything the check will do follows.
ReadRecent(p) ==
    LET t == ticks[p]
        plan == AvailabilityCalls(t.result, FirstRows(checks[t.site]))
                  \o ChainCalls(t.ssl) \o InvalidCalls(t.ssl)
                  \o ExpiryCalls(t.ssl, t.known[t.site])
    IN
    /\ AtTick(p, "recent")
    /\ SetTick(p, IF plan = <<>> THEN NextSite(t)
                  ELSE [t EXCEPT !.step = "alert", !.plan = plan])
    /\ UNCHANGED <<world, answer, cert, website, checks, open, orphans, requests>>

\* One call on the alert service.  On a site that is gone a resolving query
\* selects nothing; a new alert gets no server, so it finds no alert of the site
\* that may be left, and its insertion violates the foreign key.
CallAlerts(p) ==
    LET t == ticks[p]
        call == Head(t.plan)
        rest == Tail(t.plan)
        done == IF rest = <<>> THEN NextSite(t) ELSE [t EXCEPT !.plan = rest]
    IN
    /\ AtTick(p, "alert")
    /\ \/ call.op = "create" /\ SiteGone(p) /\ Skip(p)
       \/ /\ call.op = "create" => ~SiteGone(p)
          /\ open' = [open EXCEPT ![t.site] = IF call.op = "create" THEN @ \cup {call.title}
                                              ELSE @ \ {call.title}]
          /\ SetTick(p, done)
          /\ UNCHANGED <<world, answer, cert, website, checks, orphans, requests>>

-----------------------------------------------------------------------------
(* Operators: websites.service.ts update() and remove(), alerts close() *)

AtRequest(o, step) == requests[o].step = step

Disable(o) ==
    /\ AtRequest(o, "idle")
    /\ \E s \in Enabled :
         /\ website' = [website EXCEPT ![s].monitoringEnabled = FALSE]
         /\ requests' = [requests EXCEPT ![o] = [step |-> "forceClose", site |-> s]]
    /\ UNCHANGED <<world, answer, cert, checks, open, orphans, ticks>>

ForceClose(o) ==
    /\ AtRequest(o, "forceClose")
    /\ open' = [open EXCEPT ![requests[o].site] = {}]
    /\ requests' = [requests EXCEPT ![o] = IdleRequest]
    /\ UNCHANGED <<world, answer, cert, website, checks, orphans, ticks>>

Enable(o) ==
    /\ AtRequest(o, "idle")
    /\ \E s \in Site :
         /\ website[s].exists /\ ~website[s].monitoringEnabled
         /\ website' = [website EXCEPT ![s].monitoringEnabled = TRUE]
    /\ UNCHANGED <<world, answer, cert, checks, open, orphans, ticks, requests>>

\* remove(): the alerts first, then the site and, in cascade, its checks.
Remove(o) ==
    /\ AtRequest(o, "idle")
    /\ \E s \in Site :
         /\ website[s].exists
         /\ open' = [open EXCEPT ![s] = {}]
         /\ requests' = [requests EXCEPT ![o] = [step |-> "delete", site |-> s]]
    /\ UNCHANGED <<world, answer, cert, website, checks, orphans, ticks>>

\* An alert raised since the others were deleted stays, without its site.
DeleteSite(o) ==
    LET s == requests[o].site IN
    /\ AtRequest(o, "delete")
    /\ website' = [website EXCEPT ![s].exists = FALSE, ![s].monitoringEnabled = FALSE]
    /\ checks' = [checks EXCEPT ![s] = <<>>]
    /\ open' = [open EXCEPT ![s] = {}]
    /\ orphans' = orphans \cup ({s} \X open[s])
    /\ requests' = [requests EXCEPT ![o] = IdleRequest]
    /\ UNCHANGED <<world, answer, cert, ticks>>

CloseByHand(o) ==
    /\ AtRequest(o, "idle")
    /\ \/ \E s \in Site, t \in Title :
            /\ t \in open[s]
            /\ open' = [open EXCEPT ![s] = @ \ {t}]
            /\ UNCHANGED orphans
       \/ \E a \in orphans : orphans' = orphans \ {a} /\ UNCHANGED open
    /\ UNCHANGED <<world, answer, cert, website, checks, ticks, requests>>

-----------------------------------------------------------------------------

TickStep(p) == \/ Probe(p) \/ RecordCheck(p) \/ UpdateSite(p) \/ ReadRecent(p) \/ CallAlerts(p)
OperatorStep(o) == ForceClose(o) \/ DeleteSite(o)
OperatorRequest(o) == Disable(o) \/ Enable(o) \/ Remove(o) \/ CloseByHand(o)

Next ==
    \/ \E s \in Site : Change(s) \/ SslDay(s)
    \/ \E p \in world.ticks : Minute(p) \/ TickStep(p)
    \/ \E o \in world.operators : OperatorRequest(o) \/ OperatorStep(o)

Spec == Init /\ [][Next]_vars

\* The cron fires every minute and days go by; probes end (they time out) and
\* the event loop runs every continuation.  Operators need not do anything.
Fairness ==
    /\ \A p \in Ticks : WF_vars(p \in world.ticks /\ Minute(p)) /\ WF_vars(TickStep(p))
    /\ \A o \in Operators : WF_vars(OperatorStep(o))
    /\ \A s \in Site : WF_vars(SslDay(s))

FairSpec == Spec /\ Fairness

-----------------------------------------------------------------------------
(* Properties *)

CheckRow == [status: SiteStatus, code: Code]
SiteRow == [exists: BOOLEAN, monitoringEnabled: BOOLEAN, status: SiteStatus, code: Code,
            days: Days, age: 0..Interval, sslDue: BOOLEAN]
AlertCall == [op: {"create", "resolve"}, title: Title]
Tick == [step: {"idle", "next", "record", "update", "recent", "alert"},
         todo: SUBSET Site, known: [Site -> Days], sslDue: SUBSET Site,
         site: Site \cup {NoSite}, result: CheckRow,
         ssl: {NoSsl} \cup {SslResult(c) : c \in Certificate}, plan: Seq(AlertCall)]
RequestState == [step: {"idle", "forceClose", "delete"}, site: Site \cup {NoSite}]

TypeOK ==
    /\ world \in Worlds
    /\ answer \in [Site -> world.responses]
    /\ cert \in [Site -> world.certificates]
    /\ website \in [Site -> SiteRow]
    /\ \A s \in Site : website[s].status = "DEGRADED" => website[s].code # 0
    /\ checks \in [Site -> Seq(CheckRow)]
    /\ \A s \in Site : Len(checks[s]) <= MaxStreak
    /\ open \in [Site -> SUBSET Title]
    /\ \A s \in Site : open[s] # {} => website[s].exists
    /\ orphans \subseteq {s \in Site : ~website[s].exists} \X Title
    /\ ticks \in [Ticks -> Tick]
    /\ requests \in [Operators -> RequestState]

LastRows(s, n, Test(_)) == Len(checks[s]) >= n /\ \A i \in 1..n : Test(checks[s][i])

\* "Availability alerts: confirm N consecutive EXTERNAL checks": an availability
\* alert opens only when the newest recorded checks are all bad, and an outage is
\* closed by a check only after as many good ones in a row.  One tick at a time:
\* with two, another tick's rows come between the count and the call.
AvailabilityConfirmed ==
    [][\A s \in Site :
         Cardinality(world.ticks) = 1 =>
           /\ "offline" \in open'[s] \ open[s] => LastRows(s, FailStreak, Down)
           /\ "degraded" \in open'[s] \ open[s] => LastRows(s, FailStreak, Degraded)
           /\ \A p \in Ticks : ticks'[p] # ticks[p] /\ "offline" \in open[s] \ open'[s]
                                 => LastRows(s, RecoverStreak, Recovered)]_vars

Watched(s) == website[s].exists /\ website[s].monitoringEnabled
Answers(s) == AvailabilityStatus(answer[s])

\* What lasts wins, however ticks overlap: a site that stays up, or in maintenance,
\* loses its availability alerts, and one that stays down has its alert, again and
\* again if operators close it.
AvailabilitySettles ==
    \A s \in Site :
        /\ <>[](Watched(s) /\ Recovered([status |-> Answers(s), code |-> answer[s].code]))
               => <>[](open[s] \cap {"offline", "degraded"} = {})
        /\ <>[](Watched(s) /\ Answers(s) = "DOWN") => []<>("offline" \in open[s])

\* A certificate that stays valid and far from its end loses its alerts; one that
\* stays broken, unanswered or near its end is alerted again and again.  Whoever
\* was alerted of its end stays so until its last day is over: no check closes
\* the alert meanwhile, though on that day none raises it either.
CertificateAlertsFollow ==
    \A s \in Site :
        /\ <>[](Watched(s) /\ cert[s] = "valid")
               => <>[](open[s] \cap {"chain", "invalid", "expiry"} = {})
        /\ <>[](Watched(s) /\ cert[s] = "broken") => []<>("chain" \in open[s])
        /\ <>[](Watched(s) /\ cert[s] \in {"broken", "timeout"}) => []<>("invalid" \in open[s])
        /\ <>[](Watched(s) /\ cert[s] = "soon") => []<>("expiry" \in open[s])
        /\ <>[](Watched(s) /\ cert[s] \in {"soon", "lastday"})
               => <>[][ticks' # ticks /\ "expiry" \in open[s] => "expiry" \in open'[s]]_vars
=============================================================================
