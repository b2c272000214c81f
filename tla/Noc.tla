-------------------------------- MODULE Noc ---------------------------------
(***************************************************************************)
(* What the supervision screens compute from the rows they read:           *)
(* backend/src/noc/noc.service.ts (the status of each host and of the      *)
(* fleet, the counts, the history of a day, the availability of a month)   *)
(* and the counts of backend/src/dashboard/dashboard.service.ts.  Nothing  *)
(* is written.                                                             *)
(*                                                                         *)
(* A server is [id, status], a site [id, status, code, monitoringEnabled,  *)
(* server], an alert [title, severity, status, server, website, createdAt, *)
(* closedAt]: "none" stands for no site, a date that may be null is a set  *)
(* of at most one.  An alert's title is modelled by its kind: "offline"    *)
(* for a site that is down, "ssl" for those about certificates, and        *)
(* others.                                                                 *)
(***************************************************************************)
EXTENDS Naturals, Sequences, FiniteSets, FiniteSetsExt, SequencesExt

IsMaintenance(site) == site.status = "DEGRADED" /\ site.code = 503
IsDegraded(site) == site.status = "DEGRADED" /\ ~IsMaintenance(site)

Monitored(sites) == {w \in sites : w.monitoringEnabled}
Having(sites, status) == {w \in Monitored(sites) : w.status = status}
DegradedAmong(sites) == {w \in Monitored(sites) : IsDegraded(w)}
Active(alerts) == {a \in alerts : a.status = "ACTIVE"}

\* An alert about a site counts while the site is monitored, and that it is
\* down only while it is.
AboutSite(alert, sites) ==
    \E w \in Monitored(sites) :
        w.id = alert.website /\ (alert.title = "offline" => w.status = "DOWN")

\* Mutant: the alerts of sites that are not monitored count as well.
IsOpenForServerAnyway(alert, server, sites) ==
    IF alert.website # "none" THEN \E w \in sites : w.id = alert.website
    ELSE alert.server = server.id

IsOpenForServer(alert, server, sites) ==
    IF alert.website # "none" THEN AboutSite(alert, sites) ELSE alert.server = server.id
IsOpenGlobally(alert, sites) == alert.website # "none" => AboutSite(alert, sites)

IsSslTitle(alert) == alert.title = "ssl"
Of(alerts, severity) == {a \in alerts : a.severity = severity /\ ~IsSslTitle(a)}
Ssl(alerts) == {a \in alerts : IsSslTitle(a)}

-----------------------------------------------------------------------------
(* getState *)

SitesOf(server, sites) == {w \in sites : w.server = server.id}
AlertsOf(server, sites, alerts) ==
    {a \in Active(alerts) : IsOpenForServer(a, server, SitesOf(server, sites))}

\* Certificates never make a host critical, whatever their severity.
HostStatus(server, sites, alerts) ==
    LET own == SitesOf(server, sites)
        about == AlertsOf(server, sites, alerts)
    IN IF server.status = "OFFLINE" \/ Having(own, "DOWN") # {} \/ Of(about, "CRITICAL") # {}
       THEN "critical"
       ELSE IF server.status = "DEGRADED" \/ DegradedAmong(own) # {} \/ Of(about, "WARNING") # {}
               \/ Ssl(about) # {}
       THEN "degraded"
       ELSE "ok"

GlobalStatus(servers, sites, alerts) ==
    IF \E h \in servers : HostStatus(h, sites, alerts) = "critical" THEN "incident" ELSE "ok"

IncidentSince(server, sites, alerts) ==
    LET about == AlertsOf(server, sites, alerts)
    IN IF HostStatus(server, sites, alerts) = "ok" THEN {}
       ELSE IF about # {} THEN {Min({a.createdAt : a \in about})}
       ELSE IF server.status = "OFFLINE" THEN server.lastSeenAt ELSE {}

Kpis(servers, sites, alerts) ==
    LET shown == {a \in Active(alerts) : IsOpenGlobally(a, sites)}
    IN [servers |-> Cardinality({h \in servers : HostStatus(h, sites, alerts) = "ok"}),
        up |-> Cardinality(Having(sites, "UP")), down |-> Cardinality(Having(sites, "DOWN")),
        degraded |-> Cardinality(DegradedAmong(sites)), total |-> Cardinality(Monitored(sites)),
        critical |-> Cardinality(Of(shown, "CRITICAL")), warning |-> Cardinality(Of(shown, "WARNING")),
        ssl |-> Cardinality(Ssl(shown))]

\* The alerts of each of the last hours; index hours - 1 is the current one.
History(alerts, now, hours) ==
    LET age(a) == now - a.createdAt
    IN [i \in 0..(hours - 1) |->
           {a \in alerts : age(a) <= hours /\ a.severity \in {"CRITICAL", "WARNING"}
                           /\ i = hours - 1 - Min({hours - 1, age(a)})}]

-----------------------------------------------------------------------------
(* The counts of the dashboard; a code that is unknown (0) is in neither set *)

Overview(sites) ==
    [total |-> Cardinality(Monitored(sites)), up |-> Cardinality(Having(sites, "UP")),
     down |-> Cardinality(Having(sites, "DOWN")),
     degraded |-> Cardinality({w \in Having(sites, "DEGRADED") : w.code \notin {0, 503}}),
     maintenance |-> Cardinality({w \in Having(sites, "DEGRADED") : w.code = 503}),
     disabled |-> Cardinality(sites \ Monitored(sites))]

-----------------------------------------------------------------------------
(* The availability of a month; an interval is <<start, end>> *)

\* An interval that starts before the last one ends is joined to it.
MergeIntervals(intervals) ==
    FoldLeft(LAMBDA out, v : IF out = <<>> \/ v[1] > Last(out)[2] THEN Append(out, v)
                             ELSE [out EXCEPT ![Len(out)] = <<@[1], Max({@[2], v[2]})>>],
             <<>>, SortSeq(intervals, LAMBDA v, w : v[1] < w[1]))

DowntimeMs(intervals) ==
    FoldLeft(LAMBDA sum, v : sum + v[2] - v[1], 0, MergeIntervals(intervals))

\* The outages of a server in the window: its alerts, an open one until now,
\* and the time since it was last seen while it is offline.
Outages(server, alerts, start, now) ==
    LET own == {a \in alerts : a.title = "serverOffline" /\ a.server = server.id}
        end(a) == IF a.status = "CLOSED" THEN Min(a.closedAt \cup {now}) ELSE now
        silent == IF server.status = "OFFLINE" THEN {<<t, now>> : t \in server.lastSeenAt} ELSE {}
    IN {v \in {<<Max({w[1], start}), w[2]>> : w \in silent \cup {<<a.createdAt, end(a)>> : a \in own}} :
            v[2] > v[1]}

ServerTime(server, alerts, since, now) ==
    LET start == Max({server.createdAt, since})
    IN [window |-> now - start,
        up |-> now - start - DowntimeMs(SetToSeq(Outages(server, alerts, start, now)))]

\* The hours of a virtual machine, of which those with a metric count as up;
\* one that runs without any counts as up.
VmTime(vm, since, now) ==
    LET expected == Max({1, now - Max({vm.createdAt, since})})
    IN IF now <= vm.createdAt \/ (~vm.running /\ vm.hours = 0) THEN [window |-> 0, up |-> 0]
       ELSE [window |-> expected,
             up |-> IF vm.running /\ vm.hours = 0 THEN expected ELSE Min({expected, vm.hours})]

\* In tenths of a percent, rounded half up; "none" without any window.
Availability30d(servers, vms, alerts, since, now) ==
    LET times == {<<h.id, ServerTime(h, alerts, since, now)>> : h \in servers}
            \cup {<<v.id, VmTime(v, since, now)>> : v \in vms}
        window == MapThenSumSet(LAMBDA t : t[2].window, times)
        up == MapThenSumSet(LAMBDA t : t[2].up, times)
    IN IF window = 0 THEN "none" ELSE (2000 * up + window) \div (2 * window)
=============================================================================
