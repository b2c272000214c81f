------------------------- MODULE NocOverMonitoring --------------------------
(***************************************************************************)
(* The NOC screen over the website checks: what noc.service.ts makes of    *)
(* the rows WebsiteMonitoring writes.  Every site is on one server, which  *)
(* is online; every open alert is ACTIVE, no operator acknowledges one     *)
(* (Alerts.tla has the acknowledgements).                                  *)
(***************************************************************************)
EXTENDS WebsiteMonitoring

N == INSTANCE Noc

Host == [id |-> "host", status |-> "ONLINE"]

SiteRows ==
    {[id |-> s, server |-> "host", status |-> website[s].status, code |-> website[s].code,
      monitoringEnabled |-> website[s].monitoringEnabled] : s \in {x \in Site : website[x].exists}}

Severity(title) == IF title \in {"offline", "expiry"} THEN "CRITICAL" ELSE "WARNING"

\* create() writes the server of the site as well; the site of a row goes with
\* the site.
AlertRow(site, title) ==
    [title |-> IF title \in {"chain", "invalid", "expiry"} THEN "ssl" ELSE title,
     severity |-> Severity(title), status |-> "ACTIVE", server |-> "host", website |-> site]

AlertRows ==
    UNION {{AlertRow(s, title) : title \in open[s]} : s \in Site}
      \cup {AlertRow("none", a[2]) : a \in orphans}

Status == N!HostStatus(Host, SiteRows, AlertRows)
Incident == N!GlobalStatus({Host}, SiteRows, AlertRows) = "incident"

-----------------------------------------------------------------------------

\* A site that needs nobody: up, or in maintenance, with a certificate that is
\* valid.
Healthy(s) ==
    cert[s] = "valid" /\ Recovered([status |-> Answers(s), code |-> answer[s].code])

\* The NOC shows what lasts: an incident while a watched site stays down, even
\* when operators close its alert; none once no watched site is down any more,
\* even with an outage alert left open on a site that is degraded; a host that is
\* ok once every site stays healthy or out of watch, even when a check in progress
\* alerted a site after it was disabled.  An alert raised while its site was being
\* removed counts for the host until someone closes it, and an outage alert keeps
\* the incident.
HostFollows ==
    /\ \A s \in Site : <>[](Watched(s) /\ Answers(s) = "DOWN") => <>[]Incident
    /\ (\A s \in Site : <>[](~Watched(s)) \/ <>[](Watched(s) /\ Answers(s) # "DOWN"))
         /\ <>[](orphans = {})
           => <>[]~Incident
    /\ (\A s \in Site : <>[](~Watched(s)) \/ <>[](Watched(s) /\ Healthy(s)))
         /\ <>[](orphans = {})
           => <>[](Status = "ok")
    /\ <>[](orphans # {}) => <>[](Status # "ok")
    /\ \A s \in Site : <>[](<<s, "offline">> \in orphans) => <>[]Incident
=============================================================================
