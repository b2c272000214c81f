------------------------ MODULE MCWebsiteMonitoring ------------------------
(* Small instances of WebsiteMonitoring under the NOC screen: the answers   *)
(* sites may give; and the NOC's computations over small inputs.            *)
EXTENDS NocOverMonitoring, TLC

Up == [code |-> 200, slow |-> FALSE, keyword |-> TRUE]
Slow == [code |-> 200, slow |-> TRUE, keyword |-> TRUE]
Maintenance == [code |-> 503, slow |-> FALSE, keyword |-> TRUE]
Unanswered == [code |-> 0, slow |-> FALSE, keyword |-> FALSE]
ServerError == [code |-> 500, slow |-> FALSE, keyword |-> TRUE]

\* A service that handles one tick at a time, with an operator, on answers that
\* change and on certificates that do; and one whose ticks overlap, on a site
\* that redirects.
Serial == [ticks |-> {"t1"}, operators |-> {"o1"}, responses |-> {Up, Slow, Unanswered},
           certificates |-> {"valid"}, redirected |-> {}]
Certified == [Serial EXCEPT !.responses = {Up},
                            !.certificates = {"valid", "soon", "lastday", "broken", "timeout"}]
Overlapping == [ticks |-> {"t1", "t2"}, operators |-> {}, responses |-> {Up, Maintenance, ServerError},
                certificates |-> {"valid"}, redirected |-> Site]
SerialOrOverlapping == {Serial, Certified, Overlapping}

-----------------------------------------------------------------------------
(* The NOC's computations against what they mean, over small inputs *)

Interval3 == {v \in (0..3) \X (1..4) : v[1] < v[2]}
Lists == UNION {[1..n -> Interval3] : n \in 0..3}

\* The downtime is the number of instants that some interval covers.
ASSUME DowntimeAssumption ==
    \A list \in Lists :
        N!DowntimeMs(list) = Cardinality({t \in 0..3 : \E i \in DOMAIN list :
                                                         list[i][1] <= t /\ t < list[i][2]})

\* Between two intervals of the merged list there is time.
ASSUME MergeAssumption ==
    \A list \in Lists : LET merged == N!MergeIntervals(list) IN
        \A i, j \in DOMAIN merged : i < j => merged[i][2] < merged[j][1]

Servers == [id : {"h"}, status : {"ONLINE", "OFFLINE"}, createdAt : {0, 2}, lastSeenAt : {{}, {3}}]
Vms == [id : {"v"}, running : BOOLEAN, hours : 0..4, createdAt : {0, 3}]
Outage == {a \in [title : {"serverOffline"}, server : {"h"}, severity : {"CRITICAL"}, createdAt : 0..3,
                  status : {"ACTIVE", "CLOSED"}, closedAt : {{1}, {4}}] :
              a.status = "CLOSED" => \A t \in a.closedAt : a.createdAt <= t}

\* The availability is a share of a thousand, and a whole one when nothing failed.
ASSUME AvailabilityAssumption ==
    \A h \in Servers, v \in Vms, alerts \in {{}} \cup {{a, b} : a, b \in Outage} :
        LET share == N!Availability30d({h}, {v}, alerts, 1, 4)
            outages == N!Outages(h, alerts, 1, 4)
        IN /\ share \in 0..1000
           /\ h.createdAt = 0 /\ outages = {} /\ v.running /\ v.hours = 0 => share = 1000
           /\ <<1, 4>> \in outages /\ h.createdAt = 0 /\ ~v.running /\ v.hours = 0 => share = 0

Pages == {w \in [id : {"s"}, status : SiteStatus, code : {0, 200, 404, 503},
                  monitoringEnabled : BOOLEAN, server : {"h"}] :
              w.status = "DEGRADED" => w.code # 0}

\* The NOC and the dashboard count the same sites in the same way, as long as
\* the code of a degraded site is known; TypeOK says that it is.
ASSUME CountsAssumption ==
    \A w, x \in Pages :
        LET sites == {w, [x EXCEPT !.id = "r"]}
            noc == N!Kpis({}, sites, {})
            board == N!Overview(sites)
        IN /\ noc.up = board.up /\ noc.down = board.down /\ noc.degraded = board.degraded
           /\ noc.total = board.total
           /\ board.up + board.down + board.degraded + board.maintenance <= board.total

\* The history of a day holds each alert of that day once.
ASSUME HistoryAssumption ==
    \A alerts \in SUBSET {a \in Outage : a.status = "ACTIVE"} :
        LET history == N!History(alerts, 4, 3)
        IN /\ UNION {history[i] : i \in DOMAIN history} = {a \in alerts : 4 - a.createdAt <= 3}
           /\ \A i, j \in DOMAIN history : i # j => history[i] \cap history[j] = {}
=============================================================================
