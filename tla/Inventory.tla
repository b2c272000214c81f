----------------------------- MODULE Inventory -----------------------------
(***************************************************************************)
(* What a server's agent reports of its host and what the backend makes of *)
(* it: the sites of a Plesk host, its services, the guests of a Proxmox    *)
(* host and the archives on its storage (agent/main.go, and                *)
(* syncPleskWebsites, processPleskServiceAlerts, syncProxmoxVms and        *)
(* syncProxmoxBackups of backend/src/agent/agent.service.ts), against the  *)
(* operators who create, edit and remove sites and servers                 *)
(* (websites.service.ts, servers.service.ts).                              *)
(*                                                                         *)
(* The agent gives up on a push after 30 seconds and sends another, the    *)
(* handler of the first goes on: pushes may overlap.  A site is a host     *)
(* name; the forms its URL takes are the same site to the code.            *)
(***************************************************************************)
EXTENDS Naturals, FiniteSets, Sequences

CONSTANTS
    Item,           \* host names of sites, or numbers of guests
    RowId,          \* ids of Website and ProxmoxVm rows
    NoRow,
    Pushes,         \* slots for pushes in progress
    Operators,      \* slots for operators' requests in progress
    Worlds,         \* the surroundings a behaviour may have: records of World
    MaxServers      \* bound on how often the server is created

\* What surrounds a behaviour: the profile of the agent, its items, whether it has
\* them all and keeps them (steady), how many pushes and operators' requests may
\* overlap, what operators ask for, the services of the host.
World == [profile: {"PLESK", "PROXMOX"}, items: SUBSET Item, steady: BOOLEAN, pushes: SUBSET Pushes,
          operators: SUBSET Operators,
          asked: SUBSET {"enter", "rename", "move", "remove", "servers"},
          services: SUBSET {"running", "stopped", "absent"}]

ASSUME ItemAssumption == Item # {}
ASSUME NoRowAssumption == NoRow \notin RowId
\* Guests are nobody's to enter, edit or remove: they come and go with the reports.
ASSUME WorldsAssumption ==
    /\ Worlds \subseteq World
    /\ \A w \in Worlds : w.services # {} /\ (w.profile = "PROXMOX" => w.asked \subseteq {"servers"})
ASSUME MaxServersAssumption == MaxServers \in Nat \ {0}

VARIABLES
    world,      \* the surroundings, chosen once
    host,       \* environment: what there is on the host, and what can be read of it
    skipped,    \* the agent leaves out the storage whose listing timed out
    server,     \* the Server row
    rows,       \* the rows of its sites or guests
    archived,   \* the ProxmoxBackup row of the archive exists
    alerts,     \* titles of the open alerts about services
    pushes,     \* the pushes in progress
    requests,   \* the operators' requests in progress
    created,    \* how often the server was created
    remembered  \* history: the removed sites whose exclusion was written, and not
                \* since written over by a removal that had read the list before

vars == <<world, host, skipped, server, rows, archived, alerts, pushes, requests, created, remembered>>

NoSite == [exists |-> FALSE, item |-> CHOOSE d \in Item : TRUE, source |-> "manual",
           renamed |-> FALSE, attached |-> FALSE]
Site == [exists: BOOLEAN, item: Item, source: {"manual", "agent"}, renamed: BOOLEAN, attached: BOOLEAN]

\* gone is history: what was remembered when the push read the exclusions.
IdlePush == [step |-> "idle", todo |-> {}, seen |-> {}, row |-> NoRow, item |-> NoSite.item,
             stale |-> {}, service |-> "absent", archive |-> FALSE, gone |-> {}]
\* missed is history: what others excluded since the request read the list.
IdleRequest == [step |-> "idle", row |-> NoRow, item |-> NoSite.item, excluded |-> {}, missed |-> {}]

Init ==
    /\ world \in Worlds
    /\ host = [listed |-> IF world.steady THEN world.items ELSE {}, tagged |-> {},
               readable |-> TRUE, tagsReadable |-> TRUE,
               service |-> CHOOSE s \in world.services : TRUE, archive |-> FALSE, hangs |-> FALSE]
    /\ skipped = FALSE
    /\ server = [exists |-> TRUE, known |-> TRUE, excluded |-> {}]
    /\ rows = [r \in RowId |-> NoSite]
    /\ archived = FALSE
    /\ alerts = {}
    /\ pushes = [p \in Pushes |-> IdlePush]
    /\ requests = [o \in Operators |-> IdleRequest]
    /\ created = 1
    /\ remembered = {}

Existing == {r \in RowId : rows[r].exists}
Attached == {r \in Existing : rows[r].attached}
RowsOf(d) == {r \in Attached : rows[r].item = d}

-----------------------------------------------------------------------------
(* The host *)

Change ==
    /\ ~world.steady
    /\ \/ \E d \in world.items, there \in BOOLEAN :
            host' = [host EXCEPT !.listed = IF there THEN @ \cup {d} ELSE @ \ {d}]
       \/ host' = [host EXCEPT !.readable = ~@]
       \/ world.profile = "PLESK" /\ \E s \in world.services : host' = [host EXCEPT !.service = s]
       \/ /\ world.profile = "PROXMOX"
          /\ \/ \E d \in world.items : host' = [host EXCEPT !.tagged = IF d \in @ THEN @ \ {d} ELSE @ \cup {d}]
             \/ host' = [host EXCEPT !.tagsReadable = ~@]
             \/ host' = [host EXCEPT !.hangs = ~@]
             \/ ~host.archive /\ host' = [host EXCEPT !.archive = TRUE]
    /\ host' # host
    /\ UNCHANGED <<world, skipped, server, rows, archived, alerts, pushes, requests, created, remembered>>

\* The agent is installed with the key of the server's row.
Install ==
    /\ server.exists /\ ~server.known
    /\ server' = [server EXCEPT !.known = TRUE]
    /\ UNCHANGED <<world, host, skipped, rows, archived, alerts, pushes, requests, created, remembered>>

-----------------------------------------------------------------------------
(* The agent: collectMetrics *)

\* Guests whose tags cannot be read are reported as untagged ones.
CollectProxmoxVms == IF host.tagsReadable THEN host.listed \ host.tagged ELSE host.listed
Report == IF world.profile = "PLESK" THEN host.listed ELSE CollectProxmoxVms

\* The archives of a storage are listed unless it timed out within 30 minutes.
ListsArchive == host.archive /\ ~host.hangs /\ ~skipped
SkippedNow == skipped \/ host.hangs

\* An inventory that cannot be read is left out of the push, it is not empty.
FirstStep ==
    IF world.profile = "PLESK" THEN IF host.readable THEN "exclusions" ELSE "services"
    ELSE IF host.readable THEN "guests" ELSE "backups"

\* A push whose key no server has is refused by the guard.
Push(p) ==
    /\ pushes[p].step = "idle"
    /\ server.exists /\ server.known
    /\ pushes' = [pushes EXCEPT ![p] = [IdlePush EXCEPT
                    !.step = FirstStep, !.todo = Report, !.seen = Report,
                    !.service = host.service, !.archive = world.profile = "PROXMOX" /\ ListsArchive]]
    /\ skipped' = (world.profile = "PROXMOX" /\ SkippedNow)
    /\ UNCHANGED <<world, host, server, rows, archived, alerts, requests, created, remembered>>

\* Half an hour goes by.
SkipEnds ==
    /\ skipped
    /\ skipped' = FALSE
    /\ UNCHANGED <<world, host, server, rows, archived, alerts, pushes, requests, created, remembered>>

At(p, step) == pushes[p].step = step
Goto(p, push) == pushes' = [pushes EXCEPT ![p] = push]

\* A statement on what is gone throws, and ends the push.
Throw(p) == Goto(p, IdlePush) /\ UNCHANGED <<rows, alerts, archived>>

\* A new row has an id that no row has and no handler still holds.
Held == (UNION {{pushes[p].row} \cup pushes[p].stale : p \in Pushes})
          \cup {requests[o].row : o \in Operators}
Fresh == RowId \ (Existing \cup Held)
NewId == CHOOSE r \in Fresh : TRUE
Insert(row) == Fresh # {} /\ rows' = [rows EXCEPT ![NewId] = row]

-----------------------------------------------------------------------------
(* syncPleskWebsites *)

ReadExclusions(p) ==
    LET kept == pushes[p].seen \ (IF server.exists THEN server.excluded ELSE {}) IN
    /\ At(p, "exclusions")
    /\ Goto(p, [pushes[p] EXCEPT !.step = "find", !.todo = kept, !.seen = kept,
                                   !.gone = remembered])
    /\ UNCHANGED <<world, host, skipped, server, rows, archived, alerts, requests, created, remembered>>

\* Each listed site is looked up; one the agent created gets back the name that
\* Plesk gives it.
FindSite(p) ==
    /\ At(p, "find")
    /\ \E d \in pushes[p].todo :
         LET t == [pushes[p] EXCEPT !.todo = @ \ {d}] IN
         \/ /\ RowsOf(d) = {}
            /\ Goto(p, [t EXCEPT !.step = "create", !.item = d])
         \/ \E r \in RowsOf(d) :
              Goto(p, IF rows[r].source = "agent" /\ rows[r].renamed
                      THEN [t EXCEPT !.step = "rename", !.row = r] ELSE t)
    /\ UNCHANGED <<world, host, skipped, server, rows, archived, alerts, requests, created, remembered>>

RenameSite(p) ==
    LET r == pushes[p].row IN
    /\ At(p, "rename")
    /\ \/ ~rows[r].exists /\ Throw(p)
       \/ /\ rows[r].exists
          /\ rows' = [rows EXCEPT ![r].renamed = FALSE]
          /\ Goto(p, [pushes[p] EXCEPT !.step = "find", !.row = NoRow])
          /\ UNCHANGED <<alerts, archived>>
    /\ UNCHANGED <<world, host, skipped, server, requests, created, remembered>>

CreateSite(p) ==
    /\ At(p, "create")
    /\ \/ ~server.exists /\ Throw(p)
       \/ /\ server.exists
          /\ Insert([exists |-> TRUE, item |-> pushes[p].item, source |-> "agent",
                     renamed |-> FALSE, attached |-> TRUE])
          /\ Goto(p, [pushes[p] EXCEPT !.step = "find"])
          /\ UNCHANGED <<alerts, archived>>
    /\ UNCHANGED <<world, host, skipped, server, requests, created, remembered>>

\* Mutant: nothing is pruned.
ListAgentSitesSpared(p) ==
    /\ At(p, "find") /\ pushes[p].todo = {}
    /\ Goto(p, [pushes[p] EXCEPT !.step = "services"])
    /\ UNCHANGED <<world, host, skipped, server, rows, archived, alerts, requests, created, remembered>>

\* Mutant: every row of the server that was not reported is pruned.
ListAgentSitesAll(p) ==
    LET stale == {r \in Attached : rows[r].item \notin pushes[p].seen} IN
    /\ At(p, "find") /\ pushes[p].todo = {}
    /\ Goto(p, [pushes[p] EXCEPT !.step = IF stale = {} THEN "services" ELSE "prune", !.stale = stale])
    /\ UNCHANGED <<world, host, skipped, server, rows, archived, alerts, requests, created, remembered>>

ListAgentSites(p) ==
    LET stale == {r \in Attached : rows[r].source = "agent" /\ rows[r].item \notin pushes[p].seen} IN
    /\ At(p, "find") /\ pushes[p].todo = {}
    /\ Goto(p, [pushes[p] EXCEPT !.step = IF stale = {} THEN "services" ELSE "prune", !.stale = stale])
    /\ UNCHANGED <<world, host, skipped, server, rows, archived, alerts, requests, created, remembered>>

PruneSite(p) ==
    LET left == pushes[p].stale IN
    /\ At(p, "prune")
    /\ \E r \in left :
         \/ ~rows[r].exists /\ Throw(p)
         \/ /\ rows[r].exists
            /\ rows' = [rows EXCEPT ![r] = NoSite]
            /\ Goto(p, [pushes[p] EXCEPT !.stale = left \ {r},
                          !.step = IF left = {r} THEN "services" ELSE "prune"])
            /\ UNCHANGED <<alerts, archived>>
    /\ UNCHANGED <<world, host, skipped, server, requests, created, remembered>>

-----------------------------------------------------------------------------
(* processPleskServiceAlerts *)

Label == "nginx"
StoppedTitle == <<"Service", "Plesk", "arrete:", Label>>
Contains(title, words) ==
    \E i \in 1..(Len(title) - Len(words) + 1) : SubSeq(title, i, i + Len(words) - 1) = words
WithoutService == {t \in alerts : ~Contains(t, <<"Service", Label>>)}

\* "stopped" stands for inactive, failed and dead as well, and "absent" for every
\* state that the code does not name.
ServiceAlert(p) ==
    /\ At(p, "services")
    /\ alerts' = IF ~server.exists THEN alerts
                 ELSE IF pushes[p].service = "running" THEN WithoutService
                 ELSE IF pushes[p].service = "stopped" THEN alerts \cup {StoppedTitle} ELSE alerts
    /\ Goto(p, IdlePush)
    /\ UNCHANGED <<world, host, skipped, server, rows, archived, requests, created, remembered>>

-----------------------------------------------------------------------------
(* syncProxmoxVms and syncProxmoxBackups *)

\* Mutant: an insert in place of the upsert.
UpsertVmBlind(p) ==
    /\ At(p, "guests")
    /\ \E d \in pushes[p].todo :
         /\ Insert([NoSite EXCEPT !.exists = TRUE, !.item = d, !.source = "agent", !.attached = TRUE])
         /\ Goto(p, [pushes[p] EXCEPT !.todo = @ \ {d}])
    /\ UNCHANGED <<world, host, skipped, server, archived, alerts, requests, created, remembered>>

\* One row per guest of the server: the key (serverId, vmid).
UpsertVm(p) ==
    /\ At(p, "guests")
    /\ \E d \in pushes[p].todo :
         LET t == [pushes[p] EXCEPT !.todo = @ \ {d}, !.step = "metric"] IN
         \/ ~server.exists /\ Throw(p)
         \/ /\ server.exists
            /\ \/ \E r \in RowsOf(d) : Goto(p, [t EXCEPT !.row = r]) /\ UNCHANGED rows
               \/ /\ RowsOf(d) = {}
                  /\ Insert([NoSite EXCEPT !.exists = TRUE, !.item = d,
                                            !.source = "agent", !.attached = TRUE])
                  /\ Goto(p, [t EXCEPT !.row = NewId])
            /\ UNCHANGED <<alerts, archived>>
    /\ UNCHANGED <<world, host, skipped, server, requests, created, remembered>>

\* The measurement refers to the guest's row, which another push may have pruned.
VmMetric(p) ==
    /\ At(p, "metric")
    /\ \/ ~rows[pushes[p].row].exists /\ Throw(p)
       \/ /\ Goto(p, [pushes[p] EXCEPT !.step = "guests", !.row = NoRow])
          /\ UNCHANGED <<rows, alerts, archived>>
    /\ UNCHANGED <<world, host, skipped, server, requests, created, remembered>>

DeleteOtherVms(p) ==
    /\ At(p, "guests") /\ pushes[p].todo = {}
    /\ rows' = [r \in RowId |-> IF r \in Attached /\ rows[r].item \notin pushes[p].seen
                                THEN NoSite ELSE rows[r]]
    /\ Goto(p, [pushes[p] EXCEPT !.step = "backups"])
    /\ UNCHANGED <<world, host, skipped, server, archived, alerts, requests, created, remembered>>

UpsertBackup(p) ==
    /\ At(p, "backups")
    /\ archived' = (server.exists /\ (archived \/ pushes[p].archive))
    /\ Goto(p, IdlePush)
    /\ UNCHANGED <<world, host, skipped, server, rows, alerts, requests, created, remembered>>

-----------------------------------------------------------------------------
(* Operators: websites.service.ts *)

Free(o) == requests[o].step = "idle"
MayServe(o) == Free(o) /\ "servers" \in world.asked

\* A site entered by hand, on the server or on none.
EnterSite(o) ==
    /\ Free(o) /\ "enter" \in world.asked
    /\ \A r \in Existing : rows[r].source = "agent"       \* bound: one at a time
    /\ \E d \in world.items, attached \in BOOLEAN :
         /\ attached => server.exists
         /\ Insert([exists |-> TRUE, item |-> d, source |-> "manual",
                    renamed |-> FALSE, attached |-> attached])
    /\ UNCHANGED <<world, host, skipped, server, archived, alerts, pushes, requests, created, remembered>>

\* update(): another name, or another URL.  Only the name of a site the agent
\* created is ever looked at.  No operator gives a site to another server.
EditSite(o) ==
    /\ Free(o)
    /\ \E r \in Existing :
         \/ "rename" \in world.asked /\ rows[r].source = "agent" /\ rows' = [rows EXCEPT ![r].renamed = TRUE]
         \/ \E d \in world.items :
              /\ "move" \in world.asked
              /\ \A q \in Existing : rows[q].item # d      \* bound: to a URL no row has
              /\ rows' = [rows EXCEPT ![r].item = d]
    /\ UNCHANGED <<world, host, skipped, server, archived, alerts, pushes, requests, created, remembered>>

\* remove(): a site of the agent is first put on the server's list of exclusions,
\* which is read here and written back in the next step.
RemoveSite(o) ==
    /\ Free(o) /\ "remove" \in world.asked
    /\ \E r \in Existing :
         requests' = [requests EXCEPT ![o] =
            IF rows[r].attached /\ rows[r].source = "agent" /\ rows[r].item \notin server.excluded
            THEN [IdleRequest EXCEPT !.step = "exclude", !.row = r, !.item = rows[r].item,
                                     !.excluded = server.excluded \cup {rows[r].item}]
            ELSE [IdleRequest EXCEPT !.step = "delete", !.row = r]]
    /\ UNCHANGED <<world, host, skipped, server, rows, archived, alerts, pushes, created, remembered>>

\* Mutant: the list is replaced by the new entry.
ExcludedOnly(request) == {request.item}
Excluded(request) == request.excluded

\* The list is written as it was read, whatever others wrote to it since.
WriteExclusions(o) ==
    LET q == requests[o] IN
    /\ q.step = "exclude" /\ server.exists
    /\ server' = [server EXCEPT !.excluded = Excluded(q)]
    /\ remembered' = (remembered \ q.missed) \cup {q.item}
    /\ requests' = [x \in Operators |->
          IF x = o THEN [IdleRequest EXCEPT !.step = "delete", !.row = q.row]
          ELSE IF requests[x].step = "exclude" THEN [requests[x] EXCEPT !.missed = @ \cup {q.item}]
          ELSE requests[x]]
    /\ UNCHANGED <<world, host, skipped, rows, archived, alerts, pushes, created>>

\* A row that is gone throws; there is nothing after it but a log entry.
DeleteSite(o) ==
    /\ requests[o].step = "delete"
    /\ rows' = [rows EXCEPT ![requests[o].row] = NoSite]
    /\ requests' = [requests EXCEPT ![o] = IdleRequest]
    /\ UNCHANGED <<world, host, skipped, server, archived, alerts, pushes, created, remembered>>

-----------------------------------------------------------------------------
(* Operators: servers.service.ts *)

\* remove(): the alerts first, then the row.
RemoveServer(o) ==
    /\ MayServe(o)
    /\ server.exists
    /\ alerts' = {}
    /\ requests' = [requests EXCEPT ![o].step = "deleteServer"]
    /\ UNCHANGED <<world, host, skipped, server, rows, archived, pushes, created, remembered>>

\* The sites of a removed server stay, without server; its guests and backups go
\* with it, and who is about to write its list of exclusions will throw.
DeleteServer(o) ==
    /\ requests[o].step = "deleteServer"
    /\ server' = [exists |-> FALSE, known |-> FALSE, excluded |-> {}]
    /\ rows' = [r \in RowId |->
                  IF world.profile = "PROXMOX" /\ rows[r].attached THEN NoSite
                  ELSE [rows[r] EXCEPT !.attached = FALSE]]
    /\ alerts' = {} /\ archived' = FALSE /\ remembered' = {}
    /\ requests' = [x \in Operators |->
          IF x = o \/ requests[x].step = "exclude" THEN IdleRequest ELSE requests[x]]
    /\ UNCHANGED <<world, host, skipped, pushes, created>>

\* A push of the removed server that still runs is taken for one of the new one: it
\* may do more here than in the code, where it finds no row of its server.
CreateServer(o) ==
    /\ MayServe(o)
    /\ ~server.exists /\ created < MaxServers
    /\ server' = [exists |-> TRUE, known |-> FALSE, excluded |-> {}]
    /\ created' = created + 1
    /\ UNCHANGED <<world, host, skipped, rows, archived, alerts, pushes, requests, remembered>>

RegenerateKey(o) ==
    /\ MayServe(o)
    /\ server.exists
    /\ server' = [server EXCEPT !.known = FALSE]
    /\ UNCHANGED <<world, host, skipped, rows, archived, alerts, pushes, requests, created, remembered>>

CloseByHand(o) ==
    /\ MayServe(o)
    /\ alerts # {}
    /\ alerts' = {}
    /\ UNCHANGED <<world, host, skipped, server, rows, archived, pushes, requests, created, remembered>>

-----------------------------------------------------------------------------

PushStep(p) ==
    \/ ReadExclusions(p) \/ FindSite(p) \/ RenameSite(p) \/ CreateSite(p)
    \/ ListAgentSites(p) \/ PruneSite(p) \/ ServiceAlert(p)
    \/ UpsertVm(p) \/ VmMetric(p) \/ DeleteOtherVms(p) \/ UpsertBackup(p)
OperatorStep(o) == WriteExclusions(o) \/ DeleteSite(o) \/ DeleteServer(o)
SiteRequest(o) == EnterSite(o) \/ EditSite(o) \/ RemoveSite(o)
ServerRequest(o) == RemoveServer(o) \/ CreateServer(o) \/ RegenerateKey(o) \/ CloseByHand(o)

Next ==
    \/ Change \/ Install \/ SkipEnds
    \/ \E p \in world.pushes : Push(p) \/ PushStep(p)
    \/ \E o \in world.operators : SiteRequest(o) \/ ServerRequest(o) \/ OperatorStep(o)

Spec == Init /\ [][Next]_vars

\* The agent pushes as long as it runs, half hours go by, and the event loop runs
\* every continuation.  Nothing makes an operator act.
Fairness ==
    /\ \A p \in Pushes : WF_vars(p \in world.pushes /\ Push(p)) /\ WF_vars(PushStep(p))
    /\ \A o \in Operators : WF_vars(OperatorStep(o))
    /\ WF_vars(SkipEnds)

FairSpec == Spec /\ Fairness

-----------------------------------------------------------------------------
(* Properties *)

\* Every variable has its type, and a guest has one row at most.
TypeOK ==
    /\ world \in Worlds
    /\ host \in [listed: SUBSET Item, tagged: SUBSET Item, readable: BOOLEAN, tagsReadable: BOOLEAN,
                 service: world.services, archive: BOOLEAN, hangs: BOOLEAN]
    /\ skipped \in BOOLEAN /\ archived \in BOOLEAN
    /\ server \in [exists: BOOLEAN, known: BOOLEAN, excluded: SUBSET Item]
    /\ rows \in [RowId -> Site]
    /\ alerts \subseteq {StoppedTitle}
    /\ pushes \in [Pushes -> [step: {"idle", "exclusions", "find", "rename", "create", "prune", "services",
                                     "guests", "metric", "backups"},
                              todo: SUBSET Item, seen: SUBSET Item, row: RowId \cup {NoRow}, item: Item,
                              stale: SUBSET RowId, service: world.services \cup {"absent"}, archive: BOOLEAN,
                              gone: SUBSET Item]]
    /\ requests \in [Operators -> [step: {"idle", "exclude", "delete", "deleteServer"},
                                   row: RowId \cup {NoRow}, item: Item, excluded: SUBSET Item, missed: SUBSET Item]]
    /\ created \in 1..MaxServers
    /\ remembered \subseteq Item
    /\ world.profile = "PROXMOX" => \A d \in Item : Cardinality(RowsOf(d)) <= 1

Reports == server.exists /\ server.known /\ host.readable
Sites(d) == {r \in RowsOf(d) : rows[r].source = "agent"}
EditedTo(d) == \E r \in Existing : rows[r].item # d /\ rows'[r].item = d

\* "remember exclusion so the next inventory sync does not recreate them": a site
\* whose exclusion was written when a sync reads the list is not created by that
\* sync.  The one way to lose it is the lost update of two overlapping removals, of
\* which the later to write had read the list before the earlier wrote it: the code
\* has nothing against that, and the comment does not hold then.
RemovedStaysRemoved ==
    [][\A p \in Pushes :
         pushes[p].step = "create" /\ rows' # rows /\ pushes'[p].step = "find"
           => pushes[p].item \notin pushes[p].gone]_vars

\* A site entered by hand goes only at the request of an operator for that row: a
\* sync prunes the rows it listed before, and those were the agent's and still are.
ManualSitesSpared ==
    [][\A r \in RowId :
         rows[r].exists /\ rows[r].source = "manual" /\ ~rows'[r].exists
           => \E o \in Operators : requests[o].step = "delete" /\ requests[o].row = r]_vars

Undisturbed == world.asked = {}
Inventoried(d) == d \in IF world.profile = "PLESK" THEN host.listed \ server.excluded
                        ELSE host.listed \ host.tagged
NotInventoried(d) == ~Inventoried(d) /\ (d \in host.listed => host.tagsReadable)

\* What stays on the host comes to be shown, and what is gone from it, or hidden by
\* its tag, ends up hidden, whatever overlaps; operators can only disturb it for a
\* while.  A site that is excluded ends up gone for good while the agent reports,
\* although a sync that read the list before may create it once more, unless operators
\* keep giving its URL to others.  A service that stays stopped is alerted again and
\* again, and an archive on a storage that answers is known in the end, although its
\* listing may have hung.
HostIsReflected ==
    /\ \A d \in Item :
         /\ <>[](Reports /\ Inventoried(d)) => []<>(RowsOf(d) # {})
         /\ <>[](Reports /\ NotInventoried(d)) => []<>(Sites(d) = {})
         /\ <>[](Reports /\ d \in server.excluded) /\ <>[][~EditedTo(d)]_vars => <>[](Sites(d) = {})
         /\ Undisturbed /\ <>[](Reports /\ Inventoried(d)) => <>[](RowsOf(d) # {})
         /\ Undisturbed /\ <>[](Reports /\ NotInventoried(d)) => <>[](Sites(d) = {})
    /\ <>[](Reports /\ host.service = "stopped") => []<>(StoppedTitle \in alerts)
    /\ <>[](Reports /\ host.archive /\ ~host.hangs /\ world.profile = "PROXMOX") => <>[]archived

\* "Clôture automatique dès que la condition n'est plus détectée": the alert of a
\* service that runs again ends.
ServiceAlertEnds ==
    <>[](Reports /\ host.service = "running") => <>[](StoppedTitle \notin alerts)
=============================================================================
