-------------------------- MODULE InventoryProofs --------------------------
(***************************************************************************)
(* Proofs about Inventory, for any items, rows, pushes, operators, worlds  *)
(* and bound on the servers.                                               *)
(***************************************************************************)
EXTENDS Inventory, FiniteSetTheorems, TLAPS

-----------------------------------------------------------------------------
(* The inductive invariant *)

PleskSteps == {"exclusions", "find", "rename", "create", "prune", "services"}
ProxmoxSteps == {"guests", "metric", "backups"}

PushState == [step: {"idle", "exclusions", "find", "rename", "create", "prune", "services",
                     "guests", "metric", "backups"},
              todo: SUBSET Item, seen: SUBSET Item, row: RowId \cup {NoRow}, item: Item,
              stale: SUBSET RowId, service: world.services \cup {"absent"}, archive: BOOLEAN, gone: SUBSET Item]
RequestState == [step: {"idle", "exclude", "delete", "deleteServer"},
                 row: RowId \cup {NoRow}, item: Item, excluded: SUBSET Item, missed: SUBSET Item]

\* A push is of the profile of its agent, has a row in hand where it needs one, and
\* prunes rows of the agent only.
SoundWith(x, table) ==
    /\ x.step \in {"rename", "metric"} => x.row \in RowId
    /\ x.step \in PleskSteps => world.profile = "PLESK"
    /\ x.step \in ProxmoxSteps => world.profile = "PROXMOX"
    /\ \A r \in x.stale : table[r].exists => table[r].source = "agent"
Sound(x) == SoundWith(x, rows)

PushesSound == pushes \in [Pushes -> PushState] /\ \A p \in Pushes : Sound(pushes[p])

RequestsSound ==
    /\ requests \in [Operators -> RequestState]
    /\ \A o \in Operators : requests[o].step \in {"exclude", "delete"} => requests[o].row \in RowId

\* The rows of a Proxmox host are the agent's, one for each guest.
GuestRows ==
    world.profile = "PROXMOX" =>
        /\ \A r \in RowId : rows[r].exists => rows[r].source = "agent"
        /\ \A r, q \in RowId :
              rows[r].exists /\ rows[r].attached /\ rows[q].exists /\ rows[q].attached
                /\ rows[r].item = rows[q].item => r = q

RowsSound == rows \in [RowId -> Site] /\ GuestRows

AroundType ==
    /\ world \in Worlds
    /\ host \in [listed: SUBSET Item, tagged: SUBSET Item, readable: BOOLEAN, tagsReadable: BOOLEAN,
                 service: world.services, archive: BOOLEAN, hangs: BOOLEAN]
    /\ skipped \in BOOLEAN /\ archived \in BOOLEAN
    /\ alerts \subseteq {StoppedTitle}
    /\ created \in 1..MaxServers
    /\ remembered \subseteq Item

ServerType == server \in [exists: BOOLEAN, known: BOOLEAN, excluded: SUBSET Item]

InventoryInv ==
    AroundType /\ ServerType /\ RowsSound /\ PushesSound /\ RequestsSound

-----------------------------------------------------------------------------
(* What rows, pushes and requests are *)

LEMMA WorldType ==
    ASSUME NEW w \in Worlds
    PROVE  /\ w.profile \in {"PLESK", "PROXMOX"}
           /\ w.items \subseteq Item /\ w.pushes \subseteq Pushes
           /\ w.operators \subseteq Operators
           /\ w.profile = "PROXMOX" => w.asked \subseteq {"servers"}
           /\ w.services # {}
<1>1. w \in World
    BY WorldsAssumption
<1> QED
    BY <1>1, WorldsAssumption DEF World

LEMMA NoSiteType == NoSite \in Site /\ ~NoSite.exists /\ NoSite.item \in Item
<1>1. (CHOOSE d \in Item : TRUE) \in Item
    BY ItemAssumption
<1> QED
    BY <1>1 DEF NoSite, Site

LEMMA IdlePushType == IdlePush \in PushState /\ \A table : SoundWith(IdlePush, table)
<1>1. NoSite.item \in Item
    BY NoSiteType
<1>2. IdlePush \in PushState
    BY <1>1 DEF IdlePush, PushState
<1>3. \A table : SoundWith(IdlePush, table)
    BY DEF IdlePush, SoundWith, PleskSteps, ProxmoxSteps
<1> QED
    BY <1>2, <1>3

LEMMA IdleRequestType == IdleRequest \in RequestState /\ IdleRequest.step = "idle"
BY NoSiteType DEF IdleRequest, RequestState

LEMMA AtMostOne ==
    ASSUME NEW S, \A x, y \in S : x = y
    PROVE  Cardinality(S) <= 1
<1>1. CASE S = {}
    BY <1>1, FS_EmptySet
<1>2. CASE S # {}
    <2>1. PICK x : S = {x}
        BY <1>2
    <2> QED
        BY <2>1, FS_Singleton
<1> QED
    BY <1>1, <1>2

LEMMA InvGivesTypes == InventoryInv => TypeOK
<1> SUFFICES ASSUME InventoryInv PROVE TypeOK
    OBVIOUS
<1>1. ASSUME world.profile = "PROXMOX", NEW d \in Item PROVE Cardinality(RowsOf(d)) <= 1
    <2>1. \A x, y \in RowsOf(d) : x = y
        BY <1>1 DEF InventoryInv, RowsSound, GuestRows, RowsOf, Attached, Existing
    <2> QED
        BY <2>1, AtMostOne
<1> QED
    BY <1>1 DEF TypeOK, InventoryInv, AroundType, ServerType, RowsSound, PushesSound, RequestsSound,
                PushState, RequestState

\* Rows come with the source they will keep, under an id nobody holds.
RowsStep ==
    \A r \in RowId : rows'[r].exists =>
        \/ rows[r].exists /\ rows'[r].source = rows[r].source
        \/ r \in Fresh

\* Where a push may have got to.
LEMMA PushGoes ==
    ASSUME InventoryInv, UNCHANGED world, RowsStep, NEW p \in Pushes,
           NEW x \in PushState, SoundWith(x, rows'), Goto(p, x)
    PROVE  PushesSound'
<1>1. pushes' = [pushes EXCEPT ![p] = x]
    BY DEF Goto
<1>2. pushes \in [Pushes -> PushState] /\ \A q \in Pushes : Sound(pushes[q])
    BY DEF InventoryInv, PushesSound
<1>3. pushes' \in [Pushes -> PushState]
    BY <1>1, <1>2
<1>4. PushState' = PushState
    BY DEF PushState
<1>5. ASSUME NEW q \in Pushes PROVE SoundWith(pushes'[q], rows')
    <2>1. CASE q = p
        BY <1>1, <1>2, <2>1
    <2>2. CASE q # p
        <3>1. pushes'[q] = pushes[q]
            BY <1>1, <1>2, <2>2
        <3>2. SoundWith(pushes[q], rows) /\ pushes[q].stale \subseteq RowId
            BY <1>2 DEF Sound, PushState
        <3>3. pushes[q].stale \cap Fresh = {}
            BY DEF Fresh, Held
        <3>4. \A r \in pushes[q].stale : rows'[r].exists => rows'[r].source = "agent"
            BY <3>2, <3>3 DEF RowsStep, SoundWith
        <3> QED
            BY <3>1, <3>2, <3>4 DEF SoundWith
    <2> QED
        BY <2>1, <2>2
<1>6. \A q \in Pushes : Sound(pushes[q])'
    BY <1>5 DEF Sound, SoundWith
<1> QED
    BY <1>3, <1>4, <1>6 DEF PushesSound

LEMMA PushesStay ==
    ASSUME InventoryInv, UNCHANGED <<world, pushes>>, RowsStep
    PROVE  PushesSound'
<1>1. PushState' = PushState
    BY DEF PushState
<1>2. ASSUME NEW q \in Pushes PROVE Sound(pushes[q])'
    <2>1. SoundWith(pushes[q], rows) /\ pushes[q].stale \subseteq RowId
        BY DEF InventoryInv, PushesSound, Sound, PushState
    <2>2. pushes[q].stale \cap Fresh = {}
        BY DEF Fresh, Held
    <2>3. \A r \in pushes[q].stale : rows'[r].exists => rows'[r].source = "agent"
        BY <2>1, <2>2 DEF RowsStep, SoundWith
    <2> QED
        BY <2>1, <2>3 DEF Sound, SoundWith
<1> QED
    BY <1>1, <1>2 DEF InventoryInv, PushesSound

LEMMA RowsStay == ASSUME UNCHANGED <<world, rows>>
                  PROVE  RowsStep /\ (RowsSound => RowsSound')
BY DEF RowsStep, RowsSound, GuestRows

LEMMA RequestsStay == ASSUME UNCHANGED requests, RequestsSound PROVE RequestsSound'
BY DEF RequestsSound, RequestState

LEMMA AroundStays ==
    ASSUME AroundType, UNCHANGED <<world, host, skipped, archived, alerts, created, remembered>>
    PROVE  AroundType'
BY DEF AroundType

\* Removing rows, or letting go of them, leaves the guests one row each.
LEMMA RemovalSound ==
    ASSUME RowsSound, UNCHANGED world, rows' \in [RowId -> Site],
           \A r \in RowId : rows'[r].exists =>
               /\ rows[r].exists /\ rows'[r].source = rows[r].source
               /\ rows'[r].item = rows[r].item /\ (rows'[r].attached => rows[r].attached)
    PROVE  RowsSound' /\ RowsStep
<1>1. RowsStep
    BY DEF RowsStep
<1>2. GuestRows'
    BY DEF RowsSound, GuestRows
<1> QED
    BY <1>1, <1>2 DEF RowsSound

\* An insert on a Plesk host, or of a guest that has no row yet.
LEMMA InsertSound ==
    ASSUME RowsSound, UNCHANGED world, NEW row \in Site, row.exists, Insert(row),
           world.profile = "PROXMOX" => row.source = "agent" /\ RowsOf(row.item) = {}
    PROVE  RowsSound' /\ RowsStep /\ NewId \in RowId
<1>1. NewId \in Fresh
    BY DEF Insert, NewId
<1>2. NewId \in RowId
    BY <1>1 DEF Fresh
<1>3. rows' = [rows EXCEPT ![NewId] = row] /\ rows \in [RowId -> Site]
    BY DEF Insert, RowsSound
<1> DEFINE n == NewId
<1>4. n \in RowId /\ n \in Fresh /\ rows' = [rows EXCEPT ![n] = row]
    BY <1>1, <1>2, <1>3
<1> HIDE DEF n
<1>5. rows' \in [RowId -> Site] /\ rows'[n] = row /\ \A r \in RowId \ {n} : rows'[r] = rows[r]
    BY <1>3, <1>4
<1>6. RowsStep
    BY <1>4, <1>5 DEF RowsStep
<1>7. GuestRows'
    <2> SUFFICES ASSUME world.profile = "PROXMOX"
                 PROVE  /\ \A r \in RowId : rows'[r].exists => rows'[r].source = "agent"
                        /\ \A r, q \in RowId :
                              rows'[r].exists /\ rows'[r].attached /\ rows'[q].exists /\ rows'[q].attached
                                /\ rows'[r].item = rows'[q].item => r = q
        BY DEF GuestRows
    <2>1. \A r \in RowId : ~(rows[r].exists /\ rows[r].attached /\ rows[r].item = row.item)
        BY DEF RowsOf, Attached, Existing
    <2>2. GuestRows
        BY DEF RowsSound
    <2> QED
        BY <1>5, <2>1, <2>2 DEF GuestRows
<1> QED
    BY <1>2, <1>5, <1>6, <1>7 DEF RowsSound

-----------------------------------------------------------------------------
(* The invariant is inductive *)

LEMMA InitSound == Init => InventoryInv
<1> SUFFICES ASSUME Init PROVE InventoryInv
    OBVIOUS
<1>1. world \in Worlds /\ world.services # {}
    BY WorldType DEF Init
<1>2. (CHOOSE s \in world.services : TRUE) \in world.services
    BY <1>1
<1>3. host \in [listed: SUBSET Item, tagged: SUBSET Item, readable: BOOLEAN, tagsReadable: BOOLEAN,
                service: world.services, archive: BOOLEAN, hangs: BOOLEAN]
    <2>1. world.items \subseteq Item
        BY WorldType DEF Init
    <2> QED
        BY <1>2, <2>1 DEF Init
<1>4. AroundType
    <2>1. 1 \in 1..MaxServers
        BY MaxServersAssumption
    <2>2. alerts \subseteq {StoppedTitle} /\ skipped \in BOOLEAN /\ archived \in BOOLEAN
        BY DEF Init
    <2>3. created \in 1..MaxServers /\ remembered \subseteq Item
        BY <2>1 DEF Init
    <2> QED
        BY <1>1, <1>3, <2>2, <2>3 DEF AroundType
<1>5. RowsSound
    <2>1. rows \in [RowId -> Site] /\ \A r \in RowId : ~rows[r].exists
        BY NoSiteType DEF Init
    <2> QED
        BY <2>1 DEF RowsSound, GuestRows
<1>6. PushesSound
    BY IdlePushType DEF Init, PushesSound, Sound
<1>7. RequestsSound
    BY IdleRequestType DEF Init, RequestsSound
<1>8. ServerType
    BY DEF Init, ServerType
<1> QED
    BY <1>4, <1>5, <1>6, <1>7, <1>8 DEF InventoryInv

LEMMA ChangeKeeps == InventoryInv /\ Change => InventoryInv'
<1> SUFFICES ASSUME InventoryInv, Change PROVE InventoryInv'
    OBVIOUS
<1> DEFINE Host == [listed: SUBSET Item, tagged: SUBSET Item, readable: BOOLEAN, tagsReadable: BOOLEAN,
                    service: world.services, archive: BOOLEAN, hangs: BOOLEAN]
<1>1. host \in Host /\ world.items \subseteq Item
    BY WorldType DEF InventoryInv, AroundType
<1>2. host' \in Host
    <2>1. CASE \E d \in world.items, there \in BOOLEAN :
                  host' = [host EXCEPT !.listed = IF there THEN @ \cup {d} ELSE @ \ {d}]
        BY <1>1, <2>1
    <2>2. CASE \E d \in world.items :
                  host' = [host EXCEPT !.tagged = IF d \in @ THEN @ \ {d} ELSE @ \cup {d}]
        BY <1>1, <2>2
    <2>3. CASE \E s \in world.services : host' = [host EXCEPT !.service = s]
        BY <1>1, <2>3
    <2>4. CASE \/ host' = [host EXCEPT !.readable = ~@]
               \/ host' = [host EXCEPT !.tagsReadable = ~@]
               \/ host' = [host EXCEPT !.hangs = ~@]
               \/ host' = [host EXCEPT !.archive = TRUE]
        BY <1>1, <2>4
    <2> QED
        BY <2>1, <2>2, <2>3, <2>4 DEF Change
<1>3. UNCHANGED <<world, skipped, server, rows, archived, alerts, pushes, requests, created, remembered>>
    BY DEF Change
<1>4. AroundType'
    BY <1>2, <1>3 DEF InventoryInv, AroundType
<1>5. RowsStep /\ RowsSound'
    BY <1>3, RowsStay DEF InventoryInv
<1>6. PushesSound' /\ RequestsSound'
    BY <1>3, <1>5, PushesStay, RequestsStay DEF InventoryInv
<1> QED
    BY <1>3, <1>4, <1>5, <1>6 DEF InventoryInv, ServerType

\* A step that leaves rows and pushes alone.
LEMMA QuietStep ==
    ASSUME InventoryInv, UNCHANGED <<world, host, rows, pushes>>,
           skipped' \in BOOLEAN, archived' \in BOOLEAN, alerts' \subseteq {StoppedTitle},
           created' \in 1..MaxServers, remembered' \subseteq Item, ServerType', RequestsSound'
    PROVE  InventoryInv'
<1>1. AroundType'
    BY DEF InventoryInv, AroundType
<1>2. RowsStep /\ RowsSound'
    BY RowsStay DEF InventoryInv
<1>3. PushesSound'
    BY <1>2, PushesStay
<1> QED
    BY <1>1, <1>2, <1>3 DEF InventoryInv

LEMMA InstallKeeps == InventoryInv /\ Install => InventoryInv'
<1> SUFFICES ASSUME InventoryInv, Install PROVE InventoryInv'
    OBVIOUS
<1>1. ServerType'
    BY DEF Install, InventoryInv, ServerType
<1>2. RequestsSound'
    BY RequestsStay DEF Install, InventoryInv
<1> QED
    BY <1>1, <1>2, QuietStep DEF Install, InventoryInv, AroundType

LEMMA SkipEndsKeeps == InventoryInv /\ SkipEnds => InventoryInv'
<1> SUFFICES ASSUME InventoryInv, SkipEnds PROVE InventoryInv'
    OBVIOUS
<1>1. ServerType' /\ RequestsSound'
    BY RequestsStay DEF SkipEnds, InventoryInv, ServerType
<1> QED
    BY <1>1, QuietStep DEF SkipEnds, InventoryInv, AroundType

\* A step of a push that leaves the rows alone.
LEMMA QuietPush ==
    ASSUME InventoryInv, UNCHANGED <<world, host, rows, server, requests, created, remembered>>,
           skipped' \in BOOLEAN, archived' \in BOOLEAN, alerts' \subseteq {StoppedTitle},
           NEW p \in Pushes, NEW x \in PushState, SoundWith(x, rows), Goto(p, x)
    PROVE  InventoryInv'
<1>1. AroundType'
    BY DEF InventoryInv, AroundType
<1>2. RowsStep /\ RowsSound'
    BY RowsStay DEF InventoryInv
<1>3. SoundWith(x, rows')
    OBVIOUS
<1>4. PushesSound'
    BY <1>2, <1>3, PushGoes
<1>5. RequestsSound' /\ ServerType'
    BY RequestsStay DEF InventoryInv, ServerType
<1> QED
    BY <1>1, <1>2, <1>4, <1>5 DEF InventoryInv

\* A statement that throws.
LEMMA ThrowKeeps ==
    ASSUME InventoryInv, UNCHANGED <<world, host, skipped, server, requests, created, remembered>>,
           NEW p \in Pushes, Throw(p)
    PROVE  InventoryInv'
<1>1. Goto(p, IdlePush) /\ UNCHANGED <<rows, alerts, archived>>
    BY DEF Throw
<1>2. IdlePush \in PushState /\ SoundWith(IdlePush, rows)
    BY IdlePushType
<1>3. skipped' \in BOOLEAN /\ archived' \in BOOLEAN /\ alerts' \subseteq {StoppedTitle}
    BY <1>1 DEF InventoryInv, AroundType
<1> QED
    BY <1>1, <1>2, <1>3, QuietPush

\* What a push holds.
LEMMA PushHolds ==
    ASSUME InventoryInv, NEW p \in Pushes
    PROVE  /\ pushes[p] \in PushState /\ SoundWith(pushes[p], rows)
           /\ pushes[p].todo \subseteq Item /\ pushes[p].seen \subseteq Item
           /\ pushes[p].item \in Item /\ pushes[p].stale \subseteq RowId
BY DEF InventoryInv, PushesSound, Sound, PushState

LEMMA PushKeeps ==
    ASSUME InventoryInv, NEW p \in Pushes, Push(p)
    PROVE  InventoryInv'
<1> DEFINE x == [IdlePush EXCEPT
                    !.step = FirstStep, !.todo = Report, !.seen = Report,
                    !.service = host.service, !.archive = world.profile = "PROXMOX" /\ ListsArchive]
<1>1. /\ host \in [listed: SUBSET Item, tagged: SUBSET Item, readable: BOOLEAN, tagsReadable: BOOLEAN,
                   service: world.services, archive: BOOLEAN, hangs: BOOLEAN]
      /\ skipped \in BOOLEAN /\ world.profile \in {"PLESK", "PROXMOX"}
    BY WorldType DEF InventoryInv, AroundType
<1>2. Report \subseteq Item
    BY <1>1 DEF Report, CollectProxmoxVms
<1>3. ListsArchive \in BOOLEAN /\ SkippedNow \in BOOLEAN
    BY <1>1 DEF ListsArchive, SkippedNow
<1>4. /\ FirstStep \in {"exclusions", "services", "guests", "backups"}
      /\ FirstStep \in PleskSteps => world.profile = "PLESK"
      /\ FirstStep \in ProxmoxSteps => world.profile = "PROXMOX"
    BY <1>1 DEF FirstStep, PleskSteps, ProxmoxSteps
<1>5. IdlePush \in PushState /\ IdlePush.stale = {}
    BY IdlePushType DEF IdlePush
<1>6. (world.profile = "PROXMOX" /\ ListsArchive) \in BOOLEAN
    OBVIOUS
<1>7. x \in PushState /\ x.stale = {} /\ x.step = FirstStep
    BY <1>1, <1>2, <1>4, <1>5, <1>6 DEF PushState
<1>8. SoundWith(x, rows)
    BY <1>4, <1>7 DEF SoundWith
<1>9. Goto(p, x) /\ UNCHANGED <<world, host, server, rows, archived, alerts, requests, created, remembered>>
    BY DEF Push, Goto
<1>10. skipped' \in BOOLEAN
    BY <1>3 DEF Push
<1>11. archived' \in BOOLEAN /\ alerts' \subseteq {StoppedTitle}
    BY <1>9 DEF InventoryInv, AroundType
<1> HIDE DEF x
<1> QED
    BY <1>7, <1>8, <1>9, <1>10, <1>11, QuietPush

LEMMA ReadExclusionsKeeps ==
    ASSUME InventoryInv, NEW p \in Pushes, ReadExclusions(p)
    PROVE  InventoryInv'
<1> DEFINE kept == pushes[p].seen \ (IF server.exists THEN server.excluded ELSE {})
           x == [pushes[p] EXCEPT !.step = "find", !.todo = kept, !.seen = kept, !.gone = remembered]
<1>1. kept \subseteq Item /\ pushes[p] \in PushState /\ SoundWith(pushes[p], rows)
    BY PushHolds
<1>2. pushes[p].step = "exclusions"
    BY DEF ReadExclusions, At
<1>3. x \in PushState
    BY <1>1 DEF PushState, InventoryInv, AroundType
<1>4. x.step = "find" /\ x.stale = pushes[p].stale
    BY <1>1 DEF PushState
<1>5. SoundWith(x, rows)
    BY <1>1, <1>2, <1>4 DEF SoundWith, PleskSteps, ProxmoxSteps
<1>6. Goto(p, x) /\ UNCHANGED <<world, host, skipped, server, rows, archived, alerts, requests, created, remembered>>
    BY DEF ReadExclusions
<1>7. archived' \in BOOLEAN /\ alerts' \subseteq {StoppedTitle} /\ skipped' \in BOOLEAN
    BY <1>6 DEF InventoryInv, AroundType
<1> HIDE DEF x
<1> QED
    BY <1>3, <1>5, <1>6, <1>7, QuietPush

LEMMA FindSiteKeeps ==
    ASSUME InventoryInv, NEW p \in Pushes, FindSite(p)
    PROVE  InventoryInv'
<1>1. pushes[p] \in PushState /\ SoundWith(pushes[p], rows) /\ pushes[p].todo \subseteq Item
    BY PushHolds
<1>2. pushes[p].step = "find" /\ UNCHANGED <<world, host, skipped, server, rows, archived, alerts, requests, created, remembered>>
    BY DEF FindSite, At
<1>3. \E x \in PushState : SoundWith(x, rows) /\ Goto(p, x)
    <2>1. PICK d \in pushes[p].todo :
              LET t == [pushes[p] EXCEPT !.todo = @ \ {d}] IN
              \/ Goto(p, [t EXCEPT !.step = "create", !.item = d])
              \/ \E r \in RowsOf(d) : Goto(p, [t EXCEPT !.step = "rename", !.row = r])
              \/ Goto(p, t)
        BY DEF FindSite
    <2> DEFINE t == [pushes[p] EXCEPT !.todo = pushes[p].todo \ {d}]
    <2>2. /\ t \in PushState /\ t.step = "find" /\ t.stale = pushes[p].stale
          /\ d \in Item
        BY <1>1, <1>2 DEF PushState
    <2>3. /\ \A r \in t.stale : rows[r].exists => rows[r].source = "agent"
          /\ world.profile = "PLESK"
        BY <1>1, <1>2, <2>2 DEF SoundWith, PleskSteps
    <2>4. [pushes[p] EXCEPT !.todo = @ \ {d}] = t
        OBVIOUS
    <2> HIDE DEF t
    <2>5. CASE Goto(p, [t EXCEPT !.step = "create", !.item = d])
        <3> DEFINE x == [t EXCEPT !.step = "create", !.item = d]
        <3>1. x \in PushState /\ x.step = "create" /\ x.stale = t.stale
            BY <2>2 DEF PushState
        <3> HIDE DEF x
        <3>2. SoundWith(x, rows)
            BY <2>3, <3>1 DEF SoundWith, PleskSteps, ProxmoxSteps
        <3> QED
            BY <2>5, <3>1, <3>2 DEF x
    <2>6. ASSUME NEW r \in RowsOf(d), Goto(p, [t EXCEPT !.step = "rename", !.row = r])
          PROVE  \E x \in PushState : SoundWith(x, rows) /\ Goto(p, x)
        <3> DEFINE x == [t EXCEPT !.step = "rename", !.row = r]
        <3>1. r \in RowId
            BY DEF RowsOf, Attached, Existing
        <3>2. x \in PushState /\ x.step = "rename" /\ x.stale = t.stale /\ x.row = r
            BY <2>2, <3>1 DEF PushState
        <3> HIDE DEF x
        <3>3. SoundWith(x, rows)
            BY <2>3, <3>1, <3>2 DEF SoundWith, PleskSteps, ProxmoxSteps
        <3> QED
            BY <2>6, <3>2, <3>3 DEF x
    <2>7. CASE Goto(p, t)
        <3>1. SoundWith(t, rows)
            BY <2>2, <2>3 DEF SoundWith, PleskSteps, ProxmoxSteps
        <3> QED
            BY <2>2, <2>7, <3>1
    <2> QED
        BY <2>1, <2>4, <2>5, <2>6, <2>7
<1>4. archived' \in BOOLEAN /\ alerts' \subseteq {StoppedTitle} /\ skipped' \in BOOLEAN
    BY <1>2 DEF InventoryInv, AroundType
<1> QED
    BY <1>2, <1>3, <1>4, QuietPush

\* A step of a push that changes the rows and nothing else.
LEMMA RowsPush ==
    ASSUME InventoryInv, UNCHANGED <<world, host, skipped, server, archived, alerts, requests, created, remembered>>,
           RowsStep, RowsSound', NEW p \in Pushes, NEW x \in PushState, SoundWith(x, rows'), Goto(p, x)
    PROVE  InventoryInv'
<1>1. AroundType' /\ ServerType' /\ RequestsSound'
    BY AroundStays, RequestsStay DEF InventoryInv, ServerType
<1>2. PushesSound'
    BY PushGoes
<1> QED
    BY <1>1, <1>2 DEF InventoryInv

\* Going on without rows that one had to prune keeps a push sound.
LEMMA StillSound ==
    ASSUME InventoryInv, RowsStep, NEW p \in Pushes, NEW x, x.stale \subseteq pushes[p].stale,
           x.step \in {"rename", "metric"} => x.row \in RowId,
           x.step \in PleskSteps => world.profile = "PLESK",
           x.step \in ProxmoxSteps => world.profile = "PROXMOX"
    PROVE  SoundWith(x, rows')
<1>1. SoundWith(pushes[p], rows) /\ pushes[p].stale \subseteq RowId
    BY PushHolds
<1>2. pushes[p].stale \cap Fresh = {}
    BY DEF Fresh, Held
<1>3. \A r \in x.stale : rows'[r].exists => rows'[r].source = "agent"
    BY <1>1, <1>2 DEF RowsStep, SoundWith
<1> QED
    BY <1>3 DEF SoundWith

LEMMA ListAgentSitesKeeps ==
    ASSUME InventoryInv, NEW p \in Pushes, ListAgentSites(p)
    PROVE  InventoryInv'
<1> DEFINE stale == {r \in Attached : rows[r].source = "agent" /\ rows[r].item \notin pushes[p].seen}
           x == [pushes[p] EXCEPT !.step = IF stale = {} THEN "services" ELSE "prune", !.stale = stale]
<1>1. /\ UNCHANGED <<world, host, skipped, server, rows, archived, alerts, requests, created, remembered>>
      /\ pushes[p].step = "find" /\ Goto(p, x)
    BY DEF ListAgentSites, At
<1>2. pushes[p] \in PushState /\ SoundWith(pushes[p], rows)
    BY PushHolds
<1>3. stale \subseteq RowId /\ \A r \in stale : rows[r].source = "agent"
    BY DEF Attached, Existing
<1> HIDE DEF stale
<1>4. x \in PushState /\ x.step \in {"services", "prune"} /\ x.stale = stale
    BY <1>2, <1>3 DEF PushState
<1> HIDE DEF x
<1>5. SoundWith(x, rows)
    BY <1>1, <1>2, <1>3, <1>4 DEF SoundWith, PleskSteps, ProxmoxSteps
<1>6. archived' \in BOOLEAN /\ alerts' \subseteq {StoppedTitle} /\ skipped' \in BOOLEAN
    BY <1>1 DEF InventoryInv, AroundType
<1> QED
    BY <1>1, <1>4, <1>5, <1>6, QuietPush

LEMMA RenameSiteKeeps ==
    ASSUME InventoryInv, NEW p \in Pushes, RenameSite(p)
    PROVE  InventoryInv'
<1>1. UNCHANGED <<world, host, skipped, server, requests, created, remembered>> /\ pushes[p].step = "rename"
    BY DEF RenameSite, At
<1>2. CASE Throw(p)
    BY <1>1, <1>2, ThrowKeeps
<1>3. CASE ~Throw(p)
    <2> DEFINE r == pushes[p].row
               x == [pushes[p] EXCEPT !.step = "find", !.row = NoRow]
    <2>1. rows[r].exists /\ rows' = [rows EXCEPT ![r].renamed = FALSE] /\ Goto(p, x)
          /\ UNCHANGED <<alerts, archived>>
        BY <1>3 DEF RenameSite
    <2>2. pushes[p] \in PushState /\ SoundWith(pushes[p], rows)
        BY PushHolds
    <2>3. r \in RowId /\ world.profile = "PLESK"
        BY <1>1, <2>2 DEF SoundWith, PleskSteps
    <2>4. x \in PushState /\ x.step = "find" /\ x.stale = pushes[p].stale
        BY <2>2 DEF PushState
    <2> HIDE DEF x, r
    <2>5. rows \in [RowId -> Site]
        BY DEF InventoryInv, RowsSound
    <2>6. rows' \in [RowId -> Site]
        BY <2>1, <2>3, <2>5 DEF Site
    <2>7. \A q \in RowId : /\ rows'[q].exists = rows[q].exists /\ rows'[q].source = rows[q].source
                           /\ rows'[q].item = rows[q].item /\ rows'[q].attached = rows[q].attached
        BY <2>1, <2>3, <2>5 DEF Site
    <2>8. RowsStep /\ RowsSound'
        BY <1>1, <2>6, <2>7, RemovalSound DEF InventoryInv
    <2>9. SoundWith(x, rows')
        BY <2>3, <2>4, <2>8, StillSound DEF ProxmoxSteps
    <2> QED
        BY <1>1, <2>1, <2>4, <2>8, <2>9, RowsPush
<1> QED
    BY <1>2, <1>3

LEMMA CreateSiteKeeps ==
    ASSUME InventoryInv, NEW p \in Pushes, CreateSite(p)
    PROVE  InventoryInv'
<1>1. UNCHANGED <<world, host, skipped, server, requests, created, remembered>> /\ pushes[p].step = "create"
    BY DEF CreateSite, At
<1>2. CASE Throw(p)
    BY <1>1, <1>2, ThrowKeeps
<1>3. CASE ~Throw(p)
    <2> DEFINE row == [exists |-> TRUE, item |-> pushes[p].item, source |-> "agent",
                       renamed |-> FALSE, attached |-> TRUE]
               x == [pushes[p] EXCEPT !.step = "find"]
    <2>1. Insert(row) /\ Goto(p, x) /\ UNCHANGED <<alerts, archived>>
        BY <1>3 DEF CreateSite
    <2>2. pushes[p] \in PushState /\ SoundWith(pushes[p], rows) /\ pushes[p].item \in Item
        BY PushHolds
    <2>3. world.profile = "PLESK"
        BY <1>1, <2>2 DEF SoundWith, PleskSteps
    <2>4. x \in PushState /\ x.step = "find" /\ x.stale = pushes[p].stale
        BY <2>2 DEF PushState
    <2>5. row \in Site /\ row.exists
        BY <2>2 DEF Site
    <2> HIDE DEF x, row
    <2>6. RowsStep /\ RowsSound'
        BY <1>1, <2>1, <2>3, <2>5, InsertSound DEF InventoryInv
    <2>7. SoundWith(x, rows')
        BY <2>3, <2>4, <2>6, StillSound DEF ProxmoxSteps
    <2> QED
        BY <1>1, <2>1, <2>4, <2>6, <2>7, RowsPush
<1> QED
    BY <1>2, <1>3

LEMMA PruneSiteKeeps ==
    ASSUME InventoryInv, NEW p \in Pushes, PruneSite(p)
    PROVE  InventoryInv'
<1>1. UNCHANGED <<world, host, skipped, server, requests, created, remembered>> /\ pushes[p].step = "prune"
    BY DEF PruneSite, At
<1>2. CASE Throw(p)
    BY <1>1, <1>2, ThrowKeeps
<1>3. CASE ~Throw(p)
    <2> DEFINE left == pushes[p].stale
    <2>1. PICK r \in left :
              /\ rows' = [rows EXCEPT ![r] = NoSite]
              /\ Goto(p, [pushes[p] EXCEPT !.stale = left \ {r},
                            !.step = IF left = {r} THEN "services" ELSE "prune"])
              /\ UNCHANGED <<alerts, archived>>
        BY <1>3 DEF PruneSite
    <2> DEFINE x == [pushes[p] EXCEPT !.stale = left \ {r},
                       !.step = IF left = {r} THEN "services" ELSE "prune"]
    <2>2. /\ pushes[p] \in PushState /\ SoundWith(pushes[p], rows)
          /\ pushes[p].stale \subseteq RowId
        BY PushHolds
    <2>3. world.profile = "PLESK"
        BY <1>1, <2>2 DEF SoundWith, PleskSteps
    <2>4. x \in PushState /\ x.step \in {"services", "prune"} /\ x.stale = left \ {r}
        BY <2>2 DEF PushState
    <2>5. Goto(p, x)
        BY <2>1
    <2> HIDE DEF x
    <2>6. r \in RowId /\ rows \in [RowId -> Site]
        BY <2>2 DEF InventoryInv, RowsSound
    <2>7. rows' \in [RowId -> Site]
        BY <2>1, <2>6, NoSiteType
    <2>8. \A q \in RowId : rows'[q].exists => rows'[q] = rows[q] /\ rows[q].exists
        BY <2>1, <2>6, NoSiteType
    <2>9. RowsStep /\ RowsSound'
        BY <1>1, <2>7, <2>8, RemovalSound DEF InventoryInv
    <2>10. SoundWith(x, rows')
        BY <2>3, <2>4, <2>9, StillSound DEF ProxmoxSteps
    <2> QED
        BY <1>1, <2>1, <2>4, <2>5, <2>9, <2>10, RowsPush
<1> QED
    BY <1>2, <1>3

LEMMA ServiceAlertKeeps ==
    ASSUME InventoryInv, NEW p \in Pushes, ServiceAlert(p)
    PROVE  InventoryInv'
<1>1. Goto(p, IdlePush) /\ UNCHANGED <<world, host, skipped, server, rows, archived, requests, created, remembered>>
    BY DEF ServiceAlert
<1>2. alerts \subseteq {StoppedTitle} /\ archived' \in BOOLEAN /\ skipped' \in BOOLEAN
    BY <1>1 DEF InventoryInv, AroundType
<1>3. alerts' \subseteq {StoppedTitle}
    <2>1. WithoutService \subseteq alerts
        BY DEF WithoutService
    <2> QED
        BY <1>2, <2>1 DEF ServiceAlert
<1> QED
    BY <1>1, <1>2, <1>3, IdlePushType, QuietPush

LEMMA UpsertVmKeeps ==
    ASSUME InventoryInv, NEW p \in Pushes, UpsertVm(p)
    PROVE  InventoryInv'
<1>1. UNCHANGED <<world, host, skipped, server, requests, created, remembered>> /\ pushes[p].step = "guests"
    BY DEF UpsertVm, At
<1>2. CASE Throw(p)
    BY <1>1, <1>2, ThrowKeeps
<1>3. CASE ~Throw(p)
    <2>1. PICK d \in pushes[p].todo :
              LET t == [pushes[p] EXCEPT !.todo = @ \ {d}, !.step = "metric"] IN
              /\ \/ \E r \in RowsOf(d) : Goto(p, [t EXCEPT !.row = r]) /\ UNCHANGED rows
                 \/ /\ RowsOf(d) = {}
                    /\ Insert([NoSite EXCEPT !.exists = TRUE, !.item = d,
                                              !.source = "agent", !.attached = TRUE])
                    /\ Goto(p, [t EXCEPT !.row = NewId])
              /\ UNCHANGED <<alerts, archived>>
        BY <1>3 DEF UpsertVm
    <2> DEFINE t == [pushes[p] EXCEPT !.todo = pushes[p].todo \ {d}, !.step = "metric"]
               row == [NoSite EXCEPT !.exists = TRUE, !.item = d, !.source = "agent", !.attached = TRUE]
               G(r) == [t EXCEPT !.row = r]
    <2>2. /\ pushes[p] \in PushState /\ SoundWith(pushes[p], rows)
          /\ pushes[p].todo \subseteq Item
        BY PushHolds
    <2>3. world.profile = "PROXMOX" /\ d \in Item
        BY <1>1, <2>2 DEF SoundWith, ProxmoxSteps
    <2>4. t \in PushState /\ t.step = "metric" /\ t.stale = pushes[p].stale
        BY <2>2 DEF PushState
    <2>5. row \in Site /\ row.exists /\ row.source = "agent" /\ row.item = d
        BY <2>3, NoSiteType DEF Site
    <2>6. [pushes[p] EXCEPT !.todo = @ \ {d}, !.step = "metric"] = t
        OBVIOUS
    <2>7. UNCHANGED <<alerts, archived>>
        BY <2>1
    <2>8. \/ \E r \in RowsOf(d) : Goto(p, G(r)) /\ UNCHANGED rows
          \/ RowsOf(d) = {} /\ Insert(row) /\ Goto(p, G(NewId))
        BY <2>1, <2>6
    <2> HIDE DEF t, row
    <2>9. ASSUME NEW r \in RowId
          PROVE  G(r) \in PushState /\ G(r).step = "metric" /\ G(r).stale = pushes[p].stale /\ G(r).row = r
        BY <2>4 DEF PushState
    <2> HIDE DEF G
    <2>10. ASSUME NEW r \in RowId, RowsStep, RowsSound', Goto(p, G(r)) PROVE InventoryInv'
        <3>1. SoundWith(G(r), rows')
            BY <2>3, <2>9, <2>10, StillSound DEF PleskSteps
        <3> QED
            BY <1>1, <2>7, <2>9, <2>10, <3>1, RowsPush
    <2>11. ASSUME NEW r \in RowsOf(d), Goto(p, G(r)), UNCHANGED rows PROVE InventoryInv'
        <3>1. r \in RowId
            BY DEF RowsOf, Attached, Existing
        <3>2. RowsStep /\ RowsSound'
            BY <1>1, <2>11, RowsStay DEF InventoryInv
        <3> QED
            BY <2>10, <2>11, <3>1, <3>2
    <2>12. CASE RowsOf(d) = {} /\ Insert(row) /\ Goto(p, G(NewId))
        <3>1. RowsStep /\ RowsSound' /\ NewId \in RowId
            BY <1>1, <2>5, <2>12, InsertSound DEF InventoryInv
        <3> QED
            BY <2>10, <2>12, <3>1
    <2> QED
        BY <2>8, <2>11, <2>12
<1> QED
    BY <1>2, <1>3

LEMMA VmMetricKeeps ==
    ASSUME InventoryInv, NEW p \in Pushes, VmMetric(p)
    PROVE  InventoryInv'
<1>1. UNCHANGED <<world, host, skipped, server, requests, created, remembered>> /\ pushes[p].step = "metric"
    BY DEF VmMetric, At
<1>2. CASE Throw(p)
    BY <1>1, <1>2, ThrowKeeps
<1>3. CASE ~Throw(p)
    <2> DEFINE x == [pushes[p] EXCEPT !.step = "guests", !.row = NoRow]
    <2>1. Goto(p, x) /\ UNCHANGED <<rows, alerts, archived>>
        BY <1>3 DEF VmMetric
    <2>2. pushes[p] \in PushState /\ SoundWith(pushes[p], rows)
        BY PushHolds
    <2>3. world.profile = "PROXMOX"
        BY <1>1, <2>2 DEF SoundWith, ProxmoxSteps
    <2>4. x \in PushState /\ x.step = "guests" /\ x.stale = pushes[p].stale
        BY <2>2 DEF PushState
    <2> HIDE DEF x
    <2>5. RowsStep /\ RowsSound'
        BY <1>1, <2>1, RowsStay DEF InventoryInv
    <2>6. SoundWith(x, rows')
        BY <2>3, <2>4, <2>5, StillSound DEF PleskSteps
    <2> QED
        BY <1>1, <2>1, <2>4, <2>5, <2>6, RowsPush
<1> QED
    BY <1>2, <1>3

LEMMA DeleteOtherVmsKeeps ==
    ASSUME InventoryInv, NEW p \in Pushes, DeleteOtherVms(p)
    PROVE  InventoryInv'
<1> DEFINE x == [pushes[p] EXCEPT !.step = "backups"]
<1>1. /\ UNCHANGED <<world, host, skipped, server, archived, alerts, requests, created, remembered>>
      /\ pushes[p].step = "guests" /\ Goto(p, x)
      /\ rows' = [r \in RowId |-> IF r \in Attached /\ rows[r].item \notin pushes[p].seen
                                  THEN NoSite ELSE rows[r]]
    BY DEF DeleteOtherVms, At
<1>2. pushes[p] \in PushState /\ SoundWith(pushes[p], rows)
    BY PushHolds
<1>3. world.profile = "PROXMOX"
    BY <1>1, <1>2 DEF SoundWith, ProxmoxSteps
<1>4. x \in PushState /\ x.step = "backups" /\ x.stale = pushes[p].stale
    BY <1>2 DEF PushState
<1> HIDE DEF x
<1>5. rows \in [RowId -> Site]
    BY DEF InventoryInv, RowsSound
<1>6. rows' \in [RowId -> Site] /\ \A q \in RowId : rows'[q].exists => rows'[q] = rows[q] /\ rows[q].exists
    BY <1>1, <1>5, NoSiteType
<1>7. RowsStep /\ RowsSound'
    BY <1>1, <1>6, RemovalSound DEF InventoryInv
<1>8. SoundWith(x, rows')
    BY <1>3, <1>4, <1>7, StillSound DEF PleskSteps
<1> QED
    BY <1>1, <1>4, <1>7, <1>8, RowsPush

LEMMA UpsertBackupKeeps ==
    ASSUME InventoryInv, NEW p \in Pushes, UpsertBackup(p)
    PROVE  InventoryInv'
<1>1. Goto(p, IdlePush) /\ UNCHANGED <<world, host, skipped, server, rows, alerts, requests, created, remembered>>
    BY DEF UpsertBackup
<1>2. alerts' \subseteq {StoppedTitle} /\ skipped' \in BOOLEAN
    BY <1>1 DEF InventoryInv, AroundType
<1>3. archived' \in BOOLEAN
    <2>1. pushes[p].archive \in BOOLEAN /\ archived \in BOOLEAN /\ server.exists \in BOOLEAN
        BY PushHolds DEF PushState, InventoryInv, AroundType, ServerType
    <2> QED
        BY <2>1 DEF UpsertBackup
<1> QED
    BY <1>1, <1>2, <1>3, IdlePushType, QuietPush

LEMMA PushStepKeeps ==
    ASSUME InventoryInv, NEW p \in Pushes, PushStep(p)
    PROVE  InventoryInv'
BY ReadExclusionsKeeps, FindSiteKeeps, RenameSiteKeeps, CreateSiteKeeps, ListAgentSitesKeeps,
   PruneSiteKeeps, ServiceAlertKeeps, UpsertVmKeeps, VmMetricKeeps, DeleteOtherVmsKeeps,
   UpsertBackupKeeps DEF PushStep

-----------------------------------------------------------------------------
(* Operators *)

\* A request that changes the rows, and maybe the server and its alerts.
LEMMA RequestStep ==
    ASSUME InventoryInv, UNCHANGED <<world, host, skipped, pushes>>,
           archived' \in BOOLEAN, alerts' \subseteq {StoppedTitle}, created' \in 1..MaxServers,
           remembered' \subseteq Item, ServerType', RowsStep, RowsSound', RequestsSound'
    PROVE  InventoryInv'
<1>1. AroundType'
    BY DEF InventoryInv, AroundType
<1>2. PushesSound'
    BY PushesStay
<1> QED
    BY <1>1, <1>2 DEF InventoryInv

LEMMA RequestGoes ==
    ASSUME RequestsSound, NEW o \in Operators, NEW y \in RequestState,
           y.step \in {"exclude", "delete"} => y.row \in RowId,
           requests' = [requests EXCEPT ![o] = y]
    PROVE  RequestsSound'
<1>1. requests' \in [Operators -> RequestState]
    BY DEF RequestsSound
<1>2. ASSUME NEW q \in Operators, requests'[q].step \in {"exclude", "delete"}
      PROVE  requests'[q].row \in RowId
    <2>1. requests'[q] = IF q = o THEN y ELSE requests[q]
        BY DEF RequestsSound
    <2> QED
        BY <1>2, <2>1 DEF RequestsSound
<1>3. RequestState' = RequestState
    BY DEF RequestState
<1> QED
    BY <1>1, <1>2, <1>3 DEF RequestsSound

LEMMA Around ==
    ASSUME InventoryInv
    PROVE  /\ skipped \in BOOLEAN /\ archived \in BOOLEAN /\ alerts \subseteq {StoppedTitle}
           /\ created \in 1..MaxServers /\ world \in Worlds /\ remembered \subseteq Item
           /\ server \in [exists: BOOLEAN, known: BOOLEAN, excluded: SUBSET Item]
           /\ rows \in [RowId -> Site] /\ requests \in [Operators -> RequestState]
           /\ RequestsSound /\ RowsSound
BY DEF InventoryInv, AroundType, ServerType, RowsSound, RequestsSound

\* Sites are entered, edited and removed on Plesk hosts only.
LEMMA AskedOnPlesk ==
    ASSUME InventoryInv, world.asked \cap {"enter", "rename", "move", "remove"} # {}
    PROVE  world.profile = "PLESK" /\ world.items \subseteq Item
BY WorldType, Around

LEMMA EnterSiteKeeps ==
    ASSUME InventoryInv, NEW o \in Operators, EnterSite(o)
    PROVE  InventoryInv'
<1>1. /\ UNCHANGED <<world, host, skipped, server, archived, alerts, pushes, requests, created, remembered>>
      /\ "enter" \in world.asked
    BY DEF EnterSite
<1>2. world.profile = "PLESK" /\ world.items \subseteq Item
    BY <1>1, AskedOnPlesk
<1>3. PICK d \in world.items, attached \in BOOLEAN :
          Insert([exists |-> TRUE, item |-> d, source |-> "manual",
                  renamed |-> FALSE, attached |-> attached])
    BY DEF EnterSite
<1> DEFINE row == [exists |-> TRUE, item |-> d, source |-> "manual", renamed |-> FALSE, attached |-> attached]
<1>4. row \in Site /\ row.exists /\ Insert(row)
    BY <1>2, <1>3 DEF Site
<1> HIDE DEF row
<1>5. RowsStep /\ RowsSound'
    BY <1>1, <1>2, <1>4, InsertSound, Around
<1>6. RequestsSound' /\ ServerType'
    BY <1>1, RequestsStay, Around DEF ServerType
<1> QED
    BY <1>1, <1>5, <1>6, Around, RequestStep

LEMMA EditSiteKeeps ==
    ASSUME InventoryInv, NEW o \in Operators, EditSite(o)
    PROVE  InventoryInv'
<1>1. /\ UNCHANGED <<world, host, skipped, server, archived, alerts, pushes, requests, created, remembered>>
      /\ world.asked \cap {"rename", "move"} # {}
    BY DEF EditSite
<1>2. world.profile = "PLESK" /\ world.items \subseteq Item
    BY <1>1, AskedOnPlesk
<1>3. PICK r \in Existing :
          \/ rows' = [rows EXCEPT ![r].renamed = TRUE]
          \/ \E d \in world.items : rows' = [rows EXCEPT ![r].item = d]
    BY DEF EditSite
<1>4. r \in RowId /\ rows \in [RowId -> Site]
    BY Around DEF Existing
<1>5. /\ rows' \in [RowId -> Site]
      /\ \A q \in RowId : rows'[q].exists = rows[q].exists /\ rows'[q].source = rows[q].source
    <2>1. CASE rows' = [rows EXCEPT ![r].renamed = TRUE]
        BY <1>4, <2>1 DEF Site
    <2>2. ASSUME NEW d \in world.items, rows' = [rows EXCEPT ![r].item = d]
          PROVE  /\ rows' \in [RowId -> Site]
                 /\ \A q \in RowId : rows'[q].exists = rows[q].exists /\ rows'[q].source = rows[q].source
        BY <1>2, <1>4, <2>2 DEF Site
    <2> QED
        BY <1>3, <2>1, <2>2
<1>6. RowsStep /\ RowsSound'
    BY <1>1, <1>2, <1>5 DEF RowsStep, RowsSound, GuestRows
<1>7. RequestsSound' /\ ServerType'
    BY <1>1, RequestsStay, Around DEF ServerType
<1> QED
    BY <1>1, <1>6, <1>7, Around, RequestStep

LEMMA RemoveSiteKeeps ==
    ASSUME InventoryInv, NEW o \in Operators, RemoveSite(o)
    PROVE  InventoryInv'
<1>1. UNCHANGED <<world, host, skipped, server, rows, archived, alerts, pushes, created, remembered>>
    BY DEF RemoveSite
<1> DEFINE first(r) == [IdleRequest EXCEPT !.step = "exclude", !.row = r, !.item = rows[r].item,
                                           !.excluded = server.excluded \cup {rows[r].item}]
           next(r) == [IdleRequest EXCEPT !.step = "delete", !.row = r]
<1>2. PICK r \in Existing :
          \/ requests' = [requests EXCEPT ![o] = first(r)]
          \/ requests' = [requests EXCEPT ![o] = next(r)]
    BY DEF RemoveSite
<1>3. r \in RowId /\ rows[r].item \in Item /\ server.excluded \subseteq Item
    BY Around DEF Existing, Site
<1>4. /\ first(r) \in RequestState /\ first(r).row = r
      /\ next(r) \in RequestState /\ next(r).row = r
    BY <1>3, IdleRequestType DEF RequestState
<1>5. RequestsSound'
    BY <1>2, <1>3, <1>4, Around, RequestGoes
<1>6. ServerType'
    BY <1>1, Around DEF ServerType
<1> QED
    BY <1>1, <1>5, <1>6, Around, QuietStep

\* A step that moves several requests.
LEMMA RequestsGo ==
    ASSUME NEW f, requests' = [x \in Operators |-> f[x]],
           \A x \in Operators : f[x] \in RequestState
               /\ (f[x].step \in {"exclude", "delete"} => f[x].row \in RowId)
    PROVE  requests' \in [Operators -> RequestState]
           /\ \A x \in Operators : requests'[x].step \in {"exclude", "delete"}
                                       => requests'[x].row \in RowId
OBVIOUS

LEMMA WriteExclusionsKeeps ==
    ASSUME InventoryInv, NEW o \in Operators, WriteExclusions(o)
    PROVE  InventoryInv'
<1>1. UNCHANGED <<world, host, skipped, rows, archived, alerts, pushes, created>>
    BY DEF WriteExclusions
<1>2. /\ requests[o] \in RequestState /\ requests[o].row \in RowId
      /\ requests[o].excluded \subseteq Item /\ requests[o].item \in Item
      /\ requests[o].missed \subseteq Item
    BY Around DEF WriteExclusions, RequestsSound, RequestState
<1>3. ServerType' /\ remembered' \subseteq Item
    <2>1. /\ server' = [server EXCEPT !.excluded = requests[o].excluded]
          /\ remembered' = (remembered \ requests[o].missed) \cup {requests[o].item}
        BY DEF WriteExclusions, Excluded
    <2>2. server \in [exists: BOOLEAN, known: BOOLEAN, excluded: SUBSET Item] /\ remembered \subseteq Item
        BY Around
    <2> QED
        BY <1>2, <2>1, <2>2 DEF ServerType
<1>4. RequestsSound'
    <2> DEFINE q == requests[o]
               f == [x \in Operators |->
                      IF x = o THEN [IdleRequest EXCEPT !.step = "delete", !.row = q.row]
                      ELSE IF requests[x].step = "exclude"
                             THEN [requests[x] EXCEPT !.missed = @ \cup {q.item}]
                      ELSE requests[x]]
    <2>1. requests' = [x \in Operators |-> f[x]]
        BY DEF WriteExclusions
    <2>2. ASSUME NEW x \in Operators
          PROVE  f[x] \in RequestState /\ (f[x].step \in {"exclude", "delete"} => f[x].row \in RowId)
        <3>1. requests[x] \in RequestState
              /\ (requests[x].step \in {"exclude", "delete"} => requests[x].row \in RowId)
            BY Around DEF RequestsSound
        <3>2. CASE x = o
            BY <1>2, <3>2, IdleRequestType DEF RequestState
        <3>3. CASE x # o
            BY <1>2, <3>1, <3>3 DEF RequestState
        <3> QED
            BY <3>2, <3>3
    <2> HIDE DEF f
    <2> QED
        BY <1>1, <2>1, <2>2, RequestsGo DEF RequestsSound, RequestState
<1> QED
    BY <1>1, <1>3, <1>4, Around, QuietStep

LEMMA DeleteSiteKeeps ==
    ASSUME InventoryInv, NEW o \in Operators, DeleteSite(o)
    PROVE  InventoryInv'
<1>1. /\ UNCHANGED <<world, host, skipped, server, archived, alerts, pushes, created, remembered>>
      /\ requests' = [requests EXCEPT ![o] = IdleRequest]
      /\ rows' = [rows EXCEPT ![requests[o].row] = NoSite]
    BY DEF DeleteSite
<1>2. requests[o].row \in RowId
    BY Around DEF DeleteSite, RequestsSound
<1>3. rows' \in [RowId -> Site] /\ \A q \in RowId : rows'[q].exists => rows'[q] = rows[q] /\ rows[q].exists
    BY <1>1, <1>2, NoSiteType, Around
<1>4. RowsStep /\ RowsSound'
    BY <1>1, <1>3, RemovalSound, Around
<1>5. RequestsSound' /\ ServerType'
    BY <1>1, RequestGoes, IdleRequestType, Around DEF ServerType
<1> QED
    BY <1>1, <1>4, <1>5, Around, RequestStep

LEMMA DeleteServerKeeps ==
    ASSUME InventoryInv, NEW o \in Operators, DeleteServer(o)
    PROVE  InventoryInv'
<1>1. /\ UNCHANGED <<world, host, skipped, pushes, created>> /\ remembered' = {}
      /\ requests' = [x \in Operators |->
            IF x = o \/ requests[x].step = "exclude" THEN IdleRequest ELSE requests[x]]
      /\ alerts' = {} /\ archived' = FALSE
      /\ server' = [exists |-> FALSE, known |-> FALSE, excluded |-> {}]
      /\ rows' = [r \in RowId |->
                  IF world.profile = "PROXMOX" /\ rows[r].attached THEN NoSite
                  ELSE [rows[r] EXCEPT !.attached = FALSE]]
    BY DEF DeleteServer
<1>2. /\ rows' \in [RowId -> Site]
      /\ \A q \in RowId : rows'[q].exists => 
            /\ rows[q].exists /\ rows'[q].source = rows[q].source
            /\ rows'[q].item = rows[q].item /\ ~rows'[q].attached
    <2>1. ASSUME NEW q \in RowId
          PROVE  /\ rows'[q] \in Site
                 /\ rows'[q].exists =>
                      /\ rows[q].exists /\ rows'[q].source = rows[q].source
                      /\ rows'[q].item = rows[q].item /\ ~rows'[q].attached
        <3>1. rows[q] \in Site
            BY Around
        <3>2. rows'[q] = NoSite \/ rows'[q] = [rows[q] EXCEPT !.attached = FALSE]
            BY <1>1
        <3> QED
            BY <3>1, <3>2, NoSiteType DEF Site
    <2> QED
        BY <1>1, <2>1
<1>3. RowsStep /\ RowsSound'
    BY <1>1, <1>2, RemovalSound, Around
<1>4. RequestsSound' /\ ServerType'
    <2> DEFINE f == [x \in Operators |->
                      IF x = o \/ requests[x].step = "exclude" THEN IdleRequest ELSE requests[x]]
    <2>1. requests' = [x \in Operators |-> f[x]]
        BY <1>1
    <2>2. \A x \in Operators : f[x] \in RequestState
              /\ (f[x].step \in {"exclude", "delete"} => f[x].row \in RowId)
        BY IdleRequestType, Around DEF RequestsSound
    <2> HIDE DEF f
    <2> QED
        BY <1>1, <2>1, <2>2, RequestsGo, Around DEF RequestsSound, RequestState, ServerType
<1>5. archived' \in BOOLEAN /\ alerts' \subseteq {StoppedTitle}
    BY <1>1
<1> QED
    BY <1>1, <1>3, <1>4, <1>5, Around, RequestStep

LEMMA ServerRequestKeeps ==
    ASSUME InventoryInv, NEW o \in Operators, ServerRequest(o)
    PROVE  InventoryInv'
<1>1. CASE RemoveServer(o)
    <2> DEFINE y == [requests[o] EXCEPT !.step = "deleteServer"]
    <2>1. /\ UNCHANGED <<world, host, skipped, server, rows, archived, pushes, created, remembered>>
          /\ alerts' = {} /\ requests' = [requests EXCEPT ![o] = y]
        BY <1>1 DEF RemoveServer
    <2>2. y \in RequestState /\ y.step = "deleteServer"
        BY Around DEF RequestState
    <2> HIDE DEF y
    <2>3. RequestsSound' /\ ServerType'
        BY <2>1, <2>2, RequestGoes, Around DEF ServerType
    <2> QED
        BY <2>1, <2>3, Around, QuietStep
<1>2. CASE CreateServer(o)
    <2>1. /\ UNCHANGED <<world, host, skipped, rows, archived, alerts, pushes, requests, remembered>>
          /\ server' = [exists |-> TRUE, known |-> FALSE, excluded |-> {}]
        BY <1>2 DEF CreateServer
    <2>2. created' \in 1..MaxServers
        BY <1>2, MaxServersAssumption, Around DEF CreateServer
    <2>3. RequestsSound' /\ ServerType'
        BY <2>1, RequestsStay, Around DEF ServerType
    <2> QED
        BY <2>1, <2>2, <2>3, Around, QuietStep
<1>3. CASE RegenerateKey(o)
    <2>1. /\ UNCHANGED <<world, host, skipped, rows, archived, alerts, pushes, requests, created, remembered>>
          /\ server' = [server EXCEPT !.known = FALSE]
        BY <1>3 DEF RegenerateKey
    <2>2. RequestsSound' /\ ServerType'
        BY <2>1, RequestsStay, Around DEF ServerType
    <2> QED
        BY <2>1, <2>2, Around, QuietStep
<1>4. CASE CloseByHand(o)
    <2>1. /\ UNCHANGED <<world, host, skipped, server, rows, archived, pushes, requests, created, remembered>>
          /\ alerts' = {}
        BY <1>4 DEF CloseByHand
    <2>2. RequestsSound' /\ ServerType'
        BY <2>1, RequestsStay, Around DEF ServerType
    <2> QED
        BY <2>1, <2>2, Around, QuietStep
<1> QED
    BY <1>1, <1>2, <1>3, <1>4 DEF ServerRequest

LEMMA InventoryInvariant == Spec => []InventoryInv
<1>1. InventoryInv /\ [Next]_vars => InventoryInv'
    <2> SUFFICES ASSUME InventoryInv, [Next]_vars PROVE InventoryInv'
        OBVIOUS
    <2>1. CASE UNCHANGED vars
        <3>1. UNCHANGED <<world, host, skipped, server, rows, archived, alerts, pushes, requests, created, remembered>>
            BY <2>1 DEF vars
        <3>2. RequestsSound' /\ ServerType'
            BY <3>1, RequestsStay, Around DEF ServerType
        <3> QED
            BY <3>1, <3>2, Around, QuietStep
    <2>2. ASSUME NEW p \in world.pushes, Push(p) \/ PushStep(p) PROVE InventoryInv'
        <3>1. p \in Pushes
            BY Around, WorldType
        <3> QED
            BY <2>2, <3>1, PushKeeps, PushStepKeeps
    <2>3. ASSUME NEW o \in Operators, SiteRequest(o) PROVE InventoryInv'
        BY <2>3, EnterSiteKeeps, EditSiteKeeps, RemoveSiteKeeps DEF SiteRequest
    <2>4. ASSUME NEW o \in Operators, OperatorStep(o) PROVE InventoryInv'
        BY <2>4, WriteExclusionsKeeps, DeleteSiteKeeps, DeleteServerKeeps DEF OperatorStep
    <2>5. world.operators \subseteq Operators
        BY Around, WorldType
    <2> QED
        BY <2>1, <2>2, <2>3, <2>4, <2>5, ChangeKeeps, InstallKeeps, SkipEndsKeeps, ServerRequestKeeps DEF Next
<1> QED
    BY InitSound, <1>1, PTL DEF Spec

-----------------------------------------------------------------------------
(* The results *)

\* Whatever overlaps, every variable keeps its type, and a guest of a Proxmox host has
\* one row at most: the pushes, removals and requests of agent.service.ts,
\* websites.service.ts and servers.service.ts.
THEOREM TypeCorrect == Spec => []TypeOK
BY InventoryInvariant, InvGivesTypes, PTL

\* However many pushes and operators there are, a site entered by hand goes only at
\* the request of an operator for its row (syncPleskWebsites prunes what it listed).
THEOREM HandmadeSitesStay == Spec => ManualSitesSpared
<1> DEFINE Step ==
        \A r \in RowId :
          rows[r].exists /\ rows[r].source = "manual" /\ ~rows'[r].exists
            => \E o \in Operators : requests[o].step = "delete" /\ requests[o].row = r
<1>1. InventoryInv /\ [Next]_vars => [Step]_vars
    <2> SUFFICES ASSUME InventoryInv, Next, NEW r \in RowId,
                        rows[r].exists, rows[r].source = "manual", ~rows'[r].exists
                 PROVE  \E o \in Operators : requests[o].step = "delete" /\ requests[o].row = r
        OBVIOUS
    <2>1. rows \in [RowId -> Site] /\ GuestRows
        BY DEF InventoryInv, RowsSound
    <2>2. rows[r].exists = TRUE /\ rows[r].exists # rows'[r].exists
        BY <2>1 DEF Site
    <2>3. world.profile # "PROXMOX"
        BY <2>1 DEF GuestRows
    <2>4. ASSUME NEW row \in Site, row.exists, Insert(row) PROVE FALSE
        <3>1. NewId \in Fresh
            BY <2>4 DEF Insert, NewId
        <3> DEFINE n == NewId
        <3>2. n \in RowId /\ rows' = [rows EXCEPT ![n] = row]
            BY <2>4, <3>1 DEF Insert, Fresh
        <3> HIDE DEF n
        <3>3. rows'[r] = rows[r] \/ rows'[r] = row
            BY <2>1, <3>2
        <3> QED
            BY <2>4, <3>3
    <2>5. ASSUME NEW p \in world.pushes, PushStep(p) PROVE FALSE
        <3>1. p \in Pushes
            BY Around, WorldType
        <3>2. SoundWith(pushes[p], rows) /\ pushes[p].stale \subseteq RowId /\ pushes[p].item \in Item
              /\ pushes[p].todo \subseteq Item
            BY <3>1, PushHolds
        <3>3. ~UNCHANGED rows
            BY <2>2
        <3>4. CASE RenameSite(p)
            <4> DEFINE q == pushes[p].row
            <4>1. q \in RowId
                BY <3>2, <3>4 DEF RenameSite, At, SoundWith
            <4>2. rows' = [rows EXCEPT ![q].renamed = FALSE]
                BY <3>3, <3>4 DEF RenameSite, Throw
            <4> HIDE DEF q
            <4>3. rows'[r].exists = rows[r].exists
                BY <2>1, <4>1, <4>2 DEF Site
            <4> QED
                BY <2>2, <4>3
        <3>5. CASE CreateSite(p)
            <4> DEFINE row == [exists |-> TRUE, item |-> pushes[p].item, source |-> "agent",
                               renamed |-> FALSE, attached |-> TRUE]
            <4>1. Insert(row)
                BY <3>3, <3>5 DEF CreateSite, Throw
            <4>2. row \in Site /\ row.exists
                BY <3>2 DEF Site
            <4> HIDE DEF row
            <4> QED
                BY <2>4, <4>1, <4>2
        <3>6. CASE PruneSite(p)
            <4>1. PICK q \in pushes[p].stale : rows[q].exists /\ rows' = [rows EXCEPT ![q] = NoSite]
                BY <3>3, <3>6 DEF PruneSite, Throw
            <4>2. rows[q].source = "agent" /\ q \in RowId
                BY <3>2, <4>1 DEF SoundWith
            <4>3. q # r
                BY <4>2
            <4> QED
                BY <2>1, <2>2, <4>1, <4>2, <4>3
        <3>7. ~UpsertVm(p) /\ ~DeleteOtherVms(p)
            BY <2>3, <3>2 DEF UpsertVm, DeleteOtherVms, At, SoundWith, ProxmoxSteps
        <3>8. ~VmMetric(p)
            BY <3>3 DEF VmMetric, Throw
        <3>9. ~(ReadExclusions(p) \/ FindSite(p) \/ ListAgentSites(p) \/ ServiceAlert(p) \/ UpsertBackup(p))
            BY <3>3 DEF ReadExclusions, FindSite, ListAgentSites, ServiceAlert, UpsertBackup
        <3> QED
            BY <2>5, <3>4, <3>5, <3>6, <3>7, <3>8, <3>9 DEF PushStep
    <2>6. ASSUME NEW o \in Operators, EnterSite(o) PROVE FALSE
        <3>1. world.items \subseteq Item
            BY Around, WorldType
        <3>2. PICK d \in world.items, attached \in BOOLEAN :
                  Insert([exists |-> TRUE, item |-> d, source |-> "manual",
                          renamed |-> FALSE, attached |-> attached])
            BY <2>6 DEF EnterSite
        <3> DEFINE row == [exists |-> TRUE, item |-> d, source |-> "manual",
                           renamed |-> FALSE, attached |-> attached]
        <3>3. row \in Site /\ row.exists /\ Insert(row)
            BY <3>1, <3>2 DEF Site
        <3> HIDE DEF row
        <3> QED
            BY <2>4, <3>3
    <2>7. ASSUME NEW o \in Operators, EditSite(o) PROVE FALSE
        <3>1. PICK q \in Existing :
                  \/ rows' = [rows EXCEPT ![q].renamed = TRUE]
                  \/ \E d \in world.items : rows' = [rows EXCEPT ![q].item = d]
            BY <2>7 DEF EditSite
        <3>2. rows'[r].exists = rows[r].exists
            BY <2>1, <3>1 DEF Existing, Site
        <3> QED
            BY <2>2, <3>2
    <2>8. ASSUME NEW o \in Operators, DeleteServer(o) PROVE FALSE
        <3>1. rows'[r] = [rows[r] EXCEPT !.attached = FALSE]
            BY <2>3, <2>8 DEF DeleteServer
        <3> QED
            BY <2>1, <2>2, <3>1 DEF Site
    <2>9. ASSUME NEW o \in Operators, DeleteSite(o)
          PROVE  requests[o].step = "delete" /\ requests[o].row = r
        <3>1. requests[o].row \in RowId /\ rows' = [rows EXCEPT ![requests[o].row] = NoSite]
            BY <2>9, Around DEF DeleteSite, RequestsSound
        <3> QED
            BY <2>1, <2>2, <2>9, <3>1 DEF DeleteSite
    <2>10. ASSUME NEW p \in world.pushes, Push(p) PROVE FALSE
        BY <2>2, <2>10 DEF Push
    <2>11. ~(Change \/ Install \/ SkipEnds)
        BY <2>2 DEF Change, Install, SkipEnds
    <2>12. ASSUME NEW o \in Operators,
                  RemoveSite(o) \/ WriteExclusions(o) \/ ServerRequest(o)
           PROVE  FALSE
        BY <2>2, <2>12 DEF RemoveSite, WriteExclusions, ServerRequest, RemoveServer, CreateServer,
                           RegenerateKey, CloseByHand
    <2>13. world.operators \subseteq Operators
        BY Around, WorldType
    <2> QED
        BY <2>5, <2>6, <2>7, <2>8, <2>9, <2>10, <2>11, <2>12, <2>13 DEF Next, SiteRequest, OperatorStep
<1> QED
    BY <1>1, InventoryInvariant, PTL DEF Spec, ManualSitesSpared

-----------------------------------------------------------------------------
(* Removed sites and the next sync                                         *)

\* The list on the server holds what is remembered, and so does every list a removal
\* is about to write, but for what others wrote since it was read.
ListOwes ==
    /\ remembered \subseteq server.excluded
    /\ ~server.exists => remembered = {}
    /\ \A o \in Operators : requests[o].step = "exclude" =>
          /\ remembered \subseteq requests[o].excluded \cup requests[o].missed
          /\ requests[o].item \in requests[o].excluded

\* A sync that has read the list looks for none of what was remembered then.
PushOwes(x) ==
    /\ x.step # "exclusions" => x.todo \cap x.gone = {}
    /\ x.step = "create" => x.item \notin x.gone

Owes == ListOwes /\ \A p \in Pushes : PushOwes(pushes[p])

LEMMA ListStays ==
    ASSUME ListOwes, UNCHANGED <<requests, remembered>>, server'.excluded = server.excluded,
           server.exists => server'.exists
    PROVE  ListOwes'
BY DEF ListOwes

LEMMA PushesOwe ==
    ASSUME InventoryInv, Owes, NEW p \in Pushes, NEW x, Goto(p, x), PushOwes(x)
    PROVE  \A q \in Pushes : PushOwes(pushes[q])'
<1>1. \A q \in Pushes : pushes'[q] = IF q = p THEN x ELSE pushes[q]
    BY DEF Goto, InventoryInv, PushesSound
<1> QED
    BY <1>1 DEF Owes, PushOwes

LEMMA IdlePushOwes == PushOwes(IdlePush)
BY DEF PushOwes, IdlePush

LEMMA PushOwesNext ==
    ASSUME InventoryInv, Owes, NEW p \in Pushes, Push(p) \/ PushStep(p)
    PROVE  Owes'
<1>1. ListOwes'
    <2>1. UNCHANGED <<server, requests, remembered>>
        BY DEF Push, PushStep, ReadExclusions, FindSite, RenameSite, CreateSite, ListAgentSites,
               PruneSite, ServiceAlert, UpsertVm, VmMetric, DeleteOtherVms, UpsertBackup
    <2> QED
        BY <2>1, ListStays DEF Owes
<1>2. pushes[p] \in PushState /\ PushOwes(pushes[p])
    BY PushHolds DEF Owes
<1>3. PICK x : Goto(p, x) /\ PushOwes(x)
    <2>1. CASE Push(p)
        <3> DEFINE x == [IdlePush EXCEPT
                    !.step = FirstStep, !.todo = Report, !.seen = Report,
                    !.service = host.service, !.archive = world.profile = "PROXMOX" /\ ListsArchive]
        <3>1. Goto(p, x)
            BY <2>1 DEF Push, Goto
        <3>2. x.gone = {} /\ x.step = FirstStep /\ FirstStep # "create"
            BY DEF IdlePush, FirstStep
        <3> HIDE DEF x
        <3> QED
            BY <3>1, <3>2 DEF PushOwes
    <2>2. CASE Goto(p, IdlePush)
        BY <2>2, IdlePushOwes
    <2>3. CASE ReadExclusions(p)
        <3> DEFINE kept == pushes[p].seen \ (IF server.exists THEN server.excluded ELSE {})
                   x == [pushes[p] EXCEPT !.step = "find", !.todo = kept, !.seen = kept,
                                          !.gone = remembered]
        <3>1. Goto(p, x)
            BY <2>3 DEF ReadExclusions
        <3>2. x.step = "find" /\ x.todo = kept /\ x.gone = remembered
            BY <1>2 DEF PushState
        <3>3. kept \cap remembered = {}
            BY DEF Owes, ListOwes
        <3> HIDE DEF x, kept
        <3> QED
            BY <3>1, <3>2, <3>3 DEF PushOwes
    <2>4. CASE FindSite(p)
        <3>1. PICK d \in pushes[p].todo, r \in RowId \cup {NoRow} :
                  \/ Goto(p, [pushes[p] EXCEPT !.todo = @ \ {d}, !.step = "create", !.item = d])
                  \/ Goto(p, [pushes[p] EXCEPT !.todo = @ \ {d}, !.step = "rename", !.row = r])
                  \/ Goto(p, [pushes[p] EXCEPT !.todo = @ \ {d}])
            BY <2>4 DEF FindSite, RowsOf, Attached, Existing
        <3>2. pushes[p].step = "find"
            BY <2>4 DEF FindSite, At
        <3>3. CASE Goto(p, [pushes[p] EXCEPT !.todo = @ \ {d}, !.step = "create", !.item = d])
            <4> DEFINE x == [pushes[p] EXCEPT !.todo = @ \ {d}, !.step = "create", !.item = d]
            <4>1. PushOwes(x)
                BY <1>2, <3>1, <3>2 DEF PushState, PushOwes
            <4> HIDE DEF x
            <4> QED
                BY <3>3, <4>1 DEF x
        <3>4. CASE Goto(p, [pushes[p] EXCEPT !.todo = @ \ {d}, !.step = "rename", !.row = r])
            <4> DEFINE x == [pushes[p] EXCEPT !.todo = @ \ {d}, !.step = "rename", !.row = r]
            <4>1. PushOwes(x)
                BY <1>2, <3>1, <3>2 DEF PushState, PushOwes
            <4> HIDE DEF x
            <4> QED
                BY <3>4, <4>1 DEF x
        <3>5. CASE Goto(p, [pushes[p] EXCEPT !.todo = @ \ {d}])
            <4> DEFINE x == [pushes[p] EXCEPT !.todo = @ \ {d}]
            <4>1. PushOwes(x)
                BY <1>2, <3>1, <3>2 DEF PushState, PushOwes
            <4> HIDE DEF x
            <4> QED
                BY <3>5, <4>1 DEF x
        <3> QED
            BY <3>1, <3>3, <3>4, <3>5
    <2>5. ASSUME NEW x, Goto(p, x), pushes[p].step # "exclusions",
                 x.step # "create", x.todo \subseteq pushes[p].todo, x.gone = pushes[p].gone
          PROVE  Goto(p, x) /\ PushOwes(x)
        BY <1>2, <2>5 DEF PushOwes
    <2>6. CASE (RenameSite(p) \/ CreateSite(p)) /\ ~Goto(p, IdlePush)
        <3> DEFINE x == pushes'[p]
        <3>1. \/ Goto(p, [pushes[p] EXCEPT !.step = "find", !.row = NoRow])
              \/ Goto(p, [pushes[p] EXCEPT !.step = "find"])
            BY <2>6 DEF RenameSite, CreateSite, Throw
        <3>2. pushes[p].step # "exclusions"
            BY <2>6 DEF RenameSite, CreateSite, At
        <3> QED
            BY <1>2, <2>5, <3>1, <3>2 DEF PushState
    <2>7. CASE ListAgentSites(p)
        <3>1. \E t : \E u \in {"services", "prune"} : Goto(p, [pushes[p] EXCEPT !.step = u, !.stale = t])
            BY <2>7 DEF ListAgentSites
        <3>2. pushes[p].step # "exclusions"
            BY <2>7 DEF ListAgentSites, At
        <3> QED
            BY <1>2, <2>5, <3>1, <3>2 DEF PushState
    <2>8. CASE PruneSite(p) /\ ~Goto(p, IdlePush)
        <3>1. \E t : \E u \in {"services", "prune"} : Goto(p, [pushes[p] EXCEPT !.stale = t, !.step = u])
            BY <2>8 DEF PruneSite, Throw
        <3>2. pushes[p].step # "exclusions"
            BY <2>8 DEF PruneSite, At
        <3> QED
            BY <1>2, <2>5, <3>1, <3>2 DEF PushState
    <2>9. CASE UpsertVm(p) /\ ~Goto(p, IdlePush)
        <3>1. PICK d, r : Goto(p, [pushes[p] EXCEPT !.todo = @ \ {d}, !.step = "metric", !.row = r])
            BY <2>9 DEF UpsertVm, Throw
        <3>2. pushes[p].step # "exclusions"
            BY <2>9 DEF UpsertVm, At
        <3> QED
            BY <1>2, <2>5, <3>1, <3>2 DEF PushState
    <2>10. CASE VmMetric(p) /\ ~Goto(p, IdlePush)
        <3>1. Goto(p, [pushes[p] EXCEPT !.step = "guests", !.row = NoRow])
            BY <2>10 DEF VmMetric, Throw
        <3>2. pushes[p].step # "exclusions"
            BY <2>10 DEF VmMetric, At
        <3> QED
            BY <1>2, <2>5, <3>1, <3>2 DEF PushState
    <2>11. CASE DeleteOtherVms(p)
        <3>1. Goto(p, [pushes[p] EXCEPT !.step = "backups"])
            BY <2>11 DEF DeleteOtherVms
        <3>2. pushes[p].step # "exclusions"
            BY <2>11 DEF DeleteOtherVms, At
        <3> QED
            BY <1>2, <2>5, <3>1, <3>2 DEF PushState
    <2>12. CASE ServiceAlert(p) \/ UpsertBackup(p)
        BY <2>2, <2>12 DEF ServiceAlert, UpsertBackup
    <2> QED
        BY <2>1, <2>2, <2>3, <2>4, <2>6, <2>7, <2>8, <2>9, <2>10, <2>11, <2>12 DEF PushStep
<1> QED
    BY <1>1, <1>3, PushesOwe DEF Owes

LEMMA RequestOwes ==
    ASSUME InventoryInv, Owes, NEW o \in Operators,
           SiteRequest(o) \/ ServerRequest(o) \/ OperatorStep(o)
    PROVE  Owes'
<1>1. UNCHANGED pushes
    BY DEF SiteRequest, ServerRequest, OperatorStep, EnterSite, EditSite, RemoveSite, RemoveServer,
           CreateServer, RegenerateKey, CloseByHand, WriteExclusions, DeleteSite, DeleteServer
<1>2. requests \in [Operators -> RequestState] /\ ListOwes
    BY Around DEF Owes
<1>3. ASSUME NEW y, requests' = [requests EXCEPT ![o] = y], UNCHANGED <<server, remembered>>,
             y.step = "exclude" =>
                 remembered \subseteq y.excluded /\ y.item \in y.excluded
      PROVE  ListOwes'
    BY <1>2, <1>3 DEF ListOwes
<1>4. ASSUME RemoveSite(o) PROVE ListOwes'
    <2>1. PICK r \in Existing :
              \/ requests' = [requests EXCEPT ![o] =
                    [IdleRequest EXCEPT !.step = "exclude", !.row = r, !.item = rows[r].item,
                                        !.excluded = server.excluded \cup {rows[r].item}]]
              \/ requests' = [requests EXCEPT ![o] = [IdleRequest EXCEPT !.step = "delete", !.row = r]]
        BY <1>4 DEF RemoveSite
    <2>2. UNCHANGED <<server, remembered>>
        BY <1>4 DEF RemoveSite
    <2> QED
        BY <1>2, <1>3, <2>1, <2>2 DEF IdleRequest, ListOwes
<1>5. ASSUME WriteExclusions(o) PROVE ListOwes'
    <2> DEFINE q == requests[o]
    <2>1. /\ server' = [server EXCEPT !.excluded = q.excluded]
          /\ remembered' = (remembered \ q.missed) \cup {q.item}
          /\ requests' = [x \in Operators |->
                IF x = o THEN [IdleRequest EXCEPT !.step = "delete", !.row = q.row]
                ELSE IF requests[x].step = "exclude" THEN [requests[x] EXCEPT !.missed = @ \cup {q.item}]
                ELSE requests[x]]
          /\ q.step = "exclude"
        BY <1>5 DEF WriteExclusions, Excluded
    <2>2. server'.excluded = q.excluded /\ server'.exists = server.exists
        BY <2>1, Around
    <2>3. remembered' \subseteq server'.excluded
        BY <1>2, <2>1, <2>2 DEF ListOwes
    <2>4. server.exists
        BY <1>5 DEF WriteExclusions
    <2>5. ASSUME NEW x \in Operators, requests'[x].step = "exclude"
          PROVE  /\ remembered' \subseteq requests'[x].excluded \cup requests'[x].missed
                 /\ requests'[x].item \in requests'[x].excluded
        <3>1. x # o
            BY <2>1, <2>5 DEF IdleRequest
        <3>2. requests[x] \in RequestState
            BY <1>2
        <3>3. /\ requests[x].step = "exclude"
              /\ requests'[x] = [requests[x] EXCEPT !.missed = @ \cup {q.item}]
            BY <2>1, <2>5, <3>1
        <3>4. /\ requests'[x].excluded = requests[x].excluded /\ requests'[x].item = requests[x].item
              /\ requests'[x].missed = requests[x].missed \cup {q.item}
            BY <3>2, <3>3 DEF RequestState
        <3> QED
            BY <1>2, <2>1, <3>3, <3>4 DEF ListOwes
    <2> QED
        BY <2>2, <2>3, <2>4, <2>5 DEF ListOwes
<1>6. ASSUME DeleteSite(o) PROVE ListOwes'
    BY <1>3, <1>6, IdleRequestType DEF DeleteSite
<1>7. ASSUME DeleteServer(o) PROVE ListOwes'
    <2>1. /\ remembered' = {}
          /\ requests' = [x \in Operators |->
                IF x = o \/ requests[x].step = "exclude" THEN IdleRequest ELSE requests[x]]
        BY <1>7 DEF DeleteServer
    <2>2. \A x \in Operators : requests'[x].step # "exclude"
        BY <2>1, IdleRequestType
    <2> QED
        BY <2>1, <2>2 DEF ListOwes
<1>8. ASSUME RemoveServer(o) PROVE ListOwes'
    <2> DEFINE y == [requests[o] EXCEPT !.step = "deleteServer"]
    <2>1. y.step = "deleteServer"
        BY <1>2 DEF RequestState
    <2>2. requests' = [requests EXCEPT ![o] = y] /\ UNCHANGED <<server, remembered>>
        BY <1>8 DEF RemoveServer
    <2> HIDE DEF y
    <2> QED
        BY <1>3, <2>1, <2>2
<1>9. ASSUME CreateServer(o) PROVE ListOwes'
    <2>1. ~server.exists /\ UNCHANGED <<requests, remembered>> /\ server'.excluded = {}
        BY <1>9 DEF CreateServer
    <2> QED
        BY <1>2, <2>1 DEF ListOwes
<1>10. ASSUME RegenerateKey(o) PROVE ListOwes'
    BY <1>2, <1>10, ListStays, Around DEF RegenerateKey
<1>11. ASSUME EnterSite(o) \/ EditSite(o) \/ CloseByHand(o) PROVE ListOwes'
    BY <1>2, <1>11, ListStays DEF EnterSite, EditSite, CloseByHand
<1>12. ListOwes'
    BY <1>4, <1>5, <1>6, <1>7, <1>8, <1>9, <1>10, <1>11
       DEF SiteRequest, ServerRequest, OperatorStep
<1> QED
    BY <1>1, <1>12 DEF Owes, PushOwes

LEMMA OwesAlways == Spec => []Owes
<1>1. Init => Owes
    BY IdlePushOwes, IdleRequestType DEF Init, Owes, ListOwes, PushOwes
<1>2. InventoryInv /\ Owes /\ [Next]_vars => Owes'
    <2> SUFFICES ASSUME InventoryInv, Owes, [Next]_vars PROVE Owes'
        OBVIOUS
    <2>1. CASE Change \/ Install \/ SkipEnds \/ UNCHANGED vars
        <3>1. UNCHANGED <<pushes, requests, remembered>> /\ server'.excluded = server.excluded
              /\ (server.exists => server'.exists)
            BY <2>1, Around DEF Change, Install, SkipEnds, vars
        <3> QED
            BY <3>1, ListStays DEF Owes, PushOwes
    <2>2. world.pushes \subseteq Pushes /\ world.operators \subseteq Operators
        BY Around, WorldType
    <2> QED
        BY <2>1, <2>2, PushOwesNext, RequestOwes DEF Next
<1> QED
    BY <1>1, <1>2, InventoryInvariant, PTL DEF Spec

\* However many operators remove sites and however many syncs run, a sync creates no
\* site that was removed when it read the list of exclusions, unless a removal that had
\* read the list before overwrote the entry (WebsitesService.remove, syncPleskWebsites).
THEOREM RemovedSitesStayRemoved == Spec => RemovedStaysRemoved
<1>1. InventoryInv /\ Owes /\ [Next]_vars =>
        [\A p \in Pushes :
           pushes[p].step = "create" /\ rows' # rows /\ pushes'[p].step = "find"
             => pushes[p].item \notin pushes[p].gone]_vars
    BY DEF Owes, PushOwes
<1> QED
    BY <1>1, InventoryInvariant, OwesAlways, PTL DEF Spec, RemovedStaysRemoved

=============================================================================
