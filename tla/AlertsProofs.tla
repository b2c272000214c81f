---------------------------- MODULE AlertsProofs ----------------------------
(***************************************************************************)
(* Proofs about Alerts.tla for every value of its constants: any number of *)
(* rows, incidents and racing handlers, any bounds.                        *)
(***************************************************************************)
EXTENDS Alerts, FiniteSetTheorems, TLAPS

\* The steps that write, log or dispatch have a row in hand.
RowSteps == {"refresh", "reopen", "logReopened", "logCreated", "logClosed", "logNote",
             "logAcknowledged", "logRemoved"}
HoldsRow(c) ==
    /\ c.step \in RowSteps => c.id \in AlertId
    /\ c.kind = "acknowledge" =>
         c.id \in AlertId /\ c.step \in {"write", "logAcknowledged"} /\ c.todo = {}
CallsHoldRows == \A p \in Slots : HoldsRow(calls[p])

TypeInv == TypeOK /\ CallsHoldRows

LEMMA FirstValues ==
    /\ 0 \in 0..MaxTime /\ "none" \in Origin
    /\ "ACTIVE" \in Status /\ "UNUSED" \in Status /\ "CLOSED" \in Status /\ "DELETED" \in Status
  BY BoundsAssumption DEF Status, Stored, OpenStatus, Origin

LEMMA IdleIsCall == Idle \in Call
  BY BoundsAssumption DEF Idle, Call, Step, Kind

LEMMA InitTypeInv == Init => TypeInv
<1> SUFFICES ASSUME Init PROVE TypeInv
  OBVIOUS
<1>1. alerts \in [AlertId -> Row]
  <2>1. ASSUME NEW f \in Fingerprint, NEW r \in InitialRow(f) PROVE r \in Row
    <3>1. CASE r = UnusedRow(f)
      BY <3>1, BoundsAssumption DEF UnusedRow, Row, Status, Origin
    <3>2. CASE r \in [fp: {f}, hashed: BOOLEAN, status: Stored, acknowledged: BOOLEAN,
                      resolved: BOOLEAN, closedAt: {0}, origin: {"none"}, occurrenceCount: {1}]
      BY <3>2, BoundsAssumption DEF Row, Status, Origin
    <3> QED BY <2>1, <3>1, <3>2 DEF InitialRow
  <2>2. UNION {InitialRow(f) : f \in Fingerprint} \subseteq Row
    BY <2>1
  <2> QED BY <2>2 DEF Init
<1>2. calls \in [Slots -> Call] /\ CallsHoldRows
  BY IdleIsCall DEF Init, CallsHoldRows, HoldsRow, RowSteps, Idle
<1>3. /\ events \in [AlertId -> [Action -> Nat]]
      /\ outbox = {} /\ now \in 1..MaxTime /\ made \in 0..MaxCalls
      /\ crashes \in 0..MaxCrashes /\ closings \in [AlertId -> Nat]
  BY BoundsAssumption DEF Init
<1> QED BY <1>1, <1>2, <1>3 DEF TypeInv, TypeOK

LEMMA GotoType ==
    ASSUME TypeInv, NEW p \in Slots, NEW c \in Call, Goto(p, c),
           HoldsRow(c)
    PROVE  calls' \in [Slots -> Call] /\ CallsHoldRows'
<1>1. calls' = [calls EXCEPT ![p] = c]
  BY DEF Goto
<1>2. calls \in [Slots -> Call]
  BY DEF TypeInv, TypeOK
<1>3. \A q \in Slots : calls'[q] = IF q = p THEN c ELSE calls[q]
  BY <1>1, <1>2
<1> QED BY <1>1, <1>2, <1>3 DEF CallsHoldRows, TypeInv

LEMMA LogType ==
    ASSUME TypeInv, NEW a \in AlertId, NEW k \in Action, Log(a, k)
    PROVE  events' \in [AlertId -> [Action -> Nat]]
<1>1. events[a] \in [Action -> Nat] /\ events[a][k] + 1 \in Nat
  BY DEF TypeInv, TypeOK
<1>2. events' = [events EXCEPT ![a] = [events[a] EXCEPT ![k] = events[a][k] + 1]]
  BY DEF Log
<1>3. [events[a] EXCEPT ![k] = events[a][k] + 1] \in [Action -> Nat]
  BY <1>1
<1> QED BY <1>2, <1>3 DEF TypeInv, TypeOK

\* A call that begins: only its slot and the count of calls change.
LEMMA BeginType ==
    ASSUME TypeInv, NEW p \in Slots, NEW c \in Call, Begin(p, c),
           HoldsRow(c)
    PROVE  TypeInv'
<1>1. calls' \in [Slots -> Call] /\ CallsHoldRows'
  BY GotoType DEF Begin
<1>2. made' \in 0..MaxCalls
  BY BoundsAssumption DEF Begin, TypeInv, TypeOK
<1> QED BY <1>1, <1>2 DEF Begin, TypeInv, TypeOK

LEMMA ReturnType ==
    ASSUME TypeInv, NEW p \in Slots, Return(p)
    PROVE  calls' \in [Slots -> Call] /\ CallsHoldRows'
<1>1. Idle \in Call /\ HoldsRow(Idle)
  BY IdleIsCall DEF Idle, RowSteps, HoldsRow
<1> QED BY <1>1, GotoType DEF Return

LEMMA ThrowType ==
    ASSUME TypeInv, NEW p \in Slots, Throw(p)
    PROVE  TypeInv'
  BY ReturnType DEF Throw, TypeInv, TypeOK

LEMMA RaiseBeginType ==
    ASSUME TypeInv, NEW p \in Slots, RaiseBegin(p) PROVE TypeInv'
<1>1. PICK f \in Fingerprint, since \in 0..now :
        Begin(p, [Idle EXCEPT !.step = "findOpen", !.kind = "raise",
                              !.where = {f}, !.since = since])
  BY DEF RaiseBegin
<1> DEFINE c == [Idle EXCEPT !.step = "findOpen", !.kind = "raise", !.where = {f}, !.since = since]
<1>2. since \in 0..MaxTime
  BY BoundsAssumption DEF TypeInv, TypeOK
<1>3. c \in Call /\ c.step = "findOpen" /\ c.kind = "raise"
  BY <1>2, IdleIsCall DEF Idle, Call, Step, Kind
<1> QED BY <1>1, <1>3, BeginType DEF HoldsRow, RowSteps

LEMMA ResolveBeginType ==
    ASSUME TypeInv, NEW p \in Slots, ResolveBegin(p) PROVE TypeInv'
<1>1. PICK F \in Wheres, k \in {"resolve", "disable", "autoClose"} :
        Begin(p, [Idle EXCEPT !.step = "find", !.kind = k, !.where = F])
  BY DEF ResolveBegin
<1> DEFINE c == [Idle EXCEPT !.step = "find", !.kind = k, !.where = F]
<1>2. c \in Call /\ c.step = "find" /\ c.kind # "acknowledge"
  BY IdleIsCall, WheresAssumption DEF Idle, Call, Step, Kind
<1> QED BY <1>1, <1>2, BeginType DEF HoldsRow, RowSteps

LEMMA CloseByHandType ==
    ASSUME TypeInv, NEW p \in Slots, CloseByHand(p) PROVE TypeInv'
<1>1. PICK a \in AlertId :
        Begin(p, [Idle EXCEPT !.step = "write", !.kind = "close", !.todo = {a}, !.at = now])
  BY DEF CloseByHand
<1> DEFINE c == [Idle EXCEPT !.step = "write", !.kind = "close", !.todo = {a}, !.at = now]
<1>2. now \in 0..MaxTime
  BY BoundsAssumption DEF TypeInv, TypeOK
<1>3. c \in Call /\ c.step = "write" /\ c.kind = "close"
  BY <1>2, IdleIsCall DEF Idle, Call, Step, Kind
<1> QED BY <1>1, <1>3, BeginType DEF HoldsRow, RowSteps

LEMMA AddNoteType ==
    ASSUME TypeInv, NEW p \in Slots, AddNote(p) PROVE TypeInv'
<1>1. PICK a \in AlertId :
        Begin(p, [Idle EXCEPT !.step = "logNote", !.kind = "note", !.id = a])
  BY DEF AddNote
<1> DEFINE c == [Idle EXCEPT !.step = "logNote", !.kind = "note", !.id = a]
<1>2. c \in Call /\ HoldsRow(c)
  BY IdleIsCall DEF Idle, Call, Step, Kind, HoldsRow
<1> QED BY <1>1, <1>2, BeginType

LEMMA AcknowledgeBeginType ==
    ASSUME TypeInv, NEW p \in Slots, AcknowledgeBegin(p) PROVE TypeInv'
<1>1. PICK a \in AlertId :
        Begin(p, [Idle EXCEPT !.step = "write", !.kind = "acknowledge", !.id = a,
                                !.seen = closings[a]])
  BY DEF AcknowledgeBegin
<1> DEFINE c == [Idle EXCEPT !.step = "write", !.kind = "acknowledge", !.id = a,
                                !.seen = closings[a]]
<1>2. c \in Call /\ HoldsRow(c)
  BY IdleIsCall DEF Idle, Call, Step, Kind, HoldsRow, TypeInv, TypeOK
<1> QED BY <1>1, <1>2, BeginType

LEMMA DeleteBeginType ==
    ASSUME TypeInv, NEW p \in Slots, DeleteBegin(p) PROVE TypeInv'
<1>1. PICK F \in Wheres :
        Begin(p, [Idle EXCEPT !.step = "find", !.kind = "delete", !.where = F])
  BY DEF DeleteBegin
<1> DEFINE c == [Idle EXCEPT !.step = "find", !.kind = "delete", !.where = F]
<1>2. c \in Call /\ c.step = "find" /\ c.kind = "delete"
  BY IdleIsCall, WheresAssumption DEF Idle, Call, Step, Kind
<1> QED BY <1>1, <1>2, BeginType DEF HoldsRow, RowSteps

LEMMA MigrateBeginType ==
    ASSUME TypeInv, NEW p \in Slots, MigrateBegin(p) PROVE TypeInv'
<1> DEFINE c == [Idle EXCEPT !.step = "find", !.kind = "migrate", !.at = now]
<1>1. now \in 0..MaxTime
  BY BoundsAssumption DEF TypeInv, TypeOK
<1>2. c \in Call /\ c.step = "find" /\ c.kind = "migrate"
  BY <1>1, IdleIsCall DEF Idle, Call, Step, Kind
<1>3. calls' \in [Slots -> Call] /\ CallsHoldRows'
  BY <1>2, GotoType DEF MigrateBegin, HoldsRow, RowSteps
<1>4. alerts' \in [AlertId -> Row]
  <2>1. ASSUME NEW r \in Row
        PROVE  [r EXCEPT !.status = "ACTIVE", !.acknowledged = FALSE] \in Row
    BY DEF Row, Status, Stored, OpenStatus
  <2> DEFINE Freed(a) == IF alerts[a].status = "ACKNOWLEDGED"
                           THEN [alerts[a] EXCEPT !.status = "ACTIVE", !.acknowledged = FALSE]
                           ELSE alerts[a]
  <2>2. alerts' = [a \in AlertId |-> Freed(a)]
    BY DEF MigrateBegin
  <2>3. \A a \in AlertId : Freed(a) \in Row
    BY <2>1 DEF TypeInv, TypeOK
  <2> HIDE DEF Freed
  <2> QED BY <2>2, <2>3
<1>5. /\ made < MaxCalls /\ made' = made + 1
      /\ UNCHANGED <<events, outbox, now, crashes, closings>>
  BY DEF MigrateBegin
<1>6. made' \in 0..MaxCalls
  BY <1>5, BoundsAssumption DEF TypeInv, TypeOK
<1> QED BY <1>3, <1>4, <1>5, <1>6 DEF TypeInv, TypeOK

\* A call that moves on with the row it has, or with another one.
LEMMA MoveType ==
    ASSUME TypeInv, NEW p \in Slots, NEW s \in Step, NEW i \in AlertId \cup {NoAlert},
           Goto(p, [calls[p] EXCEPT !.step = s, !.id = i]),
           calls[p].step \notin {"write", "logAcknowledged"}, s \in RowSteps => i \in AlertId
    PROVE  calls' \in [Slots -> Call] /\ CallsHoldRows'
<1> DEFINE c == [calls[p] EXCEPT !.step = s, !.id = i]
<1>1. calls[p] \in Call
  BY DEF TypeInv, TypeOK
<1>2. c \in Call /\ c.step = s /\ c.id = i /\ c.kind = calls[p].kind
  BY <1>1 DEF Call
<1>3. HoldsRow(c)
  BY <1>2 DEF HoldsRow, TypeInv, CallsHoldRows
<1> QED BY <1>2, <1>3, GotoType

LEMMA StepType ==
    ASSUME TypeInv, NEW p \in Slots, NEW s \in Step,
           Goto(p, [calls[p] EXCEPT !.step = s]),
           calls[p].step \notin {"write", "logAcknowledged"},
           s \in RowSteps => calls[p].id \in AlertId
    PROVE  calls' \in [Slots -> Call] /\ CallsHoldRows'
<1> DEFINE c == [calls[p] EXCEPT !.step = s]
<1>1. calls[p] \in Call
  BY DEF TypeInv, TypeOK
<1>2. c \in Call /\ c.step = s /\ c.id = calls[p].id /\ c.kind = calls[p].kind
  BY <1>1 DEF Call
<1>3. HoldsRow(c)
  BY <1>2 DEF HoldsRow, TypeInv, CallsHoldRows
<1> QED BY <1>2, <1>3, GotoType

\* A write of one row, of its own type.
LEMMA RowType ==
    ASSUME TypeInv, NEW a \in AlertId, NEW r \in Row, alerts' = [alerts EXCEPT ![a] = r]
    PROVE  alerts' \in [AlertId -> Row]
  BY DEF TypeInv, TypeOK

LEMMA FindOpenType ==
    ASSUME TypeInv, NEW p \in Slots, FindOpen(p) PROVE TypeInv'
<1> DEFINE open == Open(Matching(calls[p].where))
<1>1. calls' \in [Slots -> Call] /\ CallsHoldRows'
  <2>1. CASE Goto(p, [calls[p] EXCEPT !.step = "findClosed"])
    BY <2>1, StepType DEF Step, RowSteps, At, FindOpen, FindClosed
  <2>2. ASSUME NEW a \in open,
               Goto(p, [calls[p] EXCEPT
                          !.step = "refresh", !.id = a, !.seen = closings[a],
                          !.pending = alerts[a].status = "PENDING_CLOSE",
                          !.keepAck = alerts[a].status = "ACTIVE" /\ alerts[a].acknowledged])
        PROVE  calls' \in [Slots -> Call] /\ CallsHoldRows'
    <3> DEFINE c == [calls[p] EXCEPT
                       !.step = "refresh", !.id = a, !.seen = closings[a],
                       !.pending = alerts[a].status = "PENDING_CLOSE",
                       !.keepAck = alerts[a].status = "ACTIVE" /\ alerts[a].acknowledged]
    <3>1. a \in AlertId /\ calls[p] \in Call /\ alerts[a] \in Row
      BY DEF Open, Matching, TypeInv, TypeOK
    <3>2. alerts[a].acknowledged \in BOOLEAN /\ closings[a] \in Nat
      BY <3>1 DEF Row, TypeInv, TypeOK
    <3>3. c \in Call /\ c.id = a /\ c.kind # "acknowledge"
      BY <3>1, <3>2 DEF Call, Step, FindOpen, At, TypeInv, CallsHoldRows, HoldsRow
    <3> QED BY <2>2, <3>1, <3>3, GotoType DEF HoldsRow
  <2> QED BY <2>1, <2>2 DEF FindOpen
<1> QED BY <1>1 DEF FindOpen, TypeInv, TypeOK

LEMMA RefreshType ==
    ASSUME TypeInv, NEW p \in Slots, Refresh(p) PROVE TypeInv'
<1> DEFINE a == calls[p].id
<1>1. CASE Throw(p)
  BY <1>1, ThrowType
<1>2. CASE ~Throw(p)
  <2>1. a \in AlertId
    BY DEF Refresh, At, TypeInv, CallsHoldRows, HoldsRow, RowSteps
  <2>2. alerts' \in [AlertId -> Row]
    <3>1. alerts[a] \in Row /\ calls[p].keepAck \in BOOLEAN
      BY <2>1 DEF TypeInv, TypeOK, Call
    <3>2. RefreshedRow(alerts[a], calls[p].keepAck) \in Row
      BY <3>1 DEF RefreshedRow, Row, Status, Stored, OpenStatus
    <3> QED BY <1>2, <2>1, <3>2, RowType DEF Refresh
  <2>3. calls' \in [Slots -> Call] /\ CallsHoldRows'
    <3>1. CASE Goto(p, [calls[p] EXCEPT !.step = "logReopened"])
      BY <2>1, <3>1, StepType DEF Step, Refresh, At
    <3> QED BY <1>2, <3>1, ReturnType DEF Refresh
  <2> QED BY <1>2, <2>2, <2>3 DEF Refresh, TypeInv, TypeOK
<1> QED BY <1>1, <1>2

LEMMA FindClosedType ==
    ASSUME TypeInv, NEW p \in Slots, FindClosed(p) PROVE TypeInv'
<1> DEFINE newest == NewestClosed(calls[p].where)
<1>1. calls' \in [Slots -> Call] /\ CallsHoldRows'
  <2>1. CASE Goto(p, [calls[p] EXCEPT !.step = "insert"])
    BY <2>1, StepType DEF Step, RowSteps, At, FindOpen, FindClosed
  <2>2. CASE Return(p)
    BY <2>2, ReturnType
  <2>3. ASSUME NEW a \in newest, Goto(p, [calls[p] EXCEPT !.step = "reopen", !.id = a, !.seen = closings[a]])
        PROVE  calls' \in [Slots -> Call] /\ CallsHoldRows'
    <3> DEFINE c == [calls[p] EXCEPT !.step = "reopen", !.id = a, !.seen = closings[a]]
    <3>1. a \in AlertId /\ calls[p] \in Call /\ closings[a] \in Nat
      BY DEF NewestClosed, Matching, TypeInv, TypeOK
    <3>2. c \in Call /\ c.id = a /\ c.kind # "acknowledge"
      BY <3>1 DEF Call, Step, FindClosed, At, TypeInv, CallsHoldRows, HoldsRow
    <3> QED BY <2>3, <3>1, <3>2, GotoType DEF HoldsRow
  <2> QED BY <2>1, <2>2, <2>3 DEF FindClosed
<1> QED BY <1>1 DEF FindClosed, TypeInv, TypeOK

LEMMA ReopenType ==
    ASSUME TypeInv, NEW p \in Slots, Reopen(p) PROVE TypeInv'
<1> DEFINE a == calls[p].id
<1>1. CASE Throw(p)
  BY <1>1, ThrowType
<1>2. CASE ~Throw(p)
  <2>1. a \in AlertId
    BY DEF Reopen, At, TypeInv, CallsHoldRows, HoldsRow, RowSteps
  <2>2. alerts' \in [AlertId -> Row]
    <3>1. alerts[a] \in Row
      BY <2>1 DEF TypeInv, TypeOK
    <3>2. ReopenedRow(alerts[a]) \in Row
      <4>1. alerts[a].occurrenceCount + 1 \in Nat
        BY <3>1 DEF Row
      <4> QED BY <3>1, <4>1, FirstValues DEF ReopenedRow, Row
    <3>3. alerts' = [alerts EXCEPT ![a] = ReopenedRow(alerts[a])]
      BY <1>2 DEF Reopen
    <3> QED BY <2>1, <3>2, <3>3, RowType
  <2>3. calls' \in [Slots -> Call] /\ CallsHoldRows'
    BY <1>2, <2>1, StepType DEF Reopen, Step, At
  <2> QED BY <1>2, <2>2, <2>3 DEF Reopen, TypeInv, TypeOK
<1> QED BY <1>1, <1>2

LEMMA InsertType ==
    ASSUME TypeInv, NEW p \in Slots, Insert(p) PROVE TypeInv'
<1>1. PICK a \in AlertId, f \in calls[p].where :
        /\ alerts' = [alerts EXCEPT ![a] = [UnusedRow(f) EXCEPT !.status = "ACTIVE",
                                                                !.occurrenceCount = 1]]
        /\ Goto(p, [calls[p] EXCEPT !.step = "logCreated", !.id = a])
        /\ UNCHANGED <<events, outbox, now, made, crashes, closings>>
  BY DEF Insert
<1>2. f \in Fingerprint
  BY DEF TypeInv, TypeOK, Call
<1>3. [UnusedRow(f) EXCEPT !.status = "ACTIVE", !.occurrenceCount = 1] \in Row
  BY <1>2, FirstValues DEF UnusedRow, Row
<1>4. alerts' \in [AlertId -> Row]
  BY <1>1, <1>3, RowType
<1>5. calls' \in [Slots -> Call] /\ CallsHoldRows'
  BY <1>1, MoveType DEF Step, Insert, At
<1> QED BY <1>1, <1>4, <1>5 DEF TypeInv, TypeOK

LEMMA DispatchType ==
    ASSUME TypeInv, NEW a \in AlertId, NEW t \in {"created", "occurrence"}, Dispatch(a, t)
    PROVE  outbox' \subseteq [id: AlertId, trigger: {"created", "occurrence"}, occ: Nat]
<1>1. alerts[a].occurrenceCount \in Nat
  BY DEF TypeInv, TypeOK, Row
<1> QED BY <1>1 DEF Dispatch, TypeInv, TypeOK

\* The two steps that notify.
LEMMA NotifyType ==
    ASSUME TypeInv, NEW p \in Slots, NEW k \in Action, NEW t \in {"created", "occurrence"},
           calls[p].id \in AlertId, Log(calls[p].id, k), Dispatch(calls[p].id, t), Return(p),
           UNCHANGED <<alerts, now, made, crashes, closings>>
    PROVE  TypeInv'
  BY LogType, DispatchType, ReturnType DEF TypeInv, TypeOK

LEMMA LogReopenedType ==
    ASSUME TypeInv, NEW p \in Slots, LogReopened(p) PROVE TypeInv'
<1>1. calls[p].id \in AlertId
  BY DEF LogReopened, At, TypeInv, CallsHoldRows, HoldsRow, RowSteps
<1> QED BY <1>1, ThrowType, NotifyType DEF LogReopened, Action

LEMMA LogCreatedType ==
    ASSUME TypeInv, NEW p \in Slots, LogCreated(p) PROVE TypeInv'
<1>1. calls[p].id \in AlertId
  BY DEF LogCreated, At, TypeInv, CallsHoldRows, HoldsRow, RowSteps
<1> QED BY <1>1, ThrowType, NotifyType DEF LogCreated, Action

LEMMA FindToCloseType ==
    ASSUME TypeInv, NEW p \in Slots, FindToClose(p) PROVE TypeInv'
<1> DEFINE todo == Open(Selected(calls[p].where))
           c == [calls[p] EXCEPT !.step = "write", !.todo = todo, !.at = now]
<1>1. todo \in SUBSET AlertId /\ now \in 0..MaxTime /\ calls[p] \in Call
  BY BoundsAssumption DEF Open, Selected, TypeInv, TypeOK
<1>2. c \in Call /\ c.step = "write" /\ c.kind = calls[p].kind
  BY <1>1 DEF Call, Step
<1>3. calls[p].kind # "acknowledge" /\ (Return(p) \/ Goto(p, c))
  BY DEF FindToClose
<1>4. calls' \in [Slots -> Call] /\ CallsHoldRows'
  BY <1>2, <1>3, ReturnType, GotoType DEF HoldsRow, RowSteps
<1> QED BY <1>4 DEF FindToClose, TypeInv, TypeOK

LEMMA FindPendingType ==
    ASSUME TypeInv, NEW p \in Slots, FindPending(p) PROVE TypeInv'
<1> DEFINE todo == {a \in AlertId : alerts[a].status = "PENDING_CLOSE"}
           c == [calls[p] EXCEPT !.step = "write", !.todo = todo]
<1>1. todo \in SUBSET AlertId /\ calls[p] \in Call
  BY DEF TypeInv, TypeOK
<1>2. c \in Call /\ c.step = "write" /\ c.kind = calls[p].kind
  BY <1>1 DEF Call, Step
<1>3. calls[p].kind # "acknowledge" /\ (Return(p) \/ Goto(p, c))
  BY DEF FindPending
<1>4. calls' \in [Slots -> Call] /\ CallsHoldRows'
  BY <1>2, <1>3, ReturnType, GotoType DEF HoldsRow, RowSteps
<1> QED BY <1>4 DEF FindPending, TypeInv, TypeOK

LEMMA CloseWriteType ==
    ASSUME TypeInv, NEW p \in Slots, CloseWrite(p) PROVE TypeInv'
<1>1. CASE Throw(p)
  BY <1>1, ThrowType
<1>2. CASE ~Throw(p)
  <2>1. PICK a \in calls[p].todo :
          /\ alerts' = [alerts EXCEPT ![a] = ClosedRow(@, calls[p].kind, calls[p].at)]
          /\ closings' = [closings EXCEPT ![a] = @ + 1]
          /\ Goto(p, [calls[p] EXCEPT !.step = "logClosed", !.id = a, !.todo = @ \ {a}])
          /\ UNCHANGED <<events, outbox, now, made, crashes>>
    BY <1>2 DEF CloseWrite
  <2>2. calls[p] \in Call /\ a \in AlertId /\ alerts[a] \in Row
    BY DEF TypeInv, TypeOK, Call
  <2>3. now \in 0..MaxTime /\ calls[p].at \in 0..MaxTime
    BY <2>2, BoundsAssumption DEF TypeInv, TypeOK, Call
  <2>4. ClosedRow(alerts[a], calls[p].kind, calls[p].at) \in Row
    <3> DEFINE k == calls[p].kind
               o == CASE k = "close" -> "manual"
                      [] k = "disable" -> "disabled"
                      [] k = "migrate" -> IF alerts[a].origin = "none" THEN "auto" ELSE alerts[a].origin
                      [] OTHER -> "auto"
               t == IF k \in {"resolve", "migrate", "close"} THEN calls[p].at ELSE now
               b == IF k = "resolve" THEN FALSE ELSE alerts[a].acknowledged
    <3>1. o \in Origin /\ t \in 0..MaxTime /\ b \in BOOLEAN
      BY <2>2, <2>3 DEF Row, Origin
    <3>2. ClosedRow(alerts[a], k, calls[p].at) =
            [alerts[a] EXCEPT !.status = "CLOSED", !.resolved = TRUE, !.closedAt = t,
                              !.acknowledged = b, !.origin = o]
      BY <2>2 DEF ClosedRow
    <3> HIDE DEF o, t, b
    <3> QED BY <2>2, <3>1, <3>2 DEF Row, Status, Stored
  <2>5. alerts' \in [AlertId -> Row]
    BY <2>1, <2>2, <2>4, RowType
  <2>6. closings' \in [AlertId -> Nat]
    BY <2>1, <2>2 DEF TypeInv, TypeOK
  <2>7. calls' \in [Slots -> Call] /\ CallsHoldRows'
    <3> DEFINE c == [calls[p] EXCEPT !.step = "logClosed", !.id = a, !.todo = @ \ {a}]
    <3>1. c \in Call /\ c.id = a /\ c.kind = calls[p].kind /\ c.step = "logClosed"
      BY <2>2 DEF Call, Step
    <3>2. calls[p].kind # "acknowledge"
      BY DEF TypeInv, CallsHoldRows, HoldsRow
    <3> QED BY <2>1, <2>2, <3>1, <3>2, GotoType DEF HoldsRow
  <2> QED BY <2>1, <2>5, <2>6, <2>7 DEF TypeInv, TypeOK
<1> QED BY <1>1, <1>2

LEMMA LogClosedType ==
    ASSUME TypeInv, NEW p \in Slots, LogClosed(p) PROVE TypeInv'
<1>1. CASE Throw(p)
  BY <1>1, ThrowType
<1>2. CASE ~Throw(p)
  <2>1. calls[p].id \in AlertId
    BY DEF LogClosed, At, TypeInv, CallsHoldRows, HoldsRow, RowSteps
  <2>2. /\ Log(calls[p].id, "CLOSED")
        /\ \/ Goto(p, [calls[p] EXCEPT !.step = "write", !.id = NoAlert])
           \/ Return(p)
           \/ Goto(p, [calls[p] EXCEPT !.step = "logNote"])
        /\ UNCHANGED <<alerts, outbox, now, made, crashes, closings>>
    BY <1>2 DEF LogClosed
  <2>3. events' \in [AlertId -> [Action -> Nat]]
    BY <2>1, <2>2, LogType DEF Action
  <2>4. calls' \in [Slots -> Call] /\ CallsHoldRows'
    <3>1. calls[p].step \notin {"write", "logAcknowledged"}
      BY DEF LogClosed, At
    <3>2. CASE Goto(p, [calls[p] EXCEPT !.step = "write", !.id = NoAlert])
      BY <3>1, <3>2, MoveType DEF Step, RowSteps
    <3>3. CASE Goto(p, [calls[p] EXCEPT !.step = "logNote"])
      BY <2>1, <3>1, <3>3, StepType DEF Step
    <3> QED BY <2>2, <3>2, <3>3, ReturnType
  <2> QED BY <2>2, <2>3, <2>4 DEF TypeInv, TypeOK
<1> QED BY <1>1, <1>2

LEMMA LogNoteType ==
    ASSUME TypeInv, NEW p \in Slots, LogNote(p) PROVE TypeInv'
<1>1. calls[p].id \in AlertId
  BY DEF LogNote, At, TypeInv, CallsHoldRows, HoldsRow, RowSteps
<1> QED BY <1>1, ThrowType, LogType, ReturnType DEF LogNote, Action, TypeInv, TypeOK

LEMMA AcknowledgeType ==
    ASSUME TypeInv, NEW p \in Slots, Acknowledge(p) PROVE TypeInv'
<1> DEFINE a == calls[p].id
           c == [calls[p] EXCEPT !.step = "logAcknowledged"]
           r == [alerts[a] EXCEPT !.acknowledged = TRUE, !.status = "ACTIVE"]
<1>1. CASE Throw(p)
  BY <1>1, ThrowType
<1>2. CASE ~Throw(p)
  <2>1. /\ alerts' = [alerts EXCEPT ![a].acknowledged = TRUE, ![a].status = "ACTIVE"]
        /\ Goto(p, c)
        /\ UNCHANGED <<events, outbox, now, made, crashes, closings>>
    BY <1>2 DEF Acknowledge
  <2>2. calls[p].kind = "acknowledge" /\ a \in AlertId /\ calls[p].todo = {}
    BY DEF Acknowledge, TypeInv, CallsHoldRows, HoldsRow
  <2>3. alerts[a] \in Row /\ calls[p] \in Call /\ alerts \in [AlertId -> Row]
    BY <2>2 DEF TypeInv, TypeOK
  <2>4. r \in Row
    BY <2>3, FirstValues DEF Row
  <2>5. alerts' = [alerts EXCEPT ![a] = r]
    BY <2>1, <2>2, <2>3
  <2>6. c \in Call /\ HoldsRow(c)
    BY <2>2, <2>3 DEF Call, Step, HoldsRow, RowSteps
  <2> QED BY <2>1, <2>2, <2>4, <2>5, <2>6, RowType, GotoType DEF TypeInv, TypeOK
<1> QED BY <1>1, <1>2

LEMMA LogAcknowledgedType ==
    ASSUME TypeInv, NEW p \in Slots, LogAcknowledged(p) PROVE TypeInv'
<1>1. calls[p].id \in AlertId
  BY DEF LogAcknowledged, At, TypeInv, CallsHoldRows, HoldsRow, RowSteps
<1> QED BY <1>1, ThrowType, LogType, ReturnType DEF LogAcknowledged, Action, TypeInv, TypeOK

LEMMA FindToDeleteType ==
    ASSUME TypeInv, NEW p \in Slots, FindToDelete(p) PROVE TypeInv'
<1> DEFINE todo == Selected(calls[p].where)
           c == [calls[p] EXCEPT !.step = "delete", !.todo = todo, !.live = Open(todo)]
<1>1. todo \in SUBSET AlertId /\ Open(todo) \in SUBSET AlertId /\ calls[p] \in Call
  BY DEF Open, Selected, TypeInv, TypeOK
<1>2. c \in Call /\ c.step = "delete" /\ c.kind = calls[p].kind
  BY <1>1 DEF Call, Step
<1>3. calls[p].kind # "acknowledge" /\ (Return(p) \/ Goto(p, c))
  BY DEF FindToDelete
<1>4. calls' \in [Slots -> Call] /\ CallsHoldRows'
  BY <1>2, <1>3, ReturnType, GotoType DEF HoldsRow, RowSteps
<1> QED BY <1>4 DEF FindToDelete, TypeInv, TypeOK

LEMMA DeleteNextType ==
    ASSUME TypeInv, NEW p \in Slots, DeleteNext(p) PROVE TypeInv'
<1>1. CASE Throw(p)
  BY <1>1, ThrowType
<1>2. CASE ~Throw(p)
  <2>1. PICK a \in calls[p].todo :
          /\ IF a \in calls[p].live THEN Log(a, "CLOSED") ELSE UNCHANGED events
          /\ Goto(p, [calls[p] EXCEPT !.step = "logRemoved", !.id = a, !.todo = @ \ {a}])
          /\ UNCHANGED <<alerts, outbox, now, made, crashes, closings>>
    BY <1>2 DEF DeleteNext
  <2>2. calls[p] \in Call /\ a \in AlertId
    BY DEF TypeInv, TypeOK, Call
  <2>3. events' \in [AlertId -> [Action -> Nat]]
    BY <2>1, <2>2, LogType DEF Action, TypeInv, TypeOK
  <2>4. calls' \in [Slots -> Call] /\ CallsHoldRows'
    <3> DEFINE c == [calls[p] EXCEPT !.step = "logRemoved", !.id = a, !.todo = @ \ {a}]
    <3>1. c \in Call /\ c.id = a /\ c.kind = calls[p].kind
      BY <2>2 DEF Call, Step
    <3>2. calls[p].kind # "acknowledge"
      BY DEF TypeInv, CallsHoldRows, HoldsRow
    <3> QED BY <2>1, <2>2, <3>1, <3>2, GotoType DEF HoldsRow
  <2> QED BY <2>1, <2>3, <2>4 DEF TypeInv, TypeOK
<1> QED BY <1>1, <1>2

LEMMA LogRemovedType ==
    ASSUME TypeInv, NEW p \in Slots, LogRemoved(p) PROVE TypeInv'
<1>1. calls[p].id \in AlertId /\ calls[p].step \notin {"write", "logAcknowledged"}
  BY DEF LogRemoved, At, TypeInv, CallsHoldRows, HoldsRow, RowSteps
<1>2. CASE Throw(p)
  BY <1>2, ThrowType
<1>3. CASE ~Throw(p)
  <2>1. /\ Log(calls[p].id, "RESOURCE_DELETED")
        /\ Goto(p, [calls[p] EXCEPT !.step = "delete"])
        /\ UNCHANGED <<alerts, outbox, now, made, crashes, closings>>
    BY <1>3 DEF LogRemoved
  <2>2. calls' \in [Slots -> Call] /\ CallsHoldRows'
    BY <1>1, <2>1, StepType DEF Step
  <2>3. events' \in [AlertId -> [Action -> Nat]]
    BY <1>1, <2>1, LogType DEF Action
  <2> QED BY <2>1, <2>2, <2>3 DEF TypeInv, TypeOK
<1> QED BY <1>2, <1>3

LEMMA DeleteRowType ==
    ASSUME TypeInv, NEW p \in Slots, DeleteRow(p) PROVE TypeInv'
<1> DEFINE a == calls[p].id
           c == [calls[p] EXCEPT !.id = NoAlert]
           r == [alerts[a] EXCEPT !.status = "DELETED"]
<1>1. CASE Throw(p)
  BY <1>1, ThrowType
<1>2. CASE ~Throw(p)
  <2>1. /\ alerts' = [alerts EXCEPT ![a].status = "DELETED"]
        /\ Return(p) \/ Goto(p, c)
        /\ UNCHANGED <<events, outbox, now, made, crashes, closings>>
    BY <1>2 DEF DeleteRow
  <2>2. calls[p] \in Call /\ a \in AlertId /\ alerts \in [AlertId -> Row] /\ calls[p].step = "delete"
    BY DEF DeleteRow, At, TypeInv, TypeOK, Call
  <2>3. r \in Row /\ alerts[a] \in Row
    BY <2>2, FirstValues DEF Row
  <2>4. alerts' = [alerts EXCEPT ![a] = r]
    BY <2>1, <2>2
  <2>5. c \in Call /\ HoldsRow(c)
    BY <2>2 DEF Call, HoldsRow, RowSteps, TypeInv, CallsHoldRows
  <2>6. calls' \in [Slots -> Call] /\ CallsHoldRows'
    BY <2>1, <2>5, GotoType, ReturnType
  <2> QED BY <2>1, <2>2, <2>3, <2>4, <2>6, RowType DEF TypeInv, TypeOK
<1> QED BY <1>1, <1>2

LEMMA TickType ==
    ASSUME TypeInv, Tick PROVE TypeInv'
<1>1. now' \in 1..MaxTime
  BY BoundsAssumption DEF Tick, TypeInv, TypeOK
<1> QED BY <1>1 DEF Tick, TypeInv, TypeOK, CallsHoldRows

LEMMA CrashType ==
    ASSUME TypeInv, Crash PROVE TypeInv'
<1>1. calls' \in [Slots -> Call] /\ CallsHoldRows'
  BY IdleIsCall DEF Crash, CallsHoldRows, HoldsRow, RowSteps, Idle
<1>2. crashes' \in 0..MaxCrashes
  BY BoundsAssumption DEF Crash, TypeInv, TypeOK
<1> QED BY <1>1, <1>2 DEF Crash, TypeInv, TypeOK

LEMMA NextTypeInv == TypeInv /\ [Next]_vars => TypeInv'
<1> SUFFICES ASSUME TypeInv, [Next]_vars PROVE TypeInv'
  OBVIOUS
<1>1. ASSUME NEW p \in Slots, BeginCall(p) PROVE TypeInv'
  BY <1>1, RaiseBeginType, ResolveBeginType, MigrateBeginType, CloseByHandType, AddNoteType,
     AcknowledgeBeginType, DeleteBeginType DEF BeginCall
<1>2. ASSUME NEW p \in Slots, Continue(p) PROVE TypeInv'
  BY <1>2, FindOpenType, RefreshType, FindClosedType, ReopenType, InsertType, LogReopenedType,
     LogCreatedType, FindToCloseType, FindPendingType, CloseWriteType, LogClosedType, LogNoteType,
     AcknowledgeType, LogAcknowledgedType, FindToDeleteType, DeleteNextType, LogRemovedType,
     DeleteRowType DEF Continue
<1>3. CASE UNCHANGED vars
  BY <1>3 DEF vars, TypeInv, TypeOK, CallsHoldRows
<1> QED BY <1>1, <1>2, <1>3, TickType, CrashType DEF Next

\* The tables, the calls in flight and the clock keep their types, and no step
\* ever writes or logs without a row in hand, with any number of handlers.
THEOREM TypeCorrect == Spec => []TypeOK
<1>1. Spec => []TypeInv
  BY InitTypeInv, NextTypeInv, PTL DEF Spec
<1> QED BY <1>1, PTL DEF TypeInv

-----------------------------------------------------------------------------
(* A closed alert carries its closing time.  ClosedIsStamped alone is not   *)
(* inductive: a closing write copies the time its call read earlier, so the *)
(* call must hold a time before it writes.                                  *)

StampReady(c) ==
    c.kind \in {"migrate", "close"} \/ (c.kind = "resolve" /\ c.step # "find") => c.at # 0
RowStamped(r) == r.status = "CLOSED" /\ r.hashed => r.resolved /\ r.closedAt # 0
StampInv ==
    /\ \A a \in AlertId : RowStamped(alerts[a])
    /\ \A p \in Slots : StampReady(calls[p])

LEMMA InitStampInv == Init => StampInv
<1> SUFFICES ASSUME Init PROVE StampInv
  OBVIOUS
<1>1. ASSUME NEW a \in AlertId PROVE RowStamped(alerts[a])
  <2>1. PICK f \in Fingerprint : alerts[a] \in InitialRow(f)
    BY DEF Init
  <2> QED BY <2>1 DEF InitialRow, UnusedRow, UpgradedRow, RowStamped
<1>2. ASSUME NEW p \in Slots PROVE StampReady(calls[p])
  BY DEF Init, Idle, StampReady
<1> QED BY <1>1, <1>2 DEF StampInv

LEMMA GotoStamp ==
    ASSUME TypeInv, StampInv, NEW p \in Slots, NEW c, Goto(p, c), StampReady(c)
    PROVE  \A q \in Slots : StampReady(calls'[q])
  BY DEF Goto, TypeInv, TypeOK, StampInv

\* A call that goes on after its read keeps its kind and its time.
LEMMA KeepStamp ==
    ASSUME TypeInv, StampInv, NEW p \in Slots, calls[p].step # "find", NEW c,
           c.kind = calls[p].kind, c.at = calls[p].at
    PROVE  StampReady(c)
  BY DEF StampInv, StampReady

LEMMA IdleStamp == StampReady(Idle)
  BY DEF Idle, StampReady

LEMMA OneRowStamp ==
    ASSUME TypeInv, StampInv, NEW a \in AlertId, NEW r, alerts' = [alerts EXCEPT ![a] = r],
           RowStamped(r)
    PROVE  \A b \in AlertId : RowStamped(alerts'[b])
  BY DEF TypeInv, TypeOK, StampInv

LEMMA BeginOneStamp ==
    ASSUME TypeInv, StampInv, NEW p \in Slots, NEW c, Begin(p, c), StampReady(c)
    PROVE  StampInv'
  BY GotoStamp DEF Begin, StampInv

LEMMA BeginStamp ==
    ASSUME TypeInv, StampInv, NEW p \in Slots, BeginCall(p) PROVE StampInv'
<1>1. now # 0
  BY BoundsAssumption DEF TypeInv, TypeOK
<1>2. CASE MigrateBegin(p)
  <2> DEFINE c == [Idle EXCEPT !.step = "find", !.kind = "migrate", !.at = now]
  <2>1. StampReady(c) /\ Goto(p, c)
    BY <1>1, <1>2 DEF StampReady, Idle, MigrateBegin
  <2>2. \A q \in Slots : StampReady(calls'[q])
    BY <2>1, GotoStamp
  <2> DEFINE Freed(a) == IF alerts[a].status = "ACKNOWLEDGED"
                           THEN [alerts[a] EXCEPT !.status = "ACTIVE", !.acknowledged = FALSE]
                           ELSE alerts[a]
  <2>3. alerts' = [a \in AlertId |-> Freed(a)]
    BY <1>2 DEF MigrateBegin
  <2>4. ASSUME NEW a \in AlertId PROVE RowStamped(Freed(a))
    <3>1. alerts[a] \in Row /\ RowStamped(alerts[a])
      BY DEF TypeInv, TypeOK, StampInv
    <3> QED BY <3>1 DEF RowStamped, Row
  <2> HIDE DEF Freed
  <2>5. \A a \in AlertId : RowStamped(alerts'[a])
    BY <2>3, <2>4
  <2> QED BY <2>2, <2>5 DEF StampInv
<1>3. CASE RaiseBegin(p)
  <2>1. PICK f \in Fingerprint, since \in 0..now :
          Begin(p, [Idle EXCEPT !.step = "findOpen", !.kind = "raise", !.where = {f}, !.since = since])
    BY <1>3 DEF RaiseBegin
  <2> DEFINE c == [Idle EXCEPT !.step = "findOpen", !.kind = "raise", !.where = {f}, !.since = since]
  <2>2. StampReady(c)
    BY DEF StampReady, Idle
  <2> QED BY <2>1, <2>2, BeginOneStamp
<1>4. CASE ResolveBegin(p)
  <2>1. PICK F \in Wheres, k \in {"resolve", "disable", "autoClose"} :
          Begin(p, [Idle EXCEPT !.step = "find", !.kind = k, !.where = F])
    BY <1>4 DEF ResolveBegin
  <2> DEFINE c == [Idle EXCEPT !.step = "find", !.kind = k, !.where = F]
  <2>2. StampReady(c)
    BY DEF StampReady, Idle
  <2> QED BY <2>1, <2>2, BeginOneStamp
<1>5. CASE CloseByHand(p)
  <2>1. PICK a \in AlertId :
          Begin(p, [Idle EXCEPT !.step = "write", !.kind = "close", !.todo = {a}, !.at = now])
    BY <1>5 DEF CloseByHand
  <2> DEFINE c == [Idle EXCEPT !.step = "write", !.kind = "close", !.todo = {a}, !.at = now]
  <2>2. StampReady(c)
    BY <1>1 DEF StampReady, Idle
  <2> QED BY <2>1, <2>2, BeginOneStamp
<1>6. CASE AddNote(p)
  <2>1. PICK a \in AlertId : Begin(p, [Idle EXCEPT !.step = "logNote", !.kind = "note", !.id = a])
    BY <1>6 DEF AddNote
  <2> DEFINE c == [Idle EXCEPT !.step = "logNote", !.kind = "note", !.id = a]
  <2>2. StampReady(c)
    BY DEF StampReady, Idle
  <2> QED BY <2>1, <2>2, BeginOneStamp
<1>7. CASE AcknowledgeBegin(p)
  <2>1. PICK a \in AlertId :
          Begin(p, [Idle EXCEPT !.step = "write", !.kind = "acknowledge", !.id = a,
                                !.seen = closings[a]])
    BY <1>7 DEF AcknowledgeBegin
  <2> DEFINE c == [Idle EXCEPT !.step = "write", !.kind = "acknowledge", !.id = a,
                                !.seen = closings[a]]
  <2>2. StampReady(c)
    BY DEF StampReady, Idle
  <2> QED BY <2>1, <2>2, BeginOneStamp
<1>8. CASE DeleteBegin(p)
  <2>1. PICK F \in Wheres : Begin(p, [Idle EXCEPT !.step = "find", !.kind = "delete", !.where = F])
    BY <1>8 DEF DeleteBegin
  <2> DEFINE c == [Idle EXCEPT !.step = "find", !.kind = "delete", !.where = F]
  <2>2. StampReady(c)
    BY DEF StampReady, Idle
  <2> QED BY <2>1, <2>2, BeginOneStamp
<1> QED BY <1>2, <1>3, <1>4, <1>5, <1>6, <1>7, <1>8 DEF BeginCall

\* The ways a call past its read moves on.
LEMMA MoveStamp ==
    ASSUME TypeInv, StampInv, NEW p \in Slots, calls[p].step # "find", NEW s, NEW i, NEW t,
           \/ Return(p)
           \/ Goto(p, [calls[p] EXCEPT !.step = s])
           \/ Goto(p, [calls[p] EXCEPT !.id = i])
           \/ Goto(p, [calls[p] EXCEPT !.step = s, !.id = i])
           \/ Goto(p, [calls[p] EXCEPT !.step = s, !.id = i, !.todo = @ \ {t}])
    PROVE  \A q \in Slots : StampReady(calls'[q])
<1> DEFINE c1 == [calls[p] EXCEPT !.step = s]
           c2 == [calls[p] EXCEPT !.id = i]
           c3 == [calls[p] EXCEPT !.step = s, !.id = i]
           c4 == [calls[p] EXCEPT !.step = s, !.id = i, !.todo = @ \ {t}]
<1>1. calls[p] \in Call
  BY DEF TypeInv, TypeOK
<1>2. StampReady(c1) /\ StampReady(c2) /\ StampReady(c3) /\ StampReady(c4)
  BY <1>1, KeepStamp DEF Call
<1> QED BY <1>2, IdleStamp, GotoStamp DEF Return

\* What a step of a call in flight leaves in its slot.
LEMMA ContinueCallStamp ==
    ASSUME TypeInv, StampInv, NEW p \in Slots, Continue(p)
    PROVE  \A q \in Slots : StampReady(calls'[q])
<1>1. now # 0 /\ calls[p] \in Call
  BY BoundsAssumption DEF TypeInv, TypeOK
<1>2. CASE Return(p)
  BY <1>2, IdleStamp, GotoStamp DEF Return
<1>3. CASE FindToClose(p)
  <2> DEFINE c == [calls[p] EXCEPT !.step = "write", !.todo = Open(Selected(calls[p].where)), !.at = now]
  <2>1. StampReady(c)
    BY <1>1 DEF StampReady, Call
  <2> QED BY <1>2, <1>3, <2>1, GotoStamp DEF FindToClose
<1>4. CASE FindPending(p)
  <2> DEFINE c == [calls[p] EXCEPT !.step = "write",
                     !.todo = {a \in AlertId : alerts[a].status = "PENDING_CLOSE"}]
  <2>1. StampReady(c)
    BY <1>1, <1>4 DEF FindPending, StampInv, StampReady, Call
  <2> QED BY <1>2, <1>4, <2>1, GotoStamp DEF FindPending
<1>5. CASE FindToDelete(p)
  <2> DEFINE c == [calls[p] EXCEPT !.step = "delete", !.todo = Selected(calls[p].where),
                     !.live = Open(Selected(calls[p].where))]
  <2>1. StampReady(c)
    BY <1>1, <1>5 DEF FindToDelete, StampReady, Call
  <2> QED BY <1>2, <1>5, <2>1, GotoStamp DEF FindToDelete
<1>6. CASE FindOpen(p)
  <2>1. CASE Goto(p, [calls[p] EXCEPT !.step = "findClosed"])
    BY <1>6, <2>1, MoveStamp DEF FindOpen, At
  <2>2. ASSUME NEW a \in Open(Matching(calls[p].where)),
               Goto(p, [calls[p] EXCEPT
                          !.step = "refresh", !.id = a, !.seen = closings[a],
                          !.pending = alerts[a].status = "PENDING_CLOSE",
                          !.keepAck = alerts[a].status = "ACTIVE" /\ alerts[a].acknowledged])
        PROVE  \A q \in Slots : StampReady(calls'[q])
    <3> DEFINE c == [calls[p] EXCEPT
                       !.step = "refresh", !.id = a, !.seen = closings[a],
                       !.pending = alerts[a].status = "PENDING_CLOSE",
                       !.keepAck = alerts[a].status = "ACTIVE" /\ alerts[a].acknowledged]
    <3>1. StampReady(c)
      BY <1>1, <1>6, KeepStamp DEF Call, FindOpen, At
    <3> QED BY <2>2, <3>1, GotoStamp
  <2> QED BY <1>6, <2>1, <2>2 DEF FindOpen
<1>7. CASE \/ Refresh(p) \/ Reopen(p) \/ LogReopened(p) \/ LogCreated(p) \/ LogNote(p)
           \/ Acknowledge(p) \/ LogAcknowledged(p) \/ LogRemoved(p)
  <2>1. calls[p].step # "find"
    BY <1>7 DEF Refresh, Reopen, LogReopened, LogCreated, LogNote, Acknowledge, LogAcknowledged,
                LogRemoved, At
  <2>2. \/ Return(p)
        \/ Goto(p, [calls[p] EXCEPT !.step = "logReopened"])
        \/ Goto(p, [calls[p] EXCEPT !.step = "logAcknowledged"])
        \/ Goto(p, [calls[p] EXCEPT !.step = "delete"])
    BY <1>7 DEF Refresh, Reopen, LogReopened, LogCreated, LogNote, Acknowledge, LogAcknowledged,
                LogRemoved, Throw
  <2> QED BY <2>1, <2>2, MoveStamp
<1>8. CASE FindClosed(p)
  <2>1. CASE Goto(p, [calls[p] EXCEPT !.step = "insert"]) \/ Return(p)
    BY <1>8, <2>1, MoveStamp DEF FindClosed, At
  <2>2. ASSUME NEW a \in NewestClosed(calls[p].where),
               Goto(p, [calls[p] EXCEPT !.step = "reopen", !.id = a, !.seen = closings[a]])
        PROVE  \A q \in Slots : StampReady(calls'[q])
    <3> DEFINE c == [calls[p] EXCEPT !.step = "reopen", !.id = a, !.seen = closings[a]]
    <3>1. StampReady(c)
      BY <1>1, <1>8, KeepStamp DEF Call, FindClosed, At
    <3> QED BY <2>2, <3>1, GotoStamp
  <2> QED BY <1>8, <2>1, <2>2 DEF FindClosed
<1>9. CASE Insert(p)
  BY <1>9, MoveStamp DEF Insert, At
<1>10. CASE CloseWrite(p)
  BY <1>10, MoveStamp DEF CloseWrite, Throw, At
<1>11. CASE LogClosed(p)
  BY <1>11, MoveStamp DEF LogClosed, Throw, At
<1>12. CASE DeleteNext(p)
  BY <1>12, MoveStamp DEF DeleteNext, Throw, At
<1>13. CASE DeleteRow(p)
  BY <1>13, MoveStamp DEF DeleteRow, Throw, At
<1> QED BY <1>3, <1>4, <1>5, <1>6, <1>7, <1>8, <1>9, <1>10, <1>11, <1>12, <1>13 DEF Continue

\* What it writes: rows that become open, rows that are removed, rows that are
\* closed with the time the call holds or the time of the write.
LEMMA ContinueRowStamp ==
    ASSUME TypeInv, StampInv, NEW p \in Slots, Continue(p)
    PROVE  \A b \in AlertId : RowStamped(alerts'[b])
<1>1. now # 0 /\ calls[p] \in Call /\ \A a \in AlertId : alerts[a] \in Row
  BY BoundsAssumption DEF TypeInv, TypeOK
<1>2. CASE UNCHANGED alerts
  BY <1>2 DEF StampInv
<1>3. CASE Refresh(p) /\ ~UNCHANGED alerts
  <2> DEFINE a == calls[p].id
  <2>1. a \in AlertId /\ alerts' = [alerts EXCEPT ![a] = RefreshedRow(alerts[a], calls[p].keepAck)]
    BY <1>3 DEF Refresh, Throw, At, TypeInv, CallsHoldRows, HoldsRow, RowSteps
  <2>2. RowStamped(RefreshedRow(alerts[a], calls[p].keepAck))
    BY <1>1, <2>1 DEF RefreshedRow, RowStamped, Row
  <2> QED BY <2>1, <2>2, OneRowStamp
<1>4. CASE Reopen(p) /\ ~UNCHANGED alerts
  <2> DEFINE a == calls[p].id
  <2>1. a \in AlertId /\ alerts' = [alerts EXCEPT ![a] = ReopenedRow(alerts[a])]
    BY <1>4 DEF Reopen, Throw, At, TypeInv, CallsHoldRows, HoldsRow, RowSteps
  <2>2. RowStamped(ReopenedRow(alerts[a]))
    BY <1>1, <2>1 DEF ReopenedRow, RowStamped, Row
  <2> QED BY <2>1, <2>2, OneRowStamp
<1>5. CASE Insert(p)
  <2>1. PICK a \in AlertId, f \in calls[p].where :
          alerts' = [alerts EXCEPT ![a] = [UnusedRow(f) EXCEPT !.status = "ACTIVE", !.occurrenceCount = 1]]
    BY <1>5 DEF Insert
  <2>2. RowStamped([UnusedRow(f) EXCEPT !.status = "ACTIVE", !.occurrenceCount = 1])
    BY DEF UnusedRow, RowStamped
  <2> QED BY <2>1, <2>2, OneRowStamp
<1>6. CASE CloseWrite(p) /\ ~UNCHANGED alerts
  <2>1. PICK a \in calls[p].todo :
          alerts' = [alerts EXCEPT ![a] = ClosedRow(alerts[a], calls[p].kind, calls[p].at)]
    BY <1>6 DEF CloseWrite, Throw
  <2>2. a \in AlertId
    BY <1>1 DEF Call
  <2>3. calls[p].kind \in {"resolve", "migrate", "close"} => calls[p].at # 0
    BY <1>6 DEF CloseWrite, At, StampInv, StampReady
  <2> DEFINE r == ClosedRow(alerts[a], calls[p].kind, calls[p].at)
  <2>4. r.resolved /\ r.closedAt = IF calls[p].kind \in {"resolve", "migrate", "close"}
                                     THEN calls[p].at ELSE now
    BY <1>1, <2>2 DEF ClosedRow, Row
  <2> QED BY <1>1, <2>1, <2>2, <2>3, <2>4, OneRowStamp DEF RowStamped
<1>7. CASE Acknowledge(p) /\ ~UNCHANGED alerts
  <2> DEFINE a == calls[p].id
             r == [alerts[a] EXCEPT !.acknowledged = TRUE, !.status = "ACTIVE"]
  <2>1. a \in AlertId /\ alerts' = [alerts EXCEPT ![a].acknowledged = TRUE, ![a].status = "ACTIVE"]
    BY <1>7 DEF Acknowledge, Throw, TypeInv, CallsHoldRows, HoldsRow
  <2>2. alerts' = [alerts EXCEPT ![a] = r]
    BY <2>1 DEF TypeInv, TypeOK
  <2>3. RowStamped(r)
    BY <1>1, <2>1 DEF RowStamped, Row
  <2> QED BY <2>1, <2>2, <2>3, OneRowStamp
<1>8. CASE DeleteRow(p) /\ ~UNCHANGED alerts
  <2> DEFINE a == calls[p].id
             r == [alerts[a] EXCEPT !.status = "DELETED"]
  <2>1. a \in AlertId /\ alerts' = [alerts EXCEPT ![a].status = "DELETED"]
    BY <1>1, <1>8 DEF DeleteRow, Throw, Call
  <2>2. alerts' = [alerts EXCEPT ![a] = r]
    BY <2>1 DEF TypeInv, TypeOK
  <2>3. RowStamped(r)
    BY <1>1, <2>1 DEF RowStamped, Row
  <2> QED BY <2>1, <2>2, <2>3, OneRowStamp
<1> QED BY <1>2, <1>3, <1>4, <1>5, <1>6, <1>7, <1>8
     DEF Continue, FindOpen, FindClosed, LogReopened, LogCreated, FindToClose, FindPending,
         LogClosed, LogNote, LogAcknowledged, FindToDelete, DeleteNext, LogRemoved, Throw

LEMMA NextStampInv == TypeInv /\ StampInv /\ [Next]_vars => StampInv'
<1> SUFFICES ASSUME TypeInv, StampInv, [Next]_vars PROVE StampInv'
  OBVIOUS
<1>1. ASSUME NEW p \in Slots, Continue(p) PROVE StampInv'
  BY <1>1, ContinueCallStamp, ContinueRowStamp DEF StampInv
<1>2. CASE Tick
  BY <1>2 DEF Tick, StampInv
<1>3. CASE Crash
  BY <1>3, IdleStamp DEF Crash, StampInv
<1>4. CASE UNCHANGED vars
  BY <1>4 DEF vars, StampInv
<1> QED BY <1>1, <1>2, <1>3, <1>4, BeginStamp DEF Next

\* However many handlers race, however their awaits interleave and whenever the
\* backend restarts, a closed alert has its closing time and is resolved.
THEOREM ClosedAlwaysStamped == Spec => []ClosedIsStamped
<1>1. Init => TypeInv /\ StampInv
  BY InitTypeInv, InitStampInv
<1>2. TypeInv /\ StampInv /\ [Next]_vars => (TypeInv /\ StampInv)'
  BY NextTypeInv, NextStampInv
<1>3. StampInv => ClosedIsStamped
  BY DEF StampInv, RowStamped, ClosedIsStamped
<1> QED BY <1>1, <1>2, <1>3, PTL DEF Spec

-----------------------------------------------------------------------------
(* With one raising handler and no acknowledgements an incident has one row *)
(* at most: nothing can come back between what create() read and what it    *)
(* writes.  The invariant says what the raiser's reads still guarantee.     *)

OneRaiser == Ackers = {} /\ \A p, q \in Raisers : p = q

\* What a call has found, and the raiser's belief about the rows.
Held(p) == \A a \in AlertId : a \in calls[p].todo \/ a = calls[p].id => alerts[a].status # "UNUSED"
Raising(p) ==
    /\ calls[p].step \in {"findOpen", "refresh", "findClosed", "reopen", "insert"} => p \in Raisers
    /\ calls[p].step \in {"findOpen", "findClosed", "insert"} =>
         \E f \in Fingerprint : calls[p].where = {f}
    /\ calls[p].step = "findClosed" => Open(Matching(calls[p].where)) = {}
    /\ calls[p].step = "insert" => Matching(calls[p].where) = {}
    /\ calls[p].kind # "acknowledge"
OneRowInv == OneHashedRowEach /\ \A p \in Slots : Held(p) /\ Raising(p)

\* What a step may do to the rows without disturbing the raiser.
StoredShrinks ==
    \A a \in AlertId :
        /\ alerts[a].status # "UNUSED" => alerts'[a].status # "UNUSED"
        /\ alerts'[a].status \in Stored =>
             /\ alerts[a].status \in Stored
             /\ alerts'[a].fp = alerts[a].fp /\ alerts'[a].hashed = alerts[a].hashed
OpenShrinks == \A a \in AlertId : alerts'[a].status \in OpenStatus => alerts[a].status \in OpenStatus

LEMMA InitOneRowInv == Init => OneRowInv
  BY NoAlertAssumption DEF Init, OneRowInv, Held, Raising, Idle

LEMMA ShrinkKeepsOneRow ==
    ASSUME OneRowInv, StoredShrinks PROVE OneHashedRowEach'
  BY DEF OneRowInv, StoredShrinks, OneHashedRowEach, IsStored

LEMMA OthersKeep ==
    ASSUME TypeInv, OneRowInv, StoredShrinks, NEW p \in Slots, NEW c, Goto(p, c),
           OpenShrinks \/ (OneRaiser /\ p \in Raisers),
           NEW q \in Slots, q # p
    PROVE  Held(q)' /\ Raising(q)'
<1>1. calls'[q] = calls[q]
  BY DEF Goto, TypeInv, TypeOK
<1>2. Held(q) /\ Raising(q)
  BY DEF OneRowInv
<1>3. Held(q)'
  BY <1>1, <1>2 DEF Held, StoredShrinks
<1>4. Raising(q)'
  <2>1. CASE q \notin Raisers
    BY <1>1, <1>2, <2>1 DEF Raising
  <2>2. CASE q \in Raisers
    <3>1. OpenShrinks
      BY <2>2 DEF OneRaiser
    <3>2. Matching(calls[q].where)' \subseteq Matching(calls[q].where)
      BY <1>1 DEF StoredShrinks, Matching, IsStored
    <3>3. \A a \in AlertId : IsOpen(a)' => IsOpen(a)
      BY <3>1 DEF OpenShrinks, IsOpen
    <3>4. Open(Matching(calls[q].where))' \subseteq Open(Matching(calls[q].where))
      BY <3>2, <3>3 DEF Open, Matching
    <3>5. /\ calls[q].step = "findClosed" => Open(Matching(calls[q].where))' = {}
          /\ calls[q].step = "insert" => Matching(calls[q].where)' = {}
      BY <1>2, <3>2, <3>4 DEF Raising
    <3> QED BY <1>1, <1>2, <3>5 DEF Raising
  <2> QED BY <2>1, <2>2
<1> QED BY <1>3, <1>4

\* So it is enough to look at the slot that moves.
LEMMA MoverDecides ==
    ASSUME TypeInv, OneRowInv, StoredShrinks, NEW p \in Slots, NEW c, Goto(p, c),
           OpenShrinks \/ (OneRaiser /\ p \in Raisers),
           Held(p)', Raising(p)'
    PROVE  OneRowInv'
<1>1. \A q \in Slots : Held(q)' /\ Raising(q)'
  BY OthersKeep
<1> QED BY <1>1, ShrinkKeepsOneRow DEF OneRowInv

LEMMA StayShrinks == UNCHANGED alerts => StoredShrinks /\ OpenShrinks
  BY DEF StoredShrinks, OpenShrinks

\* A call that returns or starts logging knows nothing any more.
LEMMA MoverIdle ==
    ASSUME TypeInv, OneRowInv, StoredShrinks, NEW p \in Slots, Return(p),
           OpenShrinks \/ (OneRaiser /\ p \in Raisers)
    PROVE  OneRowInv'
<1>1. calls'[p] = Idle
  BY DEF Return, Goto, TypeInv, TypeOK
<1>2. Held(p)' /\ Raising(p)'
  BY <1>1, NoAlertAssumption DEF Held, Raising, Idle
<1> QED BY <1>2, MoverDecides DEF Return

LEMMA MoverPlain ==
    ASSUME TypeInv, OneRowInv, StoredShrinks, NEW p \in Slots, NEW c, Goto(p, c),
           OpenShrinks \/ (OneRaiser /\ p \in Raisers),
           c.step \notin {"findOpen", "refresh", "findClosed", "reopen", "insert"},
           c.kind # "acknowledge",
           \A a \in AlertId : a \in c.todo \/ a = c.id => alerts[a].status # "UNUSED"
    PROVE  OneRowInv'
<1>1. calls'[p] = c
  BY DEF Goto, TypeInv, TypeOK
<1>2. Held(p)' /\ Raising(p)'
  BY <1>1 DEF Held, Raising, StoredShrinks
<1> QED BY <1>2, MoverDecides

LEMMA ThrowOneRow ==
    ASSUME TypeInv, OneRowInv, NEW p \in Slots, Throw(p) \/ (Return(p) /\ UNCHANGED alerts)
    PROVE  OneRowInv'
  BY MoverIdle, StayShrinks DEF Throw

\* A write of one row that was neither unused nor deleted.
LEMMA WriteShrinks ==
    ASSUME TypeInv, NEW a \in AlertId, NEW r, alerts' = [alerts EXCEPT ![a] = r],
           alerts[a].status # "UNUSED", ~Gone(a), r.status # "UNUSED",
           r.fp = alerts[a].fp, r.hashed = alerts[a].hashed
    PROVE  StoredShrinks /\ (r.status \notin OpenStatus => OpenShrinks)
<1>1. alerts[a].status \in Stored
  BY DEF Gone, TypeInv, TypeOK, Row, Status
<1>2. \A b \in AlertId : alerts'[b] = IF b = a THEN r ELSE alerts[b]
  BY DEF TypeInv, TypeOK
<1> QED BY <1>1, <1>2 DEF StoredShrinks, OpenShrinks

LEMMA BeginOneRow ==
    ASSUME OneRaiser, TypeInv, OneRowInv, NEW p \in Slots, BeginCall(p) PROVE OneRowInv'
<1>1. CASE RaiseBegin(p)
  <2>1. PICK f \in Fingerprint, since \in 0..now :
          Begin(p, [Idle EXCEPT !.step = "findOpen", !.kind = "raise", !.where = {f}, !.since = since])
    BY <1>1 DEF RaiseBegin
  <2> DEFINE c == [Idle EXCEPT !.step = "findOpen", !.kind = "raise", !.where = {f}, !.since = since]
  <2>2. calls'[p] = c /\ Goto(p, c) /\ UNCHANGED alerts
    BY <2>1 DEF Begin, Goto, TypeInv, TypeOK
  <2>3. p \in Raisers
    BY <1>1 DEF RaiseBegin
  <2>4. Held(p)' /\ Raising(p)'
    BY <2>2, <2>3, NoAlertAssumption DEF Held, Raising, Idle
  <2> QED BY <2>2, <2>4, MoverDecides, StayShrinks
<1>2. CASE ResolveBegin(p)
  <2>1. PICK F \in Wheres, k \in {"resolve", "disable", "autoClose"} :
          Begin(p, [Idle EXCEPT !.step = "find", !.kind = k, !.where = F])
    BY <1>2 DEF ResolveBegin
  <2> DEFINE c == [Idle EXCEPT !.step = "find", !.kind = k, !.where = F]
  <2>2. c.step = "find" /\ c.kind = k /\ c.todo = {} /\ c.id = NoAlert
    BY DEF Idle
  <2>3. Goto(p, c) /\ UNCHANGED alerts
    BY <2>1 DEF Begin
  <2> HIDE DEF c
  <2> QED BY <2>2, <2>3, MoverPlain, StayShrinks, NoAlertAssumption
<1>3. CASE MigrateBegin(p)
  <2> DEFINE c == [Idle EXCEPT !.step = "find", !.kind = "migrate", !.at = now]
             Freed(a) == IF alerts[a].status = "ACKNOWLEDGED"
                           THEN [alerts[a] EXCEPT !.status = "ACTIVE", !.acknowledged = FALSE]
                           ELSE alerts[a]
  <2>1. c.step = "find" /\ c.kind = "migrate" /\ c.todo = {} /\ c.id = NoAlert
    BY DEF Idle
  <2>2. Goto(p, c) /\ alerts' = [a \in AlertId |-> Freed(a)]
    BY <1>3 DEF MigrateBegin
  <2>3. ASSUME NEW a \in AlertId
        PROVE  /\ Freed(a).fp = alerts[a].fp /\ Freed(a).hashed = alerts[a].hashed
               /\ Freed(a).status \in OpenStatus <=> alerts[a].status \in OpenStatus
               /\ Freed(a).status \in Stored <=> alerts[a].status \in Stored
               /\ Freed(a).status = "UNUSED" <=> alerts[a].status = "UNUSED"
    <3>1. alerts[a] \in Row
      BY DEF TypeInv, TypeOK
    <3> QED BY <3>1 DEF Row, OpenStatus, Stored
  <2> HIDE DEF Freed, c
  <2>4. StoredShrinks /\ OpenShrinks
    BY <2>2, <2>3 DEF StoredShrinks, OpenShrinks
  <2> QED BY <2>1, <2>2, <2>4, MoverPlain, NoAlertAssumption
<1>4. CASE CloseByHand(p)
  <2>1. PICK a \in AlertId :
          /\ IsOpen(a)
          /\ Begin(p, [Idle EXCEPT !.step = "write", !.kind = "close", !.todo = {a}, !.at = now])
    BY <1>4 DEF CloseByHand
  <2> DEFINE c == [Idle EXCEPT !.step = "write", !.kind = "close", !.todo = {a}, !.at = now]
  <2>2. c.step = "write" /\ c.kind = "close" /\ c.todo = {a} /\ c.id = NoAlert
    BY DEF Idle
  <2>3. Goto(p, c) /\ UNCHANGED alerts
    BY <2>1 DEF Begin
  <2>4. alerts[a].status # "UNUSED"
    BY <2>1 DEF IsOpen, OpenStatus
  <2> HIDE DEF c
  <2> QED BY <2>2, <2>3, <2>4, MoverPlain, StayShrinks, NoAlertAssumption
<1>5. CASE AddNote(p)
  <2>1. PICK a \in AlertId :
          IsStored(a) /\ Begin(p, [Idle EXCEPT !.step = "logNote", !.kind = "note", !.id = a])
    BY <1>5 DEF AddNote
  <2> DEFINE c == [Idle EXCEPT !.step = "logNote", !.kind = "note", !.id = a]
  <2>2. c.step = "logNote" /\ c.kind = "note" /\ c.todo = {} /\ c.id = a
    BY DEF Idle
  <2>3. Goto(p, c) /\ UNCHANGED alerts
    BY <2>1 DEF Begin
  <2>4. alerts[a].status # "UNUSED"
    BY <2>1 DEF IsStored, Stored, OpenStatus
  <2> HIDE DEF c
  <2> QED BY <2>2, <2>3, <2>4, MoverPlain, StayShrinks
<1>6. CASE AcknowledgeBegin(p)
  BY <1>6 DEF AcknowledgeBegin, OneRaiser
<1>7. CASE DeleteBegin(p)
  <2>1. PICK F \in Wheres : Begin(p, [Idle EXCEPT !.step = "find", !.kind = "delete", !.where = F])
    BY <1>7 DEF DeleteBegin
  <2> DEFINE c == [Idle EXCEPT !.step = "find", !.kind = "delete", !.where = F]
  <2>2. c.step = "find" /\ c.kind = "delete" /\ c.todo = {} /\ c.id = NoAlert
    BY DEF Idle
  <2>3. Goto(p, c) /\ UNCHANGED alerts
    BY <2>1 DEF Begin
  <2> HIDE DEF c
  <2> QED BY <2>2, <2>3, MoverPlain, StayShrinks, NoAlertAssumption
<1> QED BY <1>1, <1>2, <1>3, <1>4, <1>5, <1>6, <1>7 DEF BeginCall

\* The raiser's two searches: what is not there stays away until it writes.
LEMMA FindOpenOneRow ==
    ASSUME TypeInv, OneRowInv, NEW p \in Slots, FindOpen(p) PROVE OneRowInv'
<1>1. calls[p] \in Call /\ Held(p) /\ Raising(p) /\ UNCHANGED alerts
  BY DEF TypeInv, TypeOK, OneRowInv, FindOpen
<1>2. CASE /\ Open(Matching(calls[p].where)) = {}
           /\ Goto(p, [calls[p] EXCEPT !.step = "findClosed"])
  <2> DEFINE c == [calls[p] EXCEPT !.step = "findClosed"]
  <2>1. calls'[p] = c
    BY <1>2 DEF Goto, TypeInv, TypeOK
  <2>2. /\ c.step = "findClosed" /\ c.kind = calls[p].kind /\ c.where = calls[p].where
        /\ c.todo = calls[p].todo /\ c.id = calls[p].id
    BY <1>1 DEF Call
  <2> HIDE DEF c
  <2>3. Open(Matching(calls[p].where))' = Open(Matching(calls[p].where))
    BY <1>1, <2>1, <2>2 DEF Open, Matching, IsOpen, IsStored
  <2>4. Raising(p)'
    BY <1>1, <1>2, <2>1, <2>2, <2>3 DEF Raising, FindOpen, At
  <2>5. Held(p)'
    BY <1>1, <2>1, <2>2 DEF Held
  <2> QED BY <1>1, <1>2, <2>4, <2>5, MoverDecides, StayShrinks
<1>3. ASSUME NEW a \in Open(Matching(calls[p].where)),
             Goto(p, [calls[p] EXCEPT
                        !.step = "refresh", !.id = a, !.seen = closings[a],
                        !.pending = alerts[a].status = "PENDING_CLOSE",
                        !.keepAck = alerts[a].status = "ACTIVE" /\ alerts[a].acknowledged])
      PROVE  OneRowInv'
  <2> DEFINE c == [calls[p] EXCEPT
                     !.step = "refresh", !.id = a, !.seen = closings[a],
                     !.pending = alerts[a].status = "PENDING_CLOSE",
                     !.keepAck = alerts[a].status = "ACTIVE" /\ alerts[a].acknowledged]
  <2>1. calls'[p] = c /\ Goto(p, c)
    BY <1>3 DEF Goto, TypeInv, TypeOK
  <2>2. /\ c.step = "refresh" /\ c.kind = calls[p].kind
        /\ c.todo = calls[p].todo /\ c.id = a
    BY <1>1 DEF Call
  <2> HIDE DEF c
  <2>3. alerts[a].status # "UNUSED"
    BY DEF Open, IsOpen, OpenStatus
  <2>4. Raising(p)'
    BY <1>1, <2>1, <2>2 DEF Raising, FindOpen, At
  <2>5. Held(p)'
    BY <1>1, <2>1, <2>2, <2>3 DEF Held
  <2> QED BY <1>1, <2>1, <2>4, <2>5, MoverDecides, StayShrinks
<1> QED BY <1>2, <1>3 DEF FindOpen

\* A single matching row is its own newest.
LEMMA NoNewestNoRow ==
    ASSUME TypeInv, OneHashedRowEach, NEW f \in Fingerprint,
           Open(Matching({f})) = {}, NewestClosed({f}) = {}
    PROVE  Matching({f}) = {}
<1> SUFFICES ASSUME NEW a \in Matching({f}) PROVE FALSE
  OBVIOUS
<1>1. \A b \in Matching({f}) : b = a
  BY DEF Matching, OneHashedRowEach
<1>2. alerts[a].closedAt <= alerts[a].closedAt
  BY BoundsAssumption DEF Matching, TypeInv, TypeOK, Row
<1>3. a \in NewestClosed({f})
  BY <1>1, <1>2 DEF NewestClosed, Matching
<1> QED BY <1>3

LEMMA FindClosedOneRow ==
    ASSUME TypeInv, OneRowInv, NEW p \in Slots, FindClosed(p) PROVE OneRowInv'
<1>1. calls[p] \in Call /\ Held(p) /\ Raising(p) /\ UNCHANGED alerts /\ calls[p].step = "findClosed"
  BY DEF TypeInv, TypeOK, OneRowInv, FindClosed, At
<1>2. CASE Return(p)
  BY <1>1, <1>2, ThrowOneRow
<1>3. CASE /\ NewestClosed(calls[p].where) = {}
           /\ Goto(p, [calls[p] EXCEPT !.step = "insert"])
  <2> DEFINE c == [calls[p] EXCEPT !.step = "insert"]
  <2>1. calls'[p] = c
    BY <1>3 DEF Goto, TypeInv, TypeOK
  <2>2. /\ c.step = "insert" /\ c.kind = calls[p].kind /\ c.where = calls[p].where
        /\ c.todo = calls[p].todo /\ c.id = calls[p].id
    BY <1>1 DEF Call
  <2> HIDE DEF c
  <2>3. PICK f \in Fingerprint : calls[p].where = {f}
    <3>1. PICK f : calls[p].where = {f}
      BY <1>1 DEF Raising
    <3> QED BY <1>1, <3>1 DEF Call
  <2>4. Matching(calls[p].where) = {}
    BY <1>1, <1>3, <2>3, NoNewestNoRow DEF Raising, OneRowInv
  <2>5. Matching(calls[p].where)' = Matching(calls[p].where)
    BY <1>1, <2>1, <2>2 DEF Matching, IsStored
  <2>6. Raising(p)'
    BY <1>1, <2>1, <2>2, <2>4, <2>5 DEF Raising
  <2>7. Held(p)'
    BY <1>1, <2>1, <2>2 DEF Held
  <2> QED BY <1>1, <1>3, <2>6, <2>7, MoverDecides, StayShrinks
<1>4. ASSUME NEW a \in NewestClosed(calls[p].where),
             Goto(p, [calls[p] EXCEPT !.step = "reopen", !.id = a, !.seen = closings[a]])
      PROVE  OneRowInv'
  <2> DEFINE c == [calls[p] EXCEPT !.step = "reopen", !.id = a, !.seen = closings[a]]
  <2>1. calls'[p] = c
    BY <1>4 DEF Goto, TypeInv, TypeOK
  <2>2. c.step = "reopen" /\ c.kind = calls[p].kind /\ c.todo = calls[p].todo /\ c.id = a
    BY <1>1 DEF Call
  <2> HIDE DEF c
  <2>3. alerts[a].status # "UNUSED"
    BY DEF NewestClosed, Matching, IsStored, Stored, OpenStatus
  <2>4. Raising(p)'
    BY <1>1, <2>1, <2>2 DEF Raising
  <2>5. Held(p)'
    BY <1>1, <2>1, <2>2, <2>3 DEF Held
  <2> QED BY <1>1, <1>4, <2>4, <2>5, MoverDecides, StayShrinks
<1> QED BY <1>2, <1>3, <1>4 DEF FindClosed

\* The raiser's writes.
LEMMA RefreshOneRow ==
    ASSUME OneRaiser, TypeInv, OneRowInv, NEW p \in Slots, Refresh(p) \/ Reopen(p)
    PROVE  OneRowInv'
<1> DEFINE a == calls[p].id
           r == IF At(p, "refresh") THEN RefreshedRow(alerts[a], calls[p].keepAck)
                ELSE ReopenedRow(alerts[a])
<1>1. CASE Throw(p)
  BY <1>1, ThrowOneRow
<1>2. CASE ~Throw(p)
  <2>1. calls[p] \in Call /\ Held(p) /\ Raising(p) /\ calls[p].step \in {"refresh", "reopen"}
    BY DEF TypeInv, TypeOK, OneRowInv, Refresh, Reopen, At
  <2>2. a \in AlertId /\ p \in Raisers
    BY <2>1 DEF TypeInv, CallsHoldRows, HoldsRow, RowSteps, Raising
  <2>3. /\ ~Gone(a) /\ alerts' = [alerts EXCEPT ![a] = r]
        /\ Return(p) \/ Goto(p, [calls[p] EXCEPT !.step = "logReopened"])
    BY <1>2, <2>1 DEF Refresh, Reopen, At
  <2>4. r.fp = alerts[a].fp /\ r.hashed = alerts[a].hashed /\ r.status = "ACTIVE"
    BY <2>2 DEF RefreshedRow, ReopenedRow, TypeInv, TypeOK, Row
  <2> HIDE DEF r
  <2>5. StoredShrinks
    BY <2>1, <2>2, <2>3, <2>4, WriteShrinks DEF Held
  <2>6. CASE Return(p)
    BY <2>2, <2>5, <2>6, MoverIdle
  <2>7. CASE Goto(p, [calls[p] EXCEPT !.step = "logReopened"])
    <3> DEFINE c == [calls[p] EXCEPT !.step = "logReopened"]
    <3>1. /\ c.step = "logReopened" /\ c.kind = calls[p].kind
          /\ c.todo = calls[p].todo /\ c.id = a
      BY <2>1 DEF Call
    <3> HIDE DEF c
    <3>2. \A b \in AlertId : b \in c.todo \/ b = c.id => alerts[b].status # "UNUSED"
      BY <2>1, <3>1 DEF Held
    <3>3. Goto(p, c) /\ c.kind # "acknowledge"
      BY <2>1, <2>7, <3>1 DEF c, Raising
    <3> QED BY <2>2, <2>5, <3>1, <3>2, <3>3, MoverPlain
  <2> QED BY <2>3, <2>6, <2>7
<1> QED BY <1>1, <1>2

LEMMA InsertOneRow ==
    ASSUME OneRaiser, TypeInv, OneRowInv, NEW p \in Slots, Insert(p) PROVE OneRowInv'
<1>1. PICK a \in AlertId, f \in calls[p].where :
        /\ alerts[a].status = "UNUSED"
        /\ alerts' = [alerts EXCEPT ![a] = [UnusedRow(f) EXCEPT !.status = "ACTIVE",
                                                                !.occurrenceCount = 1]]
        /\ Goto(p, [calls[p] EXCEPT !.step = "logCreated", !.id = a])
  BY DEF Insert
<1> DEFINE r == [UnusedRow(f) EXCEPT !.status = "ACTIVE", !.occurrenceCount = 1]
           c == [calls[p] EXCEPT !.step = "logCreated", !.id = a]
<1>2. calls[p] \in Call /\ Held(p) /\ Raising(p) /\ calls[p].step = "insert"
  BY DEF TypeInv, TypeOK, OneRowInv, Insert, At
<1>3. p \in Raisers /\ calls[p].where = {f} /\ Matching({f}) = {}
  BY <1>2 DEF Raising
<1>4. r.fp = f /\ r.status = "ACTIVE" /\ r.hashed = TRUE
  BY DEF UnusedRow
<1>5. c.step = "logCreated" /\ c.kind = calls[p].kind /\ c.todo = calls[p].todo /\ c.id = a
  BY <1>2 DEF Call
<1>6. \A b \in AlertId : alerts'[b] = IF b = a THEN r ELSE alerts[b]
  BY <1>1 DEF TypeInv, TypeOK
<1>7. \A q \in Slots : calls'[q] = IF q = p THEN c ELSE calls[q]
  BY <1>1 DEF Goto, TypeInv, TypeOK
<1> HIDE DEF r, c
<1>8. OneHashedRowEach'
  <2>1. \A b \in AlertId :
          b # a /\ alerts[b].status \in Stored /\ alerts[b].hashed => alerts[b].fp # f
    BY <1>3 DEF Matching, IsStored
  <2>2. OneHashedRowEach
    BY DEF OneRowInv
  <2> QED BY <1>4, <1>6, <2>1, <2>2 DEF OneHashedRowEach, IsStored
<1>9. ASSUME NEW q \in Slots PROVE Held(q)' /\ Raising(q)'
  <2>1. Held(q) /\ Raising(q)
    BY DEF OneRowInv
  <2>2. Held(q)'
    BY <1>2, <1>4, <1>5, <1>6, <1>7, <2>1 DEF Held
  <2>3. CASE q = p
    <3>1. calls'[q].step = "logCreated" /\ calls'[q].kind # "acknowledge"
      BY <1>2, <1>5, <1>7, <2>3 DEF Raising
    <3> QED BY <2>2, <3>1 DEF Raising
  <2>4. CASE q # p
    <3>1. q \notin Raisers
      BY <1>3, <2>4 DEF OneRaiser
    <3>2. calls'[q] = calls[q]
      BY <1>7, <2>4
    <3>3. /\ calls'[q].step \notin {"findOpen", "refresh", "findClosed", "reopen", "insert"}
          /\ calls'[q].kind # "acknowledge"
      BY <2>1, <3>1, <3>2 DEF Raising
    <3> QED BY <2>2, <3>3 DEF Raising
  <2> QED BY <2>2, <2>3, <2>4
<1> QED BY <1>8, <1>9 DEF OneRowInv

\* Reads of rows to close or to delete, logging, and the other writes.
LEMMA FindOneRow ==
    ASSUME TypeInv, OneRowInv, NEW p \in Slots,
           FindToClose(p) \/ FindPending(p) \/ FindToDelete(p)
    PROVE  OneRowInv'
<1>1. calls[p] \in Call /\ Held(p) /\ Raising(p) /\ UNCHANGED alerts /\ calls[p].step = "find"
  BY DEF TypeInv, TypeOK, OneRowInv, FindToClose, FindPending, FindToDelete, At
<1>2. CASE Return(p)
  BY <1>1, <1>2, ThrowOneRow
<1>3. ASSUME NEW todo, \A a \in todo : alerts[a].status # "UNUSED", NEW c, Goto(p, c),
             c.step \in {"write", "delete"}, c.kind = calls[p].kind, c.todo = todo, c.id = calls[p].id
      PROVE  OneRowInv'
  <2>1. \A a \in AlertId : a \in c.todo \/ a = c.id => alerts[a].status # "UNUSED"
    BY <1>1, <1>3 DEF Held
  <2>2. c.kind # "acknowledge"
    BY <1>1, <1>3 DEF Raising
  <2> QED BY <1>1, <1>3, <2>1, <2>2, MoverPlain, StayShrinks
<1>4. CASE FindToClose(p) /\ ~Return(p)
  <2> DEFINE t == Open(Selected(calls[p].where))
             c == [calls[p] EXCEPT !.step = "write", !.todo = t, !.at = now]
  <2>1. Goto(p, c)
    BY <1>4 DEF FindToClose
  <2>2. \A a \in t : alerts[a].status # "UNUSED"
    BY DEF Open, IsOpen, OpenStatus
  <2> HIDE DEF t
  <2>3. c.step = "write" /\ c.kind = calls[p].kind /\ c.todo = t /\ c.id = calls[p].id
    BY <1>1 DEF Call
  <2> HIDE DEF c
  <2> QED BY <1>3, <2>1, <2>2, <2>3
<1>5. CASE FindPending(p) /\ ~Return(p)
  <2> DEFINE t == {a \in AlertId : alerts[a].status = "PENDING_CLOSE"}
             c == [calls[p] EXCEPT !.step = "write", !.todo = t]
  <2>1. Goto(p, c)
    BY <1>5 DEF FindPending
  <2>2. \A a \in t : alerts[a].status # "UNUSED"
    OBVIOUS
  <2> HIDE DEF t
  <2>3. c.step = "write" /\ c.kind = calls[p].kind /\ c.todo = t /\ c.id = calls[p].id
    BY <1>1 DEF Call
  <2> HIDE DEF c
  <2> QED BY <1>3, <2>1, <2>2, <2>3
<1>6. CASE FindToDelete(p) /\ ~Return(p)
  <2> DEFINE t == Selected(calls[p].where)
             c == [calls[p] EXCEPT !.step = "delete", !.todo = t, !.live = Open(t)]
  <2>1. Goto(p, c)
    BY <1>6 DEF FindToDelete
  <2>2. \A a \in t : alerts[a].status # "UNUSED"
    BY DEF Selected, IsStored, Stored, OpenStatus
  <2> HIDE DEF t
  <2>3. c.step = "delete" /\ c.kind = calls[p].kind /\ c.todo = t /\ c.id = calls[p].id
    BY <1>1 DEF Call
  <2> HIDE DEF c
  <2> QED BY <1>3, <2>1, <2>2, <2>3
<1> QED BY <1>2, <1>4, <1>5, <1>6

\* A call that only moves on, the rows untouched or shrinking.
LEMMA MoveOneRow ==
    ASSUME TypeInv, OneRowInv, StoredShrinks, OpenShrinks, NEW p \in Slots,
           NEW s \in {"write", "logClosed", "logNote", "logRemoved", "delete"},
           NEW i \in calls[p].todo \cup {NoAlert}, NEW t,
           \/ Goto(p, [calls[p] EXCEPT !.step = s])
           \/ Goto(p, [calls[p] EXCEPT !.id = NoAlert]) /\ At(p, "delete")
           \/ Goto(p, [calls[p] EXCEPT !.step = s, !.id = i])
           \/ Goto(p, [calls[p] EXCEPT !.step = s, !.id = i, !.todo = @ \ {t}])
    PROVE  OneRowInv'
<1>1. calls[p] \in Call /\ Held(p) /\ Raising(p)
  BY DEF TypeInv, TypeOK, OneRowInv
<1>2. ASSUME NEW c, Goto(p, c), c.kind = calls[p].kind, c.todo \subseteq calls[p].todo,
             c.step \in {"write", "logClosed", "logNote", "logRemoved", "delete"},
             c.id \in calls[p].todo \cup {NoAlert, calls[p].id}
      PROVE  OneRowInv'
  <2>1. \A a \in AlertId : a \in c.todo \/ a = c.id => alerts[a].status # "UNUSED"
    BY <1>1, <1>2, NoAlertAssumption DEF Held
  <2>2. c.kind # "acknowledge"
    BY <1>1, <1>2 DEF Raising
  <2> QED BY <1>2, <2>1, <2>2, MoverPlain
<1>3. CASE Goto(p, [calls[p] EXCEPT !.step = s])
  <2> DEFINE c == [calls[p] EXCEPT !.step = s]
  <2>1. c.step = s /\ c.kind = calls[p].kind /\ c.todo = calls[p].todo /\ c.id = calls[p].id
    BY <1>1 DEF Call
  <2> QED BY <1>2, <1>3, <2>1
<1>4. CASE Goto(p, [calls[p] EXCEPT !.id = NoAlert]) /\ At(p, "delete")
  <2> DEFINE c == [calls[p] EXCEPT !.id = NoAlert]
  <2>1. c.step = "delete" /\ c.kind = calls[p].kind /\ c.todo = calls[p].todo /\ c.id = NoAlert
    BY <1>1, <1>4 DEF Call, At
  <2> QED BY <1>2, <1>4, <2>1
<1>5. CASE Goto(p, [calls[p] EXCEPT !.step = s, !.id = i])
  <2> DEFINE c == [calls[p] EXCEPT !.step = s, !.id = i]
  <2>1. c.step = s /\ c.kind = calls[p].kind /\ c.todo = calls[p].todo /\ c.id = i
    BY <1>1 DEF Call
  <2> QED BY <1>2, <1>5, <2>1
<1>6. CASE Goto(p, [calls[p] EXCEPT !.step = s, !.id = i, !.todo = @ \ {t}])
  <2> DEFINE c == [calls[p] EXCEPT !.step = s, !.id = i, !.todo = @ \ {t}]
  <2>1. c.step = s /\ c.kind = calls[p].kind /\ c.todo \subseteq calls[p].todo /\ c.id = i
    BY <1>1 DEF Call
  <2> QED BY <1>2, <1>6, <2>1
<1> QED BY <1>3, <1>4, <1>5, <1>6

LEMMA LogOneRow ==
    ASSUME TypeInv, OneRowInv, NEW p \in Slots,
           \/ LogReopened(p) \/ LogCreated(p) \/ LogClosed(p) \/ LogNote(p)
           \/ LogAcknowledged(p) \/ DeleteNext(p) \/ LogRemoved(p)
    PROVE  OneRowInv'
<1>1. UNCHANGED alerts
  BY DEF LogReopened, LogCreated, LogClosed, LogNote, LogAcknowledged, DeleteNext, LogRemoved, Throw
<1>2. CASE Return(p) \/ Throw(p)
  BY <1>1, <1>2, ThrowOneRow
<1>3. CASE LogClosed(p) /\ ~Return(p) /\ ~Throw(p)
  BY <1>1, <1>3, MoveOneRow, StayShrinks DEF LogClosed
<1>4. CASE LogRemoved(p) /\ ~Throw(p)
  BY <1>1, <1>4, MoveOneRow, StayShrinks DEF LogRemoved
<1>5. CASE DeleteNext(p) /\ ~Throw(p)
  BY <1>1, <1>5, MoveOneRow, StayShrinks DEF DeleteNext
<1> QED BY <1>2, <1>3, <1>4, <1>5 DEF LogReopened, LogCreated, LogNote, LogAcknowledged

LEMMA CloseWriteOneRow ==
    ASSUME TypeInv, OneRowInv, NEW p \in Slots, CloseWrite(p) PROVE OneRowInv'
<1>1. CASE Throw(p)
  BY <1>1, ThrowOneRow
<1>2. CASE ~Throw(p)
  <2>1. PICK a \in calls[p].todo :
          /\ ~Gone(a)
          /\ alerts' = [alerts EXCEPT ![a] = ClosedRow(alerts[a], calls[p].kind, calls[p].at)]
          /\ Goto(p, [calls[p] EXCEPT !.step = "logClosed", !.id = a, !.todo = @ \ {a}])
    BY <1>2 DEF CloseWrite
  <2>2. a \in AlertId /\ alerts[a] \in Row /\ alerts[a].status # "UNUSED"
    BY DEF TypeInv, TypeOK, Call, OneRowInv, Held
  <2> DEFINE r == ClosedRow(alerts[a], calls[p].kind, calls[p].at)
  <2>3. r.status = "CLOSED" /\ r.fp = alerts[a].fp /\ r.hashed = alerts[a].hashed
    BY <2>2 DEF ClosedRow, Row
  <2> HIDE DEF r
  <2>4. StoredShrinks /\ OpenShrinks
    BY <2>1, <2>2, <2>3, WriteShrinks DEF r, OpenStatus
  <2> QED BY <2>1, <2>4, MoveOneRow
<1> QED BY <1>1, <1>2

LEMMA DeleteRowOneRow ==
    ASSUME TypeInv, OneRowInv, NEW p \in Slots, DeleteRow(p) PROVE OneRowInv'
<1> DEFINE a == calls[p].id
           r == [alerts[a] EXCEPT !.status = "DELETED"]
<1>1. CASE Throw(p)
  BY <1>1, ThrowOneRow
<1>2. CASE ~Throw(p)
  <2>1. /\ At(p, "delete") /\ a # NoAlert /\ ~Gone(a)
        /\ alerts' = [alerts EXCEPT ![a].status = "DELETED"]
        /\ Return(p) \/ Goto(p, [calls[p] EXCEPT !.id = NoAlert])
    BY <1>2 DEF DeleteRow
  <2>2. a \in AlertId /\ alerts[a].status # "UNUSED"
    BY <2>1 DEF TypeInv, TypeOK, Call, OneRowInv, Held
  <2>3. alerts' = [alerts EXCEPT ![a] = r]
    BY <2>1, <2>2 DEF TypeInv, TypeOK
  <2>4. r.status = "DELETED" /\ r.fp = alerts[a].fp /\ r.hashed = alerts[a].hashed
    BY <2>2 DEF TypeInv, TypeOK, Row
  <2>5. StoredShrinks /\ OpenShrinks
    BY <2>1, <2>2, <2>3, <2>4, WriteShrinks DEF OpenStatus
  <2> QED BY <2>1, <2>5, MoverIdle, MoveOneRow
<1> QED BY <1>1, <1>2

LEMMA ContinueOneRow ==
    ASSUME OneRaiser, TypeInv, OneRowInv, NEW p \in Slots, Continue(p) PROVE OneRowInv'
<1>1. ~Acknowledge(p)
  BY DEF Acknowledge, OneRowInv, Raising
<1> QED BY <1>1, FindOpenOneRow, RefreshOneRow, FindClosedOneRow, InsertOneRow, FindOneRow, LogOneRow,
           CloseWriteOneRow, DeleteRowOneRow DEF Continue

LEMMA NextOneRowInv == OneRaiser /\ TypeInv /\ OneRowInv /\ [Next]_vars => OneRowInv'
<1> SUFFICES ASSUME OneRaiser, TypeInv, OneRowInv, [Next]_vars PROVE OneRowInv'
  OBVIOUS
<1>1. CASE UNCHANGED <<alerts, calls>>
  BY <1>1 DEF OneRowInv, OneHashedRowEach, Held, Raising, IsStored, Open, Matching, IsOpen
<1>2. CASE Crash
  <2>1. OneHashedRowEach'
    BY <1>2 DEF Crash, OneRowInv, OneHashedRowEach, IsStored
  <2>2. \A p \in Slots : Held(p)' /\ Raising(p)'
    BY <1>2, NoAlertAssumption DEF Crash, Held, Raising, Idle
  <2> QED BY <2>1, <2>2 DEF OneRowInv
<1> QED BY <1>1, <1>2, BeginOneRow, ContinueOneRow DEF Next, Tick, vars

\* With a single handler that raises, and no acknowledgement in the way, an
\* incident never has two rows, whatever closes, notes, removals, migrations
\* and restarts fall between the awaits of create().
THEOREM OneRowWithOneRaiser == OneRaiser => (Spec => []OneRowPerIncident)
<1> SUFFICES ASSUME OneRaiser PROVE Spec => []OneRowPerIncident
  OBVIOUS
<1>1. Init => TypeInv /\ OneRowInv
  BY InitTypeInv, InitOneRowInv
<1>2. TypeInv /\ OneRowInv /\ [Next]_vars => (TypeInv /\ OneRowInv)'
  BY NextTypeInv, NextOneRowInv
<1>3. OneRowInv => OneRowPerIncident
  BY DEF OneRowInv, OneRowPerIncident
<1> QED BY <1>1, <1>2, <1>3, PTL DEF Spec

-----------------------------------------------------------------------------
(* The log is complete.  Every step either adds the event of a row that one *)
(* of the slots was about to log, or leaves what is about to be logged.     *)

LoggingSteps == {"logClosed", "logReopened"}
Lost(a, s) == Cardinality(Writers(a, s)) + crashes * Cardinality(Slots)
Logged(a) ==
    /\ closings[a] <= events[a]["CLOSED"] + Lost(a, "logClosed")
    /\ alerts[a].occurrenceCount <= 1 + events[a]["REOPENED"] + Lost(a, "logReopened")
LogInv == \A a \in AlertId : ~Gone(a) => Logged(a)

\* What is left to log is counted by a number.
LEMMA LostCounts ==
    ASSUME TypeInv, NEW a, NEW s
    PROVE  /\ IsFiniteSet(Writers(a, s)) /\ Cardinality(Writers(a, s)) \in Nat
           /\ Cardinality(Writers(a, s)) <= Cardinality(Slots)
           /\ Cardinality(Slots) \in Nat /\ crashes \in Nat /\ crashes * Cardinality(Slots) \in Nat
           /\ Lost(a, s) \in Nat
<1>1. Writers(a, s) \in SUBSET Slots
  BY DEF Writers
<1>2. IsFiniteSet(Writers(a, s)) /\ Cardinality(Writers(a, s)) <= Cardinality(Slots)
  BY <1>1, SlotsAssumption, FS_Subset
<1>3. Cardinality(Writers(a, s)) \in Nat /\ Cardinality(Slots) \in Nat
  BY <1>2, SlotsAssumption, FS_CardinalityType
<1>4. crashes \in Nat
  BY BoundsAssumption DEF TypeInv, TypeOK
<1>5. \A m, n \in Nat : m * n \in Nat
  OBVIOUS
<1>6. crashes * Cardinality(Slots) \in Nat
  BY <1>3, <1>4, <1>5
<1> QED BY <1>2, <1>3, <1>4, <1>6 DEF Lost

LEMMA LostCountsNext == (TypeInv => \A a, s : Lost(a, s) \in Nat)'
<1>1. TypeInv => \A a, s : Lost(a, s) \in Nat
  BY LostCounts
<1> QED BY <1>1, PTL

\* What the counters of a row are.
LEMMA CountersTyped ==
    ASSUME TypeInv, NEW a \in AlertId
    PROVE  /\ closings[a] \in Nat /\ alerts[a].occurrenceCount \in Nat
           /\ \A k \in Action : events[a][k] \in Nat
  BY DEF TypeInv, TypeOK, Row

\* As many or more are about to log, if none that was has moved.
LEMMA LostGrows ==
    ASSUME TypeInv, TypeInv', crashes' = crashes, NEW a, NEW s,
           Writers(a, s) \subseteq Writers(a, s)'
    PROVE  Lost(a, s) <= Lost(a, s)'
<1>1. IsFiniteSet(Writers(a, s)')
  <2>1. Writers(a, s)' \in SUBSET Slots
    BY DEF Writers
  <2> QED BY <2>1, SlotsAssumption, FS_Subset
<1>2. Cardinality(Writers(a, s)) <= Cardinality(Writers(a, s)')
  BY <1>1, FS_Subset
<1>3. Cardinality(Writers(a, s)') \in Nat
  BY <1>1, FS_CardinalityType
<1> QED BY <1>2, <1>3, LostCounts DEF Lost

\* A slot that moves counts once.
LEMMA LostMoves ==
    ASSUME TypeInv, TypeInv', crashes' = crashes, NEW p \in Slots, NEW c, Goto(p, c), NEW a, NEW s
    PROVE  /\ calls[p].step # s \/ calls[p].id # a => Lost(a, s) <= Lost(a, s)'
           /\ Lost(a, s) <= Lost(a, s)' + 1
           /\ calls[p].step # s /\ c.step = s /\ c.id = a => Lost(a, s) + 1 = Lost(a, s)'
<1> DEFINE W == Writers(a, s)
           V == Writers(a, s)'
<1>1. \A q \in Slots : calls'[q] = IF q = p THEN c ELSE calls[q]
  BY DEF Goto, TypeInv, TypeOK
<1>2. calls[p].step # s \/ calls[p].id # a => W \subseteq V
  BY <1>1 DEF Writers, At
<1>3. W \ {p} \in SUBSET V /\ W \in SUBSET Slots /\ V \in SUBSET Slots
  BY <1>1 DEF Writers, At
<1>4. IsFiniteSet(W) /\ IsFiniteSet(V)
  BY <1>3, SlotsAssumption, FS_Subset
<1>5. /\ Cardinality(W \ {p}) <= Cardinality(V)
      /\ Cardinality(W \ {p}) = IF p \in W THEN Cardinality(W) - 1 ELSE Cardinality(W)
  BY <1>3, <1>4, FS_Subset, FS_RemoveElement
<1>6. Cardinality(W) \in Nat /\ Cardinality(V) \in Nat /\ crashes * Cardinality(Slots) \in Nat
  BY <1>4, FS_CardinalityType, LostCounts
<1>7. ASSUME calls[p].step # s, c.step = s, c.id = a PROVE Cardinality(V) = Cardinality(W) + 1
  <2>1. p \notin W /\ V = W \cup {p}
    BY <1>1, <1>7 DEF Writers, At
  <2> QED BY <2>1, <1>4, FS_AddElement
<1>8. Lost(a, s)' = Cardinality(V) + crashes * Cardinality(Slots)
  BY DEF Lost
<1>9. calls[p].step # s \/ calls[p].id # a => Lost(a, s) <= Lost(a, s)'
  BY <1>2, LostGrows
<1>10. Lost(a, s) <= Lost(a, s)' + 1
  <2> HIDE DEF W, V
  <2> QED BY <1>5, <1>6, <1>8 DEF Lost, W
<1> QED BY <1>6, <1>7, <1>8, <1>9, <1>10 DEF Lost

\* A step that writes no closing and no occurrence, and does not cut a slot off
\* from what it is about to log.
Quiet(p) ==
    /\ crashes' = crashes /\ closings' = closings
    /\ \A a \in AlertId : Gone(a) => Gone(a)'
    /\ \A a \in AlertId : \/ alerts'[a].occurrenceCount = alerts[a].occurrenceCount
                          \/ alerts'[a].occurrenceCount <= 1
    /\ \A a \in AlertId, k \in Action : events[a][k] <= events'[a][k]
    /\ calls[p].step \in LoggingSteps => Gone(calls[p].id)

LEMMA QuietKeepsLog ==
    ASSUME TypeInv, TypeInv', LogInv, NEW p \in Slots, NEW c, Goto(p, c), Quiet(p)
    PROVE  LogInv'
<1> SUFFICES ASSUME NEW a \in AlertId, ~Gone(a)' PROVE Logged(a)'
  BY DEF LogInv
<1>1. Logged(a) /\ ~Gone(a)
  BY DEF LogInv, Quiet
<1>2. /\ Lost(a, "logClosed") <= Lost(a, "logClosed")'
      /\ Lost(a, "logReopened") <= Lost(a, "logReopened")'
  BY <1>1, LostMoves DEF Quiet, LoggingSteps
<1>3. /\ events[a]["CLOSED"] <= events'[a]["CLOSED"] /\ events[a]["REOPENED"] <= events'[a]["REOPENED"]
      /\ events[a]["CLOSED"] \in Nat /\ events[a]["REOPENED"] \in Nat
      /\ events'[a]["CLOSED"] \in Nat /\ events'[a]["REOPENED"] \in Nat
      /\ closings'[a] = closings[a] /\ closings[a] \in Nat
      /\ alerts[a].occurrenceCount \in Nat /\ alerts'[a].occurrenceCount \in Nat
  BY DEF Quiet, Action, TypeInv, TypeOK, Row
<1>4. /\ Lost(a, "logClosed") \in Nat /\ Lost(a, "logReopened") \in Nat
  BY LostCounts
<1>5. /\ Lost(a, "logClosed")' \in Nat /\ Lost(a, "logReopened")' \in Nat
  BY LostCountsNext
<1>6. closings'[a] <= events'[a]["CLOSED"] + Lost(a, "logClosed")'
  BY <1>1, <1>2, <1>3, <1>4, <1>5 DEF Logged
<1>7. alerts'[a].occurrenceCount <= 1 + events'[a]["REOPENED"] + Lost(a, "logReopened")'
  BY <1>1, <1>2, <1>3, <1>4, <1>5 DEF Logged, Quiet
<1> QED BY <1>6, <1>7 DEF Logged

\* An event more.
LEMMA LogAdds ==
    ASSUME TypeInv, NEW a \in AlertId, NEW k \in Action, Log(a, k)
    PROVE  \A b \in AlertId, j \in Action :
              events'[b][j] = IF b = a /\ j = k THEN events[b][j] + 1 ELSE events[b][j]
<1>1. events[a] \in [Action -> Nat]
  BY DEF TypeInv, TypeOK
<1>2. events' = [events EXCEPT ![a] = [events[a] EXCEPT ![k] = events[a][k] + 1]]
  BY DEF Log
<1> QED BY <1>1, <1>2 DEF TypeInv, TypeOK

\* Events are only added.
LEMMA EventsGrow ==
    ASSUME TypeInv, UNCHANGED events \/ \E a \in AlertId, k \in Action : Log(a, k)
    PROVE  \A b \in AlertId, j \in Action : events[b][j] <= events'[b][j]
<1>1. \A b \in AlertId, j \in Action : events[b][j] \in Nat
  BY CountersTyped
<1>2. CASE UNCHANGED events
  BY <1>1, <1>2
<1>3. ASSUME NEW a \in AlertId, NEW k \in Action, Log(a, k)
      PROVE  \A b \in AlertId, j \in Action : events[b][j] <= events'[b][j]
  BY <1>1, <1>3, LogAdds
<1> QED BY <1>2, <1>3

\* One row is rewritten, by a step that counts nothing.
LEMMA RowKeepsCount ==
    ASSUME TypeInv, NEW a \in AlertId, NEW r, alerts' = [alerts EXCEPT ![a] = r], ~Gone(a),
           r.occurrenceCount = alerts[a].occurrenceCount \/ r.occurrenceCount <= 1
    PROVE  /\ \A b \in AlertId : Gone(b) => Gone(b)'
           /\ \A b \in AlertId : \/ alerts'[b].occurrenceCount = alerts[b].occurrenceCount
                                 \/ alerts'[b].occurrenceCount <= 1
<1>1. \A b \in AlertId : alerts'[b] = IF b = a THEN r ELSE alerts[b]
  BY DEF TypeInv, TypeOK
<1> QED BY <1>1 DEF Gone

\* A step that reads, logs no transition or throws.
LEMMA ReadIsQuiet ==
    ASSUME TypeInv, NEW p \in Slots, UNCHANGED <<alerts, crashes, closings>>,
           UNCHANGED events \/ \E a \in AlertId, k \in Action : Log(a, k),
           calls[p].step \in LoggingSteps => Gone(calls[p].id)
    PROVE  Quiet(p)
  BY EventsGrow DEF Quiet, Gone

\* A step that rewrites a row without counting.
LEMMA WriteIsQuiet ==
    ASSUME TypeInv, NEW p \in Slots, UNCHANGED <<events, crashes, closings>>,
           NEW a \in AlertId, NEW r, alerts' = [alerts EXCEPT ![a] = r], ~Gone(a),
           r.occurrenceCount = alerts[a].occurrenceCount \/ r.occurrenceCount <= 1,
           calls[p].step \notin LoggingSteps
    PROVE  Quiet(p)
<1>1. \A b \in AlertId, j \in Action : events[b][j] <= events'[b][j]
  BY EventsGrow
<1> QED BY <1>1, RowKeepsCount DEF Quiet

LEMMA BeginQuiet ==
    ASSUME TypeInv, NEW p \in Slots, BeginCall(p)
    PROVE  Quiet(p) /\ \E c : Goto(p, c)
<1>1. calls[p].step \notin LoggingSteps
  BY DEF BeginCall, RaiseBegin, ResolveBegin, MigrateBegin, CloseByHand, AddNote, AcknowledgeBegin,
         DeleteBegin, Begin, At, LoggingSteps
<1>2. ASSUME NEW c, Begin(p, c) PROVE Quiet(p) /\ Goto(p, c)
  BY <1>1, <1>2, ReadIsQuiet DEF Begin
<1>3. CASE MigrateBegin(p)
  <2>1. \A a \in AlertId : alerts'[a] =
          IF alerts[a].status = "ACKNOWLEDGED"
            THEN [alerts[a] EXCEPT !.status = "ACTIVE", !.acknowledged = FALSE] ELSE alerts[a]
    BY <1>3 DEF MigrateBegin
  <2>2. ASSUME NEW a \in AlertId
        PROVE  alerts'[a].occurrenceCount = alerts[a].occurrenceCount /\ (Gone(a) => Gone(a)')
    <3>1. alerts[a] \in Row
      BY DEF TypeInv, TypeOK
    <3> QED BY <2>1, <3>1 DEF Gone, Row
  <2>3. UNCHANGED <<events, crashes, closings>>
    BY <1>3 DEF MigrateBegin
  <2>4. \A b \in AlertId, j \in Action : events[b][j] <= events'[b][j]
    BY <2>3, EventsGrow
  <2>5. Quiet(p)
    BY <1>1, <2>2, <2>3, <2>4 DEF Quiet
  <2> QED BY <1>3, <2>5 DEF MigrateBegin
<1> QED BY <1>2, <1>3 DEF BeginCall, RaiseBegin, ResolveBegin, CloseByHand, AddNote,
                          AcknowledgeBegin, DeleteBegin

\* The steps in flight that close nothing, count nothing and log no transition.
LEMMA ThrowQuiet ==
    ASSUME TypeInv, NEW p \in Slots, Throw(p), calls[p].step \in LoggingSteps => Gone(calls[p].id)
    PROVE  Quiet(p) /\ \E c : Goto(p, c)
  BY ReadIsQuiet DEF Throw, Return

LEMMA FindQuiet ==
    ASSUME TypeInv, NEW p \in Slots,
           FindOpen(p) \/ FindClosed(p) \/ FindToClose(p) \/ FindPending(p) \/ FindToDelete(p)
    PROVE  Quiet(p) /\ \E c : Goto(p, c)
<1>1. UNCHANGED <<alerts, crashes, closings, events>> /\ calls[p].step \notin LoggingSteps
  BY DEF FindOpen, FindClosed, FindToClose, FindPending, FindToDelete, At, LoggingSteps
<1>2. \E c : Goto(p, c)
  BY DEF FindOpen, FindClosed, FindToClose, FindPending, FindToDelete, Return
<1> QED BY <1>1, <1>2, ReadIsQuiet

LEMMA LogQuiet ==
    ASSUME TypeInv, NEW p \in Slots,
           \/ LogCreated(p) \/ LogNote(p) \/ LogAcknowledged(p) \/ DeleteNext(p) \/ LogRemoved(p)
    PROVE  Quiet(p) /\ \E c : Goto(p, c)
<1>1. calls[p].step \notin LoggingSteps
  BY DEF LogCreated, LogNote, LogAcknowledged, DeleteNext, LogRemoved, At, LoggingSteps
<1>2. CASE Throw(p)
  BY <1>1, <1>2, ThrowQuiet
<1>3. CASE ~Throw(p) /\ ~DeleteNext(p)
  <2>1. calls[p].id \in AlertId
    BY <1>3 DEF LogCreated, LogNote, LogAcknowledged, LogRemoved, At, TypeInv, CallsHoldRows,
                HoldsRow, RowSteps
  <2>2. /\ UNCHANGED <<alerts, crashes, closings>>
        /\ \E k \in Action : Log(calls[p].id, k)
        /\ \E c : Goto(p, c)
    BY <1>3 DEF LogCreated, LogNote, LogAcknowledged, LogRemoved, Action, Return
  <2> QED BY <1>1, <2>1, <2>2, ReadIsQuiet
<1>4. CASE ~Throw(p) /\ DeleteNext(p)
  <2>1. calls[p].todo \subseteq AlertId
    BY DEF TypeInv, TypeOK, Call
  <2>2. /\ UNCHANGED <<alerts, crashes, closings>>
        /\ UNCHANGED events \/ \E a \in AlertId : Log(a, "CLOSED")
        /\ \E c : Goto(p, c)
    BY <1>4, <2>1 DEF DeleteNext
  <2> QED BY <1>1, <2>2, ReadIsQuiet DEF Action
<1> QED BY <1>2, <1>3, <1>4

LEMMA RefreshQuiet ==
    ASSUME TypeInv, NEW p \in Slots, Refresh(p)
    PROVE  Quiet(p) /\ \E c : Goto(p, c)
<1> DEFINE a == calls[p].id
           r == RefreshedRow(alerts[a], calls[p].keepAck)
<1>1. calls[p].step \notin LoggingSteps
  BY DEF Refresh, At, LoggingSteps
<1>2. CASE Throw(p)
  BY <1>1, <1>2, ThrowQuiet
<1>3. CASE ~Throw(p)
  <2>1. a \in AlertId /\ alerts[a] \in Row
    BY DEF Refresh, At, TypeInv, TypeOK, CallsHoldRows, HoldsRow, RowSteps
  <2>2. /\ ~Gone(a) /\ alerts' = [alerts EXCEPT ![a] = r]
        /\ UNCHANGED <<events, crashes, closings>>
        /\ \E c : Goto(p, c)
    BY <1>3, <2>1 DEF Refresh, Return
  <2>3. r.occurrenceCount = alerts[a].occurrenceCount
    BY <2>1 DEF RefreshedRow, Row
  <2> QED BY <1>1, <2>1, <2>2, <2>3, WriteIsQuiet
<1> QED BY <1>2, <1>3

LEMMA InsertQuiet ==
    ASSUME TypeInv, NEW p \in Slots, Insert(p)
    PROVE  Quiet(p) /\ \E c : Goto(p, c)
<1>1. PICK a \in AlertId, f \in calls[p].where :
        /\ alerts[a].status = "UNUSED"
        /\ alerts' = [alerts EXCEPT ![a] = [UnusedRow(f) EXCEPT !.status = "ACTIVE",
                                                                !.occurrenceCount = 1]]
        /\ Goto(p, [calls[p] EXCEPT !.step = "logCreated", !.id = a])
  BY DEF Insert
<1> DEFINE r == [UnusedRow(f) EXCEPT !.status = "ACTIVE", !.occurrenceCount = 1]
<1>2. r.occurrenceCount <= 1 /\ ~Gone(a)
  BY <1>1 DEF UnusedRow, Gone
<1>3. UNCHANGED <<events, crashes, closings>> /\ calls[p].step \notin LoggingSteps
  BY DEF Insert, At, LoggingSteps
<1>4. alerts' = [alerts EXCEPT ![a] = r]
  BY <1>1
<1> HIDE DEF r
<1>5. Quiet(p)
  BY <1>2, <1>3, <1>4, WriteIsQuiet
<1> QED BY <1>1, <1>5

LEMMA AcknowledgeQuiet ==
    ASSUME TypeInv, NEW p \in Slots, Acknowledge(p)
    PROVE  Quiet(p) /\ \E c : Goto(p, c)
<1> DEFINE a == calls[p].id
           r == [alerts[a] EXCEPT !.acknowledged = TRUE, !.status = "ACTIVE"]
<1>1. calls[p].step \notin LoggingSteps
  BY DEF Acknowledge, At, LoggingSteps
<1>2. CASE Throw(p)
  BY <1>1, <1>2, ThrowQuiet
<1>3. CASE ~Throw(p)
  <2>1. a \in AlertId /\ alerts[a] \in Row
    BY DEF Acknowledge, TypeInv, TypeOK, CallsHoldRows, HoldsRow
  <2>2. /\ ~Gone(a) /\ alerts' = [alerts EXCEPT ![a] = r]
        /\ UNCHANGED <<events, crashes, closings>>
        /\ \E c : Goto(p, c)
    BY <1>3, <2>1 DEF Acknowledge, TypeInv, TypeOK
  <2>3. r.occurrenceCount = alerts[a].occurrenceCount
    BY <2>1 DEF Row
  <2> QED BY <1>1, <2>1, <2>2, <2>3, WriteIsQuiet
<1> QED BY <1>2, <1>3

LEMMA DeleteRowQuiet ==
    ASSUME TypeInv, NEW p \in Slots, DeleteRow(p)
    PROVE  Quiet(p) /\ \E c : Goto(p, c)
<1> DEFINE a == calls[p].id
           r == [alerts[a] EXCEPT !.status = "DELETED"]
<1>1. calls[p].step \notin LoggingSteps
  BY DEF DeleteRow, At, LoggingSteps
<1>2. CASE Throw(p)
  BY <1>1, <1>2, ThrowQuiet
<1>3. CASE ~Throw(p)
  <2>1. a \in AlertId /\ alerts[a] \in Row
    BY <1>3 DEF DeleteRow, TypeInv, TypeOK, Call
  <2>2. /\ ~Gone(a) /\ alerts' = [alerts EXCEPT ![a] = r]
        /\ UNCHANGED <<events, crashes, closings>>
        /\ \E c : Goto(p, c)
    BY <1>3, <2>1 DEF DeleteRow, Return, TypeInv, TypeOK
  <2>3. r.occurrenceCount = alerts[a].occurrenceCount
    BY <2>1 DEF Row
  <2> QED BY <1>1, <2>1, <2>2, <2>3, WriteIsQuiet
<1> QED BY <1>2, <1>3

\* A reopening counts an occurrence, and its slot is about to log it.
LEMMA ReopenKeepsLog ==
    ASSUME TypeInv, TypeInv', LogInv, NEW p \in Slots, Reopen(p) PROVE LogInv'
<1> DEFINE b == calls[p].id
           c == [calls[p] EXCEPT !.step = "logReopened"]
<1>1. CASE Throw(p)
  <2>1. calls[p].step \notin LoggingSteps
    BY DEF Reopen, At, LoggingSteps
  <2> QED BY <1>1, <2>1, ThrowQuiet, QuietKeepsLog
<1>2. CASE ~Throw(p)
  <2>1. /\ b \in AlertId /\ alerts[b] \in Row /\ calls[p] \in Call /\ calls[p].step = "reopen"
    BY DEF Reopen, At, TypeInv, TypeOK, CallsHoldRows, HoldsRow, RowSteps
  <2>2. /\ alerts' = [alerts EXCEPT ![b] = ReopenedRow(alerts[b])]
        /\ Goto(p, c) /\ UNCHANGED <<events, crashes, closings>> /\ ~Gone(b)
    BY <1>2 DEF Reopen
  <2>3. /\ ReopenedRow(alerts[b]).occurrenceCount = alerts[b].occurrenceCount + 1
        /\ c.step = "logReopened" /\ c.id = b
    BY <2>1 DEF ReopenedRow, Row, Call
  <2>4. \A a \in AlertId : alerts'[a] = IF a = b THEN ReopenedRow(alerts[b]) ELSE alerts[a]
    BY <2>1, <2>2 DEF TypeInv, TypeOK
  <2>5. ASSUME NEW a \in AlertId, ~Gone(a)' PROVE Logged(a)'
    <3>1. ~Gone(a)
      BY <2>2, <2>4, <2>5 DEF Gone
    <3>2. Logged(a)
      BY <3>1 DEF LogInv
    <3>3. /\ Lost(a, "logClosed") <= Lost(a, "logClosed")'
          /\ Lost(a, "logReopened") <= Lost(a, "logReopened")'
          /\ a = b => Lost(a, "logReopened") + 1 = Lost(a, "logReopened")'
      <4>1. Goto(p, c) /\ crashes' = crashes
        BY <2>2
      <4>2. calls[p].step # "logClosed" /\ calls[p].step # "logReopened"
        BY <2>1
      <4> HIDE DEF c, b
      <4> QED BY <2>3, <4>1, <4>2, LostMoves
    <3>4. /\ Lost(a, "logClosed") \in Nat /\ Lost(a, "logReopened") \in Nat
          /\ Lost(a, "logClosed")' \in Nat /\ Lost(a, "logReopened")' \in Nat
      BY LostCounts, LostCountsNext
    <3>5. /\ closings[a] \in Nat /\ alerts[a].occurrenceCount \in Nat
          /\ events[a]["CLOSED"] \in Nat /\ events[a]["REOPENED"] \in Nat
      BY CountersTyped DEF Action
    <3>6. alerts'[a].occurrenceCount = IF a = b THEN alerts[a].occurrenceCount + 1
                                       ELSE alerts[a].occurrenceCount
      BY <2>3, <2>4
    <3>7. closings'[a] <= events'[a]["CLOSED"] + Lost(a, "logClosed")'
      BY <2>2, <3>2, <3>3, <3>4, <3>5 DEF Logged
    <3>8. alerts'[a].occurrenceCount <= 1 + events'[a]["REOPENED"] + Lost(a, "logReopened")'
      BY <2>2, <3>2, <3>3, <3>4, <3>5, <3>6 DEF Logged
    <3> QED BY <3>7, <3>8 DEF Logged
  <2> QED BY <2>5 DEF LogInv
<1> QED BY <1>1, <1>2

\* A close is counted, and its slot is about to log it.
LEMMA CloseKeepsLog ==
    ASSUME TypeInv, TypeInv', LogInv, NEW p \in Slots, CloseWrite(p) PROVE LogInv'
<1>1. calls[p].step = "write"
  BY DEF CloseWrite, At
<1>2. CASE Throw(p)
  <2>1. calls[p].step \notin LoggingSteps
    BY <1>1 DEF LoggingSteps
  <2> QED BY <1>2, <2>1, ThrowQuiet, QuietKeepsLog
<1>3. CASE ~Throw(p)
  <2>1. PICK b \in calls[p].todo :
          /\ ~Gone(b)
          /\ alerts' = [alerts EXCEPT ![b] = ClosedRow(@, calls[p].kind, calls[p].at)]
          /\ closings' = [closings EXCEPT ![b] = @ + 1]
          /\ Goto(p, [calls[p] EXCEPT !.step = "logClosed", !.id = b, !.todo = @ \ {b}])
          /\ UNCHANGED <<events, crashes>>
    BY <1>3 DEF CloseWrite
  <2> DEFINE c == [calls[p] EXCEPT !.step = "logClosed", !.id = b, !.todo = @ \ {b}]
             r == ClosedRow(alerts[b], calls[p].kind, calls[p].at)
  <2>2. b \in AlertId /\ alerts[b] \in Row /\ calls[p] \in Call
    BY DEF TypeInv, TypeOK, Call
  <2>3. r.occurrenceCount = alerts[b].occurrenceCount
    BY <2>2 DEF ClosedRow, Row
  <2>4. c.step = "logClosed" /\ c.id = b /\ Goto(p, c)
    BY <2>1, <2>2 DEF Call
  <2>5. \A a \in AlertId : /\ alerts'[a] = IF a = b THEN r ELSE alerts[a]
                           /\ closings'[a] = IF a = b THEN closings[a] + 1 ELSE closings[a]
    BY <2>1, <2>2 DEF TypeInv, TypeOK
  <2> HIDE DEF c, r
  <2>6. ASSUME NEW a \in AlertId, ~Gone(a)' PROVE Logged(a)'
    <3>1. ~Gone(a)
      BY <2>1, <2>5, <2>6 DEF Gone
    <3>2. Logged(a)
      BY <3>1 DEF LogInv
    <3>3. /\ Lost(a, "logClosed") <= Lost(a, "logClosed")'
          /\ Lost(a, "logReopened") <= Lost(a, "logReopened")'
          /\ a = b => Lost(a, "logClosed") + 1 = Lost(a, "logClosed")'
      BY <1>1, <2>1, <2>4, LostMoves
    <3>4. /\ Lost(a, "logClosed") \in Nat /\ Lost(a, "logReopened") \in Nat
          /\ Lost(a, "logClosed")' \in Nat /\ Lost(a, "logReopened")' \in Nat
      BY LostCounts, LostCountsNext
    <3>5. /\ closings[a] \in Nat /\ alerts[a].occurrenceCount \in Nat
          /\ events[a]["CLOSED"] \in Nat /\ events[a]["REOPENED"] \in Nat
      BY CountersTyped DEF Action
    <3>6. alerts'[a].occurrenceCount = alerts[a].occurrenceCount
      BY <2>3, <2>5
    <3>7. closings'[a] <= events'[a]["CLOSED"] + Lost(a, "logClosed")'
      BY <2>1, <2>5, <3>2, <3>3, <3>4, <3>5 DEF Logged
    <3>8. alerts'[a].occurrenceCount <= 1 + events'[a]["REOPENED"] + Lost(a, "logReopened")'
      BY <2>1, <3>2, <3>3, <3>4, <3>5, <3>6 DEF Logged
    <3> QED BY <3>7, <3>8 DEF Logged
  <2> QED BY <2>6 DEF LogInv
<1> QED BY <1>2, <1>3

\* The event of a transition takes the place of the slot that was about to log it.
LEMMA EventKeepsLog ==
    ASSUME TypeInv, TypeInv', LogInv, NEW p \in Slots, NEW c, Goto(p, c),
           NEW k \in {"CLOSED", "REOPENED"}, calls[p].id \in AlertId, Log(calls[p].id, k),
           calls[p].step = IF k = "CLOSED" THEN "logClosed" ELSE "logReopened",
           UNCHANGED <<alerts, crashes, closings>>
    PROVE  LogInv'
<1>1. SUFFICES ASSUME NEW a \in AlertId, ~Gone(a)' PROVE Logged(a)'
  BY DEF LogInv
<1>2. Logged(a)
  BY <1>1 DEF LogInv, Gone
<1>3. \A j \in Action : events'[a][j] = IF a = calls[p].id /\ j = k THEN events[a][j] + 1
                                        ELSE events[a][j]
  BY LogAdds DEF Action
<1>4. /\ Lost(a, "logClosed") <= IF a = calls[p].id /\ k = "CLOSED"
                                   THEN Lost(a, "logClosed")' + 1 ELSE Lost(a, "logClosed")'
      /\ Lost(a, "logReopened") <= IF a = calls[p].id /\ k = "REOPENED"
                                     THEN Lost(a, "logReopened")' + 1 ELSE Lost(a, "logReopened")'
  BY LostMoves
<1>5. /\ Lost(a, "logClosed") \in Nat /\ Lost(a, "logReopened") \in Nat
      /\ Lost(a, "logClosed")' \in Nat /\ Lost(a, "logReopened")' \in Nat
  BY LostCounts, LostCountsNext
<1>6. /\ closings[a] \in Nat /\ alerts[a].occurrenceCount \in Nat
      /\ events[a]["CLOSED"] \in Nat /\ events[a]["REOPENED"] \in Nat
  BY CountersTyped DEF Action
<1>7. closings'[a] <= events'[a]["CLOSED"] + Lost(a, "logClosed")'
  BY <1>2, <1>3, <1>4, <1>5, <1>6 DEF Logged, Action
<1>8. alerts'[a].occurrenceCount <= 1 + events'[a]["REOPENED"] + Lost(a, "logReopened")'
  BY <1>2, <1>3, <1>4, <1>5, <1>6 DEF Logged, Action
<1> QED BY <1>7, <1>8 DEF Logged

LEMMA LogReopenedKeepsLog ==
    ASSUME TypeInv, TypeInv', LogInv, NEW p \in Slots, LogReopened(p) PROVE LogInv'
<1>1. calls[p].step = "logReopened" /\ calls[p].id \in AlertId
  BY DEF LogReopened, At, TypeInv, CallsHoldRows, HoldsRow, RowSteps
<1>2. CASE Gone(calls[p].id) /\ Throw(p)
  BY <1>2, ThrowQuiet, QuietKeepsLog
<1>3. CASE ~(Gone(calls[p].id) /\ Throw(p))
  BY <1>1, <1>3, EventKeepsLog DEF LogReopened, Return
<1> QED BY <1>2, <1>3

LEMMA LogClosedKeepsLog ==
    ASSUME TypeInv, TypeInv', LogInv, NEW p \in Slots, LogClosed(p) PROVE LogInv'
<1>1. calls[p].step = "logClosed" /\ calls[p].id \in AlertId
  BY DEF LogClosed, At, TypeInv, CallsHoldRows, HoldsRow, RowSteps
<1>2. CASE Gone(calls[p].id) /\ Throw(p)
  BY <1>2, ThrowQuiet, QuietKeepsLog
<1>3. CASE ~(Gone(calls[p].id) /\ Throw(p))
  <2>1. /\ Log(calls[p].id, "CLOSED") /\ UNCHANGED <<alerts, crashes, closings>>
        /\ \E c : Goto(p, c)
    BY <1>3 DEF LogClosed, Return
  <2> QED BY <1>1, <2>1, EventKeepsLog
<1> QED BY <1>2, <1>3

\* A restart cuts off each slot at most once.
LEMMA CrashKeepsLog ==
    ASSUME TypeInv, TypeInv', LogInv, Crash PROVE LogInv'
<1>1. SUFFICES ASSUME NEW a \in AlertId, ~Gone(a)' PROVE Logged(a)'
  BY DEF LogInv
<1>2. Logged(a) /\ UNCHANGED <<alerts, events, closings>> /\ crashes' = crashes + 1
  BY <1>1 DEF LogInv, Gone, Crash
<1>3. ASSUME NEW s PROVE Lost(a, s) <= Lost(a, s)'
  <2> DEFINE k == Cardinality(Slots)
             m == Cardinality(Writers(a, s))'
  <2>1. crashes \in Nat /\ k \in Nat /\ Cardinality(Writers(a, s)) \in Nat
        /\ Cardinality(Writers(a, s)) <= k /\ crashes * k \in Nat
    BY LostCounts
  <2>2. m \in Nat
    <3>1. Writers(a, s)' \in SUBSET Slots
      BY DEF Writers
    <3> QED BY <3>1, SlotsAssumption, FS_Subset, FS_CardinalityType
  <2>3. \A i, j \in Nat : (i + 1) * j = i * j + j
    OBVIOUS
  <2>4. (crashes + 1) * k = crashes * k + k
    BY <2>1, <2>3
  <2>5. Lost(a, s)' = m + (crashes + 1) * k
    BY <1>2 DEF Lost
  <2>6. Lost(a, s) = Cardinality(Writers(a, s)) + crashes * k
    BY DEF Lost
  <2> HIDE DEF k, m
  <2> QED BY <2>1, <2>2, <2>4, <2>5, <2>6
<1>4. /\ Lost(a, "logClosed") \in Nat /\ Lost(a, "logReopened") \in Nat
      /\ Lost(a, "logClosed")' \in Nat /\ Lost(a, "logReopened")' \in Nat
  BY LostCounts, LostCountsNext
<1>5. /\ closings[a] \in Nat /\ alerts[a].occurrenceCount \in Nat
      /\ events[a]["CLOSED"] \in Nat /\ events[a]["REOPENED"] \in Nat
  BY CountersTyped DEF Action
<1> QED BY <1>2, <1>3, <1>4, <1>5 DEF Logged

LEMMA NextLogInv == TypeInv /\ LogInv /\ [Next]_vars => LogInv'
<1> SUFFICES ASSUME TypeInv, LogInv, [Next]_vars PROVE LogInv'
  OBVIOUS
<1>1. TypeInv'
  BY NextTypeInv
<1>2. CASE UNCHANGED <<alerts, events, calls, crashes, closings>>
  <2>1. SUFFICES ASSUME NEW a \in AlertId, ~Gone(a)' PROVE Logged(a)'
    BY DEF LogInv
  <2>2. /\ Writers(a, "logClosed")' = Writers(a, "logClosed")
        /\ Writers(a, "logReopened")' = Writers(a, "logReopened")
    BY <1>2 DEF Writers, At
  <2> QED BY <1>2, <2>1, <2>2 DEF LogInv, Logged, Lost, Gone
<1>3. ASSUME NEW p \in Slots, BeginCall(p) PROVE LogInv'
  BY <1>1, <1>3, BeginQuiet, QuietKeepsLog
<1>4. ASSUME NEW p \in Slots, Continue(p) PROVE LogInv'
  <2>1. CASE Quiet(p) /\ \E c : Goto(p, c)
    BY <1>1, <2>1, QuietKeepsLog
  <2> QED BY <1>1, <1>4, <2>1, FindQuiet, LogQuiet, RefreshQuiet, InsertQuiet, AcknowledgeQuiet,
             DeleteRowQuiet, ReopenKeepsLog, CloseKeepsLog, LogReopenedKeepsLog, LogClosedKeepsLog
          DEF Continue
<1> QED BY <1>1, <1>2, <1>3, <1>4, CrashKeepsLog DEF Next, Tick, vars

LEMMA InitLogInv == Init => LogInv
<1> SUFFICES ASSUME Init, NEW a \in AlertId PROVE Logged(a)
  BY DEF LogInv
<1>1. TypeInv
  BY InitTypeInv
<1>2. PICK f \in Fingerprint : alerts[a] \in InitialRow(f)
  BY DEF Init
<1>3. alerts[a].occurrenceCount <= 1
  BY <1>2 DEF InitialRow, UnusedRow
<1>4. closings[a] = 0 /\ events[a]["CLOSED"] = 0 /\ events[a]["REOPENED"] = 0
  BY DEF Init, Action
<1>5. Lost(a, "logClosed") \in Nat /\ Lost(a, "logReopened") \in Nat
  BY <1>1, LostCounts
<1>6. alerts[a].occurrenceCount \in Nat
  BY <1>1, CountersTyped
<1> QED BY <1>3, <1>4, <1>5, <1>6 DEF Logged

\* The history of an alert misses no transition but those a restart cut off, one
\* per slot and restart, whatever slots race on the row: no close is without its
\* CLOSED event for longer than the slot that wrote it takes, and no occurrence
\* without its REOPENED event.
THEOREM EveryTransitionLogged == Spec => []TransitionsLogged
<1>1. Init => TypeInv /\ LogInv
  BY InitTypeInv, InitLogInv
<1>2. TypeInv /\ LogInv /\ [Next]_vars => (TypeInv /\ LogInv)'
  BY NextTypeInv, NextLogInv
<1>3. LogInv => TransitionsLogged
  BY DEF LogInv, Logged, Lost, TransitionsLogged, Gone, IsStored, Stored, OpenStatus
<1> QED BY <1>1, <1>2, <1>3, PTL DEF Spec

-----------------------------------------------------------------------------
(* One call at a time.  What a call read still holds when it writes, so the  *)
(* rows behave as incidents.                                                 *)

Serial == \A p, q \in Slots : p = q

\* What a call in hand knows of the rows, none of which another call writes.
Knows(c) ==
    /\ c.step \in {"findOpen", "findClosed", "insert"} => \E f \in Fingerprint : c.where = {f}
    /\ c.step = "refresh" =>
          /\ IsOpen(c.id)
          /\ c.keepAck = (alerts[c.id].status = "ACTIVE" /\ alerts[c.id].acknowledged)
    /\ c.step = "findClosed" => Open(Matching(c.where)) = {}
    /\ c.step = "reopen" =>
          alerts[c.id].status = "CLOSED" /\ ~Sticks(alerts[c.id], c.since)
    /\ c.step = "insert" => Matching(c.where) = {}
    /\ c.step \in {"write", "logClosed"} => \A a \in c.todo : IsOpen(a)
    /\ c.step = "write" /\ c.kind = "acknowledge" => IsOpen(c.id)

SerialInv == OneHashedRowEach /\ \A p \in Slots : Knows(calls[p])

Silent(a) == alerts[a].status = "ACTIVE" /\ alerts[a].acknowledged

\* The rows of a fingerprint are none, or one that says what the incident is.
ViewIs ==
    \A f \in Fingerprint :
       /\ RowsOf(f) = {} => PhaseOf(f) = "none" /\ SilencedOf(f) = FALSE /\ OccurrencesOf(f) = 0
       /\ OneHashedRowEach => \A a \in RowsOf(f) :
             /\ PhaseOf(f) = IF IsOpen(a) THEN "open" ELSE "closed"
             /\ SilencedOf(f) = Silent(a)
             /\ OccurrencesOf(f) = alerts[a].occurrenceCount

LEMMA View == ViewIs
<1> SUFFICES ASSUME NEW f \in Fingerprint
             PROVE  /\ RowsOf(f) = {} => /\ PhaseOf(f) = "none" /\ SilencedOf(f) = FALSE
                                         /\ OccurrencesOf(f) = 0
                    /\ OneHashedRowEach => \A a \in RowsOf(f) :
                          /\ PhaseOf(f) = IF IsOpen(a) THEN "open" ELSE "closed"
                          /\ SilencedOf(f) = Silent(a)
                          /\ OccurrencesOf(f) = alerts[a].occurrenceCount
  BY DEF ViewIs
<1>1. RowsOf(f) = {} => PhaseOf(f) = "none" /\ SilencedOf(f) = FALSE /\ OccurrencesOf(f) = 0
  <2> SUFFICES ASSUME RowsOf(f) = {}
               PROVE  PhaseOf(f) = "none" /\ SilencedOf(f) = FALSE /\ OccurrencesOf(f) = 0
    OBVIOUS
  <2>1. Open(RowsOf(f)) = {}
    BY DEF Open
  <2>2. PhaseOf(f) = "none"
    BY <2>1 DEF PhaseOf
  <2>3. SilencedOf(f) = FALSE
    BY DEF SilencedOf
  <2>4. OccurrencesOf(f) = 0
    BY DEF OccurrencesOf
  <2> QED BY <2>2, <2>3, <2>4
<1>2. ASSUME OneHashedRowEach, NEW a \in RowsOf(f)
      PROVE  /\ PhaseOf(f) = IF IsOpen(a) THEN "open" ELSE "closed"
             /\ SilencedOf(f) = Silent(a)
             /\ OccurrencesOf(f) = alerts[a].occurrenceCount
  <2>1. RowsOf(f) = {a}
    BY <1>2 DEF RowsOf, Matching, OneHashedRowEach
  <2>2. PhaseOf(f) = IF IsOpen(a) THEN "open" ELSE "closed"
    BY <2>1 DEF PhaseOf, Open
  <2>3. SilencedOf(f) = Silent(a)
    BY <2>1 DEF SilencedOf, Silent
  <2>4. (CHOOSE b \in RowsOf(f) : TRUE) = a
    BY <2>1
  <2>5. OccurrencesOf(f) = alerts[a].occurrenceCount
    BY <2>1, <2>4 DEF OccurrencesOf
  <2> QED BY <2>2, <2>3, <2>5
<1> QED BY <1>1, <1>2

LEMMA ViewNext == ViewIs'
<1>1. ViewIs
  BY View
<1> QED BY <1>1, PTL

Same(g) ==
    /\ PhaseOf(g)' = PhaseOf(g)
    /\ SilencedOf(g)' = SilencedOf(g)
    /\ OccurrencesOf(g)' = OccurrencesOf(g)

\* An incident whose rows say the same is the same.
LEMMA SameView ==
    ASSUME OneHashedRowEach, OneHashedRowEach', NEW g \in Fingerprint, RowsOf(g)' = RowsOf(g),
           \A b \in RowsOf(g) : /\ IsOpen(b)' <=> IsOpen(b)
                                /\ Silent(b)' <=> Silent(b)
                                /\ alerts'[b].occurrenceCount = alerts[b].occurrenceCount
    PROVE  Same(g)
<1>1. CASE RowsOf(g) = {}
  BY <1>1, View, ViewNext DEF ViewIs, Same
<1>2. ASSUME NEW b \in RowsOf(g) PROVE Same(g)
  <2>1. /\ PhaseOf(g) = IF IsOpen(b) THEN "open" ELSE "closed"
        /\ SilencedOf(g) = Silent(b) /\ OccurrencesOf(g) = alerts[b].occurrenceCount
    BY <1>2, View DEF ViewIs
  <2>2. /\ PhaseOf(g)' = IF IsOpen(b)' THEN "open" ELSE "closed"
        /\ SilencedOf(g)' = Silent(b)' /\ OccurrencesOf(g)' = alerts'[b].occurrenceCount
    BY <1>2, ViewNext DEF ViewIs
  <2>3. Silent(b)' = Silent(b)
    BY DEF Silent
  <2> QED BY <2>1, <2>2, <2>3 DEF Same
<1> QED BY <1>1, <1>2

-----------------------------------------------------------------------------
(* Steps of incidents *)

Fits == [Incidents!IncidentNext]_(Incidents!incidentVars)

LEMMA FitsSame == ASSUME \A g \in Fingerprint : Same(g) PROVE Fits
  BY DEF Fits, Same, Incidents!incidentVars

LEMMA FitsOccur ==
    ASSUME NEW f \in Fingerprint, \A g \in Fingerprint \ {f} : Same(g),
           PhaseOf(f) # "open", PhaseOf(f)' = "open", SilencedOf(f)' = SilencedOf(f),
           OccurrencesOf(f)' = OccurrencesOf(f) + 1
    PROVE  Fits
<1>1. Incidents!Occur(f)
  BY DEF Incidents!Occur, Same
<1> QED BY <1>1 DEF Fits, Incidents!IncidentNext

LEMMA FitsSilence ==
    ASSUME NEW f \in Fingerprint, \A g \in Fingerprint \ {f} : Same(g),
           PhaseOf(f) = "open", PhaseOf(f)' = "open", SilencedOf(f)' = TRUE,
           OccurrencesOf(f)' = OccurrencesOf(f)
    PROVE  Fits
<1>1. Incidents!Silence(f)
  BY DEF Incidents!Silence, Same
<1> QED BY <1>1 DEF Fits, Incidents!IncidentNext

LEMMA FitsClear ==
    ASSUME NEW f \in Fingerprint, \A g \in Fingerprint \ {f} : Same(g),
           PhaseOf(f) = "open", PhaseOf(f)' = "closed", SilencedOf(f)' = FALSE,
           OccurrencesOf(f)' = OccurrencesOf(f)
    PROVE  Fits
<1>1. Incidents!Clear(f)
  BY DEF Incidents!Clear, Same
<1> QED BY <1>1 DEF Fits, Incidents!IncidentNext

LEMMA FitsForget ==
    ASSUME NEW f \in Fingerprint, \A g \in Fingerprint \ {f} : Same(g),
           PhaseOf(f) # "none", PhaseOf(f)' = "none", SilencedOf(f)' = FALSE,
           OccurrencesOf(f)' = 0
    PROVE  Fits
<1>1. Incidents!Forget(f)
  BY DEF Incidents!Forget, Same
<1> QED BY <1>1 DEF Fits, Incidents!IncidentNext

\* Nothing is written.
LEMMA TableKeeps ==
    ASSUME OneHashedRowEach, alerts' = alerts PROVE OneHashedRowEach' /\ Fits
<1>1. OneHashedRowEach'
  BY DEF OneHashedRowEach, IsStored
<1>2. ASSUME NEW g \in Fingerprint PROVE Same(g)
  <2>1. RowsOf(g)' = RowsOf(g)
    BY DEF RowsOf, Matching, IsStored
  <2>2. \A b \in RowsOf(g) : /\ IsOpen(b)' <=> IsOpen(b)
                             /\ Silent(b)' <=> Silent(b)
                             /\ alerts'[b].occurrenceCount = alerts[b].occurrenceCount
    BY DEF IsOpen, Silent
  <2> QED BY <1>1, <2>1, <2>2, SameView
<1> QED BY <1>1, <1>2, FitsSame

\* What a write may do to a row that is stored: keep what it says, open it again,
\* silence it, close it, remove it.
Renews(a, r)  == IsOpen(a) /\ r.status = "ACTIVE" /\ (r.acknowledged <=> Silent(a))
                   /\ r.occurrenceCount = alerts[a].occurrenceCount
Reopens(a, r) == alerts[a].status = "CLOSED" /\ r.status = "ACTIVE" /\ ~r.acknowledged
                   /\ r.occurrenceCount = alerts[a].occurrenceCount + 1
Silences(a, r) == IsOpen(a) /\ r.status = "ACTIVE" /\ r.acknowledged
                   /\ r.occurrenceCount = alerts[a].occurrenceCount
Closes(a, r)  == IsOpen(a) /\ r.status = "CLOSED"
                   /\ r.occurrenceCount = alerts[a].occurrenceCount
Removes(a, r) == r.status = "DELETED"

\* A row that is no row of an incident does not show in it.
LEMMA OthersSame ==
    ASSUME TypeInv, OneHashedRowEach, OneHashedRowEach', NEW a \in AlertId, NEW r,
           alerts' = [alerts EXCEPT ![a] = r],
           NEW g \in Fingerprint, a \notin RowsOf(g), a \notin RowsOf(g)'
    PROVE  Same(g)
<1>1. \A b \in AlertId : b # a => alerts'[b] = alerts[b]
  BY DEF TypeInv, TypeOK
<1>2. RowsOf(g)' = RowsOf(g)
  BY <1>1 DEF RowsOf, Matching, IsStored
<1>3. \A b \in RowsOf(g) : b \in AlertId /\ b # a
  BY DEF RowsOf, Matching
<1>4. \A b \in RowsOf(g) : /\ IsOpen(b)' <=> IsOpen(b)
                           /\ Silent(b)' <=> Silent(b)
                           /\ alerts'[b].occurrenceCount = alerts[b].occurrenceCount
  BY <1>1, <1>3 DEF IsOpen, Silent
<1> QED BY <1>2, <1>4, SameView

LEMMA RowFits ==
    ASSUME TypeInv, OneHashedRowEach, NEW a \in AlertId, IsStored(a), NEW r \in Row,
           alerts' = [alerts EXCEPT ![a] = r],
           r.fp = alerts[a].fp, r.hashed = alerts[a].hashed,
           Renews(a, r) \/ Reopens(a, r) \/ Silences(a, r) \/ Closes(a, r) \/ Removes(a, r)
    PROVE  OneHashedRowEach' /\ Fits
<1>0. PICK f \in Fingerprint : f = alerts[a].fp
  BY DEF TypeInv, TypeOK, Row
<1>1. \A b \in AlertId : alerts'[b] = IF b = a THEN r ELSE alerts[b]
  BY DEF TypeInv, TypeOK
<1>2. alerts[a] \in Row
  BY DEF TypeInv, TypeOK
<1>3. \A b \in AlertId : /\ IsStored(b)' => IsStored(b)
                         /\ alerts'[b].fp = alerts[b].fp /\ alerts'[b].hashed = alerts[b].hashed
  BY <1>1 DEF IsStored
<1>4. OneHashedRowEach'
  BY <1>3 DEF OneHashedRowEach
<1>5. \A g \in Fingerprint : g # f \/ ~alerts[a].hashed =>
         a \notin RowsOf(g) /\ a \notin RowsOf(g)'
  BY <1>0, <1>3 DEF RowsOf, Matching
<1>6. \A g \in Fingerprint : g # f \/ ~alerts[a].hashed => Same(g)
  BY <1>4, <1>5, OthersSame
<1>7. CASE ~alerts[a].hashed
  BY <1>4, <1>6, <1>7, FitsSame
<1>8. CASE alerts[a].hashed
  <2>1. a \in RowsOf(f)
    BY <1>0, <1>8 DEF RowsOf, Matching
  <2>2. \A g \in Fingerprint \ {f} : Same(g)
    BY <1>6
  <2>3. /\ PhaseOf(f) = IF IsOpen(a) THEN "open" ELSE "closed"
        /\ SilencedOf(f) = Silent(a) /\ OccurrencesOf(f) = alerts[a].occurrenceCount
    BY <1>2, <2>1, View DEF ViewIs
  <2>4. CASE Removes(a, r)
    <3>1. RowsOf(f)' = {}
      <4> SUFFICES ASSUME NEW b \in RowsOf(f)' PROVE FALSE
        OBVIOUS
      <4>1. b \in RowsOf(f) /\ b # a
        BY <1>1, <1>3, <2>4 DEF RowsOf, Matching, Removes, IsStored, Stored, OpenStatus
      <4> QED BY <2>1, <4>1 DEF RowsOf, Matching, OneHashedRowEach
    <3>2. PhaseOf(f)' = "none" /\ SilencedOf(f)' = FALSE /\ OccurrencesOf(f)' = 0
      BY <1>2, <3>1, ViewNext DEF ViewIs
    <3>3. PhaseOf(f) # "none"
      BY <2>3
    <3> QED BY <1>2, <1>4, <2>2, <3>2, <3>3, FitsForget
  <2>5. CASE ~Removes(a, r)
    <3>1. a \in RowsOf(f)'
      BY <1>0, <1>1, <1>8, <2>5 DEF RowsOf, Matching, Removes, Renews, Reopens, Silences, Closes,
                               IsStored, Stored, OpenStatus
    <3>2. /\ PhaseOf(f)' = IF IsOpen(a)' THEN "open" ELSE "closed"
          /\ SilencedOf(f)' = Silent(a)' /\ OccurrencesOf(f)' = r.occurrenceCount
      BY <1>1, <1>2, <1>4, <3>1, ViewNext DEF ViewIs
    <3>3. /\ IsOpen(a)' <=> r.status \in OpenStatus
          /\ Silent(a)' = (r.status = "ACTIVE" /\ r.acknowledged)
      BY <1>1 DEF IsOpen, Silent
    <3>4. CASE Renews(a, r)
      <4>1. Silent(a)' = Silent(a) /\ IsOpen(a)' /\ IsOpen(a)
        BY <3>3, <3>4 DEF Renews, OpenStatus, Silent
      <4>2. Same(f)
        BY <2>3, <3>2, <3>4, <4>1 DEF Same, Renews
      <4> QED BY <1>4, <2>2, <4>2, FitsSame
    <3>5. CASE Reopens(a, r)
      <4>1. ~IsOpen(a) /\ IsOpen(a)' /\ Silent(a) = FALSE /\ Silent(a)' = FALSE
        BY <3>3, <3>5 DEF Reopens, OpenStatus, IsOpen, Silent
      <4>2. /\ PhaseOf(f) # "open" /\ PhaseOf(f)' = "open" /\ SilencedOf(f)' = SilencedOf(f)
            /\ OccurrencesOf(f)' = OccurrencesOf(f) + 1
        BY <2>3, <3>2, <3>5, <4>1 DEF Reopens
      <4> QED BY <1>2, <1>4, <2>2, <4>2, FitsOccur
    <3>6. CASE Silences(a, r)
      <4>1. IsOpen(a) /\ IsOpen(a)' /\ Silent(a)' = TRUE
        BY <3>3, <3>6 DEF Silences, OpenStatus
      <4>2. /\ PhaseOf(f) = "open" /\ PhaseOf(f)' = "open" /\ SilencedOf(f)' = TRUE
            /\ OccurrencesOf(f)' = OccurrencesOf(f)
        BY <2>3, <3>2, <3>6, <4>1 DEF Silences
      <4> QED BY <1>2, <1>4, <2>2, <4>2, FitsSilence
    <3>7. CASE Closes(a, r)
      <4>1. IsOpen(a) /\ ~IsOpen(a)' /\ Silent(a)' = FALSE
        BY <3>3, <3>7 DEF Closes, OpenStatus
      <4>2. /\ PhaseOf(f) = "open" /\ PhaseOf(f)' = "closed" /\ SilencedOf(f)' = FALSE
            /\ OccurrencesOf(f)' = OccurrencesOf(f)
        BY <2>3, <3>2, <3>7, <4>1 DEF Closes
      <4> QED BY <1>2, <1>4, <2>2, <4>2, FitsClear
    <3> QED BY <2>5, <3>4, <3>5, <3>6, <3>7
  <2> QED BY <2>4, <2>5
<1> QED BY <1>7, <1>8

\* A first occurrence.
LEMMA InsertFits ==
    ASSUME TypeInv, OneHashedRowEach, NEW a \in AlertId, alerts[a].status = "UNUSED",
           NEW f \in Fingerprint, Matching({f}) = {}, NEW r,
           alerts' = [alerts EXCEPT ![a] = r], r.fp = f, r.hashed, r.status = "ACTIVE",
           ~r.acknowledged, r.occurrenceCount = 1
    PROVE  OneHashedRowEach' /\ Fits
<1>1. \A b \in AlertId : alerts'[b] = IF b = a THEN r ELSE alerts[b]
  BY DEF TypeInv, TypeOK
<1>2. ~IsStored(a) /\ IsStored(a)'
  BY <1>1 DEF IsStored, Stored, OpenStatus
<1>3. ASSUME NEW b \in AlertId, b # a, IsStored(b)', alerts'[b].hashed PROVE alerts'[b].fp # f
  BY <1>1, <1>3 DEF Matching, IsStored
<1>4. OneHashedRowEach'
  <2> SUFFICES ASSUME NEW b \in AlertId, NEW d \in AlertId, IsStored(b)', IsStored(d)',
                      alerts'[b].hashed, alerts'[d].hashed, alerts'[b].fp = alerts'[d].fp, b # d
               PROVE  FALSE
    BY DEF OneHashedRowEach
  <2>1. CASE b = a \/ d = a
    BY <1>1, <1>3, <2>1
  <2>2. CASE b # a /\ d # a
    BY <1>1, <2>2 DEF OneHashedRowEach, IsStored
  <2> QED BY <2>1, <2>2
<1>5. \A g \in Fingerprint \ {f} : Same(g)
  <2>1. \A g \in Fingerprint \ {f} : a \notin RowsOf(g) /\ a \notin RowsOf(g)'
    BY <1>1, <1>2 DEF RowsOf, Matching
  <2> QED BY <1>4, <2>1, OthersSame
<1>6. PhaseOf(f) = "none" /\ SilencedOf(f) = FALSE /\ OccurrencesOf(f) = 0
  BY View DEF ViewIs, RowsOf
<1>7. a \in RowsOf(f)'
  BY <1>1, <1>2 DEF RowsOf, Matching
<1>8. /\ PhaseOf(f)' = IF IsOpen(a)' THEN "open" ELSE "closed"
      /\ SilencedOf(f)' = Silent(a)' /\ OccurrencesOf(f)' = 1
  BY <1>1, <1>4, <1>7, ViewNext DEF ViewIs
<1>9. IsOpen(a)' /\ Silent(a)' = FALSE
  BY <1>1 DEF IsOpen, Silent, OpenStatus
<1>10. PhaseOf(f) # "open" /\ PhaseOf(f)' = "open" /\ SilencedOf(f)' = SilencedOf(f)
  BY <1>6, <1>8, <1>9
<1>11. OccurrencesOf(f)' = OccurrencesOf(f) + 1
  BY <1>6, <1>8
<1> QED BY <1>4, <1>5, <1>10, <1>11, FitsOccur

\* The first write of the migration takes the legacy status of acknowledged rows,
\* which silenced nothing.
LEMMA MigrateFits ==
    ASSUME TypeInv, OneHashedRowEach, NEW p \in Slots, MigrateBegin(p)
    PROVE  OneHashedRowEach' /\ Fits
<1>1. \A a \in AlertId : alerts'[a] =
        IF alerts[a].status = "ACKNOWLEDGED"
          THEN [alerts[a] EXCEPT !.status = "ACTIVE", !.acknowledged = FALSE] ELSE alerts[a]
  BY DEF MigrateBegin
<1>2. ASSUME NEW a \in AlertId
      PROVE  /\ IsStored(a)' <=> IsStored(a)
             /\ IsOpen(a)' <=> IsOpen(a)
             /\ Silent(a)' <=> Silent(a)
             /\ alerts'[a].hashed = alerts[a].hashed /\ alerts'[a].fp = alerts[a].fp
             /\ alerts'[a].occurrenceCount = alerts[a].occurrenceCount
  <2>1. alerts[a] \in Row
    BY DEF TypeInv, TypeOK
  <2>2. CASE alerts[a].status = "ACKNOWLEDGED"
    <3>1. alerts'[a] = [alerts[a] EXCEPT !.status = "ACTIVE", !.acknowledged = FALSE]
      BY <1>1, <2>2
    <3>2. /\ alerts'[a].status = "ACTIVE" /\ alerts'[a].acknowledged = FALSE
          /\ alerts'[a].hashed = alerts[a].hashed /\ alerts'[a].fp = alerts[a].fp
          /\ alerts'[a].occurrenceCount = alerts[a].occurrenceCount
      BY <2>1, <3>1 DEF Row
    <3> QED BY <2>2, <3>2 DEF IsStored, IsOpen, Silent, Stored, OpenStatus
  <2>3. CASE alerts[a].status # "ACKNOWLEDGED"
    BY <1>1, <2>3 DEF IsStored, IsOpen, Silent
  <2> QED BY <2>2, <2>3
<1>3. OneHashedRowEach'
  BY <1>2 DEF OneHashedRowEach
<1>4. ASSUME NEW g \in Fingerprint PROVE Same(g)
  <2>1. RowsOf(g)' = RowsOf(g) /\ RowsOf(g) \subseteq AlertId
    BY <1>2 DEF RowsOf, Matching
  <2>2. \A b \in RowsOf(g) : /\ IsOpen(b)' <=> IsOpen(b)
                             /\ Silent(b)' <=> Silent(b)
                             /\ alerts'[b].occurrenceCount = alerts[b].occurrenceCount
    BY <1>2, <2>1
  <2> QED BY <1>3, <2>1, <2>2, SameView
<1> QED BY <1>3, <1>4, FitsSame

-----------------------------------------------------------------------------
(* The steps of the call in hand *)

\* What a call that has begun, or moved on, has to know.
LEMMA OneCall ==
    ASSUME Serial, TypeInv, NEW p \in Slots, NEW c, Goto(p, c)
    PROVE  \A q \in Slots : calls'[q] = c
  BY DEF Serial, Goto, TypeInv, TypeOK

\* Most steps need no knowledge.
LEMMA NothingToKnow ==
    ASSUME Serial, TypeInv, NEW p \in Slots, NEW c, Goto(p, c),
           c.step \notin {"findOpen", "findClosed", "insert", "refresh", "reopen", "write", "logClosed"}
    PROVE  \A q \in Slots : Knows(calls[q])'
  BY OneCall DEF Knows

LEMMA ReturnKnows ==
    ASSUME Serial, TypeInv, NEW p \in Slots, Return(p)
    PROVE  \A q \in Slots : Knows(calls[q])'
  BY NothingToKnow DEF Return, Idle

LEMMA ThrowSerial ==
    ASSUME Serial, TypeInv, SerialInv, NEW p \in Slots, Throw(p) PROVE SerialInv' /\ Fits
  BY ReturnKnows, TableKeeps DEF Throw, SerialInv

LEMMA BeginSerial ==
    ASSUME Serial, TypeInv, SerialInv, NEW p \in Slots, BeginCall(p) PROVE SerialInv' /\ Fits
<1>1. CASE MigrateBegin(p)
  <2>1. \A q \in Slots : Knows(calls[q])'
    BY <1>1, NothingToKnow DEF MigrateBegin, Idle
  <2> QED BY <1>1, <2>1, MigrateFits DEF SerialInv
<1>2. ASSUME NEW c, Begin(p, c), \A q \in Slots : Knows(calls[q])' PROVE SerialInv' /\ Fits
  BY <1>2, TableKeeps DEF Begin, SerialInv
<1>3. CASE RaiseBegin(p)
  <2>1. PICK f \in Fingerprint, since \in 0..now :
          Begin(p, [Idle EXCEPT !.step = "findOpen", !.kind = "raise", !.where = {f}, !.since = since])
    BY <1>3 DEF RaiseBegin
  <2> DEFINE c == [Idle EXCEPT !.step = "findOpen", !.kind = "raise", !.where = {f}, !.since = since]
  <2>2. c.step = "findOpen" /\ c.where = {f}
    BY DEF Idle
  <2>3. \A q \in Slots : calls'[q] = c
    BY <2>1, OneCall DEF Begin
  <2> HIDE DEF c
  <2>4. \A q \in Slots : Knows(calls[q])'
    BY <2>2, <2>3 DEF Knows
  <2> QED BY <1>2, <2>1, <2>4 DEF c
<1>4. CASE ResolveBegin(p) \/ AddNote(p) \/ DeleteBegin(p)
  <2>1. PICK c : Begin(p, c) /\ c.step \in {"find", "logNote"}
    <3>1. CASE ResolveBegin(p)
      <4>1. PICK F \in Wheres, k \in {"resolve", "disable", "autoClose"} :
              Begin(p, [Idle EXCEPT !.step = "find", !.kind = k, !.where = F])
        BY <3>1 DEF ResolveBegin
      <4>2. [Idle EXCEPT !.step = "find", !.kind = k, !.where = F].step = "find"
        BY DEF Idle
      <4> QED BY <4>1, <4>2
    <3>2. CASE AddNote(p)
      <4>1. PICK a \in AlertId :
              Begin(p, [Idle EXCEPT !.step = "logNote", !.kind = "note", !.id = a])
        BY <3>2 DEF AddNote
      <4>2. [Idle EXCEPT !.step = "logNote", !.kind = "note", !.id = a].step = "logNote"
        BY DEF Idle
      <4> QED BY <4>1, <4>2
    <3>3. CASE DeleteBegin(p)
      <4>1. PICK F \in Wheres :
              Begin(p, [Idle EXCEPT !.step = "find", !.kind = "delete", !.where = F])
        BY <3>3 DEF DeleteBegin
      <4>2. [Idle EXCEPT !.step = "find", !.kind = "delete", !.where = F].step = "find"
        BY DEF Idle
      <4> QED BY <4>1, <4>2
    <3> QED BY <1>4, <3>1, <3>2, <3>3
  <2>2. \A q \in Slots : Knows(calls[q])'
    BY <2>1, NothingToKnow DEF Begin
  <2> QED BY <1>2, <2>1, <2>2
<1>5. CASE CloseByHand(p)
  <2>1. PICK a \in AlertId : /\ IsOpen(a)
          /\ Begin(p, [Idle EXCEPT !.step = "write", !.kind = "close", !.todo = {a}, !.at = now])
    BY <1>5 DEF CloseByHand
  <2> DEFINE c == [Idle EXCEPT !.step = "write", !.kind = "close", !.todo = {a}, !.at = now]
  <2>2. c.step = "write" /\ c.kind = "close" /\ c.todo = {a}
    BY DEF Idle
  <2>3. (\A q \in Slots : calls'[q] = c) /\ alerts' = alerts
    BY <2>1, OneCall DEF Begin
  <2> HIDE DEF c
  <2>4. \A q \in Slots : Knows(calls[q])'
    BY <2>1, <2>2, <2>3 DEF Knows, IsOpen
  <2> QED BY <1>2, <2>1, <2>4 DEF c
<1>6. CASE AcknowledgeBegin(p)
  <2>1. PICK a \in AlertId : /\ IsOpen(a)
          /\ Begin(p, [Idle EXCEPT !.step = "write", !.kind = "acknowledge", !.id = a,
                                !.seen = closings[a]])
    BY <1>6 DEF AcknowledgeBegin
  <2> DEFINE c == [Idle EXCEPT !.step = "write", !.kind = "acknowledge", !.id = a,
                                !.seen = closings[a]]
  <2>2. c.step = "write" /\ c.id = a /\ c.todo = {}
    BY DEF Idle
  <2>3. (\A q \in Slots : calls'[q] = c) /\ alerts' = alerts
    BY <2>1, OneCall DEF Begin
  <2> HIDE DEF c
  <2>4. \A q \in Slots : Knows(calls[q])'
    BY <2>1, <2>2, <2>3 DEF Knows, IsOpen
  <2> QED BY <1>2, <2>1, <2>4 DEF c
<1> QED BY <1>1, <1>3, <1>4, <1>5, <1>6 DEF BeginCall

LEMMA FindOpenSerial ==
    ASSUME Serial, TypeInv, SerialInv, NEW p \in Slots, FindOpen(p) PROVE SerialInv' /\ Fits
<1>1. alerts' = alerts /\ calls[p] \in Call /\ calls[p].step = "findOpen"
  BY DEF FindOpen, At, TypeInv, TypeOK
<1>2. PICK f \in Fingerprint : calls[p].where = {f}
  BY <1>1 DEF SerialInv, Knows
<1>3. \A q \in Slots : Knows(calls[q])'
  <2>1. CASE /\ Open(Matching(calls[p].where)) = {}
             /\ Goto(p, [calls[p] EXCEPT !.step = "findClosed"])
    <3> DEFINE c == [calls[p] EXCEPT !.step = "findClosed"]
    <3>1. \A q \in Slots : calls'[q] = c
      BY <2>1, OneCall
    <3>2. c.step = "findClosed" /\ c.where = {f}
      BY <1>1, <1>2 DEF Call
    <3>3. Open(Matching({f}))' = {}
      BY <1>1, <1>2, <2>1 DEF Open, Matching, IsStored, IsOpen
    <3> SUFFICES ASSUME NEW q \in Slots PROVE Knows(calls[q])'
      OBVIOUS
    <3>4. calls'[q].step = "findClosed" /\ calls'[q].where = {f}
      BY <3>1, <3>2
    <3>5. Open(Matching(calls[q].where))' = {}
      BY <3>3, <3>4 DEF Open, Matching, IsStored, IsOpen
    <3> QED BY <3>4, <3>5 DEF Knows
  <2>2. ASSUME NEW a \in Open(Matching(calls[p].where)),
               Goto(p, [calls[p] EXCEPT
                          !.step = "refresh", !.id = a, !.seen = closings[a],
                          !.pending = alerts[a].status = "PENDING_CLOSE",
                          !.keepAck = alerts[a].status = "ACTIVE" /\ alerts[a].acknowledged])
        PROVE  \A q \in Slots : Knows(calls[q])'
    <3> DEFINE c == [calls[p] EXCEPT
                       !.step = "refresh", !.id = a, !.seen = closings[a],
                       !.pending = alerts[a].status = "PENDING_CLOSE",
                       !.keepAck = alerts[a].status = "ACTIVE" /\ alerts[a].acknowledged]
    <3>1. \A q \in Slots : calls'[q] = c
      BY <2>2, OneCall
    <3>2. /\ c.step = "refresh" /\ c.id = a
          /\ c.keepAck = (alerts[a].status = "ACTIVE" /\ alerts[a].acknowledged)
      BY <1>1 DEF Call
    <3>3. IsOpen(a)
      BY DEF Open
    <3> HIDE DEF c
    <3> QED BY <1>1, <3>1, <3>2, <3>3 DEF Knows, IsOpen
  <2> QED BY <2>1, <2>2 DEF FindOpen
<1> QED BY <1>1, <1>3, TableKeeps DEF SerialInv

LEMMA FindClosedSerial ==
    ASSUME Serial, TypeInv, SerialInv, NEW p \in Slots, FindClosed(p) PROVE SerialInv' /\ Fits
<1>1. alerts' = alerts /\ calls[p] \in Call /\ calls[p].step = "findClosed"
  BY DEF FindClosed, At, TypeInv, TypeOK
<1>2. PICK f \in Fingerprint : calls[p].where = {f}
  BY <1>1 DEF SerialInv, Knows
<1>3. Open(Matching({f})) = {}
  BY <1>1, <1>2 DEF SerialInv, Knows
<1>4. \A q \in Slots : Knows(calls[q])'
  <2>1. CASE /\ NewestClosed(calls[p].where) = {}
             /\ Goto(p, [calls[p] EXCEPT !.step = "insert"])
    <3> DEFINE c == [calls[p] EXCEPT !.step = "insert"]
    <3>1. \A q \in Slots : calls'[q] = c
      BY <2>1, OneCall
    <3>2. c.step = "insert" /\ c.where = {f}
      BY <1>1, <1>2 DEF Call
    <3>3. Matching({f}) = {}
      <4> SUFFICES ASSUME NEW a \in Matching({f}) PROVE FALSE
        OBVIOUS
      <4>1. Matching({f}) = {a}
        BY DEF Matching, SerialInv, OneHashedRowEach
      <4>2. alerts[a].closedAt <= alerts[a].closedAt
        <5>1. alerts[a].closedAt \in Nat
          BY BoundsAssumption DEF Matching, TypeInv, TypeOK, Row
        <5> QED BY <5>1
      <4> QED BY <1>2, <1>3, <2>1, <4>1, <4>2 DEF NewestClosed
    <3> SUFFICES ASSUME NEW q \in Slots PROVE Knows(calls[q])'
      OBVIOUS
    <3>4. calls'[q].step = "insert" /\ calls'[q].where = {f}
      BY <3>1, <3>2
    <3>5. Matching(calls[q].where)' = {}
      BY <1>1, <3>3, <3>4 DEF Matching, IsStored
    <3> QED BY <3>4, <3>5 DEF Knows
  <2>2. ASSUME NEW a \in NewestClosed(calls[p].where), ~Sticks(alerts[a], calls[p].since),
               Goto(p, [calls[p] EXCEPT !.step = "reopen", !.id = a, !.seen = closings[a]])
        PROVE  \A q \in Slots : Knows(calls[q])'
    <3> DEFINE c == [calls[p] EXCEPT !.step = "reopen", !.id = a, !.seen = closings[a]]
    <3>1. \A q \in Slots : calls'[q] = c
      BY <2>2, OneCall
    <3>2. c.step = "reopen" /\ c.id = a /\ c.since = calls[p].since
      BY <1>1 DEF Call
    <3>3. alerts[a].status = "CLOSED"
      BY DEF NewestClosed, Matching, Open, IsStored, IsOpen, Stored
    <3> HIDE DEF c
    <3> QED BY <1>1, <2>2, <3>1, <3>2, <3>3 DEF Knows
  <2> QED BY <2>1, <2>2, ReturnKnows DEF FindClosed
<1> QED BY <1>1, <1>4, TableKeeps DEF SerialInv

LEMMA RefreshSerial ==
    ASSUME Serial, TypeInv, SerialInv, NEW p \in Slots, Refresh(p) PROVE SerialInv' /\ Fits
<1>1. CASE Throw(p)
  BY <1>1, ThrowSerial
<1>2. CASE ~Throw(p)
  <2>1. PICK a : a = calls[p].id
    OBVIOUS
  <2> DEFINE r == RefreshedRow(alerts[a], calls[p].keepAck)
  <2>2. /\ a \in AlertId /\ alerts[a] \in Row /\ calls[p] \in Call
        /\ IsOpen(a) /\ calls[p].keepAck = (alerts[a].status = "ACTIVE" /\ alerts[a].acknowledged)
    BY <2>1 DEF Refresh, At, TypeInv, TypeOK, CallsHoldRows, HoldsRow, RowSteps, SerialInv, Knows
  <2>3. /\ alerts' = [alerts EXCEPT ![a] = r]
        /\ Goto(p, [calls[p] EXCEPT !.step = "logReopened"]) \/ Return(p)
    BY <1>2, <2>1 DEF Refresh
  <2>4. \A q \in Slots : Knows(calls[q])'
    <3>1. [calls[p] EXCEPT !.step = "logReopened"].step = "logReopened"
      BY <2>2 DEF Call
    <3> QED BY <2>3, <3>1, NothingToKnow, ReturnKnows
  <2>5. r \in Row /\ r.fp = alerts[a].fp /\ r.hashed = alerts[a].hashed /\ Renews(a, r)
    <3>1. calls[p].keepAck <=> Silent(a)
      BY <2>2 DEF Silent
    <3>2. r = [alerts[a] EXCEPT !.status = "ACTIVE",
                                !.acknowledged = IF calls[p].keepAck THEN alerts[a].acknowledged
                                                                     ELSE FALSE]
      BY <2>2 DEF RefreshedRow, Row
    <3>3. /\ r.status = "ACTIVE" /\ r.occurrenceCount = alerts[a].occurrenceCount
          /\ r.fp = alerts[a].fp /\ r.hashed = alerts[a].hashed /\ r \in Row
          /\ r.acknowledged = IF calls[p].keepAck THEN alerts[a].acknowledged ELSE FALSE
      BY <2>2, <3>2 DEF Row, Status, Stored, OpenStatus
    <3>4. r.acknowledged <=> Silent(a)
      BY <3>1, <3>3 DEF Silent
    <3> QED BY <2>2, <3>3, <3>4 DEF Renews
  <2>6. IsStored(a)
    BY <2>2 DEF IsStored, IsOpen, Stored
  <2> HIDE DEF r
  <2>7. OneHashedRowEach' /\ Fits
    BY <2>2, <2>3, <2>5, <2>6, RowFits DEF SerialInv
  <2> QED BY <2>4, <2>7 DEF SerialInv
<1> QED BY <1>1, <1>2

LEMMA ReopenSerial ==
    ASSUME Serial, TypeInv, SerialInv, NEW p \in Slots, Reopen(p) PROVE SerialInv' /\ Fits
<1>1. CASE Throw(p)
  BY <1>1, ThrowSerial
<1>2. CASE ~Throw(p)
  <2>1. PICK a : a = calls[p].id
    OBVIOUS
  <2> DEFINE r == ReopenedRow(alerts[a])
  <2>2. a \in AlertId /\ alerts[a] \in Row /\ calls[p] \in Call /\ alerts[a].status = "CLOSED"
    BY <2>1 DEF Reopen, At, TypeInv, TypeOK, CallsHoldRows, HoldsRow, RowSteps, SerialInv, Knows
  <2>3. /\ alerts' = [alerts EXCEPT ![a] = r]
        /\ Goto(p, [calls[p] EXCEPT !.step = "logReopened"])
    BY <1>2, <2>1 DEF Reopen
  <2>4. \A q \in Slots : Knows(calls[q])'
    <3>1. [calls[p] EXCEPT !.step = "logReopened"].step = "logReopened"
      BY <2>2 DEF Call
    <3> QED BY <2>3, <3>1, NothingToKnow
  <2>5. r \in Row /\ r.fp = alerts[a].fp /\ r.hashed = alerts[a].hashed /\ Reopens(a, r)
    <3>1. /\ r.status = "ACTIVE" /\ r.occurrenceCount = alerts[a].occurrenceCount + 1
          /\ r.fp = alerts[a].fp /\ r.hashed = alerts[a].hashed /\ r.acknowledged = FALSE
      BY <2>2 DEF Row, ReopenedRow
    <3>2. r \in Row
      <4>1. alerts[a].occurrenceCount + 1 \in Nat
        BY <2>2 DEF Row
      <4> QED BY <2>2, <4>1, FirstValues DEF Row, ReopenedRow
    <3> QED BY <2>2, <3>1, <3>2 DEF Reopens
  <2>6. IsStored(a)
    BY <2>2 DEF IsStored, Stored
  <2> HIDE DEF r
  <2>7. OneHashedRowEach' /\ Fits
    BY <2>2, <2>3, <2>5, <2>6, RowFits DEF SerialInv
  <2> QED BY <2>4, <2>7 DEF SerialInv
<1> QED BY <1>1, <1>2

LEMMA InsertSerial ==
    ASSUME Serial, TypeInv, SerialInv, NEW p \in Slots, Insert(p) PROVE SerialInv' /\ Fits
<1>1. calls[p] \in Call /\ calls[p].step = "insert" /\ Matching(calls[p].where) = {}
  BY DEF Insert, At, TypeInv, TypeOK, SerialInv, Knows
<1>2. PICK g \in Fingerprint : calls[p].where = {g}
  BY <1>1 DEF SerialInv, Knows
<1>3. PICK a \in AlertId, f \in calls[p].where :
        /\ alerts[a].status = "UNUSED"
        /\ alerts' = [alerts EXCEPT ![a] = [UnusedRow(f) EXCEPT !.status = "ACTIVE",
                                                                !.occurrenceCount = 1]]
        /\ Goto(p, [calls[p] EXCEPT !.step = "logCreated", !.id = a])
  BY DEF Insert
<1> DEFINE r == [UnusedRow(f) EXCEPT !.status = "ACTIVE", !.occurrenceCount = 1]
<1>4. f = g
  BY <1>2
<1>5. r.fp = f /\ r.hashed /\ r.status = "ACTIVE" /\ ~r.acknowledged /\ r.occurrenceCount = 1
  BY DEF UnusedRow
<1>6. alerts' = [alerts EXCEPT ![a] = r]
  BY <1>3
<1>7. \A q \in Slots : Knows(calls[q])'
  <2>1. [calls[p] EXCEPT !.step = "logCreated", !.id = a].step = "logCreated"
    BY <1>1 DEF Call
  <2> QED BY <1>3, <2>1, NothingToKnow
<1>8. Matching({f}) = {} /\ f \in Fingerprint
  BY <1>1, <1>2, <1>4
<1> HIDE DEF r
<1>9. OneHashedRowEach' /\ Fits
  BY <1>3, <1>5, <1>6, <1>8, InsertFits DEF SerialInv
<1> QED BY <1>7, <1>9 DEF SerialInv

LEMMA FindSerial ==
    ASSUME Serial, TypeInv, SerialInv, NEW p \in Slots,
           FindToClose(p) \/ FindPending(p) \/ FindToDelete(p)
    PROVE  SerialInv' /\ Fits
<1>1. alerts' = alerts /\ calls[p] \in Call
  BY DEF FindToClose, FindPending, FindToDelete, TypeInv, TypeOK
<1>2. \A q \in Slots : Knows(calls[q])'
  <2>1. CASE Return(p)
    BY <2>1, ReturnKnows
  <2>2. CASE FindToDelete(p) /\ ~Return(p)
    <3> DEFINE c == [calls[p] EXCEPT !.step = "delete", !.todo = Selected(calls[p].where),
                                     !.live = Open(Selected(calls[p].where))]
    <3>1. Goto(p, c)
      BY <2>2 DEF FindToDelete
    <3>2. c.step = "delete"
      BY <1>1 DEF Call
    <3> HIDE DEF c
    <3> QED BY <3>1, <3>2, NothingToKnow
  <2>3. CASE FindToClose(p) /\ ~Return(p)
    <3> DEFINE c == [calls[p] EXCEPT !.step = "write", !.todo = Open(Selected(calls[p].where)), !.at = now]
    <3>1. \A q \in Slots : calls'[q] = c
      BY <2>3, OneCall DEF FindToClose
    <3>2. c.step = "write" /\ c.kind # "acknowledge" /\ c.todo = Open(Selected(calls[p].where))
      BY <1>1, <2>3 DEF FindToClose, Call
    <3>3. \A a \in Open(Selected(calls[p].where)) : IsOpen(a)
      BY DEF Open
    <3> HIDE DEF c
    <3> QED BY <1>1, <3>1, <3>2, <3>3 DEF Knows, IsOpen
  <2>4. CASE FindPending(p) /\ ~Return(p)
    <3> DEFINE todo == {a \in AlertId : alerts[a].status = "PENDING_CLOSE"}
               c == [calls[p] EXCEPT !.step = "write", !.todo = todo]
    <3>1. \A q \in Slots : calls'[q] = c
      BY <2>4, OneCall DEF FindPending
    <3>2. c.step = "write" /\ c.kind # "acknowledge" /\ c.todo = todo
      BY <1>1, <2>4 DEF FindPending, Call
    <3>3. \A a \in todo : IsOpen(a)
      BY DEF IsOpen, OpenStatus
    <3> HIDE DEF c, todo
    <3> QED BY <1>1, <3>1, <3>2, <3>3 DEF Knows, IsOpen
  <2> QED BY <2>1, <2>2, <2>3, <2>4
<1> QED BY <1>1, <1>2, TableKeeps DEF SerialInv

LEMMA LogSerial ==
    ASSUME Serial, TypeInv, SerialInv, NEW p \in Slots,
           \/ LogReopened(p) \/ LogCreated(p) \/ LogNote(p) \/ LogAcknowledged(p)
           \/ DeleteNext(p) \/ LogRemoved(p)
    PROVE  SerialInv' /\ Fits
<1>1. calls[p] \in Call
  BY DEF TypeInv, TypeOK
<1>2. CASE Throw(p)
  BY <1>2, ThrowSerial
<1>3. CASE ~Throw(p)
  <2>1. alerts' = alerts
    BY <1>3 DEF LogReopened, LogCreated, LogNote, LogAcknowledged, DeleteNext, LogRemoved
  <2>2. \A q \in Slots : Knows(calls[q])'
    <3>1. CASE Return(p)
      BY <3>1, ReturnKnows
    <3>2. CASE LogRemoved(p)
      <4>1. [calls[p] EXCEPT !.step = "delete"].step = "delete"
        BY <1>1 DEF Call
      <4> QED BY <1>3, <3>2, <4>1, NothingToKnow DEF LogRemoved
    <3>3. CASE DeleteNext(p)
      <4>1. PICK a \in calls[p].todo :
              Goto(p, [calls[p] EXCEPT !.step = "logRemoved", !.id = a, !.todo = @ \ {a}])
        BY <1>3, <3>3 DEF DeleteNext
      <4>2. [calls[p] EXCEPT !.step = "logRemoved", !.id = a, !.todo = @ \ {a}].step = "logRemoved"
        BY <1>1 DEF Call
      <4> QED BY <4>1, <4>2, NothingToKnow
    <3> QED BY <1>3, <3>1, <3>2, <3>3 DEF LogReopened, LogCreated, LogNote, LogAcknowledged
  <2> QED BY <2>1, <2>2, TableKeeps DEF SerialInv
<1> QED BY <1>2, <1>3

LEMMA CloseWriteSerial ==
    ASSUME Serial, TypeInv, SerialInv, NEW p \in Slots, CloseWrite(p) PROVE SerialInv' /\ Fits
<1>1. CASE Throw(p)
  BY <1>1, ThrowSerial
<1>2. CASE ~Throw(p)
  <2>1. PICK a \in calls[p].todo :
          /\ alerts' = [alerts EXCEPT ![a] = ClosedRow(@, calls[p].kind, calls[p].at)]
          /\ Goto(p, [calls[p] EXCEPT !.step = "logClosed", !.id = a, !.todo = @ \ {a}])
    BY <1>2 DEF CloseWrite
  <2> DEFINE r == ClosedRow(alerts[a], calls[p].kind, calls[p].at)
             c == [calls[p] EXCEPT !.step = "logClosed", !.id = a, !.todo = @ \ {a}]
  <2>2. /\ a \in AlertId /\ alerts[a] \in Row /\ calls[p] \in Call /\ calls[p].todo \subseteq AlertId
        /\ \A b \in calls[p].todo : IsOpen(b)
    BY DEF CloseWrite, At, TypeInv, TypeOK, Call, SerialInv, Knows
  <2>3. alerts' = [alerts EXCEPT ![a] = r]
    BY <2>1
  <2>4. r \in Row
    <3>1. alerts' \in [AlertId -> Row]
      BY CloseWriteType DEF TypeInv, TypeOK
    <3>2. alerts'[a] = r
      BY <2>2, <2>3 DEF TypeInv, TypeOK
    <3> QED BY <2>2, <3>1, <3>2
  <2>5. /\ r.fp = alerts[a].fp /\ r.hashed = alerts[a].hashed /\ r.status = "CLOSED"
        /\ r.occurrenceCount = alerts[a].occurrenceCount
    BY <2>2 DEF ClosedRow, Row
  <2>6. c.step = "logClosed" /\ c.todo = calls[p].todo \ {a}
    BY <2>2 DEF Call
  <2>7. \A q \in Slots : calls'[q] = c
    BY <2>1, OneCall
  <2> HIDE DEF r, c
  <2>8. IsStored(a) /\ Closes(a, r)
    BY <2>2, <2>5 DEF Closes, IsStored, IsOpen, Stored
  <2>9. OneHashedRowEach' /\ Fits
    BY <2>2, <2>3, <2>4, <2>5, <2>8, RowFits DEF SerialInv
  <2>10. \A b \in calls[p].todo \ {a} : IsOpen(b)'
    BY <2>2, <2>3 DEF IsOpen, TypeInv, TypeOK
  <2>11. \A q \in Slots : Knows(calls[q])'
    BY <2>6, <2>7, <2>10 DEF Knows
  <2> QED BY <2>9, <2>11 DEF SerialInv
<1> QED BY <1>1, <1>2

LEMMA LogClosedSerial ==
    ASSUME Serial, TypeInv, SerialInv, NEW p \in Slots, LogClosed(p) PROVE SerialInv' /\ Fits
<1>1. /\ calls[p] \in Call /\ calls[p].step = "logClosed" /\ calls[p].kind # "acknowledge"
      /\ \A a \in calls[p].todo : IsOpen(a)
  BY DEF LogClosed, At, TypeInv, TypeOK, CallsHoldRows, HoldsRow, SerialInv, Knows
<1>2. CASE Throw(p)
  BY <1>2, ThrowSerial
<1>3. CASE ~Throw(p)
  <2>1. alerts' = alerts
    BY <1>3 DEF LogClosed
  <2>2. \A q \in Slots : Knows(calls[q])'
    <3>1. CASE Return(p)
      BY <3>1, ReturnKnows
    <3>2. CASE Goto(p, [calls[p] EXCEPT !.step = "write", !.id = NoAlert])
      <4> DEFINE c == [calls[p] EXCEPT !.step = "write", !.id = NoAlert]
      <4>1. \A q \in Slots : calls'[q] = c
        BY <3>2, OneCall
      <4>2. c.step = "write" /\ c.kind = calls[p].kind /\ c.todo = calls[p].todo
        BY <1>1 DEF Call
      <4> HIDE DEF c
      <4> QED BY <1>1, <2>1, <4>1, <4>2 DEF Knows, IsOpen
    <3>3. CASE Goto(p, [calls[p] EXCEPT !.step = "logNote"])
      <4>1. [calls[p] EXCEPT !.step = "logNote"].step = "logNote"
        BY <1>1 DEF Call
      <4> QED BY <3>3, <4>1, NothingToKnow
    <3> QED BY <1>3, <3>1, <3>2, <3>3 DEF LogClosed
  <2> QED BY <2>1, <2>2, TableKeeps DEF SerialInv
<1> QED BY <1>2, <1>3

LEMMA AcknowledgeSerial ==
    ASSUME Serial, TypeInv, SerialInv, NEW p \in Slots, Acknowledge(p) PROVE SerialInv' /\ Fits
<1>1. CASE Throw(p)
  BY <1>1, ThrowSerial
<1>2. CASE ~Throw(p)
  <2>1. PICK a : a = calls[p].id
    OBVIOUS
  <2> DEFINE r == [alerts[a] EXCEPT !.acknowledged = TRUE, !.status = "ACTIVE"]
  <2>2. a \in AlertId /\ alerts[a] \in Row /\ calls[p] \in Call /\ IsOpen(a)
    BY <2>1 DEF Acknowledge, At, TypeInv, TypeOK, CallsHoldRows, HoldsRow, SerialInv, Knows
  <2>3. /\ alerts' = [alerts EXCEPT ![a] = r]
        /\ Goto(p, [calls[p] EXCEPT !.step = "logAcknowledged"])
    BY <1>2, <2>1, <2>2 DEF Acknowledge, TypeInv, TypeOK
  <2>4. \A q \in Slots : Knows(calls[q])'
    <3>1. [calls[p] EXCEPT !.step = "logAcknowledged"].step = "logAcknowledged"
      BY <2>2 DEF Call
    <3> QED BY <2>3, <3>1, NothingToKnow
  <2>5. r \in Row /\ r.fp = alerts[a].fp /\ r.hashed = alerts[a].hashed /\ Silences(a, r)
    BY <2>2, FirstValues DEF Row, Silences
  <2>6. IsStored(a)
    BY <2>2 DEF IsStored, IsOpen, Stored
  <2> HIDE DEF r
  <2>7. OneHashedRowEach' /\ Fits
    BY <2>2, <2>3, <2>5, <2>6, RowFits DEF SerialInv
  <2> QED BY <2>4, <2>7 DEF SerialInv
<1> QED BY <1>1, <1>2

LEMMA DeleteRowSerial ==
    ASSUME Serial, TypeInv, SerialInv, NEW p \in Slots, DeleteRow(p) PROVE SerialInv' /\ Fits
<1>1. CASE Throw(p)
  BY <1>1, ThrowSerial
<1>2. CASE ~Throw(p)
  <2>1. PICK a : a = calls[p].id
    OBVIOUS
  <2> DEFINE r == [alerts[a] EXCEPT !.status = "DELETED"]
  <2>2. a \in AlertId /\ alerts[a] \in Row /\ calls[p] \in Call /\ calls[p].step = "delete"
    BY <1>2, <2>1 DEF DeleteRow, At, TypeInv, TypeOK, Call
  <2>3. /\ alerts' = [alerts EXCEPT ![a] = r]
        /\ Return(p) \/ Goto(p, [calls[p] EXCEPT !.id = NoAlert])
    BY <1>2, <2>1, <2>2 DEF DeleteRow, TypeInv, TypeOK
  <2>4. \A q \in Slots : Knows(calls[q])'
    <3>1. [calls[p] EXCEPT !.id = NoAlert].step = "delete"
      BY <2>2 DEF Call
    <3> QED BY <2>3, <3>1, NothingToKnow, ReturnKnows
  <2>5. /\ r \in Row /\ r.fp = alerts[a].fp /\ r.hashed = alerts[a].hashed /\ Removes(a, r)
        /\ r.status = "DELETED"
    BY <2>2, FirstValues DEF Row, Removes
  <2> HIDE DEF r
  <2>6. CASE IsStored(a)
    BY <2>2, <2>3, <2>4, <2>5, <2>6, RowFits DEF SerialInv
  <2>7. CASE ~IsStored(a)
    <3>1. \A b \in AlertId : alerts'[b] = IF b = a THEN r ELSE alerts[b]
      BY <2>2, <2>3 DEF TypeInv, TypeOK
    <3>2. ~IsStored(a)'
      BY <2>2, <2>5, <3>1 DEF IsStored, Stored, OpenStatus
    <3>3. OneHashedRowEach'
      BY <3>1, <3>2 DEF SerialInv, OneHashedRowEach, IsStored
    <3>4. \A g \in Fingerprint : a \notin RowsOf(g) /\ a \notin RowsOf(g)'
      BY <2>7, <3>2 DEF RowsOf, Matching
    <3>5. Fits
      BY <2>2, <2>3, <3>3, <3>4, OthersSame, FitsSame DEF SerialInv
    <3> QED BY <2>4, <3>3, <3>5 DEF SerialInv
  <2> QED BY <2>6, <2>7
<1> QED BY <1>1, <1>2

LEMMA NextSerialInv == Serial /\ TypeInv /\ SerialInv /\ [Next]_vars => SerialInv' /\ Fits
<1> SUFFICES ASSUME Serial, TypeInv, SerialInv, [Next]_vars PROVE SerialInv' /\ Fits
  OBVIOUS
<1>1. CASE UNCHANGED <<alerts, calls>>
  <2>1. \A p \in Slots : Knows(calls[p])'
    BY <1>1 DEF SerialInv, Knows, Open, Matching, IsStored, IsOpen
  <2> QED BY <1>1, <2>1, TableKeeps DEF SerialInv
<1>2. CASE Crash
  <2>1. \A p \in Slots : Knows(calls[p])'
    BY <1>2 DEF Crash, Knows, Idle
  <2> QED BY <1>2, <2>1, TableKeeps DEF Crash, SerialInv
<1>3. ASSUME NEW p \in Slots, BeginCall(p) PROVE SerialInv' /\ Fits
  BY <1>3, BeginSerial
<1>4. ASSUME NEW p \in Slots, Continue(p) PROVE SerialInv' /\ Fits
  BY <1>4, FindOpenSerial, RefreshSerial, FindClosedSerial, ReopenSerial, InsertSerial, FindSerial,
     LogSerial, CloseWriteSerial, LogClosedSerial, AcknowledgeSerial, DeleteRowSerial DEF Continue
<1> QED BY <1>1, <1>2, <1>3, <1>4 DEF Next, Tick, vars

LEMMA InitSerial == Init => SerialInv /\ Incidents!IncidentInit
<1> SUFFICES ASSUME Init PROVE SerialInv /\ Incidents!IncidentInit
  OBVIOUS
<1>1. SerialInv
  BY DEF Init, SerialInv, Knows, Idle
<1>2. ASSUME NEW a \in AlertId, IsStored(a)
      PROVE  alerts[a].occurrenceCount = 1 /\ Silent(a) = FALSE
  <2>1. PICK f \in Fingerprint : alerts[a] \in InitialRow(f)
    BY DEF Init
  <2>2. alerts[a] # UnusedRow(f)
    BY <1>2 DEF UnusedRow, IsStored, Stored, OpenStatus
  <2>3. UpgradedRow(f, alerts[a])
    BY <2>1, <2>2 DEF InitialRow
  <2>4. alerts[a].occurrenceCount = 1
    BY <2>3 DEF UpgradedRow
  <2>5. Silent(a) = FALSE
    BY <2>3 DEF UpgradedRow, Silent
  <2> QED BY <2>4, <2>5
<1>3. ASSUME NEW f \in Fingerprint
      PROVE  /\ PhaseOf(f) \in {"none", "open", "closed"}
             /\ SilencedOf(f) = FALSE
             /\ OccurrencesOf(f) = IF PhaseOf(f) = "none" THEN 0 ELSE 1
  <2>1. CASE RowsOf(f) = {}
    <3>1. PhaseOf(f) = "none" /\ SilencedOf(f) = FALSE /\ OccurrencesOf(f) = 0
      BY <2>1, View DEF ViewIs
    <3> QED BY <3>1
  <2>2. ASSUME NEW a \in RowsOf(f)
        PROVE  /\ PhaseOf(f) \in {"open", "closed"}
               /\ SilencedOf(f) = FALSE
               /\ OccurrencesOf(f) = 1
    <3>1. /\ PhaseOf(f) = IF IsOpen(a) THEN "open" ELSE "closed"
          /\ SilencedOf(f) = Silent(a) /\ OccurrencesOf(f) = alerts[a].occurrenceCount
      BY <1>1, <2>2, View DEF ViewIs, SerialInv
    <3>2. alerts[a].occurrenceCount = 1 /\ Silent(a) = FALSE
      BY <1>2, <2>2 DEF RowsOf, Matching
    <3>3. PhaseOf(f) \in {"open", "closed"}
      BY <3>1
    <3>4. SilencedOf(f) = FALSE
      BY <3>1, <3>2
    <3>5. OccurrencesOf(f) = 1
      BY <3>1, <3>2
    <3> QED BY <3>3, <3>4, <3>5
  <2> QED BY <2>1, <2>2
<1>4. Incidents!IncidentInit
  BY <1>3 DEF Incidents!IncidentInit
<1> QED BY <1>1, <1>4

\* One call at a time, the rows behave as incidents: whatever the calls are,
\* restarts between their statements included, an incident has one alert, an
\* acknowledgement holds until the alert closes, a new occurrence is never silent
\* and is counted, and nothing else changes what a reader sees.
THEOREM SerialImplementsIncident == Serial => (Spec => ImplementsIncident)
<1> SUFFICES ASSUME Serial PROVE Spec => ImplementsIncident
  OBVIOUS
<1>1. Init => TypeInv /\ SerialInv /\ Incidents!IncidentInit
  BY InitTypeInv, InitSerial
<1>2. TypeInv /\ SerialInv /\ [Next]_vars
        => (TypeInv /\ SerialInv)' /\ [Incidents!IncidentNext]_(Incidents!incidentVars)
  BY NextTypeInv, NextSerialInv DEF Fits
<1> QED BY <1>1, <1>2, PTL DEF Spec, ImplementsIncident, Incidents!IncidentSpec

\* One call at a time, acknowledgements included, an incident never has two rows.
THEOREM OneRowWhenSerial == Serial => (Spec => []OneRowPerIncident)
<1> SUFFICES ASSUME Serial PROVE Spec => []OneRowPerIncident
  OBVIOUS
<1>1. Init => TypeInv /\ SerialInv
  BY InitTypeInv, InitSerial
<1>2. TypeInv /\ SerialInv /\ [Next]_vars => (TypeInv /\ SerialInv)'
  BY NextTypeInv, NextSerialInv
<1>3. SerialInv => OneRowPerIncident
  BY DEF SerialInv, OneRowPerIncident
<1> QED BY <1>1, <1>2, <1>3, PTL DEF Spec

-----------------------------------------------------------------------------
(* Closings that stick, for any number of racing handlers                  *)

\* What a call knows of its row when it writes, if it has seen every closing of
\* it: the row is open, or was closed before the incident the call reports.
Remembers(c, rows, n) ==
    LET upToDate == c.seen = n[c.id] IN
    /\ c.step \in {"findOpen", "findClosed", "refresh", "reopen"} => c.kind = "raise"
    /\ \/ c.step = "refresh"
       \/ c.step = "write" /\ c.kind = "acknowledge"
       => c.seen <= n[c.id] /\ (upToDate => rows[c.id].status # "CLOSED")
    /\ c.step = "reopen"
       => c.seen <= n[c.id] /\ (upToDate => ~Sticks(rows[c.id], c.since))

SeenInv == \A p \in Slots : Remembers(calls[p], alerts, closings)

\* What a step may do to a row, as far as the calls in flight are concerned.
RowGoesOn(r, s, m, n) ==
    \/ n = m + 1
    \/ n = m /\ (s.status = "CLOSED" => r.status = "CLOSED")
             /\ (s.closedAt = r.closedAt \/ s.closedAt = 0)
GoesOn == \A a \in AlertId : RowGoesOn(alerts[a], alerts'[a], closings[a], closings'[a])

LEMMA SameGoesOn == TypeInv /\ UNCHANGED <<alerts, closings>> => GoesOn
  BY DEF GoesOn, RowGoesOn

LEMMA OneRowGoesOn ==
    ASSUME TypeInv, NEW a \in AlertId, NEW r, alerts' = [alerts EXCEPT ![a] = r],
           \/ closings' = [closings EXCEPT ![a] = @ + 1]
           \/ UNCHANGED closings /\ r.status # "CLOSED"
              /\ (r.closedAt = alerts[a].closedAt \/ r.closedAt = 0)
    PROVE  GoesOn
  BY DEF TypeInv, TypeOK, GoesOn, RowGoesOn

LEMMA BeginGoesOn == ASSUME TypeInv, NEW p \in Slots, BeginCall(p) PROVE GoesOn
<1>1. CASE MigrateBegin(p)
  <2>1. alerts \in [AlertId -> Row] /\ UNCHANGED closings
    BY <1>1 DEF MigrateBegin, TypeInv, TypeOK
  <2>2. ASSUME NEW a \in AlertId
        PROVE  /\ alerts'[a].status = "CLOSED" => alerts[a].status = "CLOSED"
               /\ alerts'[a].closedAt = alerts[a].closedAt
    <3>1. alerts[a] \in Row
      BY <2>1
    <3>2. alerts'[a] = IF alerts[a].status = "ACKNOWLEDGED"
                         THEN [alerts[a] EXCEPT !.status = "ACTIVE", !.acknowledged = FALSE]
                         ELSE alerts[a]
      BY <1>1 DEF MigrateBegin
    <3> QED BY <3>1, <3>2 DEF Row
  <2> QED BY <2>1, <2>2 DEF GoesOn, RowGoesOn
<1>2. CASE ~MigrateBegin(p)
  BY <1>2, SameGoesOn DEF BeginCall, RaiseBegin, ResolveBegin, CloseByHand, AddNote,
                          AcknowledgeBegin, DeleteBegin, Begin
<1> QED BY <1>1, <1>2

LEMMA ContinueGoesOn == ASSUME TypeInv, NEW p \in Slots, Continue(p) PROVE GoesOn
<1>1. alerts \in [AlertId -> Row] /\ closings \in [AlertId -> Nat]
  BY DEF TypeInv, TypeOK
<1>2. CASE Throw(p)
  BY <1>2, SameGoesOn DEF Throw
<1>3. ASSUME NEW a \in AlertId, UNCHANGED closings,
             \/ alerts' = [alerts EXCEPT ![a] = RefreshedRow(@, calls[p].keepAck)]
             \/ alerts' = [alerts EXCEPT ![a] = ReopenedRow(@)]
             \/ alerts' = [alerts EXCEPT ![a].acknowledged = TRUE, ![a].status = "ACTIVE"]
             \/ alerts' = [alerts EXCEPT ![a].status = "DELETED"]
      PROVE  GoesOn
  <2> DEFINE r == alerts'[a]
  <2>1. alerts[a] \in Row
    BY <1>1
  <2>2. alerts' = [alerts EXCEPT ![a] = r]
    BY <1>1, <1>3
  <2>3. /\ r.status # "CLOSED"
        /\ r.closedAt = alerts[a].closedAt \/ r.closedAt = 0
    <3>1. \/ r = RefreshedRow(alerts[a], calls[p].keepAck)
          \/ r = ReopenedRow(alerts[a])
          \/ r = [alerts[a] EXCEPT !.acknowledged = TRUE, !.status = "ACTIVE"]
          \/ r = [alerts[a] EXCEPT !.status = "DELETED"]
      BY <1>1, <1>3
    <3> HIDE DEF r
    <3> QED BY <2>1, <3>1 DEF RefreshedRow, ReopenedRow, Row
  <2> HIDE DEF r
  <2> QED BY <1>3, <2>2, <2>3, OneRowGoesOn
<1>4. CASE (Refresh(p) \/ Reopen(p) \/ Acknowledge(p) \/ DeleteRow(p)) /\ ~Throw(p)
  <2>1. calls[p].id \in AlertId
    BY <1>4 DEF Refresh, Reopen, Acknowledge, DeleteRow, At, TypeInv, TypeOK, CallsHoldRows, HoldsRow,
                RowSteps, Call
  <2> QED BY <1>3, <1>4, <2>1 DEF Refresh, Reopen, Acknowledge, DeleteRow
<1>5. CASE Insert(p)
  <2>1. PICK a \in AlertId, f \in calls[p].where :
          alerts' = [alerts EXCEPT ![a] = [UnusedRow(f) EXCEPT !.status = "ACTIVE",
                                                               !.occurrenceCount = 1]]
    BY <1>5 DEF Insert
  <2> DEFINE r == [UnusedRow(f) EXCEPT !.status = "ACTIVE", !.occurrenceCount = 1]
  <2>2. r.status = "ACTIVE" /\ r.closedAt = 0
    BY DEF UnusedRow
  <2> HIDE DEF r
  <2>3. UNCHANGED closings /\ alerts' = [alerts EXCEPT ![a] = r]
    BY <1>5, <2>1 DEF Insert, r
  <2> QED BY <2>2, <2>3, OneRowGoesOn
<1>6. CASE CloseWrite(p) /\ ~Throw(p)
  <2>1. PICK a \in calls[p].todo :
          /\ alerts' = [alerts EXCEPT ![a] = ClosedRow(@, calls[p].kind, calls[p].at)]
          /\ closings' = [closings EXCEPT ![a] = @ + 1]
    BY <1>6 DEF CloseWrite
  <2>2. a \in AlertId
    BY DEF TypeInv, TypeOK, Call
  <2> QED BY <2>1, <2>2, OneRowGoesOn
<1>7. CASE \/ FindOpen(p) \/ FindClosed(p) \/ LogReopened(p) \/ LogCreated(p) \/ FindToClose(p)
           \/ FindPending(p) \/ LogClosed(p) \/ LogNote(p) \/ LogAcknowledged(p) \/ FindToDelete(p)
           \/ DeleteNext(p) \/ LogRemoved(p)
  BY <1>7, SameGoesOn DEF FindOpen, FindClosed, LogReopened, LogCreated, FindToClose, FindPending,
     LogClosed, LogNote, LogAcknowledged, FindToDelete, DeleteNext, LogRemoved, Throw
<1> QED BY <1>2, <1>4, <1>5, <1>6, <1>7 DEF Continue

\* What a call remembers stays true while it waits.
LEMMA StillRemembers ==
    ASSUME TypeInv, GoesOn, NEW q \in Slots, Remembers(calls[q], alerts, closings)
    PROVE  Remembers(calls[q], alerts', closings')
<1> DEFINE c == calls[q]
           holding == c.step \in {"refresh", "reopen"} \/ (c.step = "write" /\ c.kind = "acknowledge")
<1>1. c \in Call /\ (holding => c.id \in AlertId)
  BY DEF TypeInv, TypeOK, CallsHoldRows, HoldsRow, RowSteps
<1>2. CASE ~holding
  BY <1>2 DEF Remembers
<1>3. CASE holding
  <2>1. /\ c.seen \in Nat /\ closings[c.id] \in Nat /\ alerts[c.id] \in Row
        /\ RowGoesOn(alerts[c.id], alerts'[c.id], closings[c.id], closings'[c.id])
    BY <1>1, <1>3 DEF Call, TypeInv, TypeOK, GoesOn
  <2>2. CASE closings'[c.id] = closings[c.id] + 1
    <3>1. c.seen <= closings[c.id]
      BY <1>3 DEF Remembers
    <3>2. c.seen <= closings'[c.id] /\ c.seen # closings'[c.id]
      BY <2>1, <2>2, <3>1
    <3> QED BY <1>3, <3>2 DEF Remembers
  <2>3. CASE closings'[c.id] # closings[c.id] + 1
    <3>1. /\ closings'[c.id] = closings[c.id]
          /\ alerts'[c.id].status = "CLOSED" => alerts[c.id].status = "CLOSED"
          /\ Sticks(alerts'[c.id], c.since) => Sticks(alerts[c.id], c.since)
      BY <2>1, <2>3 DEF RowGoesOn, Sticks
    <3> QED BY <1>3, <3>1 DEF Remembers
  <2> QED BY <2>2, <2>3
<1> QED BY <1>2, <1>3

\* A step of one slot that leaves a call which remembers.
LEMMA MoverRemembers ==
    ASSUME TypeInv, SeenInv, GoesOn, NEW p \in Slots, NEW c, Goto(p, c),
           Remembers(c, alerts', closings')
    PROVE  SeenInv'
<1>1. \A q \in Slots : calls'[q] = IF q = p THEN c ELSE calls[q]
  BY DEF Goto, TypeInv, TypeOK
<1>2. \A q \in Slots : Remembers(calls[q], alerts', closings')
  BY StillRemembers DEF SeenInv
<1> QED BY <1>1, <1>2 DEF SeenInv

Forgetful == {"idle", "find", "insert", "logReopened", "logCreated", "logClosed", "logNote",
              "logAcknowledged", "logRemoved", "delete"}

LEMMA ForgetfulRemembers ==
    ASSUME NEW c, NEW rows, NEW n, c.step \in Forgetful \/ (c.step = "write" /\ c.kind # "acknowledge")
    PROVE  Remembers(c, rows, n)
  BY DEF Forgetful, Remembers

LEMMA BeginSeen == ASSUME TypeInv, SeenInv, NEW p \in Slots, BeginCall(p) PROVE SeenInv'
<1>1. GoesOn
  BY BeginGoesOn
<1>2. CASE RaiseBegin(p)
  <2>1. PICK f \in Fingerprint, since \in 0..now :
          Goto(p, [Idle EXCEPT !.step = "findOpen", !.kind = "raise", !.where = {f}, !.since = since])
    BY <1>2 DEF RaiseBegin, Begin
  <2> DEFINE c == [Idle EXCEPT !.step = "findOpen", !.kind = "raise", !.where = {f}, !.since = since]
  <2>2. Remembers(c, alerts', closings')
    BY DEF Remembers, Idle
  <2> HIDE DEF c
  <2> QED BY <1>1, <2>1, <2>2, MoverRemembers DEF c
<1>3. CASE AcknowledgeBegin(p)
  <2>1. PICK a \in AlertId : /\ IsOpen(a)
          /\ Begin(p, [Idle EXCEPT !.step = "write", !.kind = "acknowledge", !.id = a,
                                   !.seen = closings[a]])
    BY <1>3 DEF AcknowledgeBegin
  <2> DEFINE c == [Idle EXCEPT !.step = "write", !.kind = "acknowledge", !.id = a,
                               !.seen = closings[a]]
  <2>2. c.step = "write" /\ c.id = a /\ c.seen = closings[a] /\ UNCHANGED <<alerts, closings>>
    BY <2>1 DEF Idle, Begin
  <2>3. Goto(p, c)
    BY <2>1 DEF Begin
  <2> HIDE DEF c
  <2>4. closings[a] \in Nat /\ alerts[a].status # "CLOSED"
    BY <2>1 DEF TypeInv, TypeOK, IsOpen, OpenStatus
  <2>5. Remembers(c, alerts', closings')
    BY <2>2, <2>4 DEF Remembers
  <2> QED BY <1>1, <2>3, <2>5, MoverRemembers
<1>4. ASSUME NEW c, Goto(p, c), c.step \in Forgetful \/ (c.step = "write" /\ c.kind # "acknowledge")
      PROVE  SeenInv'
  BY <1>1, <1>4, ForgetfulRemembers, MoverRemembers
<1>5. CASE ResolveBegin(p)
  <2>1. PICK F \in Wheres, k \in {"resolve", "disable", "autoClose"} :
          Goto(p, [Idle EXCEPT !.step = "find", !.kind = k, !.where = F])
    BY <1>5 DEF ResolveBegin, Begin
  <2> QED BY <1>4, <2>1 DEF Idle, Forgetful
<1>6. CASE MigrateBegin(p)
  BY <1>4, <1>6 DEF MigrateBegin, Idle, Forgetful
<1>7. CASE CloseByHand(p)
  <2>1. PICK a \in AlertId :
          Goto(p, [Idle EXCEPT !.step = "write", !.kind = "close", !.todo = {a}, !.at = now])
    BY <1>7 DEF CloseByHand, Begin
  <2> QED BY <1>4, <2>1 DEF Idle
<1>8. CASE AddNote(p)
  <2>1. PICK a \in AlertId : Goto(p, [Idle EXCEPT !.step = "logNote", !.kind = "note", !.id = a])
    BY <1>8 DEF AddNote, Begin
  <2> QED BY <1>4, <2>1 DEF Idle, Forgetful
<1>9. CASE DeleteBegin(p)
  <2>1. PICK F \in Wheres : Goto(p, [Idle EXCEPT !.step = "find", !.kind = "delete", !.where = F])
    BY <1>9 DEF DeleteBegin, Begin
  <2> QED BY <1>4, <2>1 DEF Idle, Forgetful
<1> QED BY <1>2, <1>3, <1>5, <1>6, <1>7, <1>8, <1>9 DEF BeginCall

LEMMA FindOpenSeen == ASSUME TypeInv, SeenInv, NEW p \in Slots, FindOpen(p) PROVE SeenInv'
<1>1. /\ GoesOn /\ UNCHANGED <<alerts, closings>> /\ calls[p] \in Call
      /\ calls[p].kind = "raise"
  BY ContinueGoesOn DEF Continue, FindOpen, At, SeenInv, Remembers, TypeInv, TypeOK
<1>2. CASE Goto(p, [calls[p] EXCEPT !.step = "findClosed"])
  <2> DEFINE c == [calls[p] EXCEPT !.step = "findClosed"]
  <2>1. Remembers(c, alerts', closings')
    BY <1>1 DEF Remembers, Call
  <2> HIDE DEF c
  <2> QED BY <1>1, <1>2, <2>1, MoverRemembers DEF c
<1>3. ASSUME NEW a \in Open(Matching(calls[p].where)),
             Goto(p, [calls[p] EXCEPT
                        !.step = "refresh", !.id = a, !.seen = closings[a],
                        !.pending = alerts[a].status = "PENDING_CLOSE",
                        !.keepAck = alerts[a].status = "ACTIVE" /\ alerts[a].acknowledged])
      PROVE  SeenInv'
  <2> DEFINE c == [calls[p] EXCEPT
                     !.step = "refresh", !.id = a, !.seen = closings[a],
                     !.pending = alerts[a].status = "PENDING_CLOSE",
                     !.keepAck = alerts[a].status = "ACTIVE" /\ alerts[a].acknowledged]
  <2>1. c.step = "refresh" /\ c.kind = "raise" /\ c.id = a /\ c.seen = closings[a]
    BY <1>1 DEF Call
  <2>2. closings[a] \in Nat /\ alerts[a].status # "CLOSED"
    BY DEF TypeInv, TypeOK, Open, Matching, IsOpen, OpenStatus
  <2> HIDE DEF c
  <2>3. Remembers(c, alerts', closings')
    BY <1>1, <2>1, <2>2 DEF Remembers
  <2> QED BY <1>1, <1>3, <2>3, MoverRemembers DEF c
<1> QED BY <1>2, <1>3 DEF FindOpen

LEMMA FindClosedSeen == ASSUME TypeInv, SeenInv, NEW p \in Slots, FindClosed(p) PROVE SeenInv'
<1>1. /\ GoesOn /\ UNCHANGED <<alerts, closings>> /\ calls[p] \in Call
      /\ calls[p].kind = "raise"
  BY ContinueGoesOn DEF Continue, FindClosed, At, SeenInv, Remembers, TypeInv, TypeOK
<1>2. ASSUME NEW c, Goto(p, c), c.step \in Forgetful PROVE SeenInv'
  BY <1>1, <1>2, ForgetfulRemembers, MoverRemembers
<1>3. CASE Return(p)
  BY <1>2, <1>3 DEF Return, Idle, Forgetful
<1>4. CASE Goto(p, [calls[p] EXCEPT !.step = "insert"])
  BY <1>1, <1>2, <1>4 DEF Call, Forgetful
<1>5. ASSUME NEW a \in NewestClosed(calls[p].where), ~Sticks(alerts[a], calls[p].since),
             Goto(p, [calls[p] EXCEPT !.step = "reopen", !.id = a, !.seen = closings[a]])
      PROVE  SeenInv'
  <2> DEFINE c == [calls[p] EXCEPT !.step = "reopen", !.id = a, !.seen = closings[a]]
  <2>1. /\ c.step = "reopen" /\ c.kind = "raise" /\ c.id = a /\ c.seen = closings[a]
        /\ c.since = calls[p].since
    BY <1>1 DEF Call
  <2>2. closings[a] \in Nat
    BY DEF TypeInv, TypeOK, NewestClosed, Matching
  <2> HIDE DEF c
  <2>3. Remembers(c, alerts', closings')
    BY <1>1, <1>5, <2>1, <2>2 DEF Remembers
  <2> QED BY <1>1, <1>5, <2>3, MoverRemembers DEF c
<1> QED BY <1>3, <1>4, <1>5 DEF FindClosed

\* The other steps leave a call that holds no row it is about to bring back.
LEMMA ContinueSeen == ASSUME TypeInv, SeenInv, NEW p \in Slots, Continue(p) PROVE SeenInv'
<1>1. GoesOn /\ calls[p] \in Call
  BY ContinueGoesOn DEF TypeInv, TypeOK
<1>2. ASSUME NEW c, Goto(p, c), c.step \in Forgetful \/ (c.step = "write" /\ c.kind # "acknowledge")
      PROVE  SeenInv'
  BY <1>1, <1>2, ForgetfulRemembers, MoverRemembers
<1>3. CASE Return(p)
  BY <1>2, <1>3 DEF Return, Idle, Forgetful
<1>4. CASE Throw(p)
  BY <1>3, <1>4 DEF Throw
<1>5. CASE (Refresh(p) \/ Reopen(p)) /\ ~Throw(p) /\ ~Return(p)
  <2>1. Goto(p, [calls[p] EXCEPT !.step = "logReopened"])
    BY <1>5 DEF Refresh, Reopen
  <2> QED BY <1>1, <1>2, <2>1 DEF Call, Forgetful
<1>6. CASE Insert(p)
  <2>1. PICK a \in AlertId : Goto(p, [calls[p] EXCEPT !.step = "logCreated", !.id = a])
    BY <1>6 DEF Insert
  <2> QED BY <1>1, <1>2, <2>1 DEF Call, Forgetful
<1>7. CASE (LogReopened(p) \/ LogCreated(p) \/ LogNote(p) \/ LogAcknowledged(p)) /\ ~Throw(p)
  BY <1>3, <1>7 DEF LogReopened, LogCreated, LogNote, LogAcknowledged
<1>8. CASE (FindToClose(p) \/ FindPending(p)) /\ ~Return(p)
  <2>1. calls[p].kind # "acknowledge"
    BY <1>8 DEF FindToClose, FindPending
  <2>2. PICK c : Goto(p, c) /\ c.step = "write" /\ c.kind = calls[p].kind
    <3>1. CASE \E t : Goto(p, [calls[p] EXCEPT !.step = "write", !.todo = t, !.at = now])
      <4>1. PICK t : Goto(p, [calls[p] EXCEPT !.step = "write", !.todo = t, !.at = now])
        BY <3>1
      <4> DEFINE d == [calls[p] EXCEPT !.step = "write", !.todo = t, !.at = now]
      <4>2. d.step = "write" /\ d.kind = calls[p].kind
        BY <1>1 DEF Call
      <4> HIDE DEF d
      <4> QED BY <4>1, <4>2 DEF d
    <3>2. CASE \E t : Goto(p, [calls[p] EXCEPT !.step = "write", !.todo = t])
      <4>1. PICK t : Goto(p, [calls[p] EXCEPT !.step = "write", !.todo = t])
        BY <3>2
      <4> DEFINE d == [calls[p] EXCEPT !.step = "write", !.todo = t]
      <4>2. d.step = "write" /\ d.kind = calls[p].kind
        BY <1>1 DEF Call
      <4> HIDE DEF d
      <4> QED BY <4>1, <4>2 DEF d
    <3> QED BY <1>8, <3>1, <3>2 DEF FindToClose, FindPending
  <2> QED BY <1>2, <2>1, <2>2
<1>9. CASE CloseWrite(p) /\ ~Throw(p)
  <2>1. PICK a \in calls[p].todo :
          Goto(p, [calls[p] EXCEPT !.step = "logClosed", !.id = a, !.todo = @ \ {a}])
    BY <1>9 DEF CloseWrite
  <2> QED BY <1>1, <1>2, <2>1 DEF Call, Forgetful
<1>10. CASE LogClosed(p) /\ ~Throw(p) /\ ~Return(p)
  <2>1. calls[p].kind # "acknowledge"
    BY <1>10 DEF LogClosed, At, TypeInv, CallsHoldRows, HoldsRow
  <2>2. \/ Goto(p, [calls[p] EXCEPT !.step = "write", !.id = NoAlert])
        \/ Goto(p, [calls[p] EXCEPT !.step = "logNote"])
    BY <1>10 DEF LogClosed
  <2>3. CASE Goto(p, [calls[p] EXCEPT !.step = "write", !.id = NoAlert])
    BY <1>1, <1>2, <2>1, <2>3 DEF Call
  <2>4. CASE Goto(p, [calls[p] EXCEPT !.step = "logNote"])
    BY <1>1, <1>2, <2>4 DEF Call, Forgetful
  <2> QED BY <2>2, <2>3, <2>4
<1>11. CASE Acknowledge(p) /\ ~Throw(p)
  <2>1. Goto(p, [calls[p] EXCEPT !.step = "logAcknowledged"])
    BY <1>11 DEF Acknowledge
  <2> QED BY <1>1, <1>2, <2>1 DEF Call, Forgetful
<1>12. CASE FindToDelete(p) /\ ~Return(p)
  <2>1. PICK t, l : Goto(p, [calls[p] EXCEPT !.step = "delete", !.todo = t, !.live = l])
    BY <1>12 DEF FindToDelete
  <2> QED BY <1>1, <1>2, <2>1 DEF Call, Forgetful
<1>13. CASE DeleteNext(p) /\ ~Throw(p)
  <2>1. PICK a \in calls[p].todo :
          Goto(p, [calls[p] EXCEPT !.step = "logRemoved", !.id = a, !.todo = @ \ {a}])
    BY <1>13 DEF DeleteNext
  <2> QED BY <1>1, <1>2, <2>1 DEF Call, Forgetful
<1>14. CASE LogRemoved(p) /\ ~Throw(p)
  <2>1. Goto(p, [calls[p] EXCEPT !.step = "delete"])
    BY <1>14 DEF LogRemoved
  <2> QED BY <1>1, <1>2, <2>1 DEF Call, Forgetful
<1>15. CASE DeleteRow(p) /\ ~Throw(p) /\ ~Return(p)
  <2>1. Goto(p, [calls[p] EXCEPT !.id = NoAlert]) /\ calls[p].step = "delete"
    BY <1>15 DEF DeleteRow, At
  <2> QED BY <1>1, <1>2, <2>1 DEF Call, Forgetful
<1> QED BY <1>3, <1>4, <1>5, <1>6, <1>7, <1>8, <1>9, <1>10, <1>11, <1>12, <1>13, <1>14, <1>15,
           FindOpenSeen, FindClosedSeen DEF Continue

LEMMA NextSeenInv == TypeInv /\ SeenInv /\ [Next]_vars => SeenInv'
<1> SUFFICES ASSUME TypeInv, SeenInv, [Next]_vars PROVE SeenInv'
  OBVIOUS
<1>1. CASE Tick \/ UNCHANGED vars
  BY <1>1 DEF Tick, vars, SeenInv
<1>2. CASE Crash
  BY <1>2 DEF Crash, SeenInv, Remembers, Idle
<1> QED BY <1>1, <1>2, BeginSeen, ContinueSeen DEF Next

\* The step that brings a closed row back, and what it knew.
LEMMA StepSticks ==
    ASSUME TypeInv, SeenInv, [Next]_vars, NEW a \in AlertId,
           alerts[a].status = "CLOSED", alerts'[a].status = "ACTIVE"
    PROVE  \E p \in Slots :
              /\ calls[p].id = a /\ calls'[p] # calls[p]
              /\ \/ calls[p].kind = "raise" /\ ~Sticks(alerts[a], calls[p].since)
                 \/ calls[p].kind \in {"raise", "acknowledge"} /\ closings[a] # calls[p].seen
<1>1. alerts'[a] # alerts[a] /\ alerts \in [AlertId -> Row] /\ alerts[a] \in Row
  BY DEF TypeInv, TypeOK
<1>2. PICK p \in Slots : BeginCall(p) \/ Continue(p)
  BY <1>1 DEF Next, Tick, Crash, vars
<1>3. calls[p] \in Call /\ Remembers(calls[p], alerts, closings)
  BY DEF SeenInv, TypeInv, TypeOK
<1>4. ~BeginCall(p)
  BY <1>1 DEF BeginCall, RaiseBegin, ResolveBegin, MigrateBegin, CloseByHand, AddNote,
              AcknowledgeBegin, DeleteBegin, Begin
<1>5. ~Insert(p)
  BY <1>1 DEF Insert
<1>6. ~CloseWrite(p)
  <2> SUFFICES ASSUME CloseWrite(p) PROVE FALSE
    OBVIOUS
  <2>1. PICK b \in calls[p].todo :
          alerts' = [alerts EXCEPT ![b] = ClosedRow(alerts[b], calls[p].kind, calls[p].at)]
    BY <1>1 DEF CloseWrite, Throw
  <2>2. b = a
    BY <1>1, <2>1
  <2>3. alerts'[a] = ClosedRow(alerts[a], calls[p].kind, calls[p].at)
    BY <1>1, <2>1, <2>2
  <2> QED BY <1>1, <2>3 DEF ClosedRow, Row
<1>7. ~DeleteRow(p)
  <2> SUFFICES ASSUME DeleteRow(p) PROVE FALSE
    OBVIOUS
  <2>1. alerts' = [alerts EXCEPT ![calls[p].id].status = "DELETED"]
    BY <1>1 DEF DeleteRow, Throw
  <2> QED BY <1>1, <2>1 DEF Row
<1>8. ~(FindOpen(p) \/ FindClosed(p) \/ LogReopened(p) \/ LogCreated(p) \/ FindToClose(p)
        \/ FindPending(p) \/ LogClosed(p) \/ LogNote(p) \/ LogAcknowledged(p) \/ FindToDelete(p)
        \/ DeleteNext(p) \/ LogRemoved(p))
  BY <1>1 DEF FindOpen, FindClosed, LogReopened, LogCreated, FindToClose, FindPending, LogClosed,
              LogNote, LogAcknowledged, FindToDelete, DeleteNext, LogRemoved, Throw
<1>9. Refresh(p) \/ Reopen(p) \/ Acknowledge(p)
  BY <1>2, <1>4, <1>5, <1>6, <1>7, <1>8 DEF Continue
<1>10. calls[p].id = a
  BY <1>1, <1>9 DEF Refresh, Reopen, Acknowledge, Throw
<1>11. calls'[p].step # calls[p].step
  <2>1. calls[p].step \in {"refresh", "reopen", "write"}
    BY <1>9 DEF Refresh, Reopen, Acknowledge, At
  <2>2. \/ Goto(p, Idle)
        \/ Goto(p, [calls[p] EXCEPT !.step = "logReopened"])
        \/ Goto(p, [calls[p] EXCEPT !.step = "logAcknowledged"])
    BY <1>9 DEF Refresh, Reopen, Acknowledge, Throw, Return
  <2>3. calls'[p].step \in {"idle", "logReopened", "logAcknowledged"}
    BY <1>3, <2>2 DEF Goto, TypeInv, TypeOK, Call, Idle
  <2> QED BY <2>1, <2>3
<1>12. \/ calls[p].kind = "raise" /\ ~Sticks(alerts[a], calls[p].since)
       \/ calls[p].kind \in {"raise", "acknowledge"} /\ closings[a] # calls[p].seen
  BY <1>3, <1>9, <1>10 DEF Refresh, Reopen, Acknowledge, At, Remembers
<1> QED BY <1>10, <1>11, <1>12

\* "manual close must stick until a newer failure": with any number of racing
\* handlers and restarts, an alert that was closed at or after the start of an
\* incident comes back with it only by a call that read the row before the closing.
THEOREM ClosesStick == Spec => CloseSticks
<1>1. Init => TypeInv /\ SeenInv
  BY InitTypeInv DEF Init, SeenInv, Remembers, Idle
<1>2. TypeInv /\ SeenInv /\ [Next]_vars => (TypeInv /\ SeenInv)'
  BY NextTypeInv, NextSeenInv
<1>3. TypeInv /\ SeenInv /\ [Next]_vars =>
        [\A a \in AlertId :
           alerts[a].status = "CLOSED" /\ alerts'[a].status = "ACTIVE"
           => \E p \in Slots :
                /\ calls[p].id = a /\ calls'[p] # calls[p]
                /\ \/ calls[p].kind = "raise" /\ ~Sticks(alerts[a], calls[p].since)
                   \/ calls[p].kind \in {"raise", "acknowledge"} /\ closings[a] # calls[p].seen]_vars
  BY StepSticks
<1> QED BY <1>1, <1>2, <1>3, PTL DEF Spec, CloseSticks

=============================================================================
