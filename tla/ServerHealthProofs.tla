------------------------- MODULE ServerHealthProofs -------------------------
(***************************************************************************)
(* Proofs about ServerHealth for any number of servers, cron ticks in      *)
(* progress, operators and restarts, and for all thresholds that           *)
(* ThresholdsAssumption allows.                                            *)
(***************************************************************************)
EXTENDS ServerHealth, TLAPS

\* A metric is never more recent than lastSeenAt, and pushes keep their interval.
Punctual(s) ==
    /\ metrics[s].age <= MaxGap => server[s].silence <= metrics[s].age
    /\ AtPush(s, "record") => metrics[s].age >= 1

\* The streak that a recovery was decided on is still there, or its server is gone.
Streak(s) == AtPush(s, "recover") => ~server[s].exists \/ metrics[s].chain >= RecoverStreak

\* A server that was silent when a tick read its row has since then sent no
\* more metrics than one, and one for every minute of the tick.
Late(c, s) ==
    crons[c].step # "idle" /\ crons[c].seen[s] > MaxGap + crons[c].age =>
        metrics[s].age > MaxGap \/ metrics[s].chain + metrics[s].age <= 1 + crons[c].age

\* Only a server that was silent for long is about to be accused.
Grounds(c) ==
    /\ crons[c].step \in {"mark", "alert"} => crons[c].server \in Server
    /\ crons[c].step = "alert" => Accused(crons[c], crons[c].server)

HealthInv ==
    /\ \A s \in Server : Punctual(s) /\ Streak(s)
    /\ \A c \in Crons : Grounds(c) /\ \A s \in Server : Late(c, s)

-----------------------------------------------------------------------------
(* Types *)

\* What is idle has a type as well.
LEMMA IdleTyped == IdlePush \in PushState /\ IdleCron \in CronState
<1>1. [s \in Server |-> Never] \in [Server -> 0..Never]
  BY ThresholdsAssumption DEF Never
<1>2. 0 \in 0..MaxTickAge
  BY ThresholdsAssumption
<1> QED BY <1>1, <1>2 DEF IdlePush, IdleCron, PushState, CronState, Status

\* A silence grows by at most one, and not beyond the value of a null lastSeenAt.
LEMMA OlderBounds ==
    ASSUME NEW n \in 0..Never
    PROVE  Older(n) \in 0..Never /\ n <= Older(n) /\ Older(n) <= n + 1
  BY ThresholdsAssumption DEF Older, Never

\* The state the servers start in has its type.
LEMMA InitTyped == Init => TypeOK
<1> SUFFICES ASSUME Init PROVE TypeOK
  OBVIOUS
<1>1. server \in [Server -> [exists: BOOLEAN, status: Status, silence: 0..Never]]
  BY ThresholdsAssumption DEF Init, Status, Never
<1>2. metrics \in [Server -> [chain: 0..RecoverStreak, age: 0..(MaxGap + 1)]]
  BY ThresholdsAssumption DEF Init
<1>3. restarts \in 0..MaxRestarts
  BY ThresholdsAssumption DEF Init
<1> QED BY <1>1, <1>2, <1>3, IdleTyped DEF Init, TypeOK

\* A minute keeps ages within their caps, and a tick within its longest time.
LEMMA MinuteTyped ==
    ASSUME TypeOK, Minute
    PROVE  /\ TypeOK'
           /\ \A c \in Crons :
                /\ crons'[c].step = crons[c].step
                /\ crons'[c].server = crons[c].server
                /\ crons[c].step # "idle" => crons'[c].age = crons[c].age + 1
                /\ crons[c].step # "idle" =>
                     \A s \in Server : crons'[c].seen[s] = Older(crons[c].seen[s])
<1>1. server' \in [Server -> [exists: BOOLEAN, status: Status, silence: 0..Never]]
  BY OlderBounds DEF TypeOK, Minute
<1>2. metrics' \in [Server -> [chain: 0..RecoverStreak, age: 0..(MaxGap + 1)]]
  <2> DEFINE age(s) == IF metrics[s].age <= MaxGap THEN metrics[s].age + 1 ELSE metrics[s].age
  <2>1. \A s \in Server : metrics[s] \in [chain: 0..RecoverStreak, age: 0..(MaxGap + 1)]
    BY DEF TypeOK
  <2>2. \A s \in Server : age(s) \in 0..(MaxGap + 1)
    BY <2>1, ThresholdsAssumption
  <2>3. metrics' = [s \in Server |-> [metrics[s] EXCEPT !.age = age(s)]]
    BY DEF Minute
  <2> HIDE DEF age
  <2> QED BY <2>1, <2>2, <2>3
<1>3. ASSUME NEW c \in Crons
      PROVE  /\ crons'[c] \in CronState
             /\ crons'[c].step = crons[c].step
             /\ crons'[c].server = crons[c].server
             /\ crons[c].step # "idle" => crons'[c].age = crons[c].age + 1
             /\ crons[c].step # "idle" =>
                  \A s \in Server : crons'[c].seen[s] = Older(crons[c].seen[s])
  <2>1. CASE crons[c].step = "idle"
    BY <2>1 DEF TypeOK, Minute
  <2>2. CASE crons[c].step # "idle"
    <3> DEFINE seen == [s \in Server |-> Older(crons[c].seen[s])]
    <3>1. crons[c] \in CronState
      BY DEF TypeOK
    <3>2. seen \in [Server -> 0..Never]
      BY <3>1, OlderBounds DEF CronState
    <3>3. crons[c].age + 1 \in 0..MaxTickAge
      <4>1. crons[c].age < MaxTickAge
        BY <2>2 DEF Minute
      <4>2. crons[c].age \in 0..MaxTickAge
        BY <3>1 DEF CronState
      <4> QED BY <4>1, <4>2, ThresholdsAssumption
    <3>4. crons'[c] = [crons[c] EXCEPT !.age = crons[c].age + 1, !.seen = seen]
      BY <2>2 DEF Minute
    <3>5. \A s \in Server : seen[s] = Older(crons[c].seen[s])
      OBVIOUS
    <3> QED BY <3>1, <3>2, <3>3, <3>4, <3>5 DEF CronState
  <2> QED BY <2>1, <2>2
<1>4. crons' \in [Crons -> CronState]
  BY <1>3 DEF Minute
<1> QED BY <1>1, <1>2, <1>3, <1>4 DEF TypeOK, Minute

\* A push moves on to a step that recordMetrics has.
LEMMA GotoTyped ==
    ASSUME TypeOK, NEW s \in Server, NEW step \in {"record", "recent", "recover", "resolve", "raise"},
           GotoPush(s, step)
    PROVE  /\ pushes' \in [Server -> PushState]
           /\ pushes'[s].step = step
           /\ \A r \in Server : r # s => pushes'[r] = pushes[r]
  BY DEF TypeOK, GotoPush, PushState

\* It returns to idle.
LEMMA ReturnTyped ==
    ASSUME TypeOK, NEW s \in Server, ReturnPush(s)
    PROVE  /\ pushes' \in [Server -> PushState]
           /\ pushes'[s].step = "idle"
           /\ \A r \in Server : r # s => pushes'[r] = pushes[r]
  BY IdleTyped DEF TypeOK, ReturnPush, IdlePush

\* The last part of a push decides on nothing else than the load alert.
LEMMA AfterHeartbeatsTyped ==
    ASSUME TypeOK, NEW s \in Server, AfterHeartbeats(s)
    PROVE  /\ pushes' \in [Server -> PushState]
           /\ pushes'[s].step \in {"idle", "resolve"}
           /\ \A r \in Server : r # s => pushes'[r] = pushes[r]
  BY GotoTyped, ReturnTyped DEF AfterHeartbeats

\* A resolved alert is one less.
LEMMA WithoutTyped ==
    ASSUME TypeOK, NEW s \in Server, NEW t \in Title
    PROVE  Without(s, t) \in [Server -> SUBSET Title]
  BY DEF TypeOK, Without

\* The push and the ping write what the rows have columns for.
LEMMA PushTyped ==
    ASSUME TypeOK, NEW s \in Server,
           Change(s) \/ PushBegin(s) \/ PushStep(s) \/ Heartbeat(s)
    PROVE  TypeOK'
<1>1. CASE Change(s)
  BY <1>1 DEF Change, TypeOK
<1>2. CASE PushBegin(s)
  <2>1. pushes' \in [Server -> PushState]
    BY <1>2 DEF PushBegin, TypeOK, PushState, DetermineStatus, Status
  <2> QED BY <1>2, <2>1 DEF PushBegin, TypeOK
<1>3. CASE RecordMetrics(s)
  <2>1. CASE ~server[s].exists
    BY <1>3, <2>1, ReturnTyped DEF RecordMetrics, TypeOK
  <2>2. CASE server[s].exists
    <3>1. pushes' \in [Server -> PushState]
      BY <1>3, <2>2, GotoTyped DEF RecordMetrics
    <3>2. server' \in [Server -> [exists: BOOLEAN, status: Status, silence: 0..Never]]
      <4>1. pushes[s].status \in Status /\ 0 \in 0..Never
        BY ThresholdsAssumption DEF TypeOK, PushState, Never
      <4>2. server' = [server EXCEPT ![s] =
                         [server[s] EXCEPT !.status = pushes[s].status, !.silence = 0]]
        BY <1>3, <2>2 DEF RecordMetrics, RecordedServer
      <4> QED BY <4>1, <4>2 DEF TypeOK
    <3>3. Chained(metrics[s]) \in [chain: 0..RecoverStreak, age: 0..(MaxGap + 1)]
      BY ThresholdsAssumption DEF Chained, TypeOK
    <3>4. metrics' \in [Server -> [chain: 0..RecoverStreak, age: 0..(MaxGap + 1)]]
      BY <1>3, <2>2, <3>3 DEF RecordMetrics, TypeOK
    <3> QED BY <1>3, <3>1, <3>2, <3>4 DEF RecordMetrics, TypeOK
  <2> QED BY <2>1, <2>2
<1>4. CASE ReadHeartbeats(s)
  BY <1>4, GotoTyped, AfterHeartbeatsTyped DEF ReadHeartbeats, TypeOK
<1>5. CASE ResolveOffline(s)
  BY <1>5, AfterHeartbeatsTyped, WithoutTyped DEF ResolveOffline, TypeOK, Title
<1>6. CASE ResolveDegraded(s)
  BY <1>6, ReturnTyped, WithoutTyped DEF ResolveDegraded, TypeOK, Title
<1>7. CASE RaiseDegraded(s)
  BY <1>7, ReturnTyped DEF RaiseDegraded, TypeOK, Title
<1>8. CASE Heartbeat(s)
  <2>1. 0 \in 0..Never
    BY ThresholdsAssumption DEF Never
  <2>2. server' \in [Server -> [exists: BOOLEAN, status: Status, silence: 0..Never]]
    BY <1>8, <2>1 DEF Heartbeat, TypeOK, Status
  <2> QED BY <1>8, <2>2 DEF Heartbeat, TypeOK
<1> QED BY <1>1, <1>2, <1>3, <1>4, <1>5, <1>6, <1>7, <1>8 DEF PushStep

\* The loop of a tick goes on with the same snapshot, or the tick is over.
LEMMA NextServerTyped ==
    ASSUME NEW t \in CronState
    PROVE  /\ NextServer(t) \in CronState
           /\ NextServer(t).step \in {"idle", "next"}
           /\ NextServer(t).step # "idle" => NextServer(t).seen = t.seen /\ NextServer(t).age = t.age
<1>1. CASE t.todo = {}
  BY <1>1, IdleTyped DEF NextServer, IdleCron
<1>2. CASE t.todo # {}
  BY <1>2 DEF NextServer, CronState
<1> QED BY <1>1, <1>2

\* What a step of a tick makes of it: the same snapshot and age, and a server
\* in hand that it has grounds to act on.
Continues(c, t) ==
    /\ t \in CronState
    /\ crons' = [crons EXCEPT ![c] = t]
    /\ t.step # "idle" => t.seen = crons[c].seen /\ t.age = crons[c].age /\ crons[c].step # "idle"
    /\ t.step \in {"mark", "alert"} => t.server \in Server
    /\ t.step = "alert" => Accused(t, t.server)

\* A step of a tick continues it, and touches of the rows at most a status.
LEMMA CronStepContinues ==
    ASSUME TypeOK, NEW c \in Crons, Grounds(c), CronStep(c)
    PROVE  /\ \E t : Continues(c, t)
           /\ server' \in [Server -> [exists: BOOLEAN, status: Status, silence: 0..Never]]
           /\ \A s \in Server : /\ server'[s].exists = server[s].exists
                                /\ server'[s].silence = server[s].silence
           /\ open' \in [Server -> SUBSET Title]
           /\ UNCHANGED <<load, metrics, pushes, requests, restarts>>
<1> DEFINE old == crons[c]
<1>1. old \in CronState
  BY DEF TypeOK
<1>2. \A t \in CronState :
        SetCron(c, NextServer(t)) /\ t.seen = old.seen /\ t.age = old.age /\ old.step # "idle"
            => Continues(c, NextServer(t))
  BY NextServerTyped DEF SetCron, Continues
<1>3. SetCron(c, IdleCron) => Continues(c, IdleCron)
  BY IdleTyped DEF SetCron, Continues, IdleCron
<1> HIDE DEF old
<1>4. CASE CheckServer(c)
  <2>1. PICK s \in old.todo :
          LET t == [old EXCEPT !.todo = @ \ {s}, !.server = s] IN
          SetCron(c, IF t.seen[s] <= OfflineAfter THEN NextServer(t)
                     ELSE IF s \notin t.offline THEN [t EXCEPT !.step = "mark"]
                     ELSE IF Accused(t, s) THEN [t EXCEPT !.step = "alert"]
                     ELSE NextServer(t))
    BY <1>4 DEF CheckServer, old
  <2> DEFINE t == [old EXCEPT !.todo = @ \ {s}, !.server = s]
  <2>2. /\ t \in CronState
        /\ t.seen = old.seen /\ t.age = old.age /\ t.server = s /\ t.step = old.step
        /\ s \in Server
    BY <1>1, <2>1 DEF CronState
  <2>3. old.step = "next"
    BY <1>4 DEF CheckServer, AtCron, old
  <2>4. SetCron(c, NextServer(t)) \/ SetCron(c, [t EXCEPT !.step = "mark"])
          \/ (Accused(t, s) /\ SetCron(c, [t EXCEPT !.step = "alert"]))
    BY <2>1
  <2> HIDE DEF t
  <2>5. CASE SetCron(c, NextServer(t))
    BY <1>2, <1>4, <2>2, <2>3, <2>5 DEF CheckServer, TypeOK
  <2>6. CASE SetCron(c, [t EXCEPT !.step = "mark"])
    <3>1. Continues(c, [t EXCEPT !.step = "mark"])
      BY <2>2, <2>3, <2>6 DEF SetCron, Continues, CronState, old
    <3> QED BY <1>4, <3>1 DEF CheckServer, TypeOK
  <2>7. CASE Accused(t, s) /\ SetCron(c, [t EXCEPT !.step = "alert"])
    <3>1. Continues(c, [t EXCEPT !.step = "alert"])
      BY <2>2, <2>3, <2>7 DEF SetCron, Continues, CronState, Accused, old
    <3> QED BY <1>4, <3>1 DEF CheckServer, TypeOK
  <2> QED BY <2>4, <2>5, <2>6, <2>7
<1>5. CASE MarkOffline(c)
  <2>1. old.step = "mark" /\ old.server \in Server
    BY <1>5 DEF MarkOffline, AtCron, Grounds, old
  <2>2. CASE SetCron(c, IdleCron) /\ UNCHANGED server
    BY <1>3, <1>5, <2>2 DEF MarkOffline, TypeOK
  <2>3. CASE server' = [server EXCEPT ![old.server].status = "OFFLINE"]
    <3>1. /\ server' \in [Server -> [exists: BOOLEAN, status: Status, silence: 0..Never]]
          /\ \A s \in Server : /\ server'[s].exists = server[s].exists
                               /\ server'[s].silence = server[s].silence
      BY <2>1, <2>3 DEF TypeOK, Status
    <3>2. CASE SetCron(c, NextServer(old))
      BY <1>1, <1>2, <1>5, <2>1, <3>1, <3>2 DEF MarkOffline, TypeOK
    <3>3. CASE Accused(old, old.server) /\ SetCron(c, [old EXCEPT !.step = "alert"])
      <4>1. Continues(c, [old EXCEPT !.step = "alert"])
        BY <1>1, <2>1, <3>3 DEF SetCron, Continues, CronState, Accused, old
      <4> QED BY <1>5, <3>1, <4>1 DEF MarkOffline, TypeOK
    <3>4. CASE SetCron(c, IdleCron)
      BY <1>3, <1>5, <3>1, <3>4 DEF MarkOffline, TypeOK
    <3> QED BY <1>5, <3>2, <3>3, <3>4 DEF MarkOffline, old
  <2> QED BY <1>5, <2>2, <2>3 DEF MarkOffline, old
<1>6. CASE AlertOffline(c)
  <2>1. old.step = "alert" /\ old.server \in Server
    BY <1>6 DEF AlertOffline, AtCron, Grounds, old
  <2>2. open' \in [Server -> SUBSET Title]
    BY <1>6, <2>1 DEF AlertOffline, TypeOK, Title, old
  <2>3. SetCron(c, IdleCron) \/ SetCron(c, NextServer(old))
    BY <1>6 DEF AlertOffline, old
  <2>4. \E t : Continues(c, t)
    BY <1>1, <1>2, <1>3, <2>1, <2>3
  <2> QED BY <1>6, <2>2, <2>4 DEF AlertOffline, TypeOK
<1> QED BY <1>4, <1>5, <1>6 DEF CronStep

\* A tick starts with a fresh snapshot.
LEMMA CronTickStarts ==
    ASSUME TypeOK, NEW c \in Crons, CronTick(c)
    PROVE  \E t \in CronState :
             /\ crons' = [crons EXCEPT ![c] = t]
             /\ t.step \in {"idle", "next"}
             /\ t.step # "idle" => /\ t.age = 0
                                   /\ \A s \in Server : t.seen[s] = server[s].silence
<1> DEFINE seen == {s \in Server : server[s].exists /\ server[s].silence # Never}
           t == [IdleCron EXCEPT !.todo = seen,
                                 !.seen = [s \in Server |-> server[s].silence],
                                 !.offline = {s \in seen : server[s].status = "OFFLINE"}]
<1>1. [s \in Server |-> server[s].silence] \in [Server -> 0..Never]
  BY DEF TypeOK
<1>2. /\ t \in CronState
      /\ t.age = 0
      /\ t.seen = [s \in Server |-> server[s].silence]
  BY <1>1, IdleTyped DEF CronState, IdleCron
<1>3. crons' = [crons EXCEPT ![c] = NextServer(t)]
  BY DEF CronTick, SetCron
<1>4. \A s \in Server : t.seen[s] = server[s].silence
  BY <1>2
<1> HIDE DEF t, seen
<1>5. /\ NextServer(t) \in CronState
      /\ NextServer(t).step \in {"idle", "next"}
      /\ NextServer(t).step # "idle" => NextServer(t).seen = t.seen /\ NextServer(t).age = t.age
  BY <1>2, NextServerTyped
<1> QED BY <1>2, <1>3, <1>4, <1>5

\* Operators and restarts write what the rows have columns for.
LEMMA OperatorTyped ==
    ASSUME TypeOK, NEW o \in Operators, Remove(o) \/ DeleteServer(o) \/ CloseByHand(o)
    PROVE  TypeOK'
<1>1. CASE Remove(o)
  BY <1>1 DEF Remove, TypeOK
<1>2. CASE DeleteServer(o)
  <2>1. requests[o] \in Server
    BY <1>2 DEF DeleteServer, TypeOK
  <2>2. server' \in [Server -> [exists: BOOLEAN, status: Status, silence: 0..Never]]
    BY <1>2, <2>1 DEF DeleteServer, TypeOK
  <2>3. metrics' \in [Server -> [chain: 0..RecoverStreak, age: 0..(MaxGap + 1)]]
    BY <1>2, <2>1, ThresholdsAssumption DEF DeleteServer, TypeOK
  <2> QED BY <1>2, <2>2, <2>3 DEF DeleteServer, TypeOK
<1>3. CASE CloseByHand(o)
  BY <1>3 DEF CloseByHand, TypeOK
<1> QED BY <1>1, <1>2, <1>3

\* So does a restart.
LEMMA RestartTyped == TypeOK /\ Restart => TypeOK'
  BY IdleTyped, ThresholdsAssumption DEF Restart, TypeOK

-----------------------------------------------------------------------------
(* The invariant *)

\* It holds before anything was seen of a server.
LEMMA InitHealth == Init => HealthInv
<1> SUFFICES ASSUME Init PROVE HealthInv
  OBVIOUS
<1>1. ASSUME NEW s \in Server PROVE Punctual(s) /\ Streak(s)
  BY ThresholdsAssumption DEF Init, Punctual, Streak, AtPush, IdlePush
<1>2. ASSUME NEW c \in Crons PROVE Grounds(c) /\ \A s \in Server : Late(c, s)
  BY DEF Init, Grounds, Late, IdleCron
<1> QED BY <1>1, <1>2 DEF HealthInv

\* What is said of the ticks rests on the metrics and on the ticks.
LEMMA TicksKept ==
    ASSUME HealthInv, UNCHANGED <<metrics, crons>>
    PROVE  \A c \in Crons : Grounds(c)' /\ \A s \in Server : Late(c, s)'
  BY DEF HealthInv, Grounds, Late, Accused

\* What is said of the pushes rests on them, on the metrics and on the rows.
LEMMA PushesKept ==
    ASSUME HealthInv, UNCHANGED <<metrics, pushes>>,
           \A s \in Server : /\ server'[s].exists => server[s].exists
                             /\ server'[s].silence = server[s].silence
    PROVE  \A s \in Server : Punctual(s)' /\ Streak(s)'
  BY DEF HealthInv, Punctual, Streak, AtPush

\* In a minute the newest metric grows as old as the tick and the silence.
LEMMA MinuteHealth == TypeOK /\ HealthInv /\ Minute => HealthInv'
<1> SUFFICES ASSUME TypeOK, HealthInv, Minute PROVE HealthInv'
  OBVIOUS
<1>1. ASSUME NEW s \in Server
      PROVE  /\ metrics[s].age \in 0..(MaxGap + 1) /\ metrics[s].chain \in 0..RecoverStreak
             /\ server[s].silence \in 0..Never
             /\ server'[s].exists = server[s].exists
             /\ server'[s].silence = Older(server[s].silence)
             /\ metrics'[s].chain = metrics[s].chain
             /\ metrics[s].age <= MaxGap => metrics'[s].age = metrics[s].age + 1
             /\ metrics[s].age > MaxGap => metrics'[s].age = metrics[s].age
             /\ pushes'[s] = pushes[s]
  <2>1. /\ server[s] \in [exists: BOOLEAN, status: Status, silence: 0..Never]
        /\ metrics[s] \in [chain: 0..RecoverStreak, age: 0..(MaxGap + 1)]
    BY DEF TypeOK
  <2>2. /\ metrics[s].age \in 0..(MaxGap + 1) /\ metrics[s].chain \in 0..RecoverStreak
        /\ server[s].silence \in 0..Never
    BY <2>1
  <2>3. /\ server'[s] = [server[s] EXCEPT !.silence = Older(@)]
        /\ metrics'[s] = [metrics[s] EXCEPT !.age = IF @ <= MaxGap THEN @ + 1 ELSE @]
        /\ pushes'[s] = pushes[s]
    BY DEF Minute
  <2>4. ~(metrics[s].age <= MaxGap) <=> metrics[s].age > MaxGap
    BY <2>2, ThresholdsAssumption
  <2> QED BY <2>1, <2>2, <2>3, <2>4
<1>2. ASSUME NEW s \in Server PROVE Punctual(s)' /\ Streak(s)'
  <2>1. Punctual(s) /\ Streak(s)
    BY DEF HealthInv
  <2>2. server'[s].silence <= server[s].silence + 1 /\ server'[s].silence \in 0..Never
    BY <1>1, OlderBounds
  <2>3. metrics'[s].age <= MaxGap => server'[s].silence <= metrics'[s].age
    BY <1>1, <2>1, <2>2, ThresholdsAssumption DEF Punctual, Never
  <2>4. AtPush(s, "record")' => metrics'[s].age >= 1
    BY <1>1, <2>1, ThresholdsAssumption DEF Punctual, AtPush
  <2>5. Streak(s)'
    BY <1>1, <2>1 DEF Streak, AtPush
  <2> QED BY <2>3, <2>4, <2>5 DEF Punctual
<1>3. ASSUME NEW c \in Crons PROVE Grounds(c)' /\ \A s \in Server : Late(c, s)'
  <2>1. Grounds(c) /\ \A s \in Server : Late(c, s)
    BY DEF HealthInv
  <2>2. /\ crons'[c].step = crons[c].step
        /\ crons'[c].server = crons[c].server
        /\ crons[c].step # "idle" => crons'[c].age = crons[c].age + 1
        /\ crons[c].step # "idle" =>
             \A s \in Server : crons'[c].seen[s] = Older(crons[c].seen[s])
    BY MinuteTyped
  <2>3. crons[c].age \in Nat /\ crons[c].seen \in [Server -> 0..Never]
    BY ThresholdsAssumption DEF TypeOK, CronState
  <2>4. ASSUME NEW s \in Server, crons[c].step # "idle"
        PROVE  /\ crons[c].seen[s] \in 0..Never /\ crons'[c].seen[s] \in 0..Never
               /\ crons[c].seen[s] <= crons'[c].seen[s]
               /\ crons'[c].seen[s] <= crons[c].seen[s] + 1
    BY <2>2, <2>3, <2>4, OlderBounds
  <2>5. Grounds(c)'
    <3>1. crons[c].step \in {"mark", "alert"} => crons[c].server \in Server
      BY <2>1 DEF Grounds
    <3>2. ASSUME crons[c].step = "alert" PROVE Accused(crons[c], crons[c].server)'
      <4>1. crons[c].seen[crons[c].server] >= AlertAfter
        BY <2>1, <3>2 DEF Grounds, Accused
      <4>2. crons'[c].seen[crons[c].server] >= AlertAfter
        BY <2>4, <3>1, <3>2, <4>1, ThresholdsAssumption DEF Never
      <4> QED BY <2>2, <4>2 DEF Accused
    <3> QED BY <2>2, <3>1, <3>2 DEF Grounds
  <2>6. ASSUME NEW s \in Server PROVE Late(c, s)'
    <3> SUFFICES ASSUME crons[c].step # "idle", crons'[c].seen[s] > MaxGap + crons'[c].age
                 PROVE  metrics'[s].age > MaxGap
                          \/ metrics'[s].chain + metrics'[s].age <= 1 + crons'[c].age
      BY <2>2 DEF Late
    <3>1. crons[c].seen[s] > MaxGap + crons[c].age
      BY <2>2, <2>3, <2>4, ThresholdsAssumption DEF Never
    <3>2. metrics[s].age > MaxGap \/ metrics[s].chain + metrics[s].age <= 1 + crons[c].age
      BY <2>1, <3>1 DEF Late
    <3> QED BY <1>1, <2>2, <2>3, <3>2, ThresholdsAssumption
  <2> QED BY <2>5, <2>6
<1> QED BY <1>2, <1>3 DEF HealthInv

\* A metric that follows a tick's snapshot uses up the interval it waited for.
LEMMA RecordHealth ==
    ASSUME TypeOK, HealthInv, NEW s \in Server, RecordMetrics(s) PROVE HealthInv'
<1>1. CASE ~server[s].exists
  <2>1. /\ UNCHANGED <<server, metrics, crons>>
        /\ pushes'[s].step = "idle"
        /\ \A r \in Server : r # s => pushes'[r] = pushes[r]
    BY <1>1, ReturnTyped DEF RecordMetrics
  <2>2. \A r \in Server : Punctual(r)' /\ Streak(r)'
    BY <2>1 DEF HealthInv, Punctual, Streak, AtPush
  <2> QED BY <2>1, <2>2, TicksKept DEF HealthInv
<1>2. CASE server[s].exists
  <2>1. /\ server' = [server EXCEPT ![s] = RecordedServer(server[s], pushes[s].status)]
        /\ metrics' = [metrics EXCEPT ![s] = Chained(metrics[s])]
        /\ UNCHANGED crons
        /\ pushes'[s].step \in {"recent", "raise"}
        /\ \A r \in Server : r # s => pushes'[r] = pushes[r]
    BY <1>2, GotoTyped DEF RecordMetrics
  <2>2. /\ metrics[s].age \in 0..(MaxGap + 1) /\ metrics[s].chain \in 0..RecoverStreak
        /\ metrics[s].age >= 1
    <3>1. metrics[s] \in [chain: 0..RecoverStreak, age: 0..(MaxGap + 1)]
      BY DEF TypeOK
    <3>2. metrics[s].age >= 1
      BY DEF RecordMetrics, HealthInv, Punctual
    <3> QED BY <3>1, <3>2
  <2>3. /\ metrics'[s].age = 0
        /\ metrics'[s].chain \in Nat
        /\ metrics[s].age > MaxGap => metrics'[s].chain = 1
        /\ metrics[s].age <= MaxGap => metrics'[s].chain <= metrics[s].chain + 1
        /\ server'[s].silence = 0
    <3>1. metrics'[s] = Chained(metrics[s])
      BY <2>1 DEF TypeOK
    <3>2. server'[s].silence = 0
      BY <2>1 DEF TypeOK, RecordedServer
    <3>3. CASE metrics[s].age > MaxGap
      BY <2>2, <3>1, <3>2, <3>3, ThresholdsAssumption DEF Chained
    <3>4. CASE ~(metrics[s].age > MaxGap)
      BY <2>2, <3>1, <3>2, <3>4, ThresholdsAssumption DEF Chained
    <3> QED BY <3>3, <3>4
  <2>4. \A r \in Server : r # s => server'[r] = server[r] /\ metrics'[r] = metrics[r]
    BY <2>1 DEF TypeOK
  <2>5. ASSUME NEW r \in Server PROVE Punctual(r)' /\ Streak(r)'
    <3>1. CASE r = s
      BY <2>1, <2>3, <3>1 DEF Punctual, Streak, AtPush
    <3>2. CASE r # s
      BY <2>1, <2>4, <3>2 DEF HealthInv, Punctual, Streak, AtPush
    <3> QED BY <3>1, <3>2
  <2>6. ASSUME NEW c \in Crons PROVE Grounds(c)'
    BY <2>1 DEF HealthInv, Grounds, Accused
  <2>7. ASSUME NEW c \in Crons, NEW r \in Server PROVE Late(c, r)'
    <3>1. CASE r = s
      <4>1. crons[c].age \in Nat
        BY ThresholdsAssumption DEF TypeOK, CronState
      <4>2. ASSUME metrics[s].age > MaxGap
                     \/ metrics[s].chain + metrics[s].age <= 1 + crons[c].age
            PROVE  metrics'[s].chain + metrics'[s].age <= 1 + crons[c].age
        BY <2>2, <2>3, <4>1, <4>2, ThresholdsAssumption
      <4> QED BY <2>1, <3>1, <4>2 DEF HealthInv, Late
    <3>2. CASE r # s
      BY <2>1, <2>4, <3>2 DEF HealthInv, Late
    <3> QED BY <3>1, <3>2
  <2> QED BY <2>5, <2>6, <2>7 DEF HealthInv
<1> QED BY <1>1, <1>2

\* The other steps of a push change no metrics, and a ping none either.
LEMMA PushHealth ==
    ASSUME TypeOK, HealthInv, NEW s \in Server,
           Change(s) \/ PushBegin(s) \/ PushStep(s) \/ Heartbeat(s)
    PROVE  HealthInv'
<1>1. CASE Change(s)
  <2>1. UNCHANGED <<server, metrics, pushes, crons>>
    BY <1>1 DEF Change
  <2> QED BY <2>1, TicksKept, PushesKept DEF HealthInv
<1>2. CASE PushBegin(s)
  <2>1. /\ UNCHANGED <<server, metrics, crons>>
        /\ metrics[s].age >= 1
        /\ pushes'[s].step = "record"
        /\ \A r \in Server : r # s => pushes'[r] = pushes[r]
    BY <1>2 DEF PushBegin, TypeOK
  <2>2. \A r \in Server : Punctual(r)' /\ Streak(r)'
    BY <2>1 DEF HealthInv, Punctual, Streak, AtPush
  <2> QED BY <2>1, <2>2, TicksKept DEF HealthInv
<1>3. CASE RecordMetrics(s)
  BY <1>3, RecordHealth
<1>4. CASE ReadHeartbeats(s)
  <2>1. /\ UNCHANGED <<server, metrics, crons>>
        /\ pushes'[s].step # "record"
        /\ pushes'[s].step = "recover" => metrics[s].chain >= RecoverStreak
        /\ \A r \in Server : r # s => pushes'[r] = pushes[r]
    BY <1>4, GotoTyped, AfterHeartbeatsTyped DEF ReadHeartbeats, HasConsecutiveHeartbeats
  <2>2. \A r \in Server : Punctual(r)' /\ Streak(r)'
    BY <2>1 DEF HealthInv, Punctual, Streak, AtPush
  <2> QED BY <2>1, <2>2, TicksKept DEF HealthInv
<1>5. CASE ResolveOffline(s) \/ ResolveDegraded(s) \/ RaiseDegraded(s)
  <2>1. /\ UNCHANGED <<server, metrics, crons>>
        /\ pushes'[s].step \in {"idle", "resolve"}
        /\ \A r \in Server : r # s => pushes'[r] = pushes[r]
    BY <1>5, AfterHeartbeatsTyped, ReturnTyped DEF ResolveOffline, ResolveDegraded, RaiseDegraded
  <2>2. \A r \in Server : Punctual(r)' /\ Streak(r)'
    BY <2>1 DEF HealthInv, Punctual, Streak, AtPush
  <2> QED BY <2>1, <2>2, TicksKept DEF HealthInv
<1>6. CASE Heartbeat(s)
  <2>1. /\ UNCHANGED <<metrics, pushes, crons>>
        /\ server[s].exists /\ server'[s].silence = 0
        /\ \A r \in Server : r # s => server'[r] = server[r]
        /\ \A r \in Server : metrics[r].age \in Nat
    BY <1>6, ThresholdsAssumption DEF Heartbeat, TypeOK
  <2>2. ASSUME NEW r \in Server PROVE Punctual(r)' /\ Streak(r)'
    <3>1. CASE r = s
      BY <2>1, <3>1 DEF HealthInv, Punctual, Streak, AtPush
    <3>2. CASE r # s
      BY <2>1, <3>2 DEF HealthInv, Punctual, Streak, AtPush
    <3> QED BY <3>1, <3>2
  <2> QED BY <2>1, <2>2, TicksKept DEF HealthInv
<1> QED BY <1>1, <1>2, <1>3, <1>4, <1>5, <1>6 DEF PushStep

\* A tick reads silences that the metrics of the moment confirm.
LEMMA CronTickHealth ==
    ASSUME TypeOK, HealthInv, NEW c \in Crons, CronTick(c) PROVE HealthInv'
<1>1. PICK t \in CronState :
        /\ crons' = [crons EXCEPT ![c] = t]
        /\ t.step \in {"idle", "next"}
        /\ t.step # "idle" => /\ t.age = 0
                              /\ \A s \in Server : t.seen[s] = server[s].silence
  BY CronTickStarts
<1>2. UNCHANGED <<server, metrics, pushes>>
  BY DEF CronTick
<1>3. crons'[c] = t /\ \A d \in Crons : d # c => crons'[d] = crons[d]
  BY <1>1 DEF TypeOK
<1>4. ASSUME NEW d \in Crons PROVE Grounds(d)'
  BY <1>1, <1>3 DEF HealthInv, Grounds, Accused
<1>5. ASSUME NEW d \in Crons, NEW s \in Server PROVE Late(d, s)'
  <2>1. CASE d = c
    <3> SUFFICES ASSUME t.step # "idle", t.seen[s] > MaxGap + t.age PROVE metrics[s].age > MaxGap
      BY <1>2, <1>3, <2>1 DEF Late
    <3>1. server[s].silence > MaxGap
      BY <1>1, ThresholdsAssumption
    <3>2. metrics[s].age <= MaxGap => server[s].silence <= metrics[s].age
      BY DEF HealthInv, Punctual
    <3>3. metrics[s].age \in Nat /\ server[s].silence \in Nat
      BY ThresholdsAssumption DEF TypeOK, Never
    <3> QED BY <3>1, <3>2, <3>3, ThresholdsAssumption
  <2>2. CASE d # c
    BY <1>2, <1>3, <2>2 DEF HealthInv, Late
  <2> QED BY <2>1, <2>2
<1> QED BY <1>2, <1>4, <1>5, PushesKept DEF HealthInv

\* A step of a tick goes on with the snapshot it has.
LEMMA CronStepHealth ==
    ASSUME TypeOK, HealthInv, NEW c \in Crons, CronStep(c) PROVE HealthInv'
<1>1. Grounds(c)
  BY DEF HealthInv
<1>2. /\ \A s \in Server : /\ server'[s].exists = server[s].exists
                           /\ server'[s].silence = server[s].silence
      /\ UNCHANGED <<metrics, pushes>>
  BY <1>1, CronStepContinues
<1>3. PICK t : Continues(c, t)
  BY <1>1, CronStepContinues
<1>4. crons'[c] = t /\ \A d \in Crons : d # c => crons'[d] = crons[d]
  BY <1>3 DEF Continues, TypeOK
<1>5. ASSUME NEW d \in Crons PROVE Grounds(d)'
  BY <1>3, <1>4 DEF HealthInv, Grounds, Accused, Continues
<1>6. ASSUME NEW d \in Crons, NEW s \in Server PROVE Late(d, s)'
  BY <1>2, <1>3, <1>4 DEF HealthInv, Late, Continues
<1> QED BY <1>2, <1>5, <1>6, PushesKept DEF HealthInv

\* An operator who deletes a server takes its metrics with it.
LEMMA OperatorHealth ==
    ASSUME TypeOK, HealthInv, NEW o \in Operators, Remove(o) \/ DeleteServer(o) \/ CloseByHand(o)
    PROVE  HealthInv'
<1>1. CASE Remove(o) \/ CloseByHand(o)
  <2>1. UNCHANGED <<server, metrics, pushes, crons>>
    BY <1>1 DEF Remove, CloseByHand
  <2> QED BY <2>1, TicksKept, PushesKept DEF HealthInv
<1>2. CASE DeleteServer(o)
  <2> DEFINE s == requests[o]
  <2>1. s \in Server
    BY <1>2 DEF DeleteServer, TypeOK
  <2>2. /\ UNCHANGED <<pushes, crons>>
        /\ ~server'[s].exists /\ server'[s].silence = server[s].silence
        /\ metrics'[s].chain = 0 /\ metrics'[s].age = metrics[s].age
        /\ \A r \in Server : r # s => server'[r] = server[r] /\ metrics'[r] = metrics[r]
    BY <1>2, <2>1 DEF DeleteServer, TypeOK
  <2>3. \A r \in Server : metrics[r].chain \in Nat /\ metrics[r].age \in Nat
    BY ThresholdsAssumption DEF TypeOK
  <2> HIDE DEF s
  <2>4. ASSUME NEW r \in Server PROVE Punctual(r)' /\ Streak(r)'
    <3>1. CASE r = s
      BY <2>2, <3>1 DEF HealthInv, Punctual, Streak, AtPush
    <3>2. CASE r # s
      BY <2>2, <3>2 DEF HealthInv, Punctual, Streak, AtPush
    <3> QED BY <3>1, <3>2
  <2>5. ASSUME NEW c \in Crons PROVE Grounds(c)'
    BY <2>2 DEF HealthInv, Grounds, Accused
  <2>6. ASSUME NEW c \in Crons, NEW r \in Server PROVE Late(c, r)'
    <3>1. CASE r = s
      <4>1. crons[c].age \in Nat
        BY ThresholdsAssumption DEF TypeOK, CronState
      <4>2. metrics[s].chain + metrics[s].age <= 1 + crons[c].age
              => metrics'[s].chain + metrics'[s].age <= 1 + crons[c].age
        BY <2>1, <2>2, <2>3, <4>1
      <4> QED BY <2>1, <2>2, <3>1, <4>2 DEF HealthInv, Late
    <3>2. CASE r # s
      BY <2>2, <3>2 DEF HealthInv, Late
    <3> QED BY <3>1, <3>2
  <2> QED BY <2>4, <2>5, <2>6 DEF HealthInv
<1> QED BY <1>1, <1>2

\* A restart leaves no push and no tick.
LEMMA RestartHealth == TypeOK /\ HealthInv /\ Restart => HealthInv'
<1> SUFFICES ASSUME TypeOK, HealthInv, Restart PROVE HealthInv'
  OBVIOUS
<1>1. ASSUME NEW s \in Server PROVE Punctual(s)' /\ Streak(s)'
  BY DEF Restart, HealthInv, Punctual, Streak, AtPush, IdlePush
<1>2. ASSUME NEW c \in Crons PROVE Grounds(c)' /\ \A s \in Server : Late(c, s)'
  BY DEF Restart, Grounds, Late, IdleCron
<1> QED BY <1>1, <1>2 DEF HealthInv

-----------------------------------------------------------------------------
(* Every step *)

\* A step of a tick and its start keep the types.
LEMMA CronTyped ==
    ASSUME TypeOK, HealthInv, NEW c \in Crons, CronTick(c) \/ CronStep(c) PROVE TypeOK'
<1>1. CASE CronTick(c)
  <2>1. PICK t \in CronState : crons' = [crons EXCEPT ![c] = t]
    BY <1>1, CronTickStarts
  <2>2. crons' \in [Crons -> CronState]
    BY <2>1 DEF TypeOK
  <2> QED BY <1>1, <2>2 DEF CronTick, TypeOK
<1>2. CASE CronStep(c)
  <2>1. Grounds(c)
    BY DEF HealthInv
  <2>2. PICK t : Continues(c, t)
    BY <1>2, <2>1, CronStepContinues
  <2>3. crons' \in [Crons -> CronState]
    BY <2>2 DEF TypeOK, Continues
  <2> QED BY <1>2, <2>1, <2>3, CronStepContinues DEF TypeOK
<1> QED BY <1>1, <1>2

\* No step leaves the types or the invariant.
LEMMA NextKeeps == TypeOK /\ HealthInv /\ [Next]_vars => TypeOK' /\ HealthInv'
<1> SUFFICES ASSUME TypeOK, HealthInv, [Next]_vars PROVE TypeOK' /\ HealthInv'
  OBVIOUS
<1>1. ASSUME NEW s \in Server, Change(s) \/ PushBegin(s) \/ PushStep(s) \/ Heartbeat(s)
      PROVE  TypeOK' /\ HealthInv'
  BY <1>1, PushTyped, PushHealth
<1>2. ASSUME NEW c \in Crons, CronTick(c) \/ CronStep(c) PROVE TypeOK' /\ HealthInv'
  BY <1>2, CronTyped, CronTickHealth, CronStepHealth
<1>3. ASSUME NEW o \in Operators, Remove(o) \/ DeleteServer(o) \/ CloseByHand(o)
      PROVE  TypeOK' /\ HealthInv'
  BY <1>3, OperatorTyped, OperatorHealth
<1>4. CASE Minute
  BY <1>4, MinuteTyped, MinuteHealth
<1>5. CASE Restart
  BY <1>5, RestartTyped, RestartHealth
<1>6. CASE UNCHANGED vars
  <2>1. UNCHANGED <<server, metrics, pushes, crons>>
    BY <1>6 DEF vars
  <2>2. HealthInv'
    BY <2>1, TicksKept, PushesKept DEF HealthInv
  <2> QED BY <1>6, <2>2 DEF vars, TypeOK
<1> QED BY <1>1, <1>2, <1>3, <1>4, <1>5, <1>6 DEF Next

\* Every variable keeps its type, and the invariant holds: a metric is never
\* younger than the silence, a tick's late server has sent at most one metric
\* a minute since, and what is decided is decided on such grounds.
THEOREM HealthInvariant == Spec => [](TypeOK /\ HealthInv)
<1>1. Init => TypeOK /\ HealthInv
  BY InitTyped, InitHealth
<1>2. (TypeOK /\ HealthInv) /\ [Next]_vars => (TypeOK /\ HealthInv)'
  BY NextKeeps
<1> QED BY <1>1, <1>2, PTL DEF Spec

\* Every variable of the server health keeps its type.
THEOREM TypeCorrect == Spec => []TypeOK
<1> QED BY HealthInvariant, PTL

-----------------------------------------------------------------------------
(* Accusations and recoveries *)

\* A tick is over before a silent server can have sent enough metrics to pass
\* for steady.
Prompt == MaxTickAge + 1 < RecoverStreak

\* Only a tick that has grounds adds an outage, and its server is not steady.
LEMMA OnlyLateAccused ==
    ASSUME Prompt, TypeOK, HealthInv, [Next]_vars, NEW s \in Server,
           "offline" \in open'[s] \ open[s]
    PROVE  ~Steady(s)
<1>1. PICK c \in Crons : AlertOffline(c)
  <2>1. ASSUME NEW r \in Server, Change(r) \/ PushBegin(r) \/ PushStep(r) \/ Heartbeat(r)
        PROVE  FALSE
    <3>1. ResolveOffline(r) \/ ResolveDegraded(r) \/ RaiseDegraded(r)
      BY <2>1 DEF Change, PushBegin, PushStep, Heartbeat, RecordMetrics, ReadHeartbeats
    <3>2. ~ResolveOffline(r) /\ ~ResolveDegraded(r)
      BY DEF ResolveOffline, ResolveDegraded, Without, TypeOK
    <3>3. ~RaiseDegraded(r)
      BY DEF RaiseDegraded, TypeOK
    <3> QED BY <3>1, <3>2, <3>3
  <2>2. ASSUME NEW c \in Crons, CronTick(c) \/ CheckServer(c) \/ MarkOffline(c) PROVE FALSE
    BY <2>2 DEF CronTick, CheckServer, MarkOffline
  <2>3. ASSUME NEW o \in Operators, Remove(o) \/ DeleteServer(o) \/ CloseByHand(o) PROVE FALSE
    BY <2>3 DEF Remove, DeleteServer, CloseByHand, TypeOK
  <2>4. ~(Minute \/ Restart \/ UNCHANGED vars)
    BY DEF Minute, Restart, vars
  <2> QED BY <2>1, <2>2, <2>3, <2>4 DEF Next, CronStep
<1>2. crons[c].step = "alert" /\ crons[c].server = s
  BY <1>1 DEF AlertOffline, AtCron, TypeOK
<1>3. crons[c].seen[s] >= AlertAfter /\ Late(c, s)
  BY <1>2 DEF HealthInv, Grounds, Accused
<1>4. /\ crons[c].age \in 0..MaxTickAge /\ crons[c].seen[s] \in Nat
      /\ metrics[s].chain \in Nat /\ metrics[s].age \in Nat
  <2>1. crons[c] \in CronState /\ metrics[s] \in [chain: 0..RecoverStreak, age: 0..(MaxGap + 1)]
    BY DEF TypeOK
  <2> QED BY <2>1, ThresholdsAssumption DEF CronState, Never
<1>5. crons[c].seen[s] > MaxGap + crons[c].age
  BY <1>3, <1>4, ThresholdsAssumption
<1>6. metrics[s].age > MaxGap \/ metrics[s].chain + metrics[s].age <= 1 + crons[c].age
  BY <1>2, <1>3, <1>5 DEF Late
<1> QED BY <1>4, <1>6, ThresholdsAssumption DEF Steady, Prompt

\* If ticks are prompt, none accuses a server whose last heartbeats form a tight
\* chain of the length a recovery asks for.
THEOREM SteadyNeverAccused == ASSUME Prompt PROVE Spec => SteadyServerNotAccused
<1> DEFINE Fine == \A s \in Server : "offline" \in open'[s] \ open[s] => ~Steady(s)
<1>1. TypeOK /\ HealthInv /\ [Next]_vars => [Fine]_vars
  BY OnlyLateAccused
<1> QED BY <1>1, HealthInvariant, PTL DEF Spec, SteadyServerNotAccused

\* Only the step that resolves an outage removes one while it moves a push on.
LEMMA OnlyStreaksRecover ==
    ASSUME TypeOK, HealthInv, [Next]_vars, NEW s \in Server,
           pushes'[s] # pushes[s], "offline" \in open[s] \ open'[s]
    PROVE  metrics[s].chain >= RecoverStreak
<1>1. ResolveOffline(s)
  <2>1. ASSUME NEW r \in Server, Change(r) \/ PushBegin(r) \/ PushStep(r) \/ Heartbeat(r)
        PROVE  ResolveOffline(s)
    <3>1. ResolveOffline(r) \/ ResolveDegraded(r) \/ RaiseDegraded(r)
      BY <2>1 DEF Change, PushBegin, PushStep, Heartbeat, RecordMetrics, ReadHeartbeats
    <3>2. ~ResolveDegraded(r) /\ ~RaiseDegraded(r)
      BY DEF ResolveDegraded, RaiseDegraded, Without, TypeOK
    <3>3. ResolveOffline(r) => r = s
      BY DEF ResolveOffline, Without, TypeOK
    <3> QED BY <3>1, <3>2, <3>3
  <2>2. ASSUME NEW c \in Crons, CronTick(c) \/ CronStep(c) PROVE FALSE
    BY <2>2 DEF CronTick, CronStep, CheckServer, MarkOffline, AlertOffline
  <2>3. ASSUME NEW o \in Operators, Remove(o) \/ DeleteServer(o) \/ CloseByHand(o) PROVE FALSE
    BY <2>3 DEF Remove, DeleteServer, CloseByHand
  <2>4. ~(Minute \/ Restart \/ UNCHANGED vars)
    BY DEF Minute, Restart, vars
  <2> QED BY <2>1, <2>2, <2>3, <2>4 DEF Next
<1>2. server[s].exists
  BY <1>1 DEF ResolveOffline, Without, TypeOK
<1> QED BY <1>1, <1>2 DEF ResolveOffline, HealthInv, Streak

\* A push ends an outage only when the server's metrics still form the chain that
\* a recovery asks for, whatever happened since the push counted them.
THEOREM RecoveryAlwaysConfirmed == Spec => RecoveryConfirmed
<1> DEFINE Fine ==
      \A s \in Server : pushes'[s] # pushes[s] /\ "offline" \in open[s] \ open'[s]
                            => metrics[s].chain >= RecoverStreak
<1>1. TypeOK /\ HealthInv /\ [Next]_vars => [Fine]_vars
  BY OnlyStreaksRecover
<1> QED BY <1>1, HealthInvariant, PTL DEF Spec, RecoveryConfirmed

=============================================================================
