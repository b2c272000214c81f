---------------------- MODULE WebsiteMonitoringProofs ----------------------
(***************************************************************************)
(* Proofs about WebsiteMonitoring for any sites, ticks, operators, worlds  *)
(* and streak lengths.                                                     *)
(***************************************************************************)
EXTENDS WebsiteMonitoring, FiniteSetTheorems, SequenceTheorems, TLAPS

\* The verdicts a probe can come to.
Verdict(r) == [status |-> AvailabilityStatus(r), code |-> r.code]
Checked == {Verdict(r) : r \in Response}

\* A tick that probed a site has the site and the verdict in hand, and calls
\* to make until it made the last.
InHand(p) ==
    /\ ticks[p].step \in {"record", "update", "recent", "alert"} =>
          ticks[p].site \in Site /\ ticks[p].result \in Checked
    /\ ticks[p].step = "alert" => ticks[p].plan # <<>>

Addressed(o) == requests[o].step # "idle" => requests[o].site \in Site

TypeInv ==
    /\ TypeOK
    /\ \A p \in Ticks : InHand(p)
    /\ \A o \in Operators : Addressed(o)

Planned(plan, call) == \E i \in 1..Len(plan) : plan[i] = call

\* The newest rows of a site bear out what a plan says of its availability.
BorneOut(s, plan) ==
    /\ Planned(plan, Create("offline")) => LastRows(s, FailStreak, Down)
    /\ Planned(plan, Create("degraded")) => LastRows(s, FailStreak, Degraded)
    /\ Planned(plan, Resolve("offline")) => LastRows(s, RecoverStreak, Recovered)

\* The rows a plan was made on are still the newest, or the site is gone.
Grounded(p) ==
    ticks[p].step = "alert" /\ website[ticks[p].site].exists
        => BorneOut(ticks[p].site, ticks[p].plan)

\* A tick that the world does not have never starts.
ConfirmInv ==
    /\ \A p \in Ticks : p \notin world.ticks => ticks[p].step = "idle"
    /\ Cardinality(world.ticks) = 1 => \A p \in Ticks : Grounded(p)

-----------------------------------------------------------------------------
(* Worlds, verdicts and plans *)

\* A world allows answers, certificates and ticks there are.
LEMMA WorldTyped ==
    ASSUME TypeOK
    PROVE  /\ world.responses \subseteq Response
           /\ world.certificates \subseteq Certificate
           /\ world.ticks \subseteq Ticks /\ world.operators \subseteq Operators
  BY WorldsAssumption DEF TypeOK, World

\* The status of a verdict fits its code, so a check is down, degraded or
\* recovered, and one of these only.
LEMMA VerdictFits ==
    ASSUME NEW c \in Checked
    PROVE  /\ c \in CheckRow
           /\ c.status = "DEGRADED" => c.code # 0
           /\ (Down(c) /\ ~Degraded(c) /\ ~Recovered(c)) \/ (~Down(c) /\ Degraded(c) /\ ~Recovered(c))
                \/ (~Down(c) /\ ~Degraded(c) /\ Recovered(c))
<1>1. PICK r \in Response : c = Verdict(r)
  BY DEF Checked
<1>2. c.status = AvailabilityStatus(r) /\ c.code = r.code /\ r.code \in Code
  BY <1>1 DEF Verdict, Response
<1>3. AvailabilityStatus(r) \in {"UP", "DEGRADED", "DOWN"}
  BY DEF AvailabilityStatus
<1>4. r.code = 0 => AvailabilityStatus(r) = "DOWN"
  BY DEF AvailabilityStatus, IsMaintenance, ProbeOk
<1>5. AvailabilityStatus(r) = "DOWN" => r.code # 503
  BY DEF AvailabilityStatus, IsMaintenance
<1>6. r.code = 503 => AvailabilityStatus(r) = "DEGRADED"
  BY DEF AvailabilityStatus, IsMaintenance
<1>7. c \in CheckRow
  BY <1>1, <1>2, <1>3 DEF Verdict, CheckRow, SiteStatus
<1> QED BY <1>2, <1>3, <1>4, <1>5, <1>6, <1>7 DEF Down, Degraded, Recovered, IsMaintenance

\* A certificate tells the days that are left, or nothing.
LEMMA SslTyped ==
    ASSUME NEW ssl \in {NoSsl} \cup {SslResult(c) : c \in Certificate}
    PROVE  ssl.days \in Days
  BY DEF NoSsl, SslResult, Days

\* What is idle has a type as well.
LEMMA IdleTyped == IdleTick \in Tick /\ IdleRequest \in RequestState
<1>1. <<>> \in Seq(AlertCall)
  OBVIOUS
<1>2. [s \in Site |-> "null"] \in [Site -> Days]
  BY DEF Days
<1>3. [status |-> "UNKNOWN", code |-> 0] \in CheckRow
  BY DEF CheckRow, SiteStatus, Code
<1> QED BY <1>1, <1>2, <1>3 DEF IdleTick, Tick, IdleRequest, RequestState

\* After a site a tick is at the next one, or over.
LEMMA NextSiteTyped ==
    ASSUME NEW t \in Tick
    PROVE  NextSite(t) \in Tick /\ NextSite(t).step \in {"idle", "next"}
<1>1. CASE t.todo = {}
  BY <1>1, IdleTyped DEF NextSite, IdleTick
<1>2. CASE t.todo # {}
  <2>1. <<>> \in Seq(AlertCall) /\ IdleTick.result \in CheckRow
    BY IdleTyped DEF Tick
  <2>2. NextSite(t) = [t EXCEPT !.step = "next", !.site = NoSite, !.plan = <<>>, !.ssl = NoSsl,
                                !.result = IdleTick.result]
    BY <1>2 DEF NextSite
  <2> HIDE DEF IdleTick
  <2> QED BY <2>1, <2>2 DEF Tick
<1> QED BY <1>1, <1>2

\* The newest rows are as many as a streak asks for at most.
LEMMA FirstRowsTyped ==
    ASSUME NEW rows \in Seq(CheckRow)
    PROVE  /\ FirstRows(rows) \in Seq(CheckRow)
           /\ Len(FirstRows(rows)) <= MaxStreak
           /\ Len(rows) <= MaxStreak => FirstRows(rows) = rows
<1> DEFINE n == IF Len(rows) < MaxStreak THEN Len(rows) ELSE MaxStreak
<1>1. MaxStreak \in Nat /\ Len(rows) \in Nat
  BY StreaksAssumption DEF MaxStreak
<1>2. n \in 0..Len(rows) /\ n <= MaxStreak /\ (Len(rows) <= MaxStreak => n = Len(rows))
  BY <1>1
<1>3. \A i \in 1..n : rows[i] \in CheckRow
  BY <1>1, <1>2, ElementOfSeq
<1>4. FirstRows(rows) = SubSeq(rows, 1, n)
  BY DEF FirstRows
<1> HIDE DEF n
<1>5. FirstRows(rows) \in Seq(CheckRow) /\ Len(FirstRows(rows)) = n
  <2>1. SubSeq(rows, 1, n) \in Seq(CheckRow)
        /\ Len(SubSeq(rows, 1, n)) = IF 1 <= n THEN n - 1 + 1 ELSE 0
    BY <1>1, <1>2, <1>3, SubSeqProperties
  <2> QED BY <1>2, <1>4, <2>1
<1>6. Len(rows) <= MaxStreak => FirstRows(rows) = rows
  BY <1>2, <1>4, SubSeqFull
<1> QED BY <1>2, <1>5, <1>6

\* Each part of a plan is a list of at most two calls.
LEMMA PartsTyped ==
    ASSUME NEW c \in Checked, NEW recent, NEW ssl, NEW days
    PROVE  /\ AvailabilityCalls(c, recent) \in Seq(AlertCall)
           /\ ChainCalls(ssl) \in Seq(AlertCall)
           /\ InvalidCalls(ssl) \in Seq(AlertCall)
           /\ ExpiryCalls(ssl, days) \in Seq(AlertCall)
<1>1. \A t \in Title : Create(t) \in AlertCall /\ Resolve(t) \in AlertCall
  BY DEF Create, Resolve, AlertCall
<1>2. {"offline", "degraded", "chain", "invalid", "expiry"} \subseteq Title
  BY DEF Title
<1>3. AvailabilityCalls(c, recent) \in
        {<<>>, <<Create("offline"), Resolve("degraded")>>, <<Create("degraded")>>,
         <<Resolve("offline"), Resolve("degraded")>>}
  BY VerdictFits DEF AvailabilityCalls
<1>4. AvailabilityCalls(c, recent) \in Seq(AlertCall)
  <2>1. /\ Create("offline") \in AlertCall /\ Create("degraded") \in AlertCall
        /\ Resolve("offline") \in AlertCall /\ Resolve("degraded") \in AlertCall
    BY <1>1, <1>2
  <2>2. /\ <<>> \in Seq(AlertCall)
        /\ <<Create("offline"), Resolve("degraded")>> \in Seq(AlertCall)
        /\ <<Create("degraded")>> \in Seq(AlertCall)
        /\ <<Resolve("offline"), Resolve("degraded")>> \in Seq(AlertCall)
    BY <2>1
  <2> QED BY <1>3, <2>2
<1>5. ChainCalls(ssl) \in Seq(AlertCall)
  BY <1>1, <1>2 DEF ChainCalls
<1>6. InvalidCalls(ssl) \in Seq(AlertCall)
  BY <1>1, <1>2 DEF InvalidCalls
<1>7. ExpiryCalls(ssl, days) \in Seq(AlertCall)
  BY <1>1, <1>2 DEF ExpiryCalls
<1> QED BY <1>4, <1>5, <1>6, <1>7

\* A call of a plan is a call of one of its parts.
LEMMA PlannedInParts ==
    ASSUME NEW q \in Seq(AlertCall), NEW r \in Seq(AlertCall), NEW call, Planned(q \o r, call)
    PROVE  Planned(q, call) \/ Planned(r, call)
<1>1. PICK i \in 1..Len(q \o r) : (q \o r)[i] = call
  BY DEF Planned
<1>2. /\ Len(q) \in Nat /\ Len(r) \in Nat /\ Len(q \o r) = Len(q) + Len(r)
      /\ (q \o r)[i] = IF i <= Len(q) THEN q[i] ELSE r[i - Len(q)]
  BY <1>1, ConcatProperties
<1>3. CASE i <= Len(q)
  <2>1. i \in 1..Len(q) /\ q[i] = call
    BY <1>1, <1>2, <1>3
  <2> QED BY <2>1 DEF Planned
<1>4. CASE ~(i <= Len(q))
  <2>1. i - Len(q) \in 1..Len(r) /\ r[i - Len(q)] = call
    BY <1>1, <1>2, <1>4
  <2> QED BY <2>1 DEF Planned
<1> QED BY <1>3, <1>4

\* What is left of a plan was planned, and so was its first call.
LEMMA PlannedInTail ==
    ASSUME NEW q \in Seq(AlertCall), q # <<>>
    PROVE  /\ Planned(q, Head(q))
           /\ \A call : Planned(Tail(q), call) => Planned(q, call)
<1>1. Len(q) \in Nat \ {0} /\ Head(q) = q[1]
  BY EmptySeq
<1>2. Planned(q, Head(q))
  BY <1>1 DEF Planned
<1>3. ASSUME NEW call, Planned(Tail(q), call) PROVE Planned(q, call)
  <2>1. PICK i \in 1..Len(Tail(q)) : Tail(q)[i] = call
    BY <1>3 DEF Planned
  <2>2. Len(Tail(q)) = Len(q) - 1 /\ Tail(q)[i] = q[i + 1]
    BY <2>1, HeadTailProperties
  <2>3. i + 1 \in 1..Len(q)
    BY <1>1, <2>1, <2>2
  <2> QED BY <2>1, <2>2, <2>3 DEF Planned
<1> QED BY <1>2, <1>3

-----------------------------------------------------------------------------
(* Streaks *)

\* A set of numbers from 1 on without a gap has every number up to its size.
LEMMA FilledUp ==
    ASSUME NEW m \in Nat, NEW S \in SUBSET (1..m), NEW k \in Nat \ {0},
           \A n \in S : 1..n \subseteq S, Cardinality(S) >= k
    PROVE  k \in S
<1> SUFFICES ASSUME k \notin S PROVE FALSE
  OBVIOUS
<1>1. ASSUME NEW n \in S PROVE n \in 1..(k - 1)
  <2>1. n \in Nat /\ n >= 1 /\ (n >= k => k \in 1..n)
    OBVIOUS
  <2> QED BY <2>1
<1>2. S \in SUBSET (1..(k - 1))
  BY <1>1
<1>3. IsFiniteSet(1..(k - 1)) /\ Cardinality(1..(k - 1)) = IF 1 > k - 1 THEN 0 ELSE k - 1 - 1 + 1
  BY FS_Interval
<1>4. IsFiniteSet(S) /\ Cardinality(S) <= Cardinality(1..(k - 1))
  BY <1>2, <1>3, FS_Subset
<1>5. Cardinality(S) \in Nat
  BY <1>4, FS_CardinalityType
<1> QED BY <1>3, <1>4, <1>5

\* So a streak of k checks is made of the newest k.
LEMMA StreakIsNewest ==
    ASSUME NEW rows \in Seq(CheckRow), NEW k \in Nat \ {0}
    PROVE  /\ LeadingStreak(rows, Down) >= k => Len(rows) >= k /\ \A i \in 1..k : Down(rows[i])
           /\ LeadingStreak(rows, Degraded) >= k => Len(rows) >= k /\ \A i \in 1..k : Degraded(rows[i])
           /\ LeadingStreak(rows, Recovered) >= k => Len(rows) >= k /\ \A i \in 1..k : Recovered(rows[i])
<1>1. Len(rows) \in Nat
  OBVIOUS
<1>2. ASSUME LeadingStreak(rows, Down) >= k
      PROVE  Len(rows) >= k /\ \A i \in 1..k : Down(rows[i])
  <2> DEFINE S == {n \in 1..Len(rows) : \A i \in 1..n : Down(rows[i])}
  <2>1. \A n \in S : 1..n \subseteq S
    BY <1>1
  <2>2. Cardinality(S) >= k /\ S \in SUBSET (1..Len(rows))
    BY <1>2 DEF LeadingStreak
  <2>3. k \in S
    BY <1>1, <2>1, <2>2, FilledUp
  <2> QED BY <1>1, <2>3
<1>3. ASSUME LeadingStreak(rows, Degraded) >= k
      PROVE  Len(rows) >= k /\ \A i \in 1..k : Degraded(rows[i])
  <2> DEFINE S == {n \in 1..Len(rows) : \A i \in 1..n : Degraded(rows[i])}
  <2>1. \A n \in S : 1..n \subseteq S
    BY <1>1
  <2>2. Cardinality(S) >= k /\ S \in SUBSET (1..Len(rows))
    BY <1>3 DEF LeadingStreak
  <2>3. k \in S
    BY <1>1, <2>1, <2>2, FilledUp
  <2> QED BY <1>1, <2>3
<1>4. ASSUME LeadingStreak(rows, Recovered) >= k
      PROVE  Len(rows) >= k /\ \A i \in 1..k : Recovered(rows[i])
  <2> DEFINE S == {n \in 1..Len(rows) : \A i \in 1..n : Recovered(rows[i])}
  <2>1. \A n \in S : 1..n \subseteq S
    BY <1>1
  <2>2. Cardinality(S) >= k /\ S \in SUBSET (1..Len(rows))
    BY <1>4 DEF LeadingStreak
  <2>3. k \in S
    BY <1>1, <2>1, <2>2, FilledUp
  <2> QED BY <1>1, <2>3
<1> QED BY <1>2, <1>3, <1>4

-----------------------------------------------------------------------------
(* Types *)

\* The state the service starts in has its type.
LEMMA InitTyped == Init => TypeInv
<1> SUFFICES ASSUME Init PROVE TypeInv
  OBVIOUS
<1>1. website \in [Site -> SiteRow]
  BY StreaksAssumption DEF Init, SiteRow, SiteStatus, Code, Days
<1>2. MaxStreak \in Nat
  BY StreaksAssumption DEF MaxStreak
<1>3. checks \in [Site -> Seq(CheckRow)] /\ \A s \in Site : Len(checks[s]) <= MaxStreak
  BY <1>2 DEF Init
<1>4. TypeOK
  BY <1>1, <1>3, IdleTyped DEF Init, TypeOK
<1> QED BY <1>4 DEF Init, TypeInv, InHand, Addressed, IdleTick, IdleRequest

\* A tick moves on: it has its type, and what it needs in hand.
LEMMA TickMoves ==
    ASSUME TypeInv, NEW p \in Ticks, NEW t \in Tick, SetTick(p, t),
           t.step \in {"record", "update", "recent", "alert"} => t.site \in Site /\ t.result \in Checked,
           t.step = "alert" => t.plan # <<>>
    PROVE  /\ ticks' \in [Ticks -> Tick]
           /\ \A q \in Ticks : InHand(q)'
           /\ ticks'[p] = t
           /\ \A q \in Ticks : q # p => ticks'[q] = ticks[q]
  BY DEF TypeInv, TypeOK, SetTick, InHand

\* A tick that leaves a site moves on.
LEMMA TickLeaves ==
    ASSUME TypeInv, NEW p \in Ticks, SetTick(p, NextSite(ticks[p]))
    PROVE  /\ ticks' \in [Ticks -> Tick]
           /\ \A q \in Ticks : InHand(q)'
           /\ ticks'[p].step \in {"idle", "next"}
           /\ \A q \in Ticks : q # p => ticks'[q] = ticks[q]
<1>1. ticks[p] \in Tick
  BY DEF TypeInv, TypeOK
<1> QED BY <1>1, NextSiteTyped, TickMoves

\* The world changes within its bounds.
LEMMA ChangeTyped == ASSUME TypeInv, NEW s \in Site, Change(s) \/ SslDay(s) PROVE TypeInv'
<1>1. CASE Change(s)
  BY <1>1 DEF Change, TypeInv, TypeOK, InHand, Addressed
<1>2. CASE SslDay(s)
  <2>1. /\ website' \in [Site -> SiteRow]
        /\ \A r \in Site : /\ website'[r].status = website[r].status
                           /\ website'[r].code = website[r].code
                           /\ website'[r].exists = website[r].exists
    BY <1>2, ZenonT(30) DEF SslDay, TypeInv, TypeOK, SiteRow
  <2>2. UNCHANGED <<world, answer, cert, checks, open, orphans, ticks, requests>>
    BY <1>2 DEF SslDay
  <2> QED BY <2>1, <2>2 DEF TypeInv, TypeOK, InHand, Addressed
<1> QED BY <1>1, <1>2

\* A minute mark makes every row older and may start a tick.
LEMMA MinuteTyped ==
    ASSUME TypeInv, NEW p \in Ticks, Minute(p)
    PROVE  /\ TypeInv'
           /\ ticks'[p].step \in {"idle", "next"}
           /\ \A q \in Ticks : q # p => ticks'[q] = ticks[q]
           /\ \A s \in Site : website'[s].exists = website[s].exists
<1>1. PICK jitter \in SUBSET (MayBeDue \ MustBeDue) :
        LET todo == (MustBeDue \cup jitter) \cap Enabled IN
        SetTick(p, [IdleTick EXCEPT
                      !.step = IF todo = {} THEN "idle" ELSE "next",
                      !.todo = todo,
                      !.known = [s \in Site |-> website[s].days],
                      !.sslDue = {s \in Site : website[s].sslDue}])
  BY DEF Minute
<1> DEFINE todo == (MustBeDue \cup jitter) \cap Enabled
           t == [IdleTick EXCEPT !.step = IF todo = {} THEN "idle" ELSE "next",
                                 !.todo = todo,
                                 !.known = [s \in Site |-> website[s].days],
                                 !.sslDue = {s \in Site : website[s].sslDue}]
<1>2. SetTick(p, t)
  BY <1>1
<1>3. [s \in Site |-> website[s].days] \in [Site -> Days]
  BY DEF TypeInv, TypeOK, SiteRow
<1>4. todo \subseteq Site
  BY DEF Enabled
<1> HIDE DEF todo
<1>5. t \in Tick /\ t.step \in {"idle", "next"}
  BY <1>3, <1>4, IdleTyped DEF Tick, IdleTick
<1> HIDE DEF t
<1>6. /\ ticks' \in [Ticks -> Tick] /\ \A q \in Ticks : InHand(q)'
      /\ ticks'[p].step \in {"idle", "next"}
      /\ \A q \in Ticks : q # p => ticks'[q] = ticks[q]
  BY <1>2, <1>5, TickMoves
<1>7. /\ website' \in [Site -> SiteRow]
      /\ \A s \in Site : /\ website'[s].exists = website[s].exists
                         /\ website'[s].status = website[s].status
                         /\ website'[s].code = website[s].code
  <2> DEFINE age(s) == IF website[s].age < Interval THEN website[s].age + 1 ELSE website[s].age
  <2>1. \A s \in Site : website[s] \in SiteRow
    BY DEF TypeInv, TypeOK
  <2>2. \A s \in Site : age(s) \in 0..Interval
    BY <2>1, StreaksAssumption DEF SiteRow
  <2>3. website' = [s \in Site |-> [website[s] EXCEPT !.age = age(s)]]
    BY DEF Minute
  <2> HIDE DEF age
  <2> QED BY <2>1, <2>2, <2>3 DEF SiteRow
<1>8. UNCHANGED <<world, answer, cert, checks, open, orphans, requests>>
  BY DEF Minute
<1> QED BY <1>6, <1>7, <1>8 DEF TypeInv, TypeOK, Addressed

\* A probe comes to a verdict.
LEMMA ProbeTyped ==
    ASSUME TypeInv, NEW p \in Ticks, Probe(p)
    PROVE  /\ TypeInv'
           /\ ticks'[p].step = "record"
           /\ \A q \in Ticks : q # p => ticks'[q] = ticks[q]
<1>1. PICK s \in ticks[p].todo :
        SetTick(p, [ticks[p] EXCEPT
                      !.step = "record", !.site = s, !.todo = @ \ {s},
                      !.result = [status |-> AvailabilityStatus(answer[s]), code |-> answer[s].code],
                      !.ssl = IF ProbesSsl(ticks[p], s) THEN SslResult(cert[s]) ELSE NoSsl])
  BY DEF Probe
<1> DEFINE ssl == IF ProbesSsl(ticks[p], s) THEN SslResult(cert[s]) ELSE NoSsl
           t == [ticks[p] EXCEPT !.step = "record", !.site = s, !.todo = @ \ {s},
                                 !.result = Verdict(answer[s]), !.ssl = ssl]
<1>2. SetTick(p, t)
  BY <1>1 DEF Verdict
<1>3. ticks[p] \in Tick /\ s \in Site
  BY DEF TypeInv, TypeOK, Tick
<1>4. Verdict(answer[s]) \in Checked
  BY <1>3, WorldTyped DEF TypeInv, TypeOK, Checked
<1>5. ssl \in {NoSsl} \cup {SslResult(c) : c \in Certificate}
  BY <1>3, WorldTyped DEF TypeInv, TypeOK
<1>6. Verdict(answer[s]) \in CheckRow
  BY <1>4, VerdictFits
<1> HIDE DEF ssl
<1>7. t \in Tick /\ t.step = "record" /\ t.site = s /\ t.result = Verdict(answer[s])
  BY <1>3, <1>5, <1>6 DEF Tick
<1> HIDE DEF t
<1>8. /\ ticks' \in [Ticks -> Tick] /\ \A q \in Ticks : InHand(q)'
      /\ ticks'[p].step = "record"
      /\ \A q \in Ticks : q # p => ticks'[q] = ticks[q]
  BY <1>2, <1>3, <1>4, <1>7, TickMoves
<1>9. UNCHANGED <<world, answer, cert, website, checks, open, orphans, requests>>
  BY DEF Probe
<1> QED BY <1>8, <1>9 DEF TypeInv, TypeOK, Addressed

\* A tick that skips a site touches nothing else.
LEMMA SkipTyped ==
    ASSUME TypeInv, NEW p \in Ticks, Skip(p)
    PROVE  /\ TypeInv'
           /\ ticks'[p].step \in {"idle", "next"}
           /\ \A q \in Ticks : q # p => ticks'[q] = ticks[q]
           /\ UNCHANGED <<world, website, checks, open, orphans>>
<1>1. UNCHANGED <<world, answer, cert, website, checks, open, orphans, requests>>
  BY DEF Skip
<1>2. SetTick(p, NextSite(ticks[p]))
  BY DEF Skip
<1> QED BY <1>1, <1>2, TickLeaves DEF TypeInv, TypeOK, Addressed

\* A check is recorded as the newest of a few rows.
LEMMA RecordTyped ==
    ASSUME TypeInv, NEW p \in Ticks, RecordCheck(p)
    PROVE  /\ TypeInv'
           /\ ticks'[p].step \in {"idle", "next", "update"}
           /\ \A q \in Ticks : q # p => ticks'[q] = ticks[q]
           /\ UNCHANGED <<world, website, open, orphans>>
<1>1. CASE Skip(p)
  BY <1>1, SkipTyped
<1>2. CASE ~Skip(p)
  <2> DEFINE t == ticks[p]
  <2>1. /\ t \in Tick /\ t.site \in Site /\ t.result \in CheckRow /\ t.result \in Checked
    BY VerdictFits DEF TypeInv, TypeOK, InHand, RecordCheck, AtTick
  <2>2. /\ checks' = [checks EXCEPT ![t.site] = FirstRows(<<t.result>> \o @)]
        /\ SetTick(p, [t EXCEPT !.step = "update"])
        /\ UNCHANGED <<world, answer, cert, website, open, orphans, requests>>
    BY <1>2 DEF RecordCheck
  <2> HIDE DEF t
  <2>3. <<t.result>> \o checks[t.site] \in Seq(CheckRow)
    <3>1. <<t.result>> \in Seq(CheckRow) /\ checks[t.site] \in Seq(CheckRow)
      BY <2>1 DEF TypeInv, TypeOK
    <3> QED BY <3>1, ConcatProperties
  <2>4. checks' \in [Site -> Seq(CheckRow)] /\ \A s \in Site : Len(checks'[s]) <= MaxStreak
    BY <2>1, <2>2, <2>3, FirstRowsTyped DEF TypeInv, TypeOK
  <2>5. /\ [t EXCEPT !.step = "update"] \in Tick
        /\ [t EXCEPT !.step = "update"].step = "update"
        /\ [t EXCEPT !.step = "update"].site = t.site
        /\ [t EXCEPT !.step = "update"].result = t.result
    BY <2>1 DEF Tick
  <2>6. /\ ticks' \in [Ticks -> Tick] /\ \A q \in Ticks : InHand(q)'
        /\ ticks'[p].step = "update"
        /\ \A q \in Ticks : q # p => ticks'[q] = ticks[q]
    BY <2>1, <2>2, <2>5, TickMoves
  <2> QED BY <2>2, <2>4, <2>6 DEF TypeInv, TypeOK, Addressed
<1> QED BY <1>1, <1>2

\* The row of a degraded site keeps a code that is known.
LEMMA UpdateTyped ==
    ASSUME TypeInv, NEW p \in Ticks, UpdateSite(p)
    PROVE  /\ TypeInv'
           /\ ticks'[p].step \in {"idle", "next", "recent"}
           /\ \A q \in Ticks : q # p => ticks'[q] = ticks[q]
           /\ \A s \in Site : website'[s].exists = website[s].exists
           /\ UNCHANGED <<world, checks, open, orphans>>
<1>1. CASE Skip(p)
  BY <1>1, SkipTyped
<1>2. CASE ~Skip(p)
  <2> DEFINE t == ticks[p]
             row == website[t.site]
             code == IF t.result.code = 0 THEN row.code ELSE t.result.code
             days == IF t.ssl.days # "null" THEN t.ssl.days ELSE row.days
             due == IF t.ssl.probed THEN FALSE ELSE row.sslDue
             new == Updated(row, t)
  <2>1. /\ t \in Tick /\ t.site \in Site /\ t.result \in CheckRow /\ t.result \in Checked
        /\ t.result.status = "DEGRADED" => t.result.code # 0
    BY VerdictFits DEF TypeInv, TypeOK, InHand, UpdateSite, AtTick
  <2>2. /\ website' = [website EXCEPT ![t.site] = Updated(@, t)]
        /\ SetTick(p, [t EXCEPT !.step = "recent"])
        /\ UNCHANGED <<world, answer, cert, checks, open, orphans, requests>>
    BY <1>2 DEF UpdateSite
  <2>3. row \in SiteRow
    BY <2>1 DEF TypeInv, TypeOK
  <2>4. t.ssl.days \in Days
    BY <2>1, SslTyped DEF Tick
  <2>5. code \in Code /\ days \in Days /\ due \in BOOLEAN
    BY <2>1, <2>3, <2>4 DEF SiteRow, CheckRow
  <2>6. t.result.status = "DEGRADED" => code # 0
    BY <2>1
  <2>7. t.result.status \in SiteStatus /\ 0 \in 0..Interval
    BY <2>1, StreaksAssumption DEF CheckRow
  <2>8. new \in SiteRow /\ (new.status = "DEGRADED" => new.code # 0) /\ new.exists = row.exists
    <3>1. new = [row EXCEPT !.status = t.result.status, !.age = 0, !.code = code,
                            !.days = days, !.sslDue = due]
      BY DEF Updated
    <3> HIDE DEF t, code, days, due, row, new
    <3> QED BY <2>3, <2>5, <2>6, <2>7, <3>1 DEF SiteRow
  <2>a. website' = [website EXCEPT ![t.site] = new]
    BY <2>2
  <2> HIDE DEF t, code, days, due, new
  <2>9. /\ website' \in [Site -> SiteRow]
        /\ \A s \in Site : website'[s].status = "DEGRADED" => website'[s].code # 0
        /\ \A s \in Site : website'[s].exists = website[s].exists
    BY <2>1, <2>a, <2>8 DEF TypeInv, TypeOK, row
  <2>10. /\ [t EXCEPT !.step = "recent"] \in Tick
         /\ [t EXCEPT !.step = "recent"].step = "recent"
         /\ [t EXCEPT !.step = "recent"].site = t.site
         /\ [t EXCEPT !.step = "recent"].result = t.result
    BY <2>1 DEF Tick
  <2>11. /\ ticks' \in [Ticks -> Tick] /\ \A q \in Ticks : InHand(q)'
         /\ ticks'[p].step = "recent"
         /\ \A q \in Ticks : q # p => ticks'[q] = ticks[q]
    BY <2>1, <2>2, <2>10, TickMoves
  <2> QED BY <2>2, <2>9, <2>11 DEF TypeInv, TypeOK, Addressed
<1> QED BY <1>1, <1>2

\* The plan a tick makes of a verdict and the newest checks.
PlanOf(p) ==
    LET t == ticks[p] IN
    AvailabilityCalls(t.result, FirstRows(checks[t.site]))
        \o ChainCalls(t.ssl) \o InvalidCalls(t.ssl) \o ExpiryCalls(t.ssl, t.known[t.site])

\* A tick with a plan calls the alert service, one without is done with the site.
LEMMA RecentTyped ==
    ASSUME TypeInv, NEW p \in Ticks, ReadRecent(p)
    PROVE  /\ TypeInv'
           /\ ticks'[p].step = "alert" => /\ ticks'[p].plan = PlanOf(p)
                                          /\ ticks'[p].site = ticks[p].site
           /\ ticks[p].site \in Site /\ ticks[p].result \in Checked
           /\ \A q \in Ticks : q # p => ticks'[q] = ticks[q]
           /\ UNCHANGED <<world, website, checks, open, orphans>>
<1> DEFINE t == ticks[p]
<1>1. t \in Tick /\ t.site \in Site /\ t.result \in Checked
  BY DEF TypeInv, TypeOK, InHand, ReadRecent, AtTick
<1>2. PlanOf(p) \in Seq(AlertCall)
  BY <1>1, PartsTyped, ConcatProperties DEF PlanOf
<1>3. /\ UNCHANGED <<world, answer, cert, website, checks, open, orphans, requests>>
      /\ SetTick(p, IF PlanOf(p) = <<>> THEN NextSite(t)
                    ELSE [t EXCEPT !.step = "alert", !.plan = PlanOf(p)])
  BY DEF ReadRecent, PlanOf
<1>4. CASE PlanOf(p) = <<>>
  <2>1. SetTick(p, NextSite(ticks[p]))
    BY <1>3, <1>4
  <2>2. /\ ticks' \in [Ticks -> Tick] /\ \A q \in Ticks : InHand(q)'
        /\ ticks'[p].step # "alert"
        /\ \A q \in Ticks : q # p => ticks'[q] = ticks[q]
    BY <2>1, TickLeaves
  <2> QED BY <1>1, <1>3, <2>2 DEF TypeInv, TypeOK, Addressed
<1>5. CASE PlanOf(p) # <<>>
  <2> DEFINE u == [t EXCEPT !.step = "alert", !.plan = PlanOf(p)]
  <2>1. SetTick(p, u)
    BY <1>3, <1>5
  <2> HIDE DEF t
  <2>2. u \in Tick /\ u.step = "alert" /\ u.site = t.site /\ u.result = t.result /\ u.plan = PlanOf(p)
    BY <1>1, <1>2 DEF Tick
  <2> HIDE DEF u
  <2>3. /\ ticks' \in [Ticks -> Tick] /\ \A q \in Ticks : InHand(q)'
        /\ ticks'[p] = u
        /\ \A q \in Ticks : q # p => ticks'[q] = ticks[q]
    BY <1>1, <1>5, <2>1, <2>2, TickMoves
  <2>4. TypeInv'
    BY <1>3, <2>3 DEF TypeInv, TypeOK, Addressed
  <2> QED BY <1>1, <1>3, <2>2, <2>3, <2>4 DEF t
<1> QED BY <1>4, <1>5

\* A call ends the plan or leaves its rest.
LEMMA CallTyped ==
    ASSUME TypeInv, NEW p \in Ticks, CallAlerts(p)
    PROVE  /\ TypeInv'
           /\ ticks[p].step = "alert" /\ ticks[p].site \in Site
           /\ ticks[p].plan \in Seq(AlertCall) /\ ticks[p].plan # <<>>
           /\ ticks'[p].step = "alert" => /\ ticks'[p].plan = Tail(ticks[p].plan)
                                          /\ ticks'[p].site = ticks[p].site
           /\ \A q \in Ticks : q # p => ticks'[q] = ticks[q]
           /\ UNCHANGED <<world, website, checks>>
<1> DEFINE t == ticks[p]
           call == Head(t.plan)
           rest == Tail(t.plan)
<1>1. /\ t \in Tick /\ t.site \in Site /\ t.result \in Checked /\ t.step = "alert"
      /\ t.plan \in Seq(AlertCall) /\ t.plan # <<>>
  BY DEF TypeInv, TypeOK, Tick, InHand, CallAlerts, AtTick
<1>2. call \in AlertCall /\ rest \in Seq(AlertCall)
  BY <1>1, HeadTailProperties
<1>3. CASE Skip(p)
  BY <1>1, <1>3, SkipTyped
<1>4. CASE ~Skip(p)
  <2>1. /\ SetTick(p, IF rest = <<>> THEN NextSite(t) ELSE [t EXCEPT !.plan = rest])
        /\ UNCHANGED <<world, answer, cert, website, checks, orphans, requests>>
    BY <1>4 DEF CallAlerts
  <2>2. /\ open' \in [Site -> SUBSET Title]
        /\ \A s \in Site : open'[s] # {} => website[s].exists
    <3>1. open' = [open EXCEPT ![t.site] = IF call.op = "create" THEN @ \cup {call.title}
                                            ELSE @ \ {call.title}]
      BY <1>4 DEF CallAlerts
    <3>2. call.title \in Title /\ (call.op = "create" => website[t.site].exists)
      BY <1>2, <1>4 DEF AlertCall, CallAlerts, SiteGone
    <3> HIDE DEF call, t
    <3> QED BY <1>1, <3>1, <3>2 DEF TypeInv, TypeOK
  <2>3. CASE rest = <<>>
    <3>1. SetTick(p, NextSite(ticks[p]))
      BY <2>1, <2>3
    <3>2. /\ ticks' \in [Ticks -> Tick] /\ \A q \in Ticks : InHand(q)'
          /\ ticks'[p].step # "alert"
          /\ \A q \in Ticks : q # p => ticks'[q] = ticks[q]
      BY <3>1, TickLeaves
    <3> QED BY <1>1, <2>1, <2>2, <3>2 DEF TypeInv, TypeOK, Addressed
  <2>4. CASE rest # <<>>
    <3> DEFINE u == [t EXCEPT !.plan = rest]
    <3>1. SetTick(p, u)
      BY <2>1, <2>4
    <3> HIDE DEF t, rest
    <3>2. u \in Tick /\ u.step = "alert" /\ u.site = t.site /\ u.result = t.result /\ u.plan = rest
      BY <1>1, <1>2 DEF Tick
    <3> HIDE DEF u
    <3>3. /\ ticks' \in [Ticks -> Tick] /\ \A q \in Ticks : InHand(q)'
          /\ ticks'[p] = u
          /\ \A q \in Ticks : q # p => ticks'[q] = ticks[q]
      BY <1>1, <2>4, <3>1, <3>2, TickMoves
    <3>4. TypeInv'
      BY <2>1, <2>2, <3>3 DEF TypeInv, TypeOK, Addressed
    <3> QED BY <1>1, <2>1, <3>2, <3>3, <3>4 DEF t, rest
  <2> QED BY <2>3, <2>4
<1> QED BY <1>3, <1>4

\* An operator's request is about a site there is.
LEMMA OperatorTyped ==
    ASSUME TypeInv, NEW o \in Operators, OperatorRequest(o) \/ OperatorStep(o)
    PROVE  /\ TypeInv'
           /\ \A s \in Site : /\ website'[s].exists => website[s].exists /\ checks'[s] = checks[s]
                              /\ open'[s] \subseteq open[s]
           /\ UNCHANGED <<world, ticks>>
<1>1. CASE Disable(o)
  <2>1. PICK s \in Site :
          /\ website' = [website EXCEPT ![s].monitoringEnabled = FALSE]
          /\ requests' = [requests EXCEPT ![o] = [step |-> "forceClose", site |-> s]]
    BY <1>1 DEF Disable, Enabled
  <2>2. UNCHANGED <<world, answer, cert, checks, open, orphans, ticks>>
    BY <1>1 DEF Disable
  <2>3. /\ website' \in [Site -> SiteRow]
        /\ \A r \in Site : /\ website'[r].exists = website[r].exists
                           /\ website'[r].status = website[r].status
                           /\ website'[r].code = website[r].code
    BY <2>1 DEF TypeInv, TypeOK, SiteRow
  <2>4. requests' \in [Operators -> RequestState] /\ \A n \in Operators : Addressed(n)'
    BY <2>1 DEF TypeInv, TypeOK, RequestState, Addressed
  <2> QED BY <2>2, <2>3, <2>4 DEF TypeInv, TypeOK, InHand
<1>2. CASE Enable(o)
  <2>1. PICK s \in Site : website' = [website EXCEPT ![s].monitoringEnabled = TRUE]
    BY <1>2 DEF Enable
  <2>2. UNCHANGED <<world, answer, cert, checks, open, orphans, ticks, requests>>
    BY <1>2 DEF Enable
  <2>3. /\ website' \in [Site -> SiteRow]
        /\ \A r \in Site : /\ website'[r].exists = website[r].exists
                           /\ website'[r].status = website[r].status
                           /\ website'[r].code = website[r].code
    BY <2>1 DEF TypeInv, TypeOK, SiteRow
  <2> QED BY <2>2, <2>3 DEF TypeInv, TypeOK, InHand, Addressed
<1>3. CASE Remove(o)
  <2>1. PICK s \in Site :
          /\ open' = [open EXCEPT ![s] = {}]
          /\ requests' = [requests EXCEPT ![o] = [step |-> "delete", site |-> s]]
    BY <1>3 DEF Remove
  <2>2. UNCHANGED <<world, answer, cert, website, checks, orphans, ticks>>
    BY <1>3 DEF Remove
  <2>3. open' \in [Site -> SUBSET Title] /\ \A r \in Site : open'[r] \subseteq open[r]
    BY <2>1 DEF TypeInv, TypeOK
  <2>4. requests' \in [Operators -> RequestState] /\ \A n \in Operators : Addressed(n)'
    BY <2>1 DEF TypeInv, TypeOK, RequestState, Addressed
  <2> QED BY <2>2, <2>3, <2>4 DEF TypeInv, TypeOK, InHand
<1>4. CASE CloseByHand(o)
  <2>1. /\ \/ (\E s \in Site, t \in Title : open' = [open EXCEPT ![s] = @ \ {t}])
           \/ open' = open
        /\ orphans' \subseteq orphans
    BY <1>4 DEF CloseByHand
  <2>2. UNCHANGED <<world, answer, cert, website, checks, ticks, requests>>
    BY <1>4 DEF CloseByHand
  <2>3. open' \in [Site -> SUBSET Title] /\ \A r \in Site : open'[r] \subseteq open[r]
    BY <2>1 DEF TypeInv, TypeOK
  <2>4. orphans' \subseteq {s \in Site : ~website[s].exists} \X Title
    BY <2>1 DEF TypeInv, TypeOK
  <2> QED BY <2>2, <2>3, <2>4 DEF TypeInv, TypeOK, InHand, Addressed
<1>5. CASE ForceClose(o)
  <2>1. requests[o].site \in Site
    BY <1>5 DEF ForceClose, AtRequest, TypeInv, Addressed
  <2>2. open' \in [Site -> SUBSET Title] /\ \A r \in Site : open'[r] \subseteq open[r]
    BY <1>5, <2>1 DEF ForceClose, TypeInv, TypeOK
  <2>3. requests' \in [Operators -> RequestState] /\ \A n \in Operators : Addressed(n)'
    BY <1>5, IdleTyped DEF ForceClose, TypeInv, TypeOK, Addressed, IdleRequest
  <2>4. UNCHANGED <<world, answer, cert, website, checks, orphans, ticks>>
    BY <1>5 DEF ForceClose
  <2> QED BY <2>2, <2>3, <2>4 DEF TypeInv, TypeOK, InHand
<1>6. CASE DeleteSite(o)
  <2> DEFINE s == requests[o].site
  <2>1. s \in Site
    BY <1>6 DEF DeleteSite, AtRequest, TypeInv, Addressed
  <2>2. /\ website' = [website EXCEPT ![s].exists = FALSE, ![s].monitoringEnabled = FALSE]
        /\ checks' = [checks EXCEPT ![s] = <<>>]
        /\ requests' = [requests EXCEPT ![o] = IdleRequest]
        /\ open' = [open EXCEPT ![s] = {}]
        /\ orphans' = orphans \cup ({s} \X open[s])
        /\ UNCHANGED <<world, answer, cert, ticks>>
    BY <1>6 DEF DeleteSite
  <2> HIDE DEF s
  <2>3. /\ website' \in [Site -> SiteRow]
        /\ ~website'[s].exists
        /\ \A r \in Site : /\ r # s => website'[r] = website[r]
                           /\ website'[r].status = website[r].status
                           /\ website'[r].code = website[r].code
    BY <2>1, <2>2 DEF TypeInv, TypeOK, SiteRow
  <2>4. /\ checks' \in [Site -> Seq(CheckRow)] /\ \A r \in Site : Len(checks'[r]) <= MaxStreak
        /\ \A r \in Site : r # s => checks'[r] = checks[r]
    <3>1. <<>> \in Seq(CheckRow) /\ Len(<<>>) <= MaxStreak
      BY StreaksAssumption DEF MaxStreak
    <3> QED BY <2>1, <2>2, <3>1 DEF TypeInv, TypeOK
  <2>5. requests' \in [Operators -> RequestState] /\ \A n \in Operators : Addressed(n)'
    BY <2>2, IdleTyped DEF TypeInv, TypeOK, Addressed, IdleRequest
  <2>6. /\ open' \in [Site -> SUBSET Title]
        /\ \A r \in Site : open'[r] # {} => website'[r].exists
        /\ \A r \in Site : open'[r] \subseteq open[r]
    BY <2>1, <2>2, <2>3 DEF TypeInv, TypeOK
  <2>7. orphans' \subseteq {r \in Site : ~website'[r].exists} \X Title
    <3>1. orphans \subseteq {r \in Site : ~website[r].exists} \X Title /\ open[s] \subseteq Title
      BY <2>1 DEF TypeInv, TypeOK
    <3>2. \A r \in Site : ~website[r].exists => ~website'[r].exists
      BY <2>3
    <3> QED BY <2>1, <2>2, <2>3, <3>1, <3>2
  <2>8. TypeInv'
    BY <2>2, <2>3, <2>4, <2>5, <2>6, <2>7 DEF TypeInv, TypeOK, InHand
  <2> QED BY <2>2, <2>3, <2>4, <2>6, <2>8
<1> QED BY <1>1, <1>2, <1>3, <1>4, <1>5, <1>6 DEF OperatorRequest, OperatorStep

\* Every step keeps the types.
LEMMA NextTyped == TypeInv /\ [Next]_vars => TypeInv'
<1> SUFFICES ASSUME TypeInv, [Next]_vars PROVE TypeInv'
  OBVIOUS
<1>1. world.ticks \subseteq Ticks /\ world.operators \subseteq Operators
  BY WorldTyped DEF TypeInv
<1>2. ASSUME NEW p \in Ticks, Minute(p) \/ TickStep(p) PROVE TypeInv'
  BY <1>2, MinuteTyped, ProbeTyped, RecordTyped, UpdateTyped, RecentTyped, CallTyped DEF TickStep
<1>3. CASE UNCHANGED vars
  BY <1>3 DEF vars, TypeInv, TypeOK, InHand, Addressed
<1> QED BY <1>1, <1>2, <1>3, ChangeTyped, OperatorTyped DEF Next

\* Every variable keeps its type, and a tick or a request in progress has in hand
\* what its next step needs.
THEOREM TypeInvariant == Spec => []TypeInv
  BY InitTyped, NextTyped, PTL DEF Spec

\* Every variable of the website checks keeps its type; the code of a site shown
\* as degraded is known.
THEOREM TypeCorrect == Spec => []TypeOK
<1>1. TypeInv => TypeOK
  BY DEF TypeInv
<1> QED BY <1>1, TypeInvariant, PTL

-----------------------------------------------------------------------------
(* What a plan says of the availability is borne out when it is called *)

\* In a world with one tick every tick in progress is that one.
LEMMA OneTick ==
    ASSUME TypeInv, Cardinality(world.ticks) = 1
    PROVE  \A p, q \in world.ticks : p = q
<1>1. IsFiniteSet(world.ticks)
  BY WorldTyped, TicksAssumption, FS_Subset DEF TypeInv
<1>2. PICK p : world.ticks = {p}
  BY <1>1, FS_Singleton
<1> QED BY <1>2

\* A call about the availability comes from the part of a plan about it.
LEMMA AvailabilityPlanned ==
    ASSUME TypeInv, NEW p \in Ticks, ticks[p].result \in Checked,
           NEW call \in {Create("offline"), Create("degraded"), Resolve("offline")},
           Planned(PlanOf(p), call)
    PROVE  Planned(AvailabilityCalls(ticks[p].result, FirstRows(checks[ticks[p].site])), call)
<1> DEFINE t == ticks[p]
           A == AvailabilityCalls(t.result, FirstRows(checks[t.site]))
           C == ChainCalls(t.ssl)
           I == InvalidCalls(t.ssl)
           E == ExpiryCalls(t.ssl, t.known[t.site])
<1>1. A \in Seq(AlertCall) /\ C \in Seq(AlertCall) /\ I \in Seq(AlertCall) /\ E \in Seq(AlertCall)
  BY PartsTyped
<1>2. PlanOf(p) = A \o C \o I \o E
  BY DEF PlanOf
<1>3. /\ ~Planned(<<>>, call)
      /\ \A title \in {"chain", "invalid", "expiry"} :
            ~Planned(<<Create(title)>>, call) /\ ~Planned(<<Resolve(title)>>, call)
  BY DEF Planned, Create, Resolve
<1>4. ~Planned(C, call) /\ ~Planned(I, call) /\ ~Planned(E, call)
  <2>1. C \in {<<>>, <<Create("chain")>>, <<Resolve("chain")>>}
    BY DEF ChainCalls
  <2>2. I \in {<<>>, <<Create("invalid")>>, <<Resolve("invalid")>>}
    BY DEF InvalidCalls
  <2>3. E \in {<<>>, <<Create("expiry")>>, <<Resolve("expiry")>>}
    BY DEF ExpiryCalls
  <2> QED BY <1>3, <2>1, <2>2, <2>3
<1> HIDE DEF A, C, I, E
<1>5. A \o C \in Seq(AlertCall) /\ A \o C \o I \in Seq(AlertCall)
  BY <1>1, ConcatProperties
<1>6. Planned(A \o C \o I, call)
  <2>1. Planned(A \o C \o I \o E, call)
    BY <1>2
  <2> DEFINE B == A \o C \o I
  <2>2. B \in Seq(AlertCall) /\ Planned(B \o E, call)
    BY <1>5, <2>1
  <2> HIDE DEF B
  <2>3. Planned(B, call) \/ Planned(E, call)
    BY <1>1, <2>2, PlannedInParts
  <2> QED BY <1>4, <2>3 DEF B
<1>7. Planned(A \o C, call)
  BY <1>1, <1>4, <1>5, <1>6, PlannedInParts
<1>8. Planned(A, call)
  BY <1>1, <1>4, <1>7, PlannedInParts
<1> QED BY <1>8 DEF A

\* The calls about the availability are made after a streak of checks.
LEMMA CallsFollowStreak ==
    ASSUME NEW c \in Checked, NEW rows \in Seq(CheckRow)
    PROVE  /\ Planned(AvailabilityCalls(c, rows), Create("offline"))
                => LeadingStreak(rows, Down) >= FailStreak
           /\ Planned(AvailabilityCalls(c, rows), Create("degraded"))
                => LeadingStreak(rows, Degraded) >= FailStreak
           /\ Planned(AvailabilityCalls(c, rows), Resolve("offline"))
                => LeadingStreak(rows, Recovered) >= RecoverStreak
<1>1. /\ Create("offline") # Create("degraded") /\ Create("offline") # Resolve("degraded")
      /\ Create("offline") # Resolve("offline") /\ Create("degraded") # Resolve("offline")
      /\ Create("degraded") # Resolve("degraded") /\ Resolve("offline") # Resolve("degraded")
  BY DEF Create, Resolve
<1>2. \A a, call : Planned(<<a>>, call) => call = a
  BY DEF Planned
<1>3. \A a, b, call : Planned(<<a, b>>, call) => call = a \/ call = b
  BY DEF Planned
<1>4. \A call : ~Planned(<<>>, call)
  BY DEF Planned
<1>5. CASE Down(c)
  <2>1. AvailabilityCalls(c, rows) =
          IF LeadingStreak(rows, Down) >= FailStreak
            THEN <<Create("offline"), Resolve("degraded")>> ELSE <<>>
    BY <1>5, VerdictFits DEF AvailabilityCalls
  <2> QED BY <1>1, <1>3, <1>4, <2>1
<1>6. CASE Degraded(c)
  <2>1. AvailabilityCalls(c, rows) =
          IF LeadingStreak(rows, Degraded) >= FailStreak THEN <<Create("degraded")>> ELSE <<>>
    BY <1>6, VerdictFits DEF AvailabilityCalls
  <2> QED BY <1>1, <1>2, <1>4, <2>1
<1>7. CASE Recovered(c)
  <2>1. AvailabilityCalls(c, rows) =
          IF LeadingStreak(rows, Recovered) >= RecoverStreak
            THEN <<Resolve("offline"), Resolve("degraded")>> ELSE <<>>
    BY <1>7, VerdictFits DEF AvailabilityCalls
  <2> QED BY <1>1, <1>3, <1>4, <2>1
<1> QED BY <1>5, <1>6, <1>7, VerdictFits

\* A plan is made on the newest rows, and these bear it out.
LEMMA PlanBorneOut ==
    ASSUME TypeInv, NEW p \in Ticks, ReadRecent(p)
    PROVE  BorneOut(ticks[p].site, PlanOf(p))
<1> DEFINE s == ticks[p].site
           rows == checks[s]
<1>1. s \in Site /\ ticks[p].result \in Checked
  BY RecentTyped
<1>2. rows \in Seq(CheckRow) /\ FirstRows(rows) = rows
  BY <1>1, FirstRowsTyped DEF TypeInv, TypeOK
<1>3. FailStreak \in Nat \ {0} /\ RecoverStreak \in Nat \ {0}
  BY StreaksAssumption
<1>4. ASSUME Planned(PlanOf(p), Create("offline")) PROVE LastRows(s, FailStreak, Down)
  <2>1. LeadingStreak(rows, Down) >= FailStreak
    BY <1>1, <1>2, <1>4, AvailabilityPlanned, CallsFollowStreak
  <2> QED BY <1>2, <1>3, <2>1, StreakIsNewest DEF LastRows
<1>5. ASSUME Planned(PlanOf(p), Create("degraded")) PROVE LastRows(s, FailStreak, Degraded)
  <2>1. LeadingStreak(rows, Degraded) >= FailStreak
    BY <1>1, <1>2, <1>5, AvailabilityPlanned, CallsFollowStreak
  <2> QED BY <1>2, <1>3, <2>1, StreakIsNewest DEF LastRows
<1>6. ASSUME Planned(PlanOf(p), Resolve("offline")) PROVE LastRows(s, RecoverStreak, Recovered)
  <2>1. LeadingStreak(rows, Recovered) >= RecoverStreak
    BY <1>1, <1>2, <1>6, AvailabilityPlanned, CallsFollowStreak
  <2> QED BY <1>2, <1>3, <2>1, StreakIsNewest DEF LastRows
<1> QED BY <1>4, <1>5, <1>6 DEF BorneOut

\* What is left of a plan is borne out as the whole was.
LEMMA TailBorneOut ==
    ASSUME NEW s, NEW plan \in Seq(AlertCall), plan # <<>>, BorneOut(s, plan)
    PROVE  BorneOut(s, Tail(plan))
  BY PlannedInTail DEF BorneOut

\* A step of the one tick there is leaves its plan borne out.
LEMMA TickConfirms ==
    ASSUME TypeInv, ConfirmInv, NEW p \in world.ticks, Minute(p) \/ TickStep(p)
    PROVE  ConfirmInv'
<1>1. p \in Ticks /\ world.ticks \subseteq Ticks
  BY WorldTyped DEF TypeInv
<1>2. world' = world /\ \A q \in Ticks : q # p => ticks'[q] = ticks[q]
  BY <1>1, MinuteTyped, ProbeTyped, RecordTyped, UpdateTyped, RecentTyped, CallTyped
     DEF TickStep, Minute, Probe
<1>3. \A q \in Ticks : q \notin world'.ticks => ticks'[q].step = "idle"
  BY <1>2 DEF ConfirmInv
<1> SUFFICES ASSUME Cardinality(world.ticks) = 1, NEW q \in Ticks,
                    ticks'[q].step = "alert", website'[ticks'[q].site].exists
             PROVE  Grounded(q)'
  BY <1>2, <1>3 DEF ConfirmInv, Grounded
<1>4. q = p
  BY <1>1, <1>2, <1>3, OneTick
<1>5. CASE ReadRecent(p)
  <2>1. ticks'[p].plan = PlanOf(p) /\ ticks'[p].site = ticks[p].site /\ checks' = checks
    BY <1>1, <1>4, <1>5, RecentTyped
  <2>2. BorneOut(ticks[p].site, PlanOf(p))
    BY <1>1, <1>5, PlanBorneOut
  <2> QED BY <1>4, <2>1, <2>2 DEF Grounded, BorneOut, LastRows
<1>6. CASE CallAlerts(p)
  <2>1. /\ ticks[p].step = "alert" /\ ticks[p].plan \in Seq(AlertCall) /\ ticks[p].plan # <<>>
        /\ ticks'[p].plan = Tail(ticks[p].plan) /\ ticks'[p].site = ticks[p].site
        /\ website' = website /\ checks' = checks
    BY <1>1, <1>4, <1>6, CallTyped
  <2>2. BorneOut(ticks[p].site, ticks[p].plan)
    BY <1>1, <1>4, <2>1 DEF ConfirmInv, Grounded
  <2>3. BorneOut(ticks[p].site, Tail(ticks[p].plan))
    BY <2>1, <2>2, TailBorneOut
  <2> QED BY <1>4, <2>1, <2>3 DEF Grounded, BorneOut, LastRows
<1>7. CASE Minute(p) \/ Probe(p) \/ RecordCheck(p) \/ UpdateSite(p)
  BY <1>1, <1>4, <1>7, MinuteTyped, ProbeTyped, RecordTyped, UpdateTyped
<1> QED BY <1>5, <1>6, <1>7 DEF TickStep

\* Every step keeps the plans borne out.
LEMMA NextConfirms == TypeInv /\ ConfirmInv /\ [Next]_vars => ConfirmInv'
<1> SUFFICES ASSUME TypeInv, ConfirmInv, [Next]_vars PROVE ConfirmInv'
  OBVIOUS
<1>1. ASSUME NEW o \in Operators, OperatorRequest(o) \/ OperatorStep(o) PROVE ConfirmInv'
  <2>1. /\ \A s \in Site : website'[s].exists => website[s].exists /\ checks'[s] = checks[s]
        /\ UNCHANGED <<world, ticks>>
    BY <1>1, OperatorTyped
  <2>2. ASSUME NEW p \in Ticks, Grounded(p) PROVE Grounded(p)'
    <3> SUFFICES ASSUME ticks[p].step = "alert", website'[ticks[p].site].exists
                 PROVE  BorneOut(ticks[p].site, ticks[p].plan)'
      BY <2>1 DEF Grounded
    <3>1. ticks[p].site \in Site
      BY DEF TypeInv, InHand
    <3>2. BorneOut(ticks[p].site, ticks[p].plan) /\ checks'[ticks[p].site] = checks[ticks[p].site]
      BY <2>1, <2>2, <3>1 DEF Grounded
    <3> QED BY <2>1, <3>2 DEF BorneOut, LastRows
  <2> QED BY <2>1, <2>2 DEF ConfirmInv
<1>2. ASSUME NEW s \in Site, Change(s) \/ SslDay(s) PROVE ConfirmInv'
  <2>1. /\ \A r \in Site : website'[r].exists = website[r].exists
        /\ UNCHANGED <<world, ticks, checks>>
    <3>1. website \in [Site -> SiteRow]
      BY DEF TypeInv, TypeOK
    <3> QED BY <1>2, <3>1 DEF Change, SslDay, SiteRow
  <2>2. ASSUME NEW p \in Ticks, Grounded(p) PROVE Grounded(p)'
    BY <2>1, <2>2 DEF Grounded, BorneOut, LastRows, TypeInv, InHand
  <2> QED BY <2>1, <2>2 DEF ConfirmInv
<1>3. CASE UNCHANGED vars
  BY <1>3 DEF vars, ConfirmInv, Grounded, BorneOut, LastRows
<1>4. world.operators \subseteq Operators
  BY WorldTyped DEF TypeInv
<1> QED BY <1>1, <1>2, <1>3, <1>4, TickConfirms DEF Next

\* A call of a tick opens or closes an alert it planned, of a site that exists
\* if it changes anything.
LEMMA CallPlanned ==
    ASSUME TypeInv, NEW p \in Ticks, CallAlerts(p), NEW s \in Site, open'[s] # open[s]
    PROVE  /\ s = ticks[p].site /\ ticks[p].step = "alert" /\ website[s].exists
           /\ \A title \in open'[s] \ open[s] : Planned(ticks[p].plan, Create(title))
           /\ \A title \in open[s] \ open'[s] : Planned(ticks[p].plan, Resolve(title))
<1> DEFINE t == ticks[p]
           call == Head(t.plan)
<1>1. /\ t.step = "alert" /\ t.site \in Site
      /\ t.plan \in Seq(AlertCall) /\ t.plan # <<>>
  BY CallTyped
<1>2. call \in AlertCall /\ Planned(t.plan, call)
  BY <1>1, HeadTailProperties, PlannedInTail
<1>3. call = [op |-> call.op, title |-> call.title]
  BY <1>2 DEF AlertCall
<1>4. open \in [Site -> SUBSET Title]
  BY DEF TypeInv, TypeOK
<1>5. /\ call.op = "create" => ~SiteGone(p)
      /\ open' = [open EXCEPT ![t.site] = IF call.op = "create" THEN @ \cup {call.title}
                                            ELSE @ \ {call.title}]
  BY DEF CallAlerts, Skip
<1> HIDE DEF call
<1>6. s = t.site
  BY <1>1, <1>4, <1>5
<1>7. \/ call.op = "create" /\ ~SiteGone(p) /\ open'[s] = open[s] \cup {call.title}
      \/ call.op = "resolve" /\ ~SiteGone(p) /\ open'[s] = open[s] \ {call.title}
  <2>1. call.op \in {"create", "resolve"}
    BY <1>2 DEF AlertCall
  <2>2. website[s].exists
    BY <1>1, <1>4, <1>5, <1>6, <2>1 DEF SiteGone, TypeInv, TypeOK
  <2> QED BY <1>1, <1>4, <1>5, <1>6, <2>1, <2>2 DEF SiteGone
<1>8. /\ call.op = "create" => call = Create(call.title)
      /\ call.op = "resolve" => call = Resolve(call.title)
  BY <1>3 DEF Create, Resolve
<1> QED BY <1>1, <1>2, <1>6, <1>7, <1>8 DEF SiteGone

\* What a step of the only tick, or of an operator, does to the alerts about the
\* availability of a site.
LEMMA StepConfirmed ==
    ASSUME TypeInv, ConfirmInv, [Next]_vars, NEW s \in Site, Cardinality(world.ticks) = 1
    PROVE  /\ "offline" \in open'[s] \ open[s] => LastRows(s, FailStreak, Down)
           /\ "degraded" \in open'[s] \ open[s] => LastRows(s, FailStreak, Degraded)
           /\ \A p \in Ticks : ticks'[p] # ticks[p] /\ "offline" \in open[s] \ open'[s]
                                 => LastRows(s, RecoverStreak, Recovered)
<1>1. world.ticks \subseteq Ticks /\ world.operators \subseteq Operators
  BY WorldTyped DEF TypeInv
<1>2. CASE open'[s] = open[s]
  BY <1>2
<1>3. CASE open'[s] # open[s] /\ \E p \in world.ticks : CallAlerts(p)
  <2>1. PICK p \in world.ticks : CallAlerts(p)
    BY <1>3
  <2>2. /\ s = ticks[p].site /\ ticks[p].step = "alert" /\ website[s].exists
        /\ \A title \in open'[s] \ open[s] : Planned(ticks[p].plan, Create(title))
        /\ \A title \in open[s] \ open'[s] : Planned(ticks[p].plan, Resolve(title))
    BY <1>1, <1>3, <2>1, CallPlanned
  <2>3. BorneOut(s, ticks[p].plan)
    BY <1>1, <2>1, <2>2 DEF ConfirmInv, Grounded
  <2> QED BY <2>2, <2>3 DEF BorneOut
<1>4. CASE open'[s] # open[s] /\ ~\E p \in world.ticks : CallAlerts(p)
  <2>1. \E o \in world.operators : OperatorRequest(o) \/ OperatorStep(o)
    BY <1>4 DEF Next, vars, TickStep, Change, SslDay, Minute, Probe, RecordCheck, UpdateSite,
                ReadRecent, Skip
  <2>2. open'[s] \subseteq open[s] /\ ticks' = ticks
    BY <1>1, <2>1, OperatorTyped
  <2> QED BY <2>2
<1> QED BY <1>2, <1>3, <1>4

\* In a world with one tick at a time the newest rows bear out every availability
\* call a tick has still to make.
THEOREM ConfirmInvariant == Spec => []ConfirmInv
<1>1. Init => ConfirmInv
  BY DEF Init, ConfirmInv, Grounded, IdleTick
<1> QED BY <1>1, NextConfirms, TypeInvariant, PTL DEF Spec

\* With one tick at a time an availability alert opens only after a streak of bad
\* checks, and a check ends an outage only after a streak of good ones.
THEOREM Confirmed == Spec => AvailabilityConfirmed
<1>1. TypeInv /\ ConfirmInv /\ [Next]_vars =>
        [\A s \in Site :
           Cardinality(world.ticks) = 1 =>
             /\ "offline" \in open'[s] \ open[s] => LastRows(s, FailStreak, Down)
             /\ "degraded" \in open'[s] \ open[s] => LastRows(s, FailStreak, Degraded)
             /\ \A p \in Ticks : ticks'[p] # ticks[p] /\ "offline" \in open[s] \ open'[s]
                                   => LastRows(s, RecoverStreak, Recovered)]_vars
  BY StepConfirmed
<1> QED BY <1>1, TypeInvariant, ConfirmInvariant, PTL DEF Spec, AvailabilityConfirmed

=============================================================================
