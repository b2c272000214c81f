-------------------------- MODULE AuditStoreProofs --------------------------
(***************************************************************************)
(* Proofs about Scanners, Scoring and AuditStore, for every site, every    *)
(* set of failed requests, any number of auditors and any bounds.          *)
(***************************************************************************)
EXTENDS AuditStore, FiniteSetTheorems, TLAPS

-----------------------------------------------------------------------------
(* What the checks report and what the rubrics make of it *)

\* What a finding may be about.
Grounds(s) == Truth(s) \cup Mistaken(s)

\* A rubric names only what its check found, each under its own confidence.
LEMMA NamedIsFound ==
    ASSUME NEW rubric, NEW found, NEW variant, NEW confidence,
           NEW f \in Named(rubric, found, variant, confidence)
    PROVE  f.about \in found /\ f.confidence = confidence
  BY DEF Named, Finding

\* What is named for something that has grounds is honest.
LEMMA NamedHonest ==
    ASSUME NEW s, NEW rubric, NEW found, NEW variant, NEW confidence, found \subseteq Grounds(s)
    PROVE  Honest(Named(rubric, found, variant, confidence), s)
  BY NamedIsFound DEF Honest, Actionable, Grounds

\* What is true of the site is grounds enough.
LEMMA TraitsGround == ASSUME NEW s PROVE s.traits \subseteq Grounds(s)
  BY DEF Grounds, Truth

\* What is only potential alleges nothing.
LEMMA PotentialHonest ==
    ASSUME NEW s, NEW rubric, NEW found PROVE Honest(Named(rubric, found, "", "potential"), s)
<1>1. ASSUME NEW f \in Named(rubric, found, "", "potential") PROVE f.confidence = "potential"
  BY NamedIsFound
<1> QED BY <1>1 DEF Honest, IsExposed, Actionable

\* A notice, that a check could not be made, alleges nothing.
LEMMA NoticeHonest ==
    ASSUME NEW s, NEW code, NEW about PROVE Honest({Notice(code, about)}, s)
<1>1. Notice(code, about).severity = "info"
  BY DEF Notice, Finding, Entry
<1> QED BY <1>1 DEF Honest, Actionable

\* Findings that are honest apart are honest together.
LEMMA UnionHonest ==
    ASSUME NEW s, NEW A, NEW B, Honest(A, s), Honest(B, s) PROVE Honest(A \cup B, s)
  BY DEF Honest, Actionable

\* A site that could not be asked, once, is held to be down.
LEMMA AvailabilityHonest ==
    ASSUME NEW s PROVE Honest(ScoreAvailability(CheckAvailability(s), s), s)
<1>1. CASE CheckAvailability(s).found = {}
  BY <1>1 DEF Honest, Actionable, ScoreAvailability
<1>2. CASE CheckAvailability(s).found # {}
  <2>1. Silent(s) \/ "availability" \in s.lost
    BY <1>2 DEF CheckAvailability, Fetch
  <2>2. "down" \in Truth(s) \cup Mistaken(s)
    BY <2>1 DEF Truth, Mistaken
  <2>3. \A f \in ScoreAvailability(CheckAvailability(s), s) : f.about = "down"
    BY DEF ScoreAvailability, Finding
  <2> QED BY <2>2, <2>3 DEF Honest, Actionable
<1> QED BY <1>1, <1>2

\* The certificate is judged only where a handshake ended.
LEMMA TlsHonest ==
    ASSUME NEW s, NEW today PROVE Honest(ScoreTls(CheckTls(s), today), s)
<1>1. CASE CheckTls(s).error
  BY <1>1, NoticeHonest DEF ScoreTls
<1>2. CASE ~CheckTls(s).error
  <2> DEFINE dated == {"cert.14d", "cert.30d", "cert.expired"}
             found == CheckTls(s).found
  <2>1. found \subseteq Grounds(s)
    BY <1>2, TraitsGround DEF CheckTls, Seen, Failed
  <2>2. Honest(Named(TlsRubric, found \ dated, "", "none"), s)
    BY <2>1, NamedHonest
  <2>3. Honest(Named(TlsRubric, found \cap dated, today, "none"), s)
    BY <2>1, NamedHonest
  <2>4. ScoreTls(CheckTls(s), today) = Named(TlsRubric, found \ dated, "", "none")
                                     \cup Named(TlsRubric, found \cap dated, today, "none")
    BY <1>2 DEF ScoreTls
  <2> QED BY <2>2, <2>3, <2>4, UnionHonest
<1> QED BY <1>1, <1>2

\* A header is missing only from an answer that came.
LEMMA HeadersHonest ==
    ASSUME NEW s PROVE Honest(ScoreHeaders(CheckHeaders(s)), s)
<1>1. CASE CheckHeaders(s).error
  BY <1>1, NoticeHonest DEF ScoreHeaders
<1>2. CASE ~CheckHeaders(s).error
  <2>1. ~CheckHeaders(s).blocked /\ CheckHeaders(s).found \subseteq s.traits
    BY <1>2 DEF CheckHeaders, Seen, Failed, Blocked, Lacks
  <2>2. CheckHeaders(s).found \subseteq Grounds(s)
    BY <2>1, TraitsGround
  <2> QED BY <1>2, <2>1, <2>2, NamedHonest DEF ScoreHeaders
<1> QED BY <1>1, <1>2

\* A mail record is missing only when the query for it was answered.
LEMMA DnsAuthHonest ==
    ASSUME NEW s PROVE Honest(ScoreDnsAuth(CheckDnsAuth(s)), s)
<1> DEFINE Said(k) == IF CheckDnsAuth(s)[k].error
                      THEN {Notice("dns.scan_error", k) : x \in {k} \cap {"spf", "dmarc"}}
                      ELSE Named(DnsRubric, CheckDnsAuth(s)[k].found, "", "none")
<1>1. ASSUME NEW k \in DOMAIN CheckDnsAuth(s)
      PROVE  Honest(Said(k), s)
  <2>1. CheckDnsAuth(s)[k].found \subseteq Grounds(s)
    <3>1. CheckDnsAuth(s)[k].found \subseteq s.traits
      BY DEF CheckDnsAuth, QueryTxt, Seen, Failed
    <3> QED BY <3>1, TraitsGround
  <2>2. CASE CheckDnsAuth(s)[k].error
    <3>1. Said(k) \subseteq {Notice("dns.scan_error", k)}
      BY <2>2
    <3> QED BY <3>1, NoticeHonest DEF Honest, Actionable
  <2>3. CASE ~CheckDnsAuth(s)[k].error
    BY <2>1, <2>3, NamedHonest
  <2> QED BY <2>2, <2>3
<1>2. ScoreDnsAuth(CheckDnsAuth(s)) = UNION {Said(k) : k \in DOMAIN CheckDnsAuth(s)}
  BY DEF ScoreDnsAuth
<1> HIDE DEF Said
<1> QED BY <1>1, <1>2 DEF Honest, Actionable

\* A third party's name that is claimed is never said to be exposed.
LEMMA TakeoverHonest ==
    ASSUME NEW s PROVE Honest(ScoreTakeover(CheckTakeover(s)), s)
<1> DEFINE found == CheckTakeover(s).found
<1>1. found \cap {"cname.unclaimed", "cname.dangling"} \subseteq Grounds(s)
  <2>1. found \cap {"cname.unclaimed", "cname.dangling"} \subseteq s.traits
    BY DEF CheckTakeover, Seen, CnameChain, Dangles
  <2> QED BY <2>1, TraitsGround
<1>2. CASE "cname.unclaimed" \in found
  <2>1. {"cname.unclaimed"} \subseteq Grounds(s)
    BY <1>1, <1>2
  <2> QED BY <1>2, <2>1, NamedHonest DEF ScoreTakeover
<1>3. CASE "cname.unclaimed" \notin found /\ "cname.dangling" \in found
  <2>1. {"cname.dangling"} \subseteq Grounds(s)
    BY <1>1, <1>3
  <2> QED BY <1>3, <2>1, NamedHonest DEF ScoreTakeover
<1>4. CASE "cname.unclaimed" \notin found /\ "cname.dangling" \notin found
  <2>1. ScoreTakeover(CheckTakeover(s)) = Named(TakeoverRubric, found, "", "potential")
    BY <1>4 DEF ScoreTakeover
  <2> QED BY <2>1, PotentialHonest
<1> QED BY <1>2, <1>3, <1>4

\* A page that looks like any file is mistaken for it only when both controls failed.
LEMMA MisconfigHonest ==
    ASSUME NEW s PROVE Honest(ScoreMisconfig(CheckMisconfig(s)), s)
<1>1. CASE CheckMisconfig(s).error
  BY <1>1, NoticeHonest DEF ScoreMisconfig
<1>2. CASE ~CheckMisconfig(s).error
  <2> DEFINE found == CheckMisconfig(s).found
             said == Named(MisconfigRubric, found \ {"soft404", "nocontact"}, "", "none")
             soft == {Notice("misconfig.soft_404", t) : t \in found \cap {"soft404"}}
             contact == {Notice("misconfig.security_txt", t) : t \in found \cap {"nocontact"}}
  <2>1. ~CheckMisconfig(s).blocked
    BY <1>2 DEF CheckMisconfig, Seen, Failed, Blocked
  <2>3. found \ {"soft404", "nocontact"} \subseteq Grounds(s)
    <3>1. ExposedPaths(s) \subseteq Grounds(s)
      <4>1. ~Baseline(s) => Silent(s) \/ "controls" \in s.lost
        BY DEF Baseline, Fetch
      <4>2. ExposedPaths(s) # {} => ~Silent(s)
        BY DEF ExposedPaths, Reached, Fetch
      <4> QED BY <4>1, <4>2, TraitsGround DEF ExposedPaths, Grounds, Mistaken
    <3>2. found \subseteq s.traits \cup ExposedPaths(s) \cup {"soft404", "nocontact"}
      BY <1>2 DEF CheckMisconfig, Seen, Failed, Blocked
    <3> QED BY <3>1, <3>2, TraitsGround
  <2>2. ScoreMisconfig(CheckMisconfig(s)) = said \cup soft \cup contact
    BY <1>2, <2>1 DEF ScoreMisconfig
  <2>5. Honest(said, s)
    BY <2>3, NamedHonest
  <2>6. Honest(soft, s) /\ Honest(contact, s)
    BY NoticeHonest DEF Honest, Actionable
  <2> HIDE DEF found, said, soft, contact
  <2> QED BY <2>2, <2>5, <2>6, UnionHonest
<1> QED BY <1>1, <1>2

\* What a finding costs can be changed alone.
LEMMA PenaltyAlone ==
    ASSUME NEW entry, NEW about, NEW variant, NEW confidence, NEW n
    PROVE  LET f == [Finding(entry, about, variant, confidence) EXCEPT !.penalty = n]
           IN f.about = about /\ f.confidence = confidence
  BY DEF Finding

\* Being charged changes nothing of a finding but what it costs.
LEMMA ChargedHonest ==
    ASSUME NEW s, NEW findings, NEW rank, NEW cap,
           \A g \in findings : \E entry, about, variant, confidence :
               /\ g = Finding(entry, about, variant, confidence)
               /\ about \in Grounds(s) \/ confidence \in {"low", "potential"}
    PROVE  Honest(Charged(findings, rank, cap), s)
<1>1. ASSUME NEW f \in Charged(findings, rank, cap)
      PROVE  f.about \in Grounds(s) \/ f.confidence \in {"low", "potential"}
  <2>0. PICK g \in findings : \E n : f = [g EXCEPT !.penalty = n]
    BY DEF Charged
  <2>1. PICK n : f = [g EXCEPT !.penalty = n]
    BY <2>0
  <2>2. PICK entry, about, variant, confidence :
            /\ g = Finding(entry, about, variant, confidence)
            /\ about \in Grounds(s) \/ confidence \in {"low", "potential"}
    OBVIOUS
  <2>3. f = [Finding(entry, about, variant, confidence) EXCEPT !.penalty = n]
    BY <2>1, <2>2
  <2>4. f.about = about /\ f.confidence = confidence
    BY <2>3, PenaltyAlone
  <2> QED BY <2>2, <2>4
<1> QED BY <1>1 DEF Honest, Actionable, Grounds, IsExposed

\* A finding on a product is made by Finding, and is never more than potential.
LEMMA CveFindingShape ==
    ASSUME NEW t, NEW exploited
    PROVE  \E entry, variant, confidence :
               /\ CveFinding(t, exploited) = Finding(entry, t, variant, confidence)
               /\ confidence \in {"low", "potential"}
<1> DEFINE confidence == IF t = "cve.fuzzy" THEN "low" ELSE "potential"
           variant == IF t = "cve.kev" /\ exploited THEN "exploited" ELSE ""
           severity == IF t = "cve.fuzzy" THEN "medium" ELSE IF t = "cve.kev" /\ ~exploited THEN "high"
                       ELSE "critical"
           penalty == CveWeight[severity]
           entry == Entry("cve.known_vulnerable", severity,
                          IF t = "cve.fuzzy" THEN penalty \div 2 ELSE penalty)
<1>1. CveFinding(t, exploited) = Finding(entry, t, variant, confidence)
  BY DEF CveFinding
<1>2. confidence \in {"low", "potential"}
  OBVIOUS
<1> HIDE DEF confidence, variant, severity, penalty, entry
<1> QED BY <1>1, <1>2

\* What is matched by a version alone is never said to be exposed.
LEMMA CveHonest ==
    ASSUME NEW s PROVE Honest(ScoreCve(CheckCve(s)), s)
<1>1. CASE CheckCve(s).blocked \/ CheckCve(s).error
  BY <1>1, NoticeHonest DEF ScoreCve
<1>2. CASE ~CheckCve(s).blocked /\ ~CheckCve(s).error
  <2> DEFINE found == {CveFinding(t, "exploited" \in CheckCve(s).found) :
                           t \in CheckCve(s).found \cap Product}
             rank == [g \in found |-> ProductRank[g.about]]
  <2>1. ScoreCve(CheckCve(s)) = Charged(found, rank, CveWeight.cap)
    BY <1>2 DEF ScoreCve
  <2>2. ASSUME NEW g \in found
        PROVE  \E entry, about, variant, confidence :
                   /\ g = Finding(entry, about, variant, confidence)
                   /\ about \in Grounds(s) \/ confidence \in {"low", "potential"}
    BY CveFindingShape
  <2> HIDE DEF found, rank
  <2> QED BY <2>1, <2>2, ChargedHonest
<1> QED BY <1>1, <1>2

\* An external engine is charged for what it found, and for nothing when it failed.
LEMMA EngineHonest ==
    ASSUME NEW s, NEW e \in Engine PROVE Honest(ScoreEngine(CheckEngine(s, e), e), s)
<1>1. CASE CheckEngine(s, e).error
  BY <1>1, NoticeHonest DEF ScoreEngine
<1>2. CASE ~CheckEngine(s, e).error
  <2> DEFINE bands == {c \in DOMAIN Rank : Band(e, c) \in CheckEngine(s, e).found}
             found == {Finding(Entry(EngineCode[e].finding, b, EngineWeight[e][b]), Band(e, b), "",
                               "confirmed") : b \in bands}
             rank == [f \in found |-> Rank[f.severity]]
  <2>1. CheckEngine(s, e).found \subseteq Grounds(s)
    BY <1>2, TraitsGround DEF CheckEngine, Faced, Seen, Failed, Grounds, Mistaken
  <2>2. ScoreEngine(CheckEngine(s, e), e) = Charged(found, rank, EngineWeight[e].cap)
    BY <1>2 DEF ScoreEngine
  <2>3. ASSUME NEW g \in found
        PROVE  \E entry, about, variant, confidence :
                   /\ g = Finding(entry, about, variant, confidence)
                   /\ about \in Grounds(s) \/ confidence \in {"low", "potential"}
    BY <2>1
  <2> HIDE DEF found, rank
  <2> QED BY <2>2, <2>3, ChargedHonest
<1> QED BY <1>1, <1>2

\* Every check, core or engine, is honest.
LEMMA CheckHonest ==
    ASSUME NEW s, NEW today, NEW k \in Core \cup Engine
    PROVE  Honest(ScoreCheck(ScanSite(s)[k], k, s, today), s)
<1>1. CASE k = "availability"
  BY <1>1, AvailabilityHonest DEF ScoreCheck, ScanSite
<1>2. CASE k = "tls"
  BY <1>2, TlsHonest DEF ScoreCheck, ScanSite
<1>3. CASE k = "headers"
  BY <1>3, HeadersHonest DEF ScoreCheck, ScanSite
<1>4. CASE k = "dns_auth"
  BY <1>4, DnsAuthHonest DEF ScoreCheck, ScanSite
<1>5. CASE k = "takeover"
  BY <1>5, TakeoverHonest DEF ScoreCheck, ScanSite
<1>6. CASE k = "misconfig"
  BY <1>6, MisconfigHonest DEF ScoreCheck, ScanSite
<1>7. CASE k = "cve"
  BY <1>7, CveHonest DEF ScoreCheck, ScanSite
<1>8. CASE k \in Engine
  <2>1. ScanSite(s)[k] = CheckEngine(s, k)
    BY <1>8 DEF ScanSite, Engine, CheckTestssl, CheckNuclei, CheckZap
  <2>2. ScoreCheck(ScanSite(s)[k], k, s, today) = ScoreEngine(CheckEngine(s, k), k)
    BY <1>8, <2>1 DEF ScoreCheck, Engine
  <2> QED BY <1>8, <2>2, EngineHonest
<1> QED BY <1>1, <1>2, <1>3, <1>4, <1>5, <1>6, <1>7, <1>8 DEF Core

\* A check that ran got the answer it is judged by.
LEMMA RanIsJudged ==
    ASSUME NEW s, NEW k \in Core, NEW checks \in SUBSET (Core \cup Engine),
           ScannerStatus([c \in checks |-> ScanSite(s)[c]], k) = "ran"
    PROVE  k \in Judged(s)
<1> DEFINE scan == [c \in checks |-> ScanSite(s)[c]]
<1>1. k \in checks
  BY DEF ScannerStatus
<1>2. scan[k] = ScanSite(s)[k]
  BY <1>1
<1>3. k \in {"availability", "dns_auth"} \/ (~scan[k].blocked /\ (scan[k].error => k = "headers"))
  BY <1>1 DEF ScannerStatus
<1> HIDE DEF scan
<1>4. CASE k = "tls"
  <2>1. ~CheckTls(s).error
    BY <1>2, <1>3, <1>4 DEF ScanSite
  <2> QED BY <1>4, <2>1 DEF CheckTls, Failed, Judged
<1>5. CASE k = "headers"
  <2>1. ~CheckHeaders(s).blocked
    BY <1>2, <1>3, <1>5 DEF ScanSite
  <2>2. ~Fetch(s, "headers").blocked
    BY <2>1 DEF CheckHeaders, Fetch, Blocked
  <2> QED BY <1>5, <2>2 DEF Judged
<1>6. CASE k = "misconfig"
  <2>1. ~CheckMisconfig(s).error
    BY <1>2, <1>3, <1>6 DEF ScanSite
  <2>2. Reached(Fetch(s, "misconfig"))
    BY <2>1 DEF CheckMisconfig, Reached, Failed, Blocked
  <2> QED BY <1>6, <2>2 DEF Judged
<1>7. CASE k = "cve"
  <2>1. ~CheckCve(s).error
    BY <1>2, <1>3, <1>7 DEF ScanSite
  <2>2. Reached(Fetch(s, "cve"))
    BY <2>1 DEF CheckCve, Reached, Failed, Blocked
  <2> QED BY <1>7, <2>2 DEF Judged
<1> QED BY <1>4, <1>5, <1>6, <1>7 DEF Core, Judged

\* Every control is held to one of the core checks.
LEMMA ControlsOfCore ==
    ASSUME NEW c \in DOMAIN Controls PROVE Controls[c].scanner \in Core
  BY DEF Controls, Control, Core

\* Whichever of the checks ran, and whatever confidence was asked for, the result
\* of a site alleges nothing without grounds, and judges no control by a check
\* that did not get through.
THEOREM ScoreSiteHonest ==
    ASSUME NEW s, NEW today, NEW floor, NEW checks \in SUBSET (Core \cup Engine)
    PROVE  LET result == ScoreSite([k \in checks |-> ScanSite(s)[k]], s, today, floor)
           IN result.site = s /\ Honest(result.findings, s) /\ Measured(result)
<1> DEFINE scan == [k \in checks |-> ScanSite(s)[k]]
           result == ScoreSite(scan, s, today, floor)
<1>1. Honest(Findings(scan, s, today), s)
  <2>1. ASSUME NEW k \in checks PROVE Honest(ScoreCheck(scan[k], k, s, today), s)
    BY CheckHonest
  <2>2. Findings(scan, s, today) = UNION {ScoreCheck(scan[k], k, s, today) : k \in checks}
    BY DEF Findings
  <2> HIDE DEF scan
  <2> QED BY <2>1, <2>2 DEF Honest, Actionable
<1>2. /\ result.site = s
      /\ result.findings = FilterByConfidence(Findings(scan, s, today), floor)
      /\ result.controls = AssessCompliance(result.findings, Coverage(scan))
  BY DEF ScoreSite
<1>3. result.findings \subseteq Findings(scan, s, today)
  BY <1>2 DEF FilterByConfidence
<1> HIDE DEF result
<1>4. Measured(result)
  <2> SUFFICES ASSUME NEW c \in DOMAIN Controls, result.controls[c] # "not_assessed"
               PROVE  Controls[c].scanner \in Judged(s)
    BY <1>2 DEF Measured
  <2>1. Coverage(scan)[Controls[c].scanner] = "ran"
    BY <1>2 DEF AssessCompliance, ControlStatus
  <2>2. ScannerStatus(scan, Controls[c].scanner) = "ran"
    BY <2>1, ControlsOfCore DEF Coverage
  <2> QED BY <2>2, ControlsOfCore, RanIsJudged
<1> HIDE DEF scan
<1>5. Honest(result.findings, s)
  BY <1>1, <1>3 DEF Honest, Actionable
<1> QED BY <1>2, <1>4, <1>5 DEF result, scan

-----------------------------------------------------------------------------
(* The store.  An audit that is about to save carries an honest result; one  *)
(* that is about to write what its verification decided marks as fixed what  *)
(* its scan did not see, reopens what it saw, and means to change no row     *)
(* that was an operator's when it was read.                                  *)

LedgerRow == [status : {"open", "fixed"}, by : {"auto", "manual"}]
Counts == [runs : Nat, started : Nat, manual : Nat, deletes : Nat, restarts : Nat]
FixedRow == [status |-> "fixed", by |-> "auto"]

Shaped ==
    /\ world \in Worlds
    /\ job = [a \in Auditors |-> job[a]]
    /\ used \in Counts
    /\ \A key \in DOMAIN ledger : ledger[key] \in LedgerRow

ResultHonest(result) == Honest(result.findings, result.site) /\ Measured(result)
CurrentOf(j) == Keys(Actionable(j.result.findings))
PlanSound(j) ==
    \A p \in j.plan :
        \/ p.status = "fixed" /\ p.key \notin CurrentOf(j) /\ p.seen.by # "manual"
        \/ p.status = "open" /\ p.key \in CurrentOf(j) /\ p.seen = FixedRow
Promise(j) ==
    /\ j.step = "save" => ResultHonest(j.result)
    /\ j.step = "write" => PlanSound(j)

IInv ==
    /\ Shaped
    /\ \A a \in Auditors : Promise(job[a])
    /\ NothingAlleged

\* Who changes the step of one auditor leaves the others as they are.
LEMMA OneJob ==
    ASSUME Shaped, NEW a \in Auditors, NEW j, job' = [job EXCEPT ![a] = j]
    PROVE  /\ job'[a] = j /\ \A b \in Auditors \ {a} : job'[b] = job[b]
           /\ job' = [b \in Auditors |-> job'[b]]
<1>1. job' = [b \in Auditors |-> IF b = a THEN j ELSE job[b]]
  BY DEF Shaped
<1> QED BY <1>1 DEF Shaped

\* A step of one auditor keeps the invariant if what it comes to hold is sound.
LEMMA JobKept ==
    ASSUME IInv, NEW a \in Auditors, NEW j, job' = [job EXCEPT ![a] = j],
           Promise(j), world' = world, used' \in Counts,
           \A key \in DOMAIN ledger' : ledger'[key] \in LedgerRow, NothingAlleged'
    PROVE  IInv'
<1>1. /\ job'[a] = j /\ \A b \in Auditors \ {a} : job'[b] = job[b]
      /\ job' = [b \in Auditors |-> job'[b]]
  BY OneJob DEF IInv
<1>2. Shaped'
  BY <1>1 DEF IInv, Shaped
<1>3. \A b \in Auditors : Promise(job'[b])
  BY <1>1 DEF IInv
<1>4. (\A b \in Auditors : Promise(job[b]))'
  BY <1>3 DEF Promise, PlanSound, ResultHonest, CurrentOf, Honest, Measured
<1> QED BY <1>2, <1>4 DEF IInv

\* Nothing is saved at first.
LEMMA InitHonest == Init => IInv
<1> SUFFICES ASSUME Init PROVE IInv
  OBVIOUS
<1>1. job = [a \in Auditors |-> Idle] /\ Idle.step = "idle"
  BY DEF Init, Idle, Job
<1>2. DOMAIN ledger = {} /\ DOMAIN runs = {}
  BY DEF Init, Empty
<1>3. Shaped
  BY <1>1, <1>2 DEF Init, Shaped, Counts
<1>4. \A a \in Auditors : Promise(job[a])
  BY <1>1 DEF Promise
<1> QED BY <1>2, <1>3, <1>4 DEF IInv, NothingAlleged

\* The checks of a site were all made by the same request for an audit.
LEMMA ScanHonest ==
    ASSUME IInv, NEW a \in Auditors, ScanTarget(a) PROVE IInv'
<1>1. PICK raised \in BOOLEAN :
        job' = [job EXCEPT ![a] = Job("save",
            ScoreSite(IF raised THEN Empty ELSE [k \in Enabled |-> ScanSite(site)[k]],
                      site, day, world.floor), 0, {})]
  BY DEF ScanTarget
<1> DEFINE checks == IF raised THEN {} ELSE Enabled
           result == ScoreSite([k \in checks |-> ScanSite(site)[k]], site, day, world.floor)
           j == Job("save", result, 0, {})
<1>2. checks \in SUBSET (Core \cup Engine)
  BY DEF Enabled
<1>3. ResultHonest(result)
  BY <1>2, ScoreSiteHonest DEF ResultHonest
<1>4. job' = [job EXCEPT ![a] = j]
  BY <1>1 DEF Empty
<1> HIDE DEF result
<1>5. Promise(j)
  BY <1>3 DEF Job, Promise
<1> HIDE DEF j
<1>6. /\ world' = world /\ used' = used /\ ledger' = ledger /\ runs' = runs
  BY DEF ScanTarget
<1>7. used' \in Counts /\ \A key \in DOMAIN ledger' : ledger'[key] \in LedgerRow
  BY <1>6 DEF IInv, Shaped
<1>8. NothingAlleged'
  BY <1>6 DEF IInv, NothingAlleged
<1> QED BY <1>4, <1>5, <1>6, <1>7, <1>8, JobKept

\* The run that is saved is the one that was scored.
LEMMA SaveHonest ==
    ASSUME IInv, NEW a \in Auditors, SaveRun(a) PROVE IInv'
<1> DEFINE n == used.runs + 1
           j == Job("verify", job[a].result, n, {})
<1>1. job' = [job EXCEPT ![a] = j]
  BY DEF SaveRun
<1>2. Promise(j)
  BY DEF Job, Promise
<1>3. /\ world' = world /\ used' \in Counts
      /\ \A key \in DOMAIN ledger' : ledger'[key] \in LedgerRow
  BY DEF SaveRun, IInv, Shaped, Counts
<1>4. ResultHonest(job[a].result)
  BY DEF SaveRun, IInv, Promise
<1>5. runs' = [r \in DOMAIN runs \cup {n} |-> IF r = n THEN job[a].result ELSE runs[r]]
  BY DEF SaveRun
<1> HIDE DEF n, j
<1>6. NothingAlleged'
  BY <1>4, <1>5 DEF IInv, NothingAlleged, ResultHonest
<1> QED BY <1>1, <1>2, <1>3, <1>6, JobKept

\* What is planned, and what it was planned for.
LEMMA PlanCases ==
    ASSUME NEW delta, NEW p \in Plan(delta)
    PROVE  \/ \E f \in delta.resolved : /\ p = [key |-> Key(f), seen |-> Row(Key(f)), status |-> "fixed"]
                                        /\ Row(Key(f)).by # "manual"
           \/ \E f \in delta.new : /\ p = [key |-> Key(f), seen |-> Row(Key(f)), status |-> "open"]
                                   /\ Row(Key(f)) = FixedRow
<1> DEFINE fixes == {[key |-> Key(f), seen |-> Row(Key(f)), status |-> "fixed"] :
                         f \in {g \in delta.resolved : Row(Key(g)).by # "manual"}}
           reopens == {[key |-> Key(f), seen |-> Row(Key(f)), status |-> "open"] :
                         f \in {g \in delta.new : Row(Key(g)) = [status |-> "fixed", by |-> "auto"]}}
<1>1. CASE p \in fixes
  BY <1>1
<1>2. CASE p \in reopens
  BY <1>2 DEF FixedRow
<1>3. p \in fixes \/ p \in reopens
  BY DEF Plan
<1> QED BY <1>1, <1>2, <1>3

\* A verification marks as fixed what its run has not, and reopens what it has.
LEMMA PlanIsSound ==
    ASSUME NEW current, NEW previous, NEW p \in Plan(DiffFindings(current, previous))
    PROVE  \/ p.status = "fixed" /\ p.key \notin Keys(Actionable(current)) /\ p.seen.by # "manual"
           \/ p.status = "open" /\ p.key \in Keys(Actionable(current)) /\ p.seen = FixedRow
<1> DEFINE delta == DiffFindings(current, previous)
<1>1. /\ \A f \in delta.resolved : Key(f) \notin Keys(Actionable(current))
      /\ \A f \in delta.new : Key(f) \in Keys(Actionable(current))
  BY DEF DiffFindings, Keys, Actionable
<1> HIDE DEF delta
<1>2. CASE \E f \in delta.resolved : /\ p = [key |-> Key(f), seen |-> Row(Key(f)), status |-> "fixed"]
                                     /\ Row(Key(f)).by # "manual"
  BY <1>1, <1>2
<1>3. CASE \E f \in delta.new : /\ p = [key |-> Key(f), seen |-> Row(Key(f)), status |-> "open"]
                                /\ Row(Key(f)) = FixedRow
  <2>1. PICK f \in delta.new : /\ p = [key |-> Key(f), seen |-> Row(Key(f)), status |-> "open"]
                               /\ Row(Key(f)) = FixedRow
    BY <1>3
  <2>2. p.status = "open" /\ p.key = Key(f) /\ p.seen = Row(Key(f))
    BY <2>1
  <2> QED BY <1>1, <2>1, <2>2
<1> QED BY <1>2, <1>3, PlanCases DEF delta

\* What a verification holds when it has read the rows.
LEMMA ReadJob ==
    ASSUME Shaped, NEW a \in Auditors, VerifyRead(a)
    PROVE  \/ /\ Before(job[a].run) = {}
              /\ job' = [job EXCEPT ![a] = Job("prune", job[a].result, job[a].run, {})]
           \/ /\ Before(job[a].run) # {}
              /\ job' = [job EXCEPT ![a] =
                     Job("write", job[a].result, job[a].run,
                         Plan(DiffFindings(job[a].result.findings,
                                           runs[Max(Before(job[a].run))].findings)))]
  BY DEF VerifyRead, To

\* A row that the verifier means to change was not an operator's when it was read.
LEMMA ReadSpares ==
    ASSUME IInv, NEW a \in Auditors, VerifyRead(a) PROVE IInv'
<1>1. world' = world /\ used' = used /\ ledger' = ledger /\ runs' = runs
  BY DEF VerifyRead
<1>2. used' \in Counts /\ \A key \in DOMAIN ledger' : ledger'[key] \in LedgerRow
  BY <1>1 DEF IInv, Shaped
<1>3. NothingAlleged'
  BY <1>1 DEF IInv, NothingAlleged
<1>4. CASE Before(job[a].run) = {}
  <2>1. Promise(Job("prune", job[a].result, job[a].run, {}))
    BY DEF Promise, Job
  <2> QED BY <1>1, <1>2, <1>3, <1>4, <2>1, ReadJob, JobKept DEF IInv
<1>5. CASE Before(job[a].run) # {}
  <2> DEFINE plan == Plan(DiffFindings(job[a].result.findings,
                                       runs[Max(Before(job[a].run))].findings))
             j == Job("write", job[a].result, job[a].run, plan)
  <2>1. job' = [job EXCEPT ![a] = j]
    BY <1>5, ReadJob DEF IInv
  <2>2. \A p \in plan :
            \/ p.status = "fixed" /\ p.key \notin Keys(Actionable(job[a].result.findings))
                 /\ p.seen.by # "manual"
            \/ p.status = "open" /\ p.key \in Keys(Actionable(job[a].result.findings))
                 /\ p.seen = FixedRow
    BY PlanIsSound
  <2> HIDE DEF plan
  <2>3. j.step = "write" /\ j.result = job[a].result /\ j.plan = plan
    BY DEF Job
  <2> HIDE DEF j
  <2>4. Promise(j)
    BY <2>2, <2>3 DEF Promise, PlanSound, CurrentOf
  <2> QED BY <1>1, <1>2, <1>3, <2>1, <2>4, JobKept
<1> QED BY <1>4, <1>5

\* What a verification makes of a row.
LEMMA WrittenRow ==
    ASSUME IInv, NEW a \in Auditors, VerifyWrite(a), NEW key \in DOMAIN ledger'
    PROVE  \/ /\ key \in DOMAIN ledger /\ ledger'[key] = ledger[key]
              /\ \A p \in job[a].plan : p.key # key
           \/ \E p \in job[a].plan :
                  /\ p.key = key
                  /\ \/ /\ p.seen = NoRow /\ key \notin DOMAIN ledger
                        /\ ledger'[key] = [status |-> p.status, by |-> "auto"]
                     \/ /\ p.seen # NoRow /\ key \in DOMAIN ledger
                        /\ ledger'[key] = [ledger[key] EXCEPT !.status =
                               IF p.seen.status # p.status THEN p.status ELSE @]
<1> DEFINE plan == job[a].plan
           planned == {p.key : p \in plan}
<1>1. ledger' = [k \in planned \cup DOMAIN ledger |->
                    IF k \in planned THEN Written(CHOOSE p \in plan : p.key = k) ELSE ledger[k]]
  BY DEF VerifyWrite
<1>2. Fits(plan)
  BY DEF VerifyWrite
<1>3. CASE key \notin planned
  BY <1>1, <1>3
<1>4. CASE key \in planned
  <2>1. PICK p \in plan : p.key = key /\ ledger'[key] = Written(p)
    <3> DEFINE p == CHOOSE p \in plan : p.key = key
    <3>1. \E q \in plan : q.key = key
      BY <1>4
    <3>2. p \in plan /\ p.key = key
      BY <3>1
    <3>3. ledger'[key] = Written(p)
      BY <1>1, <1>4
    <3> HIDE DEF p
    <3> QED BY <3>2, <3>3
  <2>2. p.seen = NoRow <=> key \notin DOMAIN ledger
    BY <1>2, <2>1 DEF Fits
  <2>3. \/ /\ p.seen = NoRow /\ key \notin DOMAIN ledger
           /\ ledger'[key] = [status |-> p.status, by |-> "auto"]
        \/ /\ p.seen # NoRow /\ key \in DOMAIN ledger
           /\ ledger'[key] = [ledger[key] EXCEPT !.status =
                  IF p.seen.status # p.status THEN p.status ELSE @]
    BY <2>1, <2>2 DEF Written
  <2> QED BY <2>1, <2>3
<1> QED BY <1>3, <1>4

\* The rows that are written are rows.
LEMMA WrittenTyped ==
    ASSUME IInv, NEW a \in Auditors, VerifyWrite(a), NEW key \in DOMAIN ledger'
    PROVE  ledger'[key] \in LedgerRow
<1>1. PlanSound(job[a])
  BY DEF VerifyWrite, IInv, Promise
<1>2. \A p \in job[a].plan : p.status \in {"open", "fixed"}
  BY <1>1 DEF PlanSound
<1>3. CASE key \in DOMAIN ledger /\ ledger'[key] = ledger[key]
  BY <1>3 DEF IInv, Shaped
<1>4. ASSUME NEW p \in job[a].plan, ledger'[key] = [status |-> p.status, by |-> "auto"]
      PROVE  ledger'[key] \in LedgerRow
  BY <1>2, <1>4 DEF LedgerRow
<1>5. ASSUME NEW p \in job[a].plan, key \in DOMAIN ledger,
             ledger'[key] = [ledger[key] EXCEPT !.status =
                                 IF p.seen.status # p.status THEN p.status ELSE @]
      PROVE  ledger'[key] \in LedgerRow
  <2>1. ledger[key] \in LedgerRow /\ p.status \in {"open", "fixed"}
    BY <1>2, <1>5 DEF IInv, Shaped
  <2> QED BY <1>5, <2>1 DEF LedgerRow
<1> QED BY <1>3, <1>4, <1>5, WrittenRow

\* The verification writes its plan on the rows as they are by then.
LEMMA WriteHonest ==
    ASSUME IInv, NEW a \in Auditors, VerifyWrite(a) PROVE IInv'
<1> DEFINE j == Job("prune", job[a].result, job[a].run, {})
<1>1. job' = [job EXCEPT ![a] = j]
  BY DEF VerifyWrite, To
<1>2. Promise(j)
  BY DEF Job, Promise
<1> HIDE DEF j
<1>3. /\ world' = world /\ used' = used /\ runs' = runs
  BY DEF VerifyWrite
<1>4. used' \in Counts /\ NothingAlleged'
  BY <1>3 DEF IInv, Shaped, NothingAlleged
<1> QED BY <1>1, <1>2, <1>3, <1>4, WrittenTyped, JobKept

\* The steps that end an audit, or begin one.
LEMMA OtherAuditHonest ==
    ASSUME IInv, NEW a \in Auditors,
           StartScan(a) \/ SaveFails(a) \/ VerifyFails(a) \/ Prune(a) \/ Finish(a)
    PROVE  IInv'
<1>1. PICK step \in {"scan", "failed", "prune", "done", "idle"} :
          \E result, run, plan : job' = [job EXCEPT ![a] = Job(step, result, run, plan)]
  BY DEF StartScan, SaveFails, VerifyFails, Prune, Finish, To, Idle
<1>2. PICK result, run, plan : job' = [job EXCEPT ![a] = Job(step, result, run, plan)]
  BY <1>1
<1>3. Promise(Job(step, result, run, plan))
  BY DEF Job, Promise
<1>4. /\ world' = world /\ ledger' = ledger
  BY DEF StartScan, SaveFails, VerifyFails, Prune, Finish
<1>5. used' \in Counts
  BY DEF StartScan, SaveFails, VerifyFails, Prune, Finish, IInv, Shaped, Counts
<1>6. NothingAlleged'
  <2>1. CASE runs' = runs
    BY <2>1 DEF IInv, NothingAlleged
  <2>2. CASE Prune(a)
    <3>1. PICK kept : runs' = [r \in DOMAIN runs \cap kept |-> runs[r]]
      BY <2>2 DEF Prune
    <3> QED BY <3>1 DEF IInv, NothingAlleged
  <2> QED BY <2>1, <2>2 DEF StartScan, SaveFails, VerifyFails, Finish
<1>7. \A key \in DOMAIN ledger' : ledger'[key] \in LedgerRow
  BY <1>4 DEF IInv, Shaped
<1> QED BY <1>2, <1>3, <1>4, <1>5, <1>6, <1>7, JobKept

\* The dashboard's audit fails at once, or dies with its process.
LEMMA DashboardHonest ==
    ASSUME IInv, StartWithoutTargets \/ RestartDashboard PROVE IInv'
<1>1. PICK step \in {"failed", "idle"} :
          job' = [job EXCEPT !["dashboard"] = Job(step, Empty, 0, {})]
  BY DEF StartWithoutTargets, RestartDashboard, Idle
<1>2. Promise(Job(step, Empty, 0, {}))
  BY DEF Job, Promise
<1>3. used' \in Counts
  BY DEF StartWithoutTargets, RestartDashboard, IInv, Shaped, Counts
<1>4. NothingAlleged'
  BY DEF StartWithoutTargets, RestartDashboard, IInv, NothingAlleged
<1>5. world' = world /\ ledger' = ledger
  BY DEF StartWithoutTargets, RestartDashboard
<1>6. \A key \in DOMAIN ledger' : ledger'[key] \in LedgerRow
  BY <1>5 DEF IInv, Shaped
<1> QED BY AuditorsAssumption, <1>1, <1>2, <1>3, <1>4, <1>5, <1>6, JobKept

\* A step that is no audit's keeps what the audits hold.
LEMMA RestHonest ==
    ASSUME IInv, world' = world, job' = job, used' \in Counts,
           \A key \in DOMAIN ledger' : ledger'[key] \in LedgerRow,
           runs' = runs \/ DOMAIN runs' = {}
    PROVE  IInv'
<1>1. Shaped'
  BY DEF IInv, Shaped
<1>2. \A b \in Auditors : Promise(job'[b])
  BY DEF IInv
<1>3. (\A b \in Auditors : Promise(job[b]))'
  BY <1>2 DEF Promise, PlanSound, ResultHonest, CurrentOf, Honest, Measured
<1>4. NothingAlleged'
  BY DEF IInv, NothingAlleged
<1> QED BY <1>1, <1>3, <1>4 DEF IInv

\* An operator's row is a row.
LEMMA StatusHonest ==
    ASSUME IInv, NEW key, NEW status \in {"open", "fixed"}, SetFindingStatus(key, status)
    PROVE  IInv'
<1>1. /\ world' = world /\ job' = job /\ runs' = runs
      /\ ledger' = [k \in DOMAIN ledger \cup {key} |->
                        IF k = key THEN [status |-> status, by |-> "manual"] ELSE ledger[k]]
  BY DEF SetFindingStatus
<1>2. used' \in Counts
  BY DEF SetFindingStatus, IInv, Shaped, Counts
<1>3. \A k \in DOMAIN ledger' : ledger'[k] \in LedgerRow
  BY <1>1 DEF IInv, Shaped, LedgerRow
<1> QED BY <1>1, <1>2, <1>3, RestHonest

\* Every step keeps the invariant.
LEMMA NextHonest == ASSUME IInv, [Next]_vars PROVE IInv'
<1>1. used \in Counts /\ \A key \in DOMAIN ledger : ledger[key] \in LedgerRow
  BY DEF IInv, Shaped
<1>2. ASSUME Change \/ NextDay \/ ConsumeReload \/ UNCHANGED vars PROVE IInv'
  BY <1>1, <1>2, RestHonest DEF Change, NextDay, ConsumeReload, vars
<1>3. ASSUME OtherRun PROVE IInv'
  <2>1. used' \in Counts
    <3>1. used' = [used EXCEPT !.started = @ + 1, !.runs = @ + 1]
      BY <1>3 DEF OtherRun
    <3>2. used.started + 1 \in Nat /\ used.runs + 1 \in Nat
      BY <1>1 DEF Counts
    <3> QED BY <1>1, <3>1, <3>2 DEF Counts
  <2> QED BY <1>1, <1>3, <2>1, RestHonest DEF OtherRun
<1>4. ASSUME NEW a \in world.auditors, AuditStep(a) PROVE IInv'
  <2>1. a \in Auditors
    BY WorldsAssumption DEF IInv, Shaped
  <2> QED BY <1>4, <2>1, ScanHonest, SaveHonest, ReadSpares, WriteHonest, OtherAuditHonest
          DEF AuditStep
<1>5. CASE StartWithoutTargets \/ RestartDashboard
  BY <1>5, DashboardHonest
<1>6. ASSUME DeleteSiteResults PROVE IInv'
  <2>1. /\ world' = world /\ job' = job /\ DOMAIN ledger' = {} /\ DOMAIN runs' = {}
    BY <1>6 DEF DeleteSiteResults, Empty
  <2>2. used' \in Counts
    BY <1>1, <1>6 DEF DeleteSiteResults, Counts
  <2> QED BY <2>1, <2>2, RestHonest
<1>7. ASSUME NEW f \in Shown, NEW status \in {"open", "fixed"}, SetFindingStatus(Key(f), status)
      PROVE  IInv'
  BY <1>7, StatusHonest
<1> QED BY <1>2, <1>3, <1>4, <1>5, <1>6, <1>7 DEF Next

\* The shape of the store, what each audit in progress holds and means to write,
\* and the honesty of what is saved, together, are kept by every step.
THEOREM StoreInvariant == Spec => []IInv
<1>1. Init => IInv
  BY InitHonest
<1>2. IInv /\ [Next]_vars => IInv'
  BY NextHonest
<1> QED BY <1>1, <1>2, PTL DEF Spec

\* No run that is saved ever holds anything against a site without grounds, nor
\* judges a control by a check that did not get through.
THEOREM NothingIsAlleged == Spec => []NothingAlleged
<1>1. IInv => NothingAlleged
  BY DEF IInv
<1> QED BY <1>1, StoreInvariant, PTL

\* Nothing but an operator, a deletion, or a verification that read the row before
\* the operator decided changes an operator's status; and that verification writes
\* what its scan saw under the operator's name.
THEOREM ManualStatusIsKept == Spec => ManualStatusKept
<1> DEFINE Kept == \A key \in DOMAIN ledger \cap DOMAIN ledger' :
                       ledger[key].by = "manual" /\ ledger'[key] # ledger[key]
                           => used'.manual # used.manual \/ Overtaken(key)
<1>1. ASSUME IInv, [Next]_vars PROVE [Kept]_vars
  <2>1. ASSUME NEW a \in Auditors, VerifyWrite(a) PROVE Kept
    <3> SUFFICES ASSUME NEW key \in DOMAIN ledger \cap DOMAIN ledger',
                        ledger[key].by = "manual", ledger'[key] # ledger[key]
                 PROVE  Overtaken(key)
      OBVIOUS
    <3>1. PICK p \in job[a].plan :
              /\ p.key = key /\ p.seen # NoRow
              /\ ledger'[key] = [ledger[key] EXCEPT !.status =
                     IF p.seen.status # p.status THEN p.status ELSE @]
      BY <1>1, <2>1, WrittenRow
    <3>2. ledger[key] \in LedgerRow
      BY <1>1 DEF IInv, Shaped
    <3>3. ledger'[key] = [status |-> p.status, by |-> "manual"]
      BY <3>1, <3>2 DEF LedgerRow
    <3>4. job[a].step = "write" /\ PlanSound(job[a])
      BY <1>1, <2>1 DEF VerifyWrite, IInv, Promise
    <3>5. p.seen.by # "manual" /\ p.status = (IF key \in Current(a) THEN "open" ELSE "fixed")
      BY <3>1, <3>4 DEF PlanSound, CurrentOf, Current, FixedRow
    <3>6. job'[a].step = "prune"
      <4>1. job' = [job EXCEPT ![a] = Job("prune", job[a].result, job[a].run, {})]
        BY <2>1 DEF VerifyWrite, To
      <4> QED BY <1>1, <4>1, OneJob DEF IInv, Job
    <3> QED BY <3>1, <3>3, <3>4, <3>5, <3>6 DEF Overtaken
  <2>2. ASSUME NEW key, NEW status, SetFindingStatus(key, status) PROVE Kept
    <3>1. used'.manual = used.manual + 1 /\ used.manual \in Nat
      BY <1>1, <2>2 DEF SetFindingStatus, IInv, Shaped, Counts
    <3> QED BY <3>1
  <2>3. CASE DeleteSiteResults
    BY <2>3 DEF DeleteSiteResults, Empty
  <2>4. CASE ledger' = ledger
    BY <2>4
  <2>5. ASSUME NEW a \in world.auditors, AuditStep(a) PROVE Kept
    <3>1. a \in Auditors
      BY <1>1, WorldsAssumption DEF IInv, Shaped
    <3>2. VerifyRead(a) => ledger' = ledger
      BY DEF VerifyRead
    <3>3. VerifyWrite(a) \/ ledger' = ledger
      BY <2>5, <3>2 DEF AuditStep, StartScan, ScanTarget, SaveRun, SaveFails, VerifyFails, Prune,
                       Finish
    <3> QED BY <2>1, <2>4, <3>1, <3>3
  <2>6. UNCHANGED vars \/ Kept
    <3> HIDE DEF Kept
    <3> QED BY <1>1, <2>2, <2>3, <2>4, <2>5 DEF Next, Change, NextDay, StartWithoutTargets,
               OtherRun, ConsumeReload, RestartDashboard
  <2> QED BY <2>6
<1>2. Spec => [][Kept]_vars
  BY <1>1, StoreInvariant, PTL DEF Spec
<1> QED BY <1>2 DEF ManualStatusKept

-----------------------------------------------------------------------------
(* What a finding weighs goes with its code: a verification compares keys,   *)
(* and must not take a remark of one run for a weakness of another.          *)

Informational ==
    {"tls.scan_error", "headers.blocked_by_challenge", "headers.scan_error", "dns.scan_error",
     "dns.dkim_missing", "dns.caa_missing", "takeover.third_party",
     "misconfig.blocked_by_challenge", "misconfig.scan_error", "misconfig.soft_404",
     "misconfig.security_txt", "cve.blocked_by_challenge", "cve.scan_error",
     "testssl.scan_error", "nuclei.scan_error", "zap.scan_error"}

Weighed(f) == f.severity = "info" <=> f.code \in Informational
Coherent(findings) == \A f \in findings : Weighed(f)

\* A rubric whose lines are coherent names findings that are.
LEMMA NamedCoherent ==
    ASSUME NEW rubric, Coherent(rubric), NEW found, NEW variant, NEW confidence
    PROVE  Coherent(Named(rubric, found, variant, confidence))
<1> SUFFICES ASSUME NEW f \in Named(rubric, found, variant, confidence) PROVE Weighed(f)
  BY DEF Coherent
<1>1. PICK line \in rubric : f = Finding(line, line.trait, variant, confidence)
  BY DEF Named
<1>2. f.code = line.code /\ f.severity = line.severity
  BY <1>1 DEF Finding
<1> QED BY <1>2 DEF Coherent, Weighed

LEMMA NoticeCoherent ==
    ASSUME NEW code \in Informational, NEW about PROVE Coherent({Notice(code, about)})
<1>1. Notice(code, about).code = code /\ Notice(code, about).severity = "info"
  BY DEF Notice, Finding, Entry
<1> QED BY <1>1 DEF Coherent, Weighed

LEMMA UnionCoherent ==
    ASSUME NEW A, NEW B, Coherent(A), Coherent(B) PROVE Coherent(A \cup B)
  BY DEF Coherent

LEMMA SubsetCoherent ==
    ASSUME NEW A, NEW B \in SUBSET A, Coherent(A) PROVE Coherent(B)
  BY DEF Coherent

\* The tables of the scoring engine.
LEMMA RubricsCoherent ==
    /\ Coherent(TlsRubric) /\ Coherent(HeaderRubric) /\ Coherent(DnsRubric)
    /\ Coherent(TakeoverRubric) /\ Coherent(MisconfigRubric)
<1>1. Coherent(TlsRubric)
  BY DEF Coherent, Weighed, TlsRubric, Line, Informational
<1>2. Coherent(HeaderRubric)
  BY DEF Coherent, Weighed, HeaderRubric, Line, Informational
<1>3. Coherent(DnsRubric)
  BY DEF Coherent, Weighed, DnsRubric, Line, Informational
<1>4. Coherent(TakeoverRubric)
  BY DEF Coherent, Weighed, TakeoverRubric, Line, Informational
<1>5. Coherent(MisconfigRubric)
  BY DEF Coherent, Weighed, MisconfigRubric, Line, Informational
<1> QED BY <1>1, <1>2, <1>3, <1>4, <1>5

\* Being charged changes neither the code of a finding nor its severity.
LEMMA ChargedCoherent ==
    ASSUME NEW findings, NEW rank, NEW cap,
           \A g \in findings : \E entry, about, variant, confidence :
               g = Finding(entry, about, variant, confidence) /\ Weighed(entry)
    PROVE  Coherent(Charged(findings, rank, cap))
<1> SUFFICES ASSUME NEW f \in Charged(findings, rank, cap) PROVE Weighed(f)
  BY DEF Coherent
<1>1. PICK g \in findings : \E n : f = [g EXCEPT !.penalty = n]
  BY DEF Charged
<1>2. PICK n : f = [g EXCEPT !.penalty = n]
  BY <1>1
<1>3. PICK entry, about, variant, confidence :
          g = Finding(entry, about, variant, confidence) /\ Weighed(entry)
  OBVIOUS
<1>4. f = [Finding(entry, about, variant, confidence) EXCEPT !.penalty = n]
  BY <1>2, <1>3
<1>5. f.code = entry.code /\ f.severity = entry.severity
  BY <1>4 DEF Finding
<1> QED BY <1>3, <1>5 DEF Weighed

\* What the checks without an engine are charged.
LEMMA CoreCoherent ==
    ASSUME NEW s, NEW today, NEW k \in Core \ {"cve"}
    PROVE  Coherent(ScoreCheck(ScanSite(s)[k], k, s, today))
<1>1. CASE k = "availability"
  <2> DEFINE down == Finding(Entry("availability.site_down", "critical", 50), "down", s.http, "none")
  <2>1. Weighed(down)
    BY DEF Weighed, Finding, Entry, Informational
  <2>2. ScoreAvailability(CheckAvailability(s), s) \subseteq {down}
    BY DEF ScoreAvailability
  <2> HIDE DEF down
  <2>3. Coherent(ScoreAvailability(CheckAvailability(s), s))
    BY <2>1, <2>2 DEF Coherent
  <2> QED BY <1>1, <2>3 DEF ScoreCheck, ScanSite
<1>2. CASE k = "tls"
  <2>1. Coherent({Notice("tls.scan_error", "tls")})
    BY NoticeCoherent DEF Informational
  <2>2. Coherent(ScoreTls(CheckTls(s), today))
    BY <2>1, RubricsCoherent, NamedCoherent, UnionCoherent DEF ScoreTls
  <2> QED BY <1>2, <2>2 DEF ScoreCheck, ScanSite
<1>3. CASE k = "headers"
  <2>1. /\ Coherent({Notice("headers.blocked_by_challenge", "headers")})
        /\ Coherent({Notice("headers.scan_error", "headers")})
    BY NoticeCoherent DEF Informational
  <2>2. Coherent(ScoreHeaders(CheckHeaders(s)))
    BY <2>1, RubricsCoherent, NamedCoherent DEF ScoreHeaders
  <2> QED BY <1>3, <2>2 DEF ScoreCheck, ScanSite
<1>4. CASE k = "dns_auth"
  <2> DEFINE r == CheckDnsAuth(s)
             Said(n) == IF r[n].error THEN {Notice("dns.scan_error", n) : x \in {n} \cap {"spf", "dmarc"}}
                        ELSE Named(DnsRubric, r[n].found, "", "none")
  <2>1. ASSUME NEW n PROVE Coherent(Said(n))
    <3>1. CASE r[n].error
      <4>1. Coherent({Notice("dns.scan_error", n)})
        BY NoticeCoherent DEF Informational
      <4>2. Said(n) \subseteq {Notice("dns.scan_error", n)}
        BY <3>1
      <4> QED BY <4>1, <4>2, SubsetCoherent
    <3>2. CASE ~r[n].error
      BY <3>2, RubricsCoherent, NamedCoherent
    <3> QED BY <3>1, <3>2
  <2>2. ScoreDnsAuth(r) = UNION {Said(n) : n \in DOMAIN r}
    BY DEF ScoreDnsAuth
  <2> HIDE DEF Said
  <2>3. Coherent(ScoreDnsAuth(r))
    BY <2>1, <2>2 DEF Coherent
  <2> QED BY <1>4, <2>3 DEF ScoreCheck, ScanSite
<1>5. CASE k = "takeover"
  <2>1. Coherent(ScoreTakeover(CheckTakeover(s)))
    BY RubricsCoherent, NamedCoherent DEF ScoreTakeover
  <2> QED BY <1>5, <2>1 DEF ScoreCheck, ScanSite
<1>6. CASE k = "misconfig"
  <2> DEFINE found == CheckMisconfig(s).found
             said == Named(MisconfigRubric, found \ {"soft404", "nocontact"}, "", "none")
             soft == {Notice("misconfig.soft_404", t) : t \in found \cap {"soft404"}}
             contact == {Notice("misconfig.security_txt", t) : t \in found \cap {"nocontact"}}
  <2>1. /\ Coherent({Notice("misconfig.blocked_by_challenge", "misconfig")})
        /\ Coherent({Notice("misconfig.scan_error", "misconfig")})
    BY NoticeCoherent DEF Informational
  <2>2. Coherent({Notice("misconfig.soft_404", "soft404")})
    BY NoticeCoherent DEF Informational
  <2>3. Coherent({Notice("misconfig.security_txt", "nocontact")})
    BY NoticeCoherent DEF Informational
  <2>4. /\ soft \subseteq {Notice("misconfig.soft_404", "soft404")}
        /\ contact \subseteq {Notice("misconfig.security_txt", "nocontact")}
    OBVIOUS
  <2>5. Coherent(soft) /\ Coherent(contact)
    BY <2>2, <2>3, <2>4, SubsetCoherent
  <2>6. Coherent(said)
    BY RubricsCoherent, NamedCoherent
  <2>7. \/ ScoreMisconfig(CheckMisconfig(s)) = (said \cup soft) \cup contact
        \/ ScoreMisconfig(CheckMisconfig(s)) = {Notice("misconfig.blocked_by_challenge", "misconfig")}
        \/ ScoreMisconfig(CheckMisconfig(s)) = {Notice("misconfig.scan_error", "misconfig")}
    BY DEF ScoreMisconfig
  <2> HIDE DEF said, soft, contact
  <2>8. Coherent((said \cup soft) \cup contact)
    BY <2>5, <2>6, UnionCoherent
  <2>9. Coherent(ScoreMisconfig(CheckMisconfig(s)))
    BY <2>1, <2>7, <2>8
  <2> QED BY <1>6, <2>9 DEF ScoreCheck, ScanSite
<1> QED BY <1>1, <1>2, <1>3, <1>4, <1>5, <1>6 DEF Core

\* A vulnerability is never a remark.
LEMMA CveCoherent ==
    ASSUME NEW r PROVE Coherent(ScoreCve(r))
<1>1. /\ Coherent({Notice("cve.blocked_by_challenge", "cve")})
      /\ Coherent({Notice("cve.scan_error", "cve")})
  BY NoticeCoherent DEF Informational
<1>2. CASE r.blocked \/ r.error
  BY <1>1, <1>2 DEF ScoreCve
<1>3. CASE ~r.blocked /\ ~r.error
  <2> DEFINE found == {CveFinding(t, "exploited" \in r.found) : t \in r.found \cap Product}
             rank == [g \in found |-> ProductRank[g.about]]
  <2>1. ScoreCve(r) = Charged(found, rank, CveWeight.cap)
    BY <1>3 DEF ScoreCve
  <2>2. ASSUME NEW t, NEW exploited
        PROVE  \E entry, about, variant, confidence :
                   /\ CveFinding(t, exploited) = Finding(entry, about, variant, confidence)
                   /\ Weighed(entry)
    <3> DEFINE confidence == IF t = "cve.fuzzy" THEN "low" ELSE "potential"
               variant == IF t = "cve.kev" /\ exploited THEN "exploited" ELSE ""
               severity == IF t = "cve.fuzzy" THEN "medium"
                           ELSE IF t = "cve.kev" /\ ~exploited THEN "high" ELSE "critical"
               penalty == CveWeight[severity]
               cost == IF t = "cve.fuzzy" THEN penalty \div 2 ELSE penalty
               entry == Entry("cve.known_vulnerable", severity, cost)
    <3>1. CveFinding(t, exploited) = Finding(entry, t, variant, confidence)
      BY DEF CveFinding
    <3>2. severity # "info"
      OBVIOUS
    <3> HIDE DEF confidence, variant, severity, penalty, cost
    <3>3. Weighed(entry)
      BY <3>2 DEF Weighed, Entry, Informational
    <3> HIDE DEF entry
    <3> QED BY <3>1, <3>3
  <2>3. ASSUME NEW g \in found
        PROVE  \E entry, about, variant, confidence :
                   g = Finding(entry, about, variant, confidence) /\ Weighed(entry)
    BY <2>2
  <2> HIDE DEF found, rank
  <2> QED BY <2>1, <2>3, ChargedCoherent
<1> QED BY <1>2, <1>3

\* An engine's report that did not come is a remark, its findings are not.
LEMMA EngineCoherent ==
    ASSUME NEW r, NEW e \in Engine PROVE Coherent(ScoreEngine(r, e))
<1>1. EngineCode[e].error \in Informational /\ EngineCode[e].finding \notin Informational
  BY DEF Engine, EngineCode, Informational
<1>2. CASE r.error
  BY <1>1, <1>2, NoticeCoherent DEF ScoreEngine
<1>3. CASE ~r.error
  <2> DEFINE bands == {c \in DOMAIN Rank : Band(e, c) \in r.found}
             entry(b) == Entry(EngineCode[e].finding, b, EngineWeight[e][b])
             found == {Finding(entry(b), Band(e, b), "", "confirmed") : b \in bands}
             rank == [f \in found |-> Rank[f.severity]]
  <2>1. ScoreEngine(r, e) = Charged(found, rank, EngineWeight[e].cap)
    BY <1>3 DEF ScoreEngine
  <2>2. ASSUME NEW b \in bands PROVE Weighed(entry(b))
    <3>1. b # "info"
      BY DEF Rank
    <3> HIDE DEF bands
    <3>2. entry(b).code = EngineCode[e].finding /\ entry(b).severity = b
      BY DEF Entry
    <3> HIDE DEF entry
    <3> QED BY <1>1, <3>1, <3>2 DEF Weighed
  <2> HIDE DEF bands, entry
  <2>3. ASSUME NEW g \in found
        PROVE  \E any, about, variant, confidence :
                   g = Finding(any, about, variant, confidence) /\ Weighed(any)
    BY <2>2
  <2> HIDE DEF found, rank
  <2> QED BY <2>1, <2>3, ChargedCoherent
<1> QED BY <1>2, <1>3

\* Whichever checks ran, the findings of a site are coherent.
LEMMA ScoreSiteCoherent ==
    ASSUME NEW s, NEW today, NEW floor, NEW checks \in SUBSET (Core \cup Engine)
    PROVE  Coherent(ScoreSite([k \in checks |-> ScanSite(s)[k]], s, today, floor).findings)
<1> DEFINE scan == [k \in checks |-> ScanSite(s)[k]]
           result == ScoreSite(scan, s, today, floor)
<1>1. ASSUME NEW k \in checks PROVE Coherent(ScoreCheck(scan[k], k, s, today))
  <2>1. CASE k \in Core \ {"cve"}
    BY <2>1, CoreCoherent
  <2>2. CASE k = "cve"
    BY <2>2, CveCoherent DEF ScoreCheck
  <2>3. CASE k \in Engine
    BY <2>3, EngineCoherent DEF ScoreCheck, Engine
  <2> QED BY <2>1, <2>2, <2>3
<1>2. Findings(scan, s, today) = UNION {ScoreCheck(scan[k], k, s, today) : k \in checks}
  BY DEF Findings
<1>3. result.findings \subseteq Findings(scan, s, today)
  BY DEF ScoreSite, FilterByConfidence
<1> HIDE DEF scan, result
<1>4. Coherent(Findings(scan, s, today))
  BY <1>1, <1>2 DEF Coherent
<1> QED BY <1>3, <1>4, SubsetCoherent DEF scan, result

-----------------------------------------------------------------------------
(* Types.  No more runs are saved than scans were started: each auditor that *)
(* is about to save one has a scan of its own to its name.                   *)

Busy == {a \in Auditors : job[a].step \in {"scan", "save"}}
Counted == IsFiniteSet(Busy) /\ used.runs + Cardinality(Busy) <= used.started

Steps == {"idle", "scan", "save", "verify", "write", "prune", "failed", "done"}
Panels == [running : BOOLEAN, error : BOOLEAN, reload : BOOLEAN,
           site : {"none", "queued", "done", "error"}]

\* The auditors of the world are auditors.
LEMMA NextCases ==
    ASSUME IInv, [Next]_vars
    PROVE  \/ Change \/ NextDay
           \/ \E a \in Auditors : AuditStep(a)
           \/ StartWithoutTargets \/ OtherRun \/ ConsumeReload \/ DeleteSiteResults
           \/ RestartDashboard
           \/ \E key : \E status \in {"open", "fixed"} : SetFindingStatus(key, status)
           \/ UNCHANGED vars
<1>1. world.auditors \subseteq Auditors
  BY WorldsAssumption DEF IInv, Shaped
<1> QED BY <1>1 DEF Next

\* What the page shows keeps its type.
LEMMA PanelTyped ==
    ASSUME IInv, [Next]_vars, panel \in Panels PROVE panel' \in Panels
<1>1. Quiet \in Panels
  BY DEF Quiet, Panels
<1>2. ASSUME NEW a \in Auditors, AuditStep(a) PROVE panel' \in Panels
  <2>1. CASE StartScan(a)
    <3>1. [Quiet EXCEPT !.running = TRUE, !.site = "queued"] \in Panels
      BY DEF Quiet, Panels
    <3> QED BY <2>1, <3>1 DEF StartScan
  <2>2. CASE ScanTarget(a)
    <3>1. [panel EXCEPT !.site = "error"] \in Panels /\ [panel EXCEPT !.site = "done"] \in Panels
      BY DEF Panels
    <3> QED BY <2>2, <3>1 DEF ScanTarget
  <2>3. CASE SaveFails(a)
    <3>1. [panel EXCEPT !.error = TRUE] \in Panels
      BY DEF Panels
    <3> QED BY <2>3, <3>1 DEF SaveFails
  <2>4. CASE Finish(a)
    <3>1. [panel EXCEPT !.running = FALSE, !.reload = ~panel.error] \in Panels
      BY DEF Panels
    <3> QED BY <2>4, <3>1 DEF Finish
  <2>5. CASE panel' = panel
    BY <2>5
  <2> QED BY <1>2, <2>1, <2>2, <2>3, <2>4, <2>5
          DEF AuditStep, SaveRun, VerifyRead, VerifyWrite, VerifyFails, Prune
<1>3. ASSUME StartWithoutTargets PROVE panel' \in Panels
  <2>1. [Quiet EXCEPT !.running = TRUE, !.error = TRUE] \in Panels
    BY DEF Quiet, Panels
  <2> QED BY <1>3, <2>1 DEF StartWithoutTargets
<1>4. ASSUME ConsumeReload PROVE panel' \in Panels
  <2>1. [panel EXCEPT !.reload = FALSE] \in Panels
    BY DEF Panels
  <2> QED BY <1>4, <2>1 DEF ConsumeReload
<1>5. ASSUME RestartDashboard PROVE panel' \in Panels
  BY <1>1, <1>5 DEF RestartDashboard
<1>6. Change \/ NextDay \/ OtherRun \/ DeleteSiteResults \/ UNCHANGED vars
        \/ (\E key, status : SetFindingStatus(key, status)) => panel' \in Panels
  BY DEF Change, NextDay, OtherRun, DeleteSiteResults, SetFindingStatus, vars
<1> QED BY <1>2, <1>3, <1>4, <1>5, <1>6, NextCases

\* The bounds of a world are numbers.
LEMMA WorldBounds ==
    ASSUME IInv
    PROVE  world.runs \in Nat /\ world.manual \in Nat /\ world.deletes \in Nat /\ world.restarts \in Nat
  BY WorldsAssumption DEF IInv, Shaped

\* An auditor that takes another step leaves the steps of the others alone.
LEMMA StepsTyped ==
    ASSUME IInv, [Next]_vars, \A a \in Auditors : job[a].step \in Steps
    PROVE  \A a \in Auditors : job'[a].step \in Steps
<1>1. ASSUME NEW a \in Auditors, NEW j, j.step \in Steps, job' = [job EXCEPT ![a] = j]
      PROVE  \A b \in Auditors : job'[b].step \in Steps
  BY <1>1, OneJob DEF IInv
<1>2. ASSUME NEW a \in Auditors, AuditStep(a)
      PROVE  \A b \in Auditors : job'[b].step \in Steps
  <2>1. PICK step \in Steps : \E result, run, plan :
            job' = [job EXCEPT ![a] = Job(step, result, run, plan)]
    <3>1. CASE VerifyRead(a)
      BY <3>1, ReadJob DEF IInv, Steps
    <3>2. CASE ScanTarget(a)
      <4>1. \E result : job' = [job EXCEPT ![a] = Job("save", result, 0, {})]
        BY <3>2 DEF ScanTarget
      <4> QED BY <4>1 DEF Steps
    <3>3. ASSUME StartScan(a) \/ SaveRun(a) \/ SaveFails(a) \/ VerifyWrite(a) \/ VerifyFails(a)
                   \/ Prune(a) \/ Finish(a)
          PROVE  \E step \in Steps : \E result, run, plan :
                     job' = [job EXCEPT ![a] = Job(step, result, run, plan)]
      BY <3>3 DEF StartScan, SaveRun, SaveFails, VerifyWrite, VerifyFails, Prune, Finish, To,
                  Idle, Steps
    <3> QED BY <1>2, <3>1, <3>2, <3>3 DEF AuditStep
  <2>2. PICK result, run, plan : job' = [job EXCEPT ![a] = Job(step, result, run, plan)]
    BY <2>1
  <2>3. Job(step, result, run, plan).step \in Steps
    BY DEF Job
  <2> QED BY <1>1, <2>2, <2>3
<1>3. ASSUME StartWithoutTargets \/ RestartDashboard
      PROVE  \A b \in Auditors : job'[b].step \in Steps
  <2>1. PICK step \in Steps : job' = [job EXCEPT !["dashboard"] = Job(step, Empty, 0, {})]
    BY <1>3 DEF StartWithoutTargets, RestartDashboard, Idle, Steps
  <2>2. Job(step, Empty, 0, {}).step \in Steps
    BY DEF Job
  <2> QED BY <1>1, <2>1, <2>2, AuditorsAssumption
<1>4. CASE job' = job
  BY <1>4
<1> QED BY <1>2, <1>3, <1>4, NextCases
        DEF Change, NextDay, OtherRun, ConsumeReload, DeleteSiteResults, SetFindingStatus, vars

\* An auditor that goes on to something else than a scan or a save is not busy.
LEMMA LessBusy ==
    ASSUME IInv, Counted, NEW a \in Auditors, NEW j, j.step \notin {"scan", "save"},
           job' = [job EXCEPT ![a] = j], used'.runs = used.runs,
           used'.started \in Nat, used.started <= used'.started
    PROVE  Counted'
<1>1. Busy' \subseteq Busy
  BY OneJob DEF IInv, Busy
<1>2. IsFiniteSet(Busy') /\ Cardinality(Busy') <= Cardinality(Busy)
  BY <1>1, FS_Subset DEF Counted
<1>3. Cardinality(Busy) \in Nat /\ Cardinality(Busy') \in Nat
  BY <1>2, FS_CardinalityType DEF Counted
<1>4. used.runs \in Nat /\ used.started \in Nat
  BY DEF IInv, Shaped, Counts
<1> QED BY <1>2, <1>3, <1>4 DEF Counted

\* Every scan that is started may be saved once.
LEMMA CountedStep ==
    ASSUME IInv, Counted, [Next]_vars PROVE Counted'
<1>0. /\ used.runs \in Nat /\ used.started \in Nat
      /\ IsFiniteSet(Busy) /\ Cardinality(Busy) \in Nat
  BY FS_CardinalityType DEF IInv, Shaped, Counts, Counted
<1>1. ASSUME NEW a \in Auditors, AuditStep(a) PROVE Counted'
  <2>1. CASE StartScan(a)
    <3>1. /\ used'.runs = used.runs /\ used'.started = used.started + 1
          /\ job' = [job EXCEPT ![a] = Job("scan", Empty, 0, {})]
      BY <1>0, <2>1 DEF StartScan, IInv, Shaped, Counts
    <3>2. Busy' = Busy \cup {a}
      <4>1. Job("scan", Empty, 0, {}).step = "scan"
        BY DEF Job
      <4> QED BY <3>1, <4>1, OneJob DEF IInv, Busy
    <3>3. /\ IsFiniteSet(Busy')
          /\ Cardinality(Busy') = Cardinality(Busy) \/ Cardinality(Busy') = Cardinality(Busy) + 1
      BY <1>0, <3>2, FS_AddElement
    <3> QED BY <1>0, <3>1, <3>3 DEF Counted
  <2>2. CASE ScanTarget(a)
    <3>1. used' = used /\ job[a].step = "scan"
      BY <2>2 DEF ScanTarget
    <3>2. PICK result : job' = [job EXCEPT ![a] = Job("save", result, 0, {})]
      BY <2>2 DEF ScanTarget
    <3>3. Busy' = Busy
      BY <3>1, <3>2, OneJob DEF IInv, Busy, Job
    <3> QED BY <3>1, <3>3 DEF Counted
  <2>3. CASE SaveRun(a)
    <3>1. /\ used'.runs = used.runs + 1 /\ used'.started = used.started
          /\ job[a].step = "save"
          /\ job' = [job EXCEPT ![a] = Job("verify", @.result, used.runs + 1, {})]
      BY <2>3 DEF SaveRun, IInv, Shaped, Counts
    <3>2. job' = [job EXCEPT ![a] = Job("verify", job[a].result, used.runs + 1, {})]
      BY <3>1
    <3>3. Busy' = Busy \ {a} /\ a \in Busy
      <4>1. Job("verify", job[a].result, used.runs + 1, {}).step = "verify"
        BY DEF Job
      <4> QED BY <3>1, <3>2, <4>1, OneJob DEF IInv, Busy
    <3>4. IsFiniteSet(Busy') /\ Cardinality(Busy') = Cardinality(Busy) - 1
      BY <1>0, <3>3, FS_RemoveElement
    <3> QED BY <1>0, <3>1, <3>4 DEF Counted
  <2>4. ASSUME SaveFails(a) \/ VerifyRead(a) \/ VerifyWrite(a) \/ VerifyFails(a) \/ Prune(a) \/ Finish(a)
        PROVE  Counted'
    <3>1. used' = used
      BY <2>4 DEF SaveFails, VerifyRead, VerifyWrite, VerifyFails, Prune, Finish
    <3>2. PICK step \in Steps \ {"scan", "save"} : \E result, run, plan :
              job' = [job EXCEPT ![a] = Job(step, result, run, plan)]
      <4>1. CASE VerifyRead(a)
        BY <4>1, ReadJob DEF IInv, Steps
      <4>2. CASE ~VerifyRead(a)
        BY <2>4, <4>2 DEF SaveFails, VerifyWrite, VerifyFails, Prune, Finish, To, Idle, Steps
      <4> QED BY <4>1, <4>2
    <3>3. PICK result, run, plan : job' = [job EXCEPT ![a] = Job(step, result, run, plan)]
      BY <3>2
    <3>4. Job(step, result, run, plan).step \notin {"scan", "save"}
      BY DEF Job
    <3>5. used'.runs = used.runs /\ used'.started \in Nat /\ used.started <= used'.started
      BY <1>0, <3>1
    <3> QED BY <3>3, <3>4, <3>5, LessBusy
  <2> QED BY <1>1, <2>1, <2>2, <2>3, <2>4 DEF AuditStep
<1>2. ASSUME StartWithoutTargets \/ RestartDashboard PROVE Counted'
  <2>1. PICK step \in {"failed", "idle"} :
            job' = [job EXCEPT !["dashboard"] = Job(step, Empty, 0, {})]
    BY <1>2 DEF StartWithoutTargets, RestartDashboard, Idle
  <2>2. Job(step, Empty, 0, {}).step \notin {"scan", "save"}
    BY DEF Job
  <2>3. used'.runs = used.runs /\ used'.started \in Nat /\ used.started <= used'.started
    BY <1>2 DEF StartWithoutTargets, RestartDashboard, IInv, Shaped, Counts
  <2> QED BY <2>1, <2>2, <2>3, LessBusy, AuditorsAssumption
<1>3. ASSUME job' = job, used'.runs = used.runs, used'.started = used.started PROVE Counted'
  BY <1>3 DEF Counted, Busy
<1>4. Change \/ NextDay \/ ConsumeReload \/ DeleteSiteResults \/ UNCHANGED vars
        \/ (\E key, status : SetFindingStatus(key, status))
        => job' = job /\ used'.runs = used.runs /\ used'.started = used.started
  BY DEF Change, NextDay, ConsumeReload, DeleteSiteResults, SetFindingStatus, vars, IInv, Shaped,
         Counts
<1>5. ASSUME OtherRun PROVE Counted'
  <2>1. job' = job /\ used' = [used EXCEPT !.started = @ + 1, !.runs = @ + 1]
    BY <1>5 DEF OtherRun
  <2>2. used'.runs = used.runs + 1 /\ used'.started = used.started + 1
    BY <2>1 DEF IInv, Shaped, Counts
  <2>3. Busy' = Busy
    BY <2>1 DEF Busy
  <2> QED BY <1>0, <2>2, <2>3 DEF Counted
<1> QED BY <1>1, <1>2, <1>3, <1>4, <1>5, NextCases

Counters == [runs : 0..world.runs, started : 0..world.runs, manual : 0..world.manual,
             deletes : 0..world.deletes, restarts : 0..world.restarts]

\* The counters stay within the bounds of the world.
LEMMA CountersTyped ==
    ASSUME IInv, Counted, used \in Counters, [Next]_vars PROVE (used \in Counters)'
<1>1. world' = world
  BY DEF Next, AuditStep, Change, NextDay, StartScan, StartWithoutTargets, ScanTarget, SaveRun,
         SaveFails, OtherRun, VerifyRead, VerifyWrite, VerifyFails, Prune, Finish, ConsumeReload,
         SetFindingStatus, DeleteSiteResults, RestartDashboard, vars
<1>2. /\ world.runs \in Nat /\ world.manual \in Nat /\ world.deletes \in Nat
      /\ world.restarts \in Nat
  BY WorldBounds
<1>3. SUFFICES used' \in Counters
  BY <1>1 DEF Counters
<1>4. CASE used' = used
  BY <1>4
<1>5. ASSUME used.started < world.runs, used' = [used EXCEPT !.started = @ + 1]
      PROVE  used' \in Counters
  BY <1>2, <1>5 DEF Counters
<1>6. ASSUME NEW a \in Auditors, SaveRun(a) PROVE used' \in Counters
  <2>1. used' = [used EXCEPT !.runs = @ + 1] /\ job[a].step = "save"
    BY <1>6 DEF SaveRun
  <2>2. IsFiniteSet(Busy) /\ a \in Busy /\ Cardinality(Busy) \in Nat /\ Busy # {}
    BY <2>1, FS_CardinalityType DEF Counted, Busy
  <2>3. Cardinality(Busy) >= 1
    BY <2>2, FS_EmptySet
  <2>4. used.runs < world.runs
    BY <1>2, <2>2, <2>3 DEF Counted, Counters
  <2> QED BY <1>2, <2>1, <2>4 DEF Counters
<1>7. ASSUME NEW key, NEW status, SetFindingStatus(key, status) PROVE used' \in Counters
  BY <1>2, <1>7 DEF SetFindingStatus, Counters
<1>8. ASSUME DeleteSiteResults PROVE used' \in Counters
  BY <1>2, <1>8 DEF DeleteSiteResults, Counters
<1>9. ASSUME RestartDashboard PROVE used' \in Counters
  BY <1>2, <1>9 DEF RestartDashboard, Counters
<1>10. ASSUME NEW a \in Auditors, AuditStep(a) PROVE used' \in Counters
  BY <1>4, <1>5, <1>6, <1>10 DEF AuditStep, StartScan, ScanTarget, SaveFails, VerifyRead,
         VerifyWrite, VerifyFails, Prune, Finish
<1>11. ASSUME StartWithoutTargets PROVE used' \in Counters
  BY <1>5, <1>11 DEF StartWithoutTargets
<1>12. ASSUME OtherRun PROVE used' \in Counters
  <2>1. used' = [used EXCEPT !.started = @ + 1, !.runs = @ + 1] /\ used.started < world.runs
    BY <1>12 DEF OtherRun
  <2>2. IsFiniteSet(Busy) /\ Cardinality(Busy) \in Nat
    BY FS_CardinalityType DEF Counted
  <2>3. used.runs < world.runs
    BY <1>2, <2>1, <2>2 DEF Counted, Counters
  <2>4. used.started + 1 \in 0..world.runs /\ used.runs + 1 \in 0..world.runs
    BY <1>2, <2>1, <2>3 DEF Counters
  <2> QED BY <2>1, <2>4 DEF Counters
<1> QED BY <1>4, <1>7, <1>8, <1>9, <1>10, <1>11, <1>12, NextCases
        DEF Change, NextDay, ConsumeReload, vars

Runs ==
    /\ DOMAIN runs \subseteq 1..used.runs
    /\ others \subseteq (1..used.runs) \ DOMAIN runs
KeysOf(set) == \A key \in set : key = <<key[1], key[2], key[3]>>

\* Runs are numbered in order, and what was missed are keys.
StoreTyped ==
    /\ site \in world.sites /\ day \in {"day1", "day2"}
    /\ Runs /\ KeysOf(missed)

LEMMA KeysTyped == ASSUME NEW findings PROVE KeysOf(Keys(findings))
<1> SUFFICES ASSUME NEW f \in findings PROVE Key(f) = <<Key(f)[1], Key(f)[2], Key(f)[3]>>
  BY DEF KeysOf, Keys
<1> QED BY DEF Key

\* Only the saves add runs.
LEMMA RunsStep ==
    ASSUME IInv, Runs, [Next]_vars PROVE Runs'
<1>1. used.runs \in Nat
  BY DEF IInv, Shaped, Counts
<1>2. ASSUME runs' = runs, others' = others, used'.runs = used.runs PROVE Runs'
  BY <1>2 DEF Runs
<1>3. ASSUME NEW a \in Auditors, SaveRun(a) PROVE Runs'
  <2>1. /\ used'.runs = used.runs + 1 /\ DOMAIN runs' = DOMAIN runs \cup {used.runs + 1}
        /\ others' = others
    BY <1>3 DEF SaveRun, IInv, Shaped, Counts
  <2>2. 1..used.runs \subseteq 1..(used.runs + 1) /\ used.runs + 1 \in 1..(used.runs + 1)
        /\ used.runs + 1 \notin 1..used.runs
    BY <1>1
  <2> QED BY <2>1, <2>2 DEF Runs
<1>4. ASSUME NEW a \in Auditors, Prune(a) PROVE Runs'
  <2>1. PICK kept : runs' = [r \in DOMAIN runs \cap kept |-> runs[r]] /\ others' = others \cap kept
    BY <1>4 DEF Prune
  <2>2. used' = used
    BY <1>4 DEF Prune
  <2> QED BY <2>1, <2>2 DEF Runs
<1>5. ASSUME OtherRun PROVE Runs'
  <2>1. /\ used'.runs = used.runs + 1 /\ runs' = runs /\ others' = others \cup {used.runs + 1}
    BY <1>5 DEF OtherRun, IInv, Shaped, Counts
  <2>2. 1..used.runs \subseteq 1..(used.runs + 1) /\ used.runs + 1 \in 1..(used.runs + 1)
        /\ used.runs + 1 \notin 1..used.runs
    BY <1>1
  <2> QED BY <2>1, <2>2 DEF Runs
<1>6. ASSUME DeleteSiteResults PROVE Runs'
  <2>1. DOMAIN runs' = {} /\ others' = DOMAIN runs \cup others /\ used'.runs = used.runs
    BY <1>6 DEF DeleteSiteResults, Empty, AllRuns, IInv, Shaped, Counts
  <2> QED BY <2>1 DEF Runs
<1>7. ASSUME NEW a \in Auditors, AuditStep(a) PROVE Runs'
  <2>1. StartScan(a) \/ ScanTarget(a) \/ SaveFails(a) \/ VerifyWrite(a) \/ VerifyFails(a) \/ Finish(a)
            \/ VerifyRead(a)
          => runs' = runs /\ others' = others /\ used'.runs = used.runs
    BY DEF StartScan, ScanTarget, SaveFails, VerifyRead, VerifyWrite, VerifyFails, Finish, IInv,
           Shaped, Counts
  <2> QED BY <1>2, <1>3, <1>4, <1>7, <2>1 DEF AuditStep
<1>8. Change \/ NextDay \/ StartWithoutTargets \/ ConsumeReload \/ RestartDashboard
        \/ (\E key, status : SetFindingStatus(key, status)) \/ UNCHANGED vars
        => runs' = runs /\ others' = others /\ used'.runs = used.runs
  BY DEF Change, NextDay, StartWithoutTargets, ConsumeReload, RestartDashboard,
     SetFindingStatus, vars, IInv, Shaped, Counts
<1> QED BY <1>2, <1>5, <1>6, <1>7, <1>8, NextCases

\* What was missed grows by keys.
LEMMA MissedTyped ==
    ASSUME IInv, KeysOf(missed), [Next]_vars PROVE KeysOf(missed')
<1>1. \A a \in Auditors : KeysOf(Current(a))
  BY KeysTyped DEF Current
<1>2. ASSUME NEW a \in Auditors, AuditStep(a) PROVE KeysOf(missed')
  <2>1. CASE VerifyRead(a)
    <3>1. PICK delta : missed' = NowMissed(a, delta)
      BY <2>1 DEF VerifyRead
    <3>2. NowMissed(a, delta) \subseteq missed \cup Current(a)
      BY DEF NowMissed
    <3> QED BY <1>1, <3>1, <3>2 DEF KeysOf
  <2>2. CASE VerifyFails(a)
    <3>1. missed' = missed \cup Current(a)
      BY <2>2 DEF VerifyFails
    <3> QED BY <1>1, <3>1 DEF KeysOf
  <2>3. CASE missed' = missed
    BY <2>3
  <2> QED BY <1>2, <2>1, <2>2, <2>3 DEF AuditStep, StartScan, ScanTarget, SaveRun, SaveFails,
          VerifyWrite, Prune, Finish
<1>3. ASSUME RestartDashboard PROVE KeysOf(missed')
  <2>1. missed' \subseteq missed \cup Current("dashboard")
    BY <1>3 DEF RestartDashboard
  <2> QED BY <1>1, <2>1, AuditorsAssumption DEF KeysOf
<1>4. ASSUME DeleteSiteResults PROVE KeysOf(missed')
  BY <1>4 DEF DeleteSiteResults, KeysOf
<1>5. Change \/ NextDay \/ StartWithoutTargets \/ OtherRun \/ ConsumeReload \/ UNCHANGED vars
        \/ (\E key, status : SetFindingStatus(key, status)) => missed' = missed
  BY DEF Change, NextDay, StartWithoutTargets, OtherRun, ConsumeReload, SetFindingStatus, vars
<1> QED BY <1>2, <1>3, <1>4, <1>5, NextCases

LEMMA StoreTypedStep ==
    ASSUME IInv, StoreTyped, [Next]_vars PROVE StoreTyped'
<1>1. Runs' /\ KeysOf(missed)'
  BY RunsStep, MissedTyped DEF StoreTyped, KeysOf
<1>2. UNCHANGED <<world, site, day>> \/ Change \/ NextDay
  BY NextCases DEF AuditStep, StartScan, ScanTarget, SaveRun, SaveFails, VerifyRead, VerifyWrite,
     VerifyFails, Prune, Finish, StartWithoutTargets, OtherRun, ConsumeReload, DeleteSiteResults,
     RestartDashboard, SetFindingStatus, vars
<1>3. (site \in world.sites /\ day \in {"day1", "day2"})'
  BY <1>2 DEF Change, NextDay, StoreTyped
<1> QED BY <1>1, <1>3 DEF StoreTyped

TypeInv == IInv /\ TypeOK /\ Counted

LEMMA TypeParts ==
    ASSUME IInv
    PROVE  TypeOK <=> /\ StoreTyped /\ panel \in Panels /\ used \in Counters
                      /\ \A a \in Auditors : job[a].step \in Steps
  BY DEF IInv, Shaped, LedgerRow, TypeOK, StoreTyped, Runs, KeysOf, Panels, Counters, Steps

LEMMA InitTypeInv == Init => TypeInv
<1> SUFFICES ASSUME Init PROVE TypeInv
  OBVIOUS
<1>1. IInv
  BY InitHonest
<1>2. StoreTyped
  BY DEF Init, StoreTyped, Runs, KeysOf, Empty
<1>3. panel \in Panels
  BY DEF Init, Panels, Quiet
<1>4. used \in Counters
  BY <1>1, WorldBounds DEF Init, Counters
<1>5. \A a \in Auditors : job[a].step = "idle"
  BY DEF Init, Idle, Job
<1>6. Busy = {} /\ used.runs = 0 /\ used.started = 0
  BY <1>5 DEF Busy, Init
<1>7. Counted
  BY <1>6, FS_EmptySet DEF Counted
<1> QED BY <1>1, <1>2, <1>3, <1>4, <1>5, <1>7, TypeParts DEF TypeInv, Steps

LEMMA NextTypeInv == TypeInv /\ [Next]_vars => TypeInv'
<1> SUFFICES ASSUME TypeInv, [Next]_vars PROVE TypeInv'
  OBVIOUS
<1>1. IInv' /\ Counted'
  BY NextHonest, CountedStep DEF TypeInv
<1>2. /\ StoreTyped /\ panel \in Panels /\ used \in Counters
      /\ \A a \in Auditors : job[a].step \in Steps
  BY TypeParts DEF TypeInv
<1>3. StoreTyped' /\ (panel \in Panels)' /\ (used \in Counters)'
  BY <1>2, StoreTypedStep, PanelTyped, CountersTyped DEF TypeInv, Panels
<1>4. (\A a \in Auditors : job[a].step \in Steps)'
  BY <1>2, StepsTyped DEF TypeInv, Steps
<1>5. TypeOK'
  BY <1>1, <1>3, <1>4 DEF IInv, Shaped, LedgerRow, TypeOK, StoreTyped, Runs, KeysOf, Panels,
     Counters, Steps
<1> QED BY <1>1, <1>5 DEF TypeInv

\* Every variable of the store and of the page keeps its type; in particular runs
\* are numbered by those that were saved, which are no more than were started.
THEOREM TypeCorrect == Spec => []TypeOK
<1>1. TypeInv => TypeOK
  BY DEF TypeInv
<1> QED BY <1>1, InitTypeInv, NextTypeInv, PTL DEF Spec

-----------------------------------------------------------------------------
(* What comes back is open again.  A run is read when its verification has   *)
(* compared it.  Of the newest run that was read, what is fixed by itself    *)
(* was missed or is about to be reopened; and a verification that a newer    *)
(* run overtook can do no harm but to what was missed.                       *)

Cur(run) == Keys(Actionable(runs[run].findings))
Read(run) == run \in DOMAIN runs /\ ~Unread(run)

Running == ~panel.running => job["dashboard"].step = "idle"

AllCoherent ==
    /\ \A r \in DOMAIN runs : Coherent(runs[r].findings)
    /\ \A a \in Auditors : job[a].step = "save" => Coherent(job[a].result.findings)

\* Each pending verification has a run of its own, which is still there as long
\* as an older one is, and whose findings it carries.
Numbered == \A a \in Auditors : Pending(a) => job[a].run \in 1..used.runs
Distinct == \A a, b \in Auditors : Pending(a) /\ Pending(b) /\ job[a].run = job[b].run => a = b
Carried ==
    \A a \in Auditors :
        Pending(a) /\ job[a].run \in DOMAIN runs => runs[job[a].run].findings = job[a].result.findings
Kept ==
    \A a \in Auditors : Pending(a) /\ Before(job[a].run) # {} => job[a].run \in DOMAIN runs

\* What overtakes a verification is missed.
Overtaking ==
    \A a \in Auditors : Pending(a) =>
        \A r \in DOMAIN runs : Read(r) /\ r > job[a].run => Cur(r) \subseteq missed

Opening(top) ==
    \A key \in Cur(top) \ missed : FixedByItself(key) =>
        \E a \in Auditors : /\ job[a].step = "write" /\ job[a].run = top
                            /\ \E p \in job[a].plan : p.key = key
Newer(top) == \A r \in DOMAIN runs : Read(r) => r <= top
TopOpens == \A top \in DOMAIN runs : Read(top) /\ Newer(top) => Opening(top)

Turns == Numbered /\ Distinct /\ Carried /\ Kept /\ Overtaking /\ TopOpens
ReopenInv == Running /\ AllCoherent /\ Turns

\* A maximum is one that is no less than any other.
LEMMA MaxIs ==
    ASSUME NEW S \in SUBSET Int, NEW x \in S, \A y \in S : x >= y PROVE Max(S) = x
<1>1. Max(S) \in S /\ \A y \in S : Max(S) >= y
  BY DEF Max
<1>2. Max(S) \in Int /\ x \in Int /\ x >= Max(S) /\ Max(S) >= x
  BY <1>1
<1> QED BY <1>2

\* The audit of the dashboard has the page say so, from its start to its end.
LEMMA RunningStep == ASSUME TypeInv, Running, [Next]_vars PROVE Running'
<1>0. IInv
  BY DEF TypeInv
<1>1. ASSUME NEW a \in Auditors, AuditStep(a) PROVE Running'
  <2>1. CASE a # "dashboard"
    <3>1. PICK j : job' = [job EXCEPT ![a] = j]
      <4>1. CASE VerifyRead(a)
        BY <1>0, <4>1, ReadJob DEF IInv
      <4>2. CASE ScanTarget(a)
        BY <4>2 DEF ScanTarget
      <4> QED BY <1>1, <4>1, <4>2 DEF AuditStep, StartScan, SaveRun, SaveFails, VerifyWrite,
                  VerifyFails, Prune, Finish, To
    <3>2. panel' = panel
      BY <1>1, <2>1 DEF AuditStep, StartScan, ScanTarget, SaveRun, SaveFails, VerifyRead,
                  VerifyWrite, VerifyFails, Prune, Finish
    <3> QED BY <1>0, <2>1, <3>1, <3>2, OneJob, AuditorsAssumption DEF IInv, Running
  <2>2. CASE a = "dashboard"
    <3>1. CASE StartScan(a)
      <4>1. panel'.running = TRUE
        BY <2>2, <3>1 DEF StartScan, Quiet
      <4> QED BY <4>1 DEF Running
    <3>2. CASE Finish(a)
      <4>1. job' = [job EXCEPT ![a] = Idle]
        BY <3>2 DEF Finish
      <4> QED BY <1>0, <2>2, <4>1, OneJob DEF IInv, Running, Idle, Job
    <3>3. ASSUME ~StartScan(a), ~Finish(a) PROVE Running'
      <4>1. job[a].step # "idle"
        BY <1>1, <3>3 DEF AuditStep, ScanTarget, SaveRun, SaveFails, VerifyRead, VerifyWrite,
               VerifyFails, Pending, Prune
      <4>2. panel.running /\ panel \in Panels
        BY <2>2, <4>1 DEF Running, TypeInv, TypeOK, Panels
      <4>3. panel'.running = panel.running
        BY <1>1, <3>3, <4>2 DEF AuditStep, ScanTarget, SaveRun, SaveFails, VerifyRead,
               VerifyWrite, VerifyFails, Prune, Panels
      <4> QED BY <4>2, <4>3 DEF Running
    <3> QED BY <3>1, <3>2, <3>3
  <2> QED BY <2>1, <2>2
<1>2. ASSUME StartWithoutTargets PROVE Running'
  <2>1. panel'.running = TRUE
    BY <1>2 DEF StartWithoutTargets, Quiet
  <2> QED BY <2>1 DEF Running
<1>3. ASSUME RestartDashboard PROVE Running'
  <2>1. job' = [job EXCEPT !["dashboard"] = Idle]
    BY <1>3 DEF RestartDashboard
  <2> QED BY <1>0, <2>1, OneJob, AuditorsAssumption DEF IInv, Running, Idle, Job
<1>4. ASSUME ConsumeReload PROVE Running'
  <2>1. panel'.running = panel.running /\ job' = job
    BY <1>4 DEF ConsumeReload, TypeInv, TypeOK
  <2> QED BY <2>1 DEF Running
<1>5. ASSUME job' = job, panel' = panel PROVE Running'
  BY <1>5 DEF Running
<1> QED BY <1>0, <1>1, <1>2, <1>3, <1>4, <1>5, NextCases
        DEF Change, NextDay, OtherRun, DeleteSiteResults, SetFindingStatus, vars

\* What a scan finds is coherent, and a save keeps it.
LEMMA CoherentStep == ASSUME TypeInv, AllCoherent, [Next]_vars PROVE AllCoherent'
<1>0. IInv
  BY DEF TypeInv
<1>1. ASSUME NEW a \in Auditors, NEW j, job' = [job EXCEPT ![a] = j],
             j.step = "save" => Coherent(j.result.findings)
      PROVE  \A b \in Auditors : job'[b].step = "save" => Coherent(job'[b].result.findings)
  BY <1>0, <1>1, OneJob DEF IInv, AllCoherent
<1>2. ASSUME NEW a \in Auditors, AuditStep(a) PROVE AllCoherent'
  <2>1. CASE ScanTarget(a)
    <3>1. PICK raised \in BOOLEAN :
              LET reports == ScanSite(site)
                  scan == IF raised THEN Empty ELSE [k \in Enabled |-> reports[k]]
              IN job' = [job EXCEPT ![a] =
                             Job("save", ScoreSite(scan, site, day, world.floor), 0, {})]
      BY <2>1 DEF ScanTarget
    <3> DEFINE checks == IF raised THEN {} ELSE Enabled
               result == ScoreSite([k \in checks |-> ScanSite(site)[k]], site, day, world.floor)
               j == Job("save", result, 0, {})
    <3>2. job' = [job EXCEPT ![a] = j]
      BY <3>1 DEF Empty
    <3>3. checks \in SUBSET (Core \cup Engine)
      BY DEF Enabled
    <3>4. Coherent(result.findings)
      BY <3>3, ScoreSiteCoherent
    <3>5. j.step = "save" => Coherent(j.result.findings)
      BY <3>4 DEF Job
    <3>6. runs' = runs
      BY <2>1 DEF ScanTarget
    <3> HIDE DEF j
    <3> QED BY <1>1, <3>2, <3>5, <3>6 DEF AllCoherent
  <2>2. CASE SaveRun(a)
    <3> DEFINE j == Job("verify", job[a].result, used.runs + 1, {})
    <3>1. job' = [job EXCEPT ![a] = j] /\ job[a].step = "save"
      BY <2>2 DEF SaveRun
    <3>2. j.step # "save"
      BY DEF Job
    <3>3. runs' = [r \in DOMAIN runs \cup {used.runs + 1} |->
                       IF r = used.runs + 1 THEN job[a].result ELSE runs[r]]
      BY <2>2 DEF SaveRun
    <3>4. \A r \in DOMAIN runs' : Coherent(runs'[r].findings)
      BY <3>1, <3>3 DEF AllCoherent
    <3> HIDE DEF j
    <3> QED BY <1>1, <3>1, <3>2, <3>4 DEF AllCoherent
  <2>3. ASSUME ~ScanTarget(a), ~SaveRun(a) PROVE AllCoherent'
    <3>1. \A r \in DOMAIN runs' : Coherent(runs'[r].findings)
      <4>1. CASE Prune(a)
        <5>1. PICK kept : runs' = [r \in DOMAIN runs \cap kept |-> runs[r]]
          BY <4>1 DEF Prune
        <5> QED BY <5>1 DEF AllCoherent
      <4>2. CASE ~Prune(a)
        <5>1. VerifyRead(a) => runs' = runs
          BY DEF VerifyRead
        <5>2. runs' = runs
          BY <1>2, <2>3, <4>2, <5>1 DEF AuditStep, StartScan, SaveFails, VerifyWrite, VerifyFails,
             Finish
        <5> QED BY <5>2 DEF AllCoherent
      <4> QED BY <4>1, <4>2
    <3>2. PICK step \in Steps \ {"save"} : \E result, run, plan :
              job' = [job EXCEPT ![a] = Job(step, result, run, plan)]
      <4>1. CASE VerifyRead(a)
        BY <1>0, <4>1, ReadJob DEF IInv, Steps
      <4>2. CASE ~VerifyRead(a)
        BY <1>2, <2>3, <4>2 DEF AuditStep, StartScan, SaveFails, VerifyWrite, VerifyFails, Prune,
           Finish, To, Idle, Steps
      <4> QED BY <4>1, <4>2
    <3>3. PICK result, run, plan : job' = [job EXCEPT ![a] = Job(step, result, run, plan)]
      BY <3>2
    <3>4. Job(step, result, run, plan).step # "save"
      BY DEF Job
    <3> QED BY <1>1, <3>1, <3>3, <3>4 DEF AllCoherent
  <2> QED BY <2>1, <2>2, <2>3
<1>3. ASSUME StartWithoutTargets \/ RestartDashboard PROVE AllCoherent'
  <2>1. PICK step \in {"failed", "idle"} :
            job' = [job EXCEPT !["dashboard"] = Job(step, Empty, 0, {})]
    BY <1>3 DEF StartWithoutTargets, RestartDashboard, Idle
  <2>2. Job(step, Empty, 0, {}).step # "save"
    BY DEF Job
  <2>3. runs' = runs
    BY <1>3 DEF StartWithoutTargets, RestartDashboard
  <2> QED BY <1>1, <2>1, <2>2, <2>3, AuditorsAssumption DEF AllCoherent
<1>4. ASSUME job' = job, runs' = runs \/ DOMAIN runs' = {} PROVE AllCoherent'
  BY <1>4 DEF AllCoherent
<1> QED BY <1>0, <1>2, <1>3, <1>4, NextCases
        DEF Change, NextDay, OtherRun, ConsumeReload, DeleteSiteResults, SetFindingStatus, vars, Empty

\* A step that leaves the runs and the pending verifications as they are, and
\* fixes nothing by itself, leaves the turns.
LEMMA TurnKept ==
    ASSUME TypeInv, Turns, runs' = runs, missed \subseteq missed',
           used'.runs \in Nat, used.runs <= used'.runs,
           \A key : FixedByItself(key)' => FixedByItself(key),
           \A a \in Auditors : Pending(a)' <=> Pending(a),
           \A a \in Auditors : Pending(a) => job'[a] = job[a]
    PROVE  Turns'
<1>1. used.runs \in Nat
  BY DEF TypeInv, IInv, Shaped, Counts
<1>2. \A a \in Auditors : job'[a].step \in {"verify", "write"} <=> job[a].step \in {"verify", "write"}
  BY DEF Pending
<1>3. \A r : Unread(r)' <=> Unread(r)
  BY <1>2 DEF Unread, Pending
<1>4. \A r : Read(r)' <=> Read(r)
  BY <1>3 DEF Read
<1>5. Numbered' /\ Distinct' /\ Carried'
  BY <1>1 DEF Turns, Numbered, Distinct, Carried
<1>6. \A n : Before(n)' = Before(n)
  BY DEF Before
<1>7. Kept'
  BY <1>6 DEF Turns, Kept
<1>8. \A r : Cur(r)' = Cur(r)
  BY DEF Cur
<1>9. Overtaking'
  BY <1>4, <1>8 DEF Turns, Overtaking
<1>10. TopOpens'
  <2> SUFFICES ASSUME NEW top \in DOMAIN runs, Read(top)', Newer(top)',
                      NEW key \in Cur(top)' \ missed', FixedByItself(key)'
               PROVE  \E a \in Auditors : /\ job'[a].step = "write" /\ job'[a].run = top
                                          /\ \E p \in job'[a].plan : p.key = key
    BY DEF TopOpens, Opening
  <2>1. Read(top) /\ Newer(top) /\ key \in Cur(top) \ missed /\ FixedByItself(key)
    BY <1>4, <1>8 DEF Newer
  <2>2. PICK a \in Auditors : /\ job[a].step = "write" /\ job[a].run = top
                              /\ \E p \in job[a].plan : p.key = key
    BY <2>1 DEF Turns, TopOpens, Opening
  <2>3. job'[a] = job[a]
    BY <2>2 DEF Pending
  <2> QED BY <2>2, <2>3
<1> QED BY <1>5, <1>7, <1>9, <1>10 DEF Turns

\* An auditor that has no verification and gets none leaves the pending ones.
LEMMA OthersPending ==
    ASSUME TypeInv, NEW a \in Auditors, NEW j, job' = [job EXCEPT ![a] = j],
           ~Pending(a), j.step \notin {"verify", "write"}
    PROVE  \A b \in Auditors : /\ Pending(b)' <=> Pending(b)
                               /\ Pending(b) => job'[b] = job[b]
  BY OneJob DEF TypeInv, IInv, Pending

\* The steps of an audit that are no part of a save, a verification or a pruning.
LEMMA TurnOfRest ==
    ASSUME TypeInv, ReopenInv, NEW a \in Auditors,
           StartScan(a) \/ ScanTarget(a) \/ SaveFails(a) \/ Finish(a)
    PROVE  Turns'
<1>1. PICK step \in {"scan", "save", "failed", "idle"} : \E result, run, plan :
          job' = [job EXCEPT ![a] = Job(step, result, run, plan)]
  <2>1. CASE ScanTarget(a)
    BY <2>1 DEF ScanTarget
  <2>2. CASE ~ScanTarget(a)
    BY <2>2 DEF StartScan, SaveFails, Finish, To, Idle
  <2> QED BY <2>1, <2>2
<1>2. PICK result, run, plan : job' = [job EXCEPT ![a] = Job(step, result, run, plan)]
  BY <1>1
<1>3. Job(step, result, run, plan).step \notin {"verify", "write"}
  BY DEF Job
<1>4. ~Pending(a)
  BY DEF StartScan, ScanTarget, SaveFails, Finish, Pending, ReopenInv, Running
<1>5. \A b \in Auditors : (Pending(b)' <=> Pending(b)) /\ (Pending(b) => job'[b] = job[b])
  BY <1>2, <1>3, <1>4, OthersPending
<1>6. UNCHANGED <<runs, ledger, missed>> /\ used'.runs = used.runs /\ used.runs \in Nat
  BY DEF StartScan, ScanTarget, SaveFails, Finish, TypeInv, IInv, Shaped, Counts
<1>7. \A key : FixedByItself(key)' <=> FixedByItself(key)
  BY <1>6 DEF FixedByItself, Row
<1> QED BY <1>5, <1>6, <1>7, TurnKept DEF ReopenInv

\* A run that is saved is newer than any other, and unread.
LEMMA TurnOfSave ==
    ASSUME TypeInv, ReopenInv, NEW a \in Auditors, SaveRun(a) PROVE Turns'
<1>0. PICK new : new = used.runs + 1
  OBVIOUS
<1> DEFINE j == Job("verify", job[a].result, new, {})
<1>1. /\ job[a].step = "save" /\ job' = [job EXCEPT ![a] = j]
      /\ UNCHANGED <<ledger, missed>>
      /\ runs' = [r \in DOMAIN runs \cup {new} |-> IF r = new THEN job[a].result ELSE runs[r]]
  BY <1>0 DEF SaveRun
<1>2. used.runs \in Nat /\ DOMAIN runs \subseteq 1..used.runs /\ used'.runs = new /\ new = used.runs + 1
  BY <1>0 DEF SaveRun, TypeInv, TypeOK, IInv, Shaped, Counts
<1>3. j.step = "verify" /\ j.run = new /\ j.result = job[a].result
  BY DEF Job
<1> HIDE DEF j
<1>4. job'[a] = j /\ \A b \in Auditors \ {a} : job'[b] = job[b]
  BY <1>1, <1>3, OneJob DEF TypeInv, IInv
<1>5. ~Pending(a) /\ \A b \in Auditors : Pending(b)' <=> Pending(b) \/ b = a
  BY <1>1, <1>3, <1>4 DEF Pending
<1>6. \A b \in Auditors : Pending(b) => b # a /\ job'[b] = job[b] /\ job[b].run \in 1..used.runs
  BY <1>4, <1>5 DEF ReopenInv, Turns, Numbered
<1>7. new \notin DOMAIN runs /\ \A r \in DOMAIN runs : runs'[r] = runs[r] /\ r < new
  BY <1>1, <1>2
<1>8. Unread(new)' /\ \A r \in DOMAIN runs : Unread(r)' <=> Unread(r)
  <2>1. Unread(new)'
    BY <1>3, <1>4 DEF Unread
  <2>2. ASSUME NEW r \in DOMAIN runs PROVE Unread(r)' <=> Unread(r)
    <3>1. r # new /\ job[a].step = "save" /\ job'[a].run = new
      BY <1>1, <1>3, <1>4, <1>7
    <3> QED BY <1>4, <3>1 DEF Unread
  <2> QED BY <2>1, <2>2
<1>9. \A r \in DOMAIN runs' : /\ Read(r)' <=> r # new /\ Read(r)
                              /\ Read(r)' => r \in DOMAIN runs
  <2>1. DOMAIN runs' = DOMAIN runs \cup {new}
    BY <1>1
  <2> QED BY <1>7, <1>8, <2>1 DEF Read
<1>10. \A r \in DOMAIN runs : Cur(r)' = Cur(r)
  BY <1>7 DEF Cur
<1>11. \A key : FixedByItself(key)' <=> FixedByItself(key)
  BY <1>1 DEF FixedByItself, Row
<1>12. Numbered'
  BY <1>2, <1>3, <1>4, <1>5, <1>6 DEF Numbered
<1>13. Distinct'
  <2>1. \A b \in Auditors : Pending(b) => job[b].run # new
    BY <1>2, <1>6
  <2> QED BY <1>3, <1>4, <1>5, <1>6, <2>1 DEF ReopenInv, Turns, Distinct
<1>14. Carried'
  <2> SUFFICES ASSUME NEW b \in Auditors, Pending(b)', job'[b].run \in DOMAIN runs'
               PROVE  runs'[job'[b].run].findings = job'[b].result.findings
    BY DEF Carried
  <2>1. CASE b = a
    BY <1>1, <1>3, <1>4, <2>1
  <2>2. CASE b # a
    <3>1. Pending(b) /\ job'[b] = job[b] /\ job[b].run # new
      BY <1>2, <1>5, <1>6, <2>2
    <3>2. job[b].run \in DOMAIN runs
      BY <1>1, <3>1
    <3> QED BY <1>7, <3>1, <3>2 DEF ReopenInv, Turns, Carried
  <2> QED BY <2>1, <2>2
<1>15. Kept'
  <2> SUFFICES ASSUME NEW b \in Auditors, Pending(b)',
                      NEW r \in DOMAIN runs', r < job'[b].run
               PROVE  job'[b].run \in DOMAIN runs'
    BY DEF Kept, Before
  <2>1. CASE b = a
    BY <1>1, <1>3, <1>4, <2>1
  <2>2. CASE b # a
    <3>1. Pending(b) /\ job'[b] = job[b] /\ job[b].run \in 1..used.runs
      BY <1>5, <1>6, <2>2
    <3>2. r < job[b].run /\ r \in DOMAIN runs
      BY <1>1, <1>2, <3>1
    <3> QED BY <1>1, <3>1, <3>2 DEF ReopenInv, Turns, Kept, Before
  <2> QED BY <2>1, <2>2
<1>16. Overtaking'
  <2> SUFFICES ASSUME NEW b \in Auditors, Pending(b)', NEW r \in DOMAIN runs', Read(r)',
                      r > job'[b].run
               PROVE  Cur(r)' \subseteq missed'
    BY DEF Overtaking
  <2>1. r \in DOMAIN runs /\ Read(r)
    BY <1>9
  <2>2. b # a
    BY <1>2, <1>3, <1>4, <2>1
  <2>3. Pending(b) /\ job'[b] = job[b]
    BY <1>5, <1>6, <2>2
  <2> QED BY <1>1, <1>10, <2>1, <2>3 DEF ReopenInv, Turns, Overtaking
<1>17. TopOpens'
  <2> SUFFICES ASSUME NEW top \in DOMAIN runs', Read(top)', Newer(top)',
                      NEW key \in Cur(top)' \ missed', FixedByItself(key)'
               PROVE  \E b \in Auditors : /\ job'[b].step = "write" /\ job'[b].run = top
                                          /\ \E p \in job'[b].plan : p.key = key
    BY DEF TopOpens, Opening
  <2>1. top \in DOMAIN runs /\ Read(top)
    BY <1>9
  <2>2. Newer(top)
    BY <1>1, <1>7, <1>9 DEF Newer
  <2>3. key \in Cur(top) \ missed /\ FixedByItself(key)
    BY <1>1, <1>10, <1>11, <2>1
  <2>4. PICK b \in Auditors : /\ job[b].step = "write" /\ job[b].run = top
                              /\ \E p \in job[b].plan : p.key = key
    BY <2>1, <2>2, <2>3 DEF ReopenInv, Turns, TopOpens, Opening
  <2> QED BY <1>6, <2>4 DEF Pending
<1> QED BY <1>12, <1>13, <1>14, <1>15, <1>16, <1>17 DEF Turns

\* The newest of some runs.
LEMMA GreatestOfSome ==
    ASSUME NEW n \in Nat, NEW S, S \subseteq 1..n, S # {}
    PROVE  Max(S) \in S /\ \A y \in S : y <= Max(S)
<1> DEFINE T == {n - y : y \in S}
<1>1. T \subseteq Nat /\ T # {}
  OBVIOUS
<1>2. PICK z \in T : \A y \in T : ~(<<y, z>> \in OpToRel(<, Nat))
  BY <1>1, WFMin, NatLessThanWellFounded
<1>3. \A y \in T : ~(y < z)
  BY <1>1, <1>2 DEF OpToRel
<1>4. PICK x \in S : z = n - x
  BY <1>2
<1>5. \A y \in S : x >= y
  BY <1>3, <1>4
<1>6. Max(S) = x
  BY <1>4, <1>5, MaxIs
<1> QED BY <1>4, <1>5, <1>6

\* What a run has and its comparison does not call new, the earlier run had.
LEMMA NotNew ==
    ASSUME NEW current, NEW previous, Coherent(current), Coherent(previous),
           NEW key \in Keys(Actionable(current)),
           key \notin Keys(DiffFindings(current, previous).new)
    PROVE  key \in Keys(Actionable(previous))
<1>1. PICK f \in Actionable(current) : Key(f) = key
  BY DEF Keys
<1>2. PICK g \in previous : Key(g) = Key(f)
  BY <1>1 DEF DiffFindings, Keys
<1>3. g.code = f.code
  BY <1>2 DEF Key
<1>4. f.severity # "info" /\ Weighed(f) /\ Weighed(g)
  BY <1>1, <1>2 DEF Actionable, Coherent
<1>5. g \in Actionable(previous)
  BY <1>3, <1>4 DEF Weighed, Actionable
<1> QED BY <1>1, <1>2, <1>5 DEF Keys

\* What is new and was fixed by itself is planned to be reopened.
LEMMA Replanned ==
    ASSUME NEW delta, NEW key \in Keys(delta.new), FixedByItself(key)
    PROVE  \E p \in Plan(delta) : p.key = key
<1>1. PICK f \in delta.new : Key(f) = key
  BY DEF Keys
<1> DEFINE p == [key |-> Key(f), seen |-> Row(Key(f)), status |-> "open"]
<1>2. p \in Plan(delta)
  BY <1>1 DEF Plan, FixedByItself
<1> QED BY <1>1, <1>2

\* A verification compares its run with the one before: whatever that run does
\* not see again it leaves to what was missed, or plans to reopen.
LEMMA TurnOfRead ==
    ASSUME TypeInv, ReopenInv, NEW a \in Auditors, VerifyRead(a) PROVE Turns'
<1>0. PICK r : r = job[a].run
  OBVIOUS
<1> DEFINE delta == DiffFindings(job[a].result.findings,
                        IF Before(r) = {} THEN {} ELSE runs[Max(Before(r))].findings)
<1>1. /\ job[a].step = "verify" /\ Pending(a) /\ runs' = runs /\ ledger' = ledger /\ used' = used
      /\ missed' = NowMissed(a, delta)
  BY <1>0 DEF VerifyRead, Pending
<1>2. PICK step, plan :
          /\ step \in {"prune", "write"}
          /\ job' = [job EXCEPT ![a] = Job(step, job[a].result, r, plan)]
          /\ step = "prune" => Before(r) = {}
          /\ step = "write" => plan = Plan(delta)
  <2>1. CASE Before(r) = {}
    BY <1>0, <2>1, ReadJob DEF TypeInv, IInv
  <2>2. CASE Before(r) # {}
    BY <1>0, <2>2, ReadJob DEF TypeInv, IInv
  <2> QED BY <2>1, <2>2
<1> DEFINE j == Job(step, job[a].result, r, plan)
<1>3. j.step = step /\ j.run = r /\ j.result = job[a].result /\ j.plan = plan
  BY DEF Job
<1> HIDE DEF j
<1>4. job'[a] = j /\ \A b \in Auditors \ {a} : job'[b] = job[b]
  BY <1>2, <1>3, OneJob DEF TypeInv, IInv, j
<1> HIDE DEF delta
<1>5. \A b \in Auditors : /\ job'[b].run = job[b].run /\ job'[b].result = job[b].result
                          /\ Pending(b)' => Pending(b)
  BY <1>0, <1>1, <1>3, <1>4 DEF Pending
<1>6. used.runs \in Nat /\ DOMAIN runs \subseteq 1..used.runs /\ r \in 1..used.runs
  BY <1>0, <1>1 DEF ReopenInv, Turns, Numbered, TypeInv, TypeOK, IInv, Shaped, Counts
<1>7. r \in DOMAIN runs => Cur(r) = Current(a)
  BY <1>0, <1>1 DEF ReopenInv, Turns, Carried, Cur, Current
<1>8. Before(r) # {} => r \in DOMAIN runs
  BY <1>0, <1>1 DEF ReopenInv, Turns, Kept
<1>9. Unread(r)
  BY <1>0, <1>1 DEF Unread
<1>10. \A q \in DOMAIN runs : Read(q)' <=> Read(q) \/ q = r
  <2>1. ASSUME NEW q, Unread(q)' PROVE Unread(q) /\ q # r
    <3>1. PICK b \in Auditors : job'[b].step = "verify" /\ job'[b].run = q
      BY <2>1 DEF Unread
    <3>2. b # a
      BY <1>2, <1>3, <1>4, <3>1
    <3>3. job[b].step = "verify" /\ job[b].run = q
      BY <1>4, <3>1, <3>2
    <3> QED BY <1>0, <1>1, <3>2, <3>3 DEF Unread, ReopenInv, Turns, Distinct, Pending
  <2>2. ASSUME NEW q, Unread(q), q # r PROVE Unread(q)'
    <3>1. PICK b \in Auditors : job[b].step = "verify" /\ job[b].run = q
      BY <2>2 DEF Unread
    <3>2. job'[b] = job[b]
      BY <1>0, <1>4, <2>2, <3>1
    <3> QED BY <3>1, <3>2 DEF Unread
  <2> QED BY <1>1, <1>9, <2>1, <2>2 DEF Read
<1>11. \A q : Cur(q)' = Cur(q)
  BY <1>1 DEF Cur
<1>12. \A key : FixedByItself(key)' <=> FixedByItself(key)
  BY <1>1 DEF FixedByItself, Row
<1>13. Numbered' /\ Distinct' /\ Carried' /\ Kept'
  <2>1. Numbered' /\ Distinct'
    BY <1>1, <1>5 DEF ReopenInv, Turns, Numbered, Distinct
  <2>2. Carried'
    BY <1>1, <1>5 DEF ReopenInv, Turns, Carried
  <2>3. \A n : Before(n)' = Before(n)
    BY <1>1 DEF Before
  <2>4. Kept'
    BY <1>1, <1>5, <2>3 DEF ReopenInv, Turns, Kept
  <2> QED BY <2>1, <2>2, <2>4
\* Out of turn, with nothing before, as the newest, or overtaken.
<1> DEFINE IsLast == \A q \in DOMAIN runs : q > r => Unread(q)
<1>14. \/ ~InTurn(a) /\ missed' = missed \cup Current(a)
       \/ /\ InTurn(a) /\ Before(r) = {}
          /\ missed' = missed \cup {key \in Current(a) : FixedByItself(key)}
       \/ /\ InTurn(a) /\ Before(r) # {} /\ IsLast /\ missed' = missed \ Keys(delta.new)
       \/ InTurn(a) /\ Before(r) # {} /\ ~IsLast /\ missed' = missed
  BY <1>0, <1>1 DEF NowMissed
<1>15. InTurn(a) => \A b \in Auditors : Pending(b) => job[b].run >= r
  BY <1>0 DEF InTurn
<1>16. Overtaking'
  <2> SUFFICES ASSUME NEW b \in Auditors, Pending(b)', NEW q \in DOMAIN runs', Read(q)',
                      q > job'[b].run
               PROVE  Cur(q)' \subseteq missed'
    BY DEF Overtaking
  <2>1. Pending(b) /\ q \in DOMAIN runs /\ q > job[b].run /\ (Read(q) \/ q = r)
    BY <1>1, <1>5, <1>10
  <2>2. job[b].run \in Int /\ q \in Int /\ r \in Int
    BY <1>6, <2>1 DEF ReopenInv, Turns, Numbered
  <2>3. CASE Read(q)
    <3>1. Cur(q) \subseteq missed
      BY <2>1, <2>3 DEF ReopenInv, Turns, Overtaking
    <3>2. ~(InTurn(a) /\ IsLast)
      BY <1>15, <2>1, <2>2, <2>3 DEF Read
    <3> QED BY <1>11, <1>14, <3>1, <3>2
  <2>4. CASE q = r
    <3>1. ~InTurn(a)
      BY <1>15, <2>1, <2>2, <2>4
    <3> QED BY <1>7, <1>11, <1>14, <2>1, <2>4, <3>1
  <2> QED BY <2>1, <2>3, <2>4
<1>17. TopOpens'
  <2> SUFFICES ASSUME NEW top \in DOMAIN runs', Read(top)', Newer(top)',
                      NEW key \in Cur(top)' \ missed', FixedByItself(key)'
               PROVE  \E b \in Auditors : /\ job'[b].step = "write" /\ job'[b].run = top
                                          /\ \E p \in job'[b].plan : p.key = key
    BY DEF TopOpens, Opening
  <2>1. /\ top \in DOMAIN runs /\ (Read(top) \/ top = r) /\ key \in Cur(top) /\ key \notin missed'
        /\ FixedByItself(key) /\ top \in Int /\ r \in Int
        /\ \A q \in DOMAIN runs : Read(q) \/ q = r => q <= top
    BY <1>1, <1>6, <1>10, <1>11, <1>12 DEF Newer
  <2>2. CASE top # r
    <3>1. Read(top) /\ Newer(top)
      BY <2>1, <2>2 DEF Newer
    <3>2. top > r
      <4>1. CASE top < r
        <5>1. top \in Before(r)
          BY <2>1, <4>1 DEF Before
        <5>2. r <= top
          BY <1>8, <2>1, <5>1
        <5> QED BY <2>1, <4>1, <5>2
      <4> QED BY <2>1, <2>2, <4>1
    <3>3. ~IsLast
      BY <2>1, <3>1, <3>2 DEF Read
    <3>4. key \notin missed
      BY <1>14, <2>1, <3>3
    <3>5. PICK b \in Auditors : /\ job[b].step = "write" /\ job[b].run = top
                                /\ \E p \in job[b].plan : p.key = key
      BY <2>1, <3>1, <3>4 DEF ReopenInv, Turns, TopOpens, Opening
    <3>6. job'[b] = job[b]
      BY <1>1, <1>4, <3>5
    <3> QED BY <3>5, <3>6
  <2>3. CASE top = r
    <3>1. key \in Current(a)
      BY <1>7, <2>1, <2>3
    <3>2. IsLast
      <4> SUFFICES ASSUME NEW q \in DOMAIN runs, q > r PROVE Unread(q)
        OBVIOUS
      <4>1. q \in Int
        BY <1>6
      <4> QED BY <2>1, <2>3, <4>1 DEF Read
    <3>3. InTurn(a) /\ Before(r) # {} /\ missed' = missed \ Keys(delta.new)
      BY <1>14, <2>1, <3>1, <3>2
    <3>4. step = "write" /\ plan = Plan(delta)
      BY <1>2, <3>3
    <3>5. CASE key \in Keys(delta.new)
      BY <1>3, <1>4, <2>1, <2>3, <3>4, <3>5, Replanned
    <3>6. CASE key \notin Keys(delta.new)
      <4>1. key \notin missed
        BY <2>1, <3>3, <3>6
      <4>2. PICK prev : prev = Max(Before(r))
        OBVIOUS
      <4>3. Before(r) \subseteq 1..used.runs
        BY <1>6 DEF Before
      <4>4. prev \in Before(r) /\ \A q \in Before(r) : q <= prev
        BY <1>6, <3>3, <4>2, <4>3, GreatestOfSome
      <4>5. prev \in DOMAIN runs /\ prev < r /\ prev \in Int
        BY <1>6, <4>4 DEF Before
      <4>6. Coherent(runs[r].findings) /\ Coherent(runs[prev].findings)
        BY <2>1, <2>3, <4>5 DEF ReopenInv, AllCoherent
      <4>7. runs[r].findings = job[a].result.findings
        BY <1>0, <1>1, <2>1, <2>3 DEF ReopenInv, Turns, Carried
      <4>8. delta = DiffFindings(runs[r].findings, runs[prev].findings)
        BY <3>3, <4>2, <4>7 DEF delta
      <4>9. key \in Cur(prev)
        BY <2>1, <2>3, <3>6, <4>6, <4>8, NotNew DEF Cur
      <4>10. \A b \in Auditors : Pending(b) => job[b].run # prev
        BY <1>15, <2>1, <3>3, <4>5
      <4>11. Read(prev)
        BY <4>5, <4>10 DEF Read, Unread, Pending
      <4>12. Newer(prev)
        <5> SUFFICES ASSUME NEW q \in DOMAIN runs, Read(q) PROVE q <= prev
          BY DEF Newer
        <5>1. q \in Int /\ q # r
          BY <1>6, <1>9 DEF Read
        <5>2. ~(q > r)
          BY <3>2 DEF Read
        <5>3. q \in Before(r)
          BY <2>1, <5>1, <5>2 DEF Before
        <5> QED BY <4>4, <5>3
      <4>13. PICK b \in Auditors : job[b].step = "write" /\ job[b].run = prev
        BY <2>1, <4>1, <4>5, <4>9, <4>11, <4>12 DEF ReopenInv, Turns, TopOpens, Opening
      <4> QED BY <4>10, <4>13 DEF Pending
    <3> QED BY <3>5, <3>6
  <2> QED BY <2>2, <2>3
<1> QED BY <1>13, <1>16, <1>17 DEF Turns

\* A verification that is lost misses what its run saw.
LEMMA TurnOfLost ==
    ASSUME TypeInv, ReopenInv, NEW a \in Auditors, Pending(a),
           NEW j, job' = [job EXCEPT ![a] = j], j.step \notin {"verify", "write"},
           UNCHANGED <<runs, ledger>>, used'.runs = used.runs, missed' = missed \cup Current(a)
    PROVE  Turns'
<1>1. job'[a] = j /\ \A b \in Auditors \ {a} : job'[b] = job[b]
  BY OneJob DEF TypeInv, IInv
<1>2. \A b \in Auditors : Pending(b)' => b # a /\ job'[b] = job[b] /\ Pending(b)
  BY <1>1 DEF Pending
<1>3. \A q \in DOMAIN runs : Read(q)' => Read(q) \/ q = job[a].run
  BY <1>1 DEF Read, Unread
<1>4. \A q \in DOMAIN runs : Read(q) => Read(q)'
  BY <1>1 DEF Read, Unread
<1>5. \A q : Cur(q)' = Cur(q)
  BY DEF Cur
<1>6. \A key : FixedByItself(key)' <=> FixedByItself(key)
  BY DEF FixedByItself, Row
<1>7. job[a].run \in DOMAIN runs => Cur(job[a].run) = Current(a)
  BY DEF ReopenInv, Turns, Carried, Cur, Current
<1>8. Numbered' /\ Distinct' /\ Carried' /\ Kept'
  <2>1. \A n : Before(n)' = Before(n)
    BY DEF Before
  <2> QED BY <1>2, <2>1 DEF ReopenInv, Turns, Numbered, Distinct, Carried, Kept
<1>9. Overtaking'
  <2> SUFFICES ASSUME NEW b \in Auditors, Pending(b)', NEW q \in DOMAIN runs', Read(q)',
                      q > job'[b].run
               PROVE  Cur(q)' \subseteq missed'
    BY DEF Overtaking
  <2>1. Pending(b) /\ q \in DOMAIN runs /\ q > job[b].run /\ (Read(q) \/ q = job[a].run)
    BY <1>2, <1>3
  <2>2. CASE Read(q)
    BY <1>5, <2>1, <2>2 DEF ReopenInv, Turns, Overtaking
  <2>3. CASE q = job[a].run
    BY <1>5, <1>7, <2>1, <2>3
  <2> QED BY <2>1, <2>2, <2>3
<1>10. TopOpens'
  <2> SUFFICES ASSUME NEW top \in DOMAIN runs', Read(top)', Newer(top)',
                      NEW key \in Cur(top)' \ missed', FixedByItself(key)'
               PROVE  \E b \in Auditors : /\ job'[b].step = "write" /\ job'[b].run = top
                                          /\ \E p \in job'[b].plan : p.key = key
    BY DEF TopOpens, Opening
  <2>1. top \in DOMAIN runs /\ key \in Cur(top) \ missed /\ key \notin Current(a) /\ FixedByItself(key)
    BY <1>5, <1>6
  <2>2. top # job[a].run
    BY <1>7, <2>1
  <2>3. Read(top)
    BY <1>3, <2>1, <2>2
  <2>4. Newer(top)
    BY <1>4 DEF Newer
  <2>5. PICK b \in Auditors : /\ job[b].step = "write" /\ job[b].run = top
                              /\ \E p \in job[b].plan : p.key = key
    BY <2>1, <2>3, <2>4 DEF ReopenInv, Turns, TopOpens, Opening
  <2>6. job'[b] = job[b]
    BY <1>1, <2>2, <2>5
  <2> QED BY <2>5, <2>6
<1> QED BY <1>8, <1>9, <1>10 DEF Turns

\* What a verification writes as fixed is not in the newest run that was read, or
\* was missed.
LEMMA TurnOfWrite ==
    ASSUME TypeInv, ReopenInv, NEW a \in Auditors, VerifyWrite(a) PROVE Turns'
<1> DEFINE j == Job("prune", job[a].result, job[a].run, {})
<1>1. /\ job[a].step = "write" /\ Pending(a) /\ job' = [job EXCEPT ![a] = j]
      /\ UNCHANGED <<runs, used, missed>>
  BY DEF VerifyWrite, To, Pending
<1>2. j.step = "prune"
  BY DEF Job
<1> HIDE DEF j
<1>3. job'[a] = j /\ \A b \in Auditors \ {a} : job'[b] = job[b]
  BY <1>1, OneJob DEF TypeInv, IInv
<1>4. \A b \in Auditors : Pending(b)' => b # a /\ job'[b] = job[b] /\ Pending(b)
  BY <1>2, <1>3 DEF Pending
<1>5. \A q : Unread(q)' <=> Unread(q)
  BY <1>1, <1>2, <1>3 DEF Unread
<1>6. \A q : Read(q)' <=> Read(q)
  BY <1>1, <1>5 DEF Read
<1>7. \A q : Cur(q)' = Cur(q)
  BY <1>1 DEF Cur
<1>8. Numbered' /\ Distinct' /\ Carried' /\ Kept'
  <2>1. \A n : Before(n)' = Before(n)
    BY <1>1 DEF Before
  <2> QED BY <1>1, <1>4, <2>1 DEF ReopenInv, Turns, Numbered, Distinct, Carried, Kept
<1>9. Overtaking'
  BY <1>1, <1>4, <1>6, <1>7 DEF ReopenInv, Turns, Overtaking
<1>10. TopOpens'
  <2> SUFFICES ASSUME NEW top \in DOMAIN runs', Read(top)', Newer(top)',
                      NEW key \in Cur(top)' \ missed', FixedByItself(key)'
               PROVE  \E b \in Auditors : /\ job'[b].step = "write" /\ job'[b].run = top
                                          /\ \E p \in job'[b].plan : p.key = key
    BY DEF TopOpens, Opening
  <2>1. top \in DOMAIN runs /\ Read(top) /\ key \in Cur(top) /\ key \notin missed
    BY <1>1, <1>6, <1>7
  <2>2. Newer(top)
    BY <1>1, <1>6 DEF Newer
  <2>3. key \in DOMAIN ledger' /\ ledger'[key] = FixedRow
    BY DEF FixedByItself, Row, NoRow, FixedRow
  <2>4. CASE ledger'[key] = ledger[key] /\ key \in DOMAIN ledger
             /\ \A p \in job[a].plan : p.key # key
    <3>1. FixedByItself(key)
      BY <2>3, <2>4 DEF FixedByItself, Row, FixedRow
    <3>2. PICK b \in Auditors : /\ job[b].step = "write" /\ job[b].run = top
                                /\ \E p \in job[b].plan : p.key = key
      BY <2>1, <2>2, <3>1 DEF ReopenInv, Turns, TopOpens, Opening
    <3>3. job'[b] = job[b]
      BY <1>3, <2>4, <3>2
    <3> QED BY <3>2, <3>3
  <2>5. ASSUME NEW p \in job[a].plan, p.key = key,
               \/ /\ p.seen = NoRow /\ key \notin DOMAIN ledger
                  /\ ledger'[key] = [status |-> p.status, by |-> "auto"]
               \/ /\ p.seen # NoRow /\ key \in DOMAIN ledger
                  /\ ledger'[key] = [ledger[key] EXCEPT !.status =
                         IF p.seen.status # p.status THEN p.status ELSE @]
        PROVE  FALSE
    <3>1. \/ p.status = "fixed" /\ key \notin CurrentOf(job[a])
          \/ p.status = "open" /\ p.seen = FixedRow
      BY <1>1, <2>5 DEF TypeInv, IInv, Promise, PlanSound
    <3>2. ledger'[key].status = "fixed"
      BY <2>3 DEF FixedRow
    <3>3. p.status # "open"
      <4> SUFFICES ASSUME p.status = "open" PROVE FALSE
        OBVIOUS
      <4>1. p.seen.status = "fixed" /\ p.seen # NoRow
        BY <3>1 DEF FixedRow, NoRow
      <4>2. key \in DOMAIN ledger /\ ledger'[key] = [ledger[key] EXCEPT !.status = "open"]
        BY <2>5, <4>1
      <4>3. ledger[key] \in LedgerRow
        BY <4>2 DEF TypeInv, IInv, Shaped
      <4> QED BY <3>2, <4>2, <4>3 DEF LedgerRow
    <3>4. key \notin Current(a)
      BY <3>1, <3>3 DEF CurrentOf, Current
    <3>5. job[a].run \in Int /\ top \in Int
      BY <1>1, <2>1 DEF ReopenInv, Turns, Numbered, TypeInv, TypeOK
    <3>6. CASE job[a].run = top
      BY <1>1, <2>1, <3>4, <3>6 DEF ReopenInv, Turns, Carried, Cur, Current
    <3>7. CASE job[a].run < top
      BY <1>1, <2>1, <3>5, <3>7 DEF ReopenInv, Turns, Overtaking
    <3>8. CASE top < job[a].run
      <4>1. job[a].run \in DOMAIN runs
        BY <1>1, <2>1, <3>8 DEF ReopenInv, Turns, Kept, Before
      <4>2. Read(job[a].run)
        BY <1>1, <4>1 DEF Read, Unread, ReopenInv, Turns, Distinct, Pending
      <4> QED BY <2>2, <3>5, <3>8, <4>1, <4>2 DEF Newer
    <3> QED BY <3>5, <3>6, <3>7, <3>8
  <2> QED BY <2>3, <2>4, <2>5, WrittenRow DEF TypeInv
<1> QED BY <1>8, <1>9, <1>10 DEF Turns

\* Retention leaves every run that is newer than one it leaves.
LEMMA NewestClosed ==
    ASSUME TypeInv, NEW n \in Nat, NEW q \in Newest(n), NEW s \in AllRuns, s > q PROVE s \in Newest(n)
<1> DEFINE Above(x) == {y \in AllRuns : y > x}
<1>1. used.runs \in Nat /\ AllRuns \subseteq 1..used.runs
  BY DEF TypeInv, TypeOK, AllRuns, IInv, Shaped, Counts
<1>2. q \in AllRuns
  BY DEF Newest
<1>3. Above(s) \subseteq Above(q)
  <2> SUFFICES ASSUME NEW y \in AllRuns, y > s PROVE y > q
    OBVIOUS
  <2>1. y \in Int /\ s \in Int /\ q \in Int
    BY <1>1, <1>2
  <2> QED BY <2>1
<1>4. IsFiniteSet(Above(q))
  <2>1. IsFiniteSet(1..used.runs)
    <3>1. used.runs \in Int
      BY <1>1
    <3> QED BY <3>1, FS_Interval
  <2>2. Above(q) \in SUBSET (1..used.runs)
    BY <1>1
  <2> QED BY <2>1, <2>2, FS_Subset
<1>5. /\ Cardinality(Above(s)) <= Cardinality(Above(q))
      /\ Cardinality(Above(s)) \in Nat /\ Cardinality(Above(q)) \in Nat
  <2>1. IsFiniteSet(Above(s)) /\ Cardinality(Above(s)) <= Cardinality(Above(q))
    BY <1>3, <1>4, FS_Subset
  <2> QED BY <1>4, <2>1, FS_CardinalityType
<1>6. Cardinality(Above(q)) < n
  BY DEF Newest
<1> QED BY <1>5, <1>6 DEF Newest

\* Pruning takes the oldest runs, or all.
LEMMA TurnOfPrune ==
    ASSUME TypeInv, ReopenInv, NEW a \in Auditors, Prune(a) PROVE Turns'
<1>1. PICK kept :
          /\ kept = AllRuns \/ \E cutoff \in Nat : kept = {r \in Newest(KeepRuns) : r > cutoff}
          /\ runs' = [r \in DOMAIN runs \cap kept |-> runs[r]]
  <2>1. used.runs \in Nat /\ Cutoffs \subseteq Nat
    BY DEF Cutoffs, TypeInv, IInv, Shaped, Counts
  <2> QED BY <2>1 DEF Prune
<1>2. job' = [job EXCEPT ![a] = Job("done", job[a].result, job[a].run, {})]
      /\ UNCHANGED <<ledger, missed, used>> /\ ~Pending(a)
  BY DEF Prune, To, Pending
<1>3. Job("done", job[a].result, job[a].run, {}).step = "done"
  BY DEF Job
<1>4. \A b \in Auditors : (Pending(b)' <=> Pending(b)) /\ (Pending(b) => job'[b] = job[b])
  BY <1>2, <1>3, OthersPending
<1>5. used.runs \in Nat /\ DOMAIN runs \subseteq 1..used.runs /\ DOMAIN runs \subseteq AllRuns
      /\ AllRuns \subseteq 1..used.runs
  BY DEF TypeInv, TypeOK, AllRuns, IInv, Shaped, Counts
<1>6. DOMAIN runs' \subseteq DOMAIN runs /\ \A q \in DOMAIN runs' : runs'[q] = runs[q] /\ q \in kept
  BY <1>1
<1>7. ASSUME NEW q \in kept, q \in DOMAIN runs, NEW s \in DOMAIN runs, s > q
      PROVE  s \in DOMAIN runs'
  <2>1. s \in AllRuns
    BY <1>5
  <2>2. s \in kept
    <3>1. CASE kept = AllRuns
      BY <2>1, <3>1
    <3>2. ASSUME NEW cutoff \in Nat, kept = {r \in Newest(KeepRuns) : r > cutoff}
          PROVE  s \in kept
      <4>1. q \in Newest(KeepRuns) /\ q > cutoff
        BY <1>7, <3>2
      <4>2. s \in Newest(KeepRuns)
        BY <1>7, <2>1, <4>1, NewestClosed, KeepAssumption
      <4>3. s > cutoff
        BY <1>5, <1>7, <4>1
      <4> QED BY <3>2, <4>2, <4>3
    <3> QED BY <1>1, <3>1, <3>2
  <2> QED BY <1>1, <2>2
<1>8. \A q : Unread(q)' <=> Unread(q)
  BY <1>4 DEF Unread, Pending
<1>9. \A q \in DOMAIN runs' : (Read(q)' <=> Read(q)) /\ Cur(q)' = Cur(q)
  BY <1>6, <1>8 DEF Read, Cur
<1>10. \A key : FixedByItself(key)' <=> FixedByItself(key)
  BY <1>2 DEF FixedByItself, Row
<1>11. Numbered' /\ Distinct' /\ Carried'
  BY <1>2, <1>4, <1>6 DEF ReopenInv, Turns, Numbered, Distinct, Carried
<1>12. Kept'
  <2> SUFFICES ASSUME NEW b \in Auditors, Pending(b)', NEW q \in DOMAIN runs', q < job'[b].run
               PROVE  job'[b].run \in DOMAIN runs'
    BY DEF Kept, Before
  <2>1. Pending(b) /\ job'[b] = job[b] /\ q \in DOMAIN runs /\ q \in kept
    BY <1>4, <1>6
  <2>2. job[b].run \in DOMAIN runs
    BY <2>1 DEF ReopenInv, Turns, Kept, Before
  <2>3. job[b].run > q
    BY <1>5, <2>1, <2>2
  <2> QED BY <1>7, <2>1, <2>2, <2>3
<1>13. Overtaking'
  BY <1>2, <1>4, <1>6, <1>9 DEF ReopenInv, Turns, Overtaking
<1>14. TopOpens'
  <2> SUFFICES ASSUME NEW top \in DOMAIN runs', Read(top)', Newer(top)',
                      NEW key \in Cur(top)' \ missed', FixedByItself(key)'
               PROVE  \E b \in Auditors : /\ job'[b].step = "write" /\ job'[b].run = top
                                          /\ \E p \in job'[b].plan : p.key = key
    BY DEF TopOpens, Opening
  <2>1. /\ top \in DOMAIN runs /\ top \in kept /\ Read(top) /\ key \in Cur(top) \ missed
        /\ FixedByItself(key)
    BY <1>2, <1>6, <1>9, <1>10
  <2>2. Newer(top)
    <3> SUFFICES ASSUME NEW q \in DOMAIN runs, Read(q), ~(q <= top) PROVE FALSE
      BY DEF Newer
    <3>1. q > top
      BY <1>5, <2>1
    <3>2. q \in DOMAIN runs'
      BY <1>7, <2>1, <3>1
    <3> QED BY <1>9, <3>2 DEF Newer
  <2>3. PICK b \in Auditors : /\ job[b].step = "write" /\ job[b].run = top
                              /\ \E p \in job[b].plan : p.key = key
    BY <2>1, <2>2 DEF ReopenInv, Turns, TopOpens, Opening
  <2> QED BY <1>4, <2>3 DEF Pending
<1> QED BY <1>11, <1>12, <1>13, <1>14 DEF Turns

\* A step that changes no job and no run.
LEMMA TurnUntouched ==
    ASSUME TypeInv, ReopenInv, UNCHANGED <<runs, job, missed>>,
           used'.runs \in Nat, used.runs <= used'.runs,
           \A key : FixedByItself(key)' => FixedByItself(key)
    PROVE  Turns'
<1>1. \A a \in Auditors : (Pending(a)' <=> Pending(a)) /\ (Pending(a) => job'[a] = job[a])
  BY DEF Pending
<1> QED BY <1>1, TurnKept DEF ReopenInv

\* The audit of the dashboard that fails at once, or dies with its process.
LEMMA TurnOfDashboard ==
    ASSUME TypeInv, ReopenInv, StartWithoutTargets \/ RestartDashboard PROVE Turns'
<1>1. PICK step \in {"failed", "idle"} :
          job' = [job EXCEPT !["dashboard"] = Job(step, Empty, 0, {})]
  BY DEF StartWithoutTargets, RestartDashboard, Idle
<1>2. Job(step, Empty, 0, {}).step \notin {"verify", "write"}
  BY DEF Job
<1>3. used'.runs = used.runs /\ used.runs \in Nat /\ UNCHANGED <<runs, ledger>>
  BY DEF StartWithoutTargets, RestartDashboard, TypeInv, IInv, Shaped, Counts
<1>4. CASE Pending("dashboard")
  <2>1. RestartDashboard
    BY <1>4 DEF StartWithoutTargets, ReopenInv, Running, Pending
  <2>2. missed' = missed \cup Current("dashboard")
    BY <1>4, <2>1 DEF RestartDashboard
  <2> QED BY <1>1, <1>2, <1>3, <1>4, <2>2, TurnOfLost, AuditorsAssumption
<1>5. CASE ~Pending("dashboard")
  <2>1. missed' = missed
    BY <1>5 DEF StartWithoutTargets, RestartDashboard
  <2>2. \A b \in Auditors : (Pending(b)' <=> Pending(b)) /\ (Pending(b) => job'[b] = job[b])
    BY <1>1, <1>2, <1>5, OthersPending, AuditorsAssumption
  <2>3. \A key : FixedByItself(key)' <=> FixedByItself(key)
    BY <1>3 DEF FixedByItself, Row
  <2> QED BY <1>3, <2>1, <2>2, <2>3, TurnKept DEF ReopenInv
<1> QED BY <1>4, <1>5

\* Every step keeps the turns.
LEMMA TurnStep == ASSUME TypeInv, ReopenInv, [Next]_vars PROVE Turns'
<1>1. ASSUME NEW a \in Auditors, AuditStep(a) PROVE Turns'
  <2>1. CASE VerifyFails(a)
    <3> DEFINE j == Job("prune", job[a].result, job[a].run, {})
    <3>1. /\ Pending(a) /\ job' = [job EXCEPT ![a] = j] /\ UNCHANGED <<runs, ledger>>
          /\ used'.runs = used.runs /\ missed' = missed \cup Current(a)
      BY <2>1 DEF VerifyFails, To
    <3>2. j.step \notin {"verify", "write"}
      BY DEF Job
    <3> HIDE DEF j
    <3> QED BY <3>1, <3>2, TurnOfLost
  <2> QED BY <1>1, <2>1, TurnOfRest, TurnOfSave, TurnOfRead, TurnOfWrite, TurnOfPrune
          DEF AuditStep
<1>2. used.runs \in Nat
  BY DEF TypeInv, IInv, Shaped, Counts
<1>3. ASSUME Change \/ NextDay \/ ConsumeReload \/ UNCHANGED vars PROVE Turns'
  <2>1. UNCHANGED <<runs, job, missed, used, ledger>>
    BY <1>3 DEF Change, NextDay, ConsumeReload, vars
  <2>2. \A key : FixedByItself(key)' <=> FixedByItself(key)
    BY <2>1 DEF FixedByItself, Row
  <2> QED BY <1>2, <2>1, <2>2, TurnUntouched
<1>4. ASSUME OtherRun PROVE Turns'
  <2>1. UNCHANGED <<runs, job, missed, ledger>>
    BY <1>4 DEF OtherRun
  <2>2. used'.runs = used.runs + 1
    BY <1>4 DEF OtherRun, TypeInv, IInv, Shaped, Counts
  <2>3. \A key : FixedByItself(key)' <=> FixedByItself(key)
    BY <2>1 DEF FixedByItself, Row
  <2> QED BY <1>2, <2>1, <2>2, <2>3, TurnUntouched
<1>5. ASSUME NEW key, NEW status, SetFindingStatus(key, status) PROVE Turns'
  <2>1. /\ UNCHANGED <<runs, job, missed>> /\ used'.runs = used.runs
        /\ ledger' = [k \in DOMAIN ledger \cup {key} |->
                          IF k = key THEN [status |-> status, by |-> "manual"] ELSE ledger[k]]
    BY <1>5 DEF SetFindingStatus, TypeInv, IInv, Shaped, Counts
  <2>2. ASSUME NEW k, FixedByItself(k)' PROVE FixedByItself(k)
    <3>1. k \in DOMAIN ledger' /\ ledger'[k].by = "auto" /\ ledger'[k] = [status |-> "fixed", by |-> "auto"]
      BY <2>2 DEF FixedByItself, Row, NoRow
    <3>2. k \in DOMAIN ledger /\ ledger'[k] = ledger[k]
      BY <2>1, <3>1
    <3> QED BY <3>1, <3>2 DEF FixedByItself, Row
  <2> QED BY <1>2, <2>1, <2>2, TurnUntouched
<1>6. ASSUME DeleteSiteResults PROVE Turns'
  <2>1. DOMAIN runs' = {} /\ job' = job
    BY <1>6 DEF DeleteSiteResults, Empty
  <2>2. used'.runs = used.runs
    BY <1>6 DEF DeleteSiteResults, TypeInv, IInv, Shaped, Counts
  <2>3. Numbered' /\ Distinct'
    BY <2>1, <2>2 DEF ReopenInv, Turns, Numbered, Distinct, Pending
  <2>4. Carried' /\ Kept' /\ Overtaking' /\ TopOpens'
    BY <2>1 DEF Carried, Kept, Before, Overtaking, TopOpens
  <2> QED BY <2>3, <2>4 DEF Turns
<1> QED BY <1>1, <1>3, <1>4, <1>5, <1>6, NextCases, TurnOfDashboard DEF TypeInv

LEMMA InitReopen == Init => ReopenInv
<1> SUFFICES ASSUME Init PROVE ReopenInv
  OBVIOUS
<1>1. DOMAIN runs = {} /\ \A a \in Auditors : job[a].step = "idle"
  BY DEF Init, Idle, Job, Empty
<1>2. Running
  BY <1>1, AuditorsAssumption DEF Running
<1> QED BY <1>1, <1>2 DEF ReopenInv, AllCoherent, Turns, Numbered, Distinct, Carried, Kept,
        Overtaking, TopOpens, Pending

\* Once every verification has ended, a finding of the newest run that a verifier
\* once fixed is open again, unless its return was missed: for any retention, any
\* number of auditors and of other sites' runs.
THEOREM ReopenedWhenBack == Spec => []FixedReopens
<1>1. Init => TypeInv /\ ReopenInv
  BY InitTypeInv, InitReopen
<1>2. TypeInv /\ ReopenInv /\ [Next]_vars => (TypeInv /\ ReopenInv)'
  BY NextTypeInv, RunningStep, CoherentStep, TurnStep DEF ReopenInv
<1>3. TypeInv /\ ReopenInv => FixedReopens
  <2> SUFFICES ASSUME TypeInv, ReopenInv, \A a \in Auditors : ~Pending(a),
                      NEW f \in Shown, FixedByItself(Key(f))
               PROVE  Key(f) \in missed
    BY DEF FixedReopens
  <2>1. PICK top : top = Max(DOMAIN runs)
    OBVIOUS
  <2>2. DOMAIN runs # {} /\ f \in Actionable(runs[top].findings)
    BY <2>1 DEF Shown
  <2>3. used.runs \in Nat /\ DOMAIN runs \subseteq 1..used.runs
    BY DEF TypeInv, TypeOK, IInv, Shaped, Counts
  <2>4. top \in DOMAIN runs /\ \A q \in DOMAIN runs : q <= top
    BY <2>1, <2>2, <2>3, GreatestOfSome
  <2>5. Read(top) /\ Newer(top)
    BY <2>4 DEF Read, Unread, Newer, Pending
  <2>6. Key(f) \in Cur(top)
    BY <2>2 DEF Cur, Keys
  <2> QED BY <2>4, <2>5, <2>6 DEF ReopenInv, Turns, TopOpens, Opening, Pending
<1> QED BY <1>1, <1>2, <1>3, PTL DEF Spec
=============================================================================
