------------------------------ MODULE Scoring -------------------------------
(***************************************************************************)
(* services/websec-audit/scoring: the findings of a site and the controls  *)
(* it is held to comply with, from the reports of its checks.  A scan is a *)
(* function from the checks that ran to their reports.                     *)
(*                                                                         *)
(* A finding is known by its code and its message; the message is modelled *)
(* by what it is about and by the variant of the text: the number of days  *)
(* in that of a certificate, the transport's error in that of a site that  *)
(* is down, the mention of an exploited vulnerability.                     *)
(***************************************************************************)
EXTENDS Scanners, Integers, Sequences, FiniteSets, FiniteSetsExt, TLC

Severity == {"critical", "high", "medium", "low", "info"}
Confidence == {"none", "low", "potential", "confirmed"}

Entry(code, severity, penalty) == [code |-> code, severity |-> severity, penalty |-> penalty]

\* The lines of the rubric: what a trait that was found is called and costs.
Line(trait, code, severity, penalty) ==
    [trait |-> trait, code |-> code, severity |-> severity, penalty |-> penalty]

TlsRubric ==
    {Line("cert.expired", "tls.cert_expired", "critical", 40),
     Line("cert.14d", "tls.cert_expiring", "high", 15),
     Line("cert.30d", "tls.cert_expiring", "medium", 8),
     Line("cert.untrusted", "tls.cert_untrusted", "high", 25),
     Line("proto.ssl", "tls.protocol_ssl", "high", 20),
     Line("proto.legacy", "tls.protocol_tls_legacy", "medium", 10)}
HeaderRubric ==
    {Line("hdr.hsts", "headers.missing.hsts", "high", 10),
     Line("hdr.frame", "headers.missing.frame", "medium", 5),
     Line("hdr.referrer", "headers.missing.referrer", "low", 2),
     Line("hsts.short", "headers.hsts_short", "low", 2),
     Line("cookies", "headers.cookie_flags", "low", 9)}
DnsRubric ==
    {Line("spf.missing", "dns.spf_missing", "medium", 10),
     Line("spf.all", "dns.spf_permissive", "high", 20),
     Line("spf.neutral", "dns.spf_neutral", "low", 8),
     Line("dmarc.missing", "dns.dmarc_missing", "medium", 10),
     Line("dmarc.none", "dns.dmarc_policy_none", "low", 8),
     Line("dkim", "dns.dkim_missing", "info", 0),
     Line("caa", "dns.caa_missing", "info", 0)}
TakeoverRubric ==
    {Line("cname.unclaimed", "takeover.vulnerable", "critical", 45),
     Line("cname.dangling", "takeover.dangling", "high", 30),
     Line("cname.claimed", "takeover.third_party", "info", 0)}
MisconfigRubric ==
    {Line("path.git", "misconfig.exposed_path", "high", 25),
     Line("path.phpinfo", "misconfig.exposed_path", "medium", 12),
     Line("path.dsstore", "misconfig.exposed_path", "low", 4),
     Line("listing", "misconfig.directory_listing", "medium", 8),
     Line("trace", "misconfig.dangerous_method", "medium", 6),
     Line("banner", "misconfig.tech_disclosure", "low", 6)}

\* What a vulnerability or an engine's finding of a severity costs, and the
\* most one site is charged for all of them.
CveWeight == [critical |-> 30, high |-> 18, medium |-> 8, low |-> 3, cap |-> 60]
EngineWeight ==
    [testssl |-> [critical |-> 25, high |-> 15, medium |-> 7, low |-> 2, cap |-> 45],
     nuclei |-> [critical |-> 30, high |-> 18, medium |-> 8, low |-> 3, cap |-> 60],
     zap |-> [critical |-> 20, high |-> 15, medium |-> 7, low |-> 2, cap |-> 40]]

Finding(entry, about, variant, confidence) ==
    [code |-> entry.code, about |-> about, variant |-> variant, severity |-> entry.severity,
     penalty |-> entry.penalty, confidence |-> confidence]
Notice(code, about) == Finding(Entry(code, "info", 0), about, "", "none")

\* The findings a rubric has for what a check found.
Named(rubric, found, variant, confidence) ==
    {Finding(line, line.trait, variant, confidence) : line \in {x \in rubric : x.trait \in found}}

-----------------------------------------------------------------------------
(* One operator per check; a check that reached nothing accuses nobody. *)

ScoreAvailability(r, s) ==
    {Finding(Entry("availability.site_down", "critical", 50), "down", s.http, "none") : t \in r.found}

\* The days left are part of the message.
ScoreTls(r, day) ==
    IF r.error THEN {Notice("tls.scan_error", "tls")}
    ELSE Named(TlsRubric, r.found \ {"cert.14d", "cert.30d", "cert.expired"}, "", "none")
         \cup Named(TlsRubric, r.found \cap {"cert.14d", "cert.30d", "cert.expired"}, day, "none")

ScoreHeaders(r) ==
    IF r.blocked THEN {Notice("headers.blocked_by_challenge", "headers")}
    ELSE IF r.error THEN {Notice("headers.scan_error", "headers")}
    ELSE Named(HeaderRubric, r.found, "", "none")

ScoreDnsAuth(r) ==
    UNION {IF r[k].error THEN {Notice("dns.scan_error", k) : x \in {k} \cap {"spf", "dmarc"}}
           ELSE Named(DnsRubric, r[k].found, "", "none") : k \in DOMAIN r}

\* A resource that is unclaimed is said once, whatever else is wrong.
ScoreTakeover(r) ==
    IF "cname.unclaimed" \in r.found THEN Named(TakeoverRubric, {"cname.unclaimed"}, "", "confirmed")
    ELSE IF "cname.dangling" \in r.found
    THEN Named(TakeoverRubric, {"cname.dangling"}, "", "confirmed")
    ELSE Named(TakeoverRubric, r.found, "", "potential")

ScoreMisconfig(r) ==
    IF r.blocked THEN {Notice("misconfig.blocked_by_challenge", "misconfig")}
    ELSE IF r.error THEN {Notice("misconfig.scan_error", "misconfig")}
    ELSE Named(MisconfigRubric, r.found \ {"soft404", "nocontact"}, "", "none")
         \cup {Notice("misconfig.soft_404", t) : t \in r.found \cap {"soft404"}}
         \cup {Notice("misconfig.security_txt", t) : t \in r.found \cap {"nocontact"}}

\* The order in which what was found is charged.
Rank == [critical |-> 1, high |-> 2, medium |-> 3, low |-> 4]
ProductRank == "cve.kev" :> 1 @@ "cve.exact" :> 2 @@ "cve.backported" :> 3 @@ "cve.fuzzy" :> 4

\* Findings are charged in order until the cap: the one that reaches it pays
\* what is left, those after it are not reported.
Charged(findings, rank, cap) ==
    LET before(f) == MapThenSumSet(LAMBDA g : g.penalty, {g \in findings : rank[g] < rank[f]})
    IN {[f EXCEPT !.penalty = Min({@, cap - before(f)})] : f \in {g \in findings : before(g) < cap}}

\* A vulnerability known to be exploited is critical; one matched by keywords
\* is charged half.
CveFinding(t, exploited) ==
    LET severity == IF t = "cve.fuzzy" THEN "medium" ELSE IF t = "cve.kev" /\ ~exploited THEN "high"
                    ELSE "critical"
        penalty == CveWeight[severity]
    IN Finding(Entry("cve.known_vulnerable", severity, IF t = "cve.fuzzy" THEN penalty \div 2 ELSE penalty),
               t, IF t = "cve.kev" /\ exploited THEN "exploited" ELSE "",
               IF t = "cve.fuzzy" THEN "low" ELSE "potential")

ScoreCve(r) ==
    IF r.blocked THEN {Notice("cve.blocked_by_challenge", "cve")}
    ELSE IF r.error THEN {Notice("cve.scan_error", "cve")}
    ELSE LET findings == {CveFinding(t, "exploited" \in r.found) : t \in r.found \cap Product}
         IN Charged(findings, [f \in findings |-> ProductRank[f.about]], CveWeight.cap)

\* The codes of an engine: of a report that did not come, and of a finding.
EngineCode ==
    [testssl |-> [error |-> "testssl.scan_error", finding |-> "testssl.finding"],
     nuclei |-> [error |-> "nuclei.scan_error", finding |-> "nuclei.finding"],
     zap |-> [error |-> "zap.scan_error", finding |-> "zap.finding"]]

\* An engine's findings are one per severity, the gravest first.
Band(e, severity) == e \o "." \o severity
ScoreEngine(r, e) ==
    IF r.error THEN {Notice(EngineCode[e].error, e)}
    ELSE LET findings == {Finding(Entry(EngineCode[e].finding, b, EngineWeight[e][b]), Band(e, b), "", "confirmed") :
                             b \in {c \in DOMAIN Rank : Band(e, c) \in r.found}}
         IN Charged(findings, [f \in findings |-> Rank[f.severity]], EngineWeight[e].cap)

-----------------------------------------------------------------------------
(* The result of a site *)

\* A finding without a confidence was observed directly.
ConfidenceRank == [none |-> 3, low |-> 1, potential |-> 2, confirmed |-> 3]
IsExposed(f) == f.confidence \in {"none", "confirmed"}

\* Below the floor a finding that costs something is dropped.
FilterByConfidence(findings, floor) ==
    IF floor = "none" THEN findings
    ELSE {f \in findings : f.penalty = 0 \/ ConfidenceRank[f.confidence] >= ConfidenceRank[floor]}

ScoreCheck(r, k, s, day) ==
    CASE k = "availability" -> ScoreAvailability(r, s)
      [] k = "tls" -> ScoreTls(r, day)
      [] k = "headers" -> ScoreHeaders(r)
      [] k = "dns_auth" -> ScoreDnsAuth(r)
      [] k = "takeover" -> ScoreTakeover(r)
      [] k = "misconfig" -> ScoreMisconfig(r)
      [] k = "cve" -> ScoreCve(r)
      [] OTHER -> ScoreEngine(r, k)

\* scan[k], for the checks that ran; a scan that was cut short has none.
Findings(scan, s, day) == UNION {ScoreCheck(scan[k], k, s, day) : k \in DOMAIN scan}

\* "ran", "inconclusive" or "not_run".  Availability, headers and DNS are held
\* to be complete whatever went wrong in them.
ScannerStatus(scan, k) ==
    IF k \notin DOMAIN scan THEN "not_run"
    ELSE IF k \in {"availability", "dns_auth"} THEN "ran"
    ELSE IF scan[k].blocked \/ (scan[k].error /\ k # "headers") THEN "inconclusive"
    ELSE "ran"

Coverage(scan) == [k \in Core \cup Engine |-> ScannerStatus(scan, k)]

-----------------------------------------------------------------------------
(* Compliance: controls over the codes that were found *)

Control(scanner, codes) == [scanner |-> scanner, codes |-> codes]
Controls ==
    [tls_strong_protocols |-> Control("tls", {"tls.protocol_ssl", "tls.protocol_tls_legacy"}),
     tls_valid_certificate |-> Control("tls", {"tls.cert_expired", "tls.cert_untrusted"}),
     hsts_enforced |-> Control("headers", {"headers.missing.hsts", "headers.hsts_short"}),
     security_headers |-> Control("headers", {"headers.missing.frame", "headers.missing.referrer"}),
     secure_cookies |-> Control("headers", {"headers.cookie_flags"}),
     email_anti_spoofing |-> Control("dns_auth", {"dns.spf_missing", "dns.spf_permissive",
                                                  "dns.dmarc_missing", "dns.dmarc_policy_none"}),
     no_sensitive_exposure |-> Control("misconfig", {"misconfig.exposed_path",
                                       "misconfig.directory_listing", "misconfig.dangerous_method"}),
     limit_tech_disclosure |-> Control("misconfig", {"misconfig.tech_disclosure"}),
     no_subdomain_takeover |-> Control("takeover", {"takeover.vulnerable", "takeover.dangling"}),
     no_known_cves |-> Control("cve", {"cve.known_vulnerable"}),
     service_availability |-> Control("availability", {"availability.site_down"}),
     security_contact |-> Control("misconfig", {"misconfig.security_txt"})]

ControlStatus(control, codes, coverage) ==
    IF coverage[control.scanner] # "ran" THEN "not_assessed"
    ELSE IF control.codes \cap codes # {} THEN "non_compliant" ELSE "compliant"

AssessCompliance(findings, coverage) ==
    LET codes == {f.code : f \in findings}
    IN [c \in DOMAIN Controls |-> ControlStatus(Controls[c], codes, coverage)]

ScoreSite(scan, s, day, floor) ==
    LET findings == FilterByConfidence(Findings(scan, s, day), floor)
    IN [site |-> s, findings |-> findings, controls |-> AssessCompliance(findings, Coverage(scan))]

-----------------------------------------------------------------------------
(* What changed between two results *)

Key(f) == <<f.code, f.about, f.variant>>
Keys(findings) == {Key(f) : f \in findings}
Actionable(findings) == {f \in findings : f.severity # "info"}

DiffFindings(current, previous) ==
    [new |-> {f \in Actionable(current) : Key(f) \notin Keys(previous)},
     resolved |-> {f \in Actionable(previous) : Key(f) \notin Keys(current)}]
=============================================================================
