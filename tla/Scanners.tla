------------------------------ MODULE Scanners ------------------------------
(***************************************************************************)
(* The checks of services/websec-audit/scanners: what each of them reports *)
(* of a site, from what is true of the site and from what the network and  *)
(* the services they ask (DNS, NVD, OSV, CISA) answered this time.         *)
(*                                                                         *)
(* A site is a record:                                                     *)
(*   traits  what is true of it, the weaknesses a finding may name         *)
(*   http    who answers: the application ("page"), an interstitial that   *)
(*           can be "solvable" or is a "challenge", or nobody              *)
(*   page    what it answers for a path it does not have: an error         *)
(*           ("plain"), its usual page ("catchall"), or a page that also   *)
(*           looks like the file asked for ("lookalike")                   *)
(*   front   the weaknesses an engine would report of the interstitial     *)
(*   lost    the requests and lookups that fail this time                  *)
(* A check reports [error, blocked, found].                                *)
(***************************************************************************)

Certificate == {"cert.expired", "cert.14d", "cert.30d", "cert.untrusted"}
Protocol == {"proto.ssl", "proto.legacy"}
Missing == {"hdr.hsts", "hdr.frame", "hdr.referrer"}
Header == Missing \cup {"hsts.short", "cookies"}
Spf == {"spf.missing", "spf.all", "spf.neutral"}
Dmarc == {"dmarc.missing", "dmarc.none"}
Cname == {"cname.unclaimed", "cname.dangling", "cname.claimed"}
Path == {"path.git", "path.phpinfo", "path.dsstore"}
Product == {"cve.kev", "cve.exact", "cve.fuzzy", "cve.backported"}
Engine == {"testssl", "nuclei", "zap"}
EngineIssue == [testssl |-> {"testssl.critical", "testssl.low"},
                nuclei |-> {"nuclei.critical", "nuclei.medium"}, zap |-> {"zap.high"}]

Trait == Certificate \cup Protocol \cup Header \cup Spf \cup Dmarc \cup {"dkim", "caa"}
    \cup Cname \cup Path \cup {"listing", "trace", "banner", "nocontact"} \cup Product
    \cup UNION {EngineIssue[e] : e \in Engine}

\* The requests of a scan, by what they are made for.
Lookup == {"availability", "tls", "headers", "spf", "dmarc", "dkim", "caa", "cname", "resolve",
           "body", "misconfig", "options", "controls", "probes", "contact", "cve", "osv", "kev"}
    \cup Product \cup Engine

Answer == {"page", "solvable", "challenge", "refused", "timeout"}
Site == [traits : SUBSET Trait, http : Answer, page : {"plain", "catchall", "lookalike"},
         front : SUBSET UNION {EngineIssue[e] : e \in Engine}, lost : SUBSET Lookup]

Silent(s) == s.http \in {"refused", "timeout"}

Seen(found) == [error |-> FALSE, blocked |-> FALSE, found |-> found]
Failed == [error |-> TRUE, blocked |-> FALSE, found |-> {}]
Blocked == [error |-> TRUE, blocked |-> TRUE, found |-> {}]

-----------------------------------------------------------------------------
(* The shared HTTP layer *)

\* An interstitial is told from the application by its signature.
Detected(s) == s.http \in {"solvable", "challenge"}

\* Only the AES challenge can be computed without a browser.
Solved(s) == s.http = "solvable"

\* A certificate that fails is no reason to stop: the request is made again
\* without verification.  An interstitial that is solved is replayed.
Fetch(s, request) ==
    LET error == Silent(s) \/ request \in s.lost
    IN [error |-> error, blocked |-> ~error /\ Detected(s) /\ ~Solved(s)]

Reached(f) == ~f.error /\ ~f.blocked

\* What a response lacks: an interstitial has none of the application's headers.
Lacks(s, f) == IF f.blocked THEN Missing ELSE s.traits \cap Header

-----------------------------------------------------------------------------
(* The checks, in the order scan_site runs them *)

\* An interstitial answers: the site is up all the same.
CheckAvailability(s) ==
    LET f == Fetch(s, "availability")
    IN [error |-> f.error, blocked |-> f.blocked, found |-> IF f.error THEN {"down"} ELSE {}]

CheckTls(s) ==
    IF Silent(s) \/ "tls" \in s.lost THEN Failed ELSE Seen(s.traits \cap (Certificate \cup Protocol))

\* The same check, before it was taught that an interstitial may answer.
CheckHeadersOfAnyone(s) ==
    LET f == Fetch(s, "headers")
    IN IF f.error THEN Failed ELSE Seen(Lacks(s, f))

CheckHeaders(s) ==
    LET f == Fetch(s, "headers")
    IN IF f.error THEN Failed ELSE IF f.blocked THEN Blocked ELSE Seen(Lacks(s, f))

\* No such record is an answer; a query that failed is not.
QueryTxt(s, name, records) ==
    IF name \in s.lost THEN Failed ELSE Seen(s.traits \cap records)

CheckDnsAuth(s) ==
    [spf |-> QueryTxt(s, "spf", Spf), dmarc |-> QueryTxt(s, "dmarc", Dmarc),
     dkim |-> QueryTxt(s, "dkim", {"dkim"}), caa |-> QueryTxt(s, "caa", {"caa"})]

\* A query that fails ends the chain like a name that has no alias.
CnameChain(s) == IF "cname" \in s.lost THEN {} ELSE s.traits \cap Cname

\* Only a name that does not exist dangles, never one that was not resolved.
Dangles(s) == "cname.dangling" \in CnameChain(s) /\ "resolve" \notin s.lost

\* This request is the check's own: it solves no challenge.
FetchBody(s) == s.http = "page" /\ "body" \notin s.lost

CheckTakeover(s) ==
    LET service == CnameChain(s) \cap {"cname.unclaimed", "cname.claimed"}
    IN Seen({t \in {"cname.dangling"} : Dangles(s)}
            \cup {t \in {"cname.unclaimed"} : t \in service /\ FetchBody(s)}
            \cup {t \in {"cname.claimed"} : service # {}})

\* Two paths that cannot exist are asked for; what they answer, an
\* interstitial's page included, is what an absent path looks like.
Baseline(s) == ~Fetch(s, "controls").error

\* A path is exposed when it is not answered like a path that cannot exist and
\* the answer looks like the file.
ExposedPaths(s) ==
    LET probe == Fetch(s, "probes")
    IN IF ~Reached(probe) THEN {}
       ELSE (s.traits \cap Path)
            \cup (IF s.page = "lookalike" /\ ~Baseline(s) THEN Path ELSE {})

SecurityTxt(s) ==
    /\ Reached(Fetch(s, "contact"))
    /\ "nocontact" \notin s.traits \/ (s.page # "plain" /\ ~Baseline(s))

CheckMisconfig(s) ==
    LET f == Fetch(s, "misconfig")
        options == Reached(Fetch(s, "options"))
    IN IF f.error THEN Failed
       ELSE IF f.blocked THEN Blocked
       ELSE Seen((s.traits \cap {"banner", "listing"})
                 \cup {t \in s.traits \cap {"trace"} : options}
                 \cup ExposedPaths(s)
                 \cup {t \in {"soft404"} : Baseline(s) /\ s.page # "plain"}
                 \cup {t \in {"nocontact"} : ~SecurityTxt(s)})

\* The vulnerabilities of a product, unless the distribution has fixed them.
VerifyVulns(s, products) ==
    IF "osv" \in s.lost THEN products ELSE products \ {"cve.backported"}

\* Whether the catalogue of exploited vulnerabilities names one of them.
EnrichVulns(s, products) == {t \in {"exploited"} : "cve.kev" \in products /\ "kev" \notin s.lost}

\* The lookup of a product fails under its own name; one that succeeds clears
\* the error of the others.
CheckCve(s) ==
    LET f == Fetch(s, "cve")
        products == s.traits \cap Product
        known == VerifyVulns(s, products \ s.lost)
    IN IF f.error THEN Failed
       ELSE IF f.blocked THEN Blocked
       ELSE [error |-> products # {} /\ products \subseteq s.lost, blocked |-> FALSE,
             found |-> known \cup EnrichVulns(s, known)]

\* nuclei and ZAP solve no challenge: they judge whatever answers.
Faced(s, e) == IF Detected(s) /\ e # "testssl" THEN s.front ELSE s.traits

\* An engine that is absent, times out or writes no report is an error.  nuclei
\* finds nothing on a site that does not answer, and says so without one.
CheckEngine(s, e) ==
    IF e \in s.lost \/ (Silent(s) /\ e # "nuclei") THEN Failed
    ELSE Seen(IF Silent(s) THEN {} ELSE Faced(s, e) \cap EngineIssue[e])

CheckTestssl(s) == CheckEngine(s, "testssl")
CheckNuclei(s) == CheckEngine(s, "nuclei")
CheckZap(s) == CheckEngine(s, "zap")

-----------------------------------------------------------------------------

Core == {"availability", "tls", "headers", "dns_auth", "takeover", "misconfig", "cve"}

ScanSite(s) ==
    [availability |-> CheckAvailability(s), tls |-> CheckTls(s), headers |-> CheckHeaders(s),
     dns_auth |-> CheckDnsAuth(s), takeover |-> CheckTakeover(s), misconfig |-> CheckMisconfig(s),
     cve |-> CheckCve(s), testssl |-> CheckTestssl(s), nuclei |-> CheckNuclei(s),
     zap |-> CheckZap(s)]

=============================================================================
