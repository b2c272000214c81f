------------------------------- MODULE MCAudit ------------------------------
(* Small instances of AuditStore: what a site goes through.                 *)
EXTENDS AuditStore

Sound == [traits |-> {"nocontact"}, http |-> "page", page |-> "plain", front |-> {}, lost |-> {}]
With(traits) == [Sound EXCEPT !.traits = traits]
World(sites) == [sites |-> sites, floor |-> "confirmed", deep |-> FALSE, auditors |-> Auditors,
                 others |-> FALSE, aging |-> FALSE, runs |-> 3, manual |-> 0, deletes |-> 0, restarts |-> 0]
Once(s) == [World({s}) EXCEPT !.auditors = {"dashboard"}, !.runs = 1]

\* A weakness comes and goes while an operator decides about it, sites are
\* deleted, and the site may not answer.
Exposed == With({"path.git"})
Decided == [World({Sound, Exposed}) EXCEPT !.manual = 1]
Deleted == [World({Sound, Exposed}) EXCEPT !.deletes = 1]
Unreachable == World({With({"hdr.hsts"}), [Sound EXCEPT !.http = "refused"]})

\* Every check finds something, and something stands between it and the site.
Weak == {"cert.14d", "cert.untrusted", "proto.ssl", "hdr.hsts", "hdr.frame", "cookies", "spf.all",
         "dmarc.none", "dkim", "cname.unclaimed", "path.phpinfo", "listing", "trace", "banner",
         "cve.kev", "cve.exact", "cve.fuzzy", "testssl.critical", "nuclei.critical",
         "nuclei.medium", "zap.high"}
Between == {[With(Weak) EXCEPT !.http = h, !.page = p, !.lost = l] :
    h \in {"page", "solvable", "challenge", "timeout"}, p \in {"plain"}, l \in {{}}}
Guarded == {Once(s) : s \in Between
    \cup {[Sound EXCEPT !.http = h, !.page = p, !.front = {"nuclei.medium", "zap.high"}, !.lost = l] :
        h \in {"page", "solvable", "challenge", "timeout"},
        p \in {"plain", "catchall", "lookalike"},
        l \in {{}, {"controls", "contact"}, {"probes", "options", "spf", "cname"}}}
    \cup {[With(Weak \cup {"cve.backported", "cname.dangling"}) EXCEPT !.lost = l] :
        l \in {{"headers", "dmarc", "resolve", "kev"}, {"misconfig", "cve", "body", "osv"},
               {"tls", "dkim", "caa"}, {"cve.kev", "cve.exact", "cve.fuzzy", "cve.backported"},
               {"cve.kev", "testssl"}, {"nuclei", "zap", "availability"}}}}
Deep == {[w EXCEPT !.floor = f, !.deep = TRUE] : w \in Guarded, f \in {"none", "potential"}}

\* A certificate's days are counted; an exploited vulnerability is not known
\* as such every day.
Alone(w) == [w EXCEPT !.auditors = {"dashboard"}]
Certificates == Alone(World({With({"cert.14d"})}))
Vulnerable == {With({"cve.kev", "cve.exact", "cve.fuzzy"})}
Exploited == Alone([World(Vulnerable \cup {[s EXCEPT !.lost = {"kev"}] : s \in Vulnerable})
                    EXCEPT !.floor = "low"])

\* The dashboard restarts in the middle.
Restarted == [World({Sound, Exposed}) EXCEPT !.restarts = 1]

\* Other sites are audited in between, or the runs grow old.
Crowded == Alone([World({Sound, Exposed}) EXCEPT !.others = TRUE, !.runs = 4])
Aged == Alone([World({Sound, Exposed}) EXCEPT !.aging = TRUE, !.restarts = 1])

Changing == {Crowded, Aged, Decided, Deleted, Unreachable, Certificates, Exploited, Restarted}
All == Changing \cup Guarded \cup Deep
Failing == {Unreachable, Certificates, Exploited}
=============================================================================
