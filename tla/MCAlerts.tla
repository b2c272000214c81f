------------------------------ MODULE MCAlerts ------------------------------
(* Small instances of Alerts: who runs which calls, and the where clauses.  *)
EXTENDS Alerts, TLC

\* A query on one title, and one on the whole resource.
MCWheres == {{f} : f \in Fingerprint} \cup {Fingerprint}

AlertSymmetry == Permutations(AlertId \ Upgraded) \cup Permutations(Fingerprint)
=============================================================================
