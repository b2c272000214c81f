------------------------------ MODULE Incident ------------------------------
(***************************************************************************)
(* What the alert service promises its reader, per incident (a title on a  *)
(* resource): at most one alert, open or closed; an acknowledgement that   *)
(* silences the popup until the alert closes; a count of the occurrences.  *)
(* backend/src/alerts/alerts.service.ts implements it with rows, events    *)
(* and many awaits; Alerts.tla shows when it does.                         *)
(***************************************************************************)
EXTENDS Naturals

CONSTANT Fingerprint

VARIABLES
    phase,          \* none, open or closed
    silenced,       \* acknowledged: no popup until the issue clears
    occurrences     \* how many times the incident was opened

incidentVars == <<phase, silenced, occurrences>>

IncidentInit ==
    /\ phase \in [Fingerprint -> {"none", "open", "closed"}]
    /\ silenced = [f \in Fingerprint |-> FALSE]
    /\ occurrences = [f \in Fingerprint |-> IF phase[f] = "none" THEN 0 ELSE 1]

\* A first occurrence, or a new one after a close: never silent.
Occur(f) ==
    /\ phase[f] # "open"
    /\ phase' = [phase EXCEPT ![f] = "open"]
    /\ occurrences' = [occurrences EXCEPT ![f] = @ + 1]
    /\ UNCHANGED silenced

Silence(f) ==
    /\ phase[f] = "open"
    /\ silenced' = [silenced EXCEPT ![f] = TRUE]
    /\ UNCHANGED <<phase, occurrences>>

Clear(f) ==
    /\ phase[f] = "open"
    /\ phase' = [phase EXCEPT ![f] = "closed"]
    /\ silenced' = [silenced EXCEPT ![f] = FALSE]
    /\ UNCHANGED occurrences

\* The resource leaves the supervision, and its alerts with it.
Forget(f) ==
    /\ phase[f] # "none"
    /\ phase' = [phase EXCEPT ![f] = "none"]
    /\ silenced' = [silenced EXCEPT ![f] = FALSE]
    /\ occurrences' = [occurrences EXCEPT ![f] = 0]

IncidentNext == \E f \in Fingerprint : Occur(f) \/ Silence(f) \/ Clear(f) \/ Forget(f)

IncidentSpec == IncidentInit /\ [][IncidentNext]_incidentVars
=============================================================================
