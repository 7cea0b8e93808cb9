--------------------------- MODULE AnomalyLifecycle ---------------------------
(***************************************************************************)
(* What the shared anomaly model promises (docs/icd/ICD.md, section 3.3):  *)
(* an anomaly is opened once and then moves only along the lifecycle;      *)
(* RESOLVED is terminal; a control anomaly is never reprocessed.           *)
(***************************************************************************)
CONSTANTS
  PayloadAnomaly,   \* processing failures
  ControlAnomaly    \* alarms of the spacecraft

VARIABLE rows       \* the state of each anomaly

Anomaly == PayloadAnomaly \cup ControlAnomaly

Open(a) ==
  /\ rows[a] = "ABSENT"
  /\ \/ rows' = [rows EXCEPT ![a] = "OPEN"]
     \/ a \in ControlAnomaly /\ rows' = [rows EXCEPT ![a] = "ACKNOWLEDGED"]

Triage(a) ==
  rows[a] = "OPEN" /\ rows' = [rows EXCEPT ![a] = "ACKNOWLEDGED"]

Reprocess(a) ==
  /\ a \in PayloadAnomaly
  /\ rows[a] \in {"OPEN", "ACKNOWLEDGED"}
  /\ rows' = [rows EXCEPT ![a] = "REPROCESSING"]

Reopen(a) ==
  rows[a] = "REPROCESSING" /\ rows' = [rows EXCEPT ![a] = "OPEN"]

Close(a) ==
  /\ rows[a] \in {"OPEN", "ACKNOWLEDGED", "REPROCESSING"}
  /\ rows' = [rows EXCEPT ![a] = "RESOLVED"]

LifecycleInit == rows = [a \in Anomaly |-> "ABSENT"]

LifecycleNext ==
  \E a \in Anomaly : Open(a) \/ Triage(a) \/ Reprocess(a) \/ Reopen(a) \/ Close(a)

LifecycleSpec == LifecycleInit /\ [][LifecycleNext]_rows
==============================================================================
