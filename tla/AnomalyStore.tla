----------------------------- MODULE AnomalyStore -----------------------------
(***************************************************************************)
(* The shared anomaly store (sgs_shared.anomaly) and those who write it:   *)
(* operators who acknowledge, resolve and reprocess, each in a process of  *)
(* its own; pollers that copy the alarms of Yamcs (record_anomalies); and  *)
(* the recording of payload failures. Every call opens its own connection, *)
(* so the read and the write of one transition are two transactions.       *)
(***************************************************************************)
EXTENDS Naturals

CONSTANTS
  PayloadAnomaly,  \* ids anomaly:payload:<product>
  ControlAnomaly,  \* ids yamcs://... of alarms
  Operators,       \* callers of acknowledge, resolve and start_reprocess
  Pollers,         \* callers of record_anomalies
  MaxRecords       \* bound: times one anomaly is recorded

ASSUME AnomalyStoreAssumption ==
  /\ PayloadAnomaly \cap ControlAnomaly = {}
  /\ MaxRecords \in Nat

Anomaly == PayloadAnomaly \cup ControlAnomaly

\* AnomalyState, and ABSENT for an id without a row (or an alarm Yamcs has not raised).
OPEN         == "OPEN"
ACKNOWLEDGED == "ACKNOWLEDGED"
REPROCESSING == "REPROCESSING"
RESOLVED     == "RESOLVED"
ABSENT       == "ABSENT"
AnomalyState == {OPEN, ACKNOWLEDGED, REPROCESSING, RESOLVED}

VARIABLES
  rows,      \* the state column of the table anomalies
  alarm,     \* what the Yamcs archive says of an alarm: external
  op,        \* the transition each operator has checked and not yet written
  poll,      \* the anomalies each poller has collected and not yet recorded
  recorded,  \* history: how often an anomaly was recorded
  acks       \* history: the anomalies an operator acknowledged

vars == <<rows, alarm, op, poll, recorded, acks>>

-----------------------------------------------------------------------------
\* Mutant: a resolved anomaly can be acknowledged again.
CanTransitionReopens(from, to) ==
  \/ from = OPEN /\ to \in {ACKNOWLEDGED, REPROCESSING, RESOLVED}
  \/ from = ACKNOWLEDGED /\ to \in {REPROCESSING, RESOLVED}
  \/ from = REPROCESSING /\ to \in {RESOLVED, OPEN}
  \/ from = RESOLVED /\ to = ACKNOWLEDGED

\* can_transition, over the table _ALLOWED_TRANSITIONS.
CanTransition(from, to) ==
  \/ from = OPEN /\ to \in {ACKNOWLEDGED, REPROCESSING, RESOLVED}
  \/ from = ACKNOWLEDGED /\ to \in {REPROCESSING, RESOLVED}
  \/ from = REPROCESSING /\ to \in {RESOLVED, OPEN}

Idle == [id |-> ABSENT, seen |-> ABSENT, target |-> ABSENT]
Transition == [id : Anomaly, seen : AnomalyState, target : AnomalyState]

\* Mutant: an unknown id is not refused.
CheckTransitionUnknownId(o, a, target) ==
  /\ op[o] = Idle
  /\ rows[a] = ABSENT \/ CanTransition(rows[a], target)
  /\ op' = [op EXCEPT ![o] = [id |-> a, seen |-> rows[a], target |-> target]]
  /\ UNCHANGED <<rows, alarm, poll, recorded, acks>>

\* Mutant: the move is not checked against the table.
CheckTransitionAnyMove(o, a, target) ==
  /\ op[o] = Idle
  /\ rows[a] # ABSENT
  /\ op' = [op EXCEPT ![o] = [id |-> a, seen |-> rows[a], target |-> target]]
  /\ UNCHANGED <<rows, alarm, poll, recorded, acks>>

\* The first half of _transition: read the row, check the move. An unknown id
\* or an illegal move raises and changes nothing.
CheckTransition(o, a, target) ==
  /\ op[o] = Idle
  /\ rows[a] # ABSENT
  /\ CanTransition(rows[a], target)
  /\ op' = [op EXCEPT ![o] = [id |-> a, seen |-> rows[a], target |-> target]]
  /\ UNCHANGED <<rows, alarm, poll, recorded, acks>>

Acknowledge(o, a) == CheckTransition(o, a, ACKNOWLEDGED)
Resolve(o, a)     == CheckTransition(o, a, RESOLVED)

\* Mutant: an anomaly of any origin can be reprocessed.
StartReprocessAnyOrigin(o, a) == CheckTransition(o, a, REPROCESSING)

\* start_reprocess refuses an anomaly that is not the payload's.
StartReprocess(o, a) == a \in PayloadAnomaly /\ CheckTransition(o, a, REPROCESSING)

\* The second half of _transition: UPDATE ... WHERE anomaly_id, whatever the
\* state is by now.
WriteTransition(o) ==
  /\ op[o] # Idle
  /\ rows' = [rows EXCEPT ![op[o].id] = op[o].target]
  /\ acks' = IF op[o].target = ACKNOWLEDGED THEN acks \cup {op[o].id} ELSE acks
  /\ op' = [op EXCEPT ![o] = Idle]
  /\ UNCHANGED <<alarm, poll, recorded>>

\* The write raises psycopg.Error (or the process ends).
WriteFails(o) ==
  /\ op[o] # Idle
  /\ op' = [op EXCEPT ![o] = Idle]
  /\ UNCHANGED <<rows, alarm, poll, recorded, acks>>

-----------------------------------------------------------------------------
\* record: the upsert inserts the row or replaces it, state included.
Record(a, state) ==
  /\ recorded[a] < MaxRecords
  /\ rows' = [rows EXCEPT ![a] = state]
  /\ recorded' = [recorded EXCEPT ![a] = recorded[a] + 1]

\* anomaly_from_payload_failure gives OPEN.
RecordFailure(a) == Record(a, OPEN) /\ UNCHANGED <<alarm, op, poll, acks>>

\* Mutant: every alarm is collected as acknowledged.
CollectedStateAcknowledged(a) == ACKNOWLEDGED

\* anomaly_from_yamcs_alarm: ACKNOWLEDGED if the alarm is, else OPEN.
CollectedState(a) == IF alarm[a] = ACKNOWLEDGED THEN ACKNOWLEDGED ELSE OPEN

\* collect_anomalies: one anomaly per archived alarm.
Collect(p) ==
  /\ poll[p] = {}
  /\ poll' = [poll EXCEPT ![p] =
       {[id |-> a, state |-> CollectedState(a)] : a \in {b \in ControlAnomaly : alarm[b] # ABSENT}}]
  /\ UNCHANGED <<rows, alarm, op, recorded, acks>>

\* One round of record_anomalies' loop; the archive's order is Yamcs's.
RecordAlarm(p) ==
  /\ \E r \in poll[p] :
       /\ Record(r.id, r.state)
       /\ poll' = [poll EXCEPT ![p] = poll[p] \ {r}]
  /\ UNCHANGED <<alarm, op, acks>>

\* A record raises: what was recorded stays, the rest is given up.
RecordFails(p) ==
  /\ poll[p] # {}
  /\ poll' = [poll EXCEPT ![p] = {}]
  /\ UNCHANGED <<rows, alarm, op, recorded, acks>>

-----------------------------------------------------------------------------
\* Yamcs raises alarms, and its operators acknowledge them there.
AlarmTriggers(a) ==
  /\ alarm[a] = ABSENT
  /\ alarm' = [alarm EXCEPT ![a] = OPEN]
  /\ UNCHANGED <<rows, op, poll, recorded, acks>>

AlarmAcknowledged(a) ==
  /\ alarm[a] = OPEN
  /\ alarm' = [alarm EXCEPT ![a] = ACKNOWLEDGED]
  /\ UNCHANGED <<rows, op, poll, recorded, acks>>

Init ==
  /\ rows = [a \in Anomaly |-> ABSENT]
  /\ alarm = [a \in ControlAnomaly |-> ABSENT]
  /\ op = [o \in Operators |-> Idle]
  /\ poll = [p \in Pollers |-> {}]
  /\ recorded = [a \in Anomaly |-> 0]
  /\ acks = {}

OperatorNext(o) ==
  \/ \E a \in Anomaly : Acknowledge(o, a) \/ Resolve(o, a) \/ StartReprocess(o, a)
  \/ WriteTransition(o) \/ WriteFails(o)

PollerNext(p) == Collect(p) \/ RecordAlarm(p) \/ RecordFails(p)

Next ==
  \/ \E o \in Operators : OperatorNext(o)
  \/ \E p \in Pollers : PollerNext(p)
  \/ \E a \in PayloadAnomaly : RecordFailure(a)
  \/ \E a \in ControlAnomaly : AlarmTriggers(a) \/ AlarmAcknowledged(a)

Spec == Init /\ [][Next]_vars

\* The circumstances under which the store keeps the lifecycle: operators overlap, but
\* no two of them transition the same anomaly, and nothing is recorded a second time.
\* The code sees to neither.
Apart ==
  /\ \A o, q \in Operators : o # q /\ op[o] # Idle /\ op[q] # Idle => op[o].id # op[q].id
  /\ \A a \in Anomaly : recorded[a] <= 1
ApartSpec == Init /\ [][Next /\ Apart']_vars

-----------------------------------------------------------------------------
Collected == [id : ControlAnomaly, state : {OPEN, ACKNOWLEDGED}]

\* The type invariant.
TypeOK ==
  /\ rows \in [Anomaly -> AnomalyState \cup {ABSENT}]
  /\ alarm \in [ControlAnomaly -> {ABSENT, OPEN, ACKNOWLEDGED}]
  /\ op \in [Operators -> Transition \cup {Idle}]
  /\ poll \in [Pollers -> SUBSET Collected]
  /\ recorded \in [Anomaly -> 0 .. MaxRecords]
  /\ acks \subseteq Anomaly

\* A control anomaly is never in REPROCESSING (start_reprocess is for the
\* payload only), however recordings and transitions interleave.
ControlNeverReprocessing == \A a \in ControlAnomaly : rows[a] # REPROCESSING

\* A row says ACKNOWLEDGED only if somebody did acknowledge the anomaly: an
\* operator of the store, or one of Yamcs (record_anomalies, acknowledge).
AcknowledgedBySomebody ==
  \A a \in Anomaly : rows[a] = ACKNOWLEDGED =>
    a \in acks \/ (a \in ControlAnomaly /\ alarm[a] = ACKNOWLEDGED)

\* A row moves against the lifecycle only when it is recorded again, or when
\* the write of a transition comes after another write the reader of the
\* state has not seen (_transition): one overtaken by nobody is legal.
IllegalOnlyIfOvertaken ==
  [][\A a \in Anomaly :
       rows[a] # rows'[a] /\ rows[a] # ABSENT /\ ~CanTransition(rows[a], rows'[a]) =>
         \/ recorded'[a] # recorded[a]
         \/ \E o \in Operators : op[o].id = a /\ op'[o] = Idle /\ op[o].seen # rows[a]]_rows

\* What the documentation says: RESOLVED is terminal.
ResolvedIsTerminal ==
  [][\A a \in Anomaly : rows[a] = RESOLVED => rows'[a] = RESOLVED]_rows

\* The store implements the lifecycle of the anomaly model, although its check and its
\* write are two transactions; true of operators that keep apart (ApartSpec).
Lifecycle     == INSTANCE AnomalyLifecycle
LifecycleSpec == Lifecycle!LifecycleSpec
==============================================================================
