-------------------------- MODULE AnomalyStoreProofs --------------------------
(***************************************************************************)
(* Theorems about AnomalyStore, for any anomalies, operators and pollers.  *)
(***************************************************************************)
EXTENDS AnomalyStore, TLAPS

\* The sets of states are sets of different strings.
LEMMA StatesDiffer ==
  /\ ABSENT \notin AnomalyState
  /\ ABSENT # OPEN /\ ABSENT # ACKNOWLEDGED /\ ABSENT # RESOLVED /\ ABSENT # REPROCESSING
  /\ OPEN # ACKNOWLEDGED /\ OPEN # REPROCESSING /\ OPEN # RESOLVED
  /\ ACKNOWLEDGED # REPROCESSING /\ ACKNOWLEDGED # RESOLVED /\ REPROCESSING # RESOLVED
BY DEF ABSENT, AnomalyState, OPEN, ACKNOWLEDGED, REPROCESSING, RESOLVED

\* A step starts a transition, ends one, records an anomaly, collects, gives
\* up, or belongs to Yamcs: the cases of every proof below.
LEMMA StepCases ==
  ASSUME Next
  PROVE  \/ \E o \in Operators, a \in Anomaly, target \in {ACKNOWLEDGED, RESOLVED, REPROCESSING} :
              /\ CheckTransition(o, a, target)
              /\ target = REPROCESSING => a \in PayloadAnomaly
         \/ \E o \in Operators : WriteTransition(o) \/ WriteFails(o)
         \/ \E a \in PayloadAnomaly : RecordFailure(a)
         \/ \E p \in Pollers : Collect(p) \/ RecordAlarm(p) \/ RecordFails(p)
         \/ \E a \in ControlAnomaly : AlarmTriggers(a) \/ AlarmAcknowledged(a)
<1>1. CASE \E o \in Operators : OperatorNext(o)
  BY <1>1, StatesDiffer DEF OperatorNext, Acknowledge, Resolve, StartReprocess
<1>2. CASE \E p \in Pollers : PollerNext(p)
  BY <1>2 DEF PollerNext
<1> QED BY <1>1, <1>2 DEF Next

LEMMA InitTypeOK == Init => TypeOK
BY AnomalyStoreAssumption DEF Init, TypeOK, Collected

LEMMA CollectedType ==
  ASSUME NEW a \in ControlAnomaly
  PROVE  CollectedState(a) \in {OPEN, ACKNOWLEDGED}
BY DEF CollectedState

LEMMA RecordTypeOK ==
  ASSUME TypeOK, NEW a \in Anomaly, NEW state \in AnomalyState, Record(a, state)
  PROVE  /\ rows' \in [Anomaly -> AnomalyState \cup {ABSENT}]
         /\ recorded' \in [Anomaly -> 0 .. MaxRecords]
BY AnomalyStoreAssumption DEF TypeOK, Record

LEMMA StepTypeOK == TypeOK /\ [Next]_vars => TypeOK'
<1> SUFFICES ASSUME TypeOK, [Next]_vars PROVE TypeOK'
  OBVIOUS
<1> CASE UNCHANGED vars
  BY DEF vars, TypeOK
<1> CASE Next
  <2>1. CASE \E o \in Operators, a \in Anomaly, target \in {ACKNOWLEDGED, RESOLVED, REPROCESSING} :
              CheckTransition(o, a, target)
    <3> PICK o \in Operators, a \in Anomaly, target \in {ACKNOWLEDGED, RESOLVED, REPROCESSING} :
              CheckTransition(o, a, target)
      BY <2>1
    <3>1. [id |-> a, seen |-> rows[a], target |-> target] \in Transition
      BY DEF TypeOK, CheckTransition, Transition, AnomalyState
    <3> QED BY <3>1 DEF TypeOK, CheckTransition
  <2>2. CASE \E o \in Operators : WriteTransition(o)
    <3> PICK o \in Operators : WriteTransition(o)
      BY <2>2
    <3>1. op[o] \in Transition
      BY DEF TypeOK, WriteTransition
    <3>2. op[o].id \in Anomaly /\ op[o].target \in AnomalyState
      BY <3>1 DEF Transition
    <3>3. rows' \in [Anomaly -> AnomalyState \cup {ABSENT}] /\ acks' \subseteq Anomaly
      BY <3>2 DEF TypeOK, WriteTransition
    <3>4. op' \in [Operators -> Transition \cup {Idle}]
      BY DEF TypeOK, WriteTransition
    <3> QED BY <3>3, <3>4 DEF TypeOK, WriteTransition
  <2>3. CASE \E o \in Operators : WriteFails(o)
    BY <2>3 DEF TypeOK, WriteFails
  <2>4. CASE \E a \in PayloadAnomaly : RecordFailure(a)
    <3> PICK a \in PayloadAnomaly : RecordFailure(a)
      BY <2>4
    <3> QED BY RecordTypeOK DEF TypeOK, RecordFailure, Anomaly, AnomalyState
  <2>5. CASE \E p \in Pollers : Collect(p)
    <3> PICK p \in Pollers : Collect(p)
      BY <2>5
    <3>1. {[id |-> a, state |-> CollectedState(a)] : a \in {b \in ControlAnomaly : alarm[b] # ABSENT}}
            \in SUBSET Collected
      BY CollectedType DEF Collected
    <3> QED BY <3>1 DEF TypeOK, Collect
  <2>6. CASE \E p \in Pollers : RecordAlarm(p)
    <3> PICK p \in Pollers : RecordAlarm(p)
      BY <2>6
    <3>1. PICK r \in poll[p] : Record(r.id, r.state) /\ poll' = [poll EXCEPT ![p] = poll[p] \ {r}]
      BY DEF RecordAlarm
    <3>2. r \in Collected
      BY DEF TypeOK
    <3>3. r.id \in Anomaly /\ r.state \in AnomalyState
      BY <3>2 DEF Collected, Anomaly, AnomalyState
    <3>4. poll' \in [Pollers -> SUBSET Collected]
      BY <3>1 DEF TypeOK
    <3> QED BY <3>1, <3>3, <3>4, RecordTypeOK DEF TypeOK, RecordAlarm
  <2>7. CASE \E p \in Pollers : RecordFails(p)
    BY <2>7 DEF TypeOK, RecordFails
  <2>8. CASE \E a \in ControlAnomaly : AlarmTriggers(a) \/ AlarmAcknowledged(a)
    BY <2>8 DEF TypeOK, AlarmTriggers, AlarmAcknowledged
  <2> QED BY <2>1, <2>2, <2>3, <2>4, <2>5, <2>6, <2>7, <2>8, StepCases
<1> QED OBVIOUS

\* Every reachable state is well typed: rows hold states of the enumeration,
\* and a checked transition is one of a row that was there.
THEOREM TypeCorrect == Spec => []TypeOK
BY InitTypeOK, StepTypeOK, PTL DEF Spec

-----------------------------------------------------------------------------
(* Origins and acknowledgements.                                           *)

\* What the writes under way carry: no reprocessing of a control anomaly, only
\* checked moves, and of an alarm only what Yamcs has already said.
PendingOK ==
  /\ \A o \in Operators : op[o] # Idle =>
       /\ CanTransition(op[o].seen, op[o].target)
       /\ op[o].target = REPROCESSING => op[o].id \in PayloadAnomaly
  /\ \A p \in Pollers : \A r \in poll[p] :
       r.state = ACKNOWLEDGED => alarm[r.id] = ACKNOWLEDGED

StoreInv == PendingOK /\ ControlNeverReprocessing /\ AcknowledgedBySomebody

LEMMA InitStore == Init => StoreInv
BY StatesDiffer DEF Init, StoreInv, PendingOK, ControlNeverReprocessing, AcknowledgedBySomebody, Anomaly

LEMMA StepStore == TypeOK /\ StoreInv /\ [Next]_vars => StoreInv'
<1> SUFFICES ASSUME TypeOK, StoreInv, [Next]_vars PROVE StoreInv'
  OBVIOUS
<1> USE StatesDiffer
<1> CASE UNCHANGED vars
  BY DEF vars, StoreInv, PendingOK, ControlNeverReprocessing, AcknowledgedBySomebody
<1> CASE Next
  <2>1. CASE \E o \in Operators, a \in Anomaly, target \in {ACKNOWLEDGED, RESOLVED, REPROCESSING} :
              /\ CheckTransition(o, a, target)
              /\ target = REPROCESSING => a \in PayloadAnomaly
    <3> PICK o \in Operators, a \in Anomaly, target \in {ACKNOWLEDGED, RESOLVED, REPROCESSING} :
              /\ CheckTransition(o, a, target)
              /\ target = REPROCESSING => a \in PayloadAnomaly
      BY <2>1
    <3>1. PendingOK'
      <4>1. \A q \in Operators : op'[q] # Idle =>
              /\ CanTransition(op'[q].seen, op'[q].target)
              /\ op'[q].target = REPROCESSING => op'[q].id \in PayloadAnomaly
        BY DEF CheckTransition, StoreInv, PendingOK, TypeOK
      <4> QED BY <4>1 DEF CheckTransition, StoreInv, PendingOK
    <3> QED BY <3>1 DEF CheckTransition, StoreInv, ControlNeverReprocessing, AcknowledgedBySomebody
  <2>2. CASE \E o \in Operators : WriteTransition(o)
    <3> PICK o \in Operators : WriteTransition(o)
      BY <2>2
    <3>1. op[o] \in Transition /\ op[o] # Idle
      BY DEF TypeOK, WriteTransition
    <3>2. op[o].id \in Anomaly
      BY <3>1 DEF Transition
    <3>3. PendingOK'
      BY DEF WriteTransition, StoreInv, PendingOK, TypeOK
    <3>4. ControlNeverReprocessing'
      <4> SUFFICES ASSUME NEW a \in ControlAnomaly PROVE rows'[a] # REPROCESSING
        BY DEF ControlNeverReprocessing
      <4>1. a \in Anomaly /\ a \notin PayloadAnomaly
        BY AnomalyStoreAssumption DEF Anomaly
      <4>2. CASE a = op[o].id
        BY <3>1, <3>2, <4>1, <4>2 DEF WriteTransition, StoreInv, PendingOK, TypeOK
      <4>3. CASE a # op[o].id
        BY <4>1, <4>3 DEF WriteTransition, StoreInv, ControlNeverReprocessing, TypeOK
      <4> QED BY <4>2, <4>3
    <3>5. AcknowledgedBySomebody'
      <4> SUFFICES ASSUME NEW a \in Anomaly, rows'[a] = ACKNOWLEDGED
                   PROVE  a \in acks' \/ (a \in ControlAnomaly /\ alarm'[a] = ACKNOWLEDGED)
        BY DEF AcknowledgedBySomebody
      <4>2. CASE a = op[o].id
        BY <3>2, <4>2 DEF WriteTransition, TypeOK
      <4>3. CASE a # op[o].id
        BY <4>3 DEF WriteTransition, StoreInv, AcknowledgedBySomebody, TypeOK
      <4> QED BY <4>2, <4>3
    <3> QED BY <3>3, <3>4, <3>5 DEF StoreInv
  <2>3. CASE \E o \in Operators : WriteFails(o)
    BY <2>3 DEF WriteFails, StoreInv, PendingOK, ControlNeverReprocessing, AcknowledgedBySomebody, TypeOK
  <2>4. CASE \E a \in PayloadAnomaly : RecordFailure(a)
    BY <2>4 DEF RecordFailure, Record, StoreInv, PendingOK, ControlNeverReprocessing,
                AcknowledgedBySomebody, TypeOK, Anomaly
  <2>5. CASE \E p \in Pollers : Collect(p)
    <3> PICK p \in Pollers : Collect(p)
      BY <2>5
    <3>1. PendingOK'
      <4>1. ASSUME NEW q \in Pollers, NEW r \in poll'[q], r.state = ACKNOWLEDGED
            PROVE  alarm[r.id] = ACKNOWLEDGED
        BY <4>1 DEF Collect, CollectedState, StoreInv, PendingOK, TypeOK
      <4> QED BY <4>1 DEF Collect, StoreInv, PendingOK
    <3> QED BY <3>1 DEF Collect, StoreInv, ControlNeverReprocessing, AcknowledgedBySomebody
  <2>6. CASE \E p \in Pollers : RecordAlarm(p)
    <3> PICK p \in Pollers : RecordAlarm(p)
      BY <2>6
    <3>1. PICK r \in poll[p] : Record(r.id, r.state) /\ poll' = [poll EXCEPT ![p] = poll[p] \ {r}]
      BY DEF RecordAlarm
    <3>2. r \in Collected
      BY DEF TypeOK
    <3>3. r.id \in Anomaly /\ r.id \in ControlAnomaly /\ r.state \in {OPEN, ACKNOWLEDGED}
      BY <3>2 DEF Collected, Anomaly
    <3>4. PendingOK'
      BY <3>1 DEF RecordAlarm, StoreInv, PendingOK, TypeOK
    <3>5. ControlNeverReprocessing'
      BY <3>1, <3>3 DEF Record, StoreInv, ControlNeverReprocessing, TypeOK, Anomaly
    <3>6. AcknowledgedBySomebody'
      BY <3>1, <3>3 DEF RecordAlarm, Record, StoreInv, PendingOK, AcknowledgedBySomebody, TypeOK
    <3> QED BY <3>4, <3>5, <3>6 DEF StoreInv
  <2>7. CASE \E p \in Pollers : RecordFails(p)
    BY <2>7 DEF RecordFails, StoreInv, PendingOK, ControlNeverReprocessing, AcknowledgedBySomebody, TypeOK
  <2>8. CASE \E a \in ControlAnomaly : AlarmTriggers(a) \/ AlarmAcknowledged(a)
    <3>1. \A a \in ControlAnomaly : alarm[a] = ACKNOWLEDGED => alarm'[a] = ACKNOWLEDGED
      BY <2>8 DEF AlarmTriggers, AlarmAcknowledged, TypeOK
    <3>2. \A p \in Pollers : \A r \in poll[p] : r.id \in ControlAnomaly
      BY DEF TypeOK, Collected
    <3> QED BY <2>8, <3>1, <3>2 DEF AlarmTriggers, AlarmAcknowledged, StoreInv, PendingOK,
                  ControlNeverReprocessing, AcknowledgedBySomebody
  <2> QED BY <2>1, <2>2, <2>3, <2>4, <2>5, <2>6, <2>7, <2>8, StepCases
<1> QED OBVIOUS

LEMMA StoreInvariant == Spec => []StoreInv
BY InitTypeOK, StepTypeOK, InitStore, StepStore, PTL DEF Spec

\* start_reprocess keeps control anomalies out of REPROCESSING for any number
\* of operators and pollers, although it checks the origin before it writes.
THEOREM OnlyPayloadReprocesses == Spec => []ControlNeverReprocessing
BY StoreInvariant, PTL DEF StoreInv

\* A row in ACKNOWLEDGED always has an acknowledgement behind it.
THEOREM AcknowledgementHasCause == Spec => []AcknowledgedBySomebody
BY StoreInvariant, PTL DEF StoreInv

\* Where a row changes, and to what.
LEMMA RowChanges ==
  ASSUME TypeOK, Next, NEW a \in Anomaly, rows'[a] # rows[a]
  PROVE  \/ recorded[a] < MaxRecords /\ recorded'[a] = recorded[a] + 1
         \/ \E o \in Operators :
              /\ WriteTransition(o)
              /\ op[o] \in Transition
              /\ op[o].id = a /\ op'[o] = Idle /\ rows'[a] = op[o].target
<1>1. CASE \E o \in Operators : WriteTransition(o)
  <2> PICK o \in Operators : WriteTransition(o)
    BY <1>1
  <2>1. op[o] \in Transition
    BY DEF TypeOK, WriteTransition
  <2>2. op[o].id \in Anomaly
    BY <2>1 DEF Transition
  <2>3. op[o].id = a /\ rows'[a] = op[o].target
    BY <2>2 DEF WriteTransition, TypeOK
  <2>4. op'[o] = Idle
    BY DEF WriteTransition, TypeOK
  <2> QED BY <2>1, <2>3, <2>4
<1>2. ASSUME NEW b \in Anomaly, NEW state \in AnomalyState, Record(b, state)
      PROVE  recorded[a] < MaxRecords /\ recorded'[a] = recorded[a] + 1
  BY <1>2 DEF Record, TypeOK
<1>3. CASE \E b \in PayloadAnomaly : RecordFailure(b)
  BY <1>2, <1>3 DEF RecordFailure, Anomaly, AnomalyState
<1>4. CASE \E p \in Pollers : RecordAlarm(p)
  <2> PICK p \in Pollers : RecordAlarm(p)
    BY <1>4
  <2>1. PICK r \in poll[p] : Record(r.id, r.state)
    BY DEF RecordAlarm
  <2>2. r.id \in Anomaly /\ r.state \in AnomalyState
    BY DEF TypeOK, Collected, Anomaly, AnomalyState
  <2> QED BY <1>2, <2>1, <2>2
<1> QED BY <1>1, <1>3, <1>4, StepCases
        DEF CheckTransition, WriteFails, Collect, RecordFails, AlarmTriggers, AlarmAcknowledged

\* Without an overtaking write, and without a second recording, no row ever
\* moves against the transition table.
THEOREM OvertakingIsTheOnlyCause == Spec => IllegalOnlyIfOvertaken
<1>1. TypeOK /\ StoreInv /\ [Next]_vars =>
        [\A a \in Anomaly :
           rows[a] # rows'[a] /\ rows[a] # ABSENT /\ ~CanTransition(rows[a], rows'[a]) =>
             \/ recorded'[a] # recorded[a]
             \/ \E o \in Operators : op[o].id = a /\ op'[o] = Idle /\ op[o].seen # rows[a]]_rows
  <2> SUFFICES ASSUME TypeOK, StoreInv, Next, NEW a \in Anomaly,
                      rows[a] # rows'[a], rows[a] # ABSENT, ~CanTransition(rows[a], rows'[a])
               PROVE  \/ recorded'[a] # recorded[a]
                      \/ \E o \in Operators : op[o].id = a /\ op'[o] = Idle /\ op[o].seen # rows[a]
    BY DEF vars
  <2>1. CASE recorded'[a] = recorded[a] + 1
    BY <2>1 DEF TypeOK
  <2>2. CASE \E o \in Operators :
               WriteTransition(o) /\ op[o].id = a /\ op'[o] = Idle /\ rows'[a] = op[o].target
    BY <2>2 DEF StoreInv, PendingOK, WriteTransition
  <2> QED BY <2>1, <2>2, RowChanges
<1> QED BY <1>1, TypeCorrect, StoreInvariant, PTL DEF Spec, IllegalOnlyIfOvertaken

-----------------------------------------------------------------------------
(* Refinement of the lifecycle, for operators that keep apart and          *)
(* anomalies recorded once.                                                *)

\* A checked transition has not been overtaken, and an anomaly that was never
\* recorded has no row.
NotOvertaken ==
  /\ \A o \in Operators : op[o] # Idle => rows[op[o].id] = op[o].seen
  /\ \A a \in Anomaly : recorded[a] = 0 => rows[a] = ABSENT

LEMMA InitNotOvertaken == Init => NotOvertaken
BY DEF Init, NotOvertaken

LEMMA StepNotOvertaken ==
  TypeOK /\ NotOvertaken /\ Apart /\ [Next /\ Apart']_vars => NotOvertaken'
<1> SUFFICES ASSUME TypeOK, NotOvertaken, Apart, [Next /\ Apart']_vars PROVE NotOvertaken'
  OBVIOUS
<1> USE StatesDiffer
<1> CASE UNCHANGED vars
  BY DEF vars, NotOvertaken
<1> CASE Next /\ Apart'
  <2>1. ASSUME NEW a \in Anomaly, recorded'[a] = 0 PROVE rows'[a] = ABSENT
    <3>1. recorded[a] = 0 => rows[a] = ABSENT
      BY DEF NotOvertaken
    <3>2. recorded'[a] = recorded[a] \/ recorded'[a] = recorded[a] + 1
      BY StepCases DEF CheckTransition, WriteTransition, WriteFails, RecordFailure, RecordAlarm, Record,
           Collect, RecordFails, AlarmTriggers, AlarmAcknowledged, TypeOK, Collected, Anomaly
    <3>3. recorded[a] = 0
      BY <2>1, <3>2 DEF TypeOK
    <3>4. CASE rows'[a] # rows[a]
      <4>1. PICK o \in Operators :
              /\ WriteTransition(o)
              /\ op[o] \in Transition
              /\ op[o].id = a
        BY <2>1, <3>3, <3>4, RowChanges
      <4>2. rows[a] = op[o].seen
        BY <4>1 DEF NotOvertaken, WriteTransition
      <4> QED BY <3>1, <3>3, <4>1, <4>2 DEF Transition
    <3> QED BY <3>1, <3>3, <3>4
  <2>2. ASSUME NEW o \in Operators, op'[o] # Idle PROVE rows'[op'[o].id] = op'[o].seen
    <3>1. CASE op[o] # Idle
      <4>1. op[o] \in Transition
        BY <3>1 DEF TypeOK
      <4>2. op'[o] = op[o] /\ ~WriteTransition(o)
        BY <2>2, <3>1, StepCases DEF CheckTransition, WriteTransition, WriteFails, RecordFailure, RecordAlarm,
           Collect, RecordFails, AlarmTriggers, AlarmAcknowledged, TypeOK
      <4>3. op[o].id \in Anomaly /\ rows[op[o].id] = op[o].seen /\ op[o].seen # ABSENT
        BY <3>1, <4>1 DEF Transition, NotOvertaken
      <4>4. recorded[op[o].id] \in Nat /\ recorded[op[o].id] # 0
        BY <4>3 DEF NotOvertaken, TypeOK
      <4>5. ASSUME rows'[op[o].id] # rows[op[o].id] PROVE FALSE
        <5>1. recorded'[op[o].id] # recorded[op[o].id] + 1
          BY <4>3, <4>4 DEF Apart
        <5>2. PICK q \in Operators : WriteTransition(q) /\ op[q].id = op[o].id
          BY <4>3, <4>5, <5>1, RowChanges
        <5>3. op[q] # Idle /\ q # o
          BY <4>2, <5>2 DEF WriteTransition
        <5> QED BY <3>1, <5>2, <5>3 DEF Apart
      <4> QED BY <4>2, <4>3, <4>5
    <3>2. CASE op[o] = Idle
      <4>1. PICK q \in Operators, a \in Anomaly, target \in {ACKNOWLEDGED, RESOLVED, REPROCESSING} :
              CheckTransition(q, a, target)
        BY <2>2, <3>2, StepCases DEF WriteTransition, WriteFails, RecordFailure, RecordAlarm,
           Collect, RecordFails, AlarmTriggers, AlarmAcknowledged, TypeOK
      <4>2. q = o
        BY <2>2, <3>2, <4>1 DEF CheckTransition, TypeOK
      <4> QED BY <4>1, <4>2 DEF CheckTransition, TypeOK
    <3> QED BY <3>1, <3>2
  <2> QED BY <2>1, <2>2 DEF NotOvertaken
<1> QED OBVIOUS

LEMMA StepLifecycle ==
  TypeOK /\ StoreInv /\ NotOvertaken /\ [Next /\ Apart']_vars => [Lifecycle!LifecycleNext]_rows
<1> SUFFICES ASSUME TypeOK, StoreInv, NotOvertaken, Next, Apart', rows' # rows
             PROVE  Lifecycle!LifecycleNext
  BY DEF vars
<1> USE DEF OPEN, ACKNOWLEDGED, REPROCESSING, RESOLVED, ABSENT
<1>1. CASE \E o \in Operators : WriteTransition(o)
  <2> PICK o \in Operators : WriteTransition(o)
    BY <1>1
  <2> DEFINE a == op[o].id
  <2>1. op[o] \in Transition /\ op[o] # Idle
    BY DEF TypeOK, WriteTransition
  <2>2. a \in Anomaly
    BY <2>1 DEF Transition
  <2>3. CanTransition(rows[a], op[o].target) /\ rows' = [rows EXCEPT ![a] = op[o].target]
    BY <2>1 DEF NotOvertaken, StoreInv, PendingOK, WriteTransition
  <2>4. op[o].target = REPROCESSING => a \in PayloadAnomaly
    BY <2>1 DEF StoreInv, PendingOK
  <2> HIDE DEF a
  <2>5. Lifecycle!Triage(a) \/ Lifecycle!Reprocess(a) \/ Lifecycle!Reopen(a) \/ Lifecycle!Close(a)
    BY <2>3, <2>4 DEF CanTransition, Lifecycle!Triage, Lifecycle!Reprocess, Lifecycle!Reopen, Lifecycle!Close
  <2> QED BY <2>2, <2>5 DEF Lifecycle!LifecycleNext, Lifecycle!Anomaly, Anomaly
<1>2. ASSUME NEW a \in Anomaly, NEW state \in {OPEN, ACKNOWLEDGED}, Record(a, state),
             state = ACKNOWLEDGED => a \in ControlAnomaly
      PROVE  Lifecycle!LifecycleNext
  <2>1. rows[a] = ABSENT
    <3>1. recorded'[a] = recorded[a] + 1 /\ recorded'[a] <= 1 /\ recorded[a] \in Nat
      BY <1>2 DEF Record, Apart, TypeOK
    <3> QED BY <3>1 DEF NotOvertaken
  <2>2. Lifecycle!Open(a)
    BY <1>2, <2>1 DEF Record, Lifecycle!Open
  <2> QED BY <2>2 DEF Lifecycle!LifecycleNext, Lifecycle!Anomaly, Anomaly
<1>3. CASE \E a \in PayloadAnomaly : RecordFailure(a)
  BY <1>2, <1>3 DEF RecordFailure, Anomaly
<1>4. CASE \E p \in Pollers : RecordAlarm(p)
  <2> PICK p \in Pollers : RecordAlarm(p)
    BY <1>4
  <2>1. PICK r \in poll[p] : Record(r.id, r.state)
    BY DEF RecordAlarm
  <2>2. r.id \in Anomaly /\ r.id \in ControlAnomaly /\ r.state \in {OPEN, ACKNOWLEDGED}
    BY DEF TypeOK, Collected, Anomaly
  <2> QED BY <1>2, <2>1, <2>2
<1> QED BY <1>1, <1>3, <1>4, StepCases
        DEF CheckTransition, WriteFails, Collect, RecordFails, AlarmTriggers, AlarmAcknowledged

\* Of operators that transition different anomalies, and with every anomaly recorded
\* once, the store implements the documented lifecycle, RESOLVED terminal included,
\* although its check and its write are two transactions.
THEOREM ImplementsLifecycle == ApartSpec => LifecycleSpec
<1>1. Init => Lifecycle!LifecycleInit
  BY DEF Init, Lifecycle!LifecycleInit, Lifecycle!Anomaly, Anomaly, ABSENT
<1>2. ApartSpec => Spec
  BY PTL DEF ApartSpec, Spec
<1>3. ApartSpec => []Apart
  <2>1. Init => Apart
    BY DEF Init, Apart
  <2>2. Apart /\ [Next /\ Apart']_vars => Apart'
    BY DEF Apart, vars
  <2> QED BY <2>1, <2>2, PTL DEF ApartSpec
<1>4. ApartSpec => []NotOvertaken
  BY InitNotOvertaken, StepNotOvertaken, TypeCorrect, <1>2, <1>3, PTL DEF ApartSpec
<1> QED BY <1>1, <1>2, <1>4, StepLifecycle, TypeCorrect, StoreInvariant, PTL
        DEF ApartSpec, LifecycleSpec, Lifecycle!LifecycleSpec
==============================================================================
