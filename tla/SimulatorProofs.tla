--------------------------- MODULE SimulatorProofs ---------------------------
(***************************************************************************)
(* Theorems about Simulator, for every value of its constants.             *)
(***************************************************************************)
EXTENDS Simulator, SequenceTheorems, FiniteSetTheorems, TLAPS

-----------------------------------------------------------------------------
(* Lemmas about the operators the model is built from.                     *)

\* A counter that wraps stays a counter (SequenceCounter.next).
LEMMA NextCountType ==
  ASSUME NEW K, NEW k \in K, NEW m \in Nat \ {0}, NEW c \in [K -> 0 .. m - 1]
  PROVE  NextCount(c, k, m) \in [K -> 0 .. m - 1]
BY DEF NextCount

\* An accepted SET_MODE names a mode (tc._validate_set_mode).
LEMMA AcceptedSetModeNamesMode ==
  ASSUME NEW d, Accepted(d), IsSetMode(d)
  PROVE  d.arg \in Mode
BY DEF Accepted, Valid, IsSetMode, ValidSetMode, SUBTYPE_SET_MODE, SUBTYPE_PING

\* The events of a tick are events of the catalogue (Model._detect_events).
LEMMA DetectedEventsType ==
  ASSUME NEW m \in Mode, NEW out \in SUBSET LimitEvent
  PROVE  DetectedEvents(m, out) \in Seq(EventType)
<1>1. ASSUME NEW id \in LimitEvent PROVE Crossing(id, out) \in Seq(EventType)
  <2>1. Event(id, 0) \in EventType
    BY DEF Event, EventType, EventId, Mode, SAFE
  <2>. QED
    BY <2>1 DEF Crossing
<1>2. ModeEvents(m) \in Seq(EventType)
  <2>1. Event(MODE_CHANGE, m) \in EventType /\ Event(MODE_SAFE, 0) \in EventType
    BY DEF Event, EventType, EventId, Mode, SAFE
  <2>. QED
    BY <2>1 DEF ModeEvents
<1>3. /\ BATTERY_UNDERVOLTAGE \in LimitEvent
      /\ OBC_OVERTEMP \in LimitEvent
      /\ RW_OVERSPEED \in LimitEvent
  BY DEF LimitEvent
<1>. QED
  BY <1>1, <1>2, <1>3, ConcatProperties DEF DetectedEvents

\* The packets the two threads build are packets of the ICD.
LEMMA LoopPacketType ==
  ASSUME TypeOK
  PROVE  /\ HkPacket \in PacketType
         /\ events # << >> => EventPacket(Head(events)) \in PacketType
<1>1. HkPacket \in PacketType
  BY DEF TypeOK, HkPacket, Packet, PacketType, APID_HK, SERVICE_HK, Apid, Service
<1>2. ASSUME events # << >> PROVE EventPacket(Head(events)) \in PacketType
  <2>1. Head(events) \in EventType
    BY <1>2, HeadTailProperties DEF TypeOK
  <2>. QED
    BY <2>1 DEF TypeOK, EventPacket, EventType, Packet, PacketType, APID_EVENT,
                SERVICE_EVENT, Apid, Service
<1>. QED
  BY <1>1, <1>2

LEMMA AckPacketType ==
  ASSUME TypeOK, received # << >>,
         NEW report \in {"ACCEPTED", "REJECTED", "COMPLETED"}
  PROVE  AckPacket(report) \in PacketType
<1>1. tc \in Datagram
  BY SimulatorAssumption DEF TypeOK, tc
<1>. QED
  BY <1>1 DEF TypeOK, AckPacket, Packet, PacketType, Datagram, APID_VERIFICATION,
              SERVICE_VERIFICATION, Apid, Service

-----------------------------------------------------------------------------
(* Type correctness.                                                       *)

LEMMA InitTypeOK == Init => TypeOK
<1>. SUFFICES ASSUME Init PROVE TypeOK
  OBVIOUS
<1>1. /\ [a \in Apid |-> 0] \in [Apid -> 0 .. SeqCountModulo - 1]
      /\ [s \in Service |-> 0] \in [Service -> 0 .. MsgCountModulo - 1]
  BY SimulatorAssumption
<1>2. /\ events \in Seq(EventType)
      /\ received \in Seq(Datagrams)
      /\ tm \in Seq(PacketType)
      /\ issued \in Seq(Mode)
  BY DEF Init
<1>3. Len(issued) = 0 /\ Len(received) = 0
  BY DEF Init
<1>4. rx \in {"bind", "off"} /\ rx \in RxEnded \cup {"bind"}
  BY DEF Init, RxEnded
<1>5. armed \in [LimitEvent -> BOOLEAN] /\ stop \in BOOLEAN /\ linkOpen \in BOOLEAN
  BY DEF Init
<1>6. ticks \in 0 .. MaxTicks
  BY SimulatorAssumption DEF Init
<1>. QED
  BY <1>1, <1>2, <1>3, <1>4, <1>5, <1>6, SimulatorAssumption
  DEF Init, TypeOK, LoopRunning, Mode, NOMINAL

LEMMA LoopTypeOK == TypeOK /\ (Loop \/ LoopLeave) => TypeOK'
<1>. SUFFICES ASSUME TypeOK, Loop \/ LoopLeave PROVE TypeOK'
  OBVIOUS
<1>. USE SimulatorAssumption
<1>1. CASE LoopStep
  <2>1. TickMode \in Mode
    BY DEF TickMode, TypeOK, Mode, SAFE, NoMode
  <2>2. \A out \in Excursions : DetectedEvents(TickMode, out) \in Seq(EventType)
    BY <2>1, DetectedEventsType
  <2>3. \A out \in Excursions : Rearmed(out) \in [LimitEvent -> BOOLEAN]
    BY DEF Rearmed
  <2>. QED
    BY <1>1, <2>1, <2>2, <2>3
    DEF LoopStep, EmptyMailbox, TypeOK, rxVars, LoopRunning, Mode, NoMode, tc
<1>2. CASE LoopSendHk
  <2>1. tm' \in Seq(PacketType)
    <3>1. HkPacket \in PacketType /\ tm \in Seq(PacketType)
      BY LoopPacketType DEF TypeOK
    <3>. QED
      BY <1>2, <3>1 DEF LoopSendHk, LoopSend
  <2>2. /\ loopSeq' \in [Apid -> 0 .. SeqCountModulo - 1]
        /\ loopMsg' \in [Service -> 0 .. MsgCountModulo - 1]
    BY <1>2, NextCountType DEF LoopSendHk, TypeOK, Apid, Service
  <2>. QED
    BY <1>2, <2>1, <2>2 DEF LoopSendHk, LoopSend, TypeOK, rxVars, modelVars, LoopRunning, tc
<1>3. CASE LoopSendEvent
  <2>1. tm' \in Seq(PacketType)
    <3>1. EventPacket(Head(events)) \in PacketType /\ tm \in Seq(PacketType)
      BY <1>3, LoopPacketType DEF LoopSendEvent, TypeOK
    <3>. QED
      BY <1>3, <3>1 DEF LoopSendEvent, LoopSend
  <2>2. /\ loopSeq' \in [Apid -> 0 .. SeqCountModulo - 1]
        /\ loopMsg' \in [Service -> 0 .. MsgCountModulo - 1]
    BY <1>3, NextCountType DEF LoopSendEvent, TypeOK, Apid, Service
  <2>3. events' \in Seq(EventType)
    BY <1>3, HeadTailProperties DEF LoopSendEvent, TypeOK
  <2>. QED
    BY <1>3, <2>1, <2>2, <2>3
    DEF LoopSendEvent, LoopSend, TypeOK, rxVars, modelVars, LoopRunning, tc
<1>4. CASE LoopSleep \/ LoopLeave \/ LoopStop \/ LoopClose
  BY <1>4 DEF LoopSleep, LoopLeave, LoopStop, LoopClose, TypeOK, rxVars, modelVars,
              LoopRunning, tc
<1>. QED
  BY <1>1, <1>2, <1>3, <1>4 DEF Loop

LEMMA RxSendTypeOK ==
  ASSUME TypeOK, received # << >>,
         NEW report \in {"ACCEPTED", "REJECTED", "COMPLETED"},
         NEW next \in {"check", "apply"}, next = "apply" => Accepted(tc),
         RxSend(report, next)
  PROVE  TypeOK'
<1>. USE SimulatorAssumption
<1>1. tm' \in Seq(PacketType)
  <2>1. AckPacket(report) \in PacketType /\ tm \in Seq(PacketType)
    BY AckPacketType DEF TypeOK
  <2>. QED
    BY <2>1 DEF RxSend
<1>2. /\ rxSeq' \in [Apid -> 0 .. SeqCountModulo - 1]
      /\ rxMsg' \in [Service -> 0 .. MsgCountModulo - 1]
  BY NextCountType DEF RxSend, TypeOK, Apid, Service
<1>. QED
  BY <1>1, <1>2 DEF RxSend, RxUnchanged, TypeOK, loopVars, modelVars, RxEnded, tc

LEMMA RxTypeOK == TypeOK /\ Rx => TypeOK'
<1>. SUFFICES ASSUME TypeOK, Rx PROVE TypeOK'
  OBVIOUS
<1>1. CASE RxBind \/ RxCheckStop \/ RxTimeout \/ RxRecvError
  BY <1>1 DEF RxBind, RxCheckStop, RxTimeout, RxRecvError, RxUnchanged, TypeOK,
              loopVars, modelVars, RxEnded, tc
<1>2. CASE RxReceive
  <2>1. PICK d \in Datagrams :
          /\ received' = Append(received, d)
          /\ rx' = IF Accepted(d) THEN "accept" ELSE IF Rejected(d) THEN "reject" ELSE "check"
    BY <1>2 DEF RxReceive
  <2>2. /\ received' \in Seq(Datagrams)
        /\ Len(received') = Len(received) + 1
        /\ received' # << >>
        /\ tc' = d
    BY <2>1 DEF TypeOK, tc
  <2>3. Len(received') <= MaxDatagrams
    BY <1>2, <2>2, SimulatorAssumption DEF RxReceive, TypeOK
  <2>. QED
    BY <1>2, <2>1, <2>2, <2>3 DEF RxReceive, RxUnchanged, TypeOK, loopVars, modelVars, RxEnded
<1>3. CASE RxReject
  BY <1>3, RxSendTypeOK DEF RxReject, TypeOK
<1>4. CASE RxAccept
  BY <1>4, RxSendTypeOK DEF RxAccept, TypeOK
<1>5. CASE RxComplete
  BY <1>5, RxSendTypeOK DEF RxComplete, TypeOK
<1>6. CASE RxApply
  <2>1. IsSetMode(tc) => tc.arg \in Mode
    BY <1>6, AcceptedSetModeNamesMode DEF RxApply, TypeOK
  <2>2. issued' \in Seq(Mode) /\ Len(issued) <= Len(issued')
    <3>1. issued \in Seq(Mode)
      BY DEF TypeOK
    <3>. QED
      BY <1>6, <2>1, <3>1 DEF RxApply, CommandMode
  <2>3. commanded' \in Mode \cup {NoMode}
    BY <1>6, <2>1 DEF RxApply, CommandMode, TypeOK
  <2>4. tc' = tc
    BY <1>6 DEF RxApply, tc
  <2>. QED
    BY <1>6, <2>1, <2>2, <2>3, <2>4
    DEF RxApply, RxUnchanged, TypeOK, loopVars, modelVars, RxEnded
<1>. QED
  BY <1>1, <1>2, <1>3, <1>4, <1>5, <1>6 DEF Rx

\* Every variable of the two threads stays in its range, and a thread that is
\* handling a telecommand holds one of the kind that got it there.
THEOREM TypeCorrect == Spec => []TypeOK
<1>1. TypeOK /\ [Next]_vars => TypeOK'
  <2>. SUFFICES ASSUME TypeOK, [Next]_vars PROVE TypeOK'
    OBVIOUS
  <2>1. CASE UNCHANGED vars
    BY <2>1 DEF TypeOK, vars, loopVars, rxVars, modelVars, tc
  <2>. QED
    BY <2>1, LoopTypeOK, RxTypeOK DEF Next, Terminating
<1>. QED
  BY InitTypeOK, <1>1, PTL DEF Spec

-----------------------------------------------------------------------------
(* Commanding. MailboxHoldsLatest and ModeIsLatestTaken are inductive      *)
(* together, given the types: the tick that empties the mailbox is the one *)
(* that moves the mode, so neither holds a step later without the other.   *)

\* The mode of the model is always that of the latest command taken, or SAFE
\* as long as mode_to_safe forces it.
ModeIsLatestTaken ==
  mode = IF ModeToSafe /\ ticks > 0 THEN SAFE
         ELSE IF taken > 0 THEN issued[taken] ELSE NOMINAL

MailboxInv == TypeOK /\ MailboxHoldsLatest /\ ModeIsLatestTaken

LEMMA InitMailbox == Init => MailboxHoldsLatest /\ ModeIsLatestTaken
BY DEF Init, MailboxHoldsLatest, ModeIsLatestTaken

\* A tick takes over exactly the latest mode issued.
LEMMA StepTakesLatest ==
  ASSUME MailboxInv, LoopStep
  PROVE  /\ Commanding!TakeOver
         /\ MailboxHoldsLatest' /\ ModeIsLatestTaken'
<1>1. /\ issued \in Seq(Mode) /\ taken \in 0 .. Len(issued) /\ ticks \in 0 .. MaxTicks
      /\ taken' = Len(issued) /\ issued' = issued /\ commanded' = NoMode
      /\ ticks' = ticks + 1 /\ mode' = TickMode
  BY DEF MailboxInv, TypeOK, LoopStep, EmptyMailbox
<1>2. commanded # NoMode <=> taken < Len(issued)
  BY <1>1 DEF MailboxInv, MailboxHoldsLatest, NoMode, Mode, SAFE, NOMINAL, PAYLOAD
<1>3. mode' = IF ModeToSafe THEN SAFE
              ELSE IF taken < Len(issued) THEN issued[Len(issued)] ELSE mode
  BY <1>1, <1>2 DEF TickMode, MailboxInv, MailboxHoldsLatest
<1>4. Commanding!TakeOver
  BY <1>1, <1>3 DEF Commanding!TakeOver
<1>5. MailboxHoldsLatest'
  BY <1>1 DEF MailboxHoldsLatest
<1>6. ModeIsLatestTaken'
  <2>1. CASE ModeToSafe
    BY <2>1, <1>1, <1>3 DEF ModeIsLatestTaken
  <2>2. CASE ~ModeToSafe /\ taken < Len(issued)
    BY <2>2, <1>1, <1>3 DEF ModeIsLatestTaken
  <2>3. CASE ~ModeToSafe /\ taken = Len(issued)
    BY <2>3, <1>1, <1>3 DEF ModeIsLatestTaken, MailboxInv
  <2>. QED
    BY <2>1, <2>2, <2>3, <1>1
<1>. QED
  BY <1>4, <1>5, <1>6

\* Applying a telecommand issues its mode, or (PING) nothing.
LEMMA ApplyIssues ==
  ASSUME MailboxInv, RxApply
  PROVE  /\ (\E m \in Mode : Commanding!Issue(m)) \/ UNCHANGED <<issued, taken, mode>>
         /\ MailboxHoldsLatest' /\ ModeIsLatestTaken'
<1>1. /\ issued \in Seq(Mode) /\ taken \in 0 .. Len(issued)
      /\ taken' = taken /\ ticks' = ticks /\ mode' = mode
  BY DEF MailboxInv, TypeOK, RxApply, RxUnchanged, loopVars, modelVars
<1>2. CASE IsSetMode(tc)
  <2>1. issued' = Append(issued, tc.arg) /\ commanded' = tc.arg
    BY <1>2 DEF RxApply, CommandMode
  <2>2. tc.arg \in Mode
    BY <1>2, AcceptedSetModeNamesMode DEF MailboxInv, TypeOK, RxApply
  <2>3. /\ Len(issued') = Len(issued) + 1 /\ issued'[Len(issued')] = tc.arg
        /\ \A n \in 1 .. Len(issued) : issued'[n] = issued[n]
    BY <2>1, <2>2, <1>1
  <2>4. Commanding!Issue(tc.arg)
    BY <1>1, <2>1 DEF Commanding!Issue
  <2>5. MailboxHoldsLatest'
    BY <1>1, <2>1, <2>3 DEF MailboxHoldsLatest
  <2>6. ModeIsLatestTaken'
    BY <1>1, <2>3 DEF MailboxInv, ModeIsLatestTaken
  <2>. QED
    BY <2>2, <2>4, <2>5, <2>6
<1>3. CASE ~IsSetMode(tc)
  BY <1>1, <1>3 DEF RxApply, MailboxInv, MailboxHoldsLatest, ModeIsLatestTaken
<1>. QED
  BY <1>2, <1>3

\* Every other step leaves commands, mailbox and mode alone.
LEMMA OthersKeepMode ==
  ASSUME TypeOK, [Next]_vars, ~LoopStep, ~RxApply
  PROVE  UNCHANGED <<commanded, issued, taken, mode, ticks>>
BY DEF Next, Loop, LoopSendHk, LoopSendEvent, LoopSleep, LoopLeave, LoopStop, LoopClose,
   Rx, RxBind, RxCheckStop, RxTimeout, RxRecvError, RxReceive, RxReject, RxAccept,
   RxComplete, RxSend, RxUnchanged, Terminating, vars, loopVars, modelVars

LEMMA MailboxStep == MailboxInv /\ [Next]_vars => MailboxHoldsLatest' /\ ModeIsLatestTaken'
<1>. SUFFICES ASSUME MailboxInv, [Next]_vars
              PROVE  MailboxHoldsLatest' /\ ModeIsLatestTaken'
  OBVIOUS
<1>1. CASE LoopStep
  BY <1>1, StepTakesLatest
<1>2. CASE RxApply
  BY <1>2, ApplyIssues
<1>3. CASE ~LoopStep /\ ~RxApply
  <2>1. UNCHANGED <<commanded, issued, taken, mode, ticks>>
    BY <1>3, OthersKeepMode DEF MailboxInv
  <2>. QED
    BY <2>1 DEF MailboxInv, MailboxHoldsLatest, ModeIsLatestTaken
<1>. QED
  BY <1>1, <1>2, <1>3

\* No command handed over by the receiver thread is lost to the emit loop but
\* by a later command, and the mode is that of the latest one taken.
THEOREM CommandsKept == Spec => [](MailboxHoldsLatest /\ ModeIsLatestTaken)
<1>1. TypeOK /\ MailboxHoldsLatest /\ ModeIsLatestTaken /\ [Next]_vars
        => (MailboxHoldsLatest /\ ModeIsLatestTaken)'
  BY MailboxStep DEF MailboxInv
<1>. QED
  BY InitMailbox, <1>1, TypeCorrect, PTL DEF Spec

\* The two threads, their lock and the one-slot mailbox implement
\* ModeCommanding: each step is an Issue, a TakeOver, or a stutter.
THEOREM ImplementsCommanding == Spec => CommandingSpec
<1>1. Init => Commanding!CmdInit
  BY DEF Init, Commanding!CmdInit
<1>2. MailboxInv /\ [Next]_vars => [Commanding!CmdNext]_(Commanding!cmdVars)
  <2>. SUFFICES ASSUME MailboxInv, [Next]_vars
                PROVE  [Commanding!CmdNext]_(Commanding!cmdVars)
    OBVIOUS
  <2>1. CASE LoopStep
    BY <2>1, StepTakesLatest DEF Commanding!CmdNext
  <2>2. CASE RxApply
    BY <2>2, ApplyIssues DEF Commanding!CmdNext, Commanding!cmdVars
  <2>3. CASE ~LoopStep /\ ~RxApply
    BY <2>3, OthersKeepMode DEF MailboxInv, Commanding!cmdVars
  <2>. QED
    BY <2>1, <2>2, <2>3
<1>3. TypeOK /\ MailboxHoldsLatest /\ ModeIsLatestTaken => MailboxInv
  BY DEF MailboxInv
<1>. QED
  BY <1>1, <1>2, <1>3, TypeCorrect, CommandsKept, PTL
  DEF Spec, CommandingSpec, Commanding!CmdSpec

-----------------------------------------------------------------------------
(* The downlink. Both properties of the stream of packets speak of the     *)
(* last packet on an APID, so the invariants tie the counters and the      *)
(* receiver's place in the code to that packet.                            *)

LastOn(a, k) ==
  /\ k \in 1 .. Len(tm) /\ tm[k].apid = a
  /\ \A j \in k + 1 .. Len(tm) : tm[j].apid # a

NoneOn(a) == \A k \in 1 .. Len(tm) : tm[k].apid # a

\* seq and msg are the counts the next packet on APID a must carry.
Continues(a, seq, msg) ==
  \/ NoneOn(a) /\ seq = 0 /\ msg = 0
  \/ \E k \in 1 .. Len(tm) :
       /\ LastOn(a, k)
       /\ seq = (tm[k].seq + 1) % SeqCountModulo
       /\ msg = (tm[k].msg + 1) % MsgCountModulo

\* As long as a thread can still send, its counters continue the stream.
CountersContinue ==
  /\ loop \in LoopRunning =>
       /\ Continues(APID_HK, loopSeq[APID_HK], loopMsg[SERVICE_HK])
       /\ Continues(APID_EVENT, loopSeq[APID_EVENT], loopMsg[SERVICE_EVENT])
  /\ rx \notin RxEnded =>
       Continues(APID_VERIFICATION, rxSeq[APID_VERIFICATION], rxMsg[SERVICE_VERIFICATION])

\* Reports of one telecommand are never mixed with another's
\* (receiver.handle_datagram): a completion follows the acceptance of the same
\* request on APID 102, and an acceptance is followed by nothing but that.
ReportsPaired ==
  \A i \in 1 .. Len(tm) : tm[i].apid = APID_VERIFICATION =>
    /\ (tm[i].type = "COMPLETED") <=>
         (\E k \in 1 .. i - 1 : IsPrevious(k, i) /\ tm[k].type = "ACCEPTED")
    /\ \A k \in 1 .. i - 1 :
         IsPrevious(k, i) /\ tm[k].type = "ACCEPTED" => tm[i].body = tm[k].body

\* The last report is an acceptance exactly while that request is in progress.
LastReport ==
  rx \notin RxEnded =>
    /\ rx \in {"apply", "complete"} =>
         \E k \in 1 .. Len(tm) : LastOn(APID_VERIFICATION, k)
    /\ \A k \in 1 .. Len(tm) : LastOn(APID_VERIFICATION, k) =>
         /\ (tm[k].type = "ACCEPTED") <=> (rx \in {"apply", "complete"})
         /\ tm[k].type = "ACCEPTED" => tm[k].body = tc.req

StreamInv == CountersContinue /\ StreamsContiguous
ReportInv == LastReport /\ ReportsPaired

\* What a packet at the end of the stream changes, and what it leaves.
LEMMA AppendFacts ==
  ASSUME TypeOK, NEW p \in PacketType, tm' = Append(tm, p)
  PROVE  /\ Len(tm) \in Nat /\ Len(tm') = Len(tm) + 1
         /\ \A k \in 1 .. Len(tm) : tm'[k] = tm[k]
         /\ tm'[Len(tm) + 1] = p
BY DEF TypeOK

\* A packet with the right counts keeps the streams contiguous, and its
\* successor is due the next counts; the other APIDs are not concerned.
LEMMA StreamGrows ==
  ASSUME TypeOK, StreamsContiguous,
         NEW p \in PacketType, tm' = Append(tm, p),
         Continues(p.apid, p.seq, p.msg)
  PROVE  /\ StreamsContiguous'
         /\ Continues(p.apid, (p.seq + 1) % SeqCountModulo, (p.msg + 1) % MsgCountModulo)'
         /\ \A a, s, m : a # p.apid /\ Continues(a, s, m) => Continues(a, s, m)'
<1>1. PICK n \in Nat :
        /\ Len(tm) = n /\ Len(tm') = n + 1
        /\ \A k \in 1 .. n : tm'[k] = tm[k]
        /\ tm'[n + 1] = p
  BY AppendFacts
<1>2. ASSUME NEW i \in 1 .. n + 1
      PROVE  (\/ /\ \A k \in 1 .. i - 1 : tm[k].apid # tm[i].apid
                 /\ tm[i].seq = 0 /\ tm[i].msg = 0
              \/ \E k \in 1 .. i - 1 :
                   /\ IsPrevious(k, i)
                   /\ tm[i].seq = (tm[k].seq + 1) % SeqCountModulo
                   /\ tm[i].msg = (tm[k].msg + 1) % MsgCountModulo)'
  <2>1. CASE i \in 1 .. n
    <3>1. CASE /\ \A k \in 1 .. i - 1 : tm[k].apid # tm[i].apid
               /\ tm[i].seq = 0 /\ tm[i].msg = 0
      BY <3>1, <2>1, <1>1
    <3>2. ASSUME NEW k \in 1 .. i - 1, IsPrevious(k, i),
                 tm[i].seq = (tm[k].seq + 1) % SeqCountModulo,
                 tm[i].msg = (tm[k].msg + 1) % MsgCountModulo
          PROVE  /\ IsPrevious(k, i)'
                 /\ tm'[i].seq = (tm'[k].seq + 1) % SeqCountModulo
                 /\ tm'[i].msg = (tm'[k].msg + 1) % MsgCountModulo
      <4>1. \A j \in 1 .. i : tm'[j] = tm[j]
        BY <2>1, <1>1
      <4>2. tm'[k] = tm[k] /\ tm'[i] = tm[i] /\ k \in 1 .. i /\ k < i
        BY <4>1, <2>1, <1>1
      <4>3. \A j \in k + 1 .. i - 1 : tm'[j] = tm[j]
        BY <4>1, <4>2, <2>1, <1>1
      <4>4. IsPrevious(k, i)'
        BY <3>2, <4>2, <4>3 DEF IsPrevious
      <4>. QED
        BY <3>2, <4>2, <4>4
    <3>. QED
      BY <3>1, <3>2, <2>1, <1>1 DEF StreamsContiguous
  <2>2. CASE i = n + 1
    <3>1. CASE NoneOn(p.apid) /\ p.seq = 0 /\ p.msg = 0
      BY <3>1, <2>2, <1>1 DEF NoneOn
    <3>2. ASSUME NEW k \in 1 .. n, LastOn(p.apid, k),
                 p.seq = (tm[k].seq + 1) % SeqCountModulo,
                 p.msg = (tm[k].msg + 1) % MsgCountModulo
          PROVE  /\ IsPrevious(k, i)'
                 /\ tm'[i].seq = (tm'[k].seq + 1) % SeqCountModulo
                 /\ tm'[i].msg = (tm'[k].msg + 1) % MsgCountModulo
      BY <3>2, <2>2, <1>1 DEF LastOn, IsPrevious
    <3>. QED
      BY <3>1, <3>2, <2>2, <1>1 DEF Continues
  <2>. QED
    BY <2>1, <2>2, <1>1
<1>3. StreamsContiguous'
  BY <1>1, <1>2 DEF StreamsContiguous
<1>4. LastOn(p.apid, n + 1)'
  BY <1>1 DEF LastOn
<1>5. Continues(p.apid, (p.seq + 1) % SeqCountModulo, (p.msg + 1) % MsgCountModulo)'
  BY <1>1, <1>4 DEF Continues
<1>6. ASSUME NEW a, NEW s, NEW m, a # p.apid, Continues(a, s, m)
      PROVE  Continues(a, s, m)'
  <2>1. CASE NoneOn(a) /\ s = 0 /\ m = 0
    BY <2>1, <1>6, <1>1 DEF NoneOn, Continues
  <2>2. ASSUME NEW k \in 1 .. n, LastOn(a, k),
               s = (tm[k].seq + 1) % SeqCountModulo, m = (tm[k].msg + 1) % MsgCountModulo
        PROVE  Continues(a, s, m)'
    <3>1. LastOn(a, k)'
      BY <2>2, <1>6, <1>1 DEF LastOn
    <3>. QED
      BY <3>1, <2>2, <1>1 DEF Continues
  <2>. QED
    BY <2>1, <2>2, <1>6, <1>1 DEF Continues
<1>. QED
  BY <1>3, <1>5, <1>6

LEMMA StreamStutters ==
  ASSUME tm' = tm
  PROVE  /\ StreamsContiguous <=> StreamsContiguous'
         /\ \A a, s, m : Continues(a, s, m) <=> Continues(a, s, m)'
BY DEF StreamsContiguous, Continues, NoneOn, LastOn, IsPrevious

LEMMA InitStream == Init => StreamInv
<1>. SUFFICES ASSUME Init PROVE StreamInv
  OBVIOUS
<1>1. Len(tm) = 0
  BY DEF Init
<1>2. \A a : Continues(a, 0, 0)
  BY <1>1 DEF Continues, NoneOn
<1>3. /\ loopSeq[APID_HK] = 0 /\ loopSeq[APID_EVENT] = 0 /\ rxSeq[APID_VERIFICATION] = 0
      /\ loopMsg[SERVICE_HK] = 0 /\ loopMsg[SERVICE_EVENT] = 0
      /\ rxMsg[SERVICE_VERIFICATION] = 0
  BY DEF Init, Apid, Service
<1>. QED
  BY <1>1, <1>2, <1>3 DEF StreamInv, CountersContinue, StreamsContiguous

\* The emit loop sends on APIDs 100 and 101 with its own counters.
LEMMA LoopSendStream ==
  ASSUME TypeOK, StreamInv, LoopSendHk \/ LoopSendEvent
  PROVE  StreamInv'
<1>1. rxSeq' = rxSeq /\ rxMsg' = rxMsg /\ rx' = rx
  BY DEF LoopSendHk, LoopSendEvent, rxVars
<1>2. CASE LoopSendHk
  <2>1. loop \in LoopRunning
    BY <1>2 DEF LoopSendHk, LoopRunning
  <2>2. /\ HkPacket \in PacketType
        /\ HkPacket.apid = APID_HK
        /\ HkPacket.seq = loopSeq[APID_HK]
        /\ HkPacket.msg = loopMsg[SERVICE_HK]
    BY LoopPacketType DEF HkPacket, Packet
  <2>3. /\ loopSeq' = [loopSeq EXCEPT ![APID_HK] = (loopSeq[APID_HK] + 1) % SeqCountModulo]
        /\ loopMsg' = [loopMsg EXCEPT ![SERVICE_HK] = (loopMsg[SERVICE_HK] + 1) % MsgCountModulo]
    BY <1>2 DEF LoopSendHk, NextCount
  <2>4. /\ loopSeq'[APID_HK] = (HkPacket.seq + 1) % SeqCountModulo
        /\ loopMsg'[SERVICE_HK] = (HkPacket.msg + 1) % MsgCountModulo
        /\ loopSeq'[APID_EVENT] = loopSeq[APID_EVENT]
        /\ loopMsg'[SERVICE_EVENT] = loopMsg[SERVICE_EVENT]
    BY <2>2, <2>3 DEF TypeOK, Apid, Service, APID_HK, APID_EVENT, APID_VERIFICATION,
                      SERVICE_HK, SERVICE_EVENT, SERVICE_VERIFICATION
  <2>5. CASE tm' = Append(tm, HkPacket)
    BY <2>1, <2>2, <2>4, <2>5, <1>1, StreamGrows
    DEF StreamInv, CountersContinue, APID_HK, APID_EVENT, APID_VERIFICATION
  <2>6. CASE tm' = tm /\ loop' = "finally"
    BY <2>6, <1>1, StreamStutters DEF StreamInv, CountersContinue, LoopRunning
  <2>. QED
    BY <1>2, <2>5, <2>6 DEF LoopSendHk, LoopSend
<1>3. CASE LoopSendEvent
  <2>. DEFINE p == EventPacket(Head(events))
  <2>1. loop \in LoopRunning /\ events # << >>
    BY <1>3 DEF LoopSendEvent, LoopRunning, TypeOK
  <2>2. /\ p \in PacketType
        /\ p.apid = APID_EVENT
        /\ p.seq = loopSeq[APID_EVENT]
        /\ p.msg = loopMsg[SERVICE_EVENT]
    BY <2>1, LoopPacketType DEF EventPacket, Packet
  <2>3. /\ loopSeq' = [loopSeq EXCEPT ![APID_EVENT] = (loopSeq[APID_EVENT] + 1) % SeqCountModulo]
        /\ loopMsg' = [loopMsg EXCEPT ![SERVICE_EVENT] = (loopMsg[SERVICE_EVENT] + 1) % MsgCountModulo]
    BY <1>3 DEF LoopSendEvent, NextCount
  <2>5. CASE tm' = tm /\ loop' = "finally"
    BY <2>5, <1>1, StreamStutters DEF StreamInv, CountersContinue, LoopRunning
  <2>6. tm' = Append(tm, p) \/ (tm' = tm /\ loop' = "finally")
    BY <1>3 DEF LoopSendEvent, LoopSend
  <2>. HIDE DEF p
  <2>4. /\ loopSeq'[APID_EVENT] = (p.seq + 1) % SeqCountModulo
        /\ loopMsg'[SERVICE_EVENT] = (p.msg + 1) % MsgCountModulo
        /\ loopSeq'[APID_HK] = loopSeq[APID_HK]
        /\ loopMsg'[SERVICE_HK] = loopMsg[SERVICE_HK]
    BY <2>2, <2>3 DEF TypeOK, Apid, Service, APID_HK, APID_EVENT, APID_VERIFICATION,
                      SERVICE_HK, SERVICE_EVENT, SERVICE_VERIFICATION
  <2>7. CASE tm' = Append(tm, p)
    BY <2>1, <2>2, <2>4, <2>7, <1>1, StreamGrows
    DEF StreamInv, CountersContinue, APID_HK, APID_EVENT, APID_VERIFICATION
  <2>. QED
    BY <2>5, <2>6, <2>7
<1>. QED
  BY <1>2, <1>3

\* The receiver sends on APID 102 with its own counters.
LEMMA RxSendStream ==
  ASSUME TypeOK, StreamInv, received # << >>, rx \notin RxEnded,
         NEW report \in {"ACCEPTED", "REJECTED", "COMPLETED"}, NEW next,
         RxSend(report, next)
  PROVE  StreamInv'
<1>. DEFINE p == AckPacket(report)
<1>1. loopSeq' = loopSeq /\ loopMsg' = loopMsg /\ loop' = loop
  BY DEF RxSend, RxUnchanged, loopVars
<1>2. /\ p \in PacketType
      /\ p.apid = APID_VERIFICATION
      /\ p.seq = rxSeq[APID_VERIFICATION]
      /\ p.msg = rxMsg[SERVICE_VERIFICATION]
  BY AckPacketType DEF AckPacket, Packet
<1>3. /\ rxSeq'[APID_VERIFICATION] = (p.seq + 1) % SeqCountModulo
      /\ rxMsg'[SERVICE_VERIFICATION] = (p.msg + 1) % MsgCountModulo
  BY <1>2 DEF RxSend, NextCount, TypeOK, Apid, Service
<1>4. tm' = Append(tm, p) \/ (tm' = tm /\ rx' = "dead")
  BY DEF RxSend
<1>. HIDE DEF p
<1>5. CASE tm' = Append(tm, p)
  BY <1>1, <1>2, <1>3, <1>5, StreamGrows
  DEF StreamInv, CountersContinue, APID_HK, APID_EVENT, APID_VERIFICATION
<1>6. CASE tm' = tm /\ rx' = "dead"
  BY <1>1, <1>6, StreamStutters DEF StreamInv, CountersContinue, RxEnded
<1>. QED
  BY <1>4, <1>5, <1>6

LEMMA StreamStep == TypeOK /\ StreamInv /\ [Next]_vars => StreamInv'
<1>. SUFFICES ASSUME TypeOK, StreamInv, [Next]_vars PROVE StreamInv'
  OBVIOUS
<1>1. CASE LoopSendHk \/ LoopSendEvent
  BY <1>1, LoopSendStream
<1>2. CASE RxReject
  BY <1>2, RxSendStream DEF RxReject, TypeOK, RxEnded
<1>3. CASE RxAccept
  BY <1>3, RxSendStream DEF RxAccept, TypeOK, RxEnded
<1>4. CASE RxComplete
  BY <1>4, RxSendStream DEF RxComplete, TypeOK, RxEnded
<1>5. CASE LoopStep \/ LoopSleep \/ LoopStop \/ LoopClose \/ LoopLeave
  <2>1. /\ tm' = tm /\ loopSeq' = loopSeq /\ loopMsg' = loopMsg
        /\ rxSeq' = rxSeq /\ rxMsg' = rxMsg /\ rx' = rx
        /\ loop' \in LoopRunning => loop \in LoopRunning
    BY <1>5 DEF LoopStep, LoopSleep, LoopStop, LoopClose, LoopLeave, rxVars, LoopRunning
  <2>. QED
    BY <2>1, StreamStutters DEF StreamInv, CountersContinue
<1>6. CASE RxBind \/ RxCheckStop \/ RxTimeout \/ RxRecvError \/ RxReceive \/ RxApply
  <2>1. /\ tm' = tm /\ loopSeq' = loopSeq /\ loopMsg' = loopMsg
        /\ rxSeq' = rxSeq /\ rxMsg' = rxMsg /\ loop' = loop
        /\ rx \notin RxEnded
    BY <1>6 DEF RxBind, RxCheckStop, RxTimeout, RxRecvError, RxReceive, RxApply,
                RxUnchanged, loopVars, RxEnded
  <2>. QED
    BY <2>1, StreamStutters DEF StreamInv, CountersContinue
<1>7. CASE UNCHANGED vars
  BY <1>7, StreamStutters DEF StreamInv, CountersContinue, vars, loopVars, rxVars
<1>. QED
  BY <1>1, <1>2, <1>3, <1>4, <1>5, <1>6, <1>7 DEF Next, Loop, Rx, Terminating

\* On every APID the counts of the packets that leave are contiguous, whatever
\* the interleaving of the threads and whichever send fails.
THEOREM CountsContiguous == Spec => []StreamsContiguous
<1>1. StreamInv => StreamsContiguous
  BY DEF StreamInv
<1>. QED
  BY InitStream, StreamStep, TypeCorrect, <1>1, PTL DEF Spec

-----------------------------------------------------------------------------
(* The verification reports.                                               *)

\* What ReportsPaired says of one packet.
PairedAt(i) ==
  tm[i].apid = APID_VERIFICATION =>
    /\ (tm[i].type = "COMPLETED") <=>
         (\E k \in 1 .. i - 1 : IsPrevious(k, i) /\ tm[k].type = "ACCEPTED")
    /\ \A k \in 1 .. i - 1 :
         IsPrevious(k, i) /\ tm[k].type = "ACCEPTED" => tm[i].body = tm[k].body

\* A packet added at the end leaves the pairs before it alone.
LEMMA PairsStay ==
  ASSUME TypeOK, ReportsPaired, NEW p \in PacketType, tm' = Append(tm, p)
  PROVE  \A i \in 1 .. Len(tm) : PairedAt(i)'
<1>1. PICK n \in Nat :
        /\ Len(tm) = n /\ Len(tm') = n + 1
        /\ \A k \in 1 .. n : tm'[k] = tm[k]
        /\ tm'[n + 1] = p
  BY AppendFacts
<1>2. ASSUME NEW i \in 1 .. n PROVE PairedAt(i)'
  <2>1. tm'[i] = tm[i] /\ \A k \in 1 .. i - 1 : tm'[k] = tm[k]
    BY <1>1
  <2>2. \A k \in 1 .. i - 1 : IsPrevious(k, i)' <=> IsPrevious(k, i)
    <3>. SUFFICES ASSUME NEW k \in 1 .. i - 1
                  PROVE  IsPrevious(k, i)' <=> IsPrevious(k, i)
      OBVIOUS
    <3>1. \A j \in k + 1 .. i - 1 : tm'[j] = tm[j]
      BY <2>1, <1>1
    <3>. QED
      BY <2>1, <3>1 DEF IsPrevious
  <2>3. PairedAt(i)
    BY <1>1 DEF ReportsPaired, PairedAt
  <2>. QED
    BY <2>1, <2>2, <2>3 DEF PairedAt
<1>. QED
  BY <1>1, <1>2

\* The emit loop's packets are on other APIDs.
LEMMA ReportsOtherApid ==
  ASSUME TypeOK, ReportInv, NEW p \in PacketType, tm' = Append(tm, p),
         p.apid # APID_VERIFICATION, rx' = rx, received' = received
  PROVE  ReportInv'
<1>1. PICK n \in Nat :
        /\ Len(tm) = n /\ Len(tm') = n + 1
        /\ \A k \in 1 .. n : tm'[k] = tm[k]
        /\ tm'[n + 1] = p
  BY AppendFacts
<1>2. \A i \in 1 .. n : PairedAt(i)'
  BY <1>1, PairsStay DEF ReportInv
<1>3. ASSUME NEW i, i = n + 1 PROVE PairedAt(i)'
  BY <1>1, <1>3 DEF PairedAt
<1>4. ReportsPaired'
  <2>1. \A i \in 1 .. n + 1 : i \in 1 .. n \/ i = n + 1
    BY <1>1
  <2>. QED
    BY <1>1, <1>2, <1>3, <2>1 DEF ReportsPaired, PairedAt
<1>5. \A k \in 1 .. n + 1 :
        LastOn(APID_VERIFICATION, k)' => k \in 1 .. n /\ LastOn(APID_VERIFICATION, k)
  <2>. SUFFICES ASSUME NEW k \in 1 .. n + 1, LastOn(APID_VERIFICATION, k)'
                PROVE  k \in 1 .. n /\ LastOn(APID_VERIFICATION, k)
    OBVIOUS
  <2>1. k \in 1 .. n
    BY <1>1 DEF LastOn
  <2>2. \A j \in k + 1 .. n : tm'[j] = tm[j]
    BY <1>1, <2>1
  <2>. QED
    BY <1>1, <2>1, <2>2 DEF LastOn
<1>6. \A k \in 1 .. n : LastOn(APID_VERIFICATION, k) => LastOn(APID_VERIFICATION, k)'
  <2>. SUFFICES ASSUME NEW k \in 1 .. n, LastOn(APID_VERIFICATION, k)
                PROVE  LastOn(APID_VERIFICATION, k)'
    OBVIOUS
  <2>1. \A j \in k + 1 .. n + 1 : (j \in k + 1 .. n /\ tm'[j] = tm[j]) \/ tm'[j] = p
    BY <1>1
  <2>. QED
    BY <1>1, <2>1 DEF LastOn
<1>7. tc' = tc
  BY DEF tc
<1>8. LastReport'
  BY <1>1, <1>5, <1>6, <1>7 DEF ReportInv, LastReport
<1>. QED
  BY <1>4, <1>8 DEF ReportInv

\* The receiver's own packet: an acceptance opens a pair, a completion closes
\* it, a rejection stands alone.
LEMMA ReportsSend ==
  ASSUME TypeOK, ReportInv, received # << >>,
         NEW report \in {"ACCEPTED", "REJECTED", "COMPLETED"},
         NEW next \in {"check", "apply"},
         rx \in {"accept", "reject", "complete"},
         report = "COMPLETED" <=> rx = "complete",
         report = "ACCEPTED" <=> next = "apply",
         RxSend(report, next)
  PROVE  ReportInv'
<1>1. /\ received' = received /\ tc' = tc
      /\ rx \notin RxEnded
  BY DEF RxSend, tc, RxEnded
<1>2. CASE tm' = tm /\ rx' = "dead"
  BY <1>1, <1>2 DEF ReportInv, LastReport, ReportsPaired, IsPrevious, RxEnded
<1>3. CASE rx' = next /\ tm' = Append(tm, AckPacket(report))
  <2>1. PICK p \in PacketType :
          /\ p = AckPacket(report)
          /\ p.apid = APID_VERIFICATION /\ p.type = report /\ p.body = tc.req
    BY AckPacketType DEF AckPacket, Packet
  <2>2. PICK n \in Nat :
          /\ Len(tm) = n /\ Len(tm') = n + 1
          /\ \A k \in 1 .. n : tm'[k] = tm[k]
          /\ tm'[n + 1] = p
    BY <1>3, <2>1, AppendFacts
  <2>3. \A i \in 1 .. n : PairedAt(i)'
    BY <1>3, <2>1, <2>2, PairsStay DEF ReportInv
  <2>4. \A k \in 1 .. n : LastOn(APID_VERIFICATION, k) =>
          /\ tm[k].type = "ACCEPTED" <=> rx = "complete"
          /\ tm[k].type = "ACCEPTED" => tm[k].body = tc.req
    BY <1>1, <2>2 DEF ReportInv, LastReport
  <2>5. ASSUME NEW i, i = n + 1 PROVE PairedAt(i)'
    <3>1. \A k \in 1 .. n : IsPrevious(k, i)' <=> LastOn(APID_VERIFICATION, k)
      <4>. SUFFICES ASSUME NEW k \in 1 .. n
                    PROVE  IsPrevious(k, i)' <=> LastOn(APID_VERIFICATION, k)
        OBVIOUS
      <4>1. \A j \in k + 1 .. n : tm'[j] = tm[j]
        BY <2>2
      <4>2. tm'[k] = tm[k] /\ tm'[i].apid = APID_VERIFICATION
        BY <2>1, <2>2, <2>5
      <4>. QED
        BY <2>2, <2>5, <4>1, <4>2 DEF IsPrevious, LastOn
    <3>2. i - 1 = n /\ tm'[i] = p /\ \A k \in 1 .. n : tm'[k] = tm[k]
      BY <2>2, <2>5
    <3>3. ASSUME rx = "complete"
          PROVE  \E k \in 1 .. n : LastOn(APID_VERIFICATION, k)
      BY <1>1, <2>2, <3>3 DEF ReportInv, LastReport
    <3>. QED
      BY <2>1, <2>4, <3>1, <3>2, <3>3 DEF PairedAt
  <2>6. ReportsPaired'
    <3>1. \A i \in 1 .. n + 1 : i \in 1 .. n \/ i = n + 1
      BY <2>2
    <3>. QED
      BY <2>2, <2>3, <2>5, <3>1 DEF ReportsPaired, PairedAt
  <2>7. LastReport'
    <3>1. \A k \in 1 .. n + 1 : LastOn(APID_VERIFICATION, k)' => k = n + 1
      BY <2>1, <2>2 DEF LastOn
    <3>2. \E k \in 1 .. n + 1 : LastOn(APID_VERIFICATION, k)'
      <4>1. \A j \in (n + 1) + 1 .. n + 1 : FALSE
        BY <2>2
      <4>. QED
        BY <2>1, <2>2, <4>1 DEF LastOn
    <3>. QED
      BY <1>1, <1>3, <2>1, <2>2, <3>1, <3>2 DEF LastReport
  <2>. QED
    BY <2>6, <2>7 DEF ReportInv
<1>. QED
  BY <1>2, <1>3 DEF RxSend

LEMMA InitReports == Init => ReportInv
<1>. SUFFICES ASSUME Init PROVE ReportInv
  OBVIOUS
<1>1. Len(tm) = 0 /\ rx \in {"bind", "off"}
  BY DEF Init
<1>. QED
  BY <1>1 DEF ReportInv, LastReport, ReportsPaired

\* A step that sends nothing keeps the invariant when it stays on the same
\* side of the acceptance and on the same telecommand.
LEMMA ReportsQuiet ==
  ASSUME ReportInv, tm' = tm,
         rx' \notin RxEnded =>
           /\ rx \notin RxEnded
           /\ (rx' \in {"apply", "complete"}) <=> (rx \in {"apply", "complete"})
           /\ rx \in {"apply", "complete"} => tc' = tc
  PROVE  ReportInv'
<1>1. ReportsPaired'
  BY DEF ReportInv, ReportsPaired, IsPrevious
<1>2. LastReport'
  <2>1. CASE rx' \in RxEnded
    BY <2>1 DEF LastReport, RxEnded
  <2>2. CASE rx' \notin RxEnded /\ rx' \in {"apply", "complete"}
    BY <2>2 DEF ReportInv, LastReport, LastOn, RxEnded
  <2>3. CASE rx' \notin RxEnded /\ rx' \notin {"apply", "complete"}
    BY <2>3 DEF ReportInv, LastReport, LastOn, RxEnded
  <2>. QED
    BY <2>1, <2>2, <2>3
<1>. QED
  BY <1>1, <1>2 DEF ReportInv

LEMMA ReportsStep == TypeOK /\ ReportInv /\ [Next]_vars => ReportInv'
<1>. SUFFICES ASSUME TypeOK, ReportInv, [Next]_vars PROVE ReportInv'
  OBVIOUS
<1>1. CASE LoopSendHk
  <2>1. HkPacket \in PacketType /\ HkPacket.apid # APID_VERIFICATION
    BY LoopPacketType DEF HkPacket, Packet, APID_HK, APID_VERIFICATION
  <2>2. rx' = rx /\ received' = received /\ tc' = tc
    BY <1>1 DEF LoopSendHk, rxVars, tc
  <2>3. tm' = tm \/ tm' = Append(tm, HkPacket)
    BY <1>1 DEF LoopSendHk, LoopSend
  <2>. QED
    BY <2>1, <2>2, <2>3, ReportsOtherApid, ReportsQuiet
<1>2. CASE LoopSendEvent
  <2>1. /\ EventPacket(Head(events)) \in PacketType
        /\ EventPacket(Head(events)).apid # APID_VERIFICATION
    BY <1>2, LoopPacketType
    DEF LoopSendEvent, TypeOK, EventPacket, Packet, APID_EVENT, APID_VERIFICATION
  <2>2. rx' = rx /\ received' = received /\ tc' = tc
    BY <1>2 DEF LoopSendEvent, rxVars, tc
  <2>3. tm' = tm \/ tm' = Append(tm, EventPacket(Head(events)))
    BY <1>2 DEF LoopSendEvent, LoopSend
  <2>. QED
    BY <2>1, <2>2, <2>3, ReportsOtherApid, ReportsQuiet
<1>3. CASE RxReject
  BY <1>3, ReportsSend DEF RxReject, TypeOK
<1>4. CASE RxAccept
  BY <1>4, ReportsSend DEF RxAccept, TypeOK
<1>5. CASE RxComplete
  BY <1>5, ReportsSend DEF RxComplete, TypeOK
<1>6. CASE LoopStep \/ LoopSleep \/ LoopStop \/ LoopClose \/ LoopLeave \/ UNCHANGED vars
  <2>1. tm' = tm /\ rx' = rx /\ tc' = tc
    BY <1>6 DEF LoopStep, LoopSleep, LoopStop, LoopClose, LoopLeave, vars, rxVars, tc
  <2>. QED
    BY <2>1, ReportsQuiet
<1>7. CASE RxBind \/ RxCheckStop \/ RxTimeout \/ RxRecvError \/ RxReceive
  <2>1. /\ tm' = tm /\ rx \notin RxEnded /\ rx \notin {"apply", "complete"}
        /\ rx' \notin {"apply", "complete"}
    BY <1>7 DEF RxBind, RxCheckStop, RxTimeout, RxRecvError, RxReceive, RxEnded
  <2>. QED
    BY <2>1, ReportsQuiet
<1>8. CASE RxApply
  <2>1. tm' = tm /\ rx = "apply" /\ rx' = "complete" /\ tc' = tc
    BY <1>8 DEF RxApply, tc
  <2>. QED
    BY <2>1, ReportsQuiet DEF RxEnded
<1>. QED
  BY <1>1, <1>2, <1>3, <1>4, <1>5, <1>6, <1>7, <1>8 DEF Next, Loop, Rx, Terminating

\* A completion is reported exactly for the telecommand whose acceptance is
\* the report before it: reports of two telecommands never mix.
THEOREM ReportsNeverMix == Spec => []ReportsPaired
<1>1. ReportInv => ReportsPaired
  BY DEF ReportInv
<1>. QED
  BY InitReports, ReportsStep, TypeCorrect, <1>1, PTL DEF Spec

-----------------------------------------------------------------------------
(* Every datagram is answered, in order. The invariant says, for each      *)
(* place of the receiver, how many reports have left: all that are owed up *)
(* to the last datagram, all but its own, or all but its completion.       *)

AnswersSoFar ==
  \A i \in 1 .. Len(tm) : tm[i].apid = APID_VERIFICATION =>
    \E n \in 1 .. Len(received) : Answers(tm[i], ReportsUpTo(i), n)

\* Between telecommands, and once the receiver has ended otherwise than by an
\* exception, nothing is owed; before the first report of the last datagram all
\* that is; between its reports, one.
Nothing(place)     == place \in {"off", "bind", "check", "recv", "returned"}
BeforeFirst(place) == place \in {"accept", "reject"}
BetweenTwo(place)  == place \in {"apply", "complete"}

Outstanding ==
  /\ Nothing(rx)     => ReportsUpTo(Len(tm)) = ReportsOwed(Len(received))
  /\ BeforeFirst(rx) => ReportsUpTo(Len(tm)) = ReportsOwed(Len(received) - 1)
  /\ BetweenTwo(rx)  => ReportsUpTo(Len(tm)) = ReportsOwed(Len(received) - 1) + 1
  /\ rx = "reject"   => Rejected(tc)

AnswerInv == AnswersSoFar /\ Outstanding

\* Counting over one place more.
LEMMA CountOneMore ==
  ASSUME NEW n \in Nat, NEW A \in SUBSET (1 .. n), NEW B \in SUBSET (1 .. n + 1),
         \A k \in 1 .. n : k \in A <=> k \in B
  PROVE  Cardinality(B) = Cardinality(A) + (IF n + 1 \in B THEN 1 ELSE 0)
<1>1. IsFiniteSet(1 .. n)
  BY FS_Interval
<1>2. IsFiniteSet(A)
  BY <1>1, FS_Subset
<1>3. Cardinality(A) \in Nat
  BY <1>2, FS_CardinalityType
<1>4. n + 1 \notin A
  OBVIOUS
<1>5. /\ \A k \in B : k \in A \/ k = n + 1
      /\ \A k \in A : k \in B
  <2>1. \A k \in 1 .. n + 1 : k \in 1 .. n \/ k = n + 1
    OBVIOUS
  <2>. QED
    BY <2>1
<1>6. CASE n + 1 \in B
  <2>1. B = A \cup {n + 1}
    BY <1>5, <1>6
  <2>2. Cardinality(A \cup {n + 1}) = Cardinality(A) + 1
    BY <1>2, <1>4, FS_AddElement
  <2>. QED
    BY <1>6, <2>1, <2>2
<1>7. CASE n + 1 \notin B
  <2>1. B = A
    BY <1>5, <1>7
  <2>. QED
    BY <1>3, <1>7, <2>1
<1>. QED
  BY <1>6, <1>7

LEMMA CountType ==
  ASSUME NEW n \in Nat, NEW A \in SUBSET (1 .. n)
  PROVE  Cardinality(A) \in Nat
<1>1. IsFiniteSet(1 .. n)
  BY FS_Interval
<1>2. IsFiniteSet(A)
  BY <1>1, FS_Subset
<1>. QED
  BY <1>2, FS_CardinalityType

\* What the first n datagrams are owed, and what one more adds.
LEMMA OwedType == ASSUME NEW n \in Nat PROVE ReportsOwed(n) \in Nat
<1>1. /\ Cardinality({k \in 1 .. n : Accepted(received[k])}) \in Nat
      /\ Cardinality({k \in 1 .. n : Rejected(received[k])}) \in Nat
  BY CountType
<1>. QED
  BY <1>1 DEF ReportsOwed

LEMMA OwedNext ==
  ASSUME NEW n \in Nat
  PROVE  ReportsOwed(n + 1) =
           ReportsOwed(n) + (IF Accepted(received[n + 1]) THEN 2
                             ELSE IF Rejected(received[n + 1]) THEN 1 ELSE 0)
<1>. DEFINE AccTo(m) == {k \in 1 .. m : Accepted(received[k])}
            RejTo(m) == {k \in 1 .. m : Rejected(received[k])}
<1>1. /\ AccTo(n) \in SUBSET (1 .. n) /\ AccTo(n + 1) \in SUBSET (1 .. n + 1)
      /\ RejTo(n) \in SUBSET (1 .. n) /\ RejTo(n + 1) \in SUBSET (1 .. n + 1)
  OBVIOUS
<1>2. /\ \A k \in 1 .. n : k \in AccTo(n) <=> k \in AccTo(n + 1)
      /\ \A k \in 1 .. n : k \in RejTo(n) <=> k \in RejTo(n + 1)
      /\ n + 1 \in AccTo(n + 1) <=> Accepted(received[n + 1])
      /\ n + 1 \in RejTo(n + 1) <=> Rejected(received[n + 1])
  OBVIOUS
<1>3. ReportsOwed(n) = 2 * Cardinality(AccTo(n)) + Cardinality(RejTo(n))
  BY DEF ReportsOwed
<1>4. ReportsOwed(n + 1) = 2 * Cardinality(AccTo(n + 1)) + Cardinality(RejTo(n + 1))
  BY DEF ReportsOwed
<1>5. Cardinality(AccTo(n)) \in Nat /\ Cardinality(RejTo(n)) \in Nat
  BY <1>1, CountType
<1>. HIDE DEF AccTo, RejTo
<1>6. Cardinality(AccTo(n + 1)) =
        Cardinality(AccTo(n)) + (IF Accepted(received[n + 1]) THEN 1 ELSE 0)
  BY <1>1, <1>2, CountOneMore
<1>7. Cardinality(RejTo(n + 1)) =
        Cardinality(RejTo(n)) + (IF Rejected(received[n + 1]) THEN 1 ELSE 0)
  BY <1>1, <1>2, CountOneMore
<1>8. ~(Accepted(received[n + 1]) /\ Rejected(received[n + 1]))
  BY DEF Rejected
<1>. QED
  BY <1>3, <1>4, <1>5, <1>6, <1>7, <1>8

\* The same as a formula of the state, to be used of the state after a step.
OwedAddsUp(n) ==
  ReportsOwed(n + 1) =
    ReportsOwed(n) + (IF Accepted(received[n + 1]) THEN 2
                      ELSE IF Rejected(received[n + 1]) THEN 1 ELSE 0)

LEMMA OwedAlwaysAddsUp == \A n \in Nat : OwedAddsUp(n)
BY OwedNext DEF OwedAddsUp

\* Datagrams received later do not change what was owed before.
LEMMA OwedStays ==
  ASSUME NEW n \in Nat, \A k \in 1 .. n : received'[k] = received[k]
  PROVE  ReportsOwed(n)' = ReportsOwed(n)
<1>1. /\ {k \in 1 .. n : Accepted(received'[k])} = {k \in 1 .. n : Accepted(received[k])}
      /\ {k \in 1 .. n : Rejected(received'[k])} = {k \in 1 .. n : Rejected(received[k])}
  OBVIOUS
<1>. QED
  BY <1>1 DEF ReportsOwed

\* The verification packets counted up to a place, and up to the next.
LEMMA UpToType == ASSUME NEW n \in Nat PROVE ReportsUpTo(n) \in Nat
BY CountType DEF ReportsUpTo

LEMMA UpToStays ==
  ASSUME NEW n \in Nat, \A k \in 1 .. n : tm'[k] = tm[k]
  PROVE  ReportsUpTo(n)' = ReportsUpTo(n)
<1>1. {k \in 1 .. n : tm'[k].apid = APID_VERIFICATION}
        = {k \in 1 .. n : tm[k].apid = APID_VERIFICATION}
  OBVIOUS
<1>. QED
  BY <1>1 DEF ReportsUpTo

LEMMA UpToNext ==
  ASSUME NEW n \in Nat, NEW p, \A k \in 1 .. n : tm'[k] = tm[k], tm'[n + 1] = p
  PROVE  ReportsUpTo(n + 1)' =
           ReportsUpTo(n) + (IF p.apid = APID_VERIFICATION THEN 1 ELSE 0)
<1>. DEFINE A == {k \in 1 .. n : tm[k].apid = APID_VERIFICATION}
            B == {k \in 1 .. n + 1 : tm'[k].apid = APID_VERIFICATION}
<1>1. A \in SUBSET (1 .. n) /\ B \in SUBSET (1 .. n + 1)
  OBVIOUS
<1>2. \A k \in 1 .. n : k \in A <=> k \in B
  OBVIOUS
<1>3. n + 1 \in B <=> p.apid = APID_VERIFICATION
  OBVIOUS
<1>4. ReportsUpTo(n) = Cardinality(A) /\ ReportsUpTo(n + 1)' = Cardinality(B)
  BY DEF ReportsUpTo
<1>. HIDE DEF A, B
<1>. QED
  BY <1>1, <1>2, <1>3, <1>4, CountOneMore

\* An answer given stays the answer when packets and datagrams are added.
LEMMA AnswersStay ==
  ASSUME NEW t \in Nat, NEW r \in Nat,
         Len(tm) = t, Len(received) = r, r <= Len(received)', Len(received)' \in Nat,
         \A k \in 1 .. t : tm'[k] = tm[k],
         \A k \in 1 .. r : received'[k] = received[k],
         AnswersSoFar
  PROVE  \A i \in 1 .. t : tm'[i].apid = APID_VERIFICATION =>
           \E n \in 1 .. Len(received)' : Answers(tm[i], ReportsUpTo(i), n)'
<1>. SUFFICES ASSUME NEW i \in 1 .. t, tm'[i].apid = APID_VERIFICATION
              PROVE  \E n \in 1 .. Len(received)' : Answers(tm[i], ReportsUpTo(i), n)'
  OBVIOUS
<1>1. tm'[i] = tm[i]
  OBVIOUS
<1>2. ReportsUpTo(i)' = ReportsUpTo(i)
  <2>1. i \in Nat /\ \A k \in 1 .. i : tm'[k] = tm[k]
    OBVIOUS
  <2>. QED
    BY <2>1, UpToStays
<1>3. PICK n \in 1 .. r : Answers(tm[i], ReportsUpTo(i), n)
  BY <1>1 DEF AnswersSoFar
<1>4. received'[n] = received[n] /\ n \in 1 .. Len(received)'
  OBVIOUS
<1>5. ReportsOwed(n - 1)' = ReportsOwed(n - 1)
  <2>1. n - 1 \in Nat /\ \A k \in 1 .. n - 1 : received'[k] = received[k]
    OBVIOUS
  <2>. QED
    BY <2>1, OwedStays
<1>6. Answers(tm[i], ReportsUpTo(i), n)'
  BY <1>1, <1>2, <1>3, <1>4, <1>5 DEF Answers
<1>. QED
  BY <1>4, <1>6

\* A step that neither sends nor receives keeps the invariant when it stays
\* within the same part of an answer.
LEMMA AnswersQuiet ==
  ASSUME AnswerInv, tm' = tm, received' = received,
         Nothing(rx') => Nothing(rx),
         BeforeFirst(rx') => BeforeFirst(rx),
         BetweenTwo(rx') => BetweenTwo(rx),
         rx' = "reject" => rx = "reject"
  PROVE  AnswerInv'
<1>1. AnswersSoFar'
  BY DEF AnswerInv, AnswersSoFar, Answers, ReportsUpTo, ReportsOwed
<1>2. Outstanding'
  BY DEF AnswerInv, Outstanding, ReportsUpTo, ReportsOwed, tc
<1>. QED
  BY <1>1, <1>2 DEF AnswerInv

\* The emit loop's packets are not counted.
LEMMA AnswersOtherApid ==
  ASSUME TypeOK, AnswerInv, NEW p \in PacketType, tm' = Append(tm, p),
         p.apid # APID_VERIFICATION, rx' = rx, received' = received
  PROVE  AnswerInv'
<1>1. PICK t \in Nat :
        /\ Len(tm) = t /\ Len(tm)' = t + 1
        /\ \A k \in 1 .. t : tm'[k] = tm[k]
        /\ tm'[t + 1] = p
  BY AppendFacts
<1>2. PICK r \in Nat : Len(received) = r /\ Len(received)' = r
  BY DEF TypeOK
<1>3. \A i \in 1 .. t : tm'[i].apid = APID_VERIFICATION =>
        \E n \in 1 .. Len(received)' : Answers(tm[i], ReportsUpTo(i), n)'
  BY <1>1, <1>2, AnswersStay DEF AnswerInv
<1>4. AnswersSoFar'
  <2>1. \A i \in 1 .. t + 1 : i \in 1 .. t \/ tm'[i].apid # APID_VERIFICATION
    BY <1>1
  <2>. QED
    BY <1>1, <1>3, <2>1 DEF AnswersSoFar
<1>5. ReportsUpTo(Len(tm))' = ReportsUpTo(Len(tm))
  <2>1. ReportsUpTo(t + 1)' = ReportsUpTo(t) + 0
    BY <1>1, UpToNext
  <2>2. ReportsUpTo(t) \in Nat
    BY UpToType
  <2>3. ReportsUpTo(Len(tm))' = ReportsUpTo(t + 1)'
    BY <1>1
  <2>. QED
    BY <1>1, <2>1, <2>2, <2>3
<1>6. /\ ReportsOwed(Len(received))' = ReportsOwed(Len(received))
      /\ ReportsOwed(Len(received) - 1)' = ReportsOwed(Len(received) - 1)
      /\ tc' = tc
  BY DEF ReportsOwed, tc
<1>7. Outstanding'
  BY <1>5, <1>6 DEF AnswerInv, Outstanding
<1>. QED
  BY <1>4, <1>7 DEF AnswerInv

\* The receiver's own packet is the next one owed for the last datagram.
LEMMA AnswersSend ==
  ASSUME TypeOK, AnswerInv, received # << >>,
         NEW report \in {"ACCEPTED", "REJECTED", "COMPLETED"},
         NEW next \in {"check", "apply"},
         RxSend(report, next),
         \/ rx = "accept"   /\ report = "ACCEPTED"  /\ next = "apply"
         \/ rx = "complete" /\ report = "COMPLETED" /\ next = "check"
         \/ rx = "reject"   /\ report = "REJECTED"  /\ next = "check"
  PROVE  AnswerInv'
<1>1. received' = received /\ tc' = tc
  BY DEF RxSend, tc
<1>2. CASE tm' = tm /\ rx' = "dead"
  BY <1>1, <1>2, AnswersQuiet DEF Nothing, BeforeFirst, BetweenTwo
<1>3. CASE rx' = next /\ tm' = Append(tm, AckPacket(report))
  <2>1. PICK p \in PacketType :
          /\ p = AckPacket(report)
          /\ p.apid = APID_VERIFICATION /\ p.type = report /\ p.body = tc.req
    BY AckPacketType DEF AckPacket, Packet
  <2>2. PICK t \in Nat :
          /\ Len(tm) = t /\ Len(tm)' = t + 1
          /\ \A k \in 1 .. t : tm'[k] = tm[k]
          /\ tm'[t + 1] = p
    BY <1>3, <2>1, AppendFacts
  <2>3. PICK r \in Nat : r > 0 /\ Len(received) = r /\ Len(received)' = r
    BY <1>1 DEF TypeOK
  <2>4. tc = received[r] /\ received'[r] = received[r]
    BY <1>1, <2>3 DEF tc
  <2>5. /\ ReportsOwed(r)' = ReportsOwed(r)
        /\ ReportsOwed(r - 1)' = ReportsOwed(r - 1)
    BY <1>1 DEF ReportsOwed
  <2>6. /\ ReportsOwed(r - 1) \in Nat
        /\ ReportsOwed(r) = ReportsOwed(r - 1) +
             (IF Accepted(received[r]) THEN 2 ELSE IF Rejected(received[r]) THEN 1 ELSE 0)
    <3>1. r - 1 \in Nat /\ (r - 1) + 1 = r
      BY <2>3
    <3>2. ReportsOwed((r - 1) + 1) = ReportsOwed(r - 1) +
             (IF Accepted(received[(r - 1) + 1]) THEN 2
              ELSE IF Rejected(received[(r - 1) + 1]) THEN 1 ELSE 0)
      BY <3>1, OwedNext
    <3>. QED
      BY <3>1, <3>2, OwedType
  <2>7. ReportsUpTo(t + 1)' = ReportsUpTo(t) + 1
    BY <2>1, <2>2, UpToNext
  <2>8. ReportsUpTo(t) =
          IF rx = "complete" THEN ReportsOwed(r - 1) + 1 ELSE ReportsOwed(r - 1)
    BY <2>2, <2>3 DEF AnswerInv, Outstanding, BeforeFirst, BetweenTwo
  <2>9. /\ rx # "reject" => Accepted(received[r])
        /\ rx = "reject" => Rejected(received[r]) /\ ~Accepted(received[r])
    BY <2>4 DEF TypeOK, AnswerInv, Outstanding, Rejected
  <2>10. Answers(tm[t + 1], ReportsUpTo(t + 1), r)'
    BY <2>1, <2>2, <2>4, <2>5, <2>6, <2>7, <2>8, <2>9 DEF Answers
  <2>11. AnswersSoFar'
    <3>1. \A i \in 1 .. t : tm'[i].apid = APID_VERIFICATION =>
            \E n \in 1 .. Len(received)' : Answers(tm[i], ReportsUpTo(i), n)'
      BY <1>1, <2>2, <2>3, AnswersStay DEF AnswerInv
    <3>2. \A i \in 1 .. t + 1 : i \in 1 .. t \/ i = t + 1
      BY <2>2
    <3>3. r \in 1 .. Len(received)'
      BY <2>3
    <3>. QED
      BY <2>2, <2>10, <3>1, <3>2, <3>3 DEF AnswersSoFar
  <2>12. Outstanding'
    <3>1. /\ ReportsUpTo(Len(tm))' = ReportsUpTo(t) + 1
          /\ ReportsOwed(Len(received))' = ReportsOwed(r)
          /\ ReportsOwed(Len(received) - 1)' = ReportsOwed(r - 1)
      <4>1. /\ ReportsUpTo(Len(tm))' = ReportsUpTo(t + 1)'
            /\ ReportsOwed(Len(received))' = ReportsOwed(r)'
            /\ ReportsOwed(Len(received) - 1)' = ReportsOwed(r - 1)'
        BY <2>2, <2>3
      <4>. QED
        BY <2>5, <2>7, <4>1
    <3>2. CASE rx = "accept"
      BY <1>3, <2>6, <2>8, <3>1, <3>2 DEF Outstanding, Nothing, BeforeFirst, BetweenTwo
    <3>3. CASE rx \in {"complete", "reject"}
      BY <1>3, <2>6, <2>8, <2>9, <3>1, <3>3 DEF Outstanding, Nothing, BeforeFirst, BetweenTwo
    <3>. QED
      BY <3>2, <3>3
  <2>. QED
    BY <2>11, <2>12 DEF AnswerInv
<1>. QED
  BY <1>2, <1>3 DEF RxSend

\* A datagram is received only when nothing is owed, and then its own reports
\* are: those of its kind, or none.
LEMMA AnswersReceive ==
  ASSUME TypeOK, AnswerInv, RxReceive
  PROVE  AnswerInv'
<1>1. PICK d \in Datagrams :
        /\ received' = Append(received, d)
        /\ rx' = IF Accepted(d) THEN "accept" ELSE IF Rejected(d) THEN "reject" ELSE "check"
  BY DEF RxReceive
<1>2. PICK r \in Nat :
        /\ Len(received) = r /\ Len(received)' = r + 1
        /\ \A k \in 1 .. r : received'[k] = received[k]
        /\ received'[r + 1] = d
  <2>1. received \in Seq(Datagrams)
    BY DEF TypeOK
  <2>. QED
    BY <1>1, <2>1, AppendProperties, LenProperties
<1>3. PICK t \in Nat : Len(tm) = t /\ Len(tm)' = t /\ tm' = tm
  BY DEF RxReceive, TypeOK
<1>4. ReportsUpTo(Len(tm))' = ReportsUpTo(t) /\ ReportsUpTo(t) = ReportsOwed(r)
  BY <1>2, <1>3 DEF RxReceive, AnswerInv, Outstanding, Nothing, ReportsUpTo
<1>5. ReportsOwed(r)' = ReportsOwed(r) /\ ReportsOwed(r) \in Nat
  BY <1>2, OwedStays, OwedType
<1>6. ReportsOwed(r + 1)' =
        ReportsOwed(r)' + (IF Accepted(received'[r + 1]) THEN 2
                           ELSE IF Rejected(received'[r + 1]) THEN 1 ELSE 0)
  <2>1. (\A n \in Nat : OwedAddsUp(n))'
    BY OwedAlwaysAddsUp, PTL
  <2>. QED
    BY <2>1 DEF OwedAddsUp
<1>7. /\ ReportsOwed(Len(received))' = ReportsOwed(r + 1)'
      /\ ReportsOwed(Len(received) - 1)' = ReportsOwed(r)'
      /\ tc' = d
  BY <1>2 DEF tc
<1>8. Outstanding'
  BY <1>1, <1>2, <1>4, <1>5, <1>6, <1>7
  DEF Outstanding, Nothing, BeforeFirst, BetweenTwo, Rejected
<1>9. AnswersSoFar'
  <2>1. \A i \in 1 .. t : tm'[i].apid = APID_VERIFICATION =>
          \E n \in 1 .. Len(received)' : Answers(tm[i], ReportsUpTo(i), n)'
    BY <1>2, <1>3, AnswersStay DEF AnswerInv
  <2>. QED
    BY <1>3, <2>1 DEF AnswersSoFar
<1>. QED
  BY <1>8, <1>9 DEF AnswerInv

LEMMA InitAnswers == Init => AnswerInv
<1>. SUFFICES ASSUME Init PROVE AnswerInv
  OBVIOUS
<1>1. Len(tm) = 0 /\ Len(received) = 0 /\ rx \in {"bind", "off"}
  BY DEF Init
<1>2. AnswersSoFar
  BY <1>1 DEF AnswersSoFar
<1>3. ReportsUpTo(0) = 0 /\ ReportsOwed(0) = 0
  <2>1. /\ {k \in 1 .. 0 : tm[k].apid = APID_VERIFICATION} = {}
        /\ {k \in 1 .. 0 : Accepted(received[k])} = {}
        /\ {k \in 1 .. 0 : Rejected(received[k])} = {}
    OBVIOUS
  <2>. QED
    BY <2>1, FS_EmptySet DEF ReportsUpTo, ReportsOwed
<1>4. Outstanding
  BY <1>1, <1>3 DEF Outstanding, Nothing, BeforeFirst, BetweenTwo
<1>. QED
  BY <1>2, <1>4 DEF AnswerInv

LEMMA AnswersStep == TypeOK /\ AnswerInv /\ [Next]_vars => AnswerInv'
<1>. SUFFICES ASSUME TypeOK, AnswerInv, [Next]_vars PROVE AnswerInv'
  OBVIOUS
<1>1. CASE LoopSendHk
  <2>1. HkPacket \in PacketType /\ HkPacket.apid # APID_VERIFICATION
    BY LoopPacketType DEF HkPacket, Packet, APID_HK, APID_VERIFICATION
  <2>2. rx' = rx /\ received' = received
    BY <1>1 DEF LoopSendHk, rxVars
  <2>3. tm' = tm \/ tm' = Append(tm, HkPacket)
    BY <1>1 DEF LoopSendHk, LoopSend
  <2>. QED
    BY <2>1, <2>2, <2>3, AnswersOtherApid, AnswersQuiet
<1>2. CASE LoopSendEvent
  <2>1. /\ EventPacket(Head(events)) \in PacketType
        /\ EventPacket(Head(events)).apid # APID_VERIFICATION
    BY <1>2, LoopPacketType
    DEF LoopSendEvent, TypeOK, EventPacket, Packet, APID_EVENT, APID_VERIFICATION
  <2>2. rx' = rx /\ received' = received
    BY <1>2 DEF LoopSendEvent, rxVars
  <2>3. tm' = tm \/ tm' = Append(tm, EventPacket(Head(events)))
    BY <1>2 DEF LoopSendEvent, LoopSend
  <2>. QED
    BY <2>1, <2>2, <2>3, AnswersOtherApid, AnswersQuiet
<1>3. CASE RxReject
  BY <1>3, AnswersSend DEF RxReject, TypeOK
<1>4. CASE RxAccept
  BY <1>4, AnswersSend DEF RxAccept, TypeOK
<1>5. CASE RxComplete
  BY <1>5, AnswersSend DEF RxComplete, TypeOK
<1>6. CASE LoopStep \/ LoopSleep \/ LoopStop \/ LoopClose \/ LoopLeave \/ UNCHANGED vars
  <2>1. tm' = tm /\ rx' = rx /\ received' = received
    BY <1>6 DEF LoopStep, LoopSleep, LoopStop, LoopClose, LoopLeave, vars, rxVars
  <2>. QED
    BY <2>1, AnswersQuiet
<1>7. CASE RxBind \/ RxCheckStop \/ RxTimeout \/ RxRecvError
  <2>1. /\ tm' = tm /\ received' = received
        /\ Nothing(rx) /\ ~BeforeFirst(rx') /\ ~BetweenTwo(rx')
    BY <1>7 DEF RxBind, RxCheckStop, RxTimeout, RxRecvError, Nothing, BeforeFirst, BetweenTwo
  <2>. QED
    BY <2>1, AnswersQuiet DEF BeforeFirst
<1>8. CASE RxReceive
  BY <1>8, AnswersReceive
<1>9. CASE RxApply
  <2>1. tm' = tm /\ received' = received /\ rx = "apply" /\ rx' = "complete"
    BY <1>9 DEF RxApply
  <2>. QED
    BY <2>1, AnswersQuiet DEF Nothing, BeforeFirst, BetweenTwo
<1>. QED
  BY <1>1, <1>2, <1>3, <1>4, <1>5, <1>6, <1>7, <1>8, <1>9 DEF Next, Loop, Rx, Terminating

\* The verification stream is exactly the answers to the datagrams, in the
\* order received, each whole before the next, whatever is sent on the other
\* APIDs meanwhile and wherever a send fails.
THEOREM EveryDatagramAnswered == Spec => []ReportsAnswerInOrder
<1>1. AnswerInv => ReportsAnswerInOrder
  BY DEF AnswerInv, AnswersSoFar, Outstanding, Nothing, ReportsAnswerInOrder
<1>. QED
  BY InitAnswers, AnswersStep, TypeCorrect, <1>1, PTL DEF Spec

-----------------------------------------------------------------------------
(* Shutting down.                                                          *)

\* The socket is closed only after the receiver has ended, if join waits for it.
ClosedAfterReceiver == linkOpen \/ rx \in RxEnded

LEMMA ClosedAfterReceiverStep ==
  ASSUME ~JoinMayExpire, ClosedAfterReceiver, [Next]_vars
  PROVE  ClosedAfterReceiver'
<1>1. CASE Loop \/ LoopLeave
  BY <1>1 DEF ClosedAfterReceiver, Loop, LoopStep, LoopSendHk, LoopSendEvent, LoopSleep, LoopStop,
              LoopClose, LoopLeave, rxVars
<1>2. CASE Rx
  <2>1. linkOpen' = linkOpen /\ rx \notin RxEnded
    BY <1>2 DEF Rx, RxBind, RxCheckStop, RxTimeout, RxRecvError, RxReceive, RxReject, RxAccept,
                RxApply, RxComplete, RxSend, RxUnchanged, RxEnded
  <2>. QED
    BY <2>1 DEF ClosedAfterReceiver
<1>3. CASE UNCHANGED vars
  BY <1>3 DEF ClosedAfterReceiver, vars, rxVars
<1>. QED
  BY <1>1, <1>2, <1>3 DEF Next, Terminating

LEMMA HandlerStep ==
  ASSUME ~IoMayFail, ClosedAfterReceiver, [Next]_vars,
         rx \in {"accept", "apply", "complete", "reject"}
  PROVE  rx' # "dead"
<1>1. linkOpen /\ ~SendFails
  BY DEF ClosedAfterReceiver, RxEnded, SendFails
<1>2. CASE Loop \/ LoopLeave \/ UNCHANGED vars
  BY <1>2 DEF Loop, LoopStep, LoopSendHk, LoopSendEvent, LoopSleep, LoopStop, LoopClose, LoopLeave,
              rxVars, vars
<1>3. CASE Rx
  BY <1>1, <1>3 DEF Rx, RxBind, RxCheckStop, RxTimeout, RxRecvError, RxReceive, RxReject, RxAccept,
                    RxApply, RxComplete, RxSend
<1>. QED
  BY <1>2, <1>3 DEF Next, Terminating

\* Where sends work and join waits until the receiver has ended, the handler of a
\* telecommand never raises, in shutdown either.
THEOREM HandlerSafe ==
  ASSUME ~IoMayFail, ~JoinMayExpire
  PROVE  Spec => HandlerNeverRaises
<1>1. Init => ClosedAfterReceiver
  BY DEF Init, ClosedAfterReceiver
<1>2. ClosedAfterReceiver /\ [Next]_vars => ClosedAfterReceiver'
  BY ClosedAfterReceiverStep
<1>3. ClosedAfterReceiver /\ [Next]_vars =>
        [(rx \in {"accept", "apply", "complete", "reject"}) => (rx' # "dead")]_rx
  BY HandlerStep
<1>. QED
  BY <1>1, <1>2, <1>3, PTL DEF Spec, HandlerNeverRaises
=============================================================================
