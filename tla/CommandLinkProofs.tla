-------------------------- MODULE CommandLinkProofs --------------------------
(***************************************************************************)
(* Theorems about CommandLink, for every value of its constants: its       *)
(* downlink is the one of TmLink, and what the verdicts of the verifiers   *)
(* are worth.                                                              *)
(***************************************************************************)
EXTENDS CommandLink, SimulatorProofs

-----------------------------------------------------------------------------
(* The simulator in the loop takes the steps of Simulator.                 *)

LEMMA LinkStepIsStep == [LinkNext]_linkVars => [Next]_vars
BY DEF LinkNext, Release, WindowEnds, ReceiveUp, Simulate, ReceiveDown, linkVars, Next, Rx

\* By the shape of the actions: commanded from the ground, over whatever link, the
\* simulator takes the steps of Simulator, and the theorems about it carry over.
LEMMA SimulatorInTheLoop == LinkSpec => Spec
<1>1. LinkInit => Init
  BY DEF LinkInit
<1>. QED
  BY <1>1, LinkStepIsStep, PTL DEF LinkSpec, Spec

-----------------------------------------------------------------------------
(* The downlink. TmLink bounds the packets sent: a tick makes at most one  *)
(* HK packet and five events, a datagram at most two reports. The packets  *)
(* a thread still owes for what it is handling are part of the account.    *)

LoopOwes ==
  IF loop = "hk" THEN 1 + Len(events) ELSE IF loop = "events" THEN Len(events) ELSE 0

RxOwes ==
  IF rx = "accept" THEN 2 ELSE IF rx \in {"apply", "complete", "reject"} THEN 1 ELSE 0

Account == Len(tm) + LoopOwes + RxOwes <= 6 * ticks + 2 * Len(received)

LEMMA FiveEvents ==
  ASSUME NEW m \in Mode, NEW out \in SUBSET LimitEvent
  PROVE  DetectedEvents(m, out) \in Seq(EventType) /\ Len(DetectedEvents(m, out)) <= 5
<1>1. ASSUME NEW id \in LimitEvent
      PROVE  Crossing(id, out) \in Seq(EventType) /\ Len(Crossing(id, out)) <= 1
  <2>1. Event(id, 0) \in EventType
    BY DEF Event, EventType, EventId, Mode, SAFE
  <2>. QED
    BY <2>1 DEF Crossing
<1>2. ModeEvents(m) \in Seq(EventType) /\ Len(ModeEvents(m)) <= 2
  <2>1. Event(MODE_CHANGE, m) \in EventType /\ Event(MODE_SAFE, 0) \in EventType
    BY DEF Event, EventType, EventId, Mode, SAFE
  <2>. QED
    BY <2>1 DEF ModeEvents
<1>3. /\ BATTERY_UNDERVOLTAGE \in LimitEvent
      /\ OBC_OVERTEMP \in LimitEvent
      /\ RW_OVERSPEED \in LimitEvent
  BY DEF LimitEvent
<1>4. /\ Crossing(BATTERY_UNDERVOLTAGE, out) \in Seq(EventType)
      /\ Crossing(OBC_OVERTEMP, out) \in Seq(EventType)
      /\ Crossing(RW_OVERSPEED, out) \in Seq(EventType)
  BY <1>1, <1>3
<1>5. Len(Crossing(BATTERY_UNDERVOLTAGE, out) \o Crossing(OBC_OVERTEMP, out)) <= 2
  BY <1>1, <1>3, <1>4, ConcatProperties
<1>6. Len(Crossing(BATTERY_UNDERVOLTAGE, out) \o Crossing(OBC_OVERTEMP, out)
            \o Crossing(RW_OVERSPEED, out)) <= 3
  BY <1>1, <1>3, <1>4, <1>5, ConcatProperties
<1>. QED
  BY <1>2, <1>4, <1>6, DetectedEventsType, ConcatProperties DEF DetectedEvents

\* Two sums, taken apart from what is summed.
LEMMA SumsCompare ==
  ASSUME NEW a \in Nat, NEW b \in Nat, NEW c \in Nat, NEW d \in Nat, NEW e \in Nat, NEW n \in Nat,
         a + b + c <= n, d <= a + 1, e + 1 <= c
  PROVE  d + b + e <= n
OBVIOUS

LEMMA SumsBound ==
  ASSUME NEW a \in Nat, NEW b \in Nat, NEW c \in Nat, NEW t \in Nat, NEW r \in Nat,
         NEW T \in Nat, NEW R \in Nat,
         a + 1 + b + c <= 6 * t + 2 * r, t <= T, r <= R
  PROVE  a < 6 * T + 2 * R
OBVIOUS

LEMMA InitAccount == Init => Account
BY DEF Init, Account, LoopOwes, RxOwes

LEMMA AccountStep == TypeOK /\ TypeOK' /\ Account /\ [Next]_vars => Account'
<1>. SUFFICES ASSUME TypeOK, TypeOK', Account, [Next]_vars PROVE Account'
  OBVIOUS
<1>a. /\ Len(tm) \in Nat /\ Len(events) \in Nat /\ Len(received) \in Nat /\ ticks \in Nat
      /\ tm \in Seq(PacketType) /\ events \in Seq(EventType)
      /\ Len(tm') \in Nat /\ Len(events') \in Nat
  BY SimulatorAssumption DEF TypeOK
<1>b. LoopOwes \in Nat /\ RxOwes \in Nat /\ LoopOwes' \in Nat /\ RxOwes' \in Nat
  BY <1>a DEF LoopOwes, RxOwes
<1>c. /\ UNCHANGED <<loop, events>> => LoopOwes' = LoopOwes
      /\ UNCHANGED rx => RxOwes' = RxOwes
  BY DEF LoopOwes, RxOwes
<1>d. Len(tm) + LoopOwes + RxOwes <= 6 * ticks + 2 * Len(received)
  BY DEF Account
<1>e. /\ loop \notin {"hk", "events"} => LoopOwes = 0
      /\ loop' \notin {"hk", "events"} => LoopOwes' = 0
      /\ loop = "hk" => LoopOwes = 1 + Len(events)
      /\ loop' = "hk" => LoopOwes' = 1 + Len(events')
      /\ loop = "events" => LoopOwes = Len(events)
      /\ loop' = "events" => LoopOwes' = Len(events')
  BY DEF LoopOwes
<1>f. /\ rx = "accept" => RxOwes = 2
      /\ rx' = "accept" => RxOwes' = 2
      /\ rx \in {"apply", "complete", "reject"} => RxOwes = 1
      /\ rx' \in {"apply", "complete", "reject"} => RxOwes' = 1
      /\ rx' \notin {"accept", "apply", "complete", "reject"} => RxOwes' = 0
  BY DEF RxOwes
<1>1. CASE LoopStep
  <2>1. Len(events') <= 5
    <3>1. PICK out \in Excursions : events' = DetectedEvents(TickMode, out)
      BY <1>1 DEF LoopStep
    <3>2. out \in SUBSET LimitEvent
      BY SimulatorAssumption
    <3>3. TickMode \in Mode
      BY DEF TypeOK, TickMode, Mode
    <3>. QED
      BY <3>1, <3>2, <3>3, FiveEvents
  <2>2. /\ tm' = tm /\ rx' = rx /\ received' = received /\ ticks' = ticks + 1
        /\ loop = "step" /\ loop' = "hk"
    BY <1>1 DEF LoopStep, rxVars
  <2>3. LoopOwes = 0 /\ LoopOwes' <= 6
    BY <1>a, <1>e, <2>1, <2>2
  <2>. QED
    BY <1>a, <1>b, <1>c, <1>d, <2>2, <2>3 DEF Account
<1>2. CASE LoopSendHk
  <2>1. /\ rx' = rx /\ received' = received /\ ticks' = ticks /\ events' = events /\ loop = "hk"
    BY <1>2 DEF LoopSendHk, rxVars
  <2>2. Len(tm') + LoopOwes' <= Len(tm) + LoopOwes
    <3>1. CASE loop' = "finally" /\ tm' = tm
      BY <1>a, <1>b, <1>e, <3>1
    <3>2. CASE loop' = (IF events = << >> THEN "check" ELSE "events") /\ tm' = Append(tm, HkPacket)
      <4>1. Len(tm') = Len(tm) + 1
        BY <1>a, <3>2, LoopPacketType, AppendProperties
      <4>2. LoopOwes' = Len(events)
        BY <2>1, <1>e, <3>2
      <4>. QED
        BY <1>a, <1>b, <1>e, <2>1, <4>1, <4>2
    <3>. QED
      BY <1>2, <3>1, <3>2 DEF LoopSendHk, LoopSend
  <2>. QED
    BY <1>a, <1>b, <1>c, <1>d, <2>1, <2>2 DEF Account
<1>3. CASE LoopSendEvent
  <2>1. /\ rx' = rx /\ received' = received /\ ticks' = ticks /\ events' = Tail(events)
        /\ loop = "events" /\ events # << >>
    BY <1>3 DEF LoopSendEvent, rxVars, TypeOK
  <2>2. Len(events') = Len(events) - 1
    BY <1>a, <2>1, HeadTailProperties
  <2>3. Len(tm') + LoopOwes' <= Len(tm) + LoopOwes
    <3>1. CASE loop' = "finally" /\ tm' = tm
      BY <1>a, <1>b, <1>e, <3>1
    <3>2. CASE /\ loop' = (IF Tail(events) = << >> THEN "check" ELSE "events")
               /\ tm' = Append(tm, EventPacket(Head(events)))
      <4>1. Len(tm') = Len(tm) + 1
        BY <1>a, <2>1, <3>2, LoopPacketType, AppendProperties
      <4>2. LoopOwes' <= Len(events')
        BY <1>a, <1>e, <3>2
      <4>. QED
        BY <1>a, <1>b, <1>e, <2>1, <2>2, <4>1, <4>2
    <3>. QED
      BY <1>3, <3>1, <3>2 DEF LoopSendEvent, LoopSend
  <2>. QED
    BY <1>a, <1>b, <1>c, <1>d, <2>1, <2>3 DEF Account
<1>4. CASE LoopSleep \/ LoopStop \/ LoopClose \/ LoopLeave
  <2>1. /\ tm' = tm /\ rx' = rx /\ received' = received /\ ticks' = ticks
        /\ loop' \notin {"hk", "events"}
    BY <1>4 DEF LoopSleep, LoopStop, LoopClose, LoopLeave, rxVars
  <2>. QED
    BY <1>a, <1>b, <1>c, <1>d, <1>e, <2>1 DEF Account
<1>5. CASE RxBind \/ RxCheckStop \/ RxTimeout \/ RxRecvError
  <2>1. /\ tm' = tm /\ loop' = loop /\ received' = received /\ ticks' = ticks /\ events' = events
        /\ rx' \notin {"accept", "apply", "complete", "reject"}
    BY <1>5 DEF RxBind, RxCheckStop, RxTimeout, RxRecvError, RxUnchanged, loopVars
  <2>. QED
    BY <1>a, <1>b, <1>c, <1>d, <1>f, <2>1 DEF Account
<1>6. CASE RxReceive
  <2>1. /\ tm' = tm /\ loop' = loop /\ ticks' = ticks /\ events' = events
        /\ rx' \in {"accept", "reject", "check"}
    BY <1>6 DEF RxReceive, RxUnchanged, loopVars
  <2>2. Len(received') = Len(received) + 1
    BY <1>6, AppendProperties DEF RxReceive, TypeOK
  <2>3. RxOwes' <= 2
    BY <1>f, <2>1
  <2>. QED
    BY <1>a, <1>b, <1>c, <1>d, <2>1, <2>2, <2>3 DEF Account
<1>7. CASE RxApply
  <2>1. /\ tm' = tm /\ loop' = loop /\ received' = received /\ ticks' = ticks /\ events' = events
        /\ rx = "apply" /\ rx' = "complete"
    BY <1>7 DEF RxApply, RxUnchanged, loopVars
  <2>2. RxOwes' = RxOwes
    BY <1>f, <2>1
  <2>. QED
    BY <1>a, <1>b, <1>c, <1>d, <2>1, <2>2 DEF Account
<1>8. ASSUME NEW report \in {"ACCEPTED", "REJECTED", "COMPLETED"}, NEW next,
             RxSend(report, next),
             \/ rx = "accept" /\ next = "apply"
             \/ rx \in {"reject", "complete"} /\ next = "check"
      PROVE  Account'
  <2>1. /\ loop' = loop /\ received' = received /\ ticks' = ticks /\ events' = events
    BY <1>8 DEF RxSend, RxUnchanged, loopVars
  <2>2. Len(tm') <= Len(tm) + 1
    <3>1. AckPacket(report) \in PacketType
      BY <1>8, AckPacketType DEF TypeOK
    <3>. QED
      BY <1>a, <1>8, <3>1, AppendProperties DEF RxSend
  <2>3. rx' \in {"dead", next}
    BY <1>8 DEF RxSend
  <2>4. RxOwes' + 1 <= RxOwes
    BY <1>8, <1>f, <2>3
  <2>5. LoopOwes' = LoopOwes
    BY <1>c, <2>1
  <2>6. 6 * ticks + 2 * Len(received) \in Nat
    BY <1>a
  <2>. QED
    BY <1>a, <1>b, <1>d, <2>1, <2>2, <2>4, <2>5, <2>6, SumsCompare DEF Account
<1>9. CASE RxReject \/ RxAccept \/ RxComplete
  BY <1>9, <1>8 DEF RxReject, RxAccept, RxComplete
<1>10. CASE UNCHANGED vars
  <2>1. UNCHANGED <<tm, loop, events, rx, received, ticks>>
    BY <1>10 DEF vars, loopVars, rxVars
  <2>. QED
    BY <1>c, <1>d, <2>1 DEF Account
<1>. QED
  BY <1>1, <1>2, <1>3, <1>4, <1>5, <1>6, <1>7, <1>9, <1>10 DEF Next, Loop, Rx, Terminating

\* A packet the simulator may send now: only the receiver, with a datagram to
\* answer, sends reports, and a completion at the end of a command it has applied.
Sendable(p) ==
  /\ p \in PacketType
  /\ p.apid = APID_VERIFICATION => received # << >>
  /\ p.type = "COMPLETED" => rx = "complete" /\ p.apid = APID_VERIFICATION

\* A step of the simulator sends nothing, or one packet.
LEMMA OnePacket ==
  ASSUME TypeOK, [Next]_vars
  PROVE  tm' = tm \/ \E p \in PacketType : Sendable(p) /\ tm' = Append(tm, p)
<1>1. ASSUME NEW report \in {"ACCEPTED", "REJECTED", "COMPLETED"}, NEW next,
             RxSend(report, next), received # << >>,
             report = "COMPLETED" => rx = "complete"
      PROVE  tm' = tm \/ \E p \in PacketType : Sendable(p) /\ tm' = Append(tm, p)
  <2>1. AckPacket(report) \in PacketType
    BY <1>1, AckPacketType
  <2>2. Sendable(AckPacket(report))
    BY <1>1, <2>1 DEF Sendable, AckPacket, Packet
  <2>. QED
    BY <1>1, <2>1, <2>2 DEF RxSend
<1>2. CASE LoopSendHk
  <2>1. Sendable(HkPacket) /\ HkPacket \in PacketType
    BY LoopPacketType DEF Sendable, HkPacket, Packet, APID_HK, APID_VERIFICATION
  <2>. QED
    BY <1>2, <2>1 DEF LoopSendHk, LoopSend
<1>3. CASE LoopSendEvent
  <2>1. events # << >> /\ EventPacket(Head(events)) \in PacketType
    BY <1>3, LoopPacketType DEF LoopSendEvent, TypeOK
  <2>2. Head(events).id \in EventId
    <3>1. Head(events) \in EventType
      BY <2>1, HeadTailProperties DEF TypeOK
    <3>. QED
      BY <3>1 DEF EventType
  <2>3. Sendable(EventPacket(Head(events)))
    BY <2>1, <2>2 DEF Sendable, EventPacket, Packet, EventId, LimitEvent, MODE_CHANGE, MODE_SAFE,
                      BATTERY_UNDERVOLTAGE, OBC_OVERTEMP, RW_OVERSPEED, APID_EVENT,
                      APID_VERIFICATION
  <2>. QED
    BY <1>3, <2>1, <2>3 DEF LoopSendEvent, LoopSend
<1>4. CASE RxReject \/ RxAccept \/ RxComplete
  BY <1>4, <1>1 DEF RxReject, RxAccept, RxComplete, TypeOK
<1>5. CASE LoopStep \/ LoopSleep \/ LoopStop \/ LoopClose \/ LoopLeave
  BY <1>5 DEF LoopStep, LoopSleep, LoopStop, LoopClose, LoopLeave
<1>6. CASE RxBind \/ RxCheckStop \/ RxTimeout \/ RxRecvError \/ RxReceive \/ RxApply
  BY <1>6 DEF RxBind, RxCheckStop, RxTimeout, RxRecvError, RxReceive, RxApply
<1>7. CASE UNCHANGED vars
  BY <1>7 DEF vars
<1>. QED
  BY <1>2, <1>3, <1>4, <1>5, <1>6, <1>7 DEF Next, Loop, Rx, Terminating

\* What the simulator sends, TmLink's sender may send.
LEMMA SendIsSend ==
  ASSUME TypeOK, TypeOK', Account', StreamsContiguous',
         NEW p \in PacketType, tm' = Append(tm, p), UNCHANGED downVars
  PROVE  Tm!Send
<1>1. /\ tm \in Seq(PacketType) /\ Len(tm) \in Nat /\ Len(tm') = Len(tm) + 1
      /\ tm'[Len(tm')] = p /\ \A i \in 1 .. Len(tm) : tm'[i] = tm[i]
  BY AppendProperties DEF TypeOK
<1>2. Len(tm) < 6 * MaxTicks + 2 * MaxDatagrams
  <2>1. LoopOwes' >= 0 /\ RxOwes' >= 0 /\ LoopOwes' \in Nat /\ RxOwes' \in Nat
    BY DEF LoopOwes, RxOwes, TypeOK
  <2>2. ticks' \in 0 .. MaxTicks /\ Len(received') \in Nat /\ Len(received') <= MaxDatagrams
    BY DEF TypeOK
  <2>3. Len(tm') + LoopOwes' + RxOwes' <= 6 * ticks' + 2 * Len(received')
    BY DEF Account
  <2>4. MaxTicks \in Nat /\ MaxDatagrams \in Nat /\ ticks' \in Nat /\ ticks' <= MaxTicks
    BY <2>2, SimulatorAssumption
  <2>5. Len(tm) + 1 + LoopOwes' + RxOwes' <= 6 * ticks' + 2 * Len(received')
    BY <1>1, <2>3
  <2>. QED
    BY <1>1, <2>1, <2>2, <2>4, <2>5, SumsBound
<1>3. Tm!InSequence(p)
  <2>. DEFINE since == {i \in 1 .. Len(tm) : tm[i].apid = p.apid /\ \A b \in {0} : b < i}
  <2>1. since = {i \in 1 .. Len(tm) : tm[i].apid = p.apid}
    BY <1>1
  <2>2. CASE /\ \A k \in 1 .. Len(tm) : tm[k].apid # p.apid
             /\ p.seq = 0
    BY <2>1, <2>2 DEF Tm!InSequence
  <2>3. CASE \E k \in 1 .. Len(tm) :
               /\ tm[k].apid = p.apid
               /\ \A j \in k + 1 .. Len(tm) : tm[j].apid # p.apid
               /\ p.seq = (tm[k].seq + 1) % SeqCountModulo
    <3>1. PICK k \in since : /\ \A j \in k + 1 .. Len(tm) : tm[j].apid # p.apid
                             /\ p.seq = (tm[k].seq + 1) % SeqCountModulo
      BY <2>1, <2>3
    <3>2. \A j \in since : j <= k
      BY <1>1, <2>1, <3>1
    <3>. QED
      BY <3>1, <3>2 DEF Tm!InSequence
  <2>4. \/ /\ \A k \in 1 .. Len(tm) : tm'[k].apid # p.apid
           /\ p.seq = 0
        \/ \E k \in 1 .. Len(tm) :
             /\ tm'[k].apid = p.apid
             /\ \A j \in k + 1 .. Len(tm) : tm'[j].apid # p.apid
             /\ p.seq = (tm'[k].seq + 1) % SeqCountModulo
    BY <1>1 DEF StreamsContiguous, IsPrevious
  <2>. QED
    BY <1>1, <2>2, <2>3, <2>4
<1>4. 1 .. Len(tm') = (1 .. Len(tm)) \cup {Len(tm) + 1}
  BY <1>1
<1>. QED
  BY <1>2, <1>3, <1>4 DEF Tm!Send, downVars

LEMMA LinkStepIsTmStep ==
  ASSUME TypeOK, TypeOK', Account', StreamsContiguous', [LinkNext]_linkVars
  PROVE  [Tm!Next]_(Tm!vars)
<1>1. CASE ReceiveDown
  <2>1. Tm!Deliver
    BY <1>1 DEF ReceiveDown
  <2>. QED
    BY <2>1 DEF Tm!Next
<1>2. CASE Simulate
  <2>1. CASE tm' = tm
    BY <1>2, <2>1 DEF Simulate, downVars, Tm!vars
  <2>2. CASE \E p \in PacketType : tm' = Append(tm, p)
    BY <1>2, <2>2, SendIsSend DEF Simulate, Tm!Next
  <2>. QED
    BY <1>2, <2>1, <2>2, OnePacket DEF Simulate
<1>3. CASE Release \/ WindowEnds \/ ReceiveUp \/ UNCHANGED linkVars
  BY <1>3 DEF Release, WindowEnds, ReceiveUp, RxReceive, downVars, linkVars, vars, Tm!vars
<1>. QED
  BY <1>1, <1>2, <1>3 DEF LinkNext

LEMMA LinkSimulator == LinkSpec => [](TypeOK /\ StreamsContiguous /\ Account)
<1>1. Spec => []Account
  BY InitAccount, AccountStep, TypeCorrect, PTL DEF Spec
<1>. QED
  BY <1>1, SimulatorInTheLoop, TypeCorrect, CountsContiguous, PTL

\* The simulator with its two threads, seen from the ground, is a sender as
\* TmLink describes it: what is proved of TmLink is true of this downlink.
THEOREM LinkImplementsTmLink == LinkSpec => TmLinkSpec
<1>1. LinkInit => Tm!Init
  BY DEF LinkInit, Init, Tm!Init
<1>. QED
  BY <1>1, LinkStepIsTmStep, LinkSimulator, PTL DEF LinkSpec, TmLinkSpec, Tm!Spec

-----------------------------------------------------------------------------
(* The ground side: types.                                                 *)

VerifierType(last) ==
  [accepted  : {"none", "pending", "ok", "timeout"},
   completed : {"none", "pending", "ok", "timeout"}, by : 0 .. last]

LEMMA LinkInitTypeOK == LinkInit => LinkTypeOK
<1>. SUFFICES ASSUME LinkInit PROVE LinkTypeOK
  OBVIOUS
<1>1. Tm!TypeOK
  BY CommandLinkAssumption, SimulatorAssumption DEF LinkInit, Init, Tm!TypeOK
<1>2. verifier \in [1 .. MaxCommands -> VerifierType(Len(log))]
  BY DEF LinkInit, VerifierType, NoVerifier
<1>. QED
  BY <1>1, <1>2, CommandLinkAssumption DEF LinkInit, Init, LinkTypeOK, VerifierType

\* What the simulator does leaves the packets sent before in place.
LEMMA SentStays ==
  ASSUME TypeOK, TypeOK', [Next]_vars
  PROVE  /\ Len(tm) \in Nat /\ Len(tm') \in Nat /\ Len(tm) <= Len(tm')
         /\ \A i \in 1 .. Len(tm) : tm'[i] = tm[i]
<1>1. CASE tm' = tm
  BY <1>1 DEF TypeOK
<1>2. CASE \E p \in PacketType : Sendable(p) /\ tm' = Append(tm, p)
  BY <1>2, AppendProperties DEF TypeOK
<1>. QED
  BY <1>1, <1>2, OnePacket

\* A downlink that only grew keeps TmLink's types.
LEMMA TmTypeGrows ==
  ASSUME TypeOK, TypeOK', [Next]_vars, Tm!TypeOK, UNCHANGED downVars
  PROVE  Tm!TypeOK'
<1>1. /\ Len(tm) \in Nat /\ Len(tm') \in Nat /\ Len(tm) <= Len(tm')
      /\ 1 .. Len(tm) \subseteq 1 .. Len(tm')
  BY SentStays
<1>2. seqCounts' = seqCounts /\ log' = log
  BY DEF downVars
<1>3. tm' \in Seq(PacketType)
  BY DEF TypeOK
<1>. QED
  BY <1>1, <1>2, <1>3 DEF Tm!TypeOK

\* A packet seen: one more entry in the log, of a packet that was sent.
LEMMA DeliverLogs ==
  ASSUME Tm!TypeOK, Tm!Deliver, UNCHANGED vars
  PROVE  /\ Tm!TypeOK'
         /\ Len(log) \in Nat /\ Len(log') = Len(log) + 1
         /\ \A k \in 1 .. Len(log) : log'[k] = log[k]
         /\ log'[Len(log')].packet \in 1 .. Len(tm)
<1>1. PICK i \in 1 .. Len(tm) : Tm!Process(i)
  BY DEF Tm!Deliver
<1>2. tm' = tm /\ tm \in Seq(PacketType)
  BY DEF vars, Tm!TypeOK
<1>3. /\ log \in Seq([packet : Nat, jump : BOOLEAN])
      /\ \A k \in 1 .. Len(log) : log[k].packet \in 1 .. Len(tm)
      /\ seqCounts \in [Apid -> 0 .. SeqCountModulo - 1]
  BY DEF Tm!TypeOK
<1>4. tm[i].apid \in Apid /\ tm[i].seq \in 0 .. SeqCountModulo - 1
  <2>1. tm[i] \in PacketType
    BY <1>2
  <2>. QED
    BY <2>1 DEF PacketType, Apid
<1>. DEFINE entry == [packet |-> i, jump |-> Tm!Jump(tm[i].seq, seqCounts[tm[i].apid])]
<1>5. log' = Append(log, entry) /\ seqCounts' = [seqCounts EXCEPT ![tm[i].apid] = tm[i].seq]
  BY <1>1 DEF Tm!Process
<1>6. entry \in [packet : Nat, jump : BOOLEAN] /\ entry.packet = i
  BY DEF Tm!Jump
<1>. HIDE DEF entry
<1>7. /\ log' \in Seq([packet : Nat, jump : BOOLEAN])
      /\ Len(log) \in Nat /\ Len(log') = Len(log) + 1
      /\ \A k \in 1 .. Len(log) : log'[k] = log[k]
      /\ log'[Len(log')] = entry
  BY <1>3, <1>5, <1>6, AppendProperties
<1>8. \A k \in 1 .. Len(log') : log'[k].packet \in 1 .. Len(tm)
  <2>1. SUFFICES ASSUME NEW k \in 1 .. Len(log') PROVE log'[k].packet \in 1 .. Len(tm)
    OBVIOUS
  <2>2. CASE k \in 1 .. Len(log)
    BY <1>3, <1>7, <2>2
  <2>3. CASE k = Len(log')
    BY <1>6, <1>7, <2>3
  <2>. QED
    BY <1>7, <2>2, <2>3
<1>9. seqCounts' \in [Apid -> 0 .. SeqCountModulo - 1]
  BY <1>3, <1>4, <1>5
<1>. QED
  BY <1>2, <1>6, <1>7, <1>8, <1>9 DEF Tm!TypeOK

LEMMA SeqWiden ==
  ASSUME NEW S, NEW T, S \subseteq T, NEW s \in Seq(S)
  PROVE  s \in Seq(T)
OBVIOUS

\* What a step of the simulator adds to the history.
LEMMA BoardStep ==
  ASSUME TypeOK, TypeOK', LinkTypeOK, Simulate
  PROVE  /\ handedOver' \subseteq handedOver \cup {Handling}
         /\ handedOver' # handedOver => Handling \in 1 .. Len(released)
         /\ \/ tm' = tm /\ about' = about
            \/ \E p \in PacketType, n \in 0 .. Len(released) :
                 /\ Sendable(p) /\ (p.apid = APID_VERIFICATION => n = Handling)
                 /\ tm' = Append(tm, p) /\ about' = Append(about, n)
<1>1. /\ [Next]_vars /\ Len(received) \in Nat
      /\ handled \in Seq(1 .. Len(released)) /\ Len(handled) = Len(received)
  BY DEF Simulate, LinkTypeOK, TypeOK
<1>2. received # << >> => Handling \in 1 .. Len(released)
  BY <1>1 DEF Handling, TypeOK
<1>3. rx = "apply" => received # << >>
  BY DEF TypeOK
<1>4. /\ handedOver' \subseteq handedOver \cup {Handling}
      /\ handedOver' # handedOver => Handling \in 1 .. Len(released)
  BY <1>2, <1>3 DEF Simulate
<1>5. ASSUME tm' # tm
      PROVE  \E p \in PacketType, n \in 0 .. Len(released) :
               /\ Sendable(p) /\ (p.apid = APID_VERIFICATION => n = Handling)
               /\ tm' = Append(tm, p) /\ about' = Append(about, n)
  <2>1. PICK p \in PacketType : Sendable(p) /\ tm' = Append(tm, p)
    BY <1>1, <1>5, OnePacket
  <2>2. tm'[Len(tm')] = p
    BY <2>1, AppendProperties DEF TypeOK
  <2>. DEFINE n == IF p.apid = APID_VERIFICATION THEN Handling ELSE 0
  <2>3. about' = Append(about, n)
    BY <1>5, <2>2 DEF Simulate
  <2>4. n \in 0 .. Len(released)
    <3>1. Len(released) \in Nat
      BY DEF LinkTypeOK
    <3>. QED
      BY <1>2, <2>1, <3>1 DEF Sendable
  <2>. QED
    BY <2>1, <2>3, <2>4
<1>. QED
  BY <1>4, <1>5 DEF Simulate

LEMMA LinkTypeStep ==
  ASSUME TypeOK, TypeOK', LinkTypeOK, [LinkNext]_linkVars
  PROVE  LinkTypeOK'
<1>1. /\ released \in Seq(Datagrams) /\ Len(released) \in Nat /\ Len(released) <= MaxCommands
      /\ verifier \in [1 .. MaxCommands -> VerifierType(Len(log))]
      /\ overlapped \in SUBSET ((1 .. Len(released)) \X (1 .. Len(released)))
      /\ handled \in Seq(1 .. Len(released)) /\ Len(handled) = Len(received)
      /\ handedOver \in SUBSET (1 .. Len(released))
      /\ about \in Seq(0 .. Len(released)) /\ Len(about) = Len(tm)
      /\ Tm!TypeOK /\ Len(log) \in Nat
  BY DEF LinkTypeOK, VerifierType, Tm!TypeOK
<1>2. CASE Release
  <2>. DEFINE n == Len(released) + 1
  <2>1. /\ UNCHANGED <<vars, boardVars, downVars>> /\ Len(released) < MaxCommands
        /\ verifier' = [verifier EXCEPT ![n] = Pending]
        /\ overlapped' = overlapped \cup {<<m, n>> : m \in {l \in 1 .. n - 1 : Open(l)}}
    BY <1>2 DEF Release
  <2>2. PICK c \in Commands : released' = Append(released, Postprocess(c, Len(released)))
    BY <1>1, <1>2 DEF Release
  <2>3. Postprocess(c, Len(released)) \in Datagrams
    <3>1. Len(released) % SeqCountModulo \in 0 .. SeqCountModulo - 1
      BY <1>1, SimulatorAssumption
    <3>2. Postprocess(c, Len(released) % SeqCountModulo) \in Datagrams
      BY <3>1, CommandLinkAssumption
    <3>3. (Len(released) % SeqCountModulo) % SeqCountModulo = Len(released) % SeqCountModulo
      BY <3>1, SimulatorAssumption
    <3>. QED
      BY <3>2, <3>3 DEF Postprocess
  <2>4. released' \in Seq(Datagrams) /\ Len(released') = n
    BY <1>1, <2>2, <2>3, AppendProperties
  <2>5. Pending \in VerifierType(Len(log))
    BY <1>1 DEF Pending, VerifierType
  <2>6. verifier' \in [1 .. MaxCommands -> VerifierType(Len(log'))]
    BY <1>1, <2>1, <2>5 DEF downVars
  <2>7. overlapped' \in SUBSET ((1 .. Len(released')) \X (1 .. Len(released')))
    BY <1>1, <2>1, <2>4
  <2>8. Tm!TypeOK'
    BY <1>1, <2>1, TmTypeGrows
  <2>9. /\ handled' \in Seq(1 .. Len(released')) /\ Len(handled') = Len(received')
        /\ handedOver' \in SUBSET (1 .. Len(released'))
        /\ about' \in Seq(0 .. Len(released')) /\ Len(about') = Len(tm')
    <3>1. /\ 1 .. Len(released) \subseteq 1 .. Len(released')
          /\ 0 .. Len(released) \subseteq 0 .. Len(released')
      BY <1>1, <2>4
    <3>2. UNCHANGED <<handled, handedOver, about, received, tm>>
      BY <2>1 DEF boardVars, vars, rxVars
    <3>. QED
      BY <1>1, <3>1, <3>2, SeqWiden
  <2>. QED
    BY <1>1, <2>1, <2>4, <2>6, <2>7, <2>8, <2>9, CommandLinkAssumption DEF LinkTypeOK, VerifierType
<1>3. CASE WindowEnds
  <2>1. UNCHANGED <<vars, released, overlapped, boardVars, downVars>>
    BY <1>3 DEF WindowEnds
  <2>2. PICK n \in 1 .. Len(released) : verifier' = [verifier EXCEPT ![n] = TimedOut(@)]
    BY <1>3 DEF WindowEnds
  <2>3. verifier[n] \in VerifierType(Len(log))
    BY <1>1, CommandLinkAssumption
  <2>4. TimedOut(verifier[n]) \in VerifierType(Len(log))
    BY <2>3 DEF TimedOut, VerifierType
  <2>5. verifier' \in [1 .. MaxCommands -> VerifierType(Len(log'))]
    BY <1>1, <2>1, <2>2, <2>4 DEF downVars
  <2>6. Tm!TypeOK'
    BY <1>1, <2>1, TmTypeGrows
  <2>. QED
    BY <1>1, <2>1, <2>5, <2>6 DEF LinkTypeOK, VerifierType, boardVars, vars, rxVars
<1>4. CASE ReceiveUp
  <2>1. UNCHANGED <<groundVars, handedOver, about, downVars>> /\ [Next]_vars /\ tm' = tm
    BY <1>4, LinkStepIsStep DEF ReceiveUp, RxReceive
  <2>2. PICK n \in 1 .. Len(released) :
          received' = Append(received, released[n]) /\ handled' = Append(handled, n)
    BY <1>4 DEF ReceiveUp
  <2>3. /\ Len(received') = Len(received) + 1 /\ Len(handled') = Len(handled) + 1
        /\ handled' \in Seq(1 .. Len(released))
    <3>1. received \in Seq(Datagrams)
      BY DEF TypeOK
    <3>2. released[n] \in Datagrams
      BY <1>1
    <3>. QED
      BY <1>1, <2>2, <3>1, <3>2, AppendProperties
  <2>4. Tm!TypeOK'
    BY <1>1, <2>1, TmTypeGrows
  <2>. QED
    BY <1>1, <2>1, <2>3, <2>4 DEF LinkTypeOK, groundVars, downVars, VerifierType
<1>5. CASE Simulate
  <2>1. /\ UNCHANGED <<groundVars, handled, downVars>> /\ [Next]_vars /\ received' = received
    BY <1>5 DEF Simulate
  <2>2. Tm!TypeOK'
    BY <1>1, <2>1, TmTypeGrows
  <2>3. handedOver' \in SUBSET (1 .. Len(released))
    BY <1>1, <1>5, BoardStep
  <2>4. about' \in Seq(0 .. Len(released)) /\ Len(about') = Len(tm')
    <3>1. CASE tm' = tm /\ about' = about
      BY <1>1, <3>1
    <3>2. CASE \E p \in PacketType, n \in 0 .. Len(released) :
                 tm' = Append(tm, p) /\ about' = Append(about, n)
      <4>1. tm \in Seq(PacketType)
        BY DEF TypeOK
      <4>. QED
        BY <1>1, <3>2, <4>1, AppendProperties
    <3>. QED
      BY <1>5, <3>1, <3>2, BoardStep
  <2>. QED
    BY <1>1, <2>1, <2>2, <2>3, <2>4 DEF LinkTypeOK, groundVars, downVars, VerifierType
<1>6. CASE ReceiveDown
  <2>1. /\ UNCHANGED <<vars, released, overlapped, boardVars>> /\ Tm!Deliver
        /\ verifier' = [n \in 1 .. MaxCommands |->
                          Matched(verifier[n], tm[log'[Len(log')].packet].type, Len(log'))]
    BY <1>6 DEF ReceiveDown
  <2>2. Tm!TypeOK' /\ Len(log') = Len(log) + 1
    BY <1>1, <2>1, DeliverLogs
  <2>3. ASSUME NEW n \in 1 .. MaxCommands, NEW type
        PROVE  Matched(verifier[n], type, Len(log')) \in VerifierType(Len(log'))
    <3>1. verifier[n] \in VerifierType(Len(log))
      BY <1>1
    <3>. QED
      BY <1>1, <2>2, <3>1 DEF Matched, VerifierType
  <2>4. verifier' \in [1 .. MaxCommands -> VerifierType(Len(log'))]
    BY <2>1, <2>3
  <2>. QED
    BY <1>1, <2>1, <2>2, <2>4 DEF LinkTypeOK, VerifierType, boardVars, vars, rxVars
<1>7. CASE UNCHANGED linkVars
  <2>1. Tm!TypeOK'
    BY <1>1, <1>7, TmTypeGrows DEF linkVars
  <2>. QED
    BY <1>1, <1>7, <2>1
       DEF LinkTypeOK, linkVars, groundVars, boardVars, downVars, VerifierType, vars, rxVars
<1>. QED
  BY <1>2, <1>3, <1>4, <1>5, <1>6, <1>7 DEF LinkNext

\* The ground side, the preprocessor and the history of the link stay in their
\* types.
THEOREM LinkTypeCorrect == LinkSpec => []LinkTypeOK
BY LinkInitTypeOK, LinkTypeStep, LinkSimulator, PTL DEF LinkSpec

-----------------------------------------------------------------------------
(* What a verdict is worth. Two invariants strengthen the property: a      *)
(* completion report is about a command handed over; and what the verdict  *)
(* on a command released later, with no overlap of windows, says of the    *)
(* earlier one.                                                            *)

HandoverInv ==
  /\ rx = "complete" => Handling \in handedOver
  /\ \A k \in 1 .. Len(tm) : tm[k].type = "COMPLETED" => about[k] \in handedOver

LEMMA InitHandover == LinkInit => HandoverInv
BY DEF LinkInit, Init, HandoverInv

\* The receiver reaches a command's completion by applying it.
LEMMA CompleteAfterApply ==
  ASSUME [Next]_vars, rx' = "complete"
  PROVE  rx \in {"apply", "complete"} /\ received' = received
<1>1. CASE Loop \/ LoopLeave
  BY <1>1 DEF Loop, LoopStep, LoopSendHk, LoopSendEvent, LoopSleep, LoopStop, LoopClose, LoopLeave,
              rxVars
<1>2. CASE Rx
  BY <1>2 DEF Rx, RxBind, RxCheckStop, RxTimeout, RxRecvError, RxReceive, RxApply, RxReject,
              RxAccept, RxComplete, RxSend
<1>3. CASE UNCHANGED vars
  BY <1>3 DEF vars, rxVars
<1>. QED
  BY <1>1, <1>2, <1>3 DEF Next, Terminating

LEMMA HandoverStep ==
  ASSUME TypeOK, TypeOK', LinkTypeOK, HandoverInv, [LinkNext]_linkVars
  PROVE  HandoverInv'
<1>1. CASE Release \/ WindowEnds \/ ReceiveDown \/ UNCHANGED linkVars
  <2>1. UNCHANGED <<vars, boardVars>>
    BY <1>1 DEF Release, WindowEnds, ReceiveDown, linkVars
  <2>. QED
    BY <2>1 DEF HandoverInv, Handling, vars, rxVars, boardVars
<1>2. CASE ReceiveUp
  <2>1. /\ UNCHANGED <<handedOver, about, tm>>
        /\ rx' \in {"accept", "reject", "check"}
    BY <1>2 DEF ReceiveUp, RxReceive
  <2>. QED
    BY <2>1 DEF HandoverInv
<1>3. CASE Simulate
  <2>1. /\ [Next]_vars /\ handled' = handled
        /\ handedOver \subseteq handedOver'
        /\ rx = "apply" /\ rx' = "complete" => Handling \in handedOver'
    BY <1>3 DEF Simulate
  <2>2. rx' = "complete" => Handling' \in handedOver'
    BY <2>1, CompleteAfterApply DEF HandoverInv, Handling
  <2>3. \A k \in 1 .. Len(tm') : tm'[k].type = "COMPLETED" => about'[k] \in handedOver'
    <3>1. CASE tm' = tm /\ about' = about
      BY <2>1, <3>1 DEF HandoverInv
    <3>2. CASE \E p \in PacketType, n \in 0 .. Len(released) :
                 /\ Sendable(p) /\ (p.apid = APID_VERIFICATION => n = Handling)
                 /\ tm' = Append(tm, p) /\ about' = Append(about, n)
      <4>1. PICK p \in PacketType, n \in 0 .. Len(released) :
              /\ Sendable(p) /\ (p.apid = APID_VERIFICATION => n = Handling)
              /\ tm' = Append(tm, p) /\ about' = Append(about, n)
        BY <3>2
      <4>2. /\ Len(tm) \in Nat /\ Len(tm') = Len(tm) + 1
            /\ tm'[Len(tm) + 1] = p /\ \A k \in 1 .. Len(tm) : tm'[k] = tm[k]
        BY <4>1, AppendProperties DEF TypeOK
      <4>3. about'[Len(tm) + 1] = n /\ \A k \in 1 .. Len(tm) : about'[k] = about[k]
        BY <4>1, AppendProperties DEF LinkTypeOK
      <4>4. p.type = "COMPLETED" => n \in handedOver'
        BY <2>1, <4>1 DEF Sendable, HandoverInv
      <4>. QED
        BY <2>1, <4>2, <4>3, <4>4 DEF HandoverInv
    <3>. QED
      BY <1>3, <3>1, <3>2, BoardStep
  <2>. QED
    BY <2>2, <2>3 DEF HandoverInv
<1>. QED
  BY <1>1, <1>2, <1>3 DEF LinkNext

-----------------------------------------------------------------------------
ReportFor(n) == tm[log[verifier[n].by].packet]

Decided(n) == verifier[n].completed \in {"ok", "timeout"}

\* The windows of command n were opened.
Started(n) == verifier[n].completed # "none"

Backed(n) == Verified(n) => verifier[n].by \in 1 .. Len(log) /\ ReportFor(n).type = "COMPLETED"

\* Command m was released before n, and decided by then.
Apart(m, n) ==
  /\ Decided(m)
  /\ Verified(m) => AboutFor(m) # n
  /\ Verified(m) /\ Verified(n) => verifier[m].by < verifier[n].by

VerdictInv ==
  \A n \in 1 .. Len(released) :
    /\ Started(n) /\ Backed(n)
    /\ \A m \in 1 .. n - 1 : <<m, n>> \notin overlapped => Apart(m, n)

\* What a step does to the verdict on command n: once decided it stays, with the
\* report that made it; a new verdict is due to the report just seen.
Settles(n) ==
  /\ Started(n) => Started(n)'
  /\ Decided(n) => verifier'[n].completed = verifier[n].completed
  /\ Verified(n) => /\ verifier'[n].by = verifier[n].by
                    /\ ReportFor(n)' = ReportFor(n) /\ AboutFor(n)' = AboutFor(n)
  /\ Verified(n)' /\ ~Verified(n) =>
       /\ verifier'[n].by = Len(log') /\ Len(log') = Len(log) + 1
       /\ ReportFor(n)'.type = "COMPLETED"

LEMMA VerdictKept ==
  ASSUME VerdictInv, UNCHANGED <<released, overlapped>>,
         Len(released) \in Nat, Len(log) \in Nat, Len(log') \in Nat, Len(log) <= Len(log'),
         \A n \in 1 .. Len(released) : Settles(n)
  PROVE  VerdictInv'
<1>1. ASSUME NEW n \in 1 .. Len(released)
      PROVE  Started(n)' /\ Backed(n)'
  <2>1. Started(n) /\ Backed(n) /\ Settles(n)
    BY DEF VerdictInv
  <2>2. CASE Verified(n)
    BY <2>1, <2>2 DEF Backed, Settles
  <2>3. CASE ~Verified(n)
    BY <2>1, <2>3 DEF Backed, Settles
  <2>. QED
    BY <2>2, <2>3
<1>2. ASSUME NEW n \in 1 .. Len(released), NEW m \in 1 .. n - 1, <<m, n>> \notin overlapped
      PROVE  Apart(m, n)'
  <2>1. Apart(m, n) /\ Settles(n) /\ m \in 1 .. Len(released) /\ Settles(m) /\ Backed(m)
    BY <1>2 DEF VerdictInv
  <2>2. Decided(m)' /\ (Verified(m)' <=> Verified(m))
    BY <2>1 DEF Apart, Settles, Decided, Verified
  <2>3. Verified(m)' => AboutFor(m)' # n
    BY <2>1, <2>2 DEF Apart, Settles
  <2>4. ASSUME Verified(m)', Verified(n)' PROVE verifier'[m].by < verifier'[n].by
    <3>1. verifier'[m].by = verifier[m].by /\ verifier[m].by \in 1 .. Len(log)
      BY <2>1, <2>2, <2>4 DEF Settles, Backed
    <3>2. CASE Verified(n)
      BY <2>1, <2>2, <2>4, <3>1, <3>2 DEF Apart, Settles
    <3>3. CASE ~Verified(n)
      <4>1. verifier'[n].by = Len(log') /\ Len(log') = Len(log) + 1
        BY <2>1, <2>4, <3>3 DEF Settles
      <4>. QED
        BY <3>1, <4>1
    <3>. QED
      BY <3>2, <3>3
  <2>. QED
    BY <2>2, <2>3, <2>4 DEF Apart
<1>. QED
  BY <1>1, <1>2 DEF VerdictInv

\* A step that leaves the verifiers and the log alone.
LEMMA QuietSettles ==
  ASSUME TypeOK, TypeOK', LinkTypeOK, VerdictInv, [Next]_vars,
         UNCHANGED <<released, verifier, downVars>>,
         \A k \in 1 .. Len(tm) : about'[k] = about[k],
         NEW n \in 1 .. Len(released)
  PROVE  Settles(n)
<1>1. verifier' = verifier /\ log' = log
  BY DEF downVars
<1>2. ASSUME Verified(n) PROVE ReportFor(n)' = ReportFor(n) /\ AboutFor(n)' = AboutFor(n)
  <2>1. verifier[n].by \in 1 .. Len(log)
    BY <1>2 DEF VerdictInv, Backed
  <2>2. log[verifier[n].by].packet \in 1 .. Len(tm)
    BY <2>1 DEF LinkTypeOK, Tm!TypeOK
  <2>. QED
    BY <1>1, <2>2, SentStays DEF ReportFor, AboutFor
<1>3. Verified(n)' <=> Verified(n)
  BY <1>1 DEF Verified
<1>4. Started(n)' <=> Started(n)
  BY <1>1 DEF Started
<1>. QED
  BY <1>1, <1>2, <1>3, <1>4 DEF Settles

\* What made a command complete is about a command handed over.
LEMMA ReportsHandedOver ==
  ASSUME LinkTypeOK, HandoverInv, VerdictInv, NEW n \in 1 .. Len(released), Verified(n)
  PROVE  AboutFor(n) \in handedOver
<1>1. verifier[n].by \in 1 .. Len(log) /\ ReportFor(n).type = "COMPLETED"
  BY DEF VerdictInv, Backed
<1>2. log[verifier[n].by].packet \in 1 .. Len(tm)
  BY <1>1 DEF LinkTypeOK, Tm!TypeOK
<1>. QED
  BY <1>1, <1>2 DEF ReportFor, AboutFor, HandoverInv

LEMMA VerdictStep ==
  ASSUME TypeOK, TypeOK', LinkTypeOK, LinkTypeOK', HandoverInv, VerdictInv, [LinkNext]_linkVars
  PROVE  VerdictInv'
<1>1. /\ Len(released) \in Nat /\ Len(released) <= MaxCommands /\ MaxCommands \in Nat
      /\ Len(log) \in Nat /\ Len(log') \in Nat
      /\ verifier \in [1 .. MaxCommands -> VerifierType(Len(log))]
  <2>1. Len(log) \in Nat /\ Len(log') \in Nat
    BY DEF LinkTypeOK, Tm!TypeOK
  <2>. QED
    BY <2>1, CommandLinkAssumption DEF LinkTypeOK, VerifierType
<1>2. CASE Release
  <2>. PICK n \in Nat : n = Len(released) + 1
    BY <1>1
  <2>1. /\ Len(released) < MaxCommands
        /\ verifier' = [verifier EXCEPT ![n] = Pending]
        /\ overlapped' = overlapped \cup {<<m, n>> : m \in {l \in 1 .. n - 1 : Open(l)}}
        /\ tm' = tm /\ log' = log /\ about' = about /\ Len(released') = n
    BY <1>2, AppendProperties DEF Release, vars, downVars, boardVars, LinkTypeOK
  <2>2. n \in 1 .. MaxCommands /\ verifier'[n] = Pending /\ ~Verified(n)' /\ Started(n)'
    BY <1>1, <2>1 DEF Verified, Started, Pending
  <2>3. ASSUME NEW k \in 1 .. Len(released)
        PROVE  /\ verifier'[k] = verifier[k]
               /\ Verified(k)' = Verified(k) /\ ReportFor(k)' = ReportFor(k)
               /\ AboutFor(k)' = AboutFor(k)
               /\ Decided(k)' = Decided(k) /\ Started(k)' = Started(k)
    <3>1. verifier'[k] = verifier[k]
      BY <1>1, <2>1
    <3>. QED
      BY <2>1, <3>1 DEF Verified, ReportFor, AboutFor, Decided, Started
  <2>4. ASSUME NEW k \in 1 .. Len(released) PROVE Started(k)' /\ Backed(k)'
    BY <2>1, <2>3 DEF VerdictInv, Backed
  <2>5. ASSUME NEW k \in 1 .. Len(released), NEW m \in 1 .. k - 1, <<m, k>> \notin overlapped'
        PROVE  Apart(m, k)'
    <3>1. m \in 1 .. Len(released) /\ <<m, k>> \notin overlapped
      BY <2>1, <2>5
    <3>. QED
      BY <2>3, <3>1 DEF VerdictInv, Apart
  <2>6. ASSUME NEW m \in 1 .. Len(released), <<m, n>> \notin overlapped'
        PROVE  Apart(m, n)'
    <3>1. ~Open(m)
      BY <2>1, <2>6
    <3>2. verifier[m] \in VerifierType(Len(log)) /\ Started(m)
      BY <1>1 DEF VerdictInv
    <3>3. Decided(m)
      BY <3>1, <3>2 DEF Open, Decided, Started, VerifierType
    <3>4. Verified(m) => AboutFor(m) # n
      <4>1. ASSUME Verified(m) PROVE AboutFor(m) \in handedOver
        BY <4>1, ReportsHandedOver
      <4>. QED
        BY <1>1, <4>1 DEF LinkTypeOK
    <3>. QED
      BY <2>2, <2>3, <3>3, <3>4 DEF Apart
  <2>7. ASSUME NEW k \in 1 .. Len(released')
        PROVE  /\ Started(k)' /\ Backed(k)'
               /\ \A m \in 1 .. k - 1 : <<m, k>> \notin overlapped' => Apart(m, k)'
    <3>1. CASE k \in 1 .. Len(released)
      BY <2>4, <2>5, <3>1
    <3>2. CASE k = n
      <4>1. 1 .. k - 1 = 1 .. Len(released)
        BY <1>1, <3>2
      <4>2. Started(k)' /\ Backed(k)'
        BY <2>2, <3>2 DEF Backed
      <4>. QED
        BY <2>6, <3>2, <4>1, <4>2
    <3>. QED
      BY <1>1, <2>1, <3>1, <3>2
  <2>. QED
    BY <2>7 DEF VerdictInv
<1>3. CASE WindowEnds
  <2>1. PICK n \in 1 .. Len(released) : verifier' = [verifier EXCEPT ![n] = TimedOut(@)]
    BY <1>3 DEF WindowEnds
  <2>2. /\ released' = released /\ overlapped' = overlapped
        /\ tm' = tm /\ log' = log /\ about' = about
    BY <1>3 DEF WindowEnds, vars, downVars, boardVars
  <2>3. ASSUME NEW k \in 1 .. Len(released) PROVE Settles(k)
    <3>1. verifier'[k] = verifier[k] \/ verifier'[k] = TimedOut(verifier[k])
      BY <1>1, <2>1
    <3>2. verifier'[k].by = verifier[k].by
      BY <3>1 DEF TimedOut
    <3>3. Decided(k) => verifier'[k].completed = verifier[k].completed
      BY <3>1 DEF TimedOut, Decided
    <3>4. Verified(k)' => Verified(k)
      BY <3>1 DEF TimedOut, Verified
    <3>5. Started(k) => Started(k)'
      BY <3>1 DEF TimedOut, Started
    <3>. QED
      BY <2>2, <3>2, <3>3, <3>4, <3>5 DEF Settles, ReportFor, AboutFor
  <2>. QED
    BY <1>1, <2>2, <2>3, VerdictKept
<1>4. CASE ReceiveUp \/ Simulate \/ UNCHANGED linkVars
  <2>1. UNCHANGED <<released, overlapped, verifier, downVars>> /\ [Next]_vars /\ log' = log
    BY <1>4, LinkStepIsStep DEF ReceiveUp, Simulate, linkVars, groundVars, downVars
  <2>2. \A k \in 1 .. Len(tm) : about'[k] = about[k]
    <3>1. about \in Seq(0 .. Len(released)) /\ Len(about) = Len(tm)
      BY DEF LinkTypeOK
    <3>2. about' = about \/ \E i \in 0 .. Len(released) : about' = Append(about, i)
      BY <1>4, BoardStep DEF ReceiveUp, linkVars, boardVars
    <3>. QED
      BY <3>1, <3>2, AppendProperties
  <2>3. \A n \in 1 .. Len(released) : Settles(n)
    BY <2>1, <2>2, QuietSettles
  <2>. QED
    BY <1>1, <2>1, <2>3, VerdictKept
<1>5. CASE ReceiveDown
  <2>. DEFINE type == tm[log'[Len(log')].packet].type
  <2>1. /\ UNCHANGED <<vars, released, overlapped, boardVars>> /\ Tm!Deliver
        /\ tm' = tm /\ about' = about
        /\ verifier' = [n \in 1 .. MaxCommands |-> Matched(verifier[n], type, Len(log'))]
    BY <1>5 DEF ReceiveDown, vars, boardVars
  <2>2. /\ Len(log') = Len(log) + 1
        /\ \A k \in 1 .. Len(log) : log'[k] = log[k]
    BY <2>1, DeliverLogs DEF LinkTypeOK
  <2>3. ASSUME NEW k \in 1 .. Len(released) PROVE Settles(k)
    <3>1. verifier'[k] = Matched(verifier[k], type, Len(log'))
      BY <1>1, <2>1
    <3>. HIDE DEF type
    <3>2. Decided(k) => verifier'[k].completed = verifier[k].completed
                        /\ verifier'[k].by = verifier[k].by
      BY <3>1 DEF Matched, Decided
    <3>3. ASSUME Verified(k) PROVE ReportFor(k)' = ReportFor(k) /\ AboutFor(k)' = AboutFor(k)
      <4>1. verifier[k].by \in 1 .. Len(log) /\ verifier'[k].by = verifier[k].by
        BY <3>2, <3>3 DEF VerdictInv, Backed, Decided, Verified
      <4>. QED
        BY <2>1, <2>2, <4>1 DEF ReportFor, AboutFor
    <3>4. ASSUME Verified(k)', ~Verified(k)
          PROVE  verifier'[k].by = Len(log') /\ type = "COMPLETED"
      BY <3>1, <3>4 DEF Matched, Verified
    <3>5. ASSUME Verified(k)', ~Verified(k) PROVE ReportFor(k)'.type = "COMPLETED"
      BY <2>1, <3>4, <3>5 DEF ReportFor, type
    <3>6. Verified(k) => Decided(k)
      BY DEF Verified, Decided
    <3>7. Started(k) => Started(k)'
      BY <3>1 DEF Matched, Started
    <3>. QED
      BY <2>2, <3>2, <3>3, <3>4, <3>5, <3>6, <3>7 DEF Settles
  <2>. QED
    BY <1>1, <2>1, <2>2, <2>3, VerdictKept
<1>. QED
  BY <1>2, <1>3, <1>4, <1>5 DEF LinkNext

LEMMA InitVerdict == LinkInit => VerdictInv
BY DEF LinkInit, VerdictInv

LEMMA InvariantsSuffice ==
  ASSUME TypeOK, LinkTypeOK, HandoverInv, VerdictInv
  PROVE  VerifiedMeansHandedOver
<1>. SUFFICES ASSUME NEW n \in 1 .. Len(released), Verified(n)
              PROVE  AboutFor(n) \in handedOver /\ (IsOwn(n) \/ Confusion(AboutFor(n), n))
  BY DEF VerifiedMeansHandedOver
<1>1. /\ Len(released) \in Nat /\ Len(log) \in Nat
      /\ handedOver \subseteq 1 .. Len(released)
  BY DEF LinkTypeOK, Tm!TypeOK
<1>2. AboutFor(n) \in handedOver
  BY ReportsHandedOver
<1>3. PICK m \in 1 .. Len(released) : m = AboutFor(n)
  BY <1>1, <1>2
<1>4. ASSUME m # n PROVE Confusion(m, n)
  <2>1. CASE <<m, n>> \in overlapped \/ <<n, m>> \in overlapped
    BY <2>1 DEF Confusion
  <2>2. CASE m < n /\ <<m, n>> \notin overlapped
    <3>1. Apart(m, n) /\ Backed(m)
      BY <1>1, <2>2 DEF VerdictInv
    <3>2. CASE verifier[m].completed = "timeout"
      BY <3>2 DEF Confusion
    <3>3. CASE Verified(m) /\ ~IsOwn(m)
      BY <3>3 DEF Confusion
    <3>4. CASE Verified(m) /\ IsOwn(m)
      <4>1. verifier[m].by \in 1 .. verifier[n].by - 1
        <5>1. verifier[n].by \in 1 .. Len(log)
          BY DEF VerdictInv, Backed
        <5>. QED
          BY <1>1, <3>1, <3>4, <5>1 DEF Apart, Backed
      <4>2. ReportFor(m).type = "COMPLETED" /\ AboutFor(m) = m
        BY <3>1, <3>4 DEF Backed, IsOwn
      <4>. QED
        BY <4>1, <4>2 DEF Confusion, ReportFor, AboutFor
    <3>. QED
      BY <3>1, <3>2, <3>3, <3>4 DEF Apart, Decided, Verified
  <2>3. CASE n < m /\ <<n, m>> \notin overlapped
    <3>1. Apart(n, m)
      BY <1>1, <2>3 DEF VerdictInv
    <3>. QED
      BY <1>3, <3>1 DEF Apart
  <2>. QED
    BY <1>1, <1>4, <2>1, <2>2, <2>3
<1>. QED
  BY <1>2, <1>3, <1>4 DEF IsOwn

\* A telecommand that the verifiers of xtce.xml call complete was handed over to
\* the model, or its report is about another that was, and one of the four
\* confusions named in Confusion has happened: for any number of commands (the
\* request ids repeating as often as they may), packets lost, overtaken or doubled.
THEOREM VerdictsAreRight == LinkSpec => []VerifiedMeansHandedOver
<1>1. LinkSpec => []HandoverInv
  BY InitHandover, HandoverStep, LinkSimulator, LinkTypeCorrect, PTL DEF LinkSpec
<1>2. LinkSpec => []VerdictInv
  BY <1>1, InitVerdict, VerdictStep, LinkSimulator, LinkTypeCorrect, PTL DEF LinkSpec
<1>. QED
  BY <1>1, <1>2, InvariantsSuffice, LinkSimulator, LinkTypeCorrect, PTL
=============================================================================
