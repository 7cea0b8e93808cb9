------------------------------ MODULE Simulator ------------------------------
(***************************************************************************)
(* The spacecraft simulator of control/simulator (sgs_sim): two threads of *)
(* one process that share a model of the spacecraft and one UDP socket.    *)
(*                                                                         *)
(*   - the emit loop (sender.run_loop) advances the model one tick, sends  *)
(*     one housekeeping packet and then one packet per event of the tick,  *)
(*     until its duration is over, it is interrupted, or a send raises;    *)
(*   - the TC receiver (receiver.run_receiver, TcReceiver) reads datagrams,*)
(*     verifies them, hands an accepted SET_MODE to the model through a    *)
(*     one-slot mailbox guarded by a lock, and sends the service-1 reports.*)
(*                                                                         *)
(* The variables issued and taken, and all of received but its last        *)
(* element, are history: the code does not hold them.                      *)
(***************************************************************************)
EXTENDS Telecommand, Integers, Sequences, FiniteSets

CONSTANTS
  SeqCountModulo,  \* SEQ_COUNT_MODULO, 2^14 in the code
  MsgCountModulo,  \* modulus of the PUS message type counter, 2^16 in the code
  ModeToSafe,      \* config.anomalies.mode_to_safe.enabled
  EnableTc,        \* run_loop's enable_tc
  Excursions,      \* the sets of limit events whose parameter can be outside
                   \* its soft limit at a tick (what the dynamics can produce)
  Datagrams,       \* the datagrams the uplink can carry
  IoMayFail,       \* bind, recvfrom and sendto may raise OSError
  JoinMayExpire,   \* the receiver may need longer than join's two seconds
  MaxTicks,        \* bound: ticks before the duration of the run is over
  MaxDatagrams     \* bound: datagrams received in the run

BATTERY_UNDERVOLTAGE == "BATTERY_UNDERVOLTAGE"
OBC_OVERTEMP         == "OBC_OVERTEMP"
RW_OVERSPEED         == "RW_OVERSPEED"
MODE_CHANGE          == "MODE_CHANGE"
MODE_SAFE            == "MODE_SAFE"

LimitEvent == {BATTERY_UNDERVOLTAGE, OBC_OVERTEMP, RW_OVERSPEED}
EventId    == LimitEvent \cup {MODE_CHANGE, MODE_SAFE}

ASSUME SimulatorAssumption ==
  /\ SeqCountModulo \in Nat \ {0}
  /\ MsgCountModulo \in Nat \ {0}
  /\ ModeToSafe \in BOOLEAN
  /\ EnableTc \in BOOLEAN
  /\ Excursions \subseteq SUBSET LimitEvent
  /\ Datagrams \subseteq Datagram
  /\ IoMayFail \in BOOLEAN
  /\ JoinMayExpire \in BOOLEAN
  /\ MaxTicks \in Nat
  /\ MaxDatagrams \in Nat

APID_HK           == 100
APID_EVENT        == 101
APID_VERIFICATION == 102
Apid              == {APID_HK, APID_EVENT, APID_VERIFICATION}

SERVICE_VERIFICATION == 1
SERVICE_HK           == 3
SERVICE_EVENT        == 5
Service              == {SERVICE_VERIFICATION, SERVICE_HK, SERVICE_EVENT}

NoMode == -1            \* Model._commanded_mode is None

VARIABLES
  \* the emit loop
  loop,       \* where run_loop is
  ticks,      \* model ticks done
  events,     \* events of the tick not yet sent
  loopSeq,    \* run_loop's SequenceCounter
  loopMsg,    \* run_loop's MessageTypeCounter
  \* the TC receiver
  rx,         \* where run_receiver / handle_datagram is
  received,   \* the datagrams received, the last one being handled
  rxSeq,      \* TcReceiver's SequenceCounter
  rxMsg,      \* TcReceiver's MessageTypeCounter
  \* shared
  stop,       \* the stop threading.Event
  linkOpen,   \* the UDP sender's socket is open
  commanded,  \* Model._commanded_mode
  mode,       \* Dynamics.mode
  prevMode,   \* Model._prev_mode
  outside,    \* the limit events whose parameter is outside its limit this tick
  armed,      \* Model._undervoltage_armed, _overtemp_armed, _overspeed_armed
  tm,         \* the packets handed to the network, in order
  \* history
  issued,     \* the modes handed to Model.command_mode, in order
  taken       \* how many of them had been issued at the last tick

loopVars  == <<loop, ticks, events, loopSeq, loopMsg>>
rxVars    == <<rx, received, rxSeq, rxMsg>>
modelVars == <<mode, prevMode, outside, armed>>
vars == <<loopVars, rxVars, stop, linkOpen, commanded, modelVars, tm, issued, taken>>

-----------------------------------------------------------------------------
\* The datagram being handled.
tc == received[Len(received)]

Event(id, context) == [id |-> id, context |-> context]

Packet(apid, seq, msg, type, body) ==
  [apid |-> apid, seq |-> seq, msg |-> msg, type |-> type, body |-> body]

\* Mutant: the counter is not reduced by its modulus.
NextCountNoWrap(counter, key, modulo) == [counter EXCEPT ![key] = counter[key] + 1]

\* SequenceCounter.next and MessageTypeCounter.next: the packet carries the
\* counter's value and the counter advances, wrapping.
NextCount(counter, key, modulo) ==
  [counter EXCEPT ![key] = (counter[key] + 1) % modulo]

\* build_hk_packet, build_event_packet and build_ack_packet.
HkPacket ==
  Packet(APID_HK, loopSeq[APID_HK], loopMsg[SERVICE_HK], "HK",
         [mode |-> mode, outside |-> outside])
EventPacket(e) ==
  Packet(APID_EVENT, loopSeq[APID_EVENT], loopMsg[SERVICE_EVENT], e.id, e.context)
AckPacket(report) ==
  Packet(APID_VERIFICATION, rxSeq[APID_VERIFICATION], rxMsg[SERVICE_VERIFICATION],
         report, tc.req)

\* UdpSender.send: sendto raises on a closed socket, and may on an open one.
SendWorks == linkOpen
SendFails == IoMayFail \/ ~linkOpen

-----------------------------------------------------------------------------
(* The model: Model.step, with Dynamics abstracted to the set of           *)
(* parameters it leaves outside their soft limit.                          *)

\* Mutant: a queued command is not replaced by a later one.
CommandModeKeepsFirst(m) ==
  /\ commanded' = IF commanded = NoMode THEN m ELSE commanded
  /\ issued' = Append(issued, m)

\* Model.command_mode: fill the slot, whatever it holds.
CommandMode(m) ==
  /\ commanded' = m
  /\ issued' = Append(issued, m)

\* Mutant: the tick reads the slot without emptying it.
EmptyMailboxKeeps == commanded' = commanded /\ taken' = Len(issued)

\* Mutant: the tick does not wait for the lock when the receiver has just used it.
EmptyMailboxTryLock ==
  IF rx = "complete" THEN UNCHANGED <<commanded, taken>>
  ELSE commanded' = NoMode /\ taken' = Len(issued)

\* Model.step takes the commanded mode and clears the slot under the lock.
EmptyMailbox == commanded' = NoMode /\ taken' = Len(issued)

\* The mode of the tick: a commanded mode is adopted, mode_to_safe overrides.
TickMode ==
  IF ModeToSafe THEN SAFE ELSE IF commanded # NoMode THEN commanded ELSE mode

\* Mutant: level-triggered, the event is repeated every tick.
CrossingLevel(id, out) == IF id \in out THEN << Event(id, 0) >> ELSE << >>

\* _detect_events, edge-triggered by the armed latches.
Crossing(id, out) ==
  IF id \in out /\ armed[id] THEN << Event(id, 0) >> ELSE << >>

ModeEvents(m) ==
  IF m = prevMode THEN << >>
  ELSE IF m = SAFE THEN << Event(MODE_CHANGE, m), Event(MODE_SAFE, 0) >>
  ELSE << Event(MODE_CHANGE, m) >>

DetectedEvents(m, out) ==
  Crossing(BATTERY_UNDERVOLTAGE, out) \o Crossing(OBC_OVERTEMP, out)
    \o Crossing(RW_OVERSPEED, out) \o ModeEvents(m)

Rearmed(out) == [id \in LimitEvent |-> id \notin out]

-----------------------------------------------------------------------------
(* The emit loop.                                                          *)

LoopRunning == {"step", "hk", "events", "check"}

LoopStep ==
  /\ loop = "step" /\ ticks < MaxTicks
  /\ \E out \in Excursions :
       /\ mode' = TickMode
       /\ outside' = out
       /\ events' = DetectedEvents(TickMode, out)
       /\ armed' = Rearmed(out)
  /\ prevMode' = TickMode
  /\ EmptyMailbox
  /\ ticks' = ticks + 1
  /\ loop' = "hk"
  /\ UNCHANGED <<loopSeq, loopMsg, rxVars, stop, linkOpen, tm, issued>>

\* The exception of a failed send leaves the loop for its finally clause.
LoopSend(packet, next) ==
  \/ SendFails /\ loop' = "finally" /\ tm' = tm
  \/ SendWorks /\ loop' = next /\ tm' = Append(tm, packet)

LoopSendHk ==
  /\ loop = "hk"
  /\ LoopSend(HkPacket, IF events = << >> THEN "check" ELSE "events")
  /\ loopSeq' = NextCount(loopSeq, APID_HK, SeqCountModulo)
  /\ loopMsg' = NextCount(loopMsg, SERVICE_HK, MsgCountModulo)
  /\ UNCHANGED <<ticks, events, rxVars, stop, linkOpen, commanded, modelVars, issued, taken>>

LoopSendEvent ==
  /\ loop = "events"
  /\ LoopSend(EventPacket(Head(events)), IF Tail(events) = << >> THEN "check" ELSE "events")
  /\ events' = Tail(events)
  /\ loopSeq' = NextCount(loopSeq, APID_EVENT, SeqCountModulo)
  /\ loopMsg' = NextCount(loopMsg, SERVICE_EVENT, MsgCountModulo)
  /\ UNCHANGED <<ticks, rxVars, stop, linkOpen, commanded, modelVars, issued, taken>>

\* The duration is not over: sleep a period and go round.
LoopSleep ==
  /\ loop = "check" /\ ticks < MaxTicks
  /\ loop' = "step"
  /\ UNCHANGED <<ticks, events, loopSeq, loopMsg, rxVars, stop, linkOpen, commanded,
                 modelVars, tm, issued, taken>>

\* The duration is over, or the process is interrupted (KeyboardInterrupt).
LoopLeave ==
  /\ loop \in LoopRunning
  /\ loop' = "finally"
  /\ UNCHANGED <<ticks, events, loopSeq, loopMsg, rxVars, stop, linkOpen, commanded,
                 modelVars, tm, issued, taken>>

LoopStop ==
  /\ loop = "finally"
  /\ stop' = TRUE
  /\ loop' = "join"
  /\ UNCHANGED <<ticks, events, loopSeq, loopMsg, rxVars, linkOpen, commanded,
                 modelVars, tm, issued, taken>>

RxEnded == {"off", "returned", "dead"}

\* Mutant: the socket is closed without joining the receiver.
LoopCloseNoJoin ==
  /\ loop = "join"
  /\ linkOpen' = FALSE
  /\ loop' = "returned"
  /\ UNCHANGED <<ticks, events, loopSeq, loopMsg, rxVars, stop, commanded,
                 modelVars, tm, issued, taken>>

\* join(timeout=2.0) returns when the thread has ended or the time is over;
\* either way the sender is closed.
LoopClose ==
  /\ loop = "join"
  /\ rx \in RxEnded \/ JoinMayExpire
  /\ linkOpen' = FALSE
  /\ loop' = "returned"
  /\ UNCHANGED <<ticks, events, loopSeq, loopMsg, rxVars, stop, commanded,
                 modelVars, tm, issued, taken>>

Loop ==
  \/ LoopStep \/ LoopSendHk \/ LoopSendEvent \/ LoopSleep
  \/ LoopStop \/ LoopClose

-----------------------------------------------------------------------------
(* The TC receiver.                                                        *)

RxUnchanged ==
  UNCHANGED <<loopVars, stop, linkOpen, modelVars, taken>>

\* A socket that cannot be bound leaves the simulator TM-only.
RxBind ==
  /\ rx = "bind"
  /\ \/ rx' = "check"
     \/ IoMayFail /\ rx' = "returned"
  /\ UNCHANGED <<received, rxSeq, rxMsg, commanded, tm, issued>> /\ RxUnchanged

\* Mutant: the receive loop never looks at the stop event.
RxCheckStopNever ==
  /\ rx = "check"
  /\ rx' = "recv"
  /\ UNCHANGED <<received, rxSeq, rxMsg, commanded, tm, issued>> /\ RxUnchanged

RxCheckStop ==
  /\ rx = "check"
  /\ rx' = IF stop THEN "returned" ELSE "recv"
  /\ UNCHANGED <<received, rxSeq, rxMsg, commanded, tm, issued>> /\ RxUnchanged

RxTimeout ==
  /\ rx = "recv"
  /\ rx' = "check"
  /\ UNCHANGED <<received, rxSeq, rxMsg, commanded, tm, issued>> /\ RxUnchanged

RxRecvError ==
  /\ rx = "recv" /\ IoMayFail
  /\ rx' = IF stop THEN "returned" ELSE "dead"
  /\ UNCHANGED <<received, rxSeq, rxMsg, commanded, tm, issued>> /\ RxUnchanged

\* Mutant: a refused telecommand is dropped without a report.
RxReceiveNoReject ==
  /\ rx = "recv" /\ Len(received) < MaxDatagrams
  /\ \E d \in Datagrams :
       /\ received' = Append(received, d)
       /\ rx' = IF Accepted(d) THEN "accept" ELSE "check"
  /\ UNCHANGED <<rxSeq, rxMsg, commanded, tm, issued>> /\ RxUnchanged

RxReceive ==
  /\ rx = "recv" /\ Len(received) < MaxDatagrams
  /\ \E d \in Datagrams :
       /\ received' = Append(received, d)
       /\ rx' = IF Accepted(d) THEN "accept" ELSE IF Rejected(d) THEN "reject" ELSE "check"
  /\ UNCHANGED <<rxSeq, rxMsg, commanded, tm, issued>> /\ RxUnchanged

\* TcReceiver._send: the exception of a failed send ends the thread, for
\* nothing between here and run_receiver's finally clause catches it.
RxSend(report, next) ==
  /\ \/ SendFails /\ rx' = "dead" /\ tm' = tm
     \/ SendWorks /\ rx' = next /\ tm' = Append(tm, AckPacket(report))
  /\ rxSeq' = NextCount(rxSeq, APID_VERIFICATION, SeqCountModulo)
  /\ rxMsg' = NextCount(rxMsg, SERVICE_VERIFICATION, MsgCountModulo)
  /\ UNCHANGED <<received, commanded, issued>> /\ RxUnchanged

RxReject   == rx = "reject"   /\ RxSend("REJECTED", "check")
RxAccept   == rx = "accept"   /\ RxSend("ACCEPTED", "apply")
RxComplete == rx = "complete" /\ RxSend("COMPLETED", "check")

\* _apply: SET_MODE goes to the model, PING does nothing.
RxApply ==
  /\ rx = "apply"
  /\ \/ IsSetMode(tc) /\ CommandMode(tc.arg)
     \/ ~IsSetMode(tc) /\ UNCHANGED <<commanded, issued>>
  /\ rx' = "complete"
  /\ UNCHANGED <<received, rxSeq, rxMsg, tm>> /\ RxUnchanged

Rx ==
  \/ RxBind \/ RxCheckStop \/ RxTimeout \/ RxRecvError \/ RxReceive
  \/ RxReject \/ RxAccept \/ RxApply \/ RxComplete

-----------------------------------------------------------------------------
Init ==
  /\ loop = "step" /\ ticks = 0 /\ events = << >>
  /\ loopSeq = [a \in Apid |-> 0] /\ loopMsg = [s \in Service |-> 0]
  /\ rx = IF EnableTc THEN "bind" ELSE "off"
  /\ received = << >>
  /\ rxSeq = [a \in Apid |-> 0] /\ rxMsg = [s \in Service |-> 0]
  /\ stop = FALSE /\ linkOpen = TRUE
  /\ commanded = NoMode /\ mode = NOMINAL /\ prevMode = NOMINAL
  /\ outside = {} /\ armed = [id \in LimitEvent |-> TRUE]
  /\ tm = << >>
  /\ issued = << >> /\ taken = 0

\* run_loop has returned and the receiver has ended: nothing more happens.
Finished == loop = "returned" /\ rx \in RxEnded

Terminating == Finished /\ UNCHANGED vars

Next == Loop \/ LoopLeave \/ Rx \/ Terminating

Spec == Init /\ [][Next]_vars

\* Both threads are scheduled; nothing says when (or whether) a run is
\* interrupted, and the duration is over after MaxTicks ticks at the latest.
Fairness ==
  /\ WF_vars(Loop)
  /\ WF_vars(Rx)
  /\ WF_vars(ticks = MaxTicks /\ loop = "check" /\ LoopLeave)

FairSpec == Spec /\ Fairness

-----------------------------------------------------------------------------
(* Types.                                                                  *)

EventType == [id : EventId, context : Mode]

PacketType ==
  [apid : {APID_HK}, seq : 0 .. SeqCountModulo - 1, msg : 0 .. MsgCountModulo - 1,
   type : {"HK"}, body : [mode : Mode, outside : SUBSET LimitEvent]]
  \cup
  [apid : {APID_EVENT}, seq : 0 .. SeqCountModulo - 1, msg : 0 .. MsgCountModulo - 1,
   type : EventId, body : Mode]
  \cup
  [apid : {APID_VERIFICATION}, seq : 0 .. SeqCountModulo - 1, msg : 0 .. MsgCountModulo - 1,
   type : {"ACCEPTED", "REJECTED", "COMPLETED"}, body : RequestId]

\* The type invariant: every variable of the two threads stays in its range,
\* and the datagram being handled has the shape its place in the code needs.
TypeOK ==
  /\ loop \in LoopRunning \cup {"finally", "join", "returned"}
  /\ ticks \in 0 .. MaxTicks
  /\ events \in Seq(EventType)
  /\ loop = "events" => events # << >>
  /\ loopSeq \in [Apid -> 0 .. SeqCountModulo - 1]
  /\ loopMsg \in [Service -> 0 .. MsgCountModulo - 1]
  /\ rx \in RxEnded \cup {"bind", "check", "recv", "accept", "apply", "complete", "reject"}
  /\ received \in Seq(Datagrams)
  /\ Len(received) <= MaxDatagrams
  /\ rx \in {"accept", "apply", "complete", "reject"} => received # << >>
  /\ rx \in {"accept", "apply", "complete"} => Accepted(tc)
  /\ rxSeq \in [Apid -> 0 .. SeqCountModulo - 1]
  /\ rxMsg \in [Service -> 0 .. MsgCountModulo - 1]
  /\ stop \in BOOLEAN
  /\ linkOpen \in BOOLEAN
  /\ commanded \in Mode \cup {NoMode}
  /\ mode \in Mode
  /\ prevMode \in Mode
  /\ outside \in SUBSET LimitEvent
  /\ armed \in [LimitEvent -> BOOLEAN]
  /\ tm \in Seq(PacketType)
  /\ issued \in Seq(Mode)
  /\ taken \in 0 .. Len(issued)

-----------------------------------------------------------------------------
(* Properties of the downlink.                                             *)

\* The packet before i on the same APID is k.
IsPrevious(k, i) ==
  /\ k < i /\ tm[k].apid = tm[i].apid
  /\ \A j \in k + 1 .. i - 1 : tm[j].apid # tm[i].apid

\* On every APID the sequence counts and the message counts of the packets
\* that leave start at zero and advance by one (ccsds.SequenceCounter,
\* pus.MessageTypeCounter), however the two threads interleave and whichever
\* send fails: the ground's gap check may read a jump as a lost packet.
StreamsContiguous ==
  \A i \in 1 .. Len(tm) :
    \/ /\ \A k \in 1 .. i - 1 : tm[k].apid # tm[i].apid
       /\ tm[i].seq = 0 /\ tm[i].msg = 0
    \/ \E k \in 1 .. i - 1 :
         /\ IsPrevious(k, i)
         /\ tm[i].seq = (tm[k].seq + 1) % SeqCountModulo
         /\ tm[i].msg = (tm[k].msg + 1) % MsgCountModulo

\* The verification packets among the first i packets, and the reports the
\* first n datagrams are owed: two for one accepted, one for one rejected, none
\* for one with no request id to answer to.
ReportsUpTo(i) == Cardinality({k \in 1 .. i : tm[k].apid = APID_VERIFICATION})
ReportsOwed(n) ==
  2 * Cardinality({k \in 1 .. n : Accepted(received[k])})
    + Cardinality({k \in 1 .. n : Rejected(received[k])})

\* The r-th verification packet is p, and that is what the n-th datagram is owed.
Answers(p, r, n) ==
  /\ p.body = received[n].req
  /\ \/ Accepted(received[n]) /\ p.type = "ACCEPTED" /\ r = ReportsOwed(n - 1) + 1
     \/ Accepted(received[n]) /\ p.type = "COMPLETED" /\ r = ReportsOwed(n - 1) + 2
     \/ Rejected(received[n]) /\ p.type = "REJECTED" /\ r = ReportsOwed(n - 1) + 1

\* The verification stream (receiver.handle_datagram) is the answers to the
\* datagrams received, in the order received, each whole before the next: none
\* twice, none skipped, none for a datagram that has no request id; and no
\* answer is outstanding when the receiver waits for the next datagram.
ReportsAnswerInOrder ==
  /\ \A i \in 1 .. Len(tm) : tm[i].apid = APID_VERIFICATION =>
       \E n \in 1 .. Len(received) : Answers(tm[i], ReportsUpTo(i), n)
  /\ rx \in {"check", "recv"} => ReportsUpTo(Len(tm)) = ReportsOwed(Len(received))

\* The housekeeping packets of the stream, and what the last one before packet i
\* said (the initial state of the model if there is none).
IsHk(i) == tm[i].type = "HK"
SaidBefore(i, b) ==
  \/ \E k \in 1 .. i - 1 : IsHk(k) /\ b = tm[k].body /\ \A j \in k + 1 .. i - 1 : ~IsHk(j)
  \/ b = [mode |-> NOMINAL, outside |-> {}] /\ \A k \in 1 .. i - 1 : ~IsHk(k)

\* The events a reader of the HK stream expects when it goes from before to now.
ExpectedEvents(before, now) ==
  (now.outside \ before.outside)
    \cup (IF now.mode = before.mode THEN {} ELSE {MODE_CHANGE})
    \cup (IF now.mode # before.mode /\ now.mode = SAFE THEN {MODE_SAFE} ELSE {})

\* The event packets between packets i and j.
EventsBetween(i, j) == {k \in i + 1 .. j - 1 : tm[k].apid = APID_EVENT}

\* Two successive HK packets enclose exactly the events of the first one's
\* tick, each once (anomalies._detect_events, sender.run_loop): one event per
\* limit entered, none while it stays exceeded, MODE_CHANGE on each change.
EventsMatchHk ==
  \A i, j \in 1 .. Len(tm) :
    i < j /\ IsHk(i) /\ IsHk(j) /\ (\A k \in i + 1 .. j - 1 : ~IsHk(k)) =>
      /\ \E b \in [mode : Mode, outside : SUBSET LimitEvent] :
           /\ SaidBefore(i, b)
           /\ {tm[k].type : k \in EventsBetween(i, j)} = ExpectedEvents(b, tm[i].body)
      /\ \A k, l \in EventsBetween(i, j) : k # l => tm[k].type # tm[l].type
      /\ \A k \in EventsBetween(i, j) :
           tm[k].type = MODE_CHANGE => tm[k].body = tm[i].body.mode

-----------------------------------------------------------------------------
(* Properties of commanding.                                               *)

\* The one-slot mailbox (Model.command_mode, Model.step) holds the latest
\* command the model has not seen, and nothing once it has: no command is
\* lost but by a later one, none is adopted twice.
MailboxHoldsLatest ==
  commanded = IF taken < Len(issued) THEN issued[Len(issued)] ELSE NoMode

\* The threads, the lock and the one-slot mailbox implement ModeCommanding:
\* every tick takes over the latest mode issued since the tick before.
Commanding ==
  INSTANCE ModeCommanding WITH Safe <- SAFE, InitialMode <- NOMINAL, Forced <- ModeToSafe
CommandingSpec == Commanding!CmdSpec

\* While sends work, handle_datagram never raises: run_loop's finally clause
\* closes the socket only after the receiver has ended.
HandlerNeverRaises ==
  [][(rx \in {"accept", "apply", "complete", "reject"}) => (rx' # "dead")]_rx

-----------------------------------------------------------------------------
(* Liveness.                                                               *)

\* Every command handed to the model before the last tick of the run is taken
\* over by a tick (Model.step), unless the loop is left before its time is over.
CommandsTaken ==
  \A n \in 1 .. MaxDatagrams :
    Len(issued) >= n /\ ticks < MaxTicks
      ~> taken >= n \/ (loop \notin LoopRunning /\ ticks < MaxTicks)

\* Once the emit loop has set stop, both threads end and the socket is closed
\* (sender.run_loop's finally clause, receiver.run_receiver's loop condition).
ShutdownCompletes == stop ~> Finished /\ ~linkOpen
==============================================================================
