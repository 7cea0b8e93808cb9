----------------------------- MODULE CommandLink -----------------------------
(***************************************************************************)
(* Commanding from the ground: Yamcs releases telecommands, UDP carries    *)
(* them to the simulator's receiver and the simulator's packets back, the  *)
(* preprocessor of TmLink looks at each, and the verifiers of the mission  *)
(* database (xtce.xml) match the reports of APID 102 by their container:   *)
(* whatever request id the report bears.                                   *)
(*                                                                         *)
(* UDP may lose, overtake and double what it carries, in both directions:  *)
(* whatever was sent may arrive at any time, any number of times or never. *)
(* Yamcs itself is external: the verifiers are modelled from their         *)
(* declaration in xtce.xml, the counter from the filler's use.             *)
(***************************************************************************)
EXTENDS Simulator

CONSTANTS
  CommandedModes,  \* the modes the operators ask for
  MaxCommands,     \* bound: telecommands released
  MaxDelivered     \* bound: packets received on the ground

VARIABLES
  released,     \* the telecommands released, in order, as transmitted
  verifier,     \* the verifiers of each telecommand
  overlapped,   \* history: the pairs of telecommands whose windows overlapped
  seqCounts, log,  \* the preprocessor, as in TmLink
  \* history, by the numbers of the telecommands, which no datagram carries
  handled,      \* the telecommand each datagram received is a copy of
  handedOver,   \* those whose handling got past _apply
  about         \* the telecommand each packet of tm reports on, 0 if none

groundVars == <<released, verifier, overlapped>>
downVars   == <<seqCounts, log>>
boardVars  == <<handled, handedOver, about>>
linkVars   == <<vars, groundVars, boardVars, downVars>>

Tm == INSTANCE TmLink
        WITH sent <- tm, boots <- {0}, net <- 1 .. Len(tm), Apids <- Apid,
             Packets <- PacketType, MaxSent <- 6 * MaxTicks + 2 * MaxDatagrams, MaxBoots <- 1

-----------------------------------------------------------------------------
(* The command side of the mission database and the postprocessor.         *)

\* SET_MODE and PING as the MDB builds them, count and length not yet set.
Set_Mode(m) ==
  [octets |-> TC_ARGS_OFFSET + 1, req |-> 0, type |-> TYPE_TC, apid |-> APID_TC,
   service |-> SERVICE_COMMAND, subtype |-> SUBTYPE_SET_MODE, arg |-> m]
Ping ==
  [octets |-> TC_ARGS_OFFSET, req |-> 0, type |-> TYPE_TC, apid |-> APID_TC,
   service |-> SERVICE_COMMAND, subtype |-> SUBTYPE_PING, arg |-> 0]

Commands == {Set_Mode(m) : m \in CommandedModes} \cup {Ping}

\* MyCommandPostprocessor.process: the filler's next count, of 14 bits, goes into
\* the packet. The rest of the first four octets is the same for every command:
\* request ids repeat when the count does.
Postprocess(command, count) == [command EXCEPT !.req = count % SeqCountModulo]

ASSUME CommandLinkAssumption ==
  /\ CommandedModes \subseteq Mode
  /\ 0 .. SeqCountModulo - 1 \subseteq RequestId
  /\ MaxCommands \in Nat /\ SeqCountModulo > 1
  /\ \A c \in Commands, n \in 0 .. SeqCountModulo - 1 : Postprocess(c, n) \in Datagrams
  /\ MaxDelivered \in Nat

-----------------------------------------------------------------------------
(* The verifiers.                                                          *)

NoVerifier == [accepted |-> "none", completed |-> "none", by |-> 0]
Pending    == [accepted |-> "pending", completed |-> "pending", by |-> 0]

\* A verifier of command n is within its window and has not matched.
Open(n) == "pending" \in {verifier[n].accepted, verifier[n].completed}

\* Mutant: the completion verifier takes any report of success.
MatchedAnySuccess(v, type, entry) ==
  [accepted  |-> IF type = "ACCEPTED" /\ v.accepted = "pending" THEN "ok" ELSE v.accepted,
   completed |-> IF type \in {"ACCEPTED", "COMPLETED"} /\ v.completed = "pending" THEN "ok"
                 ELSE v.completed,
   by        |-> IF type \in {"ACCEPTED", "COMPLETED"} /\ v.completed = "pending" THEN entry
                 ELSE v.by]

\* AcceptedVerifier matches Pus1AcceptanceSuccess, CompleteVerifier matches
\* Pus1CompletionSuccess.
Matched(v, type, entry) ==
  [accepted  |-> IF type = "ACCEPTED" /\ v.accepted = "pending" THEN "ok" ELSE v.accepted,
   completed |-> IF type = "COMPLETED" /\ v.completed = "pending" THEN "ok" ELSE v.completed,
   by        |-> IF type = "COMPLETED" /\ v.completed = "pending" THEN entry ELSE v.by]

\* The window is over: what is pending times out.
TimedOut(v) ==
  [accepted  |-> IF v.accepted = "pending" THEN "timeout" ELSE v.accepted,
   completed |-> IF v.completed = "pending" THEN "timeout" ELSE v.completed,
   by        |-> v.by]

\* Mutant: the filler's count is not reduced to its 14 bits.
ReleaseNoWrap ==
  /\ Len(released) < MaxCommands
  /\ LET n == Len(released) + 1 IN
     /\ \E c \in Commands : released' = Append(released, [c EXCEPT !.req = n - 1])
     /\ verifier' = [verifier EXCEPT ![n] = Pending]
     /\ overlapped' = overlapped \cup {<<m, n>> : m \in {l \in 1 .. n - 1 : Open(l)}}
  /\ UNCHANGED <<vars, boardVars, downVars>>

\* A command is released: its windows open at once (timeToStartChecking PT0S).
Release ==
  /\ Len(released) < MaxCommands
  /\ LET n == Len(released) + 1 IN
     /\ \E c \in Commands : released' = Append(released, Postprocess(c, n - 1))
     /\ verifier' = [verifier EXCEPT ![n] = Pending]
     /\ overlapped' = overlapped \cup {<<m, n>> : m \in {l \in 1 .. n - 1 : Open(l)}}
  /\ UNCHANGED <<vars, boardVars, downVars>>

\* Five seconds after the release of command n its window ends; windows are equally
\* long, so they end in the order of the releases.
WindowEnds ==
  /\ \E n \in 1 .. Len(released) :
       /\ Open(n) /\ \A m \in 1 .. n - 1 : ~Open(m)
       /\ verifier' = [verifier EXCEPT ![n] = TimedOut(@)]
  /\ UNCHANGED <<vars, released, overlapped, boardVars, downVars>>

-----------------------------------------------------------------------------
(* The two directions of the link, and the simulator.                      *)

\* The receiver gets a telecommand.
ReceiveUp ==
  /\ \E n \in 1 .. Len(released) :
       /\ RxReceive /\ received' = Append(received, released[n])
       /\ handled' = Append(handled, n)
  /\ UNCHANGED <<groundVars, handedOver, about, downVars>>

\* The command being handled.
Handling == handled[Len(handled)]

\* Any other step of the simulator. Noted: the command that RxApply has put in the
\* model's mailbox (a PING has nothing to put there), and what a report is about.
Simulate ==
  /\ Next /\ UNCHANGED received
  /\ handedOver' = IF rx = "apply" /\ rx' = "complete" THEN handedOver \cup {Handling}
                   ELSE handedOver
  /\ \/ tm' = tm /\ about' = about
     \/ /\ tm' # tm
        /\ about' = Append(about, IF tm'[Len(tm')].apid = APID_VERIFICATION THEN Handling ELSE 0)
  /\ UNCHANGED <<groundVars, handled, downVars>>

\* A packet arrives: through the preprocessor to the verifiers.
ReceiveDown ==
  /\ UNCHANGED <<vars, released, overlapped, boardVars>>
  /\ Tm!Deliver
  /\ LET packet == tm[log'[Len(log')].packet] IN
     verifier' = [n \in 1 .. MaxCommands |-> Matched(verifier[n], packet.type, Len(log'))]

LinkInit ==
  /\ Init
  /\ released = << >> /\ overlapped = {}
  /\ verifier = [n \in 1 .. MaxCommands |-> NoVerifier]
  /\ seqCounts = [a \in Apid |-> 0] /\ log = << >>
  /\ handled = << >> /\ handedOver = {} /\ about = << >>

LinkNext ==
  Release \/ WindowEnds \/ ReceiveUp \/ Simulate \/ ReceiveDown

LinkSpec == LinkInit /\ [][LinkNext]_linkVars

-----------------------------------------------------------------------------
\* The type invariant of the ground side and of the history.
LinkTypeOK ==
  /\ released \in Seq(Datagrams) /\ Len(released) <= MaxCommands
  /\ verifier \in [1 .. MaxCommands ->
       [accepted : {"none", "pending", "ok", "timeout"},
        completed : {"none", "pending", "ok", "timeout"}, by : 0 .. Len(log)]]
  /\ overlapped \in SUBSET ((1 .. Len(released)) \X (1 .. Len(released)))
  /\ handled \in Seq(1 .. Len(released)) /\ Len(handled) = Len(received)
  /\ handedOver \in SUBSET (1 .. Len(released))
  /\ about \in Seq(0 .. Len(released)) /\ Len(about) = Len(tm)
  /\ Tm!TypeOK

\* Command n is complete, and the command its report is about.
Verified(n) == verifier[n].completed = "ok"
AboutFor(n) == about[log[verifier[n].by].packet]
IsOwn(n)    == AboutFor(n) = n

\* What can make a report of command m satisfy the verifier of n: their windows
\* overlapped; m's report came after its window; m was reported before; or the
\* verdict on m was itself due to another's report.
Confusion(m, n) ==
  \/ <<m, n>> \in overlapped \/ <<n, m>> \in overlapped
  \/ verifier[m].completed = "timeout"
  \/ \E e \in 1 .. verifier[n].by - 1 :
       tm[log[e].packet].type = "COMPLETED" /\ about[log[e].packet] = m
  \/ Verified(m) /\ ~IsOwn(m)

\* A telecommand that the verifiers of xtce.xml call complete has been handed over
\* by handle_datagram to the model (a SET_MODE to its mailbox, where a later one
\* may still replace it before the tick), or its report is about another that has
\* been, and one of the four things that can confuse the two has happened: with
\* one command in flight, as the ICD asks, and reports neither late nor doubled,
\* a verdict is about its own command whatever is lost or overtaken, and though
\* request ids repeat.
VerifiedMeansHandedOver ==
  \A n \in 1 .. Len(released) : Verified(n) =>
    /\ AboutFor(n) \in handedOver
    /\ IsOwn(n) \/ Confusion(AboutFor(n), n)

\* The composed downlink is the one of TmLink: what the simulator's two threads
\* send is in sequence, which is all TmLink asks of a sender.
TmLinkSpec == Tm!Spec
==============================================================================
