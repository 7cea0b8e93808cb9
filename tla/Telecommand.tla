----------------------------- MODULE Telecommand -----------------------------
(***************************************************************************)
(* What the simulator does with one received datagram before it touches    *)
(* any state: the structural parse and the semantic validation of a        *)
(* telecommand (sgs_sim/tc.py), with the mode numbering of sgs_sim/hk.py.   *)
(* A datagram is abstracted to the header fields the code looks at; its    *)
(* octets beyond the first argument are irrelevant to the code.            *)
(***************************************************************************)
EXTENDS Naturals

CONSTANT RequestId      \* the values of a packet's first four octets

\* SpacecraftMode
SAFE    == 0
NOMINAL == 1
PAYLOAD == 2
Mode    == {SAFE, NOMINAL, PAYLOAD}

TYPE_TC          == 1
APID_TC          == 200
SERVICE_COMMAND  == 132
SUBTYPE_SET_MODE == 1
SUBTYPE_PING     == 2
REQUEST_ID_LEN   == 4
TC_ARGS_OFFSET   == 11  \* primary header (6) + PUS-C TC secondary header (5)

\* A received datagram: its length, and the fields it holds when it is long
\* enough to hold them.
Datagram ==
  [octets : Nat, req : RequestId, type : {0, 1}, apid : Nat,
   service : Nat, subtype : Nat, arg : Nat]

\* extract_request_id: the first four octets, when there are four.
HasRequestId(d) == d.octets >= REQUEST_ID_LEN

\* parse: framing only (both headers present, packet type TC, expected APID).
Parses(d) ==
  /\ d.octets >= TC_ARGS_OFFSET
  /\ d.type = TYPE_TC
  /\ d.apid = APID_TC

\* Mutant: the argument's range is not checked.
ValidSetModeUnranged(d) == d.octets > TC_ARGS_OFFSET

\* _validate_set_mode: one argument octet, naming a mode.
ValidSetMode(d) ==
  /\ d.octets > TC_ARGS_OFFSET
  /\ d.arg \in Mode

IsSetMode(d) == d.subtype = SUBTYPE_SET_MODE

\* validate: the command set is SET_MODE and PING of service 132.
Valid(d) ==
  /\ d.service = SERVICE_COMMAND
  /\ \/ IsSetMode(d) /\ ValidSetMode(d)
     \/ d.subtype = SUBTYPE_PING

\* The three ways handle_datagram can go: execute the command, refuse it with
\* an acceptance failure, or drop what has no request id to answer to.
Accepted(d) == Parses(d) /\ Valid(d)
Dropped(d)  == ~HasRequestId(d)
Rejected(d) == ~Accepted(d) /\ ~Dropped(d)
==============================================================================
