----------------------------- MODULE MCSimulator -----------------------------
(* Model values and bounds for checking Simulator. *)
EXTENDS Simulator

CONSTANTS r1, r2, r3

Tc(req, subtype, arg) ==
  [octets |-> 12, req |-> req, type |-> TYPE_TC, apid |-> APID_TC,
   service |-> SERVICE_COMMAND, subtype |-> subtype, arg |-> arg]

MCRequestId == {r1, r2, r3}

SetPayload == Tc(r1, SUBTYPE_SET_MODE, PAYLOAD)
SetSafe    == Tc(r2, SUBTYPE_SET_MODE, SAFE)
Ping       == Tc(r3, SUBTYPE_PING, 0)
OutOfRange == Tc(r3, SUBTYPE_SET_MODE, 5)
NotForUs   == [Ping EXCEPT !.apid = APID_HK]
Runt       == [Ping EXCEPT !.octets = 3]

SetModes      == {SetPayload, SetSafe}
MostDatagrams == {SetPayload, SetSafe, Ping, OutOfRange, NotForUs, Runt}

NoExcursions   == {{}}
SomeExcursions == {{}, {OBC_OVERTEMP}, {BATTERY_UNDERVOLTAGE, OBC_OVERTEMP}}
==============================================================================
