---------------------------- MODULE ProductRecord -----------------------------
(***************************************************************************)
(* What the payload catalogue promises about products (ProductStatus and   *)
(* Provenance of its models), without invocations, their steps or their    *)
(* failures: what is on record, what is on disk, and which moves of the    *)
(* one the other allows. A status may go back at any time, but forward     *)
(* only on what the disk holds; a REGISTERED folder is not touched, and    *)
(* VALIDATED is said of the very run whose report passed.                  *)
(***************************************************************************)
EXTENDS Integers

CONSTANTS
  Product,     \* the ingested products
  Scene,       \* those from which a temperature product is derived
  Run,         \* the runs of the processor, later ones greater
  Unfinished   \* the content of a file that is being written

VARIABLES
  status,      \* the catalogued status of each ingested product
  held,        \* the products whose whole folder is on disk
  derived,     \* the catalogue row of each derived product: status and run
  data,        \* the run each derived file is of
  report       \* the validation report of each derived product

recordVars == <<status, held, derived, data, report>>
productVars == <<status, held>>
derivedVars == <<derived, data, report>>

RecordInit ==
  /\ status = [p \in Product |-> "NONE"] /\ held = {}
  /\ derived = [s \in Scene |-> [status |-> "NONE", run |-> 0]]
  /\ data \in [Scene -> Int \ Run]
  /\ report = [s \in Scene |-> [run |-> 0, passed |-> FALSE]]

-----------------------------------------------------------------------------
(* Ingested products.                                                      *)

Announce(p) == status' = [status EXCEPT ![p] = "DISCOVERED"] /\ UNCHANGED held

GiveUp(p) == status' = [status EXCEPT ![p] = "FAILED"] /\ UNCHANGED held

Transfer(p) ==
  /\ status[p] = "DISCOVERED"
  /\ held' \in {held \ {p}, held \cup {p}}
  /\ UNCHANGED status

Register(p) ==
  /\ status[p] = "DISCOVERED" /\ p \in held
  /\ status' = [status EXCEPT ![p] = "REGISTERED"]
  /\ UNCHANGED held

-----------------------------------------------------------------------------
(* Derived products.                                                       *)

\* A file is only replaced by one of a later run than the row names.
Write(s) ==
  /\ \E r \in {Unfinished} \cup {r \in Run : r > derived[s].run} :
       data' = [data EXCEPT ![s] = r]
  /\ UNCHANGED <<derived, report>>

Publish(s) ==
  /\ data[s] \in Run /\ data[s] > derived[s].run
  /\ derived' = [derived EXCEPT ![s] = [status |-> "PROCESSED", run |-> data[s]]]
  /\ UNCHANGED <<data, report>>

\* A verdict is on the run of the row, and it is given before VALIDATED is.
Judge(s) ==
  /\ derived[s].status = "PROCESSED"
  /\ \E verdict \in BOOLEAN :
       report' = [report EXCEPT ![s] = [run |-> derived[s].run, passed |-> verdict]]
  /\ UNCHANGED <<derived, data>>

Validate(s) ==
  /\ derived[s].status = "PROCESSED"
  /\ report[s] = [run |-> derived[s].run, passed |-> TRUE]
  /\ derived' = [derived EXCEPT ![s] = [status |-> "VALIDATED", run |-> derived[s].run]]
  /\ UNCHANGED <<data, report>>

-----------------------------------------------------------------------------
RecordNext ==
  \/ /\ \E p \in Product : Announce(p) \/ GiveUp(p) \/ Transfer(p) \/ Register(p)
     /\ UNCHANGED derivedVars
  \/ /\ \E s \in Scene : Write(s) \/ Publish(s) \/ Judge(s) \/ Validate(s)
     /\ UNCHANGED productVars

RecordSpec == RecordInit /\ [][RecordNext]_recordVars
=============================================================================
