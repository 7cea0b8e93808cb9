---------------------------- MODULE PayloadPipeline ----------------------------
(***************************************************************************)
(* The payload segment (pdgs): invocations of its command line ingest,     *)
(* process, validate and reprocess products. What survives an invocation   *)
(* is the SQLite catalogue, the download directory with the SAFE folders   *)
(* and the derived netCDF files, and the reports. Every catalogue call is  *)
(* a transaction of its own, a download or a file is written in several    *)
(* steps, and an invocation may end anywhere between them: an exception no *)
(* handler catches, or a kill.                                             *)
(*                                                                         *)
(* An invocation is a slot of Cli that is idle between commands. Pixel     *)
(* data is abstracted to the number of the run that produced it.           *)
(***************************************************************************)
EXTENDS Integers, FiniteSets

CONSTANTS
  Scene,         \* the L1 products
  Reference,     \* the L2 reference products
  Cli,           \* slots for invocations that may overlap
  Commands,      \* the commands that are given
  MayCrash,      \* an invocation may end at any step
  IoMayFail,     \* downloads and catalogue writes may raise
  MaxCommands,   \* bound: commands given
  MaxRuns        \* bound: runs of process_scene

Command == {"ingest", "process", "validate", "reprocess", "revalidate", "run"}

ASSUME PipelineAssumption ==
  /\ Scene \cap Reference = {}
  /\ Commands \subseteq Command
  /\ MayCrash \in BOOLEAN
  /\ IoMayFail \in BOOLEAN
  /\ MaxCommands \in Nat
  /\ MaxRuns \in Nat

Product == Scene \cup Reference

\* What is on disk: nothing, something unfinished, or the whole of it (of a
\* derived file: the number of the run that wrote it).
NONE    == -1
PARTIAL == 0
WHOLE   == 1

NoRow      == [status |-> "NONE", path |-> FALSE]
NoDerived  == [status |-> "NONE", run |-> 0]
NoReport   == [run |-> 0, passed |-> FALSE]

VARIABLES
  source,    \* the catalogue rows of the ingested products
  derived,   \* the catalogue row of each scene's derived product
  safe,      \* the SAFE folder of each product in the download directory
  file,      \* the derived netCDF of each scene
  report,    \* validation.json of each scene's derived product
  cli,       \* the invocations
  given,     \* commands given so far
  runs,      \* runs of process_scene so far (their run_timestamp)
  \* history
  earned,    \* the scenes whose run on record has passed validation
  displaced, \* the scenes whose row on record replaced one still being validated
  cut        \* the products shown as DISCOVERED whose ingestion was cut off

vars == <<source, derived, safe, file, report, cli, given, runs, earned, displaced, cut>>
store    == <<source, derived>>
disk     == <<safe, file, report>>
verdicts == <<earned, displaced>>
history  == <<verdicts, cut>>

Invoked(pc, command, item, todo, exit) ==
  [pc |-> pc, command |-> command, item |-> item, todo |-> todo,
   sum |-> NONE, run |-> 0, failed |-> FALSE, exit |-> exit]
Idle(exit) == Invoked("idle", "none", "none", {}, exit)

\* The invocation c goes on at pc, or ends with an exit code.
Goto(c, pc)   == cli' = [cli EXCEPT ![c].pc = pc]
Exit(c, code) == cli' = [cli EXCEPT ![c] = Idle(code)]

At(c, pc) == cli[c].pc = pc

-----------------------------------------------------------------------------
(* Commands.                                                               *)

StartsAt(command) ==
  CASE command \in {"ingest", "run"}           -> "next"
    [] command \in {"process", "validate"}     -> "read"
    [] command \in {"reprocess", "revalidate"} -> "resolve"

\* main: one command on one scene (ingest and run discover all products;
\* the derived product of a scene is reprocessed as the scene itself).
Start(c) ==
  /\ At(c, "idle") /\ given < MaxCommands
  /\ \E command \in Commands, s \in Scene :
       cli' = [cli EXCEPT ![c] = Invoked(StartsAt(command), command, s,
                 IF command \in {"ingest", "run"} THEN Product ELSE {}, -1)]
  /\ given' = given + 1
  /\ UNCHANGED <<store, disk, runs, history>>

\* Where an ingestion is that has written its stub, or tried to.
Underway == {"download", "begin", "copy", "checksum", "verify", "register", "failed"}

\* The invocation c ends, whatever it was doing.
CutOff(c) ==
  /\ Exit(c, 1)
  /\ cut' = IF cli[c].pc \in Underway /\ source[cli[c].item].status = "DISCOVERED"
            THEN cut \cup {cli[c].item} ELSE cut
  /\ UNCHANGED verdicts

\* An exception that nothing catches, or a kill.
Crash(c) ==
  /\ MayCrash /\ ~At(c, "idle")
  /\ CutOff(c)
  /\ UNCHANGED <<store, disk, given, runs>>

-----------------------------------------------------------------------------
(* ingest.                                                                 *)

\* The next reference of the search.
NextProduct(c) ==
  /\ At(c, "next") /\ cli[c].todo # {}
  /\ \E p \in cli[c].todo :
       cli' = [cli EXCEPT ![c].pc = "stub", ![c].item = p, ![c].todo = @ \ {p}]
  /\ UNCHANGED <<store, disk, given, runs, history>>

\* All references done: exit 1 if one failed; the command run goes on to process.
IngestDone(c) ==
  /\ At(c, "next") /\ cli[c].todo = {}
  /\ \/ cli[c].failed /\ Exit(c, 1)
     \/ ~cli[c].failed /\ cli[c].command = "ingest" /\ Exit(c, 0)
     \/ /\ ~cli[c].failed /\ cli[c].command = "run"
        /\ \E s \in Scene : cli' = [cli EXCEPT ![c].pc = "read", ![c].item = s]
  /\ UNCHANGED <<store, disk, given, runs, history>>

\* Mutant: no stub for a product that is in the catalogue already.
StubKeepsRow(c) ==
  /\ At(c, "stub")
  /\ source' = IF source[cli[c].item] # NoRow THEN source
               ELSE [source EXCEPT ![cli[c].item] = [status |-> "DISCOVERED", path |-> FALSE]]
  /\ Goto(c, "download") /\ cut' = cut \ {cli[c].item}
  /\ UNCHANGED <<derived, disk, given, runs, verdicts>>

\* The DISCOVERED stub replaces whatever row there is.
Stub(c) ==
  /\ At(c, "stub")
  /\ source' = [source EXCEPT ![cli[c].item] = [status |-> "DISCOVERED", path |-> FALSE]]
  /\ Goto(c, "download") /\ cut' = cut \ {cli[c].item}
  /\ UNCHANGED <<derived, disk, given, runs, verdicts>>

\* download: an earlier folder is removed ...
DownloadClear(c) ==
  /\ At(c, "download")
  /\ safe' = [safe EXCEPT ![cli[c].item] = NONE]
  /\ Goto(c, "begin")
  /\ UNCHANGED <<store, file, report, given, runs, history>>

\* ... before the new one is begun.
DownloadBegin(c) ==
  /\ At(c, "begin")
  /\ safe' = [safe EXCEPT ![cli[c].item] = PARTIAL]
  /\ Goto(c, "copy")
  /\ UNCHANGED <<store, file, report, given, runs, history>>

DownloadEnd(c) ==
  /\ At(c, "copy")
  /\ safe' = [safe EXCEPT ![cli[c].item] = WHOLE]
  /\ Goto(c, "checksum")
  /\ UNCHANGED <<store, file, report, given, runs, history>>

\* compute_sha256 and product_size_bytes.
Checksum(c) ==
  /\ At(c, "checksum")
  /\ cli' = [cli EXCEPT ![c].pc = "verify", ![c].sum = safe[cli[c].item]]
  /\ UNCHANGED <<store, disk, given, runs, history>>

\* verify_integrity: a mismatch raises.
Verify(c) ==
  /\ At(c, "verify")
  /\ Goto(c, IF safe[cli[c].item] = cli[c].sum THEN "register" ELSE "failed")
  /\ UNCHANGED <<store, disk, given, runs, history>>

Register(c) ==
  /\ At(c, "register")
  /\ source' = [source EXCEPT ![cli[c].item] = [status |-> "REGISTERED", path |-> TRUE]]
  /\ Goto(c, "next") /\ cut' = cut \ {cli[c].item}
  /\ UNCHANGED <<derived, disk, given, runs, verdicts>>

\* Mutant: a product whose download fails is skipped.
RaisesSkips(c) ==
  /\ IoMayFail
  /\ cli[c].pc \in {"stub", "download", "begin", "copy", "checksum", "verify", "register"}
  /\ IF cli[c].pc \in {"download", "begin", "copy"}
     THEN cli' = [cli EXCEPT ![c].pc = "next", ![c].failed = TRUE]
     ELSE Goto(c, "failed")
  /\ UNCHANGED <<store, disk, given, runs, history>>

\* Any step of the try block may raise: the handler dead-letters the product.
Raises(c) ==
  /\ IoMayFail
  /\ cli[c].pc \in {"stub", "download", "begin", "copy", "checksum", "verify", "register"}
  /\ Goto(c, "failed")
  /\ UNCHANGED <<store, disk, given, runs, history>>

\* Mutant: the handler counts the failure without recording it.
DeadLetterUnrecorded(c) ==
  /\ At(c, "failed")
  /\ cli' = [cli EXCEPT ![c].pc = "next", ![c].failed = TRUE]
  /\ UNCHANGED <<store, disk, given, runs, history>>

DeadLetter(c) ==
  /\ At(c, "failed")
  /\ source' = [source EXCEPT ![cli[c].item] = [status |-> "FAILED", path |-> FALSE]]
  /\ cli' = [cli EXCEPT ![c].pc = "next", ![c].failed = TRUE]
  /\ cut' = cut \ {cli[c].item}
  /\ UNCHANGED <<derived, disk, given, runs, verdicts>>

\* The handler's own catalogue.register may raise: nothing catches that.
DeadLetterRaises(c) ==
  /\ IoMayFail /\ At(c, "failed")
  /\ CutOff(c)
  /\ UNCHANGED <<store, disk, given, runs>>

Ingest(c) ==
  \/ NextProduct(c) \/ IngestDone(c) \/ Stub(c)
  \/ DownloadClear(c) \/ DownloadBegin(c) \/ DownloadEnd(c)
  \/ Checksum(c) \/ Verify(c) \/ Register(c)
  \/ Raises(c) \/ DeadLetter(c) \/ DeadLetterRaises(c)

-----------------------------------------------------------------------------
(* process, validate and reprocess.                                        *)

Reprocessing(c) == cli[c].command \in {"reprocess", "revalidate"}
Validating(c)   == cli[c].command \in {"validate", "revalidate"}

\* Mutant: the folder is looked for whatever the catalogue says of it.
ResolvableByFolder(s) == safe[s] # NONE

\* resolve_source_l1_dir: a row with a path, and a folder at that path.
Resolvable(s) == source[s].path /\ safe[s] # NONE

Resolve(c) ==
  /\ At(c, "resolve")
  /\ \/ Resolvable(cli[c].item) /\ Goto(c, "read")
     \/ ~Resolvable(cli[c].item) /\ Exit(c, 1)
  /\ UNCHANGED <<store, disk, given, runs, history>>

\* process_scene reads the scene, of the download directory when reprocessing
\* and of a directory given by the user (or the fixture) otherwise, screens it
\* and retrieves the temperatures.
Read(c) ==
  /\ At(c, "read") /\ runs < MaxRuns
  /\ Reprocessing(c) => safe[cli[c].item] # NONE
  /\ runs' = runs + 1
  /\ cli' = [cli EXCEPT ![c].pc = "write", ![c].run = runs + 1]
  /\ UNCHANGED <<store, disk, given, history>>

\* Mutant: a derived file that is there is kept.
WriteBeginOnce(c) ==
  /\ At(c, "write")
  /\ IF file[cli[c].item] > PARTIAL THEN file' = file /\ Goto(c, "insert")
     ELSE file' = [file EXCEPT ![cli[c].item] = PARTIAL] /\ Goto(c, "fill")
  /\ UNCHANGED <<store, safe, report, given, runs, history>>

\* write_derived_product truncates the file and then fills it.
WriteBegin(c) ==
  /\ At(c, "write")
  /\ file' = [file EXCEPT ![cli[c].item] = PARTIAL]
  /\ Goto(c, "fill")
  /\ UNCHANGED <<store, safe, report, given, runs, history>>

WriteEnd(c) ==
  /\ At(c, "fill")
  /\ file' = [file EXCEPT ![cli[c].item] = cli[c].run]
  /\ Goto(c, "insert")
  /\ UNCHANGED <<store, safe, report, given, runs, history>>

\* Where a processed scene goes next: run processes once more, to validate.
AfterInsert(c) ==
  IF cli[c].command = "run"
  THEN cli' = [cli EXCEPT ![c].pc = "read", ![c].command = "validate"]
  ELSE IF Validating(c) THEN Goto(c, "judge") ELSE Exit(c, 0)

\* Noted: the row of the scene is another's from now on.
Replaced(c) ==
  LET s == cli[c].item IN
  /\ earned' = earned \ {s}
  /\ \/ /\ \E d \in Cli \ {c} : cli[d].pc \in {"judge", "mark"} /\ cli[d].item = s
        /\ displaced' = displaced \cup {s}
     \/ /\ \A d \in Cli \ {c} : cli[d].pc \in {"judge", "mark"} => cli[d].item # s
        /\ displaced' = displaced \ {s}

\* Mutant: the row of an earlier run keeps its status.
InsertKeepsStatus(c) ==
  /\ At(c, "insert")
  /\ derived' = [derived EXCEPT ![cli[c].item] =
       [status |-> IF @ = NoDerived THEN "PROCESSED" ELSE @.status, run |-> cli[c].run]]
  /\ AfterInsert(c) /\ Replaced(c)
  /\ UNCHANGED <<source, disk, given, runs, cut>>

\* Mutant: the derived product is registered under the id of its source.
InsertUnderSourceId(c) ==
  /\ At(c, "insert")
  /\ source' = [source EXCEPT ![cli[c].item] = [status |-> "PROCESSED", path |-> TRUE]]
  /\ AfterInsert(c) /\ Replaced(c)
  /\ UNCHANGED <<derived, disk, given, runs, cut>>

\* process_scene registers the derived product in place of its earlier row.
Insert(c) ==
  /\ At(c, "insert")
  /\ derived' = [derived EXCEPT ![cli[c].item] = [status |-> "PROCESSED", run |-> cli[c].run]]
  /\ AfterInsert(c) /\ Replaced(c)
  /\ UNCHANGED <<source, disk, given, runs, cut>>

\* Noted: the run on record has passed.
Earned(c, verdict) ==
  IF verdict /\ derived[cli[c].item].run = cli[c].run THEN earned \cup {cli[c].item} ELSE earned

\* Mutant: the verdict of the gate does not decide.
JudgeIgnoresVerdict(c) ==
  /\ At(c, "judge")
  /\ \E verdict \in BOOLEAN :
       /\ report' = [report EXCEPT ![cli[c].item] = [run |-> cli[c].run, passed |-> verdict]]
       /\ earned' = Earned(c, verdict)
       /\ Goto(c, "mark")
  /\ UNCHANGED <<store, safe, file, given, runs, displaced, cut>>

\* validate_product on the product in memory; the verdict is the data's.
Judge(c) ==
  /\ At(c, "judge")
  /\ \E verdict \in BOOLEAN :
       /\ report' = [report EXCEPT ![cli[c].item] = [run |-> cli[c].run, passed |-> verdict]]
       /\ earned' = Earned(c, verdict)
       /\ IF verdict THEN Goto(c, "mark") ELSE Exit(c, 1)
  /\ UNCHANGED <<store, safe, file, given, runs, displaced, cut>>

\* update_status raises when the row is gone.
Mark(c) ==
  /\ At(c, "mark")
  /\ \/ /\ derived[cli[c].item] # NoDerived
        /\ derived' = [derived EXCEPT ![cli[c].item].status = "VALIDATED"]
        /\ Exit(c, 0)
     \/ derived[cli[c].item] = NoDerived /\ derived' = derived /\ Exit(c, 1)
  /\ UNCHANGED <<source, disk, given, runs, history>>

\* process_scene or validate_product raises: the traceback ends the command
\* and nothing is recorded.
ProcessRaises(c) ==
  /\ IoMayFail
  /\ cli[c].pc \in {"read", "write", "fill", "insert", "judge", "mark"}
  /\ Exit(c, 1)
  /\ UNCHANGED <<store, disk, given, runs, history>>

Process(c) ==
  \/ ProcessRaises(c)
  \/ Resolve(c) \/ Read(c) \/ WriteBegin(c) \/ WriteEnd(c)
  \/ Insert(c) \/ Judge(c) \/ Mark(c)

-----------------------------------------------------------------------------
Init ==
  /\ source = [p \in Product |-> NoRow]
  /\ derived = [s \in Scene |-> NoDerived]
  /\ safe = [p \in Product |-> NONE]
  /\ file = [s \in Scene |-> NONE]
  /\ report = [s \in Scene |-> NoReport]
  /\ cli = [c \in Cli |-> Idle(-1)]
  /\ given = 0 /\ runs = 0 /\ earned = {} /\ displaced = {} /\ cut = {}

Next == \E c \in Cli : Start(c) \/ Crash(c) \/ Ingest(c) \/ Process(c)

Spec == Init /\ [][Next]_vars

\* Invocations that overlap, but never work on the same product at a time: the code
\* locks no product, so whoever gives the commands has to see to that. An invocation that
\* is killed gets into nobody's way.
Working(c) == cli[c].pc \notin {"idle", "next"}
Apart ==
  \A c, d \in Cli : c # d /\ Working(c) /\ Working(d) => cli[c].item # cli[d].item
ApartNext == \E c \in Cli : Crash(c) \/ ((Start(c) \/ Ingest(c) \/ Process(c)) /\ Apart')
ApartSpec == Init /\ [][ApartNext]_vars

\* A running invocation goes on until it ends; commands come when they come.
FairSpec == Spec /\ \A c \in Cli : WF_vars(Ingest(c) \/ Process(c))

-----------------------------------------------------------------------------
IngestPc  == {"stub"} \cup Underway
ProcessPc == {"resolve", "read", "write", "fill", "insert", "judge", "mark"}
Pc == {"idle", "next", "stub", "download", "begin", "copy", "checksum", "verify", "register",
       "failed", "resolve", "read", "write", "fill", "insert", "judge", "mark"}

SourceRow ==
  {NoRow} \cup [status : {"DISCOVERED", "FAILED"}, path : {FALSE}]
          \cup [status : {"REGISTERED"}, path : {TRUE}]
DerivedRow == {NoDerived} \cup [status : {"PROCESSED", "VALIDATED"}, run : 1 .. MaxRuns]

Invocation ==
  [pc : Pc, command : Command \cup {"none"}, item : Product \cup {"none"}, todo : SUBSET Product,
   sum : {NONE, PARTIAL, WHOLE}, run : 0 .. MaxRuns, failed : BOOLEAN, exit : {-1, 0, 1}]

\* The type invariant: a path is on record exactly for REGISTERED products,
\* and an invocation has an item, and a run, from where it needs them.
TypeOK ==
  /\ source \in [Product -> SourceRow]
  /\ derived \in [Scene -> DerivedRow]
  /\ safe \in [Product -> {NONE, PARTIAL, WHOLE}]
  /\ file \in [Scene -> NONE .. MaxRuns]
  /\ report \in [Scene -> [run : 0 .. MaxRuns, passed : BOOLEAN]]
  /\ cli \in [Cli -> Invocation]
  /\ given \in 0 .. MaxCommands /\ runs \in 0 .. MaxRuns
  /\ earned \subseteq Scene /\ displaced \subseteq Scene /\ cut \subseteq Product
  /\ \A c \in Cli :
       /\ cli[c].pc \in IngestPc => cli[c].item \in Product
       /\ cli[c].pc \in ProcessPc => cli[c].item \in Scene
       /\ cli[c].pc \in {"write", "fill", "insert", "judge", "mark"} => cli[c].run \in 1 .. runs

-----------------------------------------------------------------------------
(* True of commands that keep apart (ApartSpec), those given one after     *)
(* another among them, whatever ends them.                                 *)

\* A product on record as REGISTERED has its whole SAFE folder on disk
\* (ingest): not one that is being replaced, nor what a failure left of it.
RegisteredIsWhole == \A p \in Product : source[p].path => safe[p] = WHOLE

\* A product on record as VALIDATED is backed by its report (process_scene,
\* _cmd_validate, reprocess_product): validation.json is of the very run the
\* catalogue's provenance names, and it passed.
ReportBacksValidated ==
  \A s \in Scene : derived[s].status = "VALIDATED" =>
    report[s] = [run |-> derived[s].run, passed |-> TRUE]

\* The catalogue never runs ahead of the disk (process_scene): the derived
\* file is of the run on record or of a later one, or a later one is (or was,
\* when it was cut off) writing it.
CatalogueNeverAhead ==
  \A s \in Scene : derived[s] # NoDerived =>
    file[s] = PARTIAL \/ file[s] >= derived[s].run

\* A validating command that exits with 0 leaves a passing report and its own
\* run VALIDATED (_cmd_validate, _cmd_reprocess; REQ-VAL-03).
PassingExit(c) ==
  Validating(c) /\ cli'[c].pc = "idle" /\ cli'[c].exit = 0 =>
    /\ report[cli[c].item] = [run |-> cli[c].run, passed |-> TRUE]
    /\ derived'[cli[c].item] = [status |-> "VALIDATED", run |-> cli[c].run]
GateDecides == [][\A c \in Cli : PassingExit(c)]_cli

\* Reprocessing reads a whole scene (resolve_source_l1_dir): never a folder
\* that a failed or interrupted download has left.
ReprocessReadsWhole ==
  \A c \in Cli : At(c, "read") /\ Reprocessing(c) => safe[cli[c].item] = WHOLE

\* The segment implements ProductRecord: whatever ends its invocations, a status
\* goes forward only on what the disk holds (ProductStatus, Provenance).
Record ==
  INSTANCE ProductRecord WITH
    status     <- [p \in Product |-> source[p].status],
    held       <- {p \in Product : safe[p] = WHOLE},
    data       <- file,
    Run        <- 1 .. MaxRuns,
    Unfinished <- PARTIAL
RecordSpec == Record!RecordSpec

-----------------------------------------------------------------------------
(* True of commands that overlap.                                          *)

\* A product is on record as VALIDATED only if the run on record has itself passed
\* the gate (process_scene, _cmd_validate, reprocess_product), or its row replaced
\* that of a run still being validated: update_status goes by the product's id, and
\* the mark of the earlier run may fall on the row of the later one.
ValidatedOnlyIfOvertaken ==
  \A s \in Scene : derived[s].status = "VALIDATED" => s \in earned \cup displaced

\* A product is never left as DISCOVERED (ingest): some invocation is still at it,
\* or the last one has been cut off, by a kill or by the failure of the handler's
\* own write to the catalogue.
NoneForgotten ==
  \A p \in Product : source[p].status = "DISCOVERED" =>
    p \in cut \/ \E c \in Cli : cli[c].pc \in Underway /\ cli[c].item = p

\* A product that ingest has shown as DISCOVERED is REGISTERED or FAILED in the end
\* (ingest's handler), or its ingestion is cut off.
IngestSettles ==
  \A p \in Product :
    source[p].status = "DISCOVERED" ~> source[p].status \in {"REGISTERED", "FAILED"} \/ p \in cut

-----------------------------------------------------------------------------
(* What the documentation says, and the code does not do.                  *)

\* A FAILED scene can be re-attempted with reprocess (operations guide).
FailedCanBeReprocessed ==
  [][\A c \in Cli :
       At(c, "resolve") /\ cli[c].pc # cli'[c].pc /\ source[cli[c].item].status = "FAILED" =>
         cli'[c].pc = "read"]_cli
==============================================================================
