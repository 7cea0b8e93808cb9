------------------------- MODULE PayloadPipelineProofs -------------------------
(***************************************************************************)
(* Theorems about PayloadPipeline, for any products, invocations and       *)
(* bounds. Those about the agreement of catalogue, disk and reports are of *)
(* invocations that keep apart (ApartSpec).                                *)
(***************************************************************************)
EXTENDS PayloadPipeline, TLAPS

USE DEF Underway

LEMMA InitTypeOK == Init => TypeOK
BY PipelineAssumption DEF Init, TypeOK, SourceRow, DerivedRow, Invocation, Idle, Invoked, NoRow, NoDerived,
     NoReport, NONE, PARTIAL, WHOLE, Pc, IngestPc, ProcessPc, Command

\* What the type invariant says of one invocation.
InvocationOK(c) ==
  /\ cli[c] \in Invocation
  /\ cli[c].pc \in IngestPc => cli[c].item \in Product
  /\ cli[c].pc \in ProcessPc => cli[c].item \in Scene
  /\ cli[c].pc \in {"write", "fill", "insert", "judge", "mark"} => cli[c].run \in 1 .. runs

\* A step of c touches no other invocation.
Touches(c, row) == cli' = [cli EXCEPT ![c] = row]

LEMMA CliTypeOK ==
  ASSUME TypeOK, NEW c \in Cli, NEW row \in Invocation, Touches(c, row),
         runs' \in 0 .. MaxRuns, runs' >= runs,
         row.pc \in IngestPc => row.item \in Product,
         row.pc \in ProcessPc => row.item \in Scene,
         row.pc \in {"write", "fill", "insert", "judge", "mark"} => row.run \in 1 .. runs'
  PROVE  /\ cli' \in [Cli -> Invocation]
         /\ \A d \in Cli : InvocationOK(d)'
<1>1. cli' \in [Cli -> Invocation]
  BY DEF TypeOK, Touches
<1>2. ASSUME NEW d \in Cli PROVE InvocationOK(d)'
  <2>1. CASE d = c
    BY <2>1, <1>1 DEF TypeOK, Touches, InvocationOK
  <2>2. CASE d # c
    BY <2>2, <1>1 DEF TypeOK, Touches, InvocationOK
  <2> QED BY <2>1, <2>2
<1> QED BY <1>1, <1>2

\* The invocation moves on with its item and its run.
LEMMA GotoTypeOK ==
  ASSUME TypeOK, NEW c \in Cli, NEW pc \in Pc, Goto(c, pc), UNCHANGED runs,
         pc \in IngestPc => cli[c].pc \in IngestPc,
         pc \in ProcessPc => cli[c].pc \in ProcessPc,
         pc \in {"write", "fill", "insert", "judge", "mark"} =>
           cli[c].pc \in {"write", "fill", "insert", "judge", "mark"}
  PROVE  /\ cli' \in [Cli -> Invocation]
         /\ \A d \in Cli : InvocationOK(d)'
<1> DEFINE row == [cli[c] EXCEPT !.pc = pc]
<1>1. cli[c] \in Invocation
  BY DEF TypeOK
<1>2. row \in Invocation /\ row.pc = pc /\ row.item = cli[c].item /\ row.run = cli[c].run
  BY <1>1 DEF Invocation
<1>3. Touches(c, row)
  BY DEF Touches, Goto, TypeOK
<1>4. runs' \in 0 .. MaxRuns /\ runs' >= runs
  BY PipelineAssumption DEF TypeOK
<1> HIDE DEF row
<1> QED BY <1>2, <1>3, <1>4, CliTypeOK DEF TypeOK

LEMMA ExitTypeOK ==
  ASSUME TypeOK, NEW c \in Cli, NEW code \in {0, 1}, Exit(c, code), UNCHANGED runs
  PROVE  /\ cli' \in [Cli -> Invocation]
         /\ \A d \in Cli : InvocationOK(d)'
<1>1. Idle(code) \in Invocation /\ Idle(code).pc = "idle"
  BY PipelineAssumption DEF Invocation, Idle, Invoked, Pc
<1>2. Touches(c, Idle(code))
  BY DEF Touches, Exit
<1>3. runs' \in 0 .. MaxRuns /\ runs' >= runs
  BY PipelineAssumption DEF TypeOK
<1> QED BY <1>1, <1>2, <1>3, CliTypeOK DEF IngestPc, ProcessPc

\* What the type invariant says of everything but the invocations.
StoreOK ==
  /\ source \in [Product -> SourceRow]
  /\ derived \in [Scene -> DerivedRow]
  /\ safe \in [Product -> {NONE, PARTIAL, WHOLE}]
  /\ file \in [Scene -> NONE .. MaxRuns]
  /\ report \in [Scene -> [run : 0 .. MaxRuns, passed : BOOLEAN]]
  /\ given \in 0 .. MaxCommands /\ runs \in 0 .. MaxRuns
  /\ earned \subseteq Scene /\ displaced \subseteq Scene /\ cut \subseteq Product

CliOK == cli \in [Cli -> Invocation] /\ \A c \in Cli : InvocationOK(c)

LEMMA TypeParts == (TypeOK <=> StoreOK /\ CliOK) /\ (TypeOK <=> StoreOK /\ CliOK)'
BY DEF TypeOK, StoreOK, CliOK, InvocationOK

LEMMA CutOffTypeOK ==
  ASSUME TypeOK, NEW c \in Cli, CutOff(c), UNCHANGED <<store, disk, given, runs>>
  PROVE  TypeOK'
<1>1. StoreOK /\ InvocationOK(c)
  BY TypeParts DEF CliOK
<1>2. CliOK'
  BY ExitTypeOK DEF CutOff, CliOK
<1>3. cut' \subseteq Product
  BY <1>1 DEF CutOff, StoreOK, InvocationOK, IngestPc
<1> QED BY <1>1, <1>2, <1>3, TypeParts DEF CutOff, StoreOK, verdicts, store, disk

LEMMA IngestTypeOK ==
  ASSUME TypeOK, NEW c \in Cli, Ingest(c)
  PROVE  TypeOK'
<1> USE PipelineAssumption
<1>0. StoreOK /\ InvocationOK(c) /\ cli \in [Cli -> Invocation] /\ cli[c].run \in 0 .. MaxRuns
      /\ cli[c].todo \subseteq Product /\ UNCHANGED runs
  BY TypeParts DEF CliOK, Invocation, Ingest, NextProduct, IngestDone, Stub, DownloadClear, DownloadBegin, DownloadEnd,
     Checksum, Verify, Register, Raises, DeadLetter, DeadLetterRaises, CutOff
<1>1. CASE NextProduct(c)
  <2>1. PICK p \in cli[c].todo :
          cli' = [cli EXCEPT ![c].pc = "stub", ![c].item = p, ![c].todo = @ \ {p}]
    BY <1>1 DEF NextProduct
  <2> DEFINE start == [cli[c] EXCEPT !.pc = "stub"]
             there == [start EXCEPT !.item = p]
             row == [there EXCEPT !.todo = @ \ {p}]
  <2>2. row \in Invocation /\ row.pc = "stub" /\ row.item \in Product
    <3>0. p \in Product /\ start \in Invocation /\ start.pc = "stub"
      BY <1>0 DEF Invocation, Pc
    <3> HIDE DEF start
    <3>1. there \in Invocation /\ there.pc = "stub" /\ there.item = p
      BY <3>0 DEF Invocation
    <3> HIDE DEF there
    <3> QED BY <3>0, <3>1 DEF Invocation
  <2>3. Touches(c, row)
    BY <1>0, <2>1 DEF Touches
  <2> HIDE DEF row
  <2>4. CliOK'
    BY <1>0, <2>2, <2>3, CliTypeOK DEF CliOK, StoreOK, ProcessPc
  <2> QED BY <1>0, <1>1, <2>4, TypeParts DEF NextProduct, StoreOK, history, verdicts, store, disk
<1>2. CASE IngestDone(c)
  <2>1. CASE Exit(c, 0) \/ Exit(c, 1)
    BY <1>0, <1>2, <2>1, ExitTypeOK, TypeParts DEF IngestDone, StoreOK, CliOK, history, verdicts, store, disk
  <2>2. CASE \E s \in Scene : cli' = [cli EXCEPT ![c].pc = "read", ![c].item = s]
    <3>1. PICK s \in Scene : cli' = [cli EXCEPT ![c].pc = "read", ![c].item = s]
      BY <2>2
    <3> DEFINE there == [cli[c] EXCEPT !.pc = "read"]
               row == [there EXCEPT !.item = s]
    <3>0. there \in Invocation /\ there.pc = "read"
      BY <1>0 DEF Invocation, Pc
    <3>2. row \in Invocation /\ row.pc = "read" /\ row.item \in Scene
      <4> HIDE DEF there
      <4> QED BY <3>0 DEF Invocation, Product
    <3>3. Touches(c, row)
      BY <1>0, <3>1 DEF Touches
    <3> HIDE DEF row
    <3>4. CliOK'
      BY <1>0, <3>2, <3>3, CliTypeOK DEF CliOK, StoreOK, IngestPc
    <3> QED BY <1>0, <1>2, <3>4, TypeParts DEF IngestDone, StoreOK, history, verdicts, store, disk
  <2> QED BY <1>2, <2>1, <2>2 DEF IngestDone
<1>3. CASE Stub(c)
  <2>1. CliOK'
    BY <1>0, <1>3, GotoTypeOK DEF Stub, At, CliOK, Pc, IngestPc, ProcessPc
  <2>2. cli[c].item \in Product /\ [status |-> "DISCOVERED", path |-> FALSE] \in SourceRow
    BY <1>0, <1>3 DEF Stub, At, InvocationOK, IngestPc, SourceRow
  <2> QED BY <1>0, <1>3, <2>1, <2>2, TypeParts DEF Stub, StoreOK, history, verdicts, disk
<1>4. CASE DownloadClear(c) \/ DownloadBegin(c)
  <2>1. CliOK'
    BY <1>0, <1>4, GotoTypeOK DEF DownloadClear, DownloadBegin, At, CliOK, Pc, IngestPc, ProcessPc
  <2> QED BY <1>0, <1>4, <2>1, TypeParts
         DEF DownloadClear, DownloadBegin, StoreOK, history, verdicts, store
<1>5. CASE DownloadEnd(c)
  <2>1. CliOK'
    BY <1>0, <1>5, GotoTypeOK DEF DownloadEnd, At, CliOK, Pc, IngestPc, ProcessPc
  <2> QED BY <1>0, <1>5, <2>1, TypeParts DEF DownloadEnd, StoreOK, history, verdicts, store
<1>6. CASE Checksum(c)
  <2> DEFINE there == [cli[c] EXCEPT !.pc = "verify"]
             row == [there EXCEPT !.sum = safe[cli[c].item]]
  <2>1. cli[c].item \in Product /\ safe[cli[c].item] \in {NONE, PARTIAL, WHOLE}
    BY <1>0, <1>6 DEF Checksum, At, InvocationOK, IngestPc, StoreOK
  <2>2. row \in Invocation /\ row.pc = "verify" /\ row.item \in Product
    <3>1. there \in Invocation /\ there.pc = "verify" /\ there.item = cli[c].item
      BY <1>0 DEF Invocation, Pc
    <3> HIDE DEF there
    <3> QED BY <2>1, <3>1 DEF Invocation
  <2>3. Touches(c, row)
    BY <1>0, <1>6 DEF Touches, Checksum
  <2> HIDE DEF row
  <2>4. CliOK'
    BY <1>0, <2>2, <2>3, CliTypeOK DEF CliOK, StoreOK, ProcessPc
  <2> QED BY <1>0, <1>6, <2>4, TypeParts DEF Checksum, StoreOK, history, verdicts, store, disk
<1>7. CASE Verify(c)
  <2>1. PICK pc \in {"register", "failed"} : Goto(c, pc)
    BY <1>7 DEF Verify
  <2>2. CliOK'
    BY <1>0, <1>7, <2>1, GotoTypeOK DEF Verify, At, CliOK, Pc, IngestPc, ProcessPc
  <2> QED BY <1>0, <1>7, <2>2, TypeParts DEF Verify, StoreOK, history, verdicts, store, disk
<1>8. CASE Register(c)
  <2>1. CliOK'
    BY <1>0, <1>8, GotoTypeOK DEF Register, At, CliOK, Pc, IngestPc, ProcessPc
  <2>2. cli[c].item \in Product /\ [status |-> "REGISTERED", path |-> TRUE] \in SourceRow
    BY <1>0, <1>8 DEF Register, At, InvocationOK, IngestPc, SourceRow
  <2> QED BY <1>0, <1>8, <2>1, <2>2, TypeParts DEF Register, StoreOK, history, verdicts, disk
<1>9. CASE Raises(c)
  <2>1. CliOK'
    BY <1>0, <1>9, GotoTypeOK DEF Raises, CliOK, Pc, IngestPc, ProcessPc
  <2> QED BY <1>0, <1>9, <2>1, TypeParts DEF Raises, StoreOK, history, verdicts, store, disk
<1>10. CASE DeadLetter(c)
  <2> DEFINE there == [cli[c] EXCEPT !.pc = "next"]
             row == [there EXCEPT !.failed = TRUE]
  <2>1. row \in Invocation /\ row.pc = "next"
    <3>1. there \in Invocation /\ there.pc = "next"
      BY <1>0 DEF Invocation, Pc
    <3> HIDE DEF there
    <3> QED BY <3>1 DEF Invocation
  <2>2. Touches(c, row)
    BY <1>0, <1>10 DEF Touches, DeadLetter
  <2> HIDE DEF row
  <2>3. CliOK'
    BY <1>0, <2>1, <2>2, CliTypeOK DEF CliOK, StoreOK, IngestPc, ProcessPc
  <2>4. cli[c].item \in Product /\ [status |-> "FAILED", path |-> FALSE] \in SourceRow
    BY <1>0, <1>10 DEF DeadLetter, At, InvocationOK, IngestPc, SourceRow
  <2> QED BY <1>0, <1>10, <2>3, <2>4, TypeParts DEF DeadLetter, StoreOK, history, verdicts, disk
<1>11. CASE DeadLetterRaises(c)
  <2>1. CutOff(c) /\ UNCHANGED <<store, disk, given, runs>>
    BY <1>11 DEF DeadLetterRaises
  <2> QED BY <2>1, CutOffTypeOK
<1> QED BY <1>1, <1>2, <1>3, <1>4, <1>5, <1>6, <1>7, <1>8, <1>9, <1>10, <1>11 DEF Ingest

LEMMA ProcessTypeOK ==
  ASSUME TypeOK, NEW c \in Cli, Process(c)
  PROVE  TypeOK'
<1> USE PipelineAssumption
<1>0. StoreOK /\ InvocationOK(c) /\ cli \in [Cli -> Invocation] /\ cli[c] \in Invocation
      /\ cli[c].run \in 0 .. MaxRuns /\ cli[c].todo \subseteq Product
  BY TypeParts DEF CliOK, Invocation
<1>1. CASE Resolve(c)
  <2>1. CASE Exit(c, 1)
    BY <1>0, <1>1, <2>1, ExitTypeOK, TypeParts DEF Resolve, StoreOK, CliOK, history, verdicts, store, disk
  <2>2. CASE Goto(c, "read")
    <3>1. CliOK'
      BY <1>0, <1>1, <2>2, GotoTypeOK DEF Resolve, At, CliOK, Pc, IngestPc, ProcessPc
    <3> QED BY <1>0, <1>1, <3>1, TypeParts DEF Resolve, StoreOK, history, verdicts, store, disk
  <2> QED BY <1>1, <2>1, <2>2 DEF Resolve
<1>2. CASE Read(c)
  <2> DEFINE there == [cli[c] EXCEPT !.pc = "write"]
             row == [there EXCEPT !.run = runs + 1]
  <2>1. runs' = runs + 1 /\ runs' \in 0 .. MaxRuns /\ cli[c].item \in Scene
    BY <1>0, <1>2 DEF Read, At, StoreOK, InvocationOK, ProcessPc
  <2>2. row \in Invocation /\ row.pc = "write" /\ row.item \in Scene /\ row.run \in 1 .. runs'
    <3>1. there \in Invocation /\ there.pc = "write" /\ there.item = cli[c].item
      BY <1>0 DEF Invocation, Pc
    <3>2. runs + 1 \in 0 .. MaxRuns /\ runs + 1 \in 1 .. runs'
      BY <1>0, <2>1 DEF StoreOK
    <3> HIDE DEF there
    <3> QED BY <2>1, <3>1, <3>2 DEF Invocation
  <2>3. Touches(c, row)
    BY <1>0, <1>2 DEF Touches, Read
  <2> HIDE DEF row
  <2>4. CliOK'
    <3>1. runs' >= runs
      BY <1>0, <2>1 DEF StoreOK
    <3> QED BY <2>1, <2>2, <2>3, <3>1, CliTypeOK DEF CliOK, IngestPc
  <2> QED BY <1>0, <1>2, <2>1, <2>4, TypeParts DEF Read, StoreOK, history, verdicts, store, disk
<1>3. CASE WriteBegin(c)
  <2>1. CliOK'
    BY <1>0, <1>3, GotoTypeOK DEF WriteBegin, At, CliOK, Pc, IngestPc, ProcessPc
  <2>2. PARTIAL \in NONE .. MaxRuns
    BY DEF PARTIAL, NONE
  <2> QED BY <1>0, <1>3, <2>1, <2>2, TypeParts DEF WriteBegin, StoreOK, history, verdicts, store
<1>4. CASE WriteEnd(c)
  <2>1. CliOK'
    BY <1>0, <1>4, GotoTypeOK DEF WriteEnd, At, CliOK, Pc, IngestPc, ProcessPc
  <2>2. cli[c].run \in NONE .. MaxRuns
    BY <1>0 DEF NONE
  <2> QED BY <1>0, <1>4, <2>1, <2>2, TypeParts DEF WriteEnd, StoreOK, history, verdicts, store
<1>5. CASE Insert(c)
  <2>1. cli[c].item \in Scene /\ cli[c].run \in 1 .. MaxRuns
        /\ [status |-> "PROCESSED", run |-> cli[c].run] \in DerivedRow
    BY <1>0, <1>5 DEF Insert, At, InvocationOK, StoreOK, ProcessPc, DerivedRow
  <2>2. StoreOK'
    <3>1. earned' \subseteq Scene /\ displaced' \subseteq Scene
      BY <1>0, <1>5, <2>1 DEF Insert, Replaced, StoreOK
    <3> QED BY <1>0, <1>5, <2>1, <3>1 DEF Insert, StoreOK, disk
  <2>3. CliOK'
    <3>1. CASE cli[c].command = "run"
      <4> DEFINE there == [cli[c] EXCEPT !.pc = "read"]
                 row == [there EXCEPT !.command = "validate"]
      <4>1. row \in Invocation /\ row.pc = "read" /\ row.item \in Scene
        <5>1. there \in Invocation /\ there.pc = "read" /\ there.item = cli[c].item
          BY <1>0 DEF Invocation, Pc
        <5>2. "validate" \in Command
          BY DEF Command
        <5> HIDE DEF there
        <5> QED BY <2>1, <5>1, <5>2 DEF Invocation
      <4>2. Touches(c, row)
        BY <1>0, <1>5, <3>1 DEF Touches, Insert, AfterInsert
      <4> HIDE DEF row
      <4> QED BY <1>0, <1>5, <2>2, <4>1, <4>2, CliTypeOK DEF CliOK, StoreOK, IngestPc, Insert
    <3>2. CASE cli[c].command # "run" /\ Validating(c)
      <4>1. Goto(c, "judge") /\ UNCHANGED runs /\ cli[c].pc = "insert"
        BY <1>5, <3>2 DEF Insert, AfterInsert, At
      <4> QED BY <4>1, GotoTypeOK DEF CliOK, Pc, IngestPc, ProcessPc
    <3>3. CASE cli[c].command # "run" /\ ~Validating(c)
      BY <1>5, <3>3, ExitTypeOK DEF Insert, AfterInsert, CliOK
    <3> QED BY <3>1, <3>2, <3>3
  <2> QED BY <2>2, <2>3, TypeParts
<1>6. CASE Judge(c)
  <2>1. PICK verdict \in BOOLEAN :
          /\ report' = [report EXCEPT ![cli[c].item] = [run |-> cli[c].run, passed |-> verdict]]
          /\ earned' = Earned(c, verdict)
          /\ IF verdict THEN Goto(c, "mark") ELSE Exit(c, 1)
    BY <1>6 DEF Judge
  <2>2. cli[c].item \in Scene
    BY <1>0, <1>6 DEF Judge, At, InvocationOK, ProcessPc
  <2>3. earned' \subseteq Scene /\ UNCHANGED <<displaced, cut>>
    BY <1>0, <1>6, <2>1, <2>2 DEF StoreOK, Earned, Judge
  <2>4. report' \in [Scene -> [run : 0 .. MaxRuns, passed : BOOLEAN]]
    BY <1>0, <2>1, <2>2 DEF StoreOK
  <2>5. CliOK'
    <3>1. CASE Goto(c, "mark")
      BY <1>0, <1>6, <3>1, GotoTypeOK DEF Judge, At, CliOK, Pc, IngestPc, ProcessPc
    <3>2. CASE Exit(c, 1)
      BY <1>6, <3>2, ExitTypeOK DEF Judge, CliOK
    <3> QED BY <2>1, <3>1, <3>2
  <2> QED BY <1>0, <1>6, <2>3, <2>4, <2>5, TypeParts DEF Judge, StoreOK, history, verdicts, store
<1>7. CASE Mark(c)
  <2>1. CliOK'
    BY <1>7, ExitTypeOK DEF Mark, CliOK
  <2>2. derived' \in [Scene -> DerivedRow]
    <3>1. CASE derived' = derived
      BY <1>0, <3>1 DEF StoreOK
    <3>2. CASE /\ derived[cli[c].item] # NoDerived
               /\ derived' = [derived EXCEPT ![cli[c].item].status = "VALIDATED"]
      <4>1. cli[c].item \in Scene
        BY <1>0, <1>7 DEF Mark, At, InvocationOK, ProcessPc
      <4> DEFINE row == derived[cli[c].item]
      <4>2. row \in [status : {"PROCESSED", "VALIDATED"}, run : 1 .. MaxRuns]
        BY <1>0, <3>2, <4>1 DEF StoreOK, DerivedRow
      <4>3. [row EXCEPT !.status = "VALIDATED"] \in DerivedRow
        <5> HIDE DEF row
        <5> QED BY <4>2 DEF DerivedRow
      <4> QED BY <1>0, <3>2, <4>1, <4>3 DEF StoreOK
    <3> QED BY <1>7, <3>1, <3>2 DEF Mark
  <2> QED BY <1>0, <1>7, <2>1, <2>2, TypeParts DEF Mark, StoreOK, history, verdicts, disk
<1>8. CASE ProcessRaises(c)
  <2>1. CliOK'
    BY <1>8, ExitTypeOK DEF ProcessRaises, CliOK
  <2> QED BY <1>0, <1>8, <2>1, TypeParts DEF ProcessRaises, StoreOK, history, verdicts, store, disk
<1> QED BY <1>1, <1>2, <1>3, <1>4, <1>5, <1>6, <1>7, <1>8 DEF Process

LEMMA CommandTypeOK ==
  ASSUME TypeOK, NEW c \in Cli, Start(c) \/ Crash(c)
  PROVE  TypeOK'
<1>0. StoreOK
  BY TypeParts
<1>1. CASE Start(c)
  <2>1. PICK command \in Commands, s \in Scene :
          cli' = [cli EXCEPT ![c] = Invoked(StartsAt(command), command, s,
                    IF command \in {"ingest", "run"} THEN Product ELSE {}, -1)]
    BY <1>1 DEF Start
  <2> DEFINE todo == IF command \in {"ingest", "run"} THEN Product ELSE {}
             row == Invoked(StartsAt(command), command, s, todo, -1)
  <2>2. StartsAt(command) \in {"next", "read", "resolve"} /\ command \in Command
    BY PipelineAssumption DEF StartsAt, Command
  <2>3. todo \subseteq Product /\ s \in Product
    BY DEF Product
  <2>4. row.pc = StartsAt(command) /\ row.item = s
    BY DEF Invoked
  <2>5. row \in Invocation
    <3> HIDE DEF todo
    <3> QED BY PipelineAssumption, <2>2, <2>3 DEF Invocation, Invoked, Pc
  <2>6. Touches(c, row)
    BY <2>1 DEF Touches
  <2>7. runs' \in 0 .. MaxRuns /\ runs' >= runs
    BY PipelineAssumption, <1>0, <1>1 DEF Start, StoreOK
  <2> HIDE DEF row
  <2>8. CliOK'
    BY <2>2, <2>4, <2>5, <2>6, <2>7, CliTypeOK DEF CliOK, IngestPc, Product
  <2> QED BY PipelineAssumption, <1>0, <1>1, <2>8, TypeParts DEF Start, StoreOK, history, verdicts, store, disk
<1>2. CASE Crash(c)
  BY <1>2, CutOffTypeOK DEF Crash
<1> QED BY <1>1, <1>2

LEMMA StepTypeOK == TypeOK /\ [Next]_vars => TypeOK'
<1> SUFFICES ASSUME TypeOK, [Next]_vars PROVE TypeOK'
  OBVIOUS
<1>1. CASE Next
  BY <1>1, CommandTypeOK, IngestTypeOK, ProcessTypeOK DEF Next
<1>2. CASE UNCHANGED vars
  BY <1>2 DEF TypeOK, vars
<1> QED BY <1>1, <1>2

\* Every reachable state of the payload segment is well typed, however many
\* invocations overlap and wherever they fail: of the rows of ingested
\* products exactly the REGISTERED ones have a path on record.
THEOREM TypeCorrect == Spec => []TypeOK
BY InitTypeOK, StepTypeOK, PTL DEF Spec

-----------------------------------------------------------------------------
(* Commands that keep apart.                                               *)

\* What the invocation c relies on between its steps, and nothing but its own
\* steps may disturb: the row it took the path from, the folder it has
\* downloaded, the file, the row and the report of its run.
StepInv(c) ==
  /\ cli[c].pc \in {"download", "begin", "copy", "checksum", "verify", "register"} =>
       source[cli[c].item] = [status |-> "DISCOVERED", path |-> FALSE]
  /\ cli[c].pc \in {"checksum", "verify", "register"} => safe[cli[c].item] = WHOLE
  /\ cli[c].pc \in {"write", "fill", "insert"} => derived[cli[c].item].run < cli[c].run
  /\ cli[c].pc = "insert" => file[cli[c].item] = cli[c].run
  /\ cli[c].pc \in {"judge", "mark"} =>
       derived[cli[c].item] = [status |-> "PROCESSED", run |-> cli[c].run]
  /\ cli[c].pc = "mark" => report[cli[c].item] = [run |-> cli[c].run, passed |-> TRUE]
  /\ At(c, "read") /\ Reprocessing(c) => safe[cli[c].item] = WHOLE

\* A run on record has been made.
RunsOnRecord == \A s \in Scene : derived[s].run <= runs

IInv ==
  /\ TypeOK
  /\ RegisteredIsWhole /\ ReportBacksValidated /\ CatalogueNeverAhead /\ RunsOnRecord
  /\ \A c \in Cli : StepInv(c)
  /\ Apart

LEMMA GotoFields ==
  ASSUME TypeOK, NEW c \in Cli, NEW pc, Goto(c, pc)
  PROVE  /\ cli'[c].pc = pc /\ cli'[c].item = cli[c].item /\ cli'[c].run = cli[c].run
         /\ cli'[c].command = cli[c].command /\ cli'[c].sum = cli[c].sum
BY DEF TypeOK, Goto, Invocation

LEMMA ExitFields ==
  ASSUME TypeOK, NEW c \in Cli, NEW code, Exit(c, code)
  PROVE  cli'[c].pc = "idle" /\ cli'[c].exit = code
BY DEF TypeOK, Exit, Idle, Invoked

LEMMA ItemOK ==
  ASSUME TypeOK, NEW c \in Cli
  PROVE  /\ cli[c].pc \in IngestPc => cli[c].item \in Product
         /\ cli[c].pc \in ProcessPc => cli[c].item \in Scene
         /\ cli[c].pc \in {"write", "fill", "insert", "judge", "mark"} =>
              cli[c].run \in 1 .. runs
BY DEF TypeOK

LEMMA InitInv == Init => IInv
BY InitTypeOK, PipelineAssumption DEF Init, IInv, RegisteredIsWhole, ReportBacksValidated,
   CatalogueNeverAhead, RunsOnRecord, StepInv, NoRow, NoDerived, Idle, Invoked, At, Product,
   Apart, Working

\* Ingestion touches neither derived products, nor their files, nor reports.
LEMMA IngestInv ==
  ASSUME IInv, NEW c \in Cli, Ingest(c)
  PROVE  RegisteredIsWhole' /\ StepInv(c)'
<1> USE DEF IInv
<1>0. /\ source \in [Product -> SourceRow] /\ safe \in [Product -> {NONE, PARTIAL, WHOLE}]
      /\ cli \in [Cli -> Invocation]
  BY DEF TypeOK
<1>1. CASE NextProduct(c)
  <2>1. cli'[c].pc = "stub"
    BY <1>0, <1>1 DEF NextProduct, Invocation
  <2> QED BY <1>1, <2>1 DEF NextProduct, RegisteredIsWhole, StepInv, At, store, disk
<1>2. CASE IngestDone(c)
  <2>1. cli'[c].pc = "idle" \/ (cli'[c].pc = "read" /\ cli'[c].command = "run")
    <3>1. CASE Exit(c, 0) \/ Exit(c, 1)
      BY <3>1, ExitFields
    <3>2. CASE /\ cli[c].command = "run"
               /\ \E s \in Scene : cli' = [cli EXCEPT ![c].pc = "read", ![c].item = s]
      BY <1>0, <3>2 DEF Invocation
    <3> QED BY <1>2, <3>1, <3>2 DEF IngestDone
  <2> QED BY <1>2, <2>1 DEF IngestDone, RegisteredIsWhole, StepInv, At, Reprocessing, store, disk
<1>3. CASE Stub(c)
  <2>1. cli[c].item \in Product
    BY <1>3, ItemOK DEF Stub, At, IngestPc
  <2>2. cli'[c].pc = "download" /\ cli'[c].item = cli[c].item
    BY <1>3, GotoFields DEF Stub
  <2> QED BY <1>0, <1>3, <2>1, <2>2 DEF Stub, RegisteredIsWhole, StepInv, At, disk
<1>4. CASE DownloadClear(c) \/ DownloadBegin(c)
  <2>1. cli[c].item \in Product /\ source[cli[c].item] = [status |-> "DISCOVERED", path |-> FALSE]
    BY <1>4, ItemOK DEF DownloadClear, DownloadBegin, At, IngestPc, StepInv
  <2>2. cli'[c].pc \in {"begin", "copy"} /\ cli'[c].item = cli[c].item
    BY <1>4, GotoFields DEF DownloadClear, DownloadBegin
  <2> QED BY <1>0, <1>4, <2>1, <2>2
         DEF DownloadClear, DownloadBegin, RegisteredIsWhole, StepInv, At, store
<1>5. CASE DownloadEnd(c)
  <2>1. cli[c].item \in Product /\ source[cli[c].item] = [status |-> "DISCOVERED", path |-> FALSE]
    BY <1>5, ItemOK DEF DownloadEnd, At, IngestPc, StepInv
  <2>2. cli'[c].pc = "checksum" /\ cli'[c].item = cli[c].item
    BY <1>5, GotoFields DEF DownloadEnd
  <2> QED BY <1>0, <1>5, <2>1, <2>2 DEF DownloadEnd, RegisteredIsWhole, StepInv, At, store
<1>6. CASE Checksum(c)
  <2>1. source[cli[c].item] = [status |-> "DISCOVERED", path |-> FALSE] /\ safe[cli[c].item] = WHOLE
    BY <1>6 DEF Checksum, At, StepInv
  <2>2. cli'[c].pc = "verify" /\ cli'[c].item = cli[c].item
    BY <1>0, <1>6 DEF Checksum, Invocation
  <2> QED BY <1>6, <2>1, <2>2 DEF Checksum, RegisteredIsWhole, StepInv, At, store, disk
<1>7. CASE Verify(c)
  <2>1. source[cli[c].item] = [status |-> "DISCOVERED", path |-> FALSE] /\ safe[cli[c].item] = WHOLE
    BY <1>7 DEF Verify, At, StepInv
  <2>2. cli'[c].pc \in {"register", "failed"} /\ cli'[c].item = cli[c].item
    BY <1>7, GotoFields DEF Verify
  <2> QED BY <1>7, <2>1, <2>2 DEF Verify, RegisteredIsWhole, StepInv, At, store, disk
<1>8. CASE Register(c)
  <2>1. cli[c].item \in Product /\ safe[cli[c].item] = WHOLE
    BY <1>8, ItemOK DEF Register, At, IngestPc, StepInv
  <2>2. cli'[c].pc = "next"
    BY <1>8, GotoFields DEF Register
  <2> QED BY <1>0, <1>8, <2>1, <2>2 DEF Register, RegisteredIsWhole, StepInv, At, disk
<1>9. CASE Raises(c)
  <2>1. cli'[c].pc = "failed"
    BY <1>9, GotoFields DEF Raises
  <2> QED BY <1>9, <2>1 DEF Raises, RegisteredIsWhole, StepInv, At, store, disk
<1>10. CASE DeadLetter(c)
  <2>1. cli[c].item \in Product
    BY <1>10, ItemOK DEF DeadLetter, At, IngestPc
  <2>2. cli'[c].pc = "next"
    BY <1>0, <1>10 DEF DeadLetter, Invocation
  <2> QED BY <1>0, <1>10, <2>1, <2>2 DEF DeadLetter, RegisteredIsWhole, StepInv, At, disk
<1>11. CASE DeadLetterRaises(c)
  <2>1. cli'[c].pc = "idle"
    BY <1>11, ExitFields DEF DeadLetterRaises, CutOff
  <2> QED BY <1>11, <2>1 DEF DeadLetterRaises, RegisteredIsWhole, StepInv, At, store, disk
<1> QED BY <1>1, <1>2, <1>3, <1>4, <1>5, <1>6, <1>7, <1>8, <1>9, <1>10, <1>11 DEF Ingest

\* Processing touches neither the rows of ingested products nor SAFE folders.
LEMMA ProcessInv ==
  ASSUME IInv, NEW c \in Cli, Process(c)
  PROVE  ReportBacksValidated' /\ CatalogueNeverAhead' /\ RunsOnRecord' /\ StepInv(c)'
<1> USE DEF IInv
<1>0. /\ derived \in [Scene -> DerivedRow] /\ file \in [Scene -> NONE .. MaxRuns]
      /\ report \in [Scene -> [run : 0 .. MaxRuns, passed : BOOLEAN]]
      /\ cli \in [Cli -> Invocation] /\ runs \in Nat
      /\ \A s \in Scene : derived[s].run \in Nat
  BY PipelineAssumption DEF TypeOK, DerivedRow, NoDerived
<1>1. CASE Resolve(c)
  <2>1. CASE Exit(c, 1)
    BY <1>1, <2>1, ExitFields DEF Resolve, ReportBacksValidated, CatalogueNeverAhead, RunsOnRecord,
       StepInv, At, store, disk
  <2>2. CASE Goto(c, "read") /\ Resolvable(cli[c].item)
    <3>1. safe[cli[c].item] = WHOLE
      <4>1. cli[c].item \in Product
        BY <1>1, ItemOK DEF Resolve, At, ProcessPc, Product
      <4> QED BY <2>2, <4>1 DEF Resolvable, RegisteredIsWhole
    <3>2. cli'[c].pc = "read" /\ cli'[c].item = cli[c].item
      BY <2>2, GotoFields
    <3> QED BY <1>1, <3>1, <3>2 DEF Resolve, ReportBacksValidated, CatalogueNeverAhead, RunsOnRecord,
          StepInv, At, store, disk
  <2> QED BY <1>1, <2>1, <2>2 DEF Resolve
<1>2. CASE Read(c)
  <2>1. runs' = runs + 1 /\ cli[c].item \in Scene
    BY <1>2, ItemOK DEF Read, At, ProcessPc
  <2>2. cli'[c].pc = "write" /\ cli'[c].item = cli[c].item /\ cli'[c].run = runs + 1
    BY <1>0, <1>2 DEF Read, Invocation
  <2>3. RunsOnRecord' /\ derived[cli[c].item].run < cli'[c].run
    BY <1>0, <1>2, <2>1, <2>2 DEF Read, RunsOnRecord, store
  <2> QED BY <1>2, <2>2, <2>3 DEF Read, ReportBacksValidated, CatalogueNeverAhead, StepInv, At, store, disk
<1>3. CASE WriteBegin(c)
  <2>1. cli[c].item \in Scene /\ derived[cli[c].item].run < cli[c].run
    BY <1>3, ItemOK DEF WriteBegin, At, ProcessPc, StepInv
  <2>2. cli'[c].pc = "fill" /\ cli'[c].item = cli[c].item /\ cli'[c].run = cli[c].run
    BY <1>3, GotoFields DEF WriteBegin
  <2>3. CatalogueNeverAhead'
    BY <1>0, <1>3, <2>1 DEF WriteBegin, CatalogueNeverAhead, store
  <2> QED BY <1>3, <2>1, <2>2, <2>3 DEF WriteBegin, ReportBacksValidated, RunsOnRecord, StepInv, At, store
<1>4. CASE WriteEnd(c)
  <2>1. cli[c].item \in Scene /\ derived[cli[c].item].run < cli[c].run
    BY <1>4, ItemOK DEF WriteEnd, At, ProcessPc, StepInv
  <2>2. cli'[c].pc = "insert" /\ cli'[c].item = cli[c].item /\ cli'[c].run = cli[c].run
    BY <1>4, GotoFields DEF WriteEnd
  <2>3. file' = [file EXCEPT ![cli[c].item] = cli[c].run] /\ UNCHANGED <<store, report, runs>>
    BY <1>4 DEF WriteEnd
  <2>4. CatalogueNeverAhead'
    <3> SUFFICES ASSUME NEW s \in Scene, derived[s] # NoDerived
                 PROVE  file'[s] = PARTIAL \/ file'[s] >= derived[s].run
      BY <2>3 DEF CatalogueNeverAhead, store
    <3>1. CASE s = cli[c].item
      <4>1. file'[s] = cli[c].run /\ cli[c].run \in Nat /\ derived[s].run \in Nat
        BY <1>0, <1>4, <2>3, <3>1, ItemOK DEF WriteEnd, At
      <4> QED BY <2>1, <3>1, <4>1
    <3>2. CASE s # cli[c].item
      BY <1>0, <2>3, <3>2 DEF CatalogueNeverAhead
    <3> QED BY <3>1, <3>2
  <2> QED BY <1>0, <2>1, <2>2, <2>3, <2>4 DEF ReportBacksValidated, RunsOnRecord, StepInv, At, store
<1>5. CASE Insert(c)
  <2>1. cli[c].item \in Scene /\ cli[c].run \in 1 .. runs /\ file[cli[c].item] = cli[c].run
    BY <1>5, ItemOK DEF Insert, At, ProcessPc, StepInv
  <2> DEFINE row == [status |-> "PROCESSED", run |-> cli[c].run]
  <2>2. /\ derived'[cli[c].item] = row
        /\ \A s \in Scene : s # cli[c].item => derived'[s] = derived[s]
        /\ row.status = "PROCESSED" /\ row.run = cli[c].run
        /\ UNCHANGED <<file, report, runs>>
    BY <1>0, <1>5, <2>1 DEF Insert, disk
  <2> HIDE DEF row
  <2>3. ReportBacksValidated'
    BY <2>2 DEF ReportBacksValidated
  <2>4. CatalogueNeverAhead' /\ RunsOnRecord'
    BY <1>0, <2>1, <2>2 DEF CatalogueNeverAhead, RunsOnRecord
  <2>5. StepInv(c)'
    <3>1. CASE cli[c].command = "run"
      <4>1. cli'[c].pc = "read" /\ cli'[c].command = "validate"
        BY <1>0, <1>5, <3>1 DEF Insert, AfterInsert, Invocation
      <4> QED BY <4>1 DEF StepInv, At, Reprocessing
    <3>2. CASE Goto(c, "judge")
      <4>1. cli'[c].pc = "judge" /\ cli'[c].item = cli[c].item /\ cli'[c].run = cli[c].run
        BY <3>2, GotoFields
      <4> QED BY <2>2, <4>1 DEF StepInv, At, row
    <3>3. CASE Exit(c, 0)
      BY <3>3, ExitFields DEF StepInv, At
    <3> QED BY <1>5, <3>1, <3>2, <3>3 DEF Insert, AfterInsert
  <2> QED BY <2>3, <2>4, <2>5
<1>6. CASE Judge(c)
  <2>1. PICK verdict \in BOOLEAN :
          /\ report' = [report EXCEPT ![cli[c].item] = [run |-> cli[c].run, passed |-> verdict]]
          /\ IF verdict THEN Goto(c, "mark") ELSE Exit(c, 1)
    BY <1>6 DEF Judge
  <2>2. /\ cli[c].item \in Scene
        /\ derived[cli[c].item] = [status |-> "PROCESSED", run |-> cli[c].run]
    BY <1>6, ItemOK DEF Judge, At, ProcessPc, StepInv
  <2>3. UNCHANGED <<derived, file, runs>>
    BY <1>6 DEF Judge, store
  <2>4. ReportBacksValidated'
    <3> DEFINE judged == [run |-> cli[c].run, passed |-> verdict]
    <3>1. \A s \in Scene : s # cli[c].item => report'[s] = report[s]
      <4> HIDE DEF judged
      <4> QED BY <1>0, <2>1
    <3>2. derived[cli[c].item].status # "VALIDATED"
      BY <2>2
    <3> QED BY <2>3, <3>1, <3>2 DEF ReportBacksValidated
  <2>5. StepInv(c)'
    <3>1. CASE verdict = TRUE
      <4>1. cli'[c].pc = "mark" /\ cli'[c].item = cli[c].item /\ cli'[c].run = cli[c].run
        BY <2>1, <3>1, GotoFields
      <4> QED BY <1>0, <2>1, <2>2, <2>3, <3>1, <4>1 DEF StepInv, At
    <3>2. CASE verdict = FALSE
      BY <2>1, <3>2, ExitFields DEF StepInv, At
    <3> QED BY <3>1, <3>2
  <2> QED BY <2>3, <2>4, <2>5 DEF CatalogueNeverAhead, RunsOnRecord
<1>7. CASE Mark(c)
  <2>1. StepInv(c)'
    <3>1. cli'[c].pc = "idle"
      BY <1>7, ExitFields DEF Mark
    <3> QED BY <3>1 DEF StepInv, At
  <2>2. CASE derived' = derived
    BY <1>7, <2>1, <2>2 DEF Mark, ReportBacksValidated, CatalogueNeverAhead, RunsOnRecord, disk
  <2>3. CASE derived' = [derived EXCEPT ![cli[c].item].status = "VALIDATED"]
    <3>1. /\ cli[c].item \in Scene
          /\ derived[cli[c].item] = [status |-> "PROCESSED", run |-> cli[c].run]
          /\ report[cli[c].item] = [run |-> cli[c].run, passed |-> TRUE]
      BY <1>7, ItemOK DEF Mark, At, ProcessPc, StepInv
    <3>2. /\ derived'[cli[c].item] = [status |-> "VALIDATED", run |-> cli[c].run]
          /\ \A s \in Scene : s # cli[c].item => derived'[s] = derived[s]
          /\ UNCHANGED <<file, report, runs>>
      BY <1>0, <1>7, <2>3, <3>1 DEF Mark, disk
    <3>3. \A s \in Scene : derived'[s].run = derived[s].run
      BY <3>1, <3>2
    <3>4. CatalogueNeverAhead' /\ RunsOnRecord'
      BY <3>1, <3>2, <3>3 DEF CatalogueNeverAhead, RunsOnRecord, NoDerived
    <3>5. ReportBacksValidated'
      <4>1. derived'[cli[c].item].run = cli[c].run /\ report'[cli[c].item] = report[cli[c].item]
        BY <3>2
      <4> SUFFICES ASSUME NEW s \in Scene, derived'[s].status = "VALIDATED"
                   PROVE  report'[s] = [run |-> derived'[s].run, passed |-> TRUE]
        BY DEF ReportBacksValidated
      <4>2. CASE s = cli[c].item
        BY <3>1, <4>1, <4>2, Zenon
      <4>3. CASE s # cli[c].item
        BY <3>2, <4>3 DEF ReportBacksValidated
      <4> QED BY <4>2, <4>3
    <3> QED BY <2>1, <3>4, <3>5
  <2> QED BY <1>7, <2>2, <2>3 DEF Mark
<1>8. CASE ProcessRaises(c)
  BY <1>8, ExitFields DEF ProcessRaises, ReportBacksValidated, CatalogueNeverAhead, RunsOnRecord,
     StepInv, At, store, disk
<1> QED BY <1>1, <1>2, <1>3, <1>4, <1>5, <1>6, <1>7, <1>8 DEF Process

LEMMA CommandInv ==
  ASSUME IInv, NEW c \in Cli, Start(c) \/ Crash(c)
  PROVE  StepInv(c)' /\ UNCHANGED <<store, disk, runs>>
<1>0. cli \in [Cli -> Invocation]
  BY DEF IInv, TypeOK
<1>1. CASE Start(c)
  <2>1. PICK command \in Commands, s \in Scene :
          cli' = [cli EXCEPT ![c] = Invoked(StartsAt(command), command, s,
                    IF command \in {"ingest", "run"} THEN Product ELSE {}, -1)]
    BY <1>1 DEF Start
  <2>2. cli'[c].pc = StartsAt(command) /\ cli'[c].command = command
    BY <1>0, <2>1 DEF Invoked
  <2>3. \/ cli'[c].pc \in {"next", "resolve"}
        \/ (cli'[c].pc = "read" /\ cli'[c].command \in {"process", "validate"})
    BY PipelineAssumption, <2>2 DEF StartsAt, Command
  <2>4. StepInv(c)'
    BY <2>3 DEF StepInv, At, Reprocessing
  <2> QED BY <1>1, <2>4 DEF Start
<1>2. CASE Crash(c)
  <2>1. cli'[c].pc = "idle"
    BY <1>2, ExitFields DEF Crash, CutOff, IInv
  <2> QED BY <1>2, <2>1 DEF Crash, StepInv, At
<1> QED BY <1>1, <1>2

\* A step of c touches no invocation but c, and of the products only the one c works
\* on.
LEMMA OwnProduct ==
  ASSUME TypeOK, NEW c \in Cli, Start(c) \/ Crash(c) \/ Ingest(c) \/ Process(c)
  PROVE  /\ \A d \in Cli : d # c => cli'[d] = cli[d]
         /\ ~Working(c) => UNCHANGED <<store, disk>>
         /\ \A p \in Product : p # cli[c].item => source'[p] = source[p] /\ safe'[p] = safe[p]
         /\ \A s \in Scene : s # cli[c].item =>
              derived'[s] = derived[s] /\ file'[s] = file[s] /\ report'[s] = report[s]
<1>0. /\ cli \in [Cli -> Invocation] /\ source \in [Product -> SourceRow]
      /\ derived \in [Scene -> DerivedRow] /\ safe \in [Product -> {NONE, PARTIAL, WHOLE}]
      /\ file \in [Scene -> NONE .. MaxRuns]
      /\ report \in [Scene -> [run : 0 .. MaxRuns, passed : BOOLEAN]]
  BY DEF TypeOK
<1>1. \A d \in Cli : d # c => cli'[d] = cli[d]
  BY <1>0 DEF Start, Crash, Ingest, NextProduct, IngestDone, Stub, DownloadClear, DownloadBegin, DownloadEnd,
     Checksum, Verify, Register, Raises, DeadLetter, DeadLetterRaises, CutOff, Process, ProcessRaises, Resolve, Read, WriteBegin,
     WriteEnd, Insert, AfterInsert, Judge, Mark, Goto, Exit
<1>2. ~Working(c) => UNCHANGED <<store, disk>>
  BY DEF Working, Start, Crash, Ingest, NextProduct, IngestDone, Stub, DownloadClear, DownloadBegin, DownloadEnd,
     Checksum, Verify, Register, Raises, DeadLetter, DeadLetterRaises, CutOff, Process, ProcessRaises, Resolve, Read, WriteBegin,
     WriteEnd, Insert, Judge, Mark, At
<1>3. \A p \in Product : p # cli[c].item => source'[p] = source[p] /\ safe'[p] = safe[p]
  BY <1>0 DEF Start, Crash, Ingest, NextProduct, IngestDone, Stub, DownloadClear, DownloadBegin, DownloadEnd,
     Checksum, Verify, Register, Raises, DeadLetter, DeadLetterRaises, CutOff, Process, ProcessRaises, Resolve, Read, WriteBegin,
     WriteEnd, Insert, Judge, Mark, store, disk
<1>4. \A s \in Scene : s # cli[c].item =>
        derived'[s] = derived[s] /\ file'[s] = file[s] /\ report'[s] = report[s]
  BY <1>0 DEF Start, Crash, Ingest, NextProduct, IngestDone, Stub, DownloadClear, DownloadBegin, DownloadEnd,
     Checksum, Verify, Register, Raises, DeadLetter, DeadLetterRaises, CutOff, Process, ProcessRaises, Resolve, Read, WriteBegin,
     WriteEnd, Insert, Judge, Mark, store, disk
<1> QED BY <1>1, <1>2, <1>3, <1>4

\* What an invocation relies on is of the product it works on, so a step of another
\* leaves it.
LEMMA OthersUndisturbed ==
  ASSUME IInv, NEW c \in Cli, Start(c) \/ Crash(c) \/ Ingest(c) \/ Process(c),
         NEW d \in Cli, d # c
  PROVE  StepInv(d)'
<1>0. TypeOK /\ StepInv(d) /\ Apart
  BY DEF IInv
<1>1. cli'[d] = cli[d]
  BY <1>0, OwnProduct
<1>2. CASE ~Working(d)
  BY <1>1, <1>2 DEF StepInv, At, Working
<1>3. CASE Working(d)
  <2>1. UNCHANGED <<store, disk>> \/ cli[d].item # cli[c].item
    BY <1>0, <1>3, OwnProduct DEF Apart
  <2>2. CASE UNCHANGED <<store, disk>>
    BY <1>0, <1>1, <2>2 DEF StepInv, At, Reprocessing, store, disk
  <2>3. CASE cli[d].item # cli[c].item
    <3>1. cli[d].item \in Product =>
            source'[cli[d].item] = source[cli[d].item] /\ safe'[cli[d].item] = safe[cli[d].item]
      BY <1>0, <2>3, OwnProduct
    <3>2. cli[d].item \in Scene =>
            /\ derived'[cli[d].item] = derived[cli[d].item]
            /\ file'[cli[d].item] = file[cli[d].item]
            /\ report'[cli[d].item] = report[cli[d].item]
      BY <1>0, <2>3, OwnProduct
    <3>3. CASE cli[d].pc \in IngestPc
      BY <1>0, <1>1, <3>1, <3>3, ItemOK DEF StepInv, At, IngestPc
    <3>4. CASE cli[d].pc \in ProcessPc
      <4>1. cli[d].item \in Scene /\ cli[d].item \in Product
        BY <1>0, <3>4, ItemOK DEF Product
      <4> QED BY <1>0, <1>1, <3>1, <3>2, <3>4, <4>1 DEF StepInv, At, Reprocessing, ProcessPc
    <3>5. cli[d].pc \in IngestPc \cup ProcessPc
      <4>1. cli[d].pc \in Pc
        BY <1>0 DEF TypeOK, Invocation
      <4> QED BY <1>3, <4>1 DEF Working, Pc, IngestPc, ProcessPc
    <3> QED BY <3>3, <3>4, <3>5
  <2> QED BY <2>1, <2>2, <2>3
<1> QED BY <1>2, <1>3

LEMMA StepIInv ==
  ASSUME IInv, [Next /\ Apart']_vars
  PROVE  IInv'
<1>1. TypeOK'
  BY StepTypeOK DEF IInv
<1>2. CASE Next /\ Apart'
  <2>1. PICK c \in Cli : Start(c) \/ Crash(c) \/ Ingest(c) \/ Process(c)
    BY <1>2 DEF Next
  <2>2. StepInv(c)' => \A d \in Cli : StepInv(d)'
    BY <2>1, OthersUndisturbed
  <2>3. CASE Start(c) \/ Crash(c)
    BY <1>1, <1>2, <2>2, <2>3, CommandInv DEF IInv, RegisteredIsWhole, ReportBacksValidated,
       CatalogueNeverAhead, RunsOnRecord, store, disk
  <2>4. CASE Ingest(c)
    <3>1. UNCHANGED <<derived, file, report, runs>>
      BY <2>4 DEF Ingest, NextProduct, IngestDone, Stub, DownloadClear, DownloadBegin, DownloadEnd, Checksum,
         Verify, Register, Raises, DeadLetter, DeadLetterRaises, CutOff, store, disk
    <3> QED BY <1>1, <1>2, <2>2, <2>4, <3>1, IngestInv DEF IInv, ReportBacksValidated,
          CatalogueNeverAhead, RunsOnRecord
  <2>5. CASE Process(c)
    <3>1. UNCHANGED <<source, safe>>
      BY <2>5 DEF Process, ProcessRaises, Resolve, Read, WriteBegin, WriteEnd, Insert, Judge, Mark,
         store, disk
    <3> QED BY <1>1, <1>2, <2>2, <2>5, <3>1, ProcessInv DEF IInv, RegisteredIsWhole
  <2> QED BY <2>1, <2>3, <2>4, <2>5
<1>3. CASE UNCHANGED vars
  BY <1>1, <1>3 DEF vars, IInv, RegisteredIsWhole, ReportBacksValidated, CatalogueNeverAhead,
     RunsOnRecord, StepInv, At, Reprocessing, Apart, Working
<1> QED BY <1>2, <1>3

\* ApartNext guards every step but a kill, which cannot bring two invocations together.
LEMMA ApartIsNext == [ApartNext]_vars => [Next]_vars
BY DEF ApartNext, Next

LEMMA ApartKept ==
  ASSUME TypeOK, Apart, [ApartNext]_vars
  PROVE  [Next /\ Apart']_vars
<1>1. ASSUME NEW c \in Cli, Crash(c) PROVE Apart'
  <2>1. \A d \in Cli : d # c => cli'[d] = cli[d]
    BY <1>1, OwnProduct
  <2>2. cli'[c].pc = "idle"
    BY <1>1, ExitFields DEF Crash, CutOff
  <2> QED BY <2>1, <2>2 DEF Apart, Working
<1> QED BY <1>1 DEF ApartNext, Next

LEMMA InvCorrect == ApartSpec => []IInv
<1>1. IInv /\ [ApartNext]_vars => IInv'
  BY ApartKept, StepIInv DEF IInv
<1> QED BY <1>1, InitInv, PTL DEF ApartSpec

\* Of invocations that keep apart, whatever ends them: a product on record as
\* REGISTERED has its whole SAFE folder on disk.
THEOREM RegisteredFoldersWhole == ApartSpec => []RegisteredIsWhole
<1>1. IInv => RegisteredIsWhole
  BY DEF IInv
<1> QED BY <1>1, InvCorrect, PTL

\* ... a product on record as VALIDATED has a passing report of the very run on
\* record.
THEOREM ValidatedHasReport == ApartSpec => []ReportBacksValidated
<1>1. IInv => ReportBacksValidated
  BY DEF IInv
<1> QED BY <1>1, InvCorrect, PTL

\* ... the derived file is never of an earlier run than the one on record.
THEOREM FileKeepsUp == ApartSpec => []CatalogueNeverAhead
<1>1. IInv => CatalogueNeverAhead
  BY DEF IInv
<1> QED BY <1>1, InvCorrect, PTL

\* ... reprocessing reads a whole scene, whatever downloads have left.
THEOREM NoPartialScenes == ApartSpec => []ReprocessReadsWhole
<1>1. IInv => ReprocessReadsWhole
  BY DEF IInv, StepInv, ReprocessReadsWhole
<1> QED BY <1>1, InvCorrect, PTL

\* A slot becomes idle only by an exit, and a validating command exits with 0 only
\* from its mark.
LEMMA EndsByExit ==
  ASSUME TypeOK, NEW c \in Cli, Start(c) \/ Crash(c) \/ Ingest(c) \/ Process(c),
         cli'[c].pc = "idle"
  PROVE  Exit(c, 1) \/ (Exit(c, 0) /\ (Mark(c) \/ ~Validating(c)))
<1>0. cli \in [Cli -> Invocation]
  BY DEF TypeOK
<1>1. ~Start(c)
  <2> SUFFICES ASSUME Start(c) PROVE FALSE
    OBVIOUS
  <2>1. PICK command \in Commands, s \in Scene :
          cli' = [cli EXCEPT ![c] = Invoked(StartsAt(command), command, s,
                    IF command \in {"ingest", "run"} THEN Product ELSE {}, -1)]
    BY DEF Start
  <2>2. cli'[c].pc = StartsAt(command)
    BY <1>0, <2>1 DEF Invoked
  <2> QED BY PipelineAssumption, <2>2 DEF StartsAt, Command
<1>2. \A pc \in Pc \ {"idle"} : ~Goto(c, pc)
  BY GotoFields
<1>3. ~NextProduct(c)
  <2> SUFFICES ASSUME NextProduct(c) PROVE cli'[c].pc = "stub"
    OBVIOUS
  <2> QED BY <1>0 DEF NextProduct, Invocation
<1>4. IngestDone(c) => Exit(c, 1) \/ (Exit(c, 0) /\ ~Validating(c))
  <2>1. ASSUME NEW s \in Scene, cli' = [cli EXCEPT ![c].pc = "read", ![c].item = s]
        PROVE  FALSE
    BY <1>0, <2>1 DEF Invocation
  <2>2. cli[c].command = "ingest" => ~Validating(c)
    BY DEF Validating
  <2> QED BY <2>1, <2>2 DEF IngestDone
<1>5. ~Checksum(c)
  BY <1>0 DEF Checksum, Invocation
<1>6. ~DeadLetter(c)
  BY <1>0 DEF DeadLetter, Invocation
<1>15. DeadLetterRaises(c) => Exit(c, 1)
  BY DEF DeadLetterRaises, CutOff
<1>7. Ingest(c) => Exit(c, 1) \/ (Exit(c, 0) /\ ~Validating(c))
  BY <1>2, <1>3, <1>4, <1>5, <1>6, <1>15 DEF Ingest, Stub, DownloadClear, DownloadBegin, DownloadEnd, Verify, Register, Raises, Pc
<1>8. ~Read(c)
  BY <1>0 DEF Read, Invocation
<1>9. Insert(c) => Exit(c, 0) /\ ~Validating(c)
  <2> SUFFICES ASSUME cli' = [cli EXCEPT ![c].pc = "read", ![c].command = "validate"]
               PROVE  FALSE
    BY <1>2 DEF Insert, AfterInsert, Pc
  <2> QED BY <1>0 DEF Invocation
<1>10. Mark(c) => Exit(c, 0) \/ Exit(c, 1)
  BY DEF Mark
<1>11. ProcessRaises(c) \/ Resolve(c) \/ Judge(c) => Exit(c, 1)
  BY <1>2 DEF ProcessRaises, Resolve, Judge, Pc
<1>12. ~WriteBegin(c) /\ ~WriteEnd(c)
  BY <1>2 DEF WriteBegin, WriteEnd, Pc
<1>13. Process(c) => Exit(c, 1) \/ (Exit(c, 0) /\ (Mark(c) \/ ~Validating(c)))
  BY <1>8, <1>9, <1>10, <1>11, <1>12 DEF Process
<1>14. Crash(c) => Exit(c, 1)
  BY DEF Crash, CutOff
<1> QED BY <1>1, <1>7, <1>13, <1>14

\* An idle slot has no command.
IdleInv == TypeOK /\ \A c \in Cli : At(c, "idle") => cli[c].command = "none"

LEMMA IdleCorrect == ApartSpec => []IdleInv
<1>1. Init => IdleInv
  BY InitTypeOK DEF Init, IdleInv, Idle, Invoked
<1>2. IdleInv /\ [ApartNext]_vars => IdleInv'
  <2> SUFFICES ASSUME IdleInv, [Next]_vars PROVE IdleInv'
    BY ApartIsNext
  <2>1. TypeOK'
    BY StepTypeOK DEF IdleInv
  <2>2. CASE UNCHANGED vars
    BY <2>1, <2>2 DEF IdleInv, At, vars
  <2>3. CASE Next
    <3>1. PICK c \in Cli : Start(c) \/ Crash(c) \/ Ingest(c) \/ Process(c)
      BY <2>3 DEF Next
    <3>2. \A d \in Cli : d # c => cli'[d] = cli[d]
      BY <3>1, OwnProduct DEF IdleInv
    <3>3. At(c, "idle")' => cli'[c].command = "none"
      BY <3>1, EndsByExit DEF IdleInv, At, TypeOK, Exit, Idle, Invoked
    <3> QED BY <2>1, <3>2, <3>3 DEF IdleInv, At
  <2> QED BY <2>2, <2>3
<1> QED BY <1>1, <1>2, PTL DEF ApartSpec

\* ... a validating command exits with 0 only when its own run has passed and is
\* on record as VALIDATED.
THEOREM GateHolds == ApartSpec => GateDecides
<1>1. IInv /\ IdleInv /\ [ApartNext]_vars => [\A c \in Cli : PassingExit(c)]_cli
  <2> SUFFICES ASSUME IInv, IdleInv, [Next]_vars PROVE [\A c \in Cli : PassingExit(c)]_cli
    BY ApartIsNext
  <2> SUFFICES ASSUME NEW d \in Cli, ~UNCHANGED cli PROVE PassingExit(d)
    OBVIOUS
  <2>1. PICK c \in Cli : Start(c) \/ Crash(c) \/ Ingest(c) \/ Process(c)
    BY DEF Next, vars
  <2>0. d # c => PassingExit(d)
    <3>1. d # c => cli'[d] = cli[d]
      BY <2>1, OwnProduct DEF IInv
    <3>2. cli[d].pc = "idle" => ~Validating(d)
      BY DEF IdleInv, Validating, At
    <3> QED BY <3>1, <3>2 DEF PassingExit
  <2> SUFFICES ASSUME Validating(c), cli'[c].pc = "idle", cli'[c].exit = 0
               PROVE  /\ report[cli[c].item] = [run |-> cli[c].run, passed |-> TRUE]
                      /\ derived'[cli[c].item] = [status |-> "VALIDATED", run |-> cli[c].run]
    BY <2>0 DEF PassingExit
  <2>2. TypeOK /\ cli \in [Cli -> Invocation] /\ derived \in [Scene -> DerivedRow]
        /\ ~Exit(c, 1)
    BY ExitFields DEF IInv, TypeOK
  <2>3. Mark(c)
    BY <2>1, <2>2, EndsByExit
  <2>4. /\ cli[c].item \in Scene
        /\ derived[cli[c].item] = [status |-> "PROCESSED", run |-> cli[c].run]
        /\ report[cli[c].item] = [run |-> cli[c].run, passed |-> TRUE]
    BY <2>3, ItemOK DEF IInv, Mark, At, ProcessPc, StepInv
  <2>5. derived' = [derived EXCEPT ![cli[c].item].status = "VALIDATED"]
    BY <2>2, <2>3 DEF Mark
  <2> QED BY <2>2, <2>4, <2>5
<1> QED BY <1>1, InvCorrect, IdleCorrect, PTL DEF ApartSpec, GateDecides

-----------------------------------------------------------------------------
(* Commands that keep apart implement ProductRecord.                       *)

Status == [p \in Product |-> source[p].status]
Held   == {p \in Product : safe[p] = WHOLE}

\* A row that is written changes one status, a folder that is written one holding.
LEMMA RowShows ==
  ASSUME TypeOK, NEW p \in Product, NEW row, source' = [source EXCEPT ![p] = row]
  PROVE  Status' = [Status EXCEPT ![p] = row.status]
<1>1. source \in [Product -> SourceRow]
  BY DEF TypeOK
<1>2. source'[p] = row /\ \A q \in Product : q # p => source'[q] = source[q]
  BY <1>1
<1>3. ASSUME NEW q \in Product
      PROVE  source'[q].status = [Status EXCEPT ![p] = row.status][q]
  BY <1>2 DEF Status
<1> QED BY <1>3 DEF Status

LEMMA FolderShows ==
  ASSUME TypeOK, NEW p \in Product, NEW content, safe' = [safe EXCEPT ![p] = content]
  PROVE  Held' \in {Held \ {p}, Held \cup {p}}
<1>1. safe'[p] = content /\ \A q \in Product : q # p => safe'[q] = safe[q]
  BY DEF TypeOK
<1>2. CASE content = WHOLE
  BY <1>1, <1>2 DEF Held
<1>3. CASE content # WHOLE
  BY <1>1, <1>3 DEF Held
<1> QED BY <1>2, <1>3

\* What the steps of ProductRecord say in terms of Status and Held.
LEMMA RecordOfProduct ==
  ASSUME NEW p \in Product, UNCHANGED <<derived, file, report>>,
         \/ Status' = [Status EXCEPT ![p] = "DISCOVERED"] /\ UNCHANGED Held
         \/ Status' = [Status EXCEPT ![p] = "FAILED"] /\ UNCHANGED Held
         \/ Status[p] = "DISCOVERED" /\ Held' \in {Held \ {p}, Held \cup {p}} /\ UNCHANGED Status
         \/ /\ Status[p] = "DISCOVERED" /\ p \in Held
            /\ Status' = [Status EXCEPT ![p] = "REGISTERED"] /\ UNCHANGED Held
  PROVE  Record!RecordNext
<1>1. Record!Announce(p) \/ Record!GiveUp(p) \/ Record!Transfer(p) \/ Record!Register(p)
  BY DEF Record!Announce, Record!GiveUp, Record!Transfer, Record!Register, Status, Held
<1> QED BY <1>1 DEF Record!RecordNext, Record!derivedVars

LEMMA InitRecord == Init => Record!RecordInit
<1> SUFFICES ASSUME Init PROVE Record!RecordInit
  OBVIOUS
<1>1. [p \in Product |-> source[p].status] = [p \in Product |-> "NONE"]
  BY DEF Init, NoRow
<1>2. {p \in Product : safe[p] = WHOLE} = {}
  BY DEF Init, NONE, WHOLE
<1>3. file \in [Scene -> Int \ (1 .. MaxRuns)]
  BY PipelineAssumption DEF Init, NONE
<1> QED BY <1>1, <1>2, <1>3 DEF Init, Record!RecordInit, NoDerived, NoReport

LEMMA SameRecord ==
  ASSUME UNCHANGED <<store, disk>>
  PROVE  UNCHANGED Record!recordVars
BY DEF store, disk, Record!recordVars

\* Ingestion moves the record of one product.
LEMMA IngestRecord ==
  ASSUME IInv, NEW c \in Cli, Ingest(c)
  PROVE  [Record!RecordNext]_Record!recordVars
<1> DEFINE p == cli[c].item
<1>0. TypeOK /\ StepInv(c)
  BY DEF IInv
<1>1. CASE Stub(c) \/ DeadLetter(c)
  <2>1. p \in Product /\ UNCHANGED <<safe, derived, file, report>>
    BY <1>0, <1>1, ItemOK DEF Stub, DeadLetter, At, IngestPc, disk
  <2>2. \/ Status' = [Status EXCEPT ![p] = "DISCOVERED"]
        \/ Status' = [Status EXCEPT ![p] = "FAILED"]
    BY <1>0, <1>1, <2>1, RowShows DEF Stub, DeadLetter
  <2>3. UNCHANGED Held
    BY <2>1 DEF Held
  <2> QED BY <2>1, <2>2, <2>3, RecordOfProduct
<1>2. CASE DownloadClear(c) \/ DownloadBegin(c) \/ DownloadEnd(c)
  <2>1. /\ p \in Product /\ UNCHANGED <<source, derived, file, report>>
        /\ source[p] = [status |-> "DISCOVERED", path |-> FALSE]
    BY <1>0, <1>2, ItemOK DEF DownloadClear, DownloadBegin, DownloadEnd, At, IngestPc, StepInv, store
  <2>2. Held' \in {Held \ {p}, Held \cup {p}}
    BY <1>0, <1>2, <2>1, FolderShows DEF DownloadClear, DownloadBegin, DownloadEnd
  <2>3. Status[p] = "DISCOVERED" /\ UNCHANGED Status
    BY <2>1 DEF Status
  <2> QED BY <2>1, <2>2, <2>3, RecordOfProduct
<1>3. CASE Register(c)
  <2>1. /\ p \in Product /\ UNCHANGED <<safe, derived, file, report>>
        /\ source[p] = [status |-> "DISCOVERED", path |-> FALSE] /\ safe[p] = WHOLE
    BY <1>0, <1>3, ItemOK DEF Register, At, IngestPc, StepInv, disk
  <2>2. Status' = [Status EXCEPT ![p] = "REGISTERED"]
    <3> DEFINE row == [status |-> "REGISTERED", path |-> TRUE]
    <3>1. row.status = "REGISTERED" /\ source' = [source EXCEPT ![p] = row]
      BY <1>3 DEF Register
    <3> HIDE DEF row
    <3>2. Status' = [Status EXCEPT ![p] = row.status]
      BY <1>0, <2>1, <3>1, RowShows
    <3> QED BY <3>1, <3>2
  <2>3. Status[p] = "DISCOVERED" /\ p \in Held /\ UNCHANGED Held
    BY <2>1 DEF Status, Held
  <2> QED BY <2>1, <2>2, <2>3, RecordOfProduct
<1>4. CASE \/ NextProduct(c) \/ IngestDone(c) \/ Checksum(c) \/ Verify(c) \/ Raises(c)
         \/ DeadLetterRaises(c)
  BY <1>4, SameRecord DEF NextProduct, IngestDone, Checksum, Verify, Raises, DeadLetterRaises
<1> QED BY <1>1, <1>2, <1>3, <1>4 DEF Ingest

\* Processing moves the record of one derived product.
LEMMA ProcessRecord ==
  ASSUME IInv, NEW c \in Cli, Process(c)
  PROVE  [Record!RecordNext]_Record!recordVars
<1> DEFINE s == cli[c].item
<1>0. /\ TypeOK /\ StepInv(c)
      /\ derived \in [Scene -> DerivedRow] /\ runs \in 0 .. MaxRuns /\ MaxRuns \in Nat
  BY PipelineAssumption DEF IInv, TypeOK
<1>1. ASSUME NEW t \in Scene, UNCHANGED <<source, safe>>,
             Record!Write(t) \/ Record!Publish(t) \/ Record!Judge(t) \/ Record!Validate(t)
      PROVE  Record!RecordNext
  BY <1>1 DEF Record!RecordNext, Record!productVars
<1>2. CASE WriteBegin(c)
  <2>1. s \in Scene /\ UNCHANGED <<source, safe>>
    BY <1>0, <1>2, ItemOK DEF WriteBegin, At, ProcessPc, store
  <2>2. Record!Write(s)
    BY <1>2 DEF WriteBegin, Record!Write, store
  <2> QED BY <1>1, <2>1, <2>2
<1>3. CASE WriteEnd(c)
  <2>1. /\ s \in Scene /\ cli[c].run \in 1 .. MaxRuns /\ UNCHANGED <<source, safe>>
        /\ cli[c].run > derived[s].run
    BY <1>0, <1>3, ItemOK DEF WriteEnd, At, ProcessPc, StepInv, store, DerivedRow, NoDerived
  <2>2. Record!Write(s)
    BY <1>3, <2>1 DEF WriteEnd, Record!Write, store
  <2> QED BY <1>1, <2>1, <2>2
<1>4. CASE Insert(c)
  <2>1. /\ s \in Scene /\ file[s] \in 1 .. MaxRuns /\ UNCHANGED <<source, safe>>
        /\ file[s] = cli[c].run /\ file[s] > derived[s].run
    BY <1>0, <1>4, ItemOK DEF Insert, At, ProcessPc, StepInv, disk, DerivedRow, NoDerived
  <2>2. Record!Publish(s)
    BY <1>4, <2>1 DEF Insert, Record!Publish, disk
  <2> QED BY <1>1, <2>1, <2>2
<1>5. CASE Judge(c)
  <2>1. /\ s \in Scene /\ UNCHANGED <<source, safe>>
        /\ derived[s] = [status |-> "PROCESSED", run |-> cli[c].run]
    BY <1>0, <1>5, ItemOK DEF Judge, At, ProcessPc, StepInv, store
  <2>2. PICK verdict \in BOOLEAN :
          report' = [report EXCEPT ![s] = [run |-> cli[c].run, passed |-> verdict]]
    BY <1>5 DEF Judge
  <2>3. derived[s].status = "PROCESSED" /\ derived[s].run = cli[c].run
    BY <2>1
  <2>4. report' = [report EXCEPT ![s] = [run |-> derived[s].run, passed |-> verdict]]
    BY <2>2, <2>3, Zenon
  <2>5. UNCHANGED <<derived, file>>
    BY <1>5 DEF Judge, store
  <2>6. Record!Judge(s)
    BY <2>3, <2>4, <2>5, Zenon DEF Record!Judge
  <2> QED BY <1>1, <2>1, <2>6
<1>6. CASE Mark(c)
  <2>1. /\ s \in Scene /\ UNCHANGED <<source, safe>>
        /\ derived[s] = [status |-> "PROCESSED", run |-> cli[c].run]
        /\ report[s] = [run |-> cli[c].run, passed |-> TRUE]
    BY <1>0, <1>6, ItemOK DEF Mark, At, ProcessPc, StepInv, disk
  <2>2. derived' = [derived EXCEPT ![s].status = "VALIDATED"] /\ UNCHANGED <<file, report>>
    BY <1>6, <2>1 DEF Mark, NoDerived, disk
  <2>3. derived' = [derived EXCEPT ![s] = [status |-> "VALIDATED", run |-> derived[s].run]]
    <3>1. [derived[s] EXCEPT !.status = "VALIDATED"] = [status |-> "VALIDATED", run |-> derived[s].run]
      BY <2>1
    <3> QED BY <2>2, <3>1, Zenon
  <2>4. derived[s].status = "PROCESSED" /\ report[s] = [run |-> derived[s].run, passed |-> TRUE]
    <3>1. derived[s].status = "PROCESSED" /\ derived[s].run = cli[c].run
      BY <2>1
    <3> QED BY <2>1, <3>1, Zenon
  <2>5. Record!Validate(s)
    BY <2>2, <2>3, <2>4, Zenon DEF Record!Validate
  <2> QED BY <1>1, <2>1, <2>5
<1>7. CASE ProcessRaises(c) \/ Resolve(c) \/ Read(c)
  BY <1>7, SameRecord DEF ProcessRaises, Resolve, Read
<1> QED BY <1>2, <1>3, <1>4, <1>5, <1>6, <1>7 DEF Process

LEMMA StepRecord == IInv /\ [Next]_vars => [Record!RecordNext]_Record!recordVars
<1> SUFFICES ASSUME IInv, [Next]_vars PROVE [Record!RecordNext]_Record!recordVars
  OBVIOUS
<1>1. CASE Next
  <2>1. PICK c \in Cli : Start(c) \/ Crash(c) \/ Ingest(c) \/ Process(c)
    BY <1>1 DEF Next
  <2>2. CASE Start(c) \/ Crash(c)
    BY <2>2, SameRecord DEF Start, Crash
  <2> QED BY <2>1, <2>2, IngestRecord, ProcessRecord
<1>2. CASE UNCHANGED vars
  BY <1>2, SameRecord DEF vars, store, disk
<1> QED BY <1>1, <1>2

\* Of invocations that keep apart, whatever ends them, the payload segment
\* implements ProductRecord: what is on record never says more of a product than
\* the disk bears out.
THEOREM ImplementsRecord == ApartSpec => RecordSpec
<1>1. IInv /\ [ApartNext]_vars => [Record!RecordNext]_Record!recordVars
  BY StepRecord, ApartIsNext
<1> QED BY <1>1, InitRecord, InvCorrect, PTL DEF ApartSpec, RecordSpec, Record!RecordSpec

-----------------------------------------------------------------------------
(* Commands that overlap.                                                  *)

AtGate == {"judge", "mark"}

\* What the mark of an invocation falls on: the row of its own run, or of one that
\* has displaced it.
OvertakenInv ==
  /\ ValidatedOnlyIfOvertaken
  /\ \A c \in Cli : cli[c].pc \in AtGate =>
       \/ cli[c].item \in displaced
       \/ /\ derived[cli[c].item].run = cli[c].run
          /\ At(c, "mark") => cli[c].item \in earned

\* An invocation reaches the gate by its insert, and its mark by the verdict.
LEMMA ReachesGate ==
  ASSUME TypeOK, NEW c \in Cli, Start(c) \/ Crash(c) \/ Ingest(c) \/ Process(c),
         cli'[c].pc \in AtGate
  PROVE  (Insert(c) /\ Goto(c, "judge")) \/ (Judge(c) /\ Goto(c, "mark"))
<1> USE DEF AtGate
<1>0. cli \in [Cli -> Invocation]
  BY DEF TypeOK
<1>1. ~Exit(c, 0) /\ ~Exit(c, 1) /\ \A pc \in Pc \ AtGate : ~Goto(c, pc)
  BY ExitFields, GotoFields
<1>2. ~Start(c)
  <2> SUFFICES ASSUME Start(c) PROVE FALSE
    OBVIOUS
  <2>1. PICK command \in Commands, s \in Scene :
          cli' = [cli EXCEPT ![c] = Invoked(StartsAt(command), command, s,
                    IF command \in {"ingest", "run"} THEN Product ELSE {}, -1)]
    BY DEF Start
  <2>2. cli'[c].pc = StartsAt(command)
    BY <1>0, <2>1 DEF Invoked
  <2> QED BY PipelineAssumption, <2>2 DEF StartsAt, Command
<1>3. ~NextProduct(c)
  <2> SUFFICES ASSUME NextProduct(c) PROVE cli'[c].pc = "stub"
    OBVIOUS
  <2> QED BY <1>0 DEF NextProduct, Invocation
<1>4. ~IngestDone(c)
  <2> SUFFICES ASSUME NEW s \in Scene, cli' = [cli EXCEPT ![c].pc = "read", ![c].item = s]
               PROVE  FALSE
    BY <1>1 DEF IngestDone
  <2> QED BY <1>0 DEF Invocation
<1>5. ~Checksum(c) /\ ~DeadLetter(c)
  <2>1. ~Checksum(c)
    BY <1>0 DEF Checksum, Invocation
  <2>2. ~DeadLetter(c)
    BY <1>0 DEF DeadLetter, Invocation
  <2> QED BY <2>1, <2>2
<1>6. ~Ingest(c)
  BY <1>1, <1>3, <1>4, <1>5 DEF Ingest, Stub, DownloadClear, DownloadBegin, DownloadEnd, Verify,
     Register, Raises, DeadLetterRaises, CutOff, Pc
<1>7. /\ ~Crash(c) /\ ~ProcessRaises(c) /\ ~Resolve(c) /\ ~WriteBegin(c) /\ ~WriteEnd(c)
      /\ ~Mark(c)
  BY <1>1 DEF Crash, CutOff, ProcessRaises, Resolve, WriteBegin, WriteEnd, Mark, Pc
<1>8. ~Read(c)
  BY <1>0 DEF Read, Invocation
<1>9. Insert(c) => Goto(c, "judge")
  <2> SUFFICES ASSUME cli' = [cli EXCEPT ![c].pc = "read", ![c].command = "validate"]
               PROVE  FALSE
    BY <1>1 DEF Insert, AfterInsert
  <2> QED BY <1>0 DEF Invocation
<1>10. Judge(c) => Goto(c, "mark")
  BY <1>1 DEF Judge
<1> QED BY <1>2, <1>6, <1>7, <1>8, <1>9, <1>10 DEF Process

\* Rows and verdicts are touched by three actions.
LEMMA RowsUntouched ==
  ASSUME NEW c \in Cli, Start(c) \/ Crash(c) \/ Ingest(c) \/ Process(c),
         ~Insert(c), ~Judge(c), ~Mark(c)
  PROVE  UNCHANGED <<derived, earned, displaced>>
BY DEF Start, Crash, Ingest, NextProduct, IngestDone, Stub, DownloadClear, DownloadBegin, DownloadEnd,
   Checksum, Verify, Register, Raises, DeadLetter, DeadLetterRaises, CutOff, Process, ProcessRaises,
   Resolve, Read, WriteBegin, WriteEnd, store, history, verdicts

LEMMA StepOvertaken == TypeOK /\ OvertakenInv /\ [Next]_vars => OvertakenInv'
<1> SUFFICES ASSUME TypeOK, OvertakenInv, [Next]_vars PROVE OvertakenInv'
  OBVIOUS
<1>0. derived \in [Scene -> DerivedRow] /\ cli \in [Cli -> Invocation]
  BY DEF TypeOK
<1>1. CASE Next
  <2>1. PICK c \in Cli : Start(c) \/ Crash(c) \/ Ingest(c) \/ Process(c)
    BY <1>1 DEF Next
  <2>2. \A d \in Cli : d # c => cli'[d] = cli[d]
    BY <2>1, OwnProduct
  <2> DEFINE s == cli[c].item
  <2>3. CASE Insert(c)
    <3>1. s \in Scene /\ (cli'[c].pc \in AtGate => cli'[c].pc = "judge" /\ cli'[c].item = s
                                                  /\ cli'[c].run = cli[c].run)
      <4>1. cli[c].pc = "insert" /\ s \in Scene
        BY <2>3, ItemOK DEF Insert, At, ProcessPc
      <4>2. ~Judge(c)
        BY <4>1 DEF Judge, At
      <4> QED BY <2>1, <4>1, <4>2, ReachesGate, GotoFields
    <3>2. /\ derived'[s].status = "PROCESSED" /\ derived'[s].run = cli[c].run
          /\ \A t \in Scene : t # s => derived'[t] = derived[t]
      BY <1>0, <2>3, <3>1 DEF Insert
    <3>3. /\ \A t : t # s => (t \in earned' <=> t \in earned) /\ (t \in displaced' <=> t \in displaced)
          /\ \A d \in Cli : d # c /\ cli[d].pc \in AtGate /\ cli[d].item = s => s \in displaced'
      BY <2>3 DEF Insert, Replaced, AtGate
    <3>4. ValidatedOnlyIfOvertaken'
      BY <3>2, <3>3 DEF OvertakenInv, ValidatedOnlyIfOvertaken
    <3>5. ASSUME NEW d \in Cli, d # c, cli[d].pc \in AtGate
          PROVE  \/ cli[d].item \in displaced'
                 \/ /\ derived'[cli[d].item].run = cli[d].run
                    /\ At(d, "mark") => cli[d].item \in earned'
      <4>1. cli[d].item \in Scene
        BY <3>5, ItemOK DEF AtGate, ProcessPc
      <4> QED BY <3>2, <3>3, <3>5, <4>1 DEF OvertakenInv
    <3> QED BY <2>2, <3>1, <3>2, <3>4, <3>5 DEF OvertakenInv, At
  <2>4. CASE Judge(c)
    <3>1. PICK verdict \in BOOLEAN :
            /\ earned' = Earned(c, verdict)
            /\ IF verdict THEN Goto(c, "mark") ELSE Exit(c, 1)
      BY <2>4 DEF Judge
    <3>2. UNCHANGED <<derived, displaced>> /\ earned \subseteq earned' /\ cli[c].pc = "judge"
      BY <2>4, <3>1 DEF Judge, store, Earned, At
    <3>3. ASSUME cli'[c].pc \in AtGate
          PROVE  /\ verdict = TRUE /\ cli'[c].item = s /\ cli'[c].run = cli[c].run
                 /\ derived[s].run = cli[c].run => s \in earned'
      <4>1. verdict = TRUE
        BY <3>1, <3>3, ExitFields DEF AtGate
      <4> QED BY <3>1, <4>1, GotoFields DEF Earned
    <3> QED BY <2>2, <3>2, <3>3 DEF OvertakenInv, ValidatedOnlyIfOvertaken, At, AtGate
  <2>5. CASE Mark(c)
    <3>1. cli[c].pc = "mark" /\ s \in Scene /\ cli'[c].pc = "idle"
          /\ UNCHANGED <<earned, displaced>>
      BY <2>5, ItemOK, ExitFields DEF Mark, At, ProcessPc, history, verdicts
    <3>2. s \in earned \cup displaced
      BY <3>1 DEF OvertakenInv, At, AtGate
    <3>3. /\ \A t \in Scene : derived'[t].run = derived[t].run
          /\ \A t \in Scene : t # s => derived'[t] = derived[t]
      BY <1>0, <2>5, <3>1 DEF Mark, DerivedRow, NoDerived
    <3>4. ValidatedOnlyIfOvertaken'
      BY <3>1, <3>2, <3>3 DEF OvertakenInv, ValidatedOnlyIfOvertaken
    <3>5. ASSUME NEW d \in Cli, cli'[d].pc \in AtGate
          PROVE  d # c /\ cli[d].item \in Scene /\ cli[d].pc \in AtGate
      <4>1. d # c
        BY <3>1, <3>5 DEF AtGate
      <4> QED BY <2>2, <3>5, <4>1, ItemOK DEF AtGate, ProcessPc
    <3> QED BY <2>2, <3>1, <3>3, <3>4, <3>5 DEF OvertakenInv, At
  <2>6. CASE ~Insert(c) /\ ~Judge(c) /\ ~Mark(c)
    <3>1. UNCHANGED <<derived, earned, displaced>> /\ cli'[c].pc \notin AtGate
      BY <2>1, <2>6, RowsUntouched, ReachesGate
    <3> QED BY <2>2, <3>1 DEF OvertakenInv, ValidatedOnlyIfOvertaken, At
  <2> QED BY <2>3, <2>4, <2>5, <2>6
<1>2. CASE UNCHANGED vars
  BY <1>2 DEF vars, OvertakenInv, ValidatedOnlyIfOvertaken, At
<1> QED BY <1>1, <1>2

\* However many invocations overlap, whatever ends them: the run on record as
\* VALIDATED has itself passed, or its row replaced one still being validated.
THEOREM ValidatedOrOvertaken == Spec => []ValidatedOnlyIfOvertaken
<1>1. Init => OvertakenInv
  BY DEF Init, OvertakenInv, ValidatedOnlyIfOvertaken, NoDerived, AtGate, Idle, Invoked
<1>2. OvertakenInv => ValidatedOnlyIfOvertaken
  BY DEF OvertakenInv
<1> QED BY <1>1, <1>2, StepOvertaken, TypeCorrect, PTL DEF Spec

\* An ingestion under way stays with its product until it has settled it or is cut
\* off.
LEMMA StepForgotten == TypeOK /\ NoneForgotten /\ [Next]_vars => NoneForgotten'
<1> SUFFICES ASSUME TypeOK, NoneForgotten, Next PROVE NoneForgotten'
  BY DEF vars, NoneForgotten
<1>0. source \in [Product -> SourceRow] /\ cli \in [Cli -> Invocation]
  BY DEF TypeOK
<1>1. PICK c \in Cli : Start(c) \/ Crash(c) \/ Ingest(c) \/ Process(c)
  BY DEF Next
<1>2. \A d \in Cli : d # c => cli'[d] = cli[d]
  BY <1>1, OwnProduct
<1> SUFFICES ASSUME NEW p \in Product, source'[p].status = "DISCOVERED"
             PROVE  p \in cut' \/ \E d \in Cli : cli'[d].pc \in Underway /\ cli'[d].item = p
  BY DEF NoneForgotten
<1>3. CASE Stub(c)
  <2>1. cli'[c].pc = "download" /\ cli'[c].item = cli[c].item /\ cli[c].pc = "stub"
    BY <1>3, GotoFields DEF Stub, At
  <2>2. CASE p = cli[c].item
    BY <2>1, <2>2
  <2>3. CASE p # cli[c].item
    <3>1. source'[p] = source[p] /\ (p \in cut => p \in cut')
      BY <1>0, <1>3, <2>3 DEF Stub
    <3> QED BY <1>2, <2>1, <3>1 DEF NoneForgotten
  <2> QED BY <2>2, <2>3
<1>4. CASE Register(c) \/ DeadLetter(c)
  <2>1. p # cli[c].item
    BY <1>0, <1>4 DEF Register, DeadLetter
  <2>2. source'[p] = source[p] /\ (p \in cut => p \in cut')
    BY <1>0, <1>4, <2>1 DEF Register, DeadLetter
  <2> QED BY <1>2, <2>1, <2>2 DEF NoneForgotten
<1>5. CASE Crash(c) \/ DeadLetterRaises(c)
  <2>1. source' = source /\ CutOff(c)
    BY <1>5 DEF Crash, DeadLetterRaises, store
  <2> QED BY <1>2, <2>1 DEF CutOff, NoneForgotten
<1>6. CASE DownloadClear(c) \/ DownloadBegin(c) \/ DownloadEnd(c) \/ Checksum(c) \/ Verify(c) \/ Raises(c)
  <2>1. UNCHANGED <<source, cut>>
    BY <1>6 DEF DownloadClear, DownloadBegin, DownloadEnd, Checksum, Verify, Raises, store, history
  <2>2. cli'[c].pc \in Underway /\ cli'[c].item = cli[c].item
    <3>1. CASE Checksum(c)
      BY <1>0, <3>1 DEF Checksum, Invocation
    <3>2. CASE ~Checksum(c)
      BY <1>6, <3>2, GotoFields DEF DownloadClear, DownloadBegin, DownloadEnd, Verify, Raises
    <3> QED BY <3>1, <3>2
  <2> QED BY <1>2, <2>1, <2>2 DEF NoneForgotten
<1>7. CASE Start(c) \/ NextProduct(c) \/ IngestDone(c) \/ Process(c)
  <2>1. UNCHANGED <<source, cut>> /\ cli[c].pc \notin Underway
    BY <1>7 DEF Start, NextProduct, IngestDone, Process, ProcessRaises, Resolve, Read, WriteBegin,
       WriteEnd, Insert, Judge, Mark, At, store, history
  <2> QED BY <1>2, <2>1 DEF NoneForgotten
<1> QED BY <1>1, <1>3, <1>4, <1>5, <1>6, <1>7 DEF Ingest

\* However many invocations overlap, whatever ends them: a product on record as
\* DISCOVERED is being ingested, or its ingestion was cut off.
THEOREM DiscoveredIsUnderway == Spec => []NoneForgotten
<1>1. Init => NoneForgotten
  BY DEF Init, NoneForgotten, NoRow
<1> QED BY <1>1, StepForgotten, TypeCorrect, PTL DEF Spec
==============================================================================
