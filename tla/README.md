# A verification development for the space/ground segment

This directory holds TLA+ models of the ground segment in this repository, the
TLC configurations that check them on small instances, and proofs that TLAPS
checks for every instance. The reference is the code; where a document or a
docstring says something else, section 3 says so (*What the documentation says
and the code does not do*).

Run a model with `tlc -config X.cfg M`, the proofs of a component with
`tlapm MProofs.tla`.

## 1. The system

| Part | Where | State | Operations | Interacts with |
|---|---|---|---|---|
| Spacecraft simulator | `control/simulator` (Python, two threads) | model (mode, armed latches, one-slot command mailbox), packet counters, stop event, UDP socket | `run_loop` (tick, HK, events, shutdown), `run_receiver` (verify, report, apply a telecommand) | Yamcs, by UDP in both directions |
| Parameter dynamics, configuration | `control/simulator` | the six simulated parameters | random walk, clamp, anomaly scenarios | the simulator's model |
| Yamcs processing | `control/yamcs` (Java, XTCE) | last sequence count per APID; pending verifiers of commands | gap check, command post-processing, Accepted/Complete verifiers | simulator, control bridge |
| Ingestion | `payload/.../ingestion` | SAFE folders on disk | search, download, integrity check, registration, dead letter | data store (external), catalogue |
| Processing | `payload/.../processing` | derived netCDF files | screening, retrieval, writing, registration | catalogue |
| Validation | `payload/.../validation` | `validation.json`, plot and report | co-location, statistics, gate | catalogue, by the command line |
| Operations | `payload/.../operations` | none | dead-letter list, resolution of a source, reprocessing | catalogue, processing, validation |
| Payload catalogue | `payload/.../catalogue` (SQLite) | one row per product | `register` (INSERT OR REPLACE), `update_status`, queries | all payload commands, payload bridge |
| Shared anomaly store | `shared/.../anomaly` (PostgreSQL) | one row per anomaly | `record` (upsert), `acknowledge`, `resolve`, `start_reprocess` | operators, control bridge |
| Shared catalogue | `shared/.../catalogue` (PostgreSQL) | one row per reference | `register` (upsert), queries | bridges |
| Control bridge | `shared/.../control_bridge` | none | collects references and alarms by REST and records them | Yamcs, both shared stores |
| Payload bridge | `shared/.../payload_bridge` | none | copies SQLite rows to the shared catalogue | payload and shared catalogue |
| Time service | `shared/.../time_service` | none | OBT/UTC conversion | the packet decoder |
| Command lines | `pdgs`, `sgs`, `sgs-sim` | none | one process per command | all of the above |
| Visualiser | `viz` | none | shows an exported snapshot | - |

What is hard in it:

- **Threads.** The simulator's receiver and emit loop share the model and the
  socket. Only the mailbox has a lock.
- **Processes on one store.** Every `pdgs` or `sgs` command is a process, and
  every database call a transaction of its own: a command reads, computes and
  writes with anything in between.
- **Partial failure.** `sendto`, a download, a netCDF file or a database call
  may raise at any step; few of the exceptions are caught. A process may be killed.
- **Repetition.** Ingest, process, reprocess and the bridges are run again and
  replace what is there.
- **Order of reports.** The ground tells telecommands apart by the order of
  reports on one APID.

What makes each part correct:

- *simulator*: no command is lost but to a later one; reports of two commands
  never mix; counters have no gap the network has not made; each event is sent
  once per crossing; shutdown ends both threads;
- *payload*: what the catalogue says is backed by the disk and by the report,
  wherever an earlier command ended; the gate decides; a product stays DISCOVERED
  only where its ingestion was cut off;
- *anomaly store*: rows follow the lifecycle, control anomalies are not
  reprocessed, an acknowledgement has a cause;
- *Yamcs link*: a gap warning has a cause, and silence means that nothing is
  missing but whole turns of the counter; a command shown complete was handed over to
  the simulator's model;
- *shared catalogue*: rows follow their sources, exit code 0 means that they do,
  and `ingest_time` bounds what an alarm's row may miss;
- *algorithms*: missing values never look clear, matched or passed, and the
  statistics of a comparison bear each other out.

## 2. The modules

| Module | What it is |
|---|---|
| `Telecommand` | datagrams as the receiver sees them, and its verification of them |
| `Simulator` | both threads of the simulator |
| `ModeCommanding` | the abstract specification of commanding a mode |
| `TmLink` | the downlink: any sender in sequence, UDP, and the preprocessor's gap check |
| `CommandLink` | the simulator commanded from Yamcs over UDP, its packets through the preprocessor to the verifiers; composes `Simulator` and `TmLink` |
| `AnomalyStore` | the anomaly store with its operators and pollers |
| `AnomalyLifecycle` | the abstract lifecycle of an anomaly |
| `PayloadPipeline` | the payload segment: commands over catalogue, disk and reports |
| `ProductRecord` | the abstract specification of what the payload catalogue says of a product |
| `SstChain` | what processing and validation compute of one scene |
| `SharedCatalogue` | the shared catalogue and the commands that write it |
| `SimulatorProofs`, `SimulatorEventsProofs`, `TmLinkProofs`, `CommandLinkProofs`, `AnomalyStoreProofs`, `PayloadPipelineProofs`, `SharedCatalogueProofs`, `SstChainProofs` | theorems about the module they are named for |
| `MCSimulator`, `MCTmLink`, `MCCommandLink`, `MCAnomalyStore`, `MCPayloadPipeline`, `MCSharedCatalogue`, `MCSstChain` | model values and bounds for TLC |

How they fit together: `CommandLink` extends `Simulator` (which extends
`Telecommand`) and has an instance of `TmLink` over the simulator's own stream
`tm`; `Simulator` is shown to implement `ModeCommanding`, `CommandLink` to
implement both `Simulator` and `TmLink`, `AnomalyStore` to implement
`AnomalyLifecycle`, `PayloadPipeline` to implement `ProductRecord`. `PayloadPipeline` leaves the verdict of the gate open; `SstChain`
says how it comes about. The shared catalogue reads the payload catalogue and
Yamcs as sources that change by themselves, so it needs neither model.

Definitions whose comment begins with *Mutant* are not part of a specification:
each is a plausible bug in the definition that follows it, used to see that a
property notices.

### Simulator

`loop` and `rx` are the program counters of `run_loop` and of `run_receiver`
with `TcReceiver.handle_datagram`. A step is what one thread does between two
points where the other can see it: a tick of the model (`LoopStep`: the mailbox
under its lock, the mode, the events), one `sendto` (`LoopSendHk`,
`LoopSendEvent`, `RxAccept`, `RxComplete`, `RxReject`), one `recvfrom`
(`RxReceive`, `RxTimeout`, `RxRecvError`), one look at the stop event
(`RxCheckStop`), one `command_mode` (`RxApply`), and the steps of the `finally`
clause (`LoopStop`, `LoopClose`). A send that raises leaves the loop for its
`finally`, and ends the receiver thread, as no handler is there (`RxSend`).
`LoopLeave` is the end of the duration or a `KeyboardInterrupt`.

Abstractions. `tm` is the sequence of packets handed to the network, with APID,
both counters, the report or event, and what a reader relates. The dynamics are
reduced to which parameters a tick leaves outside their soft limit: any member of
`Excursions`. A datagram is a record of the fields `tc.parse` and `tc.validate`
look at. `issued`, `taken` and all of `received` but its last element are history.

### TmLink

`Send` is any packet whose count continues its APID's stream; `Reboot` starts the
simulator's counters again; `Lose` and `Deliver` (which may leave a duplicate, and
takes any packet in flight) are UDP; `Process` is `MyPacketPreprocessor.process` and
`NewPreprocessor` a restart of Yamcs. `seqCounts` holds 0 for an APID not seen yet, as
`computeIfAbsent` creates the counter with 0: the first packet of an APID is judged
against that, so its warning says nothing. `boots` and `log` are history. A packet is
its place in `sent`, so that a copy and an overtaken packet are told from a new one
although the code cannot.

### CommandLink

`Release` is Yamcs sending a telecommand: `Postprocess` puts the filler's count in, which
is all that tells request ids apart, and the windows of its verifiers open. `ReceiveUp`
is the simulator's `RxReceive` on any telecommand released so far: lost, late, doubled.
`Simulate` is any other step of `Simulator`. `ReceiveDown` is `Tm!Deliver` followed by the
verifiers: `Matched` looks at the report's container and not at its request id, as
`xtce.xml` declares. `WindowEnds` is the five seconds: windows are equally long,
so they end in the order of the releases; nothing else is assumed of time.
`overlapped`, `handled`, `handedOver`, `about` and `log` are history: which telecommand a
datagram is a copy of, which ones `_apply` has passed on to the model, and which one a report
is about. The code has none of these, as request ids repeat when the filler's count wraps,
and in the model they do. A telecommand is *handed over* when `_apply` has returned: a
SET_MODE is in the mailbox then, from where a later one may still take its place before a
tick adopts it, so nothing is said of its execution; whether a mailbox that
is not overwritten is taken is `MailboxHoldsLatest` and `CommandsTaken` of `Simulator`.

### AnomalyStore

`CheckTransition` is the first transaction of `_transition` (read, check
against the table), `WriteTransition` its second (UPDATE whatever the state is by
then), `WriteFails` the `psycopg.Error` between. `Record` is the upsert.
`Collect` reads Yamcs, then `RecordAlarm` records one alarm at a time, and
`RecordFails` gives up the rest. `AlarmTriggers` and `AlarmAcknowledged` are Yamcs's
own: external, modelled from the fields the bridge reads. `op[o].seen`, `recorded`
and `acks` are history. `ApartSpec` is for the lifecycle: operators that overlap
without two of them having a transition of the same anomaly pending, and nothing recorded
twice; the code sees to neither. `record_anomalies` and
`start_reprocess` are library functions without a command of their own yet.

### PayloadPipeline

`cli[c]` is a running command with its program counter; an idle slot takes the
next command (`Start`). The steps of `ingest`: `NextProduct`, `Stub`,
`DownloadClear` (the old folder is removed), `DownloadBegin`/`DownloadEnd` (the new one is
begun and filled), `Checksum`, `Verify`, `Register`, and the handler (`Raises`,
`DeadLetter`, and `DeadLetterRaises`: the handler's own `catalogue.register` raises, which
ends the command). Those of `process_scene`: `Read`, `WriteBegin`/`WriteEnd` (the
netCDF file is truncated, then filled), `Insert`. Those of `validate` and
`reprocess --validate`: `Judge` (report and verdict), `Mark`. `Resolve` is
`resolve_source_l1_dir`. `ProcessRaises` is the traceback that ends a command;
`Crash` is that of any other step, or a kill.

Abstractions. A folder is nothing, partial or whole; a derived file is nothing,
partial or the number of the run that wrote it; the verdict of the gate is any.
A product is reprocessed by the id of its scene (that of its derived product
resolves to the same). The report is written in one step. `earned` (the run on record has
passed), `displaced` (the row on record replaced one still being validated) and `cut` (the
product was left DISCOVERED by an invocation that ended there) are history.
`process` and `validate` read a directory that the user names or the fixture, which
is not the download directory; only `reprocess` reads that.

`ApartSpec` restricts who gives the commands, not the code: invocations overlap, but no two
work on the same product at a time. Nothing in the code sees to that, no product is locked;
`pipeline_overlap` is without it. `ProductRecord` has neither invocations nor failures:
its steps say when a status, a folder, a file, a row and a report may change given the
others. The mapping takes the status of a row, the set of whole folders, and the rest as it is.

### SharedCatalogue

A command begins (`SyncPayload`, `Bridge`), reads its source (`SelectProducts`;
`FetchParameters`, `FetchAlarms`, one per REST request), registers entry by entry
(`Register`, the unconditional upsert), and ends with exit code 0 (`Finish`) or, at any
step, with 1 (`GiveUp`, which also stands for a kill). The sources change in between:
`ProductChanges` and `AlarmChanges` are external. What a source says of an id is the
number of its version; `ingest` is `created_at` for a product and the time `collect` has
taken for an alarm or a parameter. Neither is the time of recording, which
`sgs_shared/catalogue/models.py:80` calls `ingest_time`: that of a payload row is its
product's, that of an alarm or parameter is taken before the requests to Yamcs and written
after them. The property about it is stated of alarms, and what makes it hold is just that it
is the earlier time; it compares the clock of the bridge with that of Yamcs, which
the model takes to be one. A version of an alarm is any change of it that gets into a
row: raised, acknowledged, another severity, one more violation. `began` and `overtaken` are history. The `ValueError` that
`_parse_iso_utc` may raise on a malformed time from Yamcs ends the command like any other
failure.

### SstChain

`Process` is `screen_clouds` and `retrieve_sst` on every pixel, `Colocate` is `colocate`,
`Judge` is `compute_stats` and `evaluate`. A float is an integer or `NaN`, with `NaN`'s
comparisons false; a location has one coordinate. Which of several nearest
neighbours the tree returns is left open. Bias, RMSE and percentage are kept as the sums
they are quotients of and compared without dividing, so no rounding is modelled.

## 3. The runs

| Run | Instance | What it shows |
|---|---|---|
| `sim_commanding` | 2 of 6 kinds of datagrams, 2 ticks, failing I/O, a receiver that outlives the loop, fair threads | types; contiguous counters; every datagram answered, in order; the mailbox; `ModeCommanding` is implemented; commands are taken, shutdown completes |
| `sim_events` | 3 ticks, excursions of 2 limits, 1 SET_MODE, no failures | each tick's events are sent once, right after its HK packet; without send failures the handler never raises, not even in shutdown |
| `tm_link` | 5 packets of 2 APIDs, counts modulo 3, 1 restart of the simulator, any of Yamcs, 3 packets per preprocessor | what a SEQ_COUNT_JUMP warning means and what its absence does |
| `command_link` | 3 telecommands of 2 request ids, 2 datagrams received, 2 packets received, no HK | what is shown complete was handed over; a verdict is about its own command or one of four confusions has happened |
| `anomaly_store` | 1 payload and 1 control anomaly, 2 operators, 2 pollers, 2 recordings each | what no interleaving breaks, and the only two ways to break the lifecycle |
| `anomaly_apart` | 3 anomalies, each recorded once, 2 operators that never transition the same one at a time, 2 pollers | the lifecycle is implemented |
| `anomaly_race` | 1 anomaly, 2 operators | *violated*: RESOLVED is terminal |
| `pipeline_apart` | 2 scenes, 3 commands of any kind in 2 invocations that overlap but never work on the same product, each ended anywhere | catalogue, disk and reports agree; the gate decides; `ProductRecord` is implemented |
| `pipeline_overlap` | 1 scene, 2 overlapping invocations, 3 commands of any kind, 3 runs of the processor, anything may raise or be killed, fair | VALIDATED is of the run on record or of one it overtook; a product gets from DISCOVERED to REGISTERED or FAILED, or was cut off |
| `pipeline_failed` | 1 scene, `ingest` and `reprocess` | *violated*: a FAILED product can be reprocessed |
| `shared_catalogue` | 1 product, 1 alarm, 1 parameter, 2 processes, 2 changes of the sources, failures anywhere | `ingest_time`, exit code 0 and the order of versions; stale rows are repaired |
| `sst_chain` | every scene of 2 pixels against 2 reference pixels, missing, cold, flagged, out of range, of poor quality | what is derived, compared and passed; the statistics agree |

Bounds. Every bound is a constant. Two datagrams and two ticks already give every
order of two commands and the tick that takes one or both; three ticks let a limit be
entered, left and entered again. The counters wrap within a run because
their moduli are 2, 3 or 5 there, instead of 2^14 and 2^16. In `tm_link` five packets with
counts modulo 3 allow a whole turn to be lost, which is the one loss that the check cannot
see. In `command_link` two commands are what it takes to confuse one with the other, and
two packets received let one report be seen twice; a third command repeats the request id of
the first. The ticks are left out because HK and
event packets match no verifier (the proofs have any number of them); without them there is
nothing in the run to say of two sending threads, so that the composition implements `TmLink` is
proved and not run. Two operators
suffice for one to overtake the other, two recordings for one to undo a transition, two
processes and two changes of a source for a slow one to write back what is old. Three
commands allow ingest, validate and anything after, the third besides the others; a
reference product is never more than ingested, which a scene may be too, so the runs have
scenes only; four runs of the processor let the
command `run`, which processes twice, be followed by two more. Two pixels and two
reference pixels let the nearest be bad, cut off by the box, or shared. `MinMatchCount` is
0 in `sst_chain`, which is where an empty comparison could pass. The theorems
below do not depend on these bounds. Every run has `ModeToSafe` FALSE; the proofs
have either value.

`CHECK_DEADLOCK FALSE` is set in `anomaly_race`, which stops once its anomaly is
resolved, in the runs of the pipeline, which stop when their commands are used up
(nobody need give another), and in `sst_chain`, which ends with its verdict.

Fairness. `sim_commanding`: both threads are scheduled by the operating system
(`WF_vars(Loop)`, `WF_vars(Rx)`), and a run whose duration is over leaves its loop;
nothing is assumed of interrupts, of the network or of telecommands. The socket's timeout
is what lets the receiver go on, so `RxTimeout` is part of `Rx`. Waiting for a
telecommand and timing out are both `Rx` steps: fairness does not promise that
one arrives. `pipeline_overlap`: an invocation that is not killed goes on
(`WF_vars(Ingest(c) \/ Process(c))`); nothing makes a command be given, and one that is
killed or whose handler raises ends there (`cut`).
`shared_catalogue`: none is assumed. `EventuallyMirrored` has a hypothesis
instead: each of the two commands succeeds again and again, which is what an operator
does who repeats one that has failed.

### What the documentation says and the code does not do

| Where | Statement | What happens |
|---|---|---|
| run `anomaly_race` | RESOLVED is terminal (`anomaly/models.py:39`, `ICD.md:333`) | a transition checked before and written after a resolve takes the row back; so does recording the anomaly again |
| run `pipeline_failed` | operations guide, line 59: re-attempt a FAILED product with `pdgs reprocess` | FAILED rows have no path, and `reprocess` refuses those |
| by reading | `PACKET_FORMAT.md:270`: TM[1,7] means that the telecommand has been applied | it is sent when the mailbox is filled (`receiver.py:106`); a second SET_MODE before the tick replaces the first (`anomalies.py:74`) |
| by reading | `receiver.py:74`: `handle_datagram` never raises | an `OSError` of `sendto` (`receiver.py:143`) goes through it and ends the receiver thread; `HandlerNeverRaises` holds where sends work |
| by reading | docstring of `ingest` (`ingest.py:88`): any failure routes the product to FAILED | the handler's own `catalogue.register` (`ingest.py:155`) may raise, and the product stays DISCOVERED: the case `cut` of `NoneForgotten` and `IngestSettles` |
| by reading | REQ-OPS-01: a product whose processing fails goes to the dead letter | the exception ends the command (`pdgs/cli/main.py:282`); nothing is written |

The ICD says of the verifiers that they are "correct for one command in flight". The four
disjuncts of `Confusion` say what that has to include: windows that do not overlap, no report
after its window, no doubled report, and no earlier verdict due to another command's
report.

## 4. What is proved

All proofs are for any values of the constants that satisfy the named assumptions
(`SimulatorAssumption`, `TmLinkAssumption`, `CommandLinkAssumption`,
`AnomalyStoreAssumption`, `PipelineAssumption`, `SharedCatalogueAssumption`,
`SstChainAssumption`): the sets of datagrams, packets, anomalies, operators, products,
invocations and pixels are arbitrary, the bounds any numbers, the moduli any positive ones
(above one for the gap check).

**Simulator** (`SimulatorProofs`)

- `TypeCorrect`: `TypeOK`. It includes that a thread at a step of the handler
  has an accepted (or rejectable) datagram in hand.
- `CommandsKept`: `MailboxHoldsLatest` and `ModeIsLatestTaken`. They are inductive only
  together: a tick moves the mode to what the mailbox holds, so each is the other's
  hypothesis.
- `ImplementsCommanding`: each step of the threads is an `Issue`, a `TakeOver` or a
  stutter of `ModeCommanding`, given those two invariants.
- `CountsContiguous`: `StreamsContiguous`. The strengthening is that the thread which owns
  an APID holds the counts that the next packet on it is due (or has failed to send and sends
  no more on it).
- `EveryDatagramAnswered`: `ReportsAnswerInOrder`. Reports are counted, those on the stream
  and those the datagrams are owed, so that the statement and its proof need no recursion.
  The invariant (`AnswerInv`) says for each place of the receiver how many have left: all
  that are owed up to the last datagram, all but its own, or all but its completion
  (`Outstanding`). A datagram later in order never changes what an earlier one is owed, a
  packet of the other thread never the number of reports.
- `ReportsNeverMix`: `ReportsPaired`, which is about neighbours on the stream. The
  strengthening names the last report from the place of the receiver: at `apply` and
  `complete` it is the acceptance of the command in hand. No run has this one:
  `ReportsAnswerInOrder` says more.
- `HandlerSafe`: `HandlerNeverRaises`, where sends do not fail of themselves and `join`
  waits until the receiver has ended: the socket is open as long as the receiver runs.
- `EventsBetweenHk` (in `SimulatorEventsProofs`): `EventsMatchHk`, whatever is commanded and
  whichever send fails. The invariant `HkInv` follows a tick through the loop: the latches say
  what the last HK packet said (`Latched`), so the events a tick detects are those a reader
  expects between that packet and the next (`DetectedIsExpected`); while they
  are sent, what was sent since the last HK packet and what is left are together what is
  expected, without repetition (`Sending`). The receiver's packets in between are on another
  APID and change nothing (`Quiet`).

**Links** (`TmLinkProofs`, `CommandLinkProofs`)

- `TypeCorrect`, `WarningsHaveCause`, `SilenceIsSound` of `TmLink`: the counter of an APID is the
  count of the last packet seen of it (`LogInv`), and between two packets of one
  run of the simulator counts differ by how many were sent (`CountsAdvance`), modulo
  the counter.
- `LinkImplementsTmLink`: the composition implements `TmLink`. That the stream is in
  sequence is `CountsContiguous` of the simulator; that it has at most
  `6 * MaxTicks + 2 * MaxDatagrams` packets (one HK and five events a tick, two reports a
  datagram) is the lemma about `Account`. No run has this one: without ticks, as in
  `command_link`, only one thread sends.
- `LinkTypeCorrect`: `LinkTypeOK`.
- `VerdictsAreRight`: `VerifiedMeansHandedOver`, for any number of commands, request ids
  repeating. `HandoverInv` says that a completion is sent only of a telecommand handed over;
  `VerdictInv` says of each pair of commands whose windows did not overlap that the report which decided
  the earlier one is before the one which decided the later.

**Anomaly store** (`AnomalyStoreProofs`)

- `TypeCorrect`, `OnlyPayloadReprocesses`, `AcknowledgementHasCause`, from one invariant
  about pending transitions: each was legal for the state its operator has seen, the
  ones towards REPROCESSING are of payload anomalies, and a row once there stays.
- `OvertakingIsTheOnlyCause`: a row moves against the lifecycle only by a repeated
  recording or a write whose check was overtaken.
- `ImplementsLifecycle`: `AnomalyLifecycle` is implemented, under `ApartSpec`, by any
  number of operators. A pending transition has then not been overtaken (`NotOvertaken`):
  no other writes that row, and it is not recorded again. Both conditions are
  needed: without either, the run `anomaly_race` or a second recording leaves RESOLVED.

**Payload** (`PayloadPipelineProofs`)

- `TypeCorrect`: `TypeOK`, for overlapping invocations too. It says that exactly the REGISTERED
  rows carry a path, and that an invocation has an item and a run where it needs them.
- `ValidatedOrOvertaken`: `ValidatedOnlyIfOvertaken`, for overlapping invocations too. The
  invariant (`OvertakenInv`) is about whoever is between its insertion and its mark: another's
  insertion has since found it there (`displaced`), or the row is of its own run and, once it
  has passed the gate, `earned`.
- `DiscoveredIsUnderway`: `NoneForgotten`, whatever overlaps, raises or is killed: the same
  step that writes DISCOVERED puts the invocation underway, and the only ways out of there
  write another status or are noted in `cut`.
- `RegisteredFoldersWhole`, `ValidatedHasReport`, `FileKeepsUp`, `NoPartialScenes`,
  `GateHolds`, under `ApartSpec`: any number of invocations overlap, on different
  products. The inductive invariant `IInv` joins them with `StepInv`, what an invocation
  relies on between its steps: after its stub the row says DISCOVERED while the folder
  changes; the folder is whole from the checksum on; no row is of its run or a later one
  before it is inserted, and the file is of the run then; the row is of the run while the
  report is written; report and row are when it is marked. All of that is about the product
  worked on, and a step changes no other (`OwnProduct`), so others leave it
  (`OthersUndisturbed`). Two invocations on the same product can break each of these:
  nothing in the code locks a product, and TLC finds each property violated under `Spec` with
  two slots.
- `ImplementsRecord`: `ProductRecord` is implemented, under `ApartSpec` too. A step of
  ingestion is one of its product or changes nothing on record, a step of processing one of
  its derived product; `StepInv` is what their guards ask for.

**Shared catalogue** (`SharedCatalogueProofs`)

- `TypeCorrect`, `IngestTimesSound`, `ExitZeroMirrors` and `OnlyOvertakenGoBack`, for any
  number of overlapping commands, from one inductive invariant: what a command has collected
  was its source's at or after its beginning and shows every change up to its stamp
  (`TodoInv`, `Sound`), is not behind the row unless another command has registered that id
  since (`FreshInv`), and together with the table covers what the command began with
  (`CoverInv`).

**Chain of a scene** (`SstChainProofs`)

- `DerivedValuesSound`, `PairsSound`, `NearestIsNearest`, `PassesAreEarned`, for every scene,
  reference and configuration: the invariant says what each function left behind, and
  arithmetic on integers does the rest. For the third: a reference outside the box is farther
  from every usable pixel than the margin.
- `StatisticsAgree`: `StatsAgree`, for any number of pairs: bias within RMSE
  (Cauchy-Schwarz, one difference at a time), RMSE within the tolerance when every pair is,
  and not below what the pairs beyond it amount to.
- `TypeCorrect`: `TypeOK`; it needs that sums of numbers are numbers.

The sums are recursive functions over the subsets of a finite set. What they compute takes an
induction that the library's theorems cannot give here, as those have an operator for a
parameter: `SubsetInduction` shows, from a smallest counterexample (`MinimalSubset`), that a
set of subsets which has the empty one, and each other with those one element smaller,
has all. From it follow that the recursion has a solution and only one (`SumsUpExists`,
`SumsAgree`), how a sum takes its next element (`SumTakesFirst`), and bounds from above and
below (`SumBound`, `SumAtLeast`).

What only TLC checks: liveness (`CommandsTaken`, `ShutdownCompletes`, `IngestSettles`,
`EventuallyMirrored`), since fairness and ENABLED are out of the prover's reach. Every other
property of a passing run is a theorem. Of `IngestSettles` the safety part is one,
`DiscoveredIsUnderway`.

## 5. Plan

The plan was, in this order: the simulator; the anomaly store; the payload
pipeline; the downlink and its gap check; the verifiers; the shared catalogue; the
algorithms of a scene; proofs of each. All of it is done. What could follow: a second
`mode_to_safe` run (only the proofs cover TRUE), and `update_status` of the shared
catalogue once a command calls it.

## 6. Not modelled, and why

- Argument parsing, listings and overviews, formatting, the PNG and Markdown reports, the
  visualiser, `seed-demo` (two fixed rows under ids of their own): output without protocol
  state.
- Configuration loading: parsing and checks of presence and type, of values that never change
  afterwards; the payload's checks no range, so the models admit any values.
- The random walk of the simulated parameters: only which limits a tick exceeds is kept.
- Time service: a stateless linear conversion of floats with a fixed seed; what could be wrong is
  rounding, which integers do not show.
- Telemetry containers in `xtce.xml`: Yamcs interprets them.
- `set_provenance` of both catalogues and `update_status` of the shared one: no command calls
  them.
- The schema creation of the stores, done once when a store is opened.
- Yamcs itself and the EUMETSAT data store: external; modelled only as what the code
  under `src/` receives from them.
