-------------------------- MODULE SharedCatalogue --------------------------
(***************************************************************************)
(* The shared catalogue (sgs_shared.catalogue) and the commands that write *)
(* it: sync-payload copies the products of the payload's SQLite catalogue, *)
(* bridge the parameters and alarms of Yamcs.                              *)
(* Each command is a process that first collects and then registers entry  *)
(* by entry, each entry in a transaction of its own; commands may overlap, *)
(* fail or be killed anywhere.                                             *)
(*                                                                         *)
(* What a source says of an id is reduced to the number of its version;    *)
(* the columns of a row that only depend on the version are left out.      *)
(***************************************************************************)
EXTENDS Naturals, Sequences

CONSTANTS
  Product,           \* product ids of the payload catalogue
  Alarm,             \* locators of alarms, yamcs://.../alarms...
  Parameter,         \* locators of parameters, yamcs://.../parameters...
  Cmd,               \* processes running sgs-ops
  MaxChanges         \* bound: changes of the sources

Id == Product \cup Alarm \cup Parameter

ASSUME SharedCatalogueAssumption ==
  /\ Product \cap (Alarm \cup Parameter) = {}
  /\ Alarm \cap Parameter = {}
  /\ MaxChanges \in Nat

VARIABLES
  history,   \* per product and alarm, a time for each version of it: external
  now,       \* the time, counted in changes of the sources
  rows,      \* the table catalogue_entries
  pc,        \* where each command is
  todo,      \* the entries it has collected and not yet registered
  stamp,     \* the ingest_time YamcsControlBridge.collect has taken
  exit,      \* the exit code of the command before
  began,     \* history: the versions of its sources when a command began
  overtaken  \* history: ids others have registered since it began

sourceVars  == <<history, now>>
commandVars == <<pc, todo, stamp, exit, began>>
vars        == <<history, now, rows, pc, todo, stamp, exit, began, overtaken>>

-----------------------------------------------------------------------------
(* Rows and entries.                                                       *)

\* entry_from_payload_product.
PayloadEntry(p, v, t) ==
  [id |-> p, origin |-> "payload", simulated |-> FALSE, version |-> v, ingest |-> t]

\* Mutant: the mark of simulated data is lost.
ControlEntryUnmarked(i, v, t) ==
  [id |-> i, origin |-> "control", simulated |-> FALSE, version |-> v, ingest |-> t]

\* entry_from_control_alarm and entry_from_control_archive_ref.
ControlEntry(i, v, t) ==
  [id |-> i, origin |-> "control", simulated |-> TRUE, version |-> v, ingest |-> t]

Entry ==
  [id : Product, origin : {"payload"}, simulated : {FALSE}, version : Nat \ {0}, ingest : Nat]
    \cup
  [id : Alarm \cup Parameter, origin : {"control"}, simulated : {TRUE}, version : Nat \ {0}, ingest : Nat]

NoRow == [version |-> 0]

\* The version a source has of an id by now: 0 if it has none.
Latest(i) == IF i \in Product \cup Alarm THEN Len(history[i]) ELSE 1

\* The SELECT of PayloadSqliteBridge.collect: ingest_time is created_at of the row.
ProductRows ==
  {PayloadEntry(p, Latest(p), history[p][Latest(p)]) : p \in {q \in Product : Latest(q) > 0}}

\* _collect_archive_refs and _collect_alarm_refs, with the time collect has taken.
ArchiveRefs(t) == {ControlEntry(m, Latest(m), t) : m \in Parameter}
AlarmRefs(t)   == {ControlEntry(a, Latest(a), t) : a \in {b \in Alarm : Latest(b) > 0}}

-----------------------------------------------------------------------------
(* The sources.                                                            *)

\* The payload segment writes a product's row: a new created_at with INSERT OR
\* REPLACE, the one of before with update_status.
ProductChanges(p) ==
  /\ now < MaxChanges
  /\ now' = now + 1
  /\ \/ history' = [history EXCEPT ![p] = Append(@, now')]
     \/ /\ history[p] # << >>
        /\ history' = [history EXCEPT ![p] = Append(@, @[Len(@)])]
  /\ UNCHANGED <<rows, commandVars, overtaken>>

\* Yamcs raises an alarm (version 1); it is acknowledged, its severity rises, or it
\* is violated once more: all of this gets into status, severity and detail of a row.
AlarmChanges(a) ==
  /\ now < MaxChanges
  /\ now' = now + 1
  /\ history' = [history EXCEPT ![a] = Append(@, now')]
  /\ UNCHANGED <<rows, commandVars, overtaken>>

-----------------------------------------------------------------------------
(* The commands.                                                           *)

Goto(c, place) == pc' = [pc EXCEPT ![c] = place]

\* A command on the ids of a source; from now on others may overtake it.
Begin(c, ids, place) ==
  /\ pc[c] = "idle"
  /\ Goto(c, place)
  /\ began' = [began EXCEPT ![c] = [i \in ids |-> Latest(i)]]
  /\ overtaken' = [overtaken EXCEPT ![c] = {}]
  /\ UNCHANGED <<sourceVars, rows, exit>>

\* _cmd_sync_payload, up to record_products.
SyncPayload(c) ==
  /\ Begin(c, Product, "select")
  /\ UNCHANGED <<todo, stamp>>

\* _cmd_bridge, up to record_references; collect takes the time before it asks.
Bridge(c) ==
  /\ Begin(c, Alarm \cup Parameter, "parameters")
  /\ stamp' = [stamp EXCEPT ![c] = now]
  /\ UNCHANGED todo

\* What is read at once from a source.
Collect(c, from, entries, place) ==
  /\ pc[c] = from
  /\ Goto(c, place)
  /\ todo' = [todo EXCEPT ![c] = @ \cup entries]
  /\ UNCHANGED <<sourceVars, rows, stamp, exit, began, overtaken>>

SelectProducts(c)  == Collect(c, "select", ProductRows, "register")
FetchParameters(c) == Collect(c, "parameters", ArchiveRefs(stamp[c]), "alarms")
FetchAlarms(c)     == Collect(c, "alarms", AlarmRefs(stamp[c]), "register")

\* The order of the list bridge registers; that of the products is any.
Precedes(i, j) == i \in Parameter /\ j \in Alarm

\* Whoever works on the same source has been overtaken on this id.
Overtake(c, i) ==
  overtaken' = [d \in Cmd |-> IF d # c /\ i \in DOMAIN began[d] THEN overtaken[d] \cup {i}
                             ELSE overtaken[d]]

\* Mutant: an entry that is there already is left alone.
RegisterIfAbsent(c) ==
  /\ pc[c] = "register"
  /\ \E e \in todo[c] :
       /\ \A f \in todo[c] : ~Precedes(f.id, e.id)
       /\ rows' = [rows EXCEPT ![e.id] = IF @ = NoRow THEN e ELSE @]
       /\ todo' = [todo EXCEPT ![c] = @ \ {e}]
       /\ Overtake(c, e.id)
  /\ UNCHANGED <<sourceVars, pc, stamp, exit, began>>

\* Mutant: ingest_time is the time at which the row is written.
RegisterStampsNow(c) ==
  /\ pc[c] = "register"
  /\ \E e \in todo[c] :
       /\ \A f \in todo[c] : ~Precedes(f.id, e.id)
       /\ rows' = [rows EXCEPT ![e.id] = [e EXCEPT !.ingest = now]]
       /\ todo' = [todo EXCEPT ![c] = @ \ {e}]
       /\ Overtake(c, e.id)
  /\ UNCHANGED <<sourceVars, pc, stamp, exit, began>>

\* register: the upsert of one entry, in a transaction of its own.
Register(c) ==
  /\ pc[c] = "register"
  /\ \E e \in todo[c] :
       /\ \A f \in todo[c] : ~Precedes(f.id, e.id)
       /\ rows' = [rows EXCEPT ![e.id] = e]
       /\ todo' = [todo EXCEPT ![c] = @ \ {e}]
       /\ Overtake(c, e.id)
  /\ UNCHANGED <<sourceVars, pc, stamp, exit, began>>

\* Every entry is registered: the command reports their number and exits with 0.
Finish(c) ==
  /\ pc[c] = "register"
  /\ todo[c] = {}
  /\ Goto(c, "idle")
  /\ exit' = [exit EXCEPT ![c] = 0]
  /\ stamp' = [stamp EXCEPT ![c] = 0]
  /\ UNCHANGED <<sourceVars, rows, todo, began, overtaken>>

\* Mutant: a failure is not reported.
GiveUpQuietly(c) ==
  /\ pc[c] # "idle"
  /\ Goto(c, "idle")
  /\ todo' = [todo EXCEPT ![c] = {}]
  /\ exit' = [exit EXCEPT ![c] = 0]
  /\ stamp' = [stamp EXCEPT ![c] = 0]
  /\ UNCHANGED <<sourceVars, rows, began, overtaken>>

\* Mutant: what a failed command has collected is kept for the next.
GiveUpKeepsTodo(c) ==
  /\ pc[c] # "idle"
  /\ Goto(c, "idle")
  /\ exit' = [exit EXCEPT ![c] = 1]
  /\ stamp' = [stamp EXCEPT ![c] = 0]
  /\ UNCHANGED <<sourceVars, rows, todo, began, overtaken>>

\* CatalogueError, BridgeError or PayloadBridgeError at any step, or a kill: what
\* is registered stays, the rest is given up.
GiveUp(c) ==
  /\ pc[c] # "idle"
  /\ Goto(c, "idle")
  /\ todo' = [todo EXCEPT ![c] = {}]
  /\ exit' = [exit EXCEPT ![c] = 1]
  /\ stamp' = [stamp EXCEPT ![c] = 0]
  /\ UNCHANGED <<sourceVars, rows, began, overtaken>>

-----------------------------------------------------------------------------
Init ==
  /\ history = [i \in Product \cup Alarm |-> << >>]
  /\ now = 0
  /\ rows = [i \in Id |-> NoRow]
  /\ pc = [c \in Cmd |-> "idle"]
  /\ todo = [c \in Cmd |-> {}]
  /\ stamp = [c \in Cmd |-> 0]
  /\ exit = [c \in Cmd |-> 0]
  /\ began = [c \in Cmd |-> [i \in {} |-> 0]]
  /\ overtaken = [c \in Cmd |-> {}]

Command(c) ==
  \/ SyncPayload(c) \/ Bridge(c)
  \/ SelectProducts(c) \/ FetchParameters(c) \/ FetchAlarms(c)
  \/ Register(c) \/ Finish(c) \/ GiveUp(c)

Next ==
  \/ \E p \in Product : ProductChanges(p)
  \/ \E a \in Alarm : AlarmChanges(a)
  \/ \E c \in Cmd : Command(c)

Spec == Init /\ [][Next]_vars

-----------------------------------------------------------------------------
(* Properties.                                                             *)

\* Types. A row is marked with the segment its id belongs to, and control rows
\* as simulated; it shows a version its source has had; a product and an alarm
\* have one time per version.
TypeOK ==
  /\ now \in 0 .. MaxChanges
  /\ history \in [Product \cup Alarm -> Seq(Nat)]
  /\ rows \in [Id -> Entry \cup {NoRow}]
  /\ \A i \in Id : rows[i] # NoRow => rows[i].id = i /\ rows[i].version <= Latest(i)
  /\ pc \in [Cmd -> {"idle", "select", "parameters", "alarms", "register"}]
  /\ todo \in [Cmd -> SUBSET Entry]
  /\ stamp \in [Cmd -> 0 .. MaxChanges]
  /\ exit \in [Cmd -> {0, 1}]
  /\ overtaken \in [Cmd -> SUBSET Id]

\* The ingest_time of an alarm's row can be relied on: the row shows every change
\* of the alarm up to that time, whatever commands overlap (collect takes the
\* time before it asks Yamcs, and register writes what was collected).
IngestTimeIsSound ==
  \A a \in Alarm : rows[a] # NoRow =>
    \A k \in 1 .. Len(history[a]) :
      history[a][k] <= rows[a].ingest => k <= rows[a].version

\* Rows never vanish, and one goes back to an earlier version only when it is
\* registered by a command which another one has overtaken on that id.
BackOnlyIfOvertaken ==
  [][\A i \in Id :
       \/ rows'[i].version >= rows[i].version
       \/ rows'[i] # NoRow /\ \E c \in Cmd : pc[c] = "register" /\ i \in overtaken[c] /\ todo'[c] # todo[c]]_vars

\* A command that exits with 0 has mirrored the whole of its source: each row is
\* as recent as the source was when the command began, unless another command
\* registered it since. A row missing or left behind is always reported by exit 1.
ExitZeroMeansMirrored ==
  \A c \in Cmd : pc[c] = "idle" /\ exit[c] = 0 =>
    \A i \in DOMAIN began[c] \ overtaken[c] : rows[i].version >= began[c][i]

Mirrored == \A i \in Product \cup Alarm \cup Parameter : rows[i].version = Latest(i)

FinishOn(ids) == \E c \in Cmd : DOMAIN began[c] = ids /\ Finish(c)

\* As long as sync-payload and bridge succeed again and again, the catalogue comes
\* to be the mirror of both sources once these are at rest, and stays it: stale
\* rows of failed or overtaken commands are repaired.
EventuallyMirrored ==
  []<><<FinishOn(Product)>>_vars /\ []<><<FinishOn(Alarm \cup Parameter)>>_vars => <>[]Mirrored
==============================================================================
