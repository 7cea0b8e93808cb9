----------------------- MODULE SharedCatalogueProofs -----------------------
(* Theorems about SharedCatalogue, for any sources, any number of commands *)
(* and any number of changes.                                              *)
EXTENDS SharedCatalogue, TLAPS, SequenceTheorems

-----------------------------------------------------------------------------
(* The inductive invariant.                                                *)

\* An alarm's entry shows every change up to its ingest_time.
Sound(e) ==
  /\ e.ingest <= now
  /\ \A k \in 1 .. Len(history[e.id]) : history[e.id][k] <= e.ingest => k <= e.version

\* What a command remembers of its beginning.
BeganInv ==
  /\ DOMAIN began = Cmd
  /\ \A c \in Cmd :
       /\ DOMAIN began[c] \subseteq Id
       /\ \A i \in DOMAIN began[c] : began[c][i] \in Nat /\ began[c][i] <= Latest(i)
       /\ pc[c] = "select" => DOMAIN began[c] = Product
       /\ pc[c] \in {"parameters", "alarms"} => DOMAIN began[c] = Alarm \cup Parameter

\* What a command has in hand, place by place.
TodoInv ==
  \A c \in Cmd :
    /\ pc[c] \in {"idle", "select", "parameters"} => todo[c] = {}
    /\ pc[c] = "alarms" => \A e \in todo[c] : e.id \in Parameter
    /\ stamp[c] <= now
    /\ \A e \in todo[c] :
         /\ e.id \in DOMAIN began[c]
         /\ began[c][e.id] <= e.version
         /\ e.version <= Latest(e.id)
         /\ e.id \in Alarm => Sound(e)
         /\ \A f \in todo[c] : e.id = f.id => e = f

RowInv == \A a \in Alarm : rows[a] # NoRow => Sound(rows[a])

\* An entry which nobody has overtaken is not behind its row.
FreshInv ==
  \A c \in Cmd : \A e \in todo[c] :
    e.id \notin overtaken[c] => rows[e.id].version <= e.version

\* What a command has begun with is in its hands or in the table.
Covered(c, i) ==
  /\ pc[c] = "idle" /\ exit[c] = 0 => rows[i].version >= began[c][i]
  /\ pc[c] = "alarms" /\ i \in Parameter => \E e \in todo[c] : e.id = i
  /\ pc[c] = "register" => rows[i].version >= began[c][i] \/ \E e \in todo[c] : e.id = i
CoverInv == \A c \in Cmd : \A i \in DOMAIN began[c] \ overtaken[c] : Covered(c, i)

TimeInv == \A a \in Alarm : \A k \in 1 .. Len(history[a]) : history[a][k] <= now

IInv ==
  /\ TypeOK /\ BeganInv /\ TodoInv /\ RowInv /\ FreshInv /\ CoverInv /\ TimeInv

-----------------------------------------------------------------------------
(* Lemmas.                                                                 *)

LEMMA Latests ==
  ASSUME TypeOK
  PROVE  \A i \in Id : Latest(i) \in Nat
BY DEF TypeOK, Latest, Id

LEMMA Versions ==
  ASSUME TypeOK
  PROVE  /\ \A i \in Id : rows[i].version \in Nat
         /\ \A c \in Cmd : \A e \in todo[c] : e \in Entry /\ e.id \in Id /\ e.version \in Nat /\ e.version > 0 /\ e.ingest \in Nat
<1>1. ASSUME NEW i \in Id PROVE rows[i].version \in Nat
  <2>1. CASE rows[i] = NoRow
    BY <2>1 DEF NoRow
  <2>2. CASE rows[i] \in Entry
    BY <2>2 DEF Entry
  <2> QED BY <2>1, <2>2 DEF TypeOK
<1>2. ASSUME NEW c \in Cmd, NEW e \in todo[c]
      PROVE  e \in Entry /\ e.id \in Id /\ e.version \in Nat /\ e.version > 0 /\ e.ingest \in Nat
  <2>1. e \in Entry BY DEF TypeOK
  <2>2. CASE e \in [id : Product, origin : {"payload"}, simulated : {FALSE},
                    version : Nat \ {0}, ingest : Nat]
    BY <2>1, <2>2 DEF Id
  <2>3. CASE e \in [id : Alarm \cup Parameter, origin : {"control"}, simulated : {TRUE},
                    version : Nat \ {0}, ingest : Nat]
    BY <2>1, <2>3 DEF Id
  <2> QED BY <2>1, <2>2, <2>3 DEF Entry
<1> QED BY <1>1, <1>2

LEMMA InitInv == Init => IInv
<1> SUFFICES ASSUME Init PROVE IInv
  OBVIOUS
<1> USE DEF Init
<1>1. TypeOK
  <2>1. history \in [Product \cup Alarm -> Seq(Nat)]
    OBVIOUS
  <2> QED BY <2>1, SharedCatalogueAssumption DEF TypeOK
<1>2. BeganInv
  BY DEF BeganInv
<1>3. TodoInv
  BY DEF TodoInv
<1>4. RowInv
  BY DEF RowInv, Id
<1>5. FreshInv
  BY DEF FreshInv
<1>6. CoverInv
  BY DEF CoverInv
<1>7. TimeInv
  BY DEF TimeInv
<1> QED BY <1>1, <1>2, <1>3, <1>4, <1>5, <1>6, <1>7 DEF IInv

\* A source changes: a version is added, under a later time for an alarm.
LEMMA ChangeKeeps ==
  ASSUME IInv, NEW s \in Product \cup Alarm, NEW t \in Nat,
         now < MaxChanges, now' = now + 1,
         history' = [history EXCEPT ![s] = Append(@, t)],
         s \in Alarm => t = now',
         UNCHANGED <<rows, commandVars, overtaken>>
  PROVE  IInv'
<1> USE DEF IInv, commandVars
<1>1. /\ history' \in [Product \cup Alarm -> Seq(Nat)]
      /\ Len(history'[s]) = Len(history[s]) + 1
      /\ \A k \in 1 .. Len(history[s]) : history'[s][k] = history[s][k]
      /\ history'[s][Len(history[s]) + 1] = t
      /\ \A i \in Product \cup Alarm : i # s => history'[i] = history[i]
  <2>1. history[s] \in Seq(Nat) BY DEF TypeOK
  <2>2. history'[s] = Append(history[s], t) BY DEF TypeOK
  <2>3. Append(history[s], t) \in Seq(Nat) BY <2>1
  <2>4. /\ Len(Append(history[s], t)) = Len(history[s]) + 1
        /\ \A k \in 1 .. Len(history[s]) : Append(history[s], t)[k] = history[s][k]
        /\ Append(history[s], t)[Len(history[s]) + 1] = t
    BY <2>1, AppendProperties
  <2>5. history' \in [Product \cup Alarm -> Seq(Nat)] BY <2>2, <2>3 DEF TypeOK
  <2>6. \A i \in Product \cup Alarm : i # s => history'[i] = history[i] BY DEF TypeOK
  <2> QED BY <2>2, <2>4, <2>5, <2>6
<1>2. \A i \in Product \cup Alarm : Len(history[i]) \in Nat
  BY DEF TypeOK
<1>3. ASSUME NEW i \in Id PROVE Latest(i) \in Nat /\ Latest(i)' \in Nat /\ Latest(i) <= Latest(i)'
  BY <1>1, <1>2 DEF Latest, Id
<1>4. ASSUME NEW e, e.id \in Alarm, e.ingest \in Nat, Sound(e) PROVE Sound(e)'
  <2>0. now \in Nat /\ now' \in Nat BY SharedCatalogueAssumption DEF TypeOK
  <2>1. CASE e.id # s BY <1>1, <1>4, <2>0, <2>1 DEF Sound
  <2>2. CASE e.id = s
    <3>1. e.ingest <= now' BY <1>4, <2>0 DEF Sound
    <3>2. ASSUME NEW k \in 1 .. Len(history'[s]), history'[s][k] <= e.ingest PROVE k <= e.version
      <4>1. k \in 1 .. Len(history[s])
        BY <1>1, <1>2, <1>4, <2>0, <2>2, <3>2 DEF Sound
      <4> QED BY <1>1, <1>4, <2>2, <3>2, <4>1 DEF Sound
    <3> QED BY <2>2, <3>1, <3>2 DEF Sound
  <2> QED BY <2>1, <2>2
<1>5. TypeOK'
  <2>1. now' \in 0 .. MaxChanges BY SharedCatalogueAssumption DEF TypeOK
  <2>2. \A i \in Id : rows[i] # NoRow => rows[i].id = i /\ rows[i].version <= Latest(i)'
    BY <1>3, Versions DEF TypeOK
  <2> QED BY <1>1, <2>1, <2>2 DEF TypeOK
<1>6. BeganInv'
  BY <1>3 DEF BeganInv
<1>7. TodoInv'
  <2> SUFFICES ASSUME NEW c \in Cmd
        PROVE /\ stamp[c] <= now'
              /\ \A e \in todo[c] : e.version <= Latest(e.id)' /\ (e.id \in Alarm => Sound(e)')
    BY DEF TodoInv
  <2>1. stamp[c] <= now' BY SharedCatalogueAssumption DEF TodoInv, TypeOK
  <2>2. ASSUME NEW e \in todo[c] PROVE e.version <= Latest(e.id)' /\ (e.id \in Alarm => Sound(e)')
    BY <1>3, <1>4, Versions DEF TodoInv
  <2> QED BY <2>1, <2>2
<1>8. RowInv'
  <2> SUFFICES ASSUME NEW a \in Alarm, rows[a] # NoRow PROVE Sound(rows[a])'
    BY DEF RowInv
  <2>1. a \in Id /\ rows[a] \in Entry /\ rows[a].id = a BY DEF TypeOK, Id
  <2>2. rows[a].ingest \in Nat BY <2>1 DEF Entry
  <2>3. Sound(rows[a]) BY DEF RowInv
  <2>4. ASSUME NEW e, e = rows[a] PROVE Sound(e)'
    BY <1>4, <2>1, <2>2, <2>3, <2>4
  <2> QED BY <2>4 DEF Sound
<1>9. FreshInv' BY DEF FreshInv
<1>10. CoverInv' BY DEF CoverInv, Covered
<1>11. TimeInv'
  <2> SUFFICES ASSUME NEW a \in Alarm, NEW k \in 1 .. Len(history'[a]) PROVE history'[a][k] <= now'
    BY DEF TimeInv
  <2>0. now \in Nat /\ history[a] \in Seq(Nat) BY SharedCatalogueAssumption DEF TypeOK
  <2>1. CASE a = s /\ k = Len(history[s]) + 1 BY <1>1, <2>0, <2>1
  <2>2. CASE ~(a = s /\ k = Len(history[s]) + 1)
    <3>1. k \in 1 .. Len(history[a]) /\ history'[a][k] = history[a][k] BY <1>1, <2>0, <2>2
    <3>2. history[a][k] \in Nat BY <2>0, <3>1
    <3> QED BY <2>0, <3>1, <3>2 DEF TimeInv
  <2> QED BY <2>1, <2>2
<1> QED BY <1>5, <1>6, <1>7, <1>8, <1>9, <1>10, <1>11

\* A command begins: it has collected nothing.
LEMMA BeginKeeps ==
  ASSUME IInv, NEW c \in Cmd, NEW ids, NEW place,
         \/ ids = Product /\ place = "select" /\ stamp' = stamp
         \/ ids = Alarm \cup Parameter /\ place = "parameters" /\ stamp' = [stamp EXCEPT ![c] = now],
         Begin(c, ids, place), todo' = todo
  PROVE  IInv'
<1> USE DEF IInv, sourceVars
<1>1. /\ UNCHANGED <<history, now, rows, exit, todo>>
      /\ pc[c] = "idle" /\ pc' = [pc EXCEPT ![c] = place]
      /\ began' = [began EXCEPT ![c] = [i \in ids |-> Latest(i)]]
      /\ overtaken' = [overtaken EXCEPT ![c] = {}]
      /\ todo[c] = {} /\ ids \subseteq Id
  BY DEF Begin, Goto, TodoInv, Id
<1>2. \A i \in Id : Latest(i)' = Latest(i) /\ Latest(i) \in Nat
  BY <1>1, Latests DEF Latest
<1>3. \A e : Sound(e)' = Sound(e)
  BY <1>1 DEF Sound
<1>4. TypeOK'
  <2>1. stamp' \in [Cmd -> 0 .. MaxChanges] BY DEF TypeOK
  <2>2. pc' \in [Cmd -> {"idle", "select", "parameters", "alarms", "register"}] BY <1>1 DEF TypeOK
  <2>3. overtaken' \in [Cmd -> SUBSET Id] BY <1>1 DEF TypeOK
  <2> QED BY <1>1, <1>2, <2>1, <2>2, <2>3 DEF TypeOK
<1>5. BeganInv'
  <2>1. DOMAIN began' = Cmd BY <1>1 DEF BeganInv
  <2>2. ASSUME NEW d \in Cmd, d # c PROVE began'[d] = began[d] /\ pc'[d] = pc[d]
    BY <1>1, <2>2 DEF BeganInv, TypeOK
  <2>3. began'[c] = [i \in ids |-> Latest(i)] /\ pc'[c] = place
    BY <1>1 DEF BeganInv, TypeOK
  <2>4. DOMAIN began'[c] = ids /\ \A i \in ids : began'[c][i] = Latest(i)
    BY <2>3
  <2>5. ASSUME NEW d \in Cmd
        PROVE  /\ DOMAIN began'[d] \subseteq Id
               /\ \A i \in DOMAIN began'[d] : began'[d][i] \in Nat /\ began'[d][i] <= Latest(i)'
               /\ pc'[d] = "select" => DOMAIN began'[d] = Product
               /\ pc'[d] \in {"parameters", "alarms"} => DOMAIN began'[d] = Alarm \cup Parameter
    <3>1. CASE d = c BY <1>1, <1>2, <2>3, <2>4, <3>1
    <3>2. CASE d # c BY <1>2, <2>2, <3>2 DEF BeganInv
    <3> QED BY <3>1, <3>2
  <2> QED BY <2>1, <2>5 DEF BeganInv
<1>6. \A d \in Cmd : d # c => began'[d] = began[d] /\ pc'[d] = pc[d] /\ overtaken'[d] = overtaken[d] /\ stamp'[d] = stamp[d]
  BY <1>1 DEF BeganInv, TypeOK
<1>7. TodoInv'
  <2> SUFFICES ASSUME NEW d \in Cmd
      PROVE /\ pc'[d] \in {"idle", "select", "parameters"} => todo[d] = {}
            /\ pc'[d] = "alarms" => \A e \in todo[d] : e.id \in Parameter
            /\ stamp'[d] <= now
            /\ \A e \in todo[d] :
                 /\ e.id \in DOMAIN began'[d]
                 /\ began'[d][e.id] <= e.version
                 /\ e.version <= Latest(e.id)'
                 /\ e.id \in Alarm => Sound(e)'
                 /\ \A f \in todo[d] : e.id = f.id => e = f
    BY <1>1 DEF TodoInv
  <2>1. CASE d = c
    <3>1. stamp'[d] <= now BY <2>1, SharedCatalogueAssumption DEF TodoInv, TypeOK
    <3>2. pc'[d] = place BY <1>1, <2>1 DEF TypeOK
    <3> QED BY <1>1, <2>1, <3>1, <3>2
  <2>2. CASE d # c
    <3>1. \A e \in todo[d] : Latest(e.id)' = Latest(e.id) BY <1>2, Versions
    <3> QED BY <1>3, <1>6, <2>2, <3>1 DEF TodoInv
  <2> QED BY <2>1, <2>2
<1>8. RowInv' BY <1>1, <1>3 DEF RowInv
<1>9. FreshInv' BY <1>1, <1>6 DEF FreshInv
<1>10. CoverInv'
  <2> SUFFICES ASSUME NEW d \in Cmd, NEW i \in DOMAIN began'[d] \ overtaken'[d] PROVE Covered(d, i)'
    BY DEF CoverInv
  <2>1. CASE d = c
    <3>1. pc'[d] = place BY <1>1, <2>1 DEF TypeOK
    <3> QED BY <2>1, <3>1 DEF Covered
  <2>2. CASE d # c BY <1>1, <1>6, <2>2 DEF CoverInv, Covered
  <2> QED BY <2>1, <2>2
<1>11. TimeInv' BY <1>1 DEF TimeInv
<1> QED BY <1>4, <1>5, <1>7, <1>8, <1>9, <1>10, <1>11

\* What a read adds is as recent as the source, of ids the command has not in hand
\* yet, and misses nothing it has begun with.
Fits(c, from, entries) ==
  /\ entries \in SUBSET Entry
  /\ \A e \in entries :
       /\ e.id \in DOMAIN began[c]
       /\ e.version = Latest(e.id)
       /\ e.id \in Alarm => e.ingest = stamp[c]
       /\ from = "parameters" => e.id \in Parameter
       /\ from = "alarms" => e.id \in Alarm
       /\ \A f \in entries : e.id = f.id => e = f
  /\ \A i \in DOMAIN began[c] :
       (from = "parameters" => i \in Parameter) /\ (from = "alarms" => i \in Alarm)
         => Latest(i) = 0 \/ \E e \in entries : e.id = i

LEMMA ParametersStay == \A i \in Parameter : Latest(i) > 0
BY SharedCatalogueAssumption DEF Latest

\* A command reads a source: the three reads are alike.
LEMMA CollectKeeps ==
  ASSUME IInv, NEW c \in Cmd, NEW from \in {"select", "parameters", "alarms"}, NEW entries, NEW place,
         place = IF from = "parameters" THEN "alarms" ELSE "register",
         Collect(c, from, entries, place), Fits(c, from, entries)
  PROVE  IInv'
<1> USE DEF IInv, sourceVars, Fits
<1>1. /\ UNCHANGED <<history, now, rows, exit, began, overtaken, stamp>>
      /\ pc[c] = from /\ pc' = [pc EXCEPT ![c] = place]
      /\ todo' = [todo EXCEPT ![c] = todo[c] \cup entries]
  BY DEF Collect, Goto, TypeOK
<1>2. \A i \in Id : Latest(i)' = Latest(i) /\ Latest(i) \in Nat
  BY <1>1, Latests DEF Latest
<1>3. \A e : Sound(e)' = Sound(e)
  BY <1>1 DEF Sound
<1>4. pc'[c] = place /\ todo'[c] = todo[c] \cup entries
  BY <1>1 DEF TypeOK
<1>5. \A d \in Cmd : d # c => pc'[d] = pc[d] /\ todo'[d] = todo[d]
  BY <1>1 DEF TypeOK
<1>6. /\ from # "alarms" => todo[c] = {}
      /\ from = "alarms" => \A e \in todo[c] : e.id \in Parameter
  BY <1>1 DEF TodoInv
<1>7. ASSUME NEW e \in entries
      PROVE  /\ e.id \in Id /\ began[c][e.id] <= e.version
             /\ rows[e.id].version <= e.version
             /\ e.id \in Alarm => Sound(e)
  <2>1. e.id \in Id /\ e.version = Latest(e.id) BY DEF BeganInv
  <2>2. began[c][e.id] <= e.version BY <2>1 DEF BeganInv
  <2>3. rows[e.id].version <= e.version
    <3>1. CASE rows[e.id] = NoRow BY <1>2, <2>1, <3>1 DEF NoRow
    <3>2. CASE rows[e.id] # NoRow BY <2>1, <3>2 DEF TypeOK
    <3> QED BY <3>1, <3>2
  <2>4. ASSUME e.id \in Alarm PROVE Sound(e)
    <3>1. e.version = Len(history[e.id]) BY <2>1, <2>4 DEF Latest
    <3>2. e.ingest <= now BY <2>4 DEF TodoInv
    <3> QED BY <3>1, <3>2 DEF Sound
  <2> QED BY <2>1, <2>2, <2>3, <2>4
<1>8. TypeOK'
  <2>1. pc' \in [Cmd -> {"idle", "select", "parameters", "alarms", "register"}] BY <1>1 DEF TypeOK
  <2>2. todo' \in [Cmd -> SUBSET Entry] BY <1>1 DEF TypeOK
  <2> QED BY <1>1, <1>2, <2>1, <2>2 DEF TypeOK
<1>9. BeganInv'
  <2> SUFFICES ASSUME NEW d \in Cmd
      PROVE /\ DOMAIN began[d] \subseteq Id
            /\ \A i \in DOMAIN began[d] : began[d][i] \in Nat /\ began[d][i] <= Latest(i)'
            /\ pc'[d] = "select" => DOMAIN began[d] = Product
            /\ pc'[d] \in {"parameters", "alarms"} => DOMAIN began[d] = Alarm \cup Parameter
    BY <1>1 DEF BeganInv
  <2>1. CASE d = c BY <1>1, <1>2, <1>4, <2>1 DEF BeganInv
  <2>2. CASE d # c BY <1>2, <1>5, <2>2 DEF BeganInv
  <2> QED BY <2>1, <2>2
<1>10. TodoInv'
  <2> SUFFICES ASSUME NEW d \in Cmd
      PROVE /\ pc'[d] \in {"idle", "select", "parameters"} => todo'[d] = {}
            /\ pc'[d] = "alarms" => \A e \in todo'[d] : e.id \in Parameter
            /\ stamp[d] <= now
            /\ \A e \in todo'[d] :
                 /\ e.id \in DOMAIN began[d]
                 /\ began[d][e.id] <= e.version
                 /\ e.version <= Latest(e.id)'
                 /\ e.id \in Alarm => Sound(e)'
                 /\ \A f \in todo'[d] : e.id = f.id => e = f
    BY <1>1 DEF TodoInv
  <2>1. CASE d = c
    <3>1. pc'[c] = "alarms" \/ pc'[c] = "register" BY <1>4
    <3>2. pc'[c] = "alarms" => \A e \in todo'[c] : e.id \in Parameter
      BY <1>4, <1>6
    <3>3. stamp[c] <= now BY DEF TodoInv
    <3>4. ASSUME NEW e \in todo'[c]
          PROVE  /\ e.id \in DOMAIN began[c]
                 /\ began[c][e.id] <= e.version
                 /\ e.version <= Latest(e.id)'
                 /\ e.id \in Alarm => Sound(e)'
      <4>1. CASE e \in todo[c] BY <1>2, <1>3, <4>1, Versions DEF TodoInv
      <4>2. CASE e \in entries BY <1>2, <1>3, <1>7, <4>2
      <4> QED BY <1>4, <4>1, <4>2
    <3>5. ASSUME NEW e \in todo'[c], NEW f \in todo'[c], e.id = f.id PROVE e = f
      <4>1. CASE from # "alarms" BY <1>4, <1>6, <3>5, <4>1
      <4>2. CASE from = "alarms"
        <5>1. CASE e \in todo[c] /\ f \in todo[c] BY <3>5, <5>1 DEF TodoInv
        <5>2. CASE e \in entries /\ f \in entries BY <3>5, <5>2
        <5>3. CASE e \in entries /\ f \in todo[c]
          BY <1>6, <3>5, <4>2, <5>3, SharedCatalogueAssumption
        <5>4. CASE e \in todo[c] /\ f \in entries
          BY <1>6, <3>5, <4>2, <5>4, SharedCatalogueAssumption
        <5> QED BY <1>4, <5>1, <5>2, <5>3, <5>4
      <4> QED BY <4>1, <4>2
    <3> QED BY <2>1, <3>1, <3>2, <3>3, <3>4, <3>5
  <2>2. CASE d # c
    <3>1. \A e \in todo[d] : Latest(e.id)' = Latest(e.id) BY <1>2, Versions
    <3> QED BY <1>3, <1>5, <2>2, <3>1 DEF TodoInv
  <2> QED BY <2>1, <2>2
<1>11. RowInv' BY <1>1, <1>3 DEF RowInv
<1>12. FreshInv'
  <2> SUFFICES ASSUME NEW d \in Cmd, NEW e \in todo'[d], e.id \notin overtaken[d]
               PROVE  rows[e.id].version <= e.version
    BY <1>1 DEF FreshInv
  <2>1. CASE d = c /\ e \in entries BY <1>7, <2>1
  <2>2. CASE e \in todo[d] BY <2>2 DEF FreshInv
  <2> QED BY <1>4, <1>5, <2>1, <2>2
<1>13. CoverInv'
  <2> SUFFICES ASSUME NEW d \in Cmd, NEW i \in DOMAIN began[d] \ overtaken[d] PROVE Covered(d, i)'
    BY <1>1 DEF CoverInv
  <2>1. CASE d = c
    <3>1. i \in Id /\ began[c][i] \in Nat /\ began[c][i] <= Latest(i) /\ rows[i].version \in Nat
      BY <2>1, Versions DEF BeganInv
    <3>2. CASE from = "select"
      <4>1. Latest(i) = 0 \/ \E e \in entries : e.id = i BY <2>1, <3>2
      <4> QED BY <1>1, <1>4, <2>1, <3>1, <3>2, <4>1 DEF Covered
    <3>3. CASE from = "parameters"
      <4>1. i \in Parameter => \E e \in entries : e.id = i BY <2>1, <3>3, ParametersStay
      <4> QED BY <1>4, <2>1, <3>3, <4>1 DEF Covered
    <3>4. CASE from = "alarms"
      <4>1. Covered(c, i) BY <2>1 DEF CoverInv
      <4>2. i \in Alarm \/ i \in Parameter BY <1>1, <2>1, <3>4 DEF BeganInv
      <4>3. CASE i \in Alarm
        <5>1. Latest(i) = 0 \/ \E e \in entries : e.id = i
          BY <2>1, <3>4, <4>3
        <5> QED BY <1>1, <1>4, <2>1, <3>1, <3>4, <5>1 DEF Covered
      <4>4. CASE i \in Parameter BY <1>1, <1>4, <2>1, <3>4, <4>1, <4>4 DEF Covered
      <4> QED BY <4>2, <4>3, <4>4
    <3> QED BY <3>2, <3>3, <3>4
  <2>2. CASE d # c BY <1>1, <1>5, <2>2 DEF CoverInv, Covered
  <2> QED BY <2>1, <2>2
<1>14. TimeInv' BY <1>1 DEF TimeInv
<1> QED BY <1>8, <1>9, <1>10, <1>11, <1>12, <1>13, <1>14

\* sync-payload reads the products.
LEMMA SelectKeeps == ASSUME IInv, NEW c \in Cmd, SelectProducts(c) PROVE IInv'
<1>1. Collect(c, "select", ProductRows, "register") BY DEF SelectProducts
<1>2. DOMAIN began[c] = Product BY <1>1 DEF Collect, BeganInv, IInv
<1>3. ASSUME NEW e \in ProductRows
      PROVE  /\ e \in Entry /\ e.id \in Product /\ e.version = Latest(e.id)
             /\ \A f \in ProductRows : e.id = f.id => e = f
  <2>1. PICK p \in {q \in Product : Latest(q) > 0} : e = PayloadEntry(p, Latest(p), history[p][Latest(p)])
    BY DEF ProductRows
  <2>2. Latest(p) = Len(history[p]) /\ history[p] \in Seq(Nat) BY DEF Latest, TypeOK, IInv
  <2>3. Latest(p) \in 1 .. Len(history[p]) BY <2>1, <2>2
  <2>4. history[p][Latest(p)] \in Nat BY <2>2, <2>3
  <2>5. e.id = p /\ e.version = Latest(p) BY <2>1 DEF PayloadEntry
  <2>6. e \in Entry BY <2>1, <2>2, <2>3, <2>4 DEF PayloadEntry, Entry
  <2>7. ASSUME NEW f \in ProductRows, e.id = f.id PROVE e = f
    BY <2>1, <2>5, <2>7 DEF ProductRows, PayloadEntry
  <2> QED BY <2>5, <2>6, <2>7
<1>4. ASSUME NEW i \in Product PROVE Latest(i) = 0 \/ \E e \in ProductRows : e.id = i
  <2>1. Latest(i) \in Nat BY Latests DEF Id, IInv
  <2>2. CASE Latest(i) > 0
    <3>1. PayloadEntry(i, Latest(i), history[i][Latest(i)]) \in ProductRows BY <2>2 DEF ProductRows
    <3>2. PayloadEntry(i, Latest(i), history[i][Latest(i)]).id = i BY DEF PayloadEntry
    <3> QED BY <3>1, <3>2
  <2> QED BY <2>1, <2>2
<1>6. ProductRows \in SUBSET Entry BY <1>3
<1>7. \A e \in ProductRows : e.id \notin Alarm BY <1>3, SharedCatalogueAssumption
<1>8. PICK entries : entries = ProductRows OBVIOUS
<1> QED
  <2>1. Collect(c, "select", entries, "register") BY <1>1, <1>8
  <2>2. \A e \in entries :
          /\ e.id \in DOMAIN began[c]
          /\ e.version = Latest(e.id)
          /\ e.id \in Alarm => e.ingest = stamp[c]
          /\ \A f \in entries : e.id = f.id => e = f
    BY <1>2, <1>3, <1>7, <1>8
  <2>3. \A i \in DOMAIN began[c] : Latest(i) = 0 \/ \E e \in entries : e.id = i
    BY <1>2, <1>4, <1>8
  <2>4. entries \in SUBSET Entry BY <1>6, <1>8
  <2>5. Fits(c, "select", entries) BY <2>2, <2>3, <2>4 DEF Fits
  <2> QED BY <2>1, <2>5, CollectKeeps

\* bridge reads the parameters or the alarms: entries ControlEntry(i, Latest(i), t).
Consists(entries, ids, t) == entries = {ControlEntry(i, Latest(i), t) : i \in ids}

LEMMA ControlEntries ==
  ASSUME TypeOK, NEW ids \in SUBSET (Alarm \cup Parameter), NEW t \in Nat,
         NEW entries, Consists(entries, ids, t),
         \A i \in ids : Latest(i) > 0
  PROVE  /\ entries \in SUBSET Entry
         /\ \A e \in entries : /\ e.id \in ids /\ e.version = Latest(e.id) /\ e.ingest = t
                              /\ \A f \in entries : e.id = f.id => e = f
         /\ \A i \in ids : \E e \in entries : e.id = i
<1>1. \A i \in ids : Latest(i) \in Nat \ {0} BY Latests DEF Id
<1>2. \A i \in ids : ControlEntry(i, Latest(i), t) \in Entry
  BY <1>1 DEF ControlEntry, Entry
<1>3. \A i \in ids : /\ ControlEntry(i, Latest(i), t).id = i
                     /\ ControlEntry(i, Latest(i), t).version = Latest(i)
                     /\ ControlEntry(i, Latest(i), t).ingest = t
  BY DEF ControlEntry
<1> QED BY <1>2, <1>3 DEF Consists

LEMMA FetchParametersKeeps == ASSUME IInv, NEW c \in Cmd, FetchParameters(c) PROVE IInv'
<1>1. Collect(c, "parameters", ArchiveRefs(stamp[c]), "alarms") BY DEF FetchParameters
<1>2. DOMAIN began[c] = Alarm \cup Parameter BY <1>1 DEF Collect, BeganInv, IInv
<1>3. PICK t \in Nat : t = stamp[c] BY SharedCatalogueAssumption DEF TypeOK, IInv
<1>5. PICK entries : entries = {ControlEntry(i, Latest(i), t) : i \in Parameter} OBVIOUS
<1>6. /\ entries \in SUBSET Entry
      /\ \A e \in entries : /\ e.id \in Parameter /\ e.version = Latest(e.id) /\ e.ingest = t
                           /\ \A f \in entries : e.id = f.id => e = f
      /\ \A i \in Parameter : \E e \in entries : e.id = i
  <2>1. Parameter \in SUBSET (Alarm \cup Parameter) /\ TypeOK BY DEF IInv
  <2>2. \A i \in Parameter : Latest(i) > 0 BY ParametersStay
  <2>3. Consists(entries, Parameter, t) BY <1>5 DEF Consists
  <2> QED BY <2>1, <2>2, <2>3, ControlEntries
<1>7. Collect(c, "parameters", entries, "alarms") BY <1>1, <1>3, <1>5 DEF ArchiveRefs
<1>8. \A e \in entries :
        /\ e.id \in DOMAIN began[c]
        /\ e.version = Latest(e.id)
        /\ e.id \in Alarm => e.ingest = stamp[c]
        /\ e.id \in Parameter
        /\ \A f \in entries : e.id = f.id => e = f
  BY <1>2, <1>3, <1>6
<1>9. \A i \in DOMAIN began[c] : i \in Parameter => Latest(i) = 0 \/ \E e \in entries : e.id = i
  BY <1>6
<1>10. Fits(c, "parameters", entries) BY <1>6, <1>8, <1>9 DEF Fits
<1> QED BY <1>7, <1>10, CollectKeeps

LEMMA FetchAlarmsKeeps == ASSUME IInv, NEW c \in Cmd, FetchAlarms(c) PROVE IInv'
<1>1. Collect(c, "alarms", AlarmRefs(stamp[c]), "register") BY DEF FetchAlarms
<1>2. DOMAIN began[c] = Alarm \cup Parameter BY <1>1 DEF Collect, BeganInv, IInv
<1>3. PICK t \in Nat : t = stamp[c] BY SharedCatalogueAssumption DEF TypeOK, IInv
<1>5. PICK ids : ids = {b \in Alarm : Latest(b) > 0} OBVIOUS
<1>6. PICK entries : entries = {ControlEntry(i, Latest(i), t) : i \in ids} OBVIOUS
<1>7. /\ entries \in SUBSET Entry
      /\ \A e \in entries : /\ e.id \in ids /\ e.version = Latest(e.id) /\ e.ingest = t
                           /\ \A f \in entries : e.id = f.id => e = f
      /\ \A i \in ids : \E e \in entries : e.id = i
  <2>1. ids \in SUBSET (Alarm \cup Parameter) /\ TypeOK BY <1>5 DEF IInv
  <2>2. \A i \in ids : Latest(i) > 0 BY <1>5
  <2>3. Consists(entries, ids, t) BY <1>6 DEF Consists
  <2> QED BY <2>1, <2>2, <2>3, ControlEntries
<1>8. Collect(c, "alarms", entries, "register") BY <1>1, <1>3, <1>5, <1>6 DEF AlarmRefs
<1>9. \A e \in entries :
        /\ e.id \in DOMAIN began[c]
        /\ e.version = Latest(e.id)
        /\ e.id \in Alarm => e.ingest = stamp[c]
        /\ e.id \in Alarm
        /\ \A f \in entries : e.id = f.id => e = f
  BY <1>2, <1>3, <1>5, <1>7
<1>10. \A i \in DOMAIN began[c] : i \in Alarm => Latest(i) = 0 \/ \E e \in entries : e.id = i
  <2>1. \A i \in Alarm : Latest(i) \in Nat BY Latests DEF Id, IInv
  <2> QED BY <1>5, <1>7, <2>1
<1>11. Fits(c, "alarms", entries) BY <1>7, <1>9, <1>10 DEF Fits
<1> QED BY <1>8, <1>11, CollectKeeps

\* The upsert of one entry.
LEMMA RegisterKeeps == ASSUME IInv, NEW c \in Cmd, Register(c) PROVE IInv'
<1> USE DEF IInv, sourceVars
<1>1. PICK e \in todo[c] :
        /\ rows' = [rows EXCEPT ![e.id] = e]
        /\ todo' = [todo EXCEPT ![c] = @ \ {e}]
        /\ Overtake(c, e.id)
        /\ pc[c] = "register"
        /\ UNCHANGED <<history, now, pc, stamp, exit, began>>
  BY DEF Register
<1>2. e \in Entry /\ e.id \in Id /\ e.version \in Nat /\ e.version > 0
  BY Versions
<1>3. /\ rows'[e.id] = e
      /\ \A i \in Id : i # e.id => rows'[i] = rows[i]
  BY <1>1, <1>2 DEF TypeOK
<1>4. /\ todo'[c] = todo[c] \ {e}
      /\ \A d \in Cmd : d # c => todo'[d] = todo[d]
      /\ \A d \in Cmd : todo'[d] \subseteq todo[d]
  BY <1>1 DEF TypeOK
<1>5. /\ overtaken'[c] = overtaken[c]
      /\ \A d \in Cmd : overtaken[d] \subseteq overtaken'[d] /\ overtaken'[d] \subseteq overtaken[d] \cup {e.id}
      /\ \A d \in Cmd : d # c /\ e.id \in DOMAIN began[d] => e.id \in overtaken'[d]
  BY <1>1 DEF Overtake
<1>6. \A i \in Id : Latest(i)' = Latest(i) /\ Latest(i) \in Nat
  BY <1>1, Latests DEF Latest
<1>7. \A f : Sound(f)' = Sound(f)
  BY <1>1 DEF Sound
<1>8. TypeOK'
  <2>1. rows' \in [Id -> Entry \cup {NoRow}] BY <1>1, <1>2 DEF TypeOK
  <2>2. todo' \in [Cmd -> SUBSET Entry] BY <1>1 DEF TypeOK
  <2>3. overtaken' \in [Cmd -> SUBSET Id] BY <1>1, <1>2 DEF TypeOK, Overtake
  <2>4. ASSUME NEW i \in Id, rows'[i] # NoRow PROVE rows'[i].id = i /\ rows'[i].version <= Latest(i)'
    <3>1. CASE i = e.id BY <1>3, <1>6, <3>1 DEF TodoInv
    <3>2. CASE i # e.id BY <1>3, <1>6, <2>4, <3>2 DEF TypeOK
    <3> QED BY <3>1, <3>2
  <2> QED BY <1>1, <2>1, <2>2, <2>3, <2>4 DEF TypeOK
<1>9. BeganInv'
  BY <1>1, <1>6 DEF BeganInv
<1>10. TodoInv'
  <2> SUFFICES ASSUME NEW d \in Cmd
      PROVE /\ pc[d] \in {"idle", "select", "parameters"} => todo'[d] = {}
            /\ pc[d] = "alarms" => \A g \in todo'[d] : g.id \in Parameter
            /\ stamp[d] <= now
            /\ \A g \in todo'[d] :
                 /\ g.id \in DOMAIN began[d]
                 /\ began[d][g.id] <= g.version
                 /\ g.version <= Latest(g.id)'
                 /\ g.id \in Alarm => Sound(g)'
                 /\ \A f \in todo'[d] : g.id = f.id => g = f
    BY <1>1 DEF TodoInv
  <2>1. \A g \in todo[d] : Latest(g.id)' = Latest(g.id) BY <1>6, Versions
  <2> QED BY <1>4, <1>7, <2>1 DEF TodoInv
<1>11. RowInv'
  <2> SUFFICES ASSUME NEW a \in Alarm, NEW r, r = rows'[a], r # NoRow PROVE Sound(r)'
    BY DEF RowInv, Sound
  <2>1. a \in Id BY DEF Id
  <2>2. CASE a = e.id
    <3>1. r = e /\ Sound(r) BY <1>3, <2>2 DEF TodoInv
    <3> QED BY <1>7, <3>1
  <2>3. CASE a # e.id
    <3>1. r = rows[a] BY <1>3, <2>1, <2>3
    <3>2. Sound(r) BY <3>1 DEF RowInv
    <3> QED BY <1>7, <3>2
  <2> QED BY <2>2, <2>3
<1>12. FreshInv'
  <2> SUFFICES ASSUME NEW d \in Cmd, NEW g \in todo'[d], g.id \notin overtaken'[d]
               PROVE  rows'[g.id].version <= g.version
    BY DEF FreshInv
  <2>1. g \in todo[d] /\ g.id \notin overtaken[d] /\ g.id \in Id BY <1>4, <1>5, Versions
  <2>2. g.id # e.id
    <3>1. CASE d = c
      <4>1. g # e BY <1>4, <3>1
      <4> QED BY <2>1, <3>1, <4>1 DEF TodoInv
    <3>2. CASE d # c
      <4>1. g.id \in DOMAIN began[d] BY <2>1 DEF TodoInv
      <4> QED BY <1>5, <3>2, <4>1
    <3> QED BY <3>1, <3>2
  <2> QED BY <1>3, <2>1, <2>2 DEF FreshInv
<1>13. CoverInv'
  <2> SUFFICES ASSUME NEW d \in Cmd, NEW i \in DOMAIN began[d], i \notin overtaken'[d] PROVE Covered(d, i)'
    BY <1>1 DEF CoverInv
  <2>1. i \in Id /\ i \notin overtaken[d] BY <1>5 DEF BeganInv
  <2>2. Covered(d, i) BY <2>1 DEF CoverInv
  <2>3. CASE i = e.id
    <3>1. d = c BY <1>5, <2>3
    <3>2. rows'[i].version >= began[c][i] BY <1>3, <2>3 DEF TodoInv
    <3> QED BY <1>1, <3>1, <3>2 DEF Covered
  <2>4. CASE i # e.id
    <3>1. rows'[i] = rows[i] BY <1>3, <2>1, <2>4
    <3>2. (\E g \in todo[d] : g.id = i) => \E g \in todo'[d] : g.id = i
      BY <1>4, <2>4
    <3> QED BY <1>1, <2>2, <3>1, <3>2 DEF Covered
  <2> QED BY <2>3, <2>4
<1>14. TimeInv' BY <1>1 DEF TimeInv
<1> QED BY <1>8, <1>9, <1>10, <1>11, <1>12, <1>13, <1>14

\* A command ends, with or without an error.
LEMMA EndKeeps == ASSUME IInv, NEW c \in Cmd, Finish(c) \/ GiveUp(c) PROVE IInv'
<1> USE DEF IInv, sourceVars
<1>1. PICK x \in {0, 1} :
        /\ UNCHANGED <<history, now, rows, began, overtaken>>
        /\ pc' = [pc EXCEPT ![c] = "idle"]
        /\ exit' = [exit EXCEPT ![c] = x]
        /\ stamp' = [stamp EXCEPT ![c] = 0]
        /\ todo' = [todo EXCEPT ![c] = {}]
        /\ x = 0 => pc[c] = "register" /\ todo[c] = {}
  <2>1. CASE Finish(c)
    <3>1. todo = [todo EXCEPT ![c] = {}] BY <2>1 DEF Finish, TypeOK
    <3> QED BY <2>1, <3>1 DEF Finish, Goto
  <2>2. CASE GiveUp(c) BY <2>2 DEF GiveUp, Goto
  <2> QED BY <2>1, <2>2
<1>2. \A i \in Id : Latest(i)' = Latest(i) /\ Latest(i) \in Nat
  BY <1>1, Latests DEF Latest
<1>3. \A e : Sound(e)' = Sound(e)
  BY <1>1 DEF Sound
<1>4. pc'[c] = "idle" /\ todo'[c] = {} /\ exit'[c] = x /\ stamp'[c] = 0
  BY <1>1 DEF TypeOK
<1>5. \A d \in Cmd : d # c => pc'[d] = pc[d] /\ todo'[d] = todo[d] /\ exit'[d] = exit[d] /\ stamp'[d] = stamp[d]
  BY <1>1 DEF TypeOK
<1>6. TypeOK'
  <2>1. pc' \in [Cmd -> {"idle", "select", "parameters", "alarms", "register"}] BY <1>1 DEF TypeOK
  <2>2. todo' \in [Cmd -> SUBSET Entry] BY <1>1 DEF TypeOK
  <2>3. exit' \in [Cmd -> {0, 1}] BY <1>1 DEF TypeOK
  <2>4. stamp' \in [Cmd -> 0 .. MaxChanges] BY <1>1, SharedCatalogueAssumption DEF TypeOK
  <2> QED BY <1>1, <1>2, <2>1, <2>2, <2>3, <2>4 DEF TypeOK
<1>7. BeganInv'
  <2> SUFFICES ASSUME NEW d \in Cmd
      PROVE /\ DOMAIN began[d] \subseteq Id
            /\ \A i \in DOMAIN began[d] : began[d][i] \in Nat /\ began[d][i] <= Latest(i)'
            /\ pc'[d] = "select" => DOMAIN began[d] = Product
            /\ pc'[d] \in {"parameters", "alarms"} => DOMAIN began[d] = Alarm \cup Parameter
    BY <1>1 DEF BeganInv
  <2> QED BY <1>2, <1>4, <1>5 DEF BeganInv
<1>8. TodoInv'
  <2> SUFFICES ASSUME NEW d \in Cmd
      PROVE /\ pc'[d] \in {"idle", "select", "parameters"} => todo'[d] = {}
            /\ pc'[d] = "alarms" => \A e \in todo'[d] : e.id \in Parameter
            /\ stamp'[d] <= now
            /\ \A e \in todo'[d] :
                 /\ e.id \in DOMAIN began[d]
                 /\ began[d][e.id] <= e.version
                 /\ e.version <= Latest(e.id)'
                 /\ e.id \in Alarm => Sound(e)'
                 /\ \A f \in todo'[d] : e.id = f.id => e = f
    BY <1>1 DEF TodoInv
  <2>1. CASE d = c BY <1>4, <2>1 DEF TypeOK
  <2>2. CASE d # c
    <3>1. \A e \in todo[d] : Latest(e.id)' = Latest(e.id) BY <1>2, Versions
    <3> QED BY <1>3, <1>5, <2>2, <3>1 DEF TodoInv
  <2> QED BY <2>1, <2>2
<1>9. RowInv' BY <1>1, <1>3 DEF RowInv
<1>10. FreshInv' BY <1>1, <1>4, <1>5 DEF FreshInv
<1>11. CoverInv'
  <2> SUFFICES ASSUME NEW d \in Cmd, NEW i \in DOMAIN began[d] \ overtaken[d] PROVE Covered(d, i)'
    BY <1>1 DEF CoverInv
  <2>1. Covered(d, i) BY DEF CoverInv
  <2>2. CASE d = c BY <1>1, <1>4, <2>1, <2>2 DEF Covered
  <2>3. CASE d # c BY <1>1, <1>5, <2>1, <2>3 DEF Covered
  <2> QED BY <2>2, <2>3
<1>12. TimeInv' BY <1>1 DEF TimeInv
<1> QED BY <1>6, <1>7, <1>8, <1>9, <1>10, <1>11, <1>12

LEMMA NextInv == IInv /\ [Next]_vars => IInv'
<1> SUFFICES ASSUME IInv, [Next]_vars PROVE IInv'
  OBVIOUS
<1>1. ASSUME NEW p \in Product, ProductChanges(p) PROVE IInv'
  <2>0. now \in Nat /\ p \notin Alarm BY SharedCatalogueAssumption DEF IInv, TypeOK
  <2>1. CASE history' = [history EXCEPT ![p] = Append(@, now')]
    <3>1. PICK t \in Nat : t = now' BY <1>1, <2>0 DEF ProductChanges
    <3> QED BY <1>1, <2>0, <2>1, <3>1, ChangeKeeps DEF ProductChanges
  <2>2. CASE history[p] # << >> /\ history' = [history EXCEPT ![p] = Append(@, @[Len(@)])]
    <3>1. history[p] \in Seq(Nat) BY DEF IInv, TypeOK
    <3>2. PICK t \in Nat : t = history[p][Len(history[p])] BY <2>2, <3>1
    <3>3. history' = [history EXCEPT ![p] = Append(@, t)]
      BY <2>2, <3>2
    <3> QED BY <1>1, <2>0, <3>3, ChangeKeeps DEF ProductChanges
  <2> QED BY <1>1, <2>1, <2>2 DEF ProductChanges
<1>2. ASSUME NEW a \in Alarm, AlarmChanges(a) PROVE IInv'
  <2>0. now \in Nat /\ now' \in Nat BY <1>2, SharedCatalogueAssumption DEF IInv, TypeOK, AlarmChanges
  <2>1. PICK t \in Nat : t = now' BY <2>0
  <2> QED BY <1>2, <2>0, <2>1, ChangeKeeps DEF AlarmChanges
<1>3. ASSUME NEW c \in Cmd, Command(c) PROVE IInv'
  <2>1. CASE SyncPayload(c)
    BY <2>1, BeginKeeps DEF SyncPayload
  <2>2. CASE Bridge(c)
    BY <2>2, BeginKeeps DEF Bridge
  <2>3. CASE SelectProducts(c) BY <2>3, SelectKeeps
  <2>4. CASE FetchParameters(c) BY <2>4, FetchParametersKeeps
  <2>5. CASE FetchAlarms(c) BY <2>5, FetchAlarmsKeeps
  <2>6. CASE Register(c) BY <2>6, RegisterKeeps
  <2>7. CASE Finish(c) \/ GiveUp(c) BY <2>7, EndKeeps
  <2> QED BY <1>3, <2>1, <2>2, <2>3, <2>4, <2>5, <2>6, <2>7 DEF Command
<1>4. CASE UNCHANGED vars
  <2>1. UNCHANGED <<history, now, rows, pc, todo, stamp, exit, began, overtaken>> BY <1>4 DEF vars
  <2>2. TypeOK' = TypeOK BY <2>1 DEF TypeOK, Latest
  <2>3. BeganInv' = BeganInv BY <2>1 DEF BeganInv, Latest
  <2>4. TodoInv' = TodoInv BY <2>1 DEF TodoInv, Latest, Sound
  <2>5. RowInv' = RowInv BY <2>1 DEF RowInv, Sound
  <2>6. FreshInv' = FreshInv BY <2>1 DEF FreshInv
  <2>7. CoverInv' = CoverInv BY <2>1 DEF CoverInv, Covered
  <2>8. TimeInv' = TimeInv BY <2>1 DEF TimeInv
  <2> QED BY <2>2, <2>3, <2>4, <2>5, <2>6, <2>7, <2>8 DEF IInv
<1> QED BY <1>1, <1>2, <1>3, <1>4 DEF Next

LEMMA Invariant == Spec => []IInv
BY InitInv, NextInv, PTL DEF Spec

-----------------------------------------------------------------------------
(* Theorems.                                                               *)

\* Every reachable state is well typed: rows keep their origin and the mark of
\* simulated data, and show a version their source has had.
THEOREM TypeCorrect == Spec => []TypeOK
BY Invariant, PTL DEF IInv

\* The ingest_time of an alarm's row bounds what it may miss, however many
\* commands overlap.
THEOREM IngestTimesSound == Spec => []IngestTimeIsSound
<1>1. IInv => IngestTimeIsSound
  <2> SUFFICES ASSUME IInv, NEW a \in Alarm, rows[a] # NoRow, NEW k \in 1 .. Len(history[a]),
                      history[a][k] <= rows[a].ingest
               PROVE  k <= rows[a].version
    BY DEF IngestTimeIsSound
  <2>1. rows[a].id = a BY DEF IInv, TypeOK, Id
  <2> QED BY <2>1 DEF IInv, RowInv, Sound
<1> QED BY <1>1, Invariant, PTL

\* A command that exits with 0 has mirrored its source, up to ids others have
\* registered since.
THEOREM ExitZeroMirrors == Spec => []ExitZeroMeansMirrored
<1>1. IInv => ExitZeroMeansMirrored
  BY DEF IInv, CoverInv, Covered, ExitZeroMeansMirrored
<1> QED BY <1>1, Invariant, PTL

\* Rows never vanish, and only an overtaken command takes one back.
THEOREM OnlyOvertakenGoBack == Spec => BackOnlyIfOvertaken
<1>1. IInv /\ [Next]_vars =>
        [\A i \in Id :
           \/ rows'[i].version >= rows[i].version
           \/ rows'[i] # NoRow /\ \E c \in Cmd : pc[c] = "register" /\ i \in overtaken[c] /\ todo'[c] # todo[c]]_vars
  <2> SUFFICES ASSUME IInv, Next, NEW i \in Id
               PROVE  \/ rows'[i].version >= rows[i].version
                      \/ rows'[i] # NoRow /\ \E c \in Cmd : pc[c] = "register" /\ i \in overtaken[c] /\ todo'[c] # todo[c]
    OBVIOUS
  <2>0. rows[i].version \in Nat BY Versions DEF IInv
  <2>1. CASE rows' = rows BY <2>0, <2>1
  <2>2. ASSUME NEW c \in Cmd, Register(c)
        PROVE  \/ rows'[i].version >= rows[i].version
               \/ rows'[i] # NoRow /\ pc[c] = "register" /\ i \in overtaken[c] /\ todo'[c] # todo[c]
    <3>1. PICK e \in todo[c] :
            /\ rows' = [rows EXCEPT ![e.id] = e]
            /\ todo' = [todo EXCEPT ![c] = @ \ {e}]
            /\ pc[c] = "register"
      BY <2>2 DEF Register
    <3>2. e.id \in Id /\ e.version \in Nat /\ e.version > 0 BY Versions DEF IInv
    <3>3. CASE i # e.id BY <2>0, <3>1, <3>3 DEF IInv, TypeOK
    <3>4. CASE i = e.id
      <4>1. rows'[i] = e BY <3>1, <3>4 DEF IInv, TypeOK
      <4>2. e # NoRow BY <3>2 DEF NoRow
      <4>3. todo'[c] # todo[c] BY <3>1 DEF IInv, TypeOK
      <4>4. CASE i \in overtaken[c] BY <3>1, <4>1, <4>2, <4>3, <4>4
      <4>5. CASE i \notin overtaken[c]
        <5>1. rows[i].version <= e.version BY <3>4, <4>5 DEF IInv, FreshInv
        <5> QED BY <2>0, <3>2, <4>1, <5>1
      <4> QED BY <4>4, <4>5
    <3> QED BY <3>3, <3>4
  <2>3. rows' = rows \/ \E c \in Cmd : Register(c)
    BY DEF Next, ProductChanges, AlarmChanges, Command, SyncPayload, Bridge, Begin, Collect,
           SelectProducts, FetchParameters, FetchAlarms, Finish, GiveUp
  <2> QED BY <2>1, <2>2, <2>3
<1> QED BY <1>1, Invariant, PTL DEF Spec, BackOnlyIfOvertaken
=============================================================================
